CONSTANTS
  Machines = {m1}
  Hosts = {m1}
  Names = {n1}
  Instances = {i1}
  None = None
  MaxProtos = 1
  Managers = {g1, g2}
  Types = {a, b}
  MaxGroup = 2
  MaxCalls = 2
  MaxHeld = 4
SPECIFICATION Spec
INVARIANTS HandleFindsPlugin
CHECK_DEADLOCK FALSE
