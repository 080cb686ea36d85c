CONSTANTS
  Machines = {m1, m2}
  Hosts = {m1}
  Names = {n1, n2}
  Instances = {i1, i2}
  None = None
  MaxProtos = 2
  Managers = {g1}
  Types = {a, b}
  MaxGroup = 2
  MaxCalls = 2
  MaxHeld = 3
SPECIFICATION Spec
SYMMETRY Symmetry
INVARIANTS ObjectsOfTheClass HeldInOrder
CHECK_DEADLOCK FALSE
