CONSTANTS
  Objects = {o1, o2, o3}
  Instances = {i1, i2}
  Wrappers = {w1, w2, w3, Frame}
  Frame = Frame
  None = None
  MaxRefs = 2
SPECIFICATION Spec
SYMMETRY Symmetry
INVARIANTS CountExact NoDangling InstanceLifetime SeenHasInstance
CHECK_DEADLOCK FALSE
