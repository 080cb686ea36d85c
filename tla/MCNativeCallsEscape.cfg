CONSTANTS
  Interrupted = Interrupted
  Values = {v1, Interrupted}
  Unprintable = {}
  Types = {"TypeError", "InternalError", "RangeError"}
  None = None
  MaxDepth = 4
  MaxArgs = 2
  MaxThrows = 1
SPECIFICATION Spec
INVARIANTS NothingEscapes
CHECK_DEADLOCK FALSE
