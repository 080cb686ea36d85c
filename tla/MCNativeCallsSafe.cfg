CONSTANTS
  Interrupted = Interrupted
  Values = {v1, v2, Interrupted}
  Unprintable = {v2, Interrupted}
  Types = {"TypeError", "InternalError", "RangeError"}
  None = None
  MaxDepth = 6
  MaxArgs = 2
  MaxThrows = 2
SPECIFICATION Spec
INVARIANTS Faithful ArgumentsFreedOnce
PROPERTY ImplementsExceptionFlow
CHECK_DEADLOCK FALSE
