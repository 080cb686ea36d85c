CONSTANTS
  MaxTimers = 1
  MaxTime = 2
  Durations = {0, 1}
SPECIFICATION FairSpec
PROPERTIES DestructorReturns
CHECK_DEADLOCK FALSE
