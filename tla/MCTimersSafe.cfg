CONSTANTS
  MaxTimers = 2
  MaxTime = 2
  Durations = {0, 1, 2}
SPECIFICATION FairSpec
INVARIANTS OnePlace TableExact NoOversleep DeadlineOrder
PROPERTIES RingsOnlyWhenDue IntervalSpacing OwedOutlivesThread ImplementsTimerService DueIsServed
\* Once everything is destroyed and the clock has stopped nothing is left to do.
CHECK_DEADLOCK FALSE
