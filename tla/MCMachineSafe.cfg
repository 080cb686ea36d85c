CONSTANTS
  Timeouts = {0, 1, 2}
  MaxTime = 5
  MaxCalls = 4
  MaxTasks = 2
SPECIFICATION FairSpec
INVARIANTS InterruptKept InterruptEndsOne
PROPERTIES WatchdogPatience RunawayStopped
