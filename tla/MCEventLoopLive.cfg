\* JavaScript calls exit(); another thread only schedules.
CONSTANTS
  Loop = js
  Senders = {js, peer}
  Killers = {}
  Codes = {0, 2}
  NoCode = NoCode
  Events = {1, 2}
  MaxJobs = 1
SPECIFICATION FairSpec
INVARIANTS ExitCodeStands ExitFindsLoopAwake
PROPERTIES EventServed ExitEndsLoop
