\* A second thread calls kill() while the loop goes to sleep.
CONSTANTS
  Loop = js
  Senders = {js}
  Killers = {killer}
  Codes = {0}
  NoCode = NoCode
  Events = {1}
  MaxJobs = 1
SPECIFICATION FairSpec
PROPERTIES ExitEndsLoop
