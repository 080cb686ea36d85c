\* One thread that schedules beside the loop's own tasks, one that kills.
CONSTANTS
  Loop = js
  Senders = {js, peer}
  Killers = {killer}
  Codes = {0}
  NoCode = NoCode
  Events = {1, 2, 3}
  MaxJobs = 2
SPECIFICATION Spec
INVARIANTS TypeOK NoLostWakeup NoWaitWithJobs KillPrompt KillIsQuiet
PROPERTIES JobsBeforeEvents ErrorReported ImplementsTaskLoop
