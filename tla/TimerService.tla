----------------------------- MODULE TimerService -----------------------------
(***************************************************************************)
(* What the timers promise to JavaScript, without threads, heap, queue or  *)
(* table: a timer that was set, and not cleared, is rung when it is due,   *)
(* none before another that is due earlier; an interval is due again its   *)
(* time after its callback has returned; cleared means that nothing rings  *)
(* any more, at once, wherever the timer was.                              *)
(***************************************************************************)
EXTENDS Integers

CONSTANTS Ids,       \* what a timer may be called
          Durations, \* the delays asked for
          None       \* no timer

Once == -1

VARIABLES
  now,
  used,    \* the ids handed out so far
  due,     \* the deadlines of the timers that wait, and of no others
  period,  \* of a timer: the time to its next round, Once when there will be none
  running, \* the timer whose callback runs
  open     \* nobody has begun to destroy the machine

vars == <<now, used, due, period, running, open>>

Init ==
  /\ now = 0 /\ used = {}
  /\ due = [i \in {} |-> 0]
  /\ period = [i \in Ids |-> Once]
  /\ running = None /\ open = TRUE

Waits(i) == i \in DOMAIN due

With(i, deadline) == [j \in DOMAIN due \cup {i} |-> IF j = i THEN deadline ELSE due[j]]
Without(i)        == [j \in DOMAIN due \ {i} |-> due[j]]

Tick ==
  /\ now' = now + 1
  /\ UNCHANGED <<used, due, period, running, open>>

\* An id is not used again.
Set(i) ==
  /\ open
  /\ i \notin used
  /\ used' = used \cup {i}
  /\ \E delay \in Durations, repeats \in BOOLEAN :
       /\ due' = With(i, now + delay)
       /\ period' = [period EXCEPT ![i] = IF repeats THEN delay ELSE Once]
  /\ UNCHANGED <<now, running, open>>

\* Also while its callback runs: there will be no other round then.
Clear(i) ==
  /\ open
  /\ i \in used
  /\ due' = Without(i)
  /\ period' = [period EXCEPT ![i] = Once]
  /\ UNCHANGED <<now, used, running, open>>

Fire(i) ==
  /\ open
  /\ running = None
  /\ Waits(i)
  /\ due[i] <= now
  /\ \A j \in DOMAIN due : due[i] <= due[j]
  /\ due' = Without(i)
  /\ running' = i
  /\ UNCHANGED <<now, used, period, open>>

Return ==
  /\ running # None
  /\ running' = None
  /\ due' = IF period[running] = Once THEN due ELSE With(running, now + period[running])
  /\ UNCHANGED <<now, used, period, open>>

\* A callback that throws is the last of its timer.
Throw ==
  /\ running # None
  /\ running' = None
  /\ UNCHANGED <<now, used, due, period, open>>

Close ==
  /\ running = None
  /\ open' = FALSE
  /\ due' = [i \in {} |-> 0]
  /\ UNCHANGED <<now, used, period, running>>

Next ==
  \/ Tick \/ Return \/ Throw \/ Close
  \/ \E i \in Ids : Set(i) \/ Clear(i) \/ Fire(i)

Spec == Init /\ [][Next]_vars
===============================================================================
