------------------------------- MODULE TaskLoop -------------------------------
(***************************************************************************)
(* What the event loop promises to JavaScript and to the host, without     *)
(* threads, locks or condition variables: tasks run one at a time, events  *)
(* in the order in which they were posted, all pending jobs between two    *)
(* events, and at most one more task once the loop has been told to stop.  *)
(***************************************************************************)
EXTENDS Naturals, Sequences

CONSTANT Events

VARIABLES
  pending,  \* the posted events, in order
  jobs,     \* how many jobs are pending
  current,  \* the kind of the running task; "none" between tasks, "closed" outside
  first,    \* no task has started since the loop was entered
  stopping, \* the loop has been told to stop
  grace     \* no task has started since it was told

vars == <<pending, jobs, current, first, stopping, grace>>

Init ==
  /\ pending = <<>> /\ jobs = 0
  /\ current = "closed" /\ first = TRUE
  /\ stopping = FALSE /\ grace = TRUE

Post ==
  /\ \E e \in Events : pending' = Append(pending, e)
  /\ UNCHANGED <<jobs, current, first, stopping, grace>>

\* Jobs come from running code only.
Enqueue ==
  /\ current \in {"script", "event", "job"}
  /\ jobs' = jobs + 1
  /\ UNCHANGED <<pending, current, first, stopping, grace>>

Stop ==
  /\ stopping' = TRUE
  /\ UNCHANGED <<pending, jobs, current, first, grace>>

Eval ==
  /\ current = "closed"
  /\ current' = "script"
  /\ UNCHANGED <<pending, jobs, first, stopping, grace>>

Enter ==
  /\ current \in {"closed", "script"}
  /\ current' = "none" /\ first' = TRUE
  /\ UNCHANGED <<pending, jobs, stopping, grace>>

\* One task at a time; the one that was about to start may still do so after Stop.
Begins ==
  /\ current = "none"
  /\ stopping => grace
  /\ grace' = ~stopping
  /\ first' = FALSE
  /\ UNCHANGED stopping

BeginEvent ==
  /\ Begins
  /\ first \/ jobs = 0
  /\ pending # <<>>
  /\ pending' = Tail(pending)
  /\ current' = "event"
  /\ UNCHANGED jobs

BeginJob ==
  /\ Begins
  /\ jobs > 0
  /\ jobs' = jobs - 1
  /\ current' = "job"
  /\ UNCHANGED pending

End ==
  /\ current \in {"event", "job"}
  /\ current' = "none"
  /\ UNCHANGED <<pending, jobs, first, stopping, grace>>

Leave ==
  /\ current \in {"none", "script"}
  /\ current' = "closed"
  /\ UNCHANGED <<pending, jobs, first, stopping, grace>>

Next ==
  \/ Post \/ Enqueue \/ Stop \/ Eval \/ Enter
  \/ BeginEvent \/ BeginJob \/ End \/ Leave

Spec == Init /\ [][Next]_vars
===============================================================================
