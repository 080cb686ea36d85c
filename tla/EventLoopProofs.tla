---------------------------- MODULE EventLoopProofs ----------------------------
(***************************************************************************)
(* Proofs about EventLoop for any threads, events and number of jobs: its  *)
(* invariants, its action properties, and that it implements TaskLoop.     *)
(***************************************************************************)
EXTENDS EventLoop, SequenceTheorems, TLAPS

-------------------------------------------------------------------------------
(* The inductive invariant, part by part.                                    *)

\* The consumer is inside wait() only at getEvent, and only when told to wait.
WaitInv ==
  /\ NoLostWakeup
  /\ waiter # "running" => lpc = "get" /\ ~didJob

\* Between tasks there is no job left, but on the first pass or after an exit; a
\* pass that will wait has none at all.
JobsInv ==
  /\ lpc = "get" => jobs = 0 \/ (fresh /\ didJob)
  /\ lpc = "check" => jobs = 0 \/ (fresh /\ didJob) \/ shouldExit

\* kill() is under way, has interrupted, or was called for an error, only after
\* _shouldExit; whoever is past a test of it has started nothing since.
ExitInv ==
  /\ \A t \in Threads : killing[t] # "idle" => shouldExit
  /\ interrupt => shouldExit
  /\ error => shouldExit
  /\ result = "interrupted" => lpc = "catch" /\ shouldExit
  /\ tasksAfterExit <= 1
  /\ ~shouldExit \/ lpc \in {"get", "exec"} => tasksAfterExit = 0

IndInv == TypeOK /\ FifoOrder /\ WaitInv /\ JobsInv /\ ExitInv

-------------------------------------------------------------------------------
(* Type correctness.                                                         *)

\* The program starts in the invariant.
LEMMA InitEstablishes == Init => IndInv
<1> SUFFICES ASSUME Init PROVE IndInv
  OBVIOUS
<1> USE DEF Init, QueueInit
<1>1. QueueTypeOK
  BY DEF QueueTypeOK
<1>2. TypeOK
  <2>1. enqueued \in 0..MaxJobs
    BY LoopAssumption
  <2>2. /\ killing \in [Threads -> KillSteps \cup {"idle"}]
        /\ request \in [Threads -> Codes \cup {NoCode}]
        /\ \A t \in Threads : killing[t] = "idle"
    OBVIOUS
  <2> QED
    BY <1>1, <2>1, <2>2 DEF TypeOK
<1>3. FifoOrder
  BY DEF FifoOrder
<1>4. WaitInv
  BY DEF WaitInv, NoLostWakeup
<1>5. JobsInv
  BY DEF JobsInv
<1>6. ExitInv
  BY DEF ExitInv, Threads
<1> QED
  BY <1>2, <1>3, <1>4, <1>5, <1>6 DEF IndInv

\* Every variable keeps its type.
LEMMA TypeStep == TypeOK /\ [Next]_vars => TypeOK'
<1> SUFFICES ASSUME TypeOK, [Next]_vars PROVE TypeOK'
  OBVIOUS
<1> USE LoopAssumption DEF TypeOK, QueueTypeOK, queueVars, flagVars, jobVars, mainVars,
        taskVars, Threads, KillSteps
<1>1. CASE TaskSchedules
  BY <1>1 DEF TaskSchedules, Schedule, Push, InControl
<1>2. CASE TaskEnqueues
  BY <1>2 DEF TaskEnqueues
<1>3. CASE TaskExits
  BY <1>3 DEF TaskExits, KillBegins
<1>4. CASE MainFails
  BY <1>4 DEF MainFails, KillBegins
<1>5. CASE TaskEnds
  <2>1. CASE TaskReturns
    BY <2>1 DEF TaskReturns, AfterTask
  <2>2. CASE TaskThrows
    BY <2>2 DEF TaskThrows, Unwinds
  <2>3. CASE TaskInterrupted
    <3>1. lpc' \in {"idle", "drain", "catch"} /\ result' \in {result, "interrupted"}
      BY <2>3 DEF TaskInterrupted, AfterTask, Unwinds
    <3>2. didJob' \in BOOLEAN
      BY <2>3 DEF TaskInterrupted, AfterTask, Unwinds
    <3> QED
      BY <2>3, <3>1, <3>2 DEF TaskInterrupted
  <2> QED
    BY <1>5, <2>1, <2>2, <2>3 DEF TaskEnds
<1>6. CASE EvalModuleWithEventLoop
  BY <1>6 DEF EvalModuleWithEventLoop, LoopStarts
<1>7. CASE LoopCondition
  BY <1>7 DEF LoopCondition, LoopEnds
<1>8. CASE GetEvent
  <2>1. CASE GetEventBlocks(~didJob) /\ UNCHANGED <<lpc, didJob, fresh, taskVars>>
    BY <1>8, <2>1 DEF GetEvent, GetEventBlocks
  <2>2. ASSUME NEW e \in Events, GetEventTakes(e), lpc' = "event", started' = started + 1,
               TaskStarts, UNCHANGED didJob
        PROVE  TypeOK'
    <3>1. scheduledFunctions' \in Seq(Events)
      BY <2>2, HeadTailProperties DEF GetEventTakes
    <3>2. fresh' = FALSE /\ tasksAfterExit' \in Nat
      BY <2>2 DEF TaskStarts
    <3>3. started + 1 \in Nat /\ FALSE \in BOOLEAN
      OBVIOUS
    <3> QED
      BY <1>8, <2>2, <3>1, <3>2, <3>3 DEF GetEvent, GetEventTakes
  <2>3. CASE /\ GetEventEmpty(~didJob) /\ lpc' = IF didJob THEN "drain" ELSE "check"
             /\ didJob' = FALSE /\ UNCHANGED <<fresh, taskVars>>
    BY <1>8, <2>3 DEF GetEvent, GetEventEmpty
  <2> QED
    BY <1>8, <2>1, <2>2, <2>3 DEF GetEvent
<1>9. CASE DrainCondition
  BY <1>9 DEF DrainCondition
<1>10. CASE ExecutePendingJob
  <2>1. CASE jobs = 0
    BY <1>10, <2>1 DEF ExecutePendingJob
  <2>2. CASE jobs > 0
    <3>1. jobs - 1 \in Nat
      BY <2>2
    <3>2. fresh' = FALSE /\ tasksAfterExit' \in Nat
      BY <1>10, <2>2 DEF ExecutePendingJob, TaskStarts
    <3> QED
      BY <1>10, <2>2, <3>1, <3>2 DEF ExecutePendingJob
  <2> QED
    BY <2>1, <2>2
<1>11. CASE CatchAll
  BY <1>11 DEF CatchAll, LoopEnds
<1>12. CASE EvalScript
  BY <1>12 DEF EvalScript
<1>13. CASE RunEventLoop
  BY <1>13 DEF RunEventLoop, LoopStarts
<1>14. ASSUME NEW t \in Threads, KillStep(t) PROVE TypeOK'
  <2>1. CASE InterruptRuntime(t)
    BY <1>14, <2>1 DEF KillStep, InterruptRuntime
  <2>2. CASE NotifyEventLoop(t)
    BY <1>14, <2>2 DEF KillStep, NotifyEventLoop, Signal
  <2>3. CASE KillStoresCode(t)
    BY <1>14, <2>3 DEF KillStep, KillStoresCode
  <2>4. CASE ExitStoresCode(t)
    BY <1>14, <2>4 DEF KillStep, ExitStoresCode
  <2> QED
    BY <1>14, <2>1, <2>2, <2>3, <2>4 DEF KillStep
<1>15. ASSUME NEW t \in Killers, KillerCalls(t) PROVE TypeOK'
  BY <1>15 DEF KillerCalls, KillBegins
<1>16. ASSUME NEW s \in Senders, Schedule(s) PROVE TypeOK'
  BY <1>16 DEF Schedule, Push
<1>17. ASSUME NEW s \in Senders, ScheduleNotifies(s) PROVE TypeOK'
  BY <1>17 DEF ScheduleNotifies, Notify, Signal
<1>18. CASE Spurious
  BY <1>18 DEF Spurious, SpuriousWakeup
<1>19. CASE UNCHANGED vars
  BY <1>19 DEF vars
<1> QED
  BY <1>1, <1>2, <1>3, <1>4, <1>5, <1>6, <1>7, <1>8, <1>9, <1>10, <1>11, <1>12, <1>13,
     <1>14, <1>15, <1>16, <1>17, <1>18, <1>19 DEF Next, LoopStep

-------------------------------------------------------------------------------
(* Queue order.                                                              *)

\* Only a push and a getEvent that takes change the queue and its counters.
LEMMA FifoStep == TypeOK /\ FifoOrder /\ [Next]_vars => FifoOrder'
<1> SUFFICES ASSUME TypeOK, FifoOrder, [Next]_vars PROVE FifoOrder'
  OBVIOUS
<1>1. scheduledFunctions \in Seq(Events) /\ started \in Nat /\ scheduled \in Nat
  BY DEF TypeOK, QueueTypeOK
<1>2. ASSUME NEW s \in Senders, Schedule(s) PROVE FifoOrder'
  <2>1. /\ scheduledFunctions' = Append(scheduledFunctions, scheduled + 1)
        /\ scheduled' = scheduled + 1 /\ started' = started
    BY <1>2 DEF Schedule, Push, taskVars
  <2>2. /\ Len(scheduledFunctions') = Len(scheduledFunctions) + 1
        /\ \A i \in 1..Len(scheduledFunctions) : scheduledFunctions'[i] = scheduledFunctions[i]
        /\ scheduledFunctions'[Len(scheduledFunctions) + 1] = scheduled + 1
    BY <1>1, <1>2, <2>1, AppendProperties DEF Schedule
  <2> QED
    BY <1>1, <2>1, <2>2 DEF FifoOrder
<1>3. CASE GetEvent
  <2>1. CASE UNCHANGED <<scheduledFunctions, scheduled, started>>
    BY <2>1 DEF FifoOrder
  <2>2. ASSUME NEW e \in Events, GetEventTakes(e), started' = started + 1 PROVE FifoOrder'
    <3>1. /\ scheduledFunctions # <<>>
          /\ scheduledFunctions' = Tail(scheduledFunctions) /\ scheduled' = scheduled
      BY <1>3, <2>2 DEF GetEvent, GetEventTakes
    <3>2. /\ Len(scheduledFunctions) \in Nat
          /\ Len(scheduledFunctions') = Len(scheduledFunctions) - 1
          /\ \A i \in 1..Len(scheduledFunctions') : scheduledFunctions'[i] = scheduledFunctions[i + 1]
      BY <1>1, <3>1, HeadTailProperties, LenProperties
    <3> QED
      BY <1>1, <2>2, <3>1, <3>2 DEF FifoOrder
  <2> QED
    BY <1>3, <2>1, <2>2 DEF GetEvent, GetEventBlocks, GetEventEmpty, taskVars
<1>4. CASE UNCHANGED <<scheduledFunctions, scheduled, started>>
  BY <1>4 DEF FifoOrder
<1>5. \/ \E s \in Senders : Schedule(s)
      \/ GetEvent
      \/ UNCHANGED <<scheduledFunctions, scheduled, started>>
  BY LoopAssumption DEF Next, LoopStep, vars, queueVars, taskVars,
     TaskSchedules, TaskEnqueues, TaskExits, MainFails, TaskEnds, TaskReturns, TaskThrows,
     TaskInterrupted, EvalModuleWithEventLoop, LoopCondition, DrainCondition,
     ExecutePendingJob, CatchAll, EvalScript, RunEventLoop, KillerCalls, ScheduleNotifies,
     Notify, Spurious, SpuriousWakeup, KillStep, InterruptRuntime, NotifyEventLoop,
     KillStoresCode, ExitStoresCode
<1> QED
  BY <1>2, <1>3, <1>4, <1>5

-------------------------------------------------------------------------------
(* The consumer on the condition variable.                                   *)

\* A push leaves its sender between unlock and notify_one; only getEvent blocks.
LEMMA WaitStep == TypeOK /\ WaitInv /\ [Next]_vars => WaitInv'
<1> SUFFICES ASSUME TypeOK, WaitInv, [Next]_vars PROVE WaitInv'
  OBVIOUS
<1> USE DEF WaitInv, NoLostWakeup
<1>1. /\ waiter \in {"running", "blocked", "woken"}
      /\ sending \in [Senders -> BOOLEAN]
  BY DEF TypeOK, QueueTypeOK
<1>2. ASSUME NEW s \in Senders, Schedule(s) PROVE WaitInv'
  BY <1>1, <1>2 DEF Schedule, Push
<1>3. ASSUME NEW s \in Senders, ScheduleNotifies(s) PROVE WaitInv'
  BY <1>1, <1>3 DEF ScheduleNotifies, Notify, Signal
<1>4. ASSUME NEW t \in Threads, KillStep(t) PROVE WaitInv'
  BY <1>1, <1>4 DEF KillStep, InterruptRuntime, NotifyEventLoop, Signal,
     KillStoresCode, ExitStoresCode, queueVars
<1>5. CASE GetEvent
  BY <1>1, <1>5 DEF GetEvent, GetEventBlocks, GetEventTakes, GetEventEmpty
<1>6. CASE Spurious
  BY <1>6 DEF Spurious, SpuriousWakeup
<1>7. CASE UNCHANGED queueVars /\ (lpc # "get" \/ UNCHANGED <<lpc, didJob>>)
  BY <1>7 DEF queueVars
<1>8. \/ \E s \in Senders : Schedule(s) \/ ScheduleNotifies(s)
      \/ \E t \in Threads : KillStep(t)
      \/ GetEvent \/ Spurious
      \/ UNCHANGED queueVars /\ (lpc # "get" \/ UNCHANGED <<lpc, didJob>>)
  BY LoopAssumption DEF Next, LoopStep, vars, InControl, InTask,
     TaskSchedules, TaskEnqueues, TaskExits, MainFails, TaskEnds, TaskReturns, TaskThrows,
     TaskInterrupted, EvalModuleWithEventLoop, LoopCondition, DrainCondition,
     ExecutePendingJob, CatchAll, EvalScript, RunEventLoop, KillerCalls
<1> QED
  BY <1>2, <1>3, <1>4, <1>5, <1>6, <1>7, <1>8

-------------------------------------------------------------------------------
(* Jobs and exit.                                                            *)

\* Jobs are enqueued inside tasks, and a task leads back to the drain loop.
LEMMA JobsStep == TypeOK /\ JobsInv /\ [Next]_vars => JobsInv'
<1> SUFFICES ASSUME TypeOK, JobsInv, [Next]_vars PROVE JobsInv'
  OBVIOUS
<1> USE DEF JobsInv
<1>1. CASE lpc' \notin {"get", "check"}
  BY <1>1
<1>2. CASE LoopCondition
  BY <1>2 DEF LoopCondition, LoopEnds, jobVars, flagVars
<1>3. CASE GetEvent
  BY <1>3 DEF GetEvent, GetEventBlocks, GetEventTakes, GetEventEmpty, jobVars, flagVars
<1>4. CASE DrainCondition
  BY <1>4 DEF DrainCondition, jobVars, flagVars
<1>5. CASE ExecutePendingJob
  BY <1>5 DEF ExecutePendingJob
<1>6. CASE EvalModuleWithEventLoop \/ RunEventLoop
  BY <1>6 DEF EvalModuleWithEventLoop, RunEventLoop, LoopStarts
<1>7. CASE UNCHANGED <<lpc, jobs, fresh, didJob>> /\ (shouldExit => shouldExit')
  BY <1>7
<1>8. \/ lpc' \notin {"get", "check"}
      \/ LoopCondition \/ GetEvent \/ DrainCondition \/ ExecutePendingJob
      \/ EvalModuleWithEventLoop \/ RunEventLoop
      \/ UNCHANGED <<lpc, jobs, fresh, didJob>> /\ (shouldExit => shouldExit')
  BY DEF Next, LoopStep, vars, jobVars, flagVars, InControl, InTask, KillBegins,
     TaskSchedules, TaskEnqueues, TaskExits, MainFails, TaskEnds, TaskReturns, TaskThrows,
     TaskInterrupted, AfterTask, Unwinds, CatchAll, LoopEnds, EvalScript, KillerCalls,
     Schedule, ScheduleNotifies, Spurious, KillStep, InterruptRuntime, NotifyEventLoop,
     KillStoresCode, ExitStoresCode
<1> QED
  BY <1>1, <1>2, <1>3, <1>4, <1>5, <1>6, <1>7, <1>8

\* kill() stores _shouldExit before anything else, and nothing ever resets it.
LEMMA ExitStep == TypeOK /\ ExitInv /\ [Next]_vars => ExitInv'
<1> SUFFICES ASSUME TypeOK, ExitInv, [Next]_vars PROVE ExitInv'
  OBVIOUS
<1> USE DEF ExitInv, flagVars, jobVars, mainVars, taskVars
<1>1. /\ killing \in [Threads -> KillSteps \cup {"idle"}]
      /\ shouldExit \in BOOLEAN /\ tasksAfterExit \in Nat
  BY DEF TypeOK
<1>2. CASE TaskSchedules \/ TaskEnqueues \/ EvalModuleWithEventLoop \/ EvalScript
           \/ RunEventLoop \/ Spurious
  BY <1>2 DEF TaskSchedules, InControl, InTask, Schedule, TaskEnqueues,
     EvalModuleWithEventLoop, LoopStarts, EvalScript, RunEventLoop, Spurious
<1>3. ASSUME NEW t \in Threads, NEW code, KillBegins(t, code),
             UNCHANGED <<result, tasksAfterExit>>, lpc' = lpc
      PROVE  ExitInv'
  BY <1>1, <1>3 DEF KillBegins
<1>4. CASE TaskExits \/ MainFails \/ \E t \in Killers : KillerCalls(t)
  BY <1>3, <1>4 DEF TaskExits, MainFails, KillerCalls, Threads
<1>5. CASE TaskReturns \/ TaskThrows
  <2>1. /\ result # "interrupted" /\ lpc # "catch"
        /\ ~shouldExit => tasksAfterExit = 0
    BY <1>5 DEF TaskReturns, TaskThrows, InControl, InTask
  <2>2. CASE TaskReturns
    BY <2>1, <2>2 DEF TaskReturns, AfterTask
  <2>3. CASE TaskThrows
    BY <2>1, <2>3 DEF TaskThrows, Unwinds
  <2> QED
    BY <1>5, <2>2, <2>3
<1>6. CASE TaskInterrupted
  BY <1>6 DEF TaskInterrupted, InControl, InTask, AfterTask, Unwinds
<1>7. CASE LoopCondition
  BY <1>7 DEF LoopCondition, LoopEnds
<1>8. CASE GetEvent
  BY <1>1, <1>8 DEF GetEvent, GetEventBlocks, GetEventTakes, GetEventEmpty, TaskStarts
<1>9. CASE DrainCondition
  BY <1>9 DEF DrainCondition
<1>10. CASE ExecutePendingJob
  BY <1>1, <1>10 DEF ExecutePendingJob, TaskStarts
<1>11. CASE CatchAll
  BY <1>11 DEF CatchAll, LoopEnds
<1>12. ASSUME NEW t \in Threads, KillStep(t) PROVE ExitInv'
  BY <1>1, <1>12 DEF KillStep, InterruptRuntime, NotifyEventLoop, KillStoresCode, ExitStoresCode
<1>13. ASSUME NEW s \in Senders, Schedule(s) \/ ScheduleNotifies(s) PROVE ExitInv'
  BY <1>13 DEF Schedule, ScheduleNotifies
<1>14. CASE UNCHANGED vars
  BY <1>14 DEF vars
<1> QED
  BY <1>2, <1>4, <1>5, <1>6, <1>7, <1>8, <1>9, <1>10, <1>11, <1>12, <1>13, <1>14
  DEF Next, LoopStep, TaskEnds

-------------------------------------------------------------------------------
(* The theorems.                                                             *)

\* One step from the invariant ends in the invariant.
LEMMA IndStep == IndInv /\ [Next]_vars => IndInv'
  BY TypeStep, FifoStep, WaitStep, JobsStep, ExitStep DEF IndInv

\* Every reachable state satisfies the inductive invariant.
THEOREM Invariance == Spec => []IndInv
  BY InitEstablishes, IndStep, PTL DEF Spec

\* All variables keep their types.
THEOREM TypeCorrect == Spec => []TypeOK
<1>1. IndInv => TypeOK
  BY DEF IndInv
<1> QED
  BY Invariance, <1>1, PTL

\* Events are run in the order of their scheduleEvent, none lost, none repeated.
THEOREM EventsInOrder == Spec => []FifoOrder
<1>1. IndInv => FifoOrder
  BY DEF IndInv
<1> QED
  BY Invariance, <1>1, PTL

\* The loop never sleeps on a queue that holds an event nobody is about to signal.
THEOREM NoEventStranded == Spec => []NoLostWakeup
<1>1. IndInv => NoLostWakeup
  BY DEF IndInv, WaitInv
<1> QED
  BY Invariance, <1>1, PTL

\* The loop never sleeps while a JavaScript job is pending.
THEOREM JobsNeverWait == Spec => []NoWaitWithJobs
<1>1. IndInv => NoWaitWithJobs
  BY DEF IndInv, WaitInv, JobsInv, NoWaitWithJobs
<1> QED
  BY Invariance, <1>1, PTL

\* At most one task starts after _shouldExit is set, whoever sets it.
THEOREM ExitIsPrompt == Spec => []KillPrompt
<1>1. IndInv => KillPrompt
  BY DEF IndInv, ExitInv, KillPrompt
<1> QED
  BY Invariance, <1>1, PTL

\* From the second task of a run on, an event starts only when no job is pending.
THEOREM RunToCompletion == Spec => JobsBeforeEvents
<1>1. IndInv /\ [Next]_vars =>
        (lpc' = "event" /\ lpc # "event" => fresh \/ jobs = 0)
  <2> SUFFICES ASSUME IndInv, [Next]_vars, lpc' = "event", lpc # "event"
               PROVE  lpc = "get"
    BY DEF IndInv, JobsInv
  <2> QED
    BY DEF Next, LoopStep, vars, InControl, InTask,
       TaskSchedules, TaskEnqueues, TaskExits, MainFails, TaskEnds, TaskReturns, TaskThrows,
       TaskInterrupted, AfterTask, Unwinds, EvalModuleWithEventLoop, LoopStarts,
       LoopCondition, LoopEnds, GetEvent, DrainCondition, ExecutePendingJob, CatchAll,
       EvalScript, RunEventLoop, KillerCalls, Schedule, ScheduleNotifies, Spurious, KillStep
<1> QED
  BY Invariance, <1>1, PTL DEF Spec, JobsBeforeEvents

\* runEventLoop that ends with _error set throws it.
THEOREM FailedModuleIsReported == Spec => ErrorReported
<1>1. IndInv /\ [Next]_vars =>
        (error /\ lpc \notin {"idle", "script"} /\ lpc' = "idle" => result' = "error")
  <2> SUFFICES ASSUME IndInv, [Next]_vars, error, lpc \notin {"idle", "script"}, lpc' = "idle"
               PROVE  result' = "error"
    OBVIOUS
  <2>1. shouldExit
    BY DEF IndInv, ExitInv
  <2>2. LoopCondition \/ CatchAll
    BY DEF Next, LoopStep, vars, InControl, InTask,
       TaskSchedules, TaskEnqueues, TaskExits, MainFails, TaskEnds, TaskReturns, TaskThrows,
       TaskInterrupted, AfterTask, Unwinds, EvalModuleWithEventLoop, LoopStarts,
       GetEvent, DrainCondition, ExecutePendingJob,
       EvalScript, RunEventLoop, KillerCalls, Schedule, ScheduleNotifies, Spurious, KillStep
  <2> QED
    BY <2>1, <2>2 DEF LoopCondition, CatchAll, LoopEnds
<1> QED
  BY Invariance, <1>1, PTL DEF Spec, ErrorReported

\* The interrupt of kill() is never reported by runEventLoop.
THEOREM InterruptIsSwallowed == Spec => []KillIsQuiet
<1>1. IndInv => KillIsQuiet
  BY DEF IndInv, ExitInv, KillIsQuiet
<1> QED
  BY Invariance, <1>1, PTL

-------------------------------------------------------------------------------
(* Without threads that kill.                                                *)

\* What holds of the calls that JavaScript makes itself: between two of them the code is
\* that of the last one, and the flag that they set is seen before getEvent is called.
OwnCallsInv ==
  /\ killing[Loop] = "idle" => exitCode = IF request[Loop] = NoCode THEN 1 ELSE request[Loop]
  /\ lpc = "get" => ~shouldExit

\* The loop is inside of a task while JavaScript is inside of exit().
LEMMA OwnCallsStep ==
  ASSUME Killers = {}, TypeOK, OwnCallsInv, [Next]_vars
  PROVE  OwnCallsInv'
<1> USE DEF OwnCallsInv
<1>1. /\ Threads = {Loop} /\ killing \in [Threads -> KillSteps \cup {"idle"}]
      /\ request \in [Threads -> Codes \cup {NoCode}]
      /\ killing[Loop] = "exit" => request[Loop] # NoCode
  BY DEF TypeOK, Threads
<1>2. ASSUME NEW code \in Codes \cup {NoCode}, KillBegins(Loop, code), lpc # "get", lpc' = lpc
      PROVE  OwnCallsInv'
  BY <1>1, <1>2 DEF KillBegins
<1>3. CASE TaskExits \/ MainFails
  BY <1>2, <1>3 DEF TaskExits, MainFails, InControl, InTask
<1>4. CASE KillStep(Loop)
  BY <1>1, <1>4 DEF KillStep, InterruptRuntime, NotifyEventLoop, KillStoresCode, ExitStoresCode
<1>5. CASE LoopCondition
  BY <1>5 DEF LoopCondition, LoopEnds, flagVars
<1>6. CASE UNCHANGED <<killing, request, exitCode, shouldExit>> /\ (lpc' = "get" => lpc = "get")
  BY <1>6
<1>7. \/ TaskExits \/ MainFails \/ KillStep(Loop) \/ LoopCondition
      \/ UNCHANGED <<killing, request, exitCode, shouldExit>> /\ (lpc' = "get" => lpc = "get")
  BY <1>1 DEF Next, LoopStep, vars, flagVars, InControl, InTask,
     TaskSchedules, TaskEnqueues, TaskEnds, TaskReturns, TaskThrows, TaskInterrupted,
     AfterTask, Unwinds, EvalModuleWithEventLoop, LoopStarts, GetEvent, DrainCondition,
     ExecutePendingJob, CatchAll, LoopEnds, EvalScript, RunEventLoop, Schedule,
     ScheduleNotifies, Spurious
<1> QED
  BY <1>3, <1>4, <1>5, <1>6, <1>7

\* Only JavaScript calls exit() and kill(): what they leave is an invariant of every run.
LEMMA OwnCalls == Killers = {} => (Spec => []OwnCallsInv)
<1> SUFFICES ASSUME Killers = {} PROVE Spec => []OwnCallsInv
  OBVIOUS
<1>1. Init => OwnCallsInv
  BY DEF Init, OwnCallsInv, Threads
<1>2. TypeOK /\ OwnCallsInv /\ [Next]_vars => OwnCallsInv'
  BY OwnCallsStep
<1> QED
  BY <1>1, <1>2, TypeCorrect, PTL DEF Spec

\* getExitCode() after the loop returns what JavaScript's last exit() or kill() asked for.
THEOREM LastExitStands == Killers = {} => (Spec => []ExitCodeStands)
<1> SUFFICES ASSUME Killers = {} PROVE Spec => []ExitCodeStands
  OBVIOUS
<1>1. OwnCallsInv => ExitCodeStands
  BY DEF OwnCallsInv, ExitCodeStands
<1>2. Spec => []OwnCallsInv
  BY OwnCalls
<1> QED
  BY <1>1, <1>2, PTL

\* The lost wakeup of kill() needs another thread: JavaScript's own exit() cannot meet it.
THEOREM OwnExitIsSeen == Killers = {} => (Spec => []ExitFindsLoopAwake)
<1> SUFFICES ASSUME Killers = {} PROVE Spec => []ExitFindsLoopAwake
  OBVIOUS
<1>1. OwnCallsInv /\ IndInv => ExitFindsLoopAwake
  BY DEF OwnCallsInv, IndInv, WaitInv, ExitFindsLoopAwake
<1>2. Spec => []OwnCallsInv
  BY OwnCalls
<1> QED
  BY <1>1, <1>2, Invariance, PTL

-------------------------------------------------------------------------------
(* EventLoop implements TaskLoop.                                            *)

\* The loop starts as an abstract loop that is closed and has nothing to do.
LEMMA ViewInit == Init => TaskLoopView!Init
  BY DEF Init, QueueInit, TaskLoopView!Init, CurrentTask

\* Every step is a step of the abstract loop under the mapping, or none at all.
LEMMA ViewStep == IndInv /\ [Next]_vars => [TaskLoopView!Next]_(TaskLoopView!vars)
<1> SUFFICES ASSUME IndInv, [Next]_vars
             PROVE  TaskLoopView!Next \/ UNCHANGED TaskLoopView!vars
  OBVIOUS
<1> USE DEF TaskLoopView!Next, TaskLoopView!vars, CurrentTask,
        queueVars, jobVars, flagVars, mainVars, taskVars
<1>1. ASSUME NEW s \in Senders, Schedule(s) PROVE TaskLoopView!Post
  BY <1>1 DEF Schedule, Push, TaskLoopView!Post
<1>2. CASE TaskEnqueues
  BY <1>2 DEF TaskEnqueues, InControl, InTask, TaskLoopView!Enqueue
<1>3. ASSUME NEW t, NEW code, KillBegins(t, code), scheduledFunctions' = scheduledFunctions,
             UNCHANGED <<jobs, lpc, fresh, tasksAfterExit>>
      PROVE  TaskLoopView!Stop
  BY <1>3 DEF KillBegins, TaskLoopView!Stop
<1>4. CASE TaskExits \/ MainFails \/ \E t \in Killers : KillerCalls(t)
  BY <1>3, <1>4 DEF TaskExits, MainFails, KillerCalls
<1>5. CASE EvalScript
  BY <1>5 DEF EvalScript, TaskLoopView!Eval
<1>6. CASE RunEventLoop \/ EvalModuleWithEventLoop
  BY <1>6 DEF RunEventLoop, EvalModuleWithEventLoop, LoopStarts, TaskLoopView!Enter
<1>7. CASE GetEvent
  <2>1. ASSUME NEW e \in Events, GetEventTakes(e), lpc' = "event", TaskStarts, UNCHANGED jobs
        PROVE  TaskLoopView!BeginEvent
    BY <1>7, <2>1 DEF GetEvent, GetEventTakes, TaskStarts, IndInv, ExitInv, JobsInv,
       TaskLoopView!BeginEvent, TaskLoopView!Begins
  <2> QED
    BY <1>7, <2>1 DEF GetEvent, GetEventBlocks, GetEventEmpty
<1>8. CASE ExecutePendingJob
  <2>1. CASE jobs = 0
    BY <1>8, <2>1 DEF ExecutePendingJob
  <2>2. CASE jobs > 0
    BY <1>8, <2>2 DEF ExecutePendingJob, TaskStarts, IndInv, ExitInv,
       TaskLoopView!BeginJob, TaskLoopView!Begins
  <2> QED
    BY <1>8, <2>1, <2>2 DEF ExecutePendingJob
<1>9. CASE TaskEnds
  BY <1>9 DEF TaskEnds, TaskReturns, TaskThrows, TaskInterrupted, InControl, InTask,
     AfterTask, Unwinds, TaskLoopView!End, TaskLoopView!Leave
<1>10. CASE LoopCondition \/ CatchAll
  BY <1>10 DEF LoopCondition, CatchAll, LoopEnds, TaskLoopView!Leave
<1>11. CASE DrainCondition \/ Spurious
  BY <1>11 DEF DrainCondition, Spurious, SpuriousWakeup
<1>12. ASSUME NEW t \in Threads, KillStep(t) PROVE UNCHANGED TaskLoopView!vars
  BY <1>12 DEF KillStep, InterruptRuntime, NotifyEventLoop, KillStoresCode, ExitStoresCode
<1>13. ASSUME NEW s \in Senders, ScheduleNotifies(s) PROVE UNCHANGED TaskLoopView!vars
  BY <1>13 DEF ScheduleNotifies, Notify
<1>14. CASE UNCHANGED vars
  BY <1>14 DEF vars
<1> QED
  BY <1>1, <1>2, <1>4, <1>5, <1>6, <1>7, <1>8, <1>9, <1>10, <1>11, <1>12, <1>13, <1>14,
     LoopAssumption DEF Next, LoopStep, TaskSchedules

\* The event loop, with its threads and its condition variable, implements TaskLoop.
THEOREM Refinement == Spec => ImplementsTaskLoop
  BY ViewInit, ViewStep, Invariance, PTL DEF Spec, ImplementsTaskLoop, TaskLoopView!Spec
===============================================================================
