------------------------------ MODULE EventLoop ------------------------------
(***************************************************************************)
(* EventLoopFeature on top of EventQueueFeature: the JavaScript thread     *)
(* that runs runEventLoop(), the threads that schedule events for it, and  *)
(* the threads that kill() it or exit() it.                                *)
(*                                                                         *)
(* An event is the number of its scheduleEvent call.  A task is one event  *)
(* closure or one pending JavaScript job; while it runs it may schedule    *)
(* events, enqueue jobs, call exit() or kill(), return or throw.  Every    *)
(* access to shared state that another thread can interleave with is a     *)
(* step of its own: the four stores of kill(), the tests of _shouldExit,   *)
(* the waits and signals of the queue.                                     *)
(***************************************************************************)
EXTENDS EventQueue

CONSTANTS Loop,     \* the thread that runs JavaScript
          Killers,  \* the other threads that may call kill() or exit()
          Codes,    \* the arguments of exit()
          NoCode,   \* stands for the absent argument of kill()
          MaxJobs   \* bound: how many jobs are enqueued in a behaviour

ASSUME LoopAssumption ==
  /\ Events \subseteq Nat \ {0}
  /\ Loop \in Senders /\ Loop \notin Killers
  /\ Codes \subseteq Nat /\ NoCode \notin Codes
  /\ MaxJobs \in Nat

VARIABLES
  lpc,         \* where the JavaScript thread is
  didJob,      \* the local of runEventLoop
  fresh,       \* history: runEventLoop has taken no event and run no job yet
  jobs,        \* QuickJS: the pending jobs
  enqueued,    \* history: the jobs enqueued so far
  shouldExit,  \* _shouldExit
  interrupt,   \* _interrupt of MachineBase
  exitCode,    \* _exitCode
  error,       \* _error holds an exception
  main,        \* the module's promise: none, watched by catch(fail), or failed
  result,      \* what the last runEventLoop did; in "catch", the exception in flight
  killing,     \* per thread: the next store of kill()/exit(), "idle" outside of them
  request,     \* per thread: the argument of its exit(), NoCode for kill()
  scheduled,   \* history: how many events were pushed
  started,     \* history: how many events were run
  tasksAfterExit \* history: how many tasks started with _shouldExit already true

flagVars == <<shouldExit, interrupt, exitCode, killing, request>>
jobVars  == <<jobs, enqueued>>
mainVars == <<error, main>>
taskVars == <<started, tasksAfterExit>>
vars == <<queueVars, lpc, didJob, fresh, jobVars, flagVars, mainVars, result,
          scheduled, taskVars>>

Threads == Killers \cup {Loop}
KillSteps == {"interrupt", "notify", "code", "exit"}

TypeOK ==
  /\ QueueTypeOK
  /\ lpc \in {"idle", "script", "check", "get", "event", "drain", "exec", "job", "catch"}
  /\ didJob \in BOOLEAN /\ fresh \in BOOLEAN
  /\ jobs \in Nat /\ enqueued \in 0..MaxJobs
  /\ shouldExit \in BOOLEAN /\ interrupt \in BOOLEAN /\ error \in BOOLEAN
  /\ exitCode \in Codes \cup {1}
  /\ main \in {"none", "watched", "failed"}
  /\ result \in {"none", "returned", "error", "exception", "interrupted"}
  /\ killing \in [Threads -> KillSteps \cup {"idle"}]
  /\ request \in [Threads -> Codes \cup {NoCode}]
  /\ \A t \in Threads : killing[t] = "exit" => request[t] # NoCode
  /\ scheduled \in Nat /\ started \in Nat /\ tasksAfterExit \in Nat

Init ==
  /\ QueueInit
  /\ lpc = "idle" /\ didJob = TRUE /\ fresh = TRUE
  /\ jobs = 0 /\ enqueued = 0
  /\ shouldExit = FALSE /\ interrupt = FALSE /\ exitCode = 1
  /\ error = FALSE /\ main = "none" /\ result = "none"
  /\ killing = [t \in Threads |-> "idle"]
  /\ request = [t \in Threads |-> NoCode]
  /\ scheduled = 0 /\ started = 0 /\ tasksAfterExit = 0

-------------------------------------------------------------------------------
(* kill() and exit(code), from any thread.                                   *)

\* The interrupt raised before the flag.
InterruptFirst(t, code) ==
  /\ killing[t] = "idle"
  /\ interrupt' = TRUE
  /\ killing' = [killing EXCEPT ![t] = "interrupt"]
  /\ request' = [request EXCEPT ![t] = code]
  /\ UNCHANGED <<shouldExit, exitCode>>

\* The call, and its first store: _shouldExit = true.
KillBegins(t, code) ==
  /\ killing[t] = "idle"
  /\ shouldExit' = TRUE
  /\ killing' = [killing EXCEPT ![t] = "interrupt"]
  /\ request' = [request EXCEPT ![t] = code]
  /\ UNCHANGED <<interrupt, exitCode>>

InterruptRuntime(t) ==
  /\ killing[t] = "interrupt"
  /\ interrupt' = TRUE
  /\ killing' = [killing EXCEPT ![t] = "notify"]
  /\ UNCHANGED <<shouldExit, exitCode, queueVars>>

\* notifyEventLoop() signals without having taken the mutex.
NotifyEventLoop(t) ==
  /\ killing[t] = "notify"
  /\ Signal
  /\ killing' = [killing EXCEPT ![t] = "code"]
  /\ UNCHANGED <<shouldExit, interrupt, exitCode, scheduledFunctions, sending>>

\* kill() stores 1; exit() goes on to store its argument.
KillStoresCode(t) ==
  /\ killing[t] = "code"
  /\ exitCode' = 1
  /\ killing' = [killing EXCEPT ![t] = IF request[t] = NoCode THEN "idle" ELSE "exit"]
  /\ UNCHANGED <<shouldExit, interrupt, queueVars>>

\* An exit() whose argument does not survive its own kill().
ExitForgetsCode(t) ==
  /\ killing[t] = "exit"
  /\ killing' = [killing EXCEPT ![t] = "idle"]
  /\ UNCHANGED <<exitCode, shouldExit, interrupt, queueVars>>

ExitStoresCode(t) ==
  /\ killing[t] = "exit"
  /\ exitCode' = request[t]
  /\ killing' = [killing EXCEPT ![t] = "idle"]
  /\ UNCHANGED <<shouldExit, interrupt, queueVars>>

KillStep(t) ==
  /\ \/ InterruptRuntime(t) \/ NotifyEventLoop(t)
     \/ KillStoresCode(t) \/ ExitStoresCode(t)
  /\ UNCHANGED <<lpc, didJob, fresh, jobVars, request, mainVars, result, scheduled, taskVars>>

KillerCalls(t) ==
  /\ \E code \in Codes \cup {NoCode} : KillBegins(t, code)
  /\ UNCHANGED <<queueVars, lpc, didJob, fresh, jobVars, mainVars, result, scheduled, taskVars>>

-------------------------------------------------------------------------------
(* The other threads that schedule events, and the condition variable.      *)

\* The event is the next number; Events bounds how many there are.
Schedule(s) ==
  /\ scheduled + 1 \in Events
  /\ Push(s, scheduled + 1)
  /\ scheduled' = scheduled + 1
  /\ UNCHANGED <<lpc, didJob, fresh, jobVars, flagVars, mainVars, result, taskVars>>

ScheduleNotifies(s) ==
  /\ Notify(s)
  /\ UNCHANGED <<lpc, didJob, fresh, jobVars, flagVars, mainVars, result, scheduled, taskVars>>

Spurious ==
  /\ SpuriousWakeup
  /\ UNCHANGED <<lpc, didJob, fresh, jobVars, flagVars, mainVars, result, scheduled, taskVars>>

-------------------------------------------------------------------------------
(* What JavaScript and native code do on the JavaScript thread.             *)

InTask == lpc \in {"script", "event", "job"}

\* Control is in the task itself, not inside a call it makes.
InControl == InTask /\ ~sending[Loop] /\ killing[Loop] = "idle"

TaskSchedules == InControl /\ Schedule(Loop)

TaskEnqueues ==
  /\ InControl
  /\ enqueued < MaxJobs
  /\ jobs' = jobs + 1
  /\ enqueued' = enqueued + 1
  /\ UNCHANGED <<queueVars, lpc, didJob, fresh, flagVars, mainVars, result, scheduled, taskVars>>

TaskExits ==
  /\ InControl
  /\ \E code \in Codes \cup {NoCode} : KillBegins(Loop, code)
  /\ UNCHANGED <<queueVars, lpc, didJob, fresh, jobVars, mainVars, result, scheduled, taskVars>>

\* The reaction job of the module's rejected promise: _error, then kill().
MainFails ==
  /\ InControl /\ lpc = "job"
  /\ main = "watched"
  /\ main' = "failed"
  /\ error' = TRUE
  /\ KillBegins(Loop, NoCode)
  /\ UNCHANGED <<queueVars, lpc, didJob, fresh, jobVars, result, scheduled, taskVars>>

\* The end of a task: an event resets didJob, a job sets it; eval leaves the loop alone.
AfterTask ==
  /\ lpc' = IF lpc = "script" THEN "idle" ELSE "drain"
  /\ didJob' = CASE lpc = "event" -> FALSE [] lpc = "job" -> TRUE [] OTHER -> didJob
  /\ result' = result

\* An exception leaves eval, or goes to the catch of runEventLoop.
Unwinds(kind) ==
  /\ lpc' = IF lpc = "script" THEN "idle" ELSE "catch"
  /\ result' = IF lpc = "script" THEN result ELSE kind
  /\ didJob' = didJob

TaskReturns ==
  /\ InControl
  /\ AfterTask
  /\ UNCHANGED <<queueVars, fresh, jobVars, flagVars, mainVars, scheduled, taskVars>>

TaskThrows ==
  /\ InControl
  /\ Unwinds("exception")
  /\ UNCHANGED <<queueVars, fresh, jobVars, flagVars, mainVars, scheduled, taskVars>>

\* QuickJS polls the interrupt handler, which clears the flag and has the running
\* code unwound; a promise job or a native closure may turn that into a normal end.
TaskInterrupted ==
  /\ InControl
  /\ interrupt
  /\ interrupt' = FALSE
  /\ AfterTask \/ Unwinds("interrupted")
  /\ UNCHANGED <<queueVars, fresh, jobVars, shouldExit, exitCode, killing, request,
                 mainVars, scheduled, taskVars>>

-------------------------------------------------------------------------------
(* eval and runEventLoop.                                                    *)

EvalScript ==
  /\ lpc = "idle"
  /\ lpc' = "script"
  /\ UNCHANGED <<queueVars, didJob, fresh, jobVars, flagVars, mainVars, result, scheduled, taskVars>>

\* The first pass would wait although eval left jobs behind.
StartsWithoutJob(promise) ==
  /\ lpc' = "check"
  /\ didJob' = FALSE /\ fresh' = TRUE
  /\ main' = promise

\* runEventLoop, with the module's promise watched or not.
LoopStarts(promise) ==
  /\ lpc' = "check"
  /\ didJob' = TRUE /\ fresh' = TRUE
  /\ main' = promise

RunEventLoop ==
  /\ lpc = "idle"
  /\ LoopStarts(main)
  /\ UNCHANGED <<queueVars, jobVars, flagVars, error, result, scheduled, taskVars>>

\* evalModuleWithEventLoop: the module has run, its promise gets catch(fail).
\* Bound: one module is evaluated this way.
EvalModuleWithEventLoop ==
  /\ InControl /\ lpc = "script"
  /\ main = "none"
  /\ LoopStarts("watched")
  /\ UNCHANGED <<queueVars, jobVars, flagVars, error, result, scheduled, taskVars>>

\* After the try block: throw _error if there is one, else return.
LoopEnds ==
  /\ lpc' = "idle"
  /\ result' = IF error THEN "error" ELSE "returned"

\* while (true): only the drain loop looks at _shouldExit.
LoopsForever ==
  /\ lpc = "check"
  /\ lpc' = "get"
  /\ UNCHANGED <<queueVars, didJob, fresh, jobVars, flagVars, mainVars, result, scheduled, taskVars>>

LoopCondition ==
  /\ lpc = "check"
  /\ IF shouldExit THEN LoopEnds ELSE lpc' = "get" /\ result' = result
  /\ UNCHANGED <<queueVars, didJob, fresh, jobVars, flagVars, mainVars, scheduled, taskVars>>

\* History of a task that starts: was the loop told to end by then?
TaskStarts ==
  /\ fresh' = FALSE
  /\ tasksAfterExit' = IF shouldExit THEN tasksAfterExit + 1 ELSE tasksAfterExit

GetEvent ==
  /\ lpc = "get"
  /\ \/ GetEventBlocks(~didJob) /\ UNCHANGED <<lpc, didJob, fresh, taskVars>>
     \/ /\ \E e \in Events : GetEventTakes(e)
        /\ lpc' = "event"
        /\ started' = started + 1
        /\ TaskStarts
        /\ UNCHANGED didJob
     \/ /\ GetEventEmpty(~didJob)
        /\ lpc' = IF didJob THEN "drain" ELSE "check"
        /\ didJob' = FALSE
        /\ UNCHANGED <<fresh, taskVars>>
  /\ UNCHANGED <<jobVars, flagVars, mainVars, result, scheduled>>

\* The drain loop without its test of _shouldExit.
DrainRegardless ==
  /\ lpc = "drain"
  /\ lpc' = "exec"
  /\ UNCHANGED <<queueVars, didJob, fresh, jobVars, flagVars, mainVars, result, scheduled, taskVars>>

DrainCondition ==
  /\ lpc = "drain"
  /\ lpc' = IF shouldExit THEN "check" ELSE "exec"
  /\ UNCHANGED <<queueVars, didJob, fresh, jobVars, flagVars, mainVars, result, scheduled, taskVars>>

\* A drain that runs one job a pass instead of all of them.
ExecuteOneJob ==
  /\ lpc = "exec"
  /\ lpc' = IF jobs = 0 \/ didJob THEN "check" ELSE "job"
  /\ jobs' = IF jobs = 0 \/ didJob THEN jobs ELSE jobs - 1
  /\ IF lpc' = "job" THEN TaskStarts ELSE UNCHANGED <<fresh, tasksAfterExit>>
  /\ UNCHANGED <<queueVars, didJob, enqueued, flagVars, mainVars, result, scheduled, started>>

\* A drain that does not look at what JS_ExecutePendingJob returned.
ExecuteUnchecked ==
  /\ lpc = "exec"
  /\ jobs' = jobs - 1
  /\ lpc' = "job"
  /\ TaskStarts
  /\ UNCHANGED <<queueVars, didJob, enqueued, flagVars, mainVars, result, scheduled, started>>

\* JS_ExecutePendingJob: 0 when there is none, else the job runs to its end.
ExecutePendingJob ==
  /\ lpc = "exec"
  /\ \/ /\ jobs = 0
        /\ lpc' = "check"
        /\ UNCHANGED <<jobs, fresh, tasksAfterExit>>
     \/ /\ jobs > 0
        /\ jobs' = jobs - 1
        /\ lpc' = "job"
        /\ TaskStarts
  /\ UNCHANGED <<queueVars, didJob, enqueued, flagVars, mainVars, result, scheduled, started>>

\* A catch block that returns: _error is never looked at.
CatchReturns ==
  /\ lpc = "catch"
  /\ lpc' = "idle"
  /\ result' = IF shouldExit THEN "returned" ELSE result
  /\ UNCHANGED <<queueVars, didJob, fresh, jobVars, flagVars, mainVars, scheduled, taskVars>>

\* catch (...): swallow what an exiting loop throws, rethrow anything else.
CatchAll ==
  /\ lpc = "catch"
  /\ IF shouldExit THEN LoopEnds ELSE lpc' = "idle" /\ result' = result
  /\ UNCHANGED <<queueVars, didJob, fresh, jobVars, flagVars, mainVars, scheduled, taskVars>>

-------------------------------------------------------------------------------
TaskEnds == TaskReturns \/ TaskThrows \/ TaskInterrupted

\* The steps of the JavaScript thread inside eval and the loop.
LoopStep ==
  \/ TaskSchedules \/ TaskEnqueues \/ TaskExits \/ MainFails \/ TaskEnds
  \/ EvalModuleWithEventLoop
  \/ LoopCondition \/ GetEvent \/ DrainCondition \/ ExecutePendingJob \/ CatchAll

Next ==
  \/ LoopStep \/ EvalScript \/ RunEventLoop
  \/ \E t \in Threads : KillStep(t)
  \/ \E t \in Killers : KillerCalls(t)
  \/ \E s \in Senders \ {Loop} : Schedule(s)
  \/ \E s \in Senders : ScheduleNotifies(s)
  \/ Spurious

Spec == Init /\ [][Next]_vars

\* A thread that is inside a call gets to run, and a task that can end does (one
\* that never does is the watchdog's business).  Nothing is owed by the embedder,
\* who need not call anything, nor by the condition variable: no spurious wakeups.
Fairness ==
  /\ WF_vars(LoopStep)
  /\ SF_vars(TaskEnds)
  /\ \A t \in Threads : WF_vars(KillStep(t))
  /\ \A s \in Senders : WF_vars(ScheduleNotifies(s))

FairSpec == Spec /\ Fairness

-------------------------------------------------------------------------------
(* Safety.                                                                   *)

\* Events run in the order scheduleEvent pushed them, none lost, none twice: what
\* is queued is exactly what was pushed and not yet started, in order.
FifoOrder ==
  /\ scheduled = started + Len(scheduledFunctions)
  /\ \A i \in 1..Len(scheduledFunctions) : scheduledFunctions[i] = started + i

\* The loop never sleeps on the condition variable while a job is pending: nobody
\* would signal it, and the job would wait for an unrelated event.
NoWaitWithJobs == waiter = "blocked" => lpc = "get" /\ jobs = 0

\* Run to completion: an event starts only when no job is pending, but for the
\* first pass, which takes an event before it drains what eval left behind.
JobsBeforeEvents ==
  [][lpc' = "event" /\ lpc # "event" => fresh \/ jobs = 0]_vars

\* After kill() or exit() has set _shouldExit the loop starts at most one more
\* task, the one whose condition was already past its test.
KillPrompt == tasksAfterExit <= 1

\* The interrupt raised by kill() never surfaces from runEventLoop as an error.
KillIsQuiet == lpc = "idle" => result # "interrupted"

\* A failed module is reported: whenever runEventLoop ends with _error set it
\* throws _error, whatever the interrupt of kill() did to the job that set it.
ErrorReported ==
  [][error /\ lpc \notin {"idle", "script"} /\ lpc' = "idle" => result' = "error"]_vars

\* Without other threads that kill, exit(code) called by JavaScript stands until
\* a later exit() or kill() of its own: getExitCode() returns it after the loop.
ExitCodeStands ==
  lpc = "idle" /\ killing[Loop] = "idle" =>
    exitCode = IF request[Loop] = NoCode THEN 1 ELSE request[Loop]

\* Without other threads that kill, an exit() or kill() called by JavaScript never meets a
\* loop that sleeps, or is about to: notifyEventLoop(), which signals without the mutex,
\* has nobody to wake then.
ExitFindsLoopAwake == lpc = "get" \/ waiter # "running" => ~shouldExit

-------------------------------------------------------------------------------
(* Liveness.                                                                 *)

InLoop == lpc \notin {"idle", "script"}

\* An event scheduled while the loop runs is run, unless the loop ends first.
EventServed ==
  \A e \in Events : (scheduled >= e /\ InLoop) ~> (started >= e \/ ~InLoop)

\* Once exit() or kill() has been called, runEventLoop ends.
ExitEndsLoop == (shouldExit /\ InLoop) ~> ~InLoop

-------------------------------------------------------------------------------
(* The loop as its users see it.                                             *)
\* The kind of task the loop is in, none between two of them.
CurrentTask == CASE lpc \in {"event", "job", "script"} -> lpc
                 [] lpc = "idle" -> "closed"
                 [] OTHER -> "none"

TaskLoopView == INSTANCE TaskLoop WITH
  pending  <- scheduledFunctions,
  jobs     <- jobs,
  current  <- CurrentTask,
  first    <- fresh,
  stopping <- shouldExit,
  grace    <- (tasksAfterExit = 0)

\* The threads, the condition variable and didJob implement the abstract task loop.
ImplementsTaskLoop == TaskLoopView!Spec

===============================================================================
