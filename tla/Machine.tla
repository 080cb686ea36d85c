------------------------------- MODULE Machine -------------------------------
(***************************************************************************)
(* MachineBase: eval, interruptRuntime and the watchdog, with the resets   *)
(* that the event loop makes before each task.                             *)
(*                                                                         *)
(* QuickJS calls the interrupt handler now and then while code runs; when  *)
(* the handler returns 1 the running code is unwound.  interruptRuntime    *)
(* may be called by any thread: it stores a plain bool, which the handler  *)
(* reads and clears in two steps.  Everything else happens on the thread   *)
(* that runs JavaScript; the watchdog callback takes its time.             *)
(***************************************************************************)
EXTENDS Naturals

CONSTANTS Timeouts,  \* the arguments of setWatchdogTimeout
          MaxTime,   \* bound: when the clock stops
          MaxCalls,  \* bound: how often the host interrupts, resets or configures
          MaxTasks   \* bound: how many tasks are run

ASSUME MachineAssumption ==
  /\ Timeouts \subseteq Nat
  /\ MaxTime \in Nat /\ MaxCalls \in Nat /\ MaxTasks \in Nat

VARIABLES
  now,             \* steady_clock
  pc,              \* where the JavaScript thread is
  home,            \* where it goes after the running code: out of eval, or to the loop
  interrupt,       \* _interrupt
  watchdogTimeout, \* _watchdogTimeout, 0 when disabled
  watchdogNext,    \* _watchdogNext
  hasHandler,      \* _wathdogCallback is set
  calls,           \* history: how many calls the host made
  tasks,           \* history: how many tasks were started
  raised,          \* history: how many of the calls were interruptRuntime
  interrupted,     \* history: how many tasks an interrupt ended
  owed,            \* history: the last interruptRuntime has ended no task yet
  since, granted   \* history: when the running code got its time, and how much

hostVars == <<calls, raised>>
grantVars == <<since, granted>>
interruptVars == <<interrupt, interrupted, owed>>
watchdogVars == <<watchdogTimeout, watchdogNext, hasHandler>>
vars == <<now, pc, home, interruptVars, watchdogVars, hostVars, tasks, grantVars>>

InCode == {"running", "polled", "callback"}

TypeOK ==
  /\ now \in 0..MaxTime
  /\ pc \in {"idle", "compile", "loop"} \cup InCode
  /\ home \in {"idle", "loop"}
  /\ interrupt \in BOOLEAN /\ owed \in BOOLEAN
  /\ watchdogTimeout \in Timeouts \cup {0} /\ watchdogNext \in Nat
  /\ hasHandler \in BOOLEAN
  /\ calls \in 0..MaxCalls /\ tasks \in 0..MaxTasks
  /\ raised \in Nat /\ interrupted \in Nat
  /\ since \in Nat /\ granted \in Nat

\* After initialize(): the watchdog is disabled.
Init ==
  /\ now = 0 /\ pc = "idle" /\ home = "idle"
  /\ interrupt = FALSE /\ owed = FALSE
  /\ watchdogTimeout = 0 /\ watchdogNext = 0 /\ hasHandler = FALSE
  /\ calls = 0 /\ tasks = 0 /\ raised = 0 /\ interrupted = 0
  /\ since = 0 /\ granted = 0

-------------------------------------------------------------------------------
(* The API.                                                                  *)

Tick ==
  /\ now < MaxTime
  /\ now' = now + 1
  /\ UNCHANGED <<pc, home, interruptVars, watchdogVars, hostVars, tasks, grantVars>>

\* A resetWatchdog that was left out.
NoReset == UNCHANGED watchdogNext

ResetWatchdog == watchdogNext' = now + watchdogTimeout

\* History of the time given to the code that runs.
Grant == since' = now /\ granted' = watchdogTimeout

Calls == calls < MaxCalls /\ calls' = calls + 1

\* The host itself, or native code called by JavaScript or by the watchdog.
HostCalls == pc \in {"idle", "loop", "running", "callback"} /\ Calls

InterruptRuntime ==
  /\ Calls
  /\ interrupt' = TRUE
  /\ raised' = raised + 1
  /\ owed' = TRUE
  /\ UNCHANGED <<now, pc, home, interrupted, watchdogVars, tasks, grantVars>>

\* The deadline stays what the last reset made it.
SetWatchdogTimeout ==
  /\ HostCalls
  /\ watchdogTimeout' \in Timeouts
  /\ UNCHANGED <<now, pc, home, interruptVars, watchdogNext, hasHandler, raised,
                 tasks, grantVars>>

SetWatchdogHandler ==
  /\ HostCalls
  /\ pc # "callback"
  /\ hasHandler' = TRUE
  /\ UNCHANGED <<now, pc, home, interruptVars, watchdogTimeout, watchdogNext, raised,
                 tasks, grantVars>>

HostResets ==
  /\ HostCalls
  /\ ResetWatchdog
  /\ Grant
  /\ UNCHANGED <<now, pc, home, interruptVars, watchdogTimeout, hasHandler, raised, tasks>>

-------------------------------------------------------------------------------
(* eval, and the tasks of the event loop.                                    *)

EvalCompiles ==
  /\ pc = "idle"
  /\ pc' = "compile"
  /\ ResetWatchdog
  /\ UNCHANGED <<now, home, interruptVars, watchdogTimeout, hasHandler, hostVars, tasks,
                 grantVars>>

\* A syntax error, or EvalFlags::CompileOnly.
EvalReturnsBytecode ==
  /\ pc = "compile"
  /\ pc' = "idle"
  /\ UNCHANGED <<now, home, interruptVars, watchdogVars, hostVars, tasks, grantVars>>

\* Code starts to run, with its time.
Starts ==
  /\ tasks < MaxTasks
  /\ tasks' = tasks + 1
  /\ pc' = "running"
  /\ ResetWatchdog
  /\ Grant

\* An evaluation that begins by dropping the interrupt left from before.
EvalRunsAfresh ==
  /\ pc = "compile"
  /\ Starts
  /\ home' = "idle"
  /\ interrupt' = FALSE
  /\ UNCHANGED <<now, interrupted, owed, watchdogTimeout, hasHandler, hostVars>>

EvalRuns ==
  /\ pc = "compile"
  /\ Starts
  /\ home' = "idle"
  /\ UNCHANGED <<now, interruptVars, watchdogTimeout, hasHandler, hostVars>>

RunEventLoop ==
  /\ pc = "idle"
  /\ pc' = "loop"
  /\ UNCHANGED <<now, home, interruptVars, watchdogVars, hostVars, tasks, grantVars>>

LoopReturns ==
  /\ pc = "loop"
  /\ pc' = "idle"
  /\ UNCHANGED <<now, home, interruptVars, watchdogVars, hostVars, tasks, grantVars>>

\* A job that runs on what is left of the time of the one before.
TaskStartsLate ==
  /\ pc = "loop"
  /\ tasks < MaxTasks
  /\ tasks' = tasks + 1
  /\ pc' = "running" /\ home' = "loop"
  /\ Grant
  /\ NoReset
  /\ UNCHANGED <<now, interruptVars, watchdogTimeout, hasHandler, hostVars>>

\* The loop resets the watchdog before an event and before each job.
TaskStarts ==
  /\ pc = "loop"
  /\ Starts
  /\ home' = "loop"
  /\ UNCHANGED <<now, interruptVars, watchdogTimeout, hasHandler, hostVars>>

CodeEnds ==
  /\ pc = "running"
  /\ pc' = home
  /\ UNCHANGED <<now, home, interruptVars, watchdogVars, hostVars, tasks, grantVars>>

-------------------------------------------------------------------------------
(* The interrupt handler.                                                    *)

\* It finds _interrupt set.
PollInterrupt ==
  /\ pc = "running"
  /\ interrupt
  /\ pc' = "polled"
  /\ UNCHANGED <<now, home, interruptVars, watchdogVars, hostVars, tasks, grantVars>>

\* The flag is left as it is.
ForgetsToClear ==
  /\ pc = "polled"
  /\ pc' = home
  /\ interrupted' = interrupted + 1
  /\ owed' = FALSE
  /\ UNCHANGED <<now, home, interrupt, watchdogVars, hostVars, tasks, grantVars>>

\* It clears the flag and has the code unwound.
ClearInterrupt ==
  /\ pc = "polled"
  /\ pc' = home
  /\ interrupt' = FALSE
  /\ interrupted' = interrupted + 1
  /\ owed' = FALSE
  /\ UNCHANGED <<now, home, watchdogVars, hostVars, tasks, grantVars>>

Expired == watchdogTimeout > 0 /\ now > watchdogNext

\* Without a callback nobody stops the code.
DefaultSpares ==
  /\ pc = "running"
  /\ ~interrupt
  /\ Expired
  /\ ResetWatchdog
  /\ Grant
  /\ pc' = IF hasHandler THEN "callback" ELSE "running"
  /\ UNCHANGED <<now, home, interruptVars, watchdogTimeout, hasHandler, hostVars, tasks>>

\* The deadline has passed: it moves on, and the callback, if there is one, is asked.
PollWatchdog ==
  /\ pc = "running"
  /\ ~interrupt
  /\ Expired
  /\ ResetWatchdog
  /\ Grant
  /\ pc' = IF hasHandler THEN "callback" ELSE home
  /\ UNCHANGED <<now, home, interruptVars, watchdogTimeout, hasHandler, hostVars, tasks>>

CallbackStops ==
  /\ pc = "callback"
  /\ pc' = home
  /\ UNCHANGED <<now, home, interruptVars, watchdogVars, hostVars, tasks, grantVars>>

CallbackDeclines ==
  /\ pc = "callback"
  /\ pc' = "running"
  /\ UNCHANGED <<now, home, interruptVars, watchdogVars, hostVars, tasks, grantVars>>

-------------------------------------------------------------------------------
Host == InterruptRuntime \/ SetWatchdogTimeout \/ SetWatchdogHandler \/ HostResets

Evaluation ==
  \/ EvalCompiles \/ EvalReturnsBytecode \/ EvalRuns
  \/ RunEventLoop \/ LoopReturns \/ TaskStarts \/ CodeEnds

InterruptHandler ==
  \/ PollInterrupt \/ ClearInterrupt \/ PollWatchdog
  \/ CallbackStops \/ CallbackDeclines

Next == Tick \/ Host \/ Evaluation \/ InterruptHandler

Spec == Init /\ [][Next]_vars

\* Time passes, QuickJS polls while code runs, and a callback returns. Code need not end.
FairSpec ==
  /\ Spec
  /\ WF_vars(Tick)
  /\ WF_vars(InterruptHandler)

-------------------------------------------------------------------------------
(* Properties.                                                               *)

\* interruptRuntime is never lost: from the call until a task was ended by it the flag
\* stands or the handler has already seen it, also when two calls race with the handler.
InterruptKept == owed => interrupt \/ pc = "polled"

\* One interruptRuntime ends at most one task.
InterruptEndsOne ==
  interrupted + (IF interrupt \/ pc = "polled" THEN 1 ELSE 0) <= raised

\* "The watchdog will be called when the timeout has passed since the last reset" (machine.h).
\* A timeout that is set while code runs is not counted from the last reset: watchdogNext
\* stays what it was.
TimeoutIsCurrent == [][PollWatchdog => now > since + watchdogTimeout]_vars

\* The watchdog has patience: whatever the host sets and resets under the code that runs,
\* it is not judged before the timeout has passed since its last reset, but for a timeout
\* that was made longer in between.
WatchdogPatience ==
  [][PollWatchdog /\ watchdogTimeout <= granted => now > since + watchdogTimeout]_vars

\* Code that never ends is stopped when its time is over and there is no callback to
\* spare it, unless the host intervenes or the clock of the model stops before that.
RunawayStopped ==
  \A c \in 0..MaxCalls :
    (pc = "running" /\ watchdogTimeout > 0 /\ ~hasHandler /\ watchdogNext < MaxTime /\ calls = c)
      ~> (pc # "running" \/ calls # c)
===============================================================================
