---------------------------- MODULE MachineProofs ----------------------------
(***************************************************************************)
(* Proofs about Machine for any timeouts and any number of calls, tasks    *)
(* and ticks.                                                              *)
(***************************************************************************)
EXTENDS Machine, TLAPS

\* The deadline is that of the last grant whenever the handler may look at it.
DeadlineInv == pc \in {"running", "callback"} => watchdogNext = since + granted

IndInv == TypeOK /\ InterruptKept /\ InterruptEndsOne /\ DeadlineInv

-------------------------------------------------------------------------------
\* The machine starts in the invariant, with the watchdog disabled.
LEMMA InitEstablishes == Init => IndInv
<1> SUFFICES ASSUME Init PROVE IndInv
  OBVIOUS
<1>1. TypeOK
  <2>1. interrupt \in BOOLEAN /\ owed \in BOOLEAN /\ hasHandler \in BOOLEAN
    BY DEF Init
  <2>2. now \in 0..MaxTime /\ calls \in 0..MaxCalls /\ tasks \in 0..MaxTasks
    BY MachineAssumption DEF Init
  <2> QED
    BY <2>1, <2>2 DEF Init, TypeOK
<1>2. InterruptKept /\ InterruptEndsOne /\ DeadlineInv
  BY DEF Init, InterruptKept, InterruptEndsOne, DeadlineInv
<1> QED
  BY <1>1, <1>2 DEF IndInv

\* Every variable keeps its type; a deadline is a sum of numbers.
LEMMA TypeStep == TypeOK /\ [Next]_vars => TypeOK'
<1> SUFFICES ASSUME TypeOK, [Next]_vars PROVE TypeOK'
  OBVIOUS
<1>1. now \in Nat /\ watchdogTimeout \in Nat /\ now + watchdogTimeout \in Nat
  BY MachineAssumption DEF TypeOK
<1> USE MachineAssumption DEF TypeOK, InCode, interruptVars, watchdogVars, hostVars, grantVars
<1>2. CASE Tick
  BY <1>2 DEF Tick
<1>3. CASE Host
  <2>1. CASE InterruptRuntime
    BY <2>1 DEF InterruptRuntime, Calls
  <2>2. CASE SetWatchdogTimeout
    BY <2>2 DEF SetWatchdogTimeout, HostCalls, Calls
  <2>3. CASE SetWatchdogHandler
    BY <2>3 DEF SetWatchdogHandler, HostCalls, Calls
  <2>4. CASE HostResets
    BY <1>1, <2>4 DEF HostResets, HostCalls, Calls, ResetWatchdog, Grant
  <2> QED
    BY <1>3, <2>1, <2>2, <2>3, <2>4 DEF Host
<1>4. CASE Evaluation
  <2>1. CASE EvalCompiles
    BY <1>1, <2>1 DEF EvalCompiles, ResetWatchdog
  <2>2. CASE EvalRuns \/ TaskStarts
    BY <1>1, <2>2 DEF EvalRuns, TaskStarts, Starts, ResetWatchdog, Grant
  <2>3. CASE EvalReturnsBytecode \/ RunEventLoop \/ LoopReturns
    BY <2>3 DEF EvalReturnsBytecode, RunEventLoop, LoopReturns
  <2>4. CASE CodeEnds
    BY <2>4 DEF CodeEnds
  <2> QED
    BY <1>4, <2>1, <2>2, <2>3, <2>4 DEF Evaluation
<1>5. CASE InterruptHandler
  <2>1. CASE PollInterrupt \/ CallbackDeclines
    BY <2>1 DEF PollInterrupt, CallbackDeclines
  <2>2. CASE ClearInterrupt
    <3>1. interrupt' \in BOOLEAN /\ owed' \in BOOLEAN
      BY <2>2 DEF ClearInterrupt
    <3>2. pc' \in {"idle", "loop"}
      BY <2>2 DEF ClearInterrupt
    <3> QED
      BY <2>2, <3>1, <3>2 DEF ClearInterrupt
  <2>3. CASE PollWatchdog
    BY <1>1, <2>3 DEF PollWatchdog, ResetWatchdog, Grant
  <2>4. CASE CallbackStops
    BY <2>4 DEF CallbackStops
  <2> QED
    BY <1>5, <2>1, <2>2, <2>3, <2>4 DEF InterruptHandler
<1>6. CASE UNCHANGED vars
  BY <1>6 DEF vars
<1> QED
  BY <1>2, <1>3, <1>4, <1>5, <1>6 DEF Next

\* Only interruptRuntime raises the flag, and only the handler clears it, on its way
\* to end a task.
LEMMA InterruptStep ==
  TypeOK /\ InterruptKept /\ InterruptEndsOne /\ [Next]_vars
    => InterruptKept' /\ InterruptEndsOne'
<1> SUFFICES ASSUME TypeOK, InterruptKept, InterruptEndsOne, [Next]_vars
             PROVE  InterruptKept' /\ InterruptEndsOne'
  OBVIOUS
<1> USE DEF InterruptKept, InterruptEndsOne, interruptVars, hostVars
<1>1. interrupted \in Nat /\ raised \in Nat
  BY DEF TypeOK
<1>2. CASE InterruptRuntime
  BY <1>1, <1>2 DEF InterruptRuntime
<1>3. CASE Tick \/ SetWatchdogTimeout \/ SetWatchdogHandler \/ HostResets
  BY <1>3 DEF Tick, SetWatchdogTimeout, SetWatchdogHandler, HostResets
<1>4. CASE Evaluation
  <2>1. UNCHANGED <<interrupt, interrupted, owed, raised>>
    BY <1>4 DEF Evaluation, EvalCompiles, EvalReturnsBytecode, EvalRuns, RunEventLoop,
       LoopReturns, TaskStarts, Starts, CodeEnds
  <2>2. pc # "polled" /\ pc' # "polled"
    BY <1>4 DEF Evaluation, EvalCompiles, EvalReturnsBytecode, EvalRuns, RunEventLoop,
       LoopReturns, TaskStarts, Starts, CodeEnds, TypeOK
  <2> QED
    BY <1>1, <2>1, <2>2
<1>5. CASE PollInterrupt
  BY <1>5 DEF PollInterrupt
<1>6. CASE ClearInterrupt
  <2>1. ~interrupt' /\ ~owed' /\ interrupted' = interrupted + 1 /\ raised' = raised
    BY <1>6 DEF ClearInterrupt
  <2>2. interrupted + 1 <= raised
    BY <1>6 DEF ClearInterrupt
  <2>3. pc' # "polled"
    BY <1>6 DEF ClearInterrupt, TypeOK
  <2> QED
    BY <1>1, <2>1, <2>2, <2>3
<1>7. CASE PollWatchdog \/ CallbackStops \/ CallbackDeclines
  BY <1>7 DEF PollWatchdog, CallbackStops, CallbackDeclines, TypeOK
<1>8. CASE UNCHANGED vars
  BY <1>8 DEF vars
<1> QED
  BY <1>2, <1>3, <1>4, <1>5, <1>6, <1>7, <1>8 DEF Next, Host, InterruptHandler

\* Code is never entered without a reset, and every reset grants what it sets.
LEMMA DeadlineStep == TypeOK /\ DeadlineInv /\ [Next]_vars => DeadlineInv'
<1> SUFFICES ASSUME TypeOK, DeadlineInv, [Next]_vars PROVE DeadlineInv'
  OBVIOUS
<1> USE DEF DeadlineInv, grantVars, watchdogVars
<1>1. CASE Tick \/ InterruptRuntime \/ SetWatchdogTimeout \/ SetWatchdogHandler
  BY <1>1 DEF Tick, InterruptRuntime, SetWatchdogTimeout, SetWatchdogHandler
<1>2. CASE HostResets
  BY <1>2 DEF HostResets, ResetWatchdog, Grant
<1>3. CASE EvalRuns \/ TaskStarts
  BY <1>3 DEF EvalRuns, TaskStarts, Starts, ResetWatchdog, Grant
<1>4. CASE EvalCompiles \/ EvalReturnsBytecode \/ RunEventLoop \/ LoopReturns
  BY <1>4 DEF EvalCompiles, EvalReturnsBytecode, RunEventLoop, LoopReturns
<1>5. CASE CodeEnds \/ PollInterrupt \/ ClearInterrupt \/ CallbackStops \/ CallbackDeclines
  BY <1>5 DEF CodeEnds, PollInterrupt, ClearInterrupt, CallbackStops, CallbackDeclines, TypeOK
<1>6. CASE PollWatchdog
  BY <1>6 DEF PollWatchdog, ResetWatchdog, Grant
<1>7. CASE UNCHANGED vars
  BY <1>7 DEF vars
<1> QED
  BY <1>1, <1>2, <1>3, <1>4, <1>5, <1>6, <1>7
  DEF Next, Host, Evaluation, InterruptHandler

-------------------------------------------------------------------------------
(* The theorems.                                                             *)

\* Every reachable state satisfies the inductive invariant.
THEOREM Invariance == Spec => []IndInv
<1>1. IndInv /\ [Next]_vars => IndInv'
  BY TypeStep, InterruptStep, DeadlineStep DEF IndInv
<1> QED
  BY <1>1, InitEstablishes, PTL DEF Spec

\* All variables keep their types.
THEOREM TypeCorrect == Spec => []TypeOK
<1>1. IndInv => TypeOK
  BY DEF IndInv
<1> QED
  BY Invariance, <1>1, PTL

\* A call of interruptRuntime is never lost, whatever thread makes it.
THEOREM InterruptIsKept == Spec => []InterruptKept
<1>1. IndInv => InterruptKept
  BY DEF IndInv
<1> QED
  BY Invariance, <1>1, PTL

\* A call of interruptRuntime ends at most one task.
THEOREM InterruptIsSpentOnce == Spec => []InterruptEndsOne
<1>1. IndInv => InterruptEndsOne
  BY DEF IndInv
<1> QED
  BY Invariance, <1>1, PTL

\* The watchdog never judges code before its timeout has passed since the last reset, unless
\* the timeout was made longer after that reset (resetWatchdog, setWatchdogTimeout and the
\* interrupt handler).
THEOREM WatchdogWaits == Spec => WatchdogPatience
<1>1. IndInv => (PollWatchdog /\ watchdogTimeout <= granted => now > since + watchdogTimeout)
  <2> SUFFICES ASSUME IndInv, PollWatchdog, watchdogTimeout <= granted
               PROVE  now > since + watchdogTimeout
    OBVIOUS
  <2>1. now > since + granted
    BY DEF IndInv, DeadlineInv, PollWatchdog, Expired
  <2>2. /\ now \in Nat /\ since \in Nat /\ granted \in Nat /\ watchdogTimeout \in Nat
    BY MachineAssumption DEF IndInv, TypeOK
  <2> QED
    BY <2>1, <2>2
<1> QED
  BY Invariance, <1>1, PTL DEF WatchdogPatience

===============================================================================
