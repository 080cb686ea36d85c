----------------------------- MODULE TimersProofs -----------------------------
(***************************************************************************)
(* Proofs about Timers for any number of timers, delays and clock ticks.   *)
(***************************************************************************)
EXTENDS Timers, SequenceTheorems, TLAPS

-------------------------------------------------------------------------------
(* The inductive invariant, part by part.                                    *)

\* A thread's local holds a timer while it is going to be read.
LocalInv ==
  /\ tpc \in {"waitUntil", "roused", "push", "leave"} => timer # None
  /\ jpc \in {"ring", "callback", "tail"} => event # None

\* An id that has not been handed out is nowhere.
UnusedInv ==
  \A i \in Ids : i >= nextId =>
    i \notin timers \cup timersById \cup InThread \cup InQueue \cup InEvent \cup thrown

\* A timer whose callback threw has no place any more.
ThrownInv == thrown \cap (timers \cup InThread \cup InQueue \cup InEvent) = {}

HolderInv == LocalInv /\ UnusedInv /\ ThrownInv

\* The clock is never behind what it was read for.
ClockInv ==
  \A i \in Ids : /\ startTime[i] <= now /\ rungAt[i] <= now
                 /\ i >= nextId => rungAt[i] < 0

\* Whatever has left the heap for its callback was due.
DueInv == \A i \in Late : EndTime(i) <= now

\* A timer that waits again after its callback is an interval that was started anew.
RoundInv ==
  \A i \in Waiting : rungAt[i] >= 0 => isRepeating[i] /\ rungAt[i] <= startTime[i]

IndInv == TypeOK /\ HolderInv /\ OnePlace /\ TableExact
            /\ ClockInv /\ DueInv /\ RoundInv /\ NoOversleep /\ DeadlineOrder

-------------------------------------------------------------------------------
(* The queue as a set of timers.                                             *)

\* What scheduleEvent does to the set of queued timers.
LEMMA AppendToSet ==
  ASSUME NEW s \in Seq(Ids), NEW i \in Ids
  PROVE  ToSet(Append(s, i)) = ToSet(s) \cup {i}
  BY AppendProperties DEF ToSet

\* A timer that is not queued can be queued without a repetition.
LEMMA AppendStaysInjective ==
  ASSUME NEW s \in Seq(Ids), NEW i \in Ids, IsInjective(s), i \notin ToSet(s)
  PROVE  IsInjective(Append(s, i))
<1>1. /\ Len(s) \in Nat /\ DOMAIN s = 1..Len(s) /\ DOMAIN Append(s, i) = 1..(Len(s) + 1)
      /\ \A k \in 1..Len(s) : Append(s, i)[k] = s[k] /\ s[k] # i
      /\ Append(s, i)[Len(s) + 1] = i
  BY AppendProperties, LenProperties DEF ToSet
<1> SUFFICES ASSUME NEW a \in 1..(Len(s) + 1), NEW b \in 1..(Len(s) + 1),
                    Append(s, i)[a] = Append(s, i)[b]
             PROVE  a = b
  BY <1>1, Zenon DEF IsInjective
<1>2. CASE a \in 1..Len(s) /\ b \in 1..Len(s)
  BY <1>1, <1>2 DEF IsInjective
<1>3. CASE a = Len(s) + 1 \/ b = Len(s) + 1
  BY <1>1, <1>3
<1> QED
  BY <1>1, <1>2, <1>3

\* What taking the head of a queue without repetitions does to its set.
LEMMA TailToSet ==
  ASSUME NEW s \in Seq(Ids), s # <<>>, IsInjective(s)
  PROVE  ToSet(Tail(s)) = ToSet(s) \ {Head(s)} /\ Head(s) \in ToSet(s) /\ Head(s) \in Ids
<1>1. /\ Len(s) \in Nat \ {0} /\ DOMAIN s = 1..Len(s)
      /\ DOMAIN Tail(s) = 1..(Len(s) - 1)
      /\ \A k \in 1..(Len(s) - 1) : Tail(s)[k] = s[k + 1]
      /\ Head(s) = s[1] /\ Head(s) \in Ids
  BY HeadTailProperties, LenProperties, EmptySeq
<1>2. ASSUME NEW i \in ToSet(s), i # Head(s) PROVE i \in ToSet(Tail(s))
  <2>1. PICK k \in 1..Len(s) : i = s[k]
    BY <1>1 DEF ToSet
  <2>2. k # 1
    BY <1>1, <1>2, <2>1
  <2>3. k - 1 \in 1..(Len(s) - 1) /\ Tail(s)[k - 1] = i
    BY <1>1, <2>1, <2>2
  <2> QED
    BY <1>1, <2>3 DEF ToSet
<1>3. ASSUME NEW i \in ToSet(Tail(s)) PROVE i \in ToSet(s) /\ i # Head(s)
  <2>1. PICK k \in 1..(Len(s) - 1) : i = Tail(s)[k]
    BY <1>1, <1>3 DEF ToSet
  <2>2. i = s[k + 1] /\ k + 1 \in 1..Len(s) /\ 1 \in 1..Len(s) /\ k + 1 # 1
    BY <1>1, <2>1
  <2> QED
    BY <1>1, <2>2 DEF ToSet, IsInjective
<1> QED
  BY <1>1, <1>2, <1>3 DEF ToSet

\* A queue without repetitions stays one when its head is taken.
LEMMA TailStaysInjective ==
  ASSUME NEW s \in Seq(Ids), s # <<>>, IsInjective(s)
  PROVE  IsInjective(Tail(s))
<1>1. /\ Len(s) \in Nat \ {0} /\ DOMAIN s = 1..Len(s)
      /\ DOMAIN Tail(s) = 1..(Len(s) - 1)
      /\ \A k \in 1..(Len(s) - 1) : Tail(s)[k] = s[k + 1]
  BY HeadTailProperties, LenProperties, EmptySeq
<1>2. \A k \in 1..(Len(s) - 1) : k + 1 \in 1..Len(s)
  BY <1>1
<1> QED
  BY <1>1, <1>2 DEF IsInjective

-------------------------------------------------------------------------------
(* Type correctness.                                                         *)

\* The program starts in the invariant: no timer exists yet.
LEMMA InitEstablishes == Init => IndInv
<1> SUFFICES ASSUME Init PROVE IndInv
  OBVIOUS
<1> USE DEF Init, Ids, None, InThread, InQueue, InEvent, ToSet
<1>1. TypeOK
  <2>1. now \in 0..MaxTime /\ nextId \in 1..(MaxTimers + 1)
    BY TimersAssumption
  <2>2. startTime \in [Ids -> Nat] /\ duration \in [Ids -> Nat] /\ rungAt \in [Ids -> Int]
    OBVIOUS
  <2>3. isRepeating \in [Ids -> BOOLEAN] /\ cancelled \in [Ids -> BOOLEAN]
    OBVIOUS
  <2>4. /\ scheduledFunctions \in Seq(Ids)
        /\ timers \subseteq Ids /\ timersById \subseteq Ids /\ thrown \subseteq Ids
    OBVIOUS
  <2>5. stop \in BOOLEAN
    OBVIOUS
  <2> QED
    BY <2>1, <2>2, <2>3, <2>4, <2>5 DEF TypeOK
<1>2. HolderInv
  BY DEF HolderInv, LocalInv, UnusedInv, ThrownInv
<1>3. OnePlace
  BY DEF OnePlace, IsInjective
<1>4. TableExact
  BY DEF TableExact
<1>5. ClockInv /\ DueInv /\ RoundInv
  BY DEF ClockInv, DueInv, RoundInv, Late, Waiting, Ringing
<1>6. NoOversleep /\ DeadlineOrder
  BY DEF NoOversleep, DeadlineOrder
<1> QED
  BY <1>1, <1>2, <1>3, <1>4, <1>5, <1>6 DEF IndInv

\* Every variable keeps its type; the ids in hand are those of real timers.
LEMMA TypeStep == TypeOK /\ HolderInv /\ OnePlace /\ [Next]_vars => TypeOK'
<1> SUFFICES ASSUME TypeOK, HolderInv, OnePlace, [Next]_vars PROVE TypeOK'
  OBVIOUS
<1> USE TimersAssumption DEF TypeOK, timerVars, tableVars, history, Ids, None
<1>1. CASE Tick
  BY <1>1 DEF Tick
<1>2. CASE WaitReturns
  BY <1>2 DEF WaitReturns, Signal, Woken
<1>3. CASE CreateTimer
  <2>1. nextId \in Ids /\ nextId' \in 1..(MaxTimers + 1)
    BY <1>3 DEF CreateTimer
  <2>2. PICK millis \in Durations, repeats \in BOOLEAN :
          /\ duration' = [duration EXCEPT ![nextId] = millis]
          /\ isRepeating' = [isRepeating EXCEPT ![nextId] = repeats]
    BY <1>3 DEF CreateTimer
  <2>3. duration' \in [Ids -> Nat] /\ isRepeating' \in [Ids -> BOOLEAN]
    BY <2>1, <2>2
  <2>4. now \in Nat
    OBVIOUS
  <2>5. startTime' \in [Ids -> Nat]
    BY <1>3, <2>1, <2>4 DEF CreateTimer
  <2>6. tpc' \in {"check", "lock", "wait", "woken", "waitUntil", "roused", "push", "leave", "done"}
    BY <1>3 DEF CreateTimer, Signal, Woken
  <2> QED
    BY <1>3, <2>1, <2>3, <2>5, <2>6 DEF CreateTimer
<1>4. ASSUME NEW i \in Ids, ClearTimer(i) PROVE TypeOK'
  BY <1>4 DEF ClearTimer
<1>5. CASE TakeEvent
  BY <1>5, TailToSet, HeadTailProperties DEF TakeEvent, OnePlace
<1>6. CASE Ring
  <2>1. event \in Ids /\ now \in Int
    BY <1>6 DEF Ring, HolderInv, LocalInv
  <2>2. [rungAt EXCEPT ![event] = now] \in [Ids -> Int]
    BY <2>1
  <2>3. CASE cancelled[event]
    BY <1>6, <2>3 DEF Ring
  <2>4. CASE ~cancelled[event]
    BY <1>6, <2>2, <2>4 DEF Ring
  <2> QED
    BY <2>3, <2>4
<1>7. CASE AfterCallback
  <2>1. event \in Ids /\ now \in Nat
    BY <1>7 DEF AfterCallback, HolderInv, LocalInv
  <2>2. [startTime EXCEPT ![event] = now] \in [Ids -> Nat]
    BY <2>1
  <2>3. Woken \in {"check", "lock", "wait", "woken", "waitUntil", "roused", "push", "leave", "done"}
    BY DEF Woken
  <2>4. CASE isRepeating[event]
    BY <1>7, <2>1, <2>2, <2>3, <2>4 DEF AfterCallback, Signal
  <2>5. CASE ~isRepeating[event]
    BY <1>7, <2>5 DEF AfterCallback
  <2> QED
    BY <2>4, <2>5
<1>8. CASE CallbackReturns \/ CallbackThrows \/ ScriptOrJobsEnd
  BY <1>8 DEF CallbackReturns, CallbackThrows, ScriptOrJobsEnd, HolderInv, LocalInv
<1>9. CASE StopCondition \/ NoTimers \/ StartsOver \/ LeaveBody
  BY <1>9 DEF StopCondition, NoTimers, StartsOver, LeaveBody
<1>10. CASE TopIsAhead
  BY <1>10 DEF TopIsAhead, Tops
<1>11. CASE TopIsDue
  BY <1>11 DEF TopIsDue, Tops
<1>12. CASE ScheduleEvent
  BY <1>12, AppendProperties DEF ScheduleEvent, HolderInv, LocalInv
<1>13. CASE Destructor
  <2>1. CASE DestructorClears \/ DestructorStops
    BY <2>1 DEF DestructorClears, DestructorStops
  <2>2. CASE DestructorNotifies
    BY <2>2 DEF DestructorNotifies, Signal, Woken
  <2>3. CASE DestructorJoins
    BY <2>3 DEF DestructorJoins
  <2> QED
    BY <1>13, <2>1, <2>2, <2>3 DEF Destructor
<1>14. CASE UNCHANGED vars
  BY <1>14 DEF vars
<1> QED
  BY <1>1, <1>2, <1>3, <1>4, <1>5, <1>6, <1>7, <1>8, <1>9, <1>10, <1>11, <1>12, <1>13, <1>14
  DEF Next, EventSteps, TimerThread

-------------------------------------------------------------------------------
(* How each action moves timers from place to place.                         *)

\* What the quiet actions leave alone.
Settled == UNCHANGED <<timers, InThread, InQueue, InEvent, scheduledFunctions,
                       startTime, duration, isRepeating, nextId, thrown, rungAt, timersById>>

Quiet ==
  \/ Tick \/ WaitReturns \/ (\E i \in Ids : ClearTimer(i))
  \/ ScriptOrJobsEnd \/ CallbackReturns
  \/ StopCondition \/ NoTimers \/ TopIsAhead \/ StartsOver \/ LeaveBody
  \/ DestructorStops \/ DestructorNotifies \/ UNCHANGED vars

\* The quiet steps leave every timer where it is.
LEMMA QuietMoves == Quiet => Settled /\ (Destroying => Destroying')
<1> USE DEF Settled, InThread, InQueue, InEvent, Destroying, timerVars, tableVars, history
<1>1. Tick => Settled /\ (Destroying => Destroying')
  BY DEF Tick
<1>2. WaitReturns => Settled /\ (Destroying => Destroying')
  BY DEF WaitReturns, Signal, Woken
<1>3. ASSUME NEW i \in Ids, ClearTimer(i) PROVE Settled /\ (Destroying => Destroying')
  BY <1>3 DEF ClearTimer
<1>4. ScriptOrJobsEnd \/ CallbackReturns => Settled /\ (Destroying => Destroying')
  BY DEF ScriptOrJobsEnd, CallbackReturns
<1>5. StopCondition \/ NoTimers \/ TopIsAhead \/ StartsOver \/ LeaveBody
        => Settled /\ (Destroying => Destroying')
  BY DEF StopCondition, NoTimers, TopIsAhead, StartsOver, LeaveBody
<1>6. DestructorStops \/ DestructorNotifies => Settled /\ (Destroying => Destroying')
  BY DEF DestructorStops, DestructorNotifies, Signal, Woken
<1>7. UNCHANGED vars => Settled /\ (Destroying => Destroying')
  BY DEF vars
<1> QED
  BY <1>1, <1>2, <1>3, <1>4, <1>5, <1>6, <1>7 DEF Quiet

\* createTimer puts a fresh id into the heap and the table.
LEMMA CreateMoves ==
  ASSUME TypeOK, CreateTimer
  PROVE  /\ nextId \in Ids /\ timers' = timers \cup {nextId}
         /\ timersById' = timersById \cup {nextId}
         /\ UNCHANGED <<InThread, InQueue, InEvent, scheduledFunctions, thrown, rungAt>>
         /\ ~Destroying
  BY DEF CreateTimer, TypeOK, Ids, Signal, Woken, InThread, InQueue, InEvent, history,
     InJavaScript, Destroying

\* getEvent moves the head of the queue into the running event.
LEMMA TakeMoves ==
  ASSUME TypeOK, OnePlace, TakeEvent
  PROVE  /\ event' \in InQueue /\ InQueue' = InQueue \ {event'}
         /\ InEvent = {} /\ InEvent' = {event'} /\ jpc' = "ring"
         /\ UNCHANGED <<timers, InThread, timersById, thrown>>
         /\ ~Destroying
  BY TailToSet DEF TakeEvent, TypeOK, OnePlace, InThread, InQueue, InEvent, tableVars, history,
     Destroying

\* Ringing keeps a timer in the event, or lets a cleared one go.
LEMMA RingMoves ==
  ASSUME Ring
  PROVE  /\ InEvent = {event}
         /\ IF cancelled[event] THEN InEvent' = {} /\ timersById' = timersById \ {event}
                                ELSE InEvent' = {event} /\ timersById' = timersById
         /\ UNCHANGED <<timers, InThread, InQueue, scheduledFunctions, thrown>>
         /\ ~Destroying
  BY DEF Ring, InThread, InQueue, InEvent, Destroying

\* The tail of the event returns an interval to the heap and forgets a timeout.
LEMMA AfterCallbackMoves ==
  ASSUME AfterCallback
  PROVE  /\ InEvent = {event} /\ InEvent' = {}
         /\ IF isRepeating[event]
            THEN timers' = timers \cup {event} /\ timersById' = timersById
            ELSE timers' = timers /\ timersById' = timersById \ {event}
         /\ UNCHANGED <<InThread, InQueue, scheduledFunctions, thrown, rungAt>>
         /\ ~Destroying
  BY DEF AfterCallback, Signal, Woken, InThread, InQueue, InEvent, history, Destroying

\* A callback that throws lets its timer go without forgetting its id.
LEMMA ThrowMoves ==
  ASSUME CallbackThrows
  PROVE  /\ InEvent = {event} /\ InEvent' = {}
         /\ thrown' = thrown \cup {event}
         /\ UNCHANGED <<timers, timersById, InThread, InQueue, scheduledFunctions, rungAt>>
         /\ ~Destroying
  BY DEF CallbackThrows, InThread, InQueue, InEvent, tableVars, Destroying

\* The timer thread takes the earliest timer, or lets go of a cleared one.
LEMMA DueMoves ==
  ASSUME TypeOK, TopIsDue
  PROVE  \E i \in Tops :
           /\ i \in timers /\ EndTime(i) <= now
           /\ InThread = {} /\ timers' = timers \ {i}
           /\ IF cancelled[i] THEN InThread' = {} /\ timersById' = timersById \ {i}
                              ELSE InThread' = {i} /\ timersById' = timersById
           /\ UNCHANGED <<InQueue, InEvent, scheduledFunctions, thrown, rungAt>>
           /\ Destroying' = Destroying
  BY DEF TopIsDue, Tops, InThread, InQueue, InEvent, history, Destroying

\* scheduleEvent moves the timer from the hand of the thread to the queue.
LEMMA ScheduleMoves ==
  ASSUME TypeOK, HolderInv, ScheduleEvent
  PROVE  /\ timer \in Ids /\ InThread = {timer} /\ InThread' = {}
         /\ InQueue' = InQueue \cup {timer}
         /\ scheduledFunctions' = Append(scheduledFunctions, timer)
         /\ UNCHANGED <<timers, InEvent, timersById, thrown, rungAt>>
         /\ Destroying' = Destroying
  BY AppendToSet DEF ScheduleEvent, TypeOK, HolderInv, LocalInv, None, InThread, InQueue, InEvent,
     tableVars, history, Destroying

\* The destructor empties the heap first and everything else once the thread is gone.
LEMMA DestructorMoves ==
  ASSUME DestructorClears \/ DestructorJoins
  PROVE  /\ timers' \in {{}, timers}
         /\ InEvent = {} /\ InEvent' = {} /\ InThread' = InThread
         /\ \/ InQueue' = InQueue /\ scheduledFunctions' = scheduledFunctions
            \/ InQueue' = {} /\ scheduledFunctions' = <<>>
         /\ timersById' \subseteq timersById /\ Destroying'
         /\ UNCHANGED <<thrown, rungAt>>
<1> USE DEF InThread, InQueue, InEvent, tableVars, history, Destroying
<1>1. CASE DestructorClears
  <2>1. jpc = "loop" /\ jpc' = "stop" /\ timers' = {}
        /\ UNCHANGED <<timersById, scheduledFunctions, tpc, timer, thrown, rungAt>>
    BY <1>1 DEF DestructorClears
  <2>2. InThread' = InThread /\ InQueue' = InQueue
    BY <2>1
  <2>3. InEvent = {} /\ InEvent' = {} /\ Destroying'
    BY <2>1
  <2> HIDE DEF InThread, InQueue, InEvent, Destroying
  <2> QED
    BY <2>1, <2>2, <2>3
<1>2. CASE DestructorJoins
  <2>1. ToSet(<<>>) = {}
    BY DEF ToSet
  <2> QED
    BY <1>2, <2>1 DEF DestructorJoins
<1> QED
  BY <1>1, <1>2

\* Next, as the cases the proofs below go through.
LEMMA NextCases ==
  [Next]_vars =>
    \/ Quiet \/ CreateTimer \/ TakeEvent \/ Ring \/ AfterCallback \/ CallbackThrows
    \/ TopIsDue \/ ScheduleEvent \/ DestructorClears \/ DestructorJoins
  BY DEF Next, EventSteps, TimerThread, Destructor, Quiet

-------------------------------------------------------------------------------
(* One place for each timer.                                                 *)

\* Every action moves a timer from one place to one other place.
LEMMA OnePlaceStep == TypeOK /\ HolderInv /\ OnePlace /\ [Next]_vars => OnePlace'
<1> SUFFICES ASSUME TypeOK, HolderInv, OnePlace, [Next]_vars PROVE OnePlace'
  OBVIOUS
<1> USE DEF OnePlace
<1>1. CASE Quiet
  BY <1>1, QuietMoves DEF Settled
<1>2. CASE CreateTimer
  <2>1. nextId \notin InThread \cup InQueue \cup InEvent
    BY <1>2, CreateMoves DEF HolderInv, UnusedInv, TypeOK
  <2> QED
    BY <1>2, <2>1, CreateMoves
<1>3. CASE TakeEvent
  <2>1. IsInjective(scheduledFunctions')
    BY <1>3, TailStaysInjective DEF TakeEvent, TypeOK
  <2> QED
    BY <1>3, <2>1, TakeMoves
<1>4. CASE Ring
  BY <1>4, RingMoves
<1>5. CASE AfterCallback
  BY <1>5, AfterCallbackMoves
<1>6. CASE CallbackThrows
  BY <1>6, ThrowMoves
<1>7. CASE TopIsDue
  BY <1>7, DueMoves
<1>8. CASE ScheduleEvent
  <2>1. timer \in Ids /\ timer \notin ToSet(scheduledFunctions)
    BY <1>8, ScheduleMoves DEF InQueue
  <2>2. IsInjective(scheduledFunctions')
    <3>1. scheduledFunctions \in Seq(Ids) /\ IsInjective(scheduledFunctions)
      BY DEF TypeOK
    <3>2. IsInjective(Append(scheduledFunctions, timer))
      BY <2>1, <3>1, AppendStaysInjective
    <3> QED
      BY <1>8, <3>2, ScheduleMoves
  <2> QED
    BY <1>8, <2>2, ScheduleMoves
<1>9. CASE DestructorClears \/ DestructorJoins
  <2>1. IsInjective(<<>>)
    BY DEF IsInjective
  <2> QED
    BY <1>9, <2>1, DestructorMoves
<1> QED
  BY <1>1, <1>2, <1>3, <1>4, <1>5, <1>6, <1>7, <1>8, <1>9, NextCases

-------------------------------------------------------------------------------
(* The locals of the threads, the ids not yet used, and the id table.        *)

\* The local variables of both threads hold a timer wherever the code uses them.
LEMMA LocalStep == TypeOK /\ HolderInv /\ [Next]_vars => LocalInv'
<1> SUFFICES ASSUME TypeOK, LocalInv, [Next]_vars PROVE LocalInv'
  BY DEF HolderInv
<1> USE DEF LocalInv, TypeOK
<1>0. None \notin Ids
  BY DEF None, Ids
<1>1. CASE WaitReturns \/ CreateTimer \/ DestructorNotifies
  BY <1>0, <1>1 DEF WaitReturns, CreateTimer, DestructorNotifies, Signal, Woken, InJavaScript
<1>2. CASE TakeEvent
  <2>1. event' \in Ids /\ tpc' = tpc /\ timer' = timer
    BY <1>2, HeadTailProperties DEF TakeEvent
  <2> QED
    BY <1>0, <2>1
<1>3. CASE AfterCallback
  BY <1>3 DEF AfterCallback, Signal, Woken
<1>4. CASE TopIsAhead \/ TopIsDue
  BY <1>0, <1>4 DEF TopIsAhead, TopIsDue, Tops
<1>5. CASE StopCondition \/ NoTimers \/ StartsOver \/ ScheduleEvent \/ LeaveBody
  BY <1>5 DEF StopCondition, NoTimers, StartsOver, ScheduleEvent, LeaveBody
<1>6. CASE Ring \/ CallbackReturns \/ CallbackThrows \/ ScriptOrJobsEnd
  BY <1>6 DEF Ring, CallbackReturns, CallbackThrows, ScriptOrJobsEnd
<1>7. CASE DestructorClears \/ DestructorStops \/ DestructorJoins
  BY <1>7 DEF DestructorClears, DestructorStops, DestructorJoins
<1>8. CASE Tick \/ (\E i \in Ids : ClearTimer(i)) \/ UNCHANGED vars
  BY <1>8 DEF Tick, ClearTimer, vars
<1> QED
  BY <1>1, <1>2, <1>3, <1>4, <1>5, <1>6, <1>7, <1>8
  DEF Next, EventSteps, TimerThread, Destructor

\* Ids are handed out once, and everything else moves ids that were handed out.
LEMMA UnusedStep == TypeOK /\ HolderInv /\ OnePlace /\ [Next]_vars => UnusedInv'
<1> SUFFICES ASSUME TypeOK, HolderInv, OnePlace, [Next]_vars PROVE UnusedInv'
  OBVIOUS
<1> USE DEF UnusedInv
<1>1. UnusedInv
  BY DEF HolderInv
<1>2. CASE Quiet
  BY <1>1, <1>2, QuietMoves DEF Settled
<1>3. CASE CreateTimer
  <2>1. nextId' = nextId + 1 /\ nextId \in Nat
    BY <1>3 DEF CreateTimer, TypeOK
  <2>2. \A i \in Ids : i \in Nat
    BY DEF Ids
  <2>3. \A i \in Ids : i >= nextId' => i >= nextId /\ i # nextId
    BY <2>1, <2>2
  <2> QED
    BY <1>1, <1>3, <2>3, CreateMoves
<1>4. CASE TakeEvent
  BY <1>1, <1>4, TakeMoves DEF TakeEvent, timerVars
<1>5. CASE Ring
  BY <1>1, <1>5, RingMoves DEF Ring, timerVars
<1>6. CASE AfterCallback
  BY <1>1, <1>6, AfterCallbackMoves DEF AfterCallback
<1>7. CASE CallbackThrows
  BY <1>1, <1>7, ThrowMoves DEF CallbackThrows, timerVars
<1>8. CASE TopIsDue
  BY <1>1, <1>8, DueMoves DEF TopIsDue, timerVars
<1>9. CASE ScheduleEvent
  BY <1>1, <1>9, ScheduleMoves DEF ScheduleEvent, timerVars
<1>10. CASE DestructorClears \/ DestructorJoins
  BY <1>1, <1>10, DestructorMoves DEF DestructorClears, DestructorJoins, timerVars
<1> QED
  BY <1>2, <1>3, <1>4, <1>5, <1>6, <1>7, <1>8, <1>9, <1>10, NextCases

\* A callback that throws takes its timer out of its only place.
LEMMA ThrownStep == TypeOK /\ HolderInv /\ OnePlace /\ [Next]_vars => ThrownInv'
<1> SUFFICES ASSUME TypeOK, HolderInv, OnePlace, [Next]_vars PROVE ThrownInv'
  OBVIOUS
<1> USE DEF ThrownInv
<1>1. ThrownInv
  BY DEF HolderInv
<1>2. CASE Quiet
  BY <1>1, <1>2, QuietMoves DEF Settled
<1>3. CASE CreateTimer
  <2>1. nextId \notin thrown
    BY <1>3, CreateMoves DEF HolderInv, UnusedInv, TypeOK
  <2> QED
    BY <1>1, <1>3, <2>1, CreateMoves
<1>4. CASE TakeEvent
  BY <1>1, <1>4, TakeMoves
<1>5. CASE Ring
  BY <1>1, <1>5, RingMoves
<1>6. CASE AfterCallback
  BY <1>1, <1>6, AfterCallbackMoves
<1>7. CASE CallbackThrows
  BY <1>1, <1>7, ThrowMoves DEF OnePlace
<1>8. CASE TopIsDue
  BY <1>1, <1>8, DueMoves
<1>9. CASE ScheduleEvent
  BY <1>1, <1>9, ScheduleMoves
<1>10. CASE DestructorClears \/ DestructorJoins
  BY <1>1, <1>10, DestructorMoves
<1> QED
  BY <1>2, <1>3, <1>4, <1>5, <1>6, <1>7, <1>8, <1>9, <1>10, NextCases

\* An id leaves the table with the last step of its timer, and not before.
LEMMA TableStep ==
  TypeOK /\ HolderInv /\ OnePlace /\ TableExact /\ [Next]_vars => TableExact'
<1> SUFFICES ASSUME TypeOK, HolderInv, OnePlace, TableExact, [Next]_vars PROVE TableExact'
  OBVIOUS
<1> USE DEF TableExact
<1>1. ThrownInv
  BY DEF HolderInv
<1>2. CASE Quiet
  BY <1>2, QuietMoves DEF Settled
<1>3. CASE CreateTimer
  BY <1>3, CreateMoves
<1>4. CASE TakeEvent
  BY <1>4, TakeMoves
<1>5. CASE Ring
  BY <1>1, <1>5, RingMoves DEF OnePlace, ThrownInv
<1>6. CASE AfterCallback
  BY <1>1, <1>6, AfterCallbackMoves DEF OnePlace, ThrownInv
<1>7. CASE CallbackThrows
  BY <1>7, ThrowMoves
<1>8. CASE TopIsDue
  BY <1>1, <1>8, DueMoves DEF OnePlace, ThrownInv
<1>9. CASE ScheduleEvent
  BY <1>9, ScheduleMoves
<1>10. CASE DestructorClears \/ DestructorJoins
  BY <1>10, DestructorMoves
<1> QED
  BY <1>2, <1>3, <1>4, <1>5, <1>6, <1>7, <1>8, <1>9, <1>10, NextCases

-------------------------------------------------------------------------------
(* Deadlines.                                                                *)

\* Most actions leave the clock and the start times alone.
Timeless == UNCHANGED <<now, startTime, duration, isRepeating, nextId>>

\* Which steps leave the clock and the deadlines alone.
LEMMA TimelessSteps ==
  TakeEvent \/ Ring \/ CallbackThrows \/ TopIsDue \/ ScheduleEvent
    \/ DestructorClears \/ DestructorJoins => Timeless
  BY DEF TakeEvent, Ring, CallbackThrows, TopIsDue, ScheduleEvent, DestructorClears,
     DestructorJoins, Timeless, timerVars

\* The quiet steps leave the rings alone and the clock no earlier.
LEMMA QuietClock ==
  ASSUME TypeOK, Quiet
  PROVE  /\ now' >= now /\ now \in Nat /\ now' \in Nat
         /\ isRepeating' = isRepeating
         /\ Ringing' \subseteq Ringing
<1> USE DEF TypeOK, Ringing, timerVars
<1>1. CASE Tick
  BY <1>1 DEF Tick
<1>2. CASE WaitReturns \/ (\E i \in Ids : ClearTimer(i)) \/ ScriptOrJobsEnd \/ CallbackReturns
  BY <1>2 DEF WaitReturns, ClearTimer, ScriptOrJobsEnd, CallbackReturns
<1>3. CASE StopCondition \/ NoTimers \/ TopIsAhead \/ StartsOver \/ LeaveBody
  BY <1>3 DEF StopCondition, NoTimers, TopIsAhead, StartsOver, LeaveBody
<1>4. CASE DestructorStops \/ DestructorNotifies \/ UNCHANGED vars
  BY <1>4 DEF DestructorStops, DestructorNotifies, vars
<1> QED
  BY <1>1, <1>2, <1>3, <1>4 DEF Quiet

\* What the arithmetic below needs to know of the types.
LEMMA Numbers ==
  ASSUME TypeOK, LocalInv
  PROVE  /\ now \in Nat
         /\ \A i \in Ids : /\ i \in Nat /\ startTime[i] \in Nat /\ duration[i] \in Nat
                           /\ EndTime(i) \in Nat /\ rungAt[i] \in Int
         /\ timers \subseteq Ids /\ Late \subseteq Ids /\ Waiting \subseteq Ids
<1>1. \A i \in Ids : i \in Nat
  BY DEF Ids
<1> QED
  BY <1>1 DEF TypeOK, LocalInv, EndTime, Late, Waiting, Ringing, InThread, InQueue, ToSet

\* Only the timer thread makes a timer late, and only one that is due.
LEMMA LateMoves ==
  ASSUME TypeOK, HolderInv, OnePlace, [Next]_vars
  PROVE  Late' \subseteq Late \cup {i \in timers : EndTime(i) <= now}
<1> USE DEF Late
<1>1. CASE Quiet
  BY <1>1, QuietMoves, QuietClock DEF Settled
<1>2. CASE CreateTimer
  BY <1>2, CreateMoves DEF CreateTimer, InJavaScript, Ringing
<1>3. CASE TakeEvent
  BY <1>3, TakeMoves DEF Ringing
<1>4. CASE Ring
  BY <1>4, RingMoves DEF Ringing, Ring
<1>5. CASE AfterCallback
  BY <1>5, AfterCallbackMoves DEF Ringing, AfterCallback
<1>6. CASE CallbackThrows
  BY <1>6, ThrowMoves DEF Ringing, CallbackThrows
<1>7. CASE TopIsDue
  <2>1. Ringing' = Ringing
    BY <1>7 DEF TopIsDue, Ringing
  <2> QED
    BY <1>7, <2>1, DueMoves
<1>8. CASE ScheduleEvent
  BY <1>8, ScheduleMoves DEF Ringing, ScheduleEvent
<1>9. CASE DestructorClears \/ DestructorJoins
  <2>1. Ringing' = {}
    BY <1>9 DEF DestructorClears, DestructorJoins, Ringing
  <2> QED
    BY <1>9, <2>1, DestructorMoves
<1> QED
  BY <1>1, <1>2, <1>3, <1>4, <1>5, <1>6, <1>7, <1>8, <1>9, NextCases

\* A timer waits because it already did, is new, or is an interval started anew.
LEMMA WaitingMoves ==
  ASSUME TypeOK, HolderInv, OnePlace, [Next]_vars, NEW i \in Waiting'
  PROVE  \/ i \in Waiting /\ (Ring => i # event)
         \/ CreateTimer /\ i = nextId
         \/ AfterCallback /\ i = event /\ isRepeating[i]
<1> USE DEF Waiting, Late
<1>1. CASE Quiet /\ ~Ring
  BY <1>1, QuietMoves, QuietClock DEF Settled
<1>2. CASE CreateTimer
  BY <1>2, CreateMoves DEF CreateTimer, InJavaScript, Ringing, Ring
<1>3. CASE TakeEvent
  BY <1>3, TakeMoves DEF Ringing, Ring, TakeEvent
<1>4. CASE Ring
  <2>1. Ringing' = {} /\ Ringing = {event}
    BY <1>4 DEF Ring, Ringing
  <2>2. event \notin timers \cup InThread \cup InQueue
    BY <1>4, RingMoves DEF OnePlace
  <2> QED
    BY <1>4, <2>1, <2>2, RingMoves
<1>5. CASE AfterCallback
  BY <1>5, AfterCallbackMoves DEF Ringing, AfterCallback, Ring
<1>6. CASE CallbackThrows
  BY <1>6, ThrowMoves DEF Ringing, CallbackThrows, Ring
<1>7. CASE TopIsDue /\ ~Ring
  <2>1. Ringing' = Ringing
    BY <1>7 DEF TopIsDue, Ringing
  <2> QED
    BY <1>7, <2>1, DueMoves
<1>8. CASE ScheduleEvent /\ ~Ring
  BY <1>8, ScheduleMoves DEF Ringing, ScheduleEvent
<1>9. CASE DestructorClears \/ DestructorJoins
  <2>1. Ringing' = {} /\ ~Ring
    BY <1>9 DEF DestructorClears, DestructorJoins, Ringing, Ring
  <2> QED
    BY <1>9, <2>1, DestructorMoves
<1> QED
  BY <1>1, <1>2, <1>3, <1>4, <1>5, <1>6, <1>7, <1>8, <1>9, NextCases

\* Start times change for a new timer and for an interval started anew, to the present.
LEMMA StartMoves ==
  ASSUME TypeOK, [Next]_vars, NEW i \in Ids
  PROVE  /\ now' >= now /\ now \in Nat /\ now' \in Nat
         /\ \/ startTime'[i] = startTime[i] /\ EndTime(i)' = EndTime(i)
               /\ isRepeating'[i] = isRepeating[i]
            \/ CreateTimer /\ i = nextId /\ startTime'[i] = now
            \/ AfterCallback /\ i = event /\ startTime'[i] = now
               /\ isRepeating'[i] = isRepeating[i]
<1> USE DEF EndTime
<1>1. CASE Quiet
  BY <1>1, QuietMoves, QuietClock DEF Settled
<1>2. CASE CreateTimer
  <2>1. PICK millis \in Durations, repeats \in BOOLEAN :
          /\ duration' = [duration EXCEPT ![nextId] = millis]
          /\ isRepeating' = [isRepeating EXCEPT ![nextId] = repeats]
    BY <1>2 DEF CreateTimer
  <2>2. startTime' = [startTime EXCEPT ![nextId] = now] /\ now' = now
    BY <1>2 DEF CreateTimer
  <2> QED
    BY <1>2, <2>1, <2>2 DEF TypeOK
<1>3. CASE AfterCallback
  BY <1>3 DEF AfterCallback, TypeOK
<1>4. CASE Timeless
  BY <1>4 DEF Timeless, TypeOK
<1> QED
  BY <1>1, <1>2, <1>3, <1>4, NextCases, TimelessSteps

\* The callbacks that start are those of the timers that ring.
LEMMA RungMoves ==
  ASSUME TypeOK, [Next]_vars, NEW i \in Ids
  PROVE  rungAt'[i] = rungAt[i] \/ (Ring /\ i = event /\ rungAt'[i] = now)
<1>1. CASE Quiet
  BY <1>1, QuietMoves DEF Settled
<1>2. CASE Ring
  BY <1>2 DEF Ring, TypeOK
<1>3. CASE CreateTimer \/ TakeEvent \/ AfterCallback \/ CallbackThrows \/ TopIsDue
           \/ ScheduleEvent \/ DestructorClears \/ DestructorJoins
  BY <1>3 DEF CreateTimer, TakeEvent, AfterCallback, CallbackThrows, TopIsDue, ScheduleEvent,
     DestructorClears, DestructorJoins, history
<1> QED
  BY <1>1, <1>2, <1>3, NextCases

\* Nothing starts or rings in the future.
LEMMA ClockStep == TypeOK /\ HolderInv /\ ClockInv /\ [Next]_vars => ClockInv'
<1> SUFFICES ASSUME TypeOK, HolderInv, ClockInv, [Next]_vars, NEW i \in Ids
             PROVE  (startTime[i] <= now /\ rungAt[i] <= now /\ (i >= nextId => rungAt[i] < 0))'
  BY DEF ClockInv
<1>1. /\ startTime[i] \in Nat /\ rungAt[i] \in Int /\ i \in Nat /\ nextId \in Nat
      /\ startTime[i] <= now /\ rungAt[i] <= now /\ (i >= nextId => rungAt[i] < 0)
  BY DEF TypeOK, ClockInv, Ids
<1>2. startTime'[i] <= now'
  BY <1>1, StartMoves
<1>3. nextId' \in Nat /\ nextId' >= nextId
  <2>1. CASE Quiet
    BY <1>1, <2>1, QuietMoves DEF Settled
  <2>2. CASE CreateTimer
    BY <1>1, <2>2 DEF CreateTimer
  <2>3. CASE AfterCallback
    BY <1>1, <2>3 DEF AfterCallback
  <2>4. CASE Timeless
    BY <1>1, <2>4 DEF Timeless
  <2> QED
    BY <2>1, <2>2, <2>3, <2>4, NextCases, TimelessSteps
<1>4. CASE Ring /\ i = event
  <2>1. i < nextId
    BY <1>1, <1>4, RingMoves DEF HolderInv, UnusedInv
  <2> QED
    BY <1>1, <1>2, <1>3, <1>4, <2>1, RungMoves, StartMoves
<1>5. CASE ~(Ring /\ i = event)
  BY <1>1, <1>2, <1>3, <1>5, RungMoves, StartMoves
<1> QED
  BY <1>4, <1>5

\* An id has one place, so a timer that waits is not the one whose callback just ended.
LEMMA DueStep ==
  TypeOK /\ HolderInv /\ OnePlace /\ DueInv /\ [Next]_vars => DueInv'
<1> SUFFICES ASSUME TypeOK, HolderInv, OnePlace, DueInv, [Next]_vars, NEW i \in Late'
             PROVE  EndTime(i)' <= now'
  BY DEF DueInv
<1>1. i \in Ids
  BY LateMoves, Numbers DEF HolderInv
<1>2. EndTime(i) \in Nat /\ EndTime(i) <= now /\ (i \in Late \/ i \in timers)
  BY <1>1, LateMoves, Numbers DEF DueInv, HolderInv
<1>3. ~(CreateTimer /\ i = nextId)
  <2>1. CreateTimer => Late' = Late /\ Ringing = {} /\ nextId \in Ids
    BY CreateMoves DEF CreateTimer, InJavaScript, Late, Ringing
  <2>2. nextId \in Ids => nextId \notin InThread \cup InQueue
    BY Numbers DEF HolderInv, UnusedInv
  <2> QED
    BY <2>1, <2>2 DEF Late
<1>4. ~(AfterCallback /\ i = event)
  <2>1. AfterCallback => InEvent = {event} /\ Late' = Late /\ Ringing = {}
    BY AfterCallbackMoves DEF AfterCallback, Late, Ringing
  <2> QED
    BY <2>1 DEF OnePlace, Late
<1> QED
  BY <1>1, <1>2, <1>3, <1>4, StartMoves

\* The start of a new round is no earlier than the last ring.
LEMMA RoundStep ==
  TypeOK /\ HolderInv /\ OnePlace /\ ClockInv /\ RoundInv /\ [Next]_vars => RoundInv'
<1> SUFFICES ASSUME TypeOK, HolderInv, OnePlace, ClockInv, RoundInv, [Next]_vars,
                    NEW i \in Waiting', rungAt'[i] >= 0
             PROVE  isRepeating'[i] /\ rungAt'[i] <= startTime'[i]
  BY DEF RoundInv
<1>1. CASE i \in Waiting /\ (Ring => i # event)
  <2>1. /\ i \in Ids /\ rungAt[i] \in Int /\ startTime[i] \in Nat /\ rungAt[i] <= now
        /\ now \in Nat
    BY <1>1, Numbers DEF HolderInv, ClockInv
  <2>2. rungAt'[i] = rungAt[i]
    BY <1>1, <2>1, RungMoves
  <2>3. isRepeating[i] /\ rungAt[i] <= startTime[i]
    BY <1>1, <2>2 DEF RoundInv
  <2>4. ~(CreateTimer /\ i = nextId)
    <3>1. CreateTimer => Ringing = {} /\ nextId \in Ids
      BY CreateMoves DEF CreateTimer, InJavaScript, Ringing
    <3>2. nextId \in Ids => nextId \notin timers \cup InThread \cup InQueue
      BY Numbers DEF HolderInv, UnusedInv
    <3> QED
      BY <1>1, <3>1, <3>2 DEF Waiting, Late
  <2> QED
    BY <2>1, <2>2, <2>3, <2>4, StartMoves
<1>2. CASE CreateTimer /\ i = nextId
  <2>1. rungAt' = rungAt /\ nextId \in Ids
    BY <1>2, CreateMoves
  <2> QED
    BY <1>2, <2>1, Numbers DEF HolderInv, ClockInv
<1>3. CASE AfterCallback /\ i = event /\ isRepeating[i]
  <2>1. i \in Ids
    BY <1>3 DEF AfterCallback, HolderInv, LocalInv, TypeOK
  <2>2. startTime'[i] = now /\ isRepeating'[i] = isRepeating[i] /\ rungAt' = rungAt
    BY <1>3, <2>1 DEF AfterCallback, TypeOK, history
  <2> QED
    BY <1>3, <2>1, <2>2 DEF ClockInv
<1> QED
  BY <1>1, <1>2, <1>3, WaitingMoves

\* Whoever makes the heap richer wakes the timer thread.
LEMMA OversleepStep ==
  TypeOK /\ HolderInv /\ OnePlace /\ NoOversleep /\ [Next]_vars => NoOversleep'
<1> SUFFICES ASSUME TypeOK, HolderInv, OnePlace, NoOversleep, [Next]_vars PROVE NoOversleep'
  OBVIOUS
<1> USE DEF NoOversleep
<1>1. CASE tpc' \notin {"wait", "waitUntil"}
  BY <1>1
<1>2. CASE NoTimers
  BY <1>2 DEF NoTimers, tableVars
<1>3. CASE TopIsAhead
  <2>1. PICK i \in Tops : timer' = i
    BY <1>3 DEF TopIsAhead
  <2>2. \A j \in timers' : EndTime(timer)' <= EndTime(j)'
    BY <1>3, <2>1 DEF TopIsAhead, Tops, EndTime, timerVars, tableVars
  <2> QED
    BY <1>3, <2>2 DEF TopIsAhead
<1>4. CASE UNCHANGED <<tpc, timer, startTime, duration>> /\ timers' \subseteq timers
  BY <1>4 DEF EndTime
<1>5. Tick \/ (\E i \in Ids : ClearTimer(i)) \/ EventSteps \/ Destructor \/ UNCHANGED vars =>
        \/ tpc' \notin {"wait", "waitUntil"}
        \/ UNCHANGED <<tpc, timer, startTime, duration>> /\ timers' \subseteq timers
  BY DEF Tick, ClearTimer, EventSteps, TakeEvent, Ring, AfterCallback, CallbackReturns,
     CallbackThrows, ScriptOrJobsEnd, Destructor, DestructorClears, DestructorStops,
     DestructorNotifies, DestructorJoins, vars, timerVars, tableVars, Signal, Woken
<1>6. WaitReturns \/ CreateTimer \/ (TimerThread /\ ~NoTimers /\ ~TopIsAhead) =>
        tpc' \notin {"wait", "waitUntil"}
  BY DEF WaitReturns, CreateTimer, TimerThread, StopCondition, TopIsDue, StartsOver,
     ScheduleEvent, LeaveBody, Signal, Woken
<1> QED
  BY <1>1, <1>2, <1>3, <1>4, <1>5, <1>6 DEF Next, TimerThread

-------------------------------------------------------------------------------
(* The order of the deadlines.                                               *)

QueueSorted ==
  \A a, b \in DOMAIN scheduledFunctions :
    a < b => EndTime(scheduledFunctions[a]) <= EndTime(scheduledFunctions[b])

\* Whatever enters the heap has its deadline in the future.
LEMMA HeapEntry ==
  ASSUME TypeOK, TypeOK', HolderInv, OnePlace, DueInv, CreateTimer \/ AfterCallback
  PROVE  /\ \A i \in InThread \cup InQueue : EndTime(i)' = EndTime(i) /\ EndTime(i) <= now
         /\ \A j \in timers' : (j \in timers /\ EndTime(j)' = EndTime(j)) \/ EndTime(j)' >= now
         /\ UNCHANGED <<InThread, InQueue, scheduledFunctions>>
         /\ timers \subseteq Ids /\ timers' \subseteq Ids /\ now \in Nat
         /\ InThread \cup InQueue \subseteq Ids
<1>1. [Next]_vars
  BY DEF Next, EventSteps
<1>2. /\ timers \subseteq Ids /\ timers' \subseteq Ids /\ now \in Nat
      /\ InThread \cup InQueue \subseteq Ids
  BY Numbers DEF HolderInv, TypeOK, Late
<1>3. \A i \in Ids : duration'[i] \in Nat
  BY DEF TypeOK
<1>4. /\ CreateTimer => nextId \notin InThread \cup InQueue
      /\ AfterCallback => event \notin InThread \cup InQueue
  <2>1. CreateTimer => nextId \notin InThread \cup InQueue
    BY CreateMoves, Numbers DEF HolderInv, UnusedInv
  <2> QED
    BY <2>1, AfterCallbackMoves DEF OnePlace
<1>5. \A i \in Ids : EndTime(i)' = EndTime(i) \/ EndTime(i)' >= now
  <2> SUFFICES ASSUME NEW i \in Ids PROVE EndTime(i)' = EndTime(i) \/ EndTime(i)' >= now
    OBVIOUS
  <2>1. startTime'[i] = now => EndTime(i)' >= now
    BY <1>2, <1>3 DEF EndTime
  <2> QED
    BY <1>1, <2>1, StartMoves
<1>6. \A i \in InThread \cup InQueue : EndTime(i)' = EndTime(i)
  <2> SUFFICES ASSUME NEW i \in InThread \cup InQueue PROVE EndTime(i)' = EndTime(i)
    OBVIOUS
  <2>1. i \in Ids
    BY <1>2
  <2> QED
    BY <1>1, <1>4, <2>1, StartMoves
<1>7. ASSUME NEW j \in timers' PROVE (j \in timers /\ EndTime(j)' = EndTime(j)) \/ EndTime(j)' >= now
  <2>1. CASE j \in timers
    BY <1>2, <1>5, <2>1
  <2>2. CASE j \notin timers
    <3>1. \/ CreateTimer /\ j = nextId
          \/ AfterCallback /\ j = event
      BY <2>2, CreateMoves, AfterCallbackMoves
    <3>2. startTime'[j] = now
      <4>1. j \in Ids /\ startTime \in [Ids -> Nat]
        BY <1>2 DEF TypeOK
      <4>2. CASE CreateTimer /\ j = nextId
        BY <4>1, <4>2 DEF CreateTimer
      <4>3. CASE AfterCallback /\ j = event
        <5>1. isRepeating[event]
          BY <2>2, <4>3, AfterCallbackMoves
        <5> QED
          BY <4>1, <4>3, <5>1 DEF AfterCallback
      <4> QED
        BY <3>1, <4>2, <4>3
    <3> QED
      BY <1>2, <1>3, <3>2 DEF EndTime
  <2> QED
    BY <2>1, <2>2
<1>8. UNCHANGED <<InThread, InQueue, scheduledFunctions>>
  BY CreateMoves, AfterCallbackMoves
<1> QED
  BY <1>2, <1>6, <1>7, <1>8 DEF DueInv, Late

\* What enters the heap is due no earlier than what has left it, and the queue is FIFO.
LEMMA OrderStep ==
  TypeOK /\ TypeOK' /\ HolderInv /\ OnePlace /\ DueInv /\ DeadlineOrder /\ [Next]_vars
    => DeadlineOrder'
<1> SUFFICES ASSUME TypeOK, TypeOK', HolderInv, OnePlace, DueInv, DeadlineOrder, [Next]_vars
             PROVE  DeadlineOrder'
  OBVIOUS
<1> USE DEF DeadlineOrder
<1>1. CASE CreateTimer \/ AfterCallback
  <2>1. ASSUME NEW i \in InThread \cup InQueue, NEW j \in timers',
               \A k \in timers : EndTime(i) <= EndTime(k)
        PROVE  EndTime(i)' <= EndTime(j)'
    <3>1. \A k \in Ids : EndTime(k) \in Nat /\ EndTime(k)' \in Nat
      <4> SUFFICES ASSUME NEW k \in Ids
                   PROVE  EndTime(k) \in Nat /\ EndTime(k)' \in Nat
        OBVIOUS
      <4>1. startTime[k] \in Nat /\ duration[k] \in Nat
        BY DEF TypeOK
      <4>2. startTime'[k] \in Nat /\ duration'[k] \in Nat
        BY DEF TypeOK
      <4> QED
        BY <4>1, <4>2 DEF EndTime
    <3> QED
      BY <1>1, <2>1, <3>1, HeapEntry
  <2>2. \A i \in InQueue, j \in InThread : EndTime(i)' <= EndTime(j)'
    BY <1>1, HeapEntry
  <2>3. \A a \in DOMAIN scheduledFunctions : scheduledFunctions[a] \in InQueue
    BY DEF InQueue, ToSet
  <2>4. \A a, b \in DOMAIN scheduledFunctions :
          a < b => EndTime(scheduledFunctions[a])' <= EndTime(scheduledFunctions[b])'
    BY <1>1, <2>3, HeapEntry
  <2> QED
    BY <1>1, <2>1, <2>2, <2>4, HeapEntry
<1>2. ASSUME UNCHANGED <<startTime, duration>> PROVE \A i : EndTime(i)' = EndTime(i)
  BY <1>2 DEF EndTime
<1>3. CASE Quiet
  BY <1>2, <1>3, QuietMoves DEF Settled
<1>4. CASE TakeEvent
  <2>1. UNCHANGED <<startTime, duration>>
    BY <1>4, TimelessSteps DEF Timeless
  <2>2. /\ DOMAIN scheduledFunctions' = 1..(Len(scheduledFunctions) - 1)
        /\ \A a \in DOMAIN scheduledFunctions' :
             scheduledFunctions'[a] = scheduledFunctions[a + 1] /\ a + 1 \in DOMAIN scheduledFunctions
    BY <1>4, HeadTailProperties, LenProperties DEF TakeEvent, TypeOK
  <2>3. \A a, b \in DOMAIN scheduledFunctions' : a < b =>
          EndTime(scheduledFunctions'[a]) <= EndTime(scheduledFunctions'[b])
    BY <2>2
  <2> QED
    BY <1>2, <1>4, <2>1, <2>3, TakeMoves
<1>5. CASE Ring \/ CallbackThrows
  BY <1>2, <1>5, RingMoves, ThrowMoves, TimelessSteps DEF Timeless
<1>6. CASE TopIsDue
  <2>1. UNCHANGED <<startTime, duration>>
    BY <1>6, TimelessSteps DEF Timeless
  <2>2. PICK i \in Tops : /\ InThread = {} /\ timers' = timers \ {i} /\ InThread' \subseteq {i}
                          /\ UNCHANGED <<InQueue, scheduledFunctions>>
    BY <1>6, DueMoves
  <2> QED
    BY <1>2, <2>1, <2>2 DEF Tops
<1>7. CASE ScheduleEvent
  <2>1. UNCHANGED <<startTime, duration>>
    BY <1>7, TimelessSteps DEF Timeless
  <2>2. /\ Len(scheduledFunctions) \in Nat /\ DOMAIN scheduledFunctions = 1..Len(scheduledFunctions)
        /\ DOMAIN scheduledFunctions' = 1..(Len(scheduledFunctions) + 1)
        /\ \A a \in DOMAIN scheduledFunctions : scheduledFunctions'[a] = scheduledFunctions[a]
        /\ scheduledFunctions'[Len(scheduledFunctions) + 1] = timer
        /\ \A a \in DOMAIN scheduledFunctions : scheduledFunctions[a] \in InQueue
    <3>1. /\ scheduledFunctions \in Seq(Ids) /\ timer \in Ids
          /\ scheduledFunctions' = Append(scheduledFunctions, timer)
      BY <1>7, ScheduleMoves DEF TypeOK, ScheduleEvent
    <3>2. /\ Len(scheduledFunctions) \in Nat
          /\ DOMAIN scheduledFunctions = 1..Len(scheduledFunctions)
      BY <3>1, LenProperties
    <3>3. /\ Len(scheduledFunctions') = Len(scheduledFunctions) + 1
          /\ scheduledFunctions' \in Seq(Ids)
          /\ \A a \in 1..Len(scheduledFunctions) : scheduledFunctions'[a] = scheduledFunctions[a]
          /\ scheduledFunctions'[Len(scheduledFunctions) + 1] = timer
      BY <3>1, AppendProperties
    <3>4. DOMAIN scheduledFunctions' = 1..(Len(scheduledFunctions) + 1)
      BY <3>2, <3>3, LenProperties
    <3>5. \A a \in DOMAIN scheduledFunctions : scheduledFunctions[a] \in InQueue
      BY DEF InQueue, ToSet
    <3> QED
      BY <3>2, <3>3, <3>4, <3>5
  <2>3. \A a, b \in DOMAIN scheduledFunctions' : a < b =>
          EndTime(scheduledFunctions'[a]) <= EndTime(scheduledFunctions'[b])
    BY <1>7, <2>2, ScheduleMoves
  <2> QED
    BY <1>2, <1>7, <2>1, <2>3, ScheduleMoves
<1>8. CASE DestructorClears \/ DestructorJoins
  BY <1>2, <1>8, DestructorMoves, TimelessSteps DEF Timeless
<1> QED
  BY <1>1, <1>3, <1>4, <1>5, <1>6, <1>7, <1>8, NextCases

-------------------------------------------------------------------------------
(* The theorems.                                                             *)

\* One step from the invariant ends in the invariant.
LEMMA IndStep == IndInv /\ [Next]_vars => IndInv'
<1> SUFFICES ASSUME IndInv, [Next]_vars PROVE IndInv'
  OBVIOUS
<1>1. TypeOK' /\ HolderInv'
  BY TypeStep, LocalStep, UnusedStep, ThrownStep DEF IndInv, HolderInv
<1>2. OnePlace' /\ TableExact'
  BY OnePlaceStep, TableStep DEF IndInv
<1>3. ClockInv' /\ DueInv' /\ RoundInv'
  BY ClockStep, DueStep, RoundStep DEF IndInv
<1>4. NoOversleep' /\ DeadlineOrder'
  BY <1>1, OversleepStep, OrderStep DEF IndInv
<1> QED
  BY <1>1, <1>2, <1>3, <1>4 DEF IndInv

\* Every reachable state satisfies the inductive invariant.
THEOREM Invariance == Spec => []IndInv
  BY InitEstablishes, IndStep, PTL DEF Spec

\* All variables keep their types.
THEOREM TypeCorrect == Spec => []TypeOK
<1>1. IndInv => TypeOK
  BY DEF IndInv
<1> QED
  BY Invariance, <1>1, PTL

\* A live timer is in the heap, in the timer thread's hand, queued or running: one of them.
THEOREM TimerInOnePlace == Spec => []OnePlace
<1>1. IndInv => OnePlace
  BY DEF IndInv
<1> QED
  BY Invariance, <1>1, PTL

\* The id table holds the live timers and those whose callback threw, no others.
THEOREM TableIsExact == Spec => []TableExact
<1>1. IndInv => TableExact
  BY DEF IndInv
<1> QED
  BY Invariance, <1>1, PTL

\* The timer thread never sleeps past the earliest deadline.
THEOREM NeverOversleeps == Spec => []NoOversleep
<1>1. IndInv => NoOversleep
  BY DEF IndInv
<1> QED
  BY Invariance, <1>1, PTL

\* Timers leave the heap and the queue in the order of their deadlines.
THEOREM RingsInOrder == Spec => []DeadlineOrder
<1>1. IndInv => DeadlineOrder
  BY DEF IndInv
<1> QED
  BY Invariance, <1>1, PTL

\* No callback starts early, or after its timer was cleared.
THEOREM NeverEarlyNorCleared == Spec => RingsOnlyWhenDue
<1>1. IndInv /\ [Next]_vars =>
        (jpc = "ring" /\ jpc' = "callback" => EndTime(event) <= now /\ ~cancelled[event])
  <2> SUFFICES ASSUME IndInv, [Next]_vars, jpc = "ring", jpc' = "callback"
               PROVE  EndTime(event) <= now /\ ~cancelled[event]
    OBVIOUS
  <2>1. EndTime(event) <= now
    BY DEF IndInv, DueInv, Late, Ringing
  <2>2. Ring
    BY DEF Next, vars, Tick, WaitReturns, CreateTimer, ClearTimer, EventSteps, TakeEvent,
       AfterCallback, CallbackReturns, CallbackThrows, ScriptOrJobsEnd, TimerThread,
       StopCondition, NoTimers, TopIsAhead, TopIsDue, StartsOver, ScheduleEvent, LeaveBody,
       Destructor, DestructorClears, DestructorStops, DestructorNotifies, DestructorJoins
  <2> QED
    BY <2>1, <2>2 DEF Ring
<1> QED
  BY Invariance, <1>1, PTL DEF Spec, RingsOnlyWhenDue

\* Only an interval rings twice, with its duration in between.
THEOREM IntervalsAreSpaced == Spec => IntervalSpacing
<1>1. IndInv /\ [Next]_vars =>
        (jpc = "ring" /\ jpc' = "callback" /\ rungAt[event] >= 0
           => isRepeating[event] /\ now - rungAt[event] >= duration[event])
  <2> SUFFICES ASSUME IndInv, jpc = "ring", rungAt[event] >= 0
               PROVE  isRepeating[event] /\ now - rungAt[event] >= duration[event]
    OBVIOUS
  <2>1. event \in Ids /\ event \in Ringing
    <3>1. event \in Ids \cup {None} /\ event # None
      BY DEF IndInv, TypeOK, HolderInv, LocalInv
    <3> QED
      BY <3>1 DEF Ringing
  <2>2. isRepeating[event] /\ rungAt[event] <= startTime[event]
          /\ startTime[event] + duration[event] <= now
    BY <2>1 DEF IndInv, RoundInv, DueInv, Waiting, Late, EndTime
  <2>3. /\ startTime[event] \in Nat /\ duration[event] \in Nat
        /\ rungAt[event] \in Int /\ now \in Nat
    BY <2>1, Numbers DEF IndInv, HolderInv
  <2> QED
    BY <2>2, <2>3
<1> QED
  BY Invariance, <1>1, PTL DEF Spec, IntervalSpacing
===============================================================================
