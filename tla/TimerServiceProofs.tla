-------------------------- MODULE TimerServiceProofs --------------------------
(***************************************************************************)
(* Proofs that Timers implements TimerService, and that the timer thread   *)
(* frees no timer that is still owed its callback; for any number of       *)
(* timers, delays and clock ticks.                                         *)
(***************************************************************************)
EXTENDS TimersProofs

-------------------------------------------------------------------------------
(* Who keeps a timer.                                                        *)

\* A callback that JavaScript still waits for.
Expected(i) == ~cancelled[i] /\ (rungAt[i] < 0 \/ (isRepeating[i] /\ i \notin thrown))

\* The table keeps what is expected until the machine is gone, and the locals hold timers
\* that were created, as do the marks of clear.
KeptInv ==
  /\ \A i \in Ids : i < nextId /\ Expected(i) /\ jpc # "destroyed" => i \in timersById
  /\ timer < nextId /\ event < nextId
  /\ jpc \in {"callback", "tail"} => rungAt[event] >= 0
  /\ jpc = "destroyed" => tpc = "done"
  /\ \A i \in Ids : i >= nextId => ~cancelled[i]

\* The program starts with nothing to keep.
LEMMA KeptInit == Init => KeptInv
  BY DEF Init, KeptInv, Expected, None, Ids

\* What the step lemma needs of the types.
LEMMA KeptTypes ==
  ASSUME IndInv
  PROVE  /\ now \in Nat /\ nextId \in Nat /\ nextId >= 1 /\ None = 0
         /\ timer \in Int /\ event \in Int
         /\ rungAt \in [Ids -> Int] /\ isRepeating \in [Ids -> BOOLEAN]
         /\ cancelled \in [Ids -> BOOLEAN] /\ timersById \subseteq Ids
         /\ \A i \in timers \cup timersById \cup InQueue : i \in Ids /\ i < nextId
         /\ Ids \subseteq Nat
<1>1. now \in Nat /\ nextId \in Nat /\ nextId >= 1 /\ Ids \subseteq Nat
  BY DEF IndInv, TypeOK, Ids
<1>2. timers \cup timersById \cup InQueue \subseteq Ids
  BY Numbers DEF IndInv, HolderInv, TypeOK, Late
<1>3. ASSUME NEW i \in timers \cup timersById \cup InQueue PROVE i < nextId
  <2>1. i \in Ids /\ i \in Nat
    BY <1>1, <1>2, <1>3
  <2>2. ~(i >= nextId)
    BY <1>3, <2>1 DEF IndInv, HolderInv, UnusedInv
  <2> QED
    BY <1>1, <2>1, <2>2
<1>4. timer \in Int /\ event \in Int
  BY <1>1 DEF IndInv, TypeOK, None
<1> QED
  BY <1>1, <1>2, <1>3, <1>4 DEF IndInv, TypeOK, None

\* An entry leaves the table for a timer that was cleared, or has rung for the last time.
LEMMA KeptStep == IndInv /\ KeptInv /\ [Next]_vars => KeptInv'
<1> SUFFICES ASSUME IndInv, KeptInv, [Next]_vars PROVE KeptInv'
  OBVIOUS
<1> USE KeptTypes DEF KeptInv, Expected
<1>1. CASE CreateTimer
  <2>1. /\ nextId \in Ids /\ timersById' = timersById \cup {nextId} /\ nextId' = nextId + 1
        /\ UNCHANGED <<cancelled, timer, event, jpc, rungAt, thrown>>
        /\ jpc \in {"script", "callback", "jobs"}
    BY <1>1, CreateMoves DEF CreateTimer, IndInv, history, InJavaScript
  <2>2. \A i \in Ids : i # nextId => isRepeating'[i] = isRepeating[i]
    BY <1>1 DEF CreateTimer
  <2> QED
    BY <2>1, <2>2
<1>2. CASE TakeEvent
  <2>1. /\ event' \in InQueue /\ jpc' = "ring" /\ jpc = "loop"
        /\ UNCHANGED <<timersById, nextId, isRepeating, cancelled, timer, rungAt, thrown>>
    BY <1>2, TakeMoves DEF TakeEvent, IndInv, timerVars, tableVars, history
  <2> QED
    BY <2>1
<1>3. CASE Ring
  <2>1. event \in Ids
    BY <1>3 DEF Ring, IndInv, TypeOK, HolderInv, LocalInv
  <2>2. CASE cancelled[event]
    BY <1>3, <2>1, <2>2 DEF Ring, timerVars
  <2>3. CASE ~cancelled[event]
    BY <1>3, <2>1, <2>3 DEF Ring, timerVars
  <2> QED
    BY <2>2, <2>3
<1>4. CASE AfterCallback
  <2>1. event \in Ids
    BY <1>4 DEF AfterCallback, IndInv, TypeOK, HolderInv, LocalInv
  <2>2. UNCHANGED <<nextId, isRepeating, cancelled, timer, event, rungAt, thrown>> /\ jpc' = "jobs"
    BY <1>4 DEF AfterCallback, history
  <2>3. timersById' = timersById \/ (~isRepeating[event] /\ timersById' = timersById \ {event})
    BY <1>4 DEF AfterCallback
  <2>4. rungAt[event] >= 0
    BY <1>4 DEF AfterCallback
  <2>5. \A i \in Ids : i < nextId' /\ Expected(i)' /\ jpc' # "destroyed" => i \in timersById'
    BY <1>4, <2>1, <2>2, <2>3, <2>4 DEF AfterCallback
  <2>6. /\ timer' < nextId' /\ event' < nextId'
        /\ ~(jpc' \in {"callback", "tail"}) /\ jpc' # "destroyed"
        /\ \A i \in Ids : i >= nextId' => ~cancelled'[i]
    BY <2>2
  <2> QED
    BY <2>5, <2>6
<1>5. CASE CallbackReturns \/ CallbackThrows \/ ScriptOrJobsEnd
  BY <1>5 DEF CallbackReturns, CallbackThrows, ScriptOrJobsEnd, timerVars, tableVars, history
<1>6. CASE TopIsDue
  <2>1. PICK i \in Tops :
          IF cancelled[i] THEN timersById' = timersById \ {i} /\ timer' = None
                          ELSE timersById' = timersById /\ timer' = i
    BY <1>6 DEF TopIsDue
  <2>2. i \in timers
    BY DEF Tops
  <2>3. UNCHANGED <<nextId, isRepeating, cancelled, jpc, event, rungAt, thrown>> /\ tpc # "done"
    BY <1>6 DEF TopIsDue, timerVars, history
  <2>4. timer' < nextId'
    BY <2>1, <2>2, <2>3
  <2> QED
    BY <2>1, <2>2, <2>3, <2>4
<1>7. CASE TopIsAhead
  <2>1. timer' \in timers
    BY <1>7 DEF TopIsAhead, Tops
  <2> QED
    BY <1>7, <2>1 DEF TopIsAhead, timerVars, tableVars, history
<1>8. CASE StopCondition \/ NoTimers \/ StartsOver \/ ScheduleEvent \/ LeaveBody
  BY <1>8 DEF StopCondition, NoTimers, StartsOver, ScheduleEvent, LeaveBody, timerVars, tableVars, history
<1>9. CASE DestructorClears \/ DestructorStops \/ DestructorJoins
  BY <1>9 DEF DestructorClears, DestructorStops, DestructorJoins, timerVars, tableVars, history
<1>10. CASE DestructorNotifies \/ WaitReturns
  BY <1>10 DEF DestructorNotifies, WaitReturns, Signal, Woken, timerVars, tableVars, history
<1>11. ASSUME NEW i \in Ids, ClearTimer(i) PROVE KeptInv'
  BY <1>11 DEF ClearTimer, InJavaScript, tableVars, history
<1>12. CASE Tick \/ UNCHANGED vars
  BY <1>12 DEF Tick, vars, timerVars, tableVars, history
<1> QED
  BY <1>1, <1>2, <1>3, <1>4, <1>5, <1>6, <1>7, <1>8, <1>9, <1>10, <1>11, <1>12
  DEF Next, EventSteps, TimerThread, Destructor

\* The timer thread is never the last holder of a timer whose callback is still expected.
THEOREM ExpectedSurvives == Spec => OwedOutlivesThread
<1>1. Spec => []KeptInv
  BY KeptInit, KeptStep, Invariance, PTL DEF Spec
<1>2. ASSUME IndInv, KeptInv, TimerThread, NEW i \in Ids, Alive(i), Expected(i)
      PROVE  Alive(i)'
  <2>1. tpc # "done" /\ jpc # "destroyed"
    BY <1>2 DEF KeptInv, TimerThread, StopCondition, NoTimers, TopIsAhead, TopIsDue, StartsOver,
       ScheduleEvent, LeaveBody
  <2>2. i < nextId
    BY <1>2, KeptTypes DEF Alive, KeptInv
  <2>3. i \in timersById
    BY <1>2, <2>1, <2>2 DEF KeptInv
  <2>4. i \in timersById'
    BY <1>2, <2>3 DEF TimerThread, StopCondition, NoTimers, TopIsAhead, TopIsDue, StartsOver,
       ScheduleEvent, LeaveBody, tableVars, Expected
  <2> QED
    BY <2>4 DEF Alive
<1>3. IndInv /\ KeptInv =>
        (TimerThread => \A i \in Ids :
           Alive(i) /\ ~cancelled[i] /\ (rungAt[i] < 0 \/ (isRepeating[i] /\ i \notin thrown))
             => Alive(i)')
  BY <1>2 DEF Expected
<1> QED
  BY <1>1, <1>3, Invariance, PTL DEF OwedOutlivesThread

-------------------------------------------------------------------------------
(* The timers as JavaScript sees them.                                       *)

\* The timer that is going to ring is due no later than any that waits: what the refinement
\* needs beyond IndInv, because DeadlineOrder says nothing of the running event.
RingOrder == jpc = "ring" => \A j \in Waiting : EndTime(event) <= EndTime(j)

\* No timer that waits gets an earlier deadline, and what waits anew has not left the heap.
LEMMA WaitingStays ==
  ASSUME IndInv, [Next]_vars, ~CreateTimer, ~AfterCallback
  PROVE  Waiting' \subseteq Waiting /\ \A i \in Waiting : EndTime(i)' = EndTime(i)
<1>1. \A i \in Waiting : i \in Ids
  BY Numbers DEF IndInv, HolderInv
<1>2. \A i \in Waiting : EndTime(i)' = EndTime(i)
  BY <1>1, StartMoves DEF IndInv
<1>3. \A i \in Waiting' : i \in Waiting
  BY WaitingMoves DEF IndInv
<1> QED
  BY <1>2, <1>3

\* The queue is sorted, so its head is due first.
LEMMA HeadIsFirst ==
  ASSUME IndInv, scheduledFunctions # <<>>
  PROVE  \A j \in timers \cup InThread \cup InQueue :
           EndTime(Head(scheduledFunctions)) <= EndTime(j)
<1> DEFINE q == scheduledFunctions
<1>1. q \in Seq(Ids) /\ Len(q) \in Nat \ {0} /\ DOMAIN q = 1..Len(q) /\ Head(q) = q[1]
  BY HeadTailProperties, LenProperties, EmptySeq DEF IndInv, TypeOK
<1>2. 1 \in DOMAIN q /\ q[1] \in InQueue /\ q[1] \in Ids
  BY <1>1 DEF InQueue, ToSet
<1>3. EndTime(q[1]) \in Nat
  BY <1>2, Numbers DEF IndInv, HolderInv
<1>4. ASSUME NEW j \in InQueue PROVE EndTime(q[1]) <= EndTime(j)
  <2>1. PICK b \in DOMAIN q : j = q[b]
    BY <1>4 DEF InQueue, ToSet
  <2>2. b = 1 \/ 1 < b
    BY <1>1, <2>1
  <2> QED
    BY <1>2, <1>3, <2>1, <2>2 DEF IndInv, DeadlineOrder
<1>5. \A j \in timers \cup InThread : EndTime(q[1]) <= EndTime(j)
  BY <1>2 DEF IndInv, DeadlineOrder
<1> QED
  BY <1>1, <1>4, <1>5

\* It is due first when it leaves the queue, and what enters the heap meanwhile is due later.
LEMMA RingOrderStep == IndInv /\ RingOrder /\ [Next]_vars => RingOrder'
<1> SUFFICES ASSUME IndInv, RingOrder, [Next]_vars, jpc' = "ring"
             PROVE  \A j \in Waiting' : EndTime(event)' <= EndTime(j)'
  BY DEF RingOrder
<1>1. ~CreateTimer /\ ~AfterCallback
  BY DEF CreateTimer, InJavaScript, AfterCallback
<1>2. CASE TakeEvent
  <2>1. event' = Head(scheduledFunctions) /\ scheduledFunctions # <<>> /\ event' \in InQueue
        /\ jpc = "loop"
    BY <1>2, TakeMoves DEF TakeEvent, IndInv
  <2>2. Waiting = timers \cup InThread \cup InQueue
    BY <2>1 DEF Waiting, Late, Ringing
  <2>3. startTime' = startTime /\ duration' = duration
    BY <1>2 DEF TakeEvent, timerVars
  <2>4. EndTime(event)' = EndTime(Head(scheduledFunctions))
    BY <2>1, <2>3 DEF EndTime
  <2> QED
    BY <1>1, <2>1, <2>2, <2>4, WaitingStays, HeadIsFirst
<1>3. CASE ~TakeEvent
  <2>1. jpc = "ring" /\ event' = event
    BY <1>1, <1>3 DEF Next, vars, Tick, WaitReturns, ClearTimer, EventSteps, Ring,
       CallbackReturns, CallbackThrows, ScriptOrJobsEnd, TimerThread,
       StopCondition, NoTimers, TopIsAhead, TopIsDue, StartsOver, ScheduleEvent, LeaveBody,
       Destructor, DestructorClears, DestructorStops, DestructorNotifies, DestructorJoins
  <2>2. event \in Waiting
    BY <2>1 DEF Waiting, Late, Ringing
  <2>3. EndTime(event)' = EndTime(event)
    <3>1. EndTime(event)' = startTime'[event] + duration'[event]
      BY <2>1 DEF EndTime
    <3>2. event \in Ids
      BY <2>2, Numbers DEF IndInv, HolderInv
    <3>3. startTime'[event] + duration'[event] = EndTime(event)
      BY <1>1, <2>2, WaitingStays DEF EndTime
    <3> QED
      BY <3>1, <3>3
  <2> QED
    BY <1>1, <2>1, <2>3, WaitingStays DEF RingOrder
<1> QED
  BY <1>2, <1>3
\* The parts of the view.
ViewDue     == [i \in Owed |-> EndTime(i)]
ViewPeriod  == [i \in Ids |-> IF isRepeating[i] /\ ~cancelled[i] THEN duration[i] ELSE -1]
ViewRunning == IF jpc \in {"callback", "tail"} THEN event ELSE None

\* The program starts as the service does.
LEMMA ServiceInit == Init => ServiceView!Init
<1> SUFFICES ASSUME Init PROVE ServiceView!Init
  OBVIOUS
<1>1. Owed = {}
  BY DEF Init, Owed, Waiting, Late, Ringing, InThread, InQueue, ToSet
<1>2. 1..(nextId - 1) = {}
  BY DEF Init
<1>3. [i \in Owed |-> EndTime(i)] = [i \in {} |-> 0]
  BY <1>1
<1>4. [i \in Ids |-> IF isRepeating[i] /\ ~cancelled[i] THEN duration[i] ELSE -1]
        = [i \in Ids |-> -1]
  BY DEF Init
<1> QED
  BY <1>2, <1>3, <1>4 DEF Init, ServiceView!Init, ServiceView!Once, Destroying

\* What is owed, and when, stays as it is in the steps that only pass timers on.
LEMMA SameDue ==
  ASSUME Owed' = Owed, \A i \in Owed : EndTime(i)' = EndTime(i)
  PROVE  ViewDue' = ViewDue
  BY DEF ViewDue

\* The steps the service does not see.
LEMMA SameView ==
  ASSUME ViewDue' = ViewDue, ViewPeriod' = ViewPeriod, ViewRunning' = ViewRunning,
         now' = now, nextId' = nextId, Destroying' = Destroying
  PROVE  UNCHANGED ServiceView!vars
  BY DEF ViewDue, ViewPeriod, ViewRunning, ServiceView!vars

\* The lemmas that follow state the actions of the service in the terms of the timers. The
\* clock moves, and nothing else.
LEMMA ServiceTick ==
  ASSUME now' = now + 1, ViewDue' = ViewDue, ViewPeriod' = ViewPeriod,
         ViewRunning' = ViewRunning, nextId' = nextId, Destroying' = Destroying
  PROVE  ServiceView!Tick
  BY DEF ViewDue, ViewPeriod, ViewRunning, ServiceView!Tick

\* What is cleared is not owed any more, and has no further round.
LEMMA ServiceClear ==
  ASSUME NEW i \in Ids, TypeOK, ~Destroying, Destroying' = Destroying, i < nextId,
         Owed' = Owed \ {i}, \A j \in Owed' : EndTime(j)' = EndTime(j),
         ViewPeriod' = [ViewPeriod EXCEPT ![i] = -1],
         ViewRunning' = ViewRunning, now' = now, nextId' = nextId
  PROVE  ServiceView!Clear(i)
<1>1. i \in 1..(nextId - 1)
  BY DEF TypeOK, Ids
<1>2. DOMAIN ViewDue = Owed /\ \A j \in Owed : ViewDue[j] = EndTime(j)
  BY DEF ViewDue
<1>3. ViewDue' = [j \in DOMAIN ViewDue \ {i} |-> ViewDue[j]]
  BY <1>2 DEF ViewDue
<1> QED
  BY <1>1, <1>3 DEF ViewDue, ViewPeriod, ViewRunning, ServiceView!Clear, ServiceView!Without,
     ServiceView!Once

\* A callback starts: that of a timer that is due, and due first.
LEMMA ServiceFire ==
  ASSUME NEW i \in Owed, ~Destroying, Destroying' = Destroying,
         EndTime(i) <= now, \A j \in Owed : EndTime(i) <= EndTime(j),
         Owed' = Owed \ {i}, \A j \in Owed' : EndTime(j)' = EndTime(j),
         ViewRunning = None, ViewRunning' = i,
         ViewPeriod' = ViewPeriod, now' = now, nextId' = nextId
  PROVE  ServiceView!Fire(i)
<1>1. DOMAIN ViewDue = Owed /\ \A j \in Owed : ViewDue[j] = EndTime(j)
  BY DEF ViewDue
<1>2. ViewDue' = [j \in DOMAIN ViewDue \ {i} |-> ViewDue[j]]
  BY <1>1 DEF ViewDue
<1> QED
  BY <1>1, <1>2 DEF ViewDue, ViewPeriod, ViewRunning, ServiceView!Fire, ServiceView!Without,
     ServiceView!Waits
\* A timer is set: it is owed from now on, after one of the delays.
LEMMA ServiceSet ==
  ASSUME NEW delay \in Durations, NEW repeats \in BOOLEAN, NEW i \in Ids,
         TypeOK, i = nextId, ~Destroying, Destroying' = Destroying,
         nextId' = nextId + 1, Owed' = Owed \cup {i}, i \notin Owed,
         \A j \in Owed : EndTime(j)' = EndTime(j), EndTime(i)' = now + delay,
         ViewPeriod' = [ViewPeriod EXCEPT ![i] = IF repeats THEN delay ELSE -1],
         ViewRunning' = ViewRunning, now' = now
  PROVE  ServiceView!Set(i)
<1>1. /\ i \in Nat /\ i \notin 1..(nextId - 1)
      /\ 1..(nextId' - 1) = 1..(nextId - 1) \cup {i}
  BY DEF TypeOK, Ids
<1>2. DOMAIN ViewDue = Owed /\ \A j \in Owed : ViewDue[j] = EndTime(j)
  BY DEF ViewDue
<1>3. ViewDue' = [j \in DOMAIN ViewDue \cup {i} |-> IF j = i THEN now + delay ELSE ViewDue[j]]
  BY <1>2 DEF ViewDue
<1> QED
  BY <1>1, <1>3 DEF ViewDue, ViewPeriod, ViewRunning, ServiceView!Set, ServiceView!With,
     ServiceView!Once

\* A callback has returned: an interval that was not cleared is owed again.
LEMMA ServiceReturn ==
  ASSUME NEW i \in Ids, ViewRunning = i, ViewRunning' = None, TypeOK, i \notin Owed,
         IF isRepeating[i] /\ ~cancelled[i]
         THEN Owed' = Owed \cup {i} /\ EndTime(i)' = now + duration[i]
         ELSE Owed' = Owed,
         \A j \in Owed : EndTime(j)' = EndTime(j),
         ViewPeriod' = ViewPeriod, now' = now, nextId' = nextId, Destroying' = Destroying
  PROVE  ServiceView!Return
<1>1. i # None /\ duration[i] \in Nat
  BY DEF TypeOK, Ids, None
<1>2. DOMAIN ViewDue = Owed /\ \A j \in Owed : ViewDue[j] = EndTime(j)
  BY DEF ViewDue
<1>3. ViewPeriod[i] = IF isRepeating[i] /\ ~cancelled[i] THEN duration[i] ELSE -1
  BY DEF ViewPeriod
<1>4. ViewDue' = IF ViewPeriod[i] = -1 THEN ViewDue
                 ELSE [j \in DOMAIN ViewDue \cup {i} |->
                         IF j = i THEN now + ViewPeriod[i] ELSE ViewDue[j]]
  <2>1. CASE isRepeating[i] /\ ~cancelled[i]
    BY <1>1, <1>2, <1>3, <2>1 DEF ViewDue
  <2>2. CASE ~(isRepeating[i] /\ ~cancelled[i])
    BY <1>3, <2>2 DEF ViewDue
  <2> QED
    BY <2>1, <2>2
<1> QED
  BY <1>1, <1>4 DEF ViewDue, ViewPeriod, ViewRunning, ServiceView!Return, ServiceView!With,
     ServiceView!Once

\* A callback has thrown.
LEMMA ServiceThrow ==
  ASSUME ViewRunning # None, ViewRunning' = None,
         ViewDue' = ViewDue, ViewPeriod' = ViewPeriod, now' = now, nextId' = nextId,
         Destroying' = Destroying
  PROVE  ServiceView!Throw
  BY DEF ViewDue, ViewPeriod, ViewRunning, ServiceView!Throw

\* The destructor begins, and nothing is owed any more.
LEMMA ServiceClose ==
  ASSUME ViewRunning = None, ViewRunning' = None, Destroying',
         ViewPeriod' = ViewPeriod, now' = now, nextId' = nextId
  PROVE  ServiceView!Close
<1>1. Owed' = {}
  BY DEF Owed
<1>2. ViewDue' = [i \in {} |-> 0]
  BY <1>1 DEF ViewDue
<1> QED
  BY <1>2 DEF ViewDue, ViewPeriod, ViewRunning, ServiceView!Close
\* Which steps the service does not see.
Unseen ==
  \/ WaitReturns \/ ScriptOrJobsEnd \/ CallbackReturns \/ TakeEvent \/ (Ring /\ cancelled[event])
  \/ TimerThread \/ DestructorStops \/ DestructorNotifies \/ DestructorJoins \/ UNCHANGED vars

\* Those steps change neither the marks nor the rounds, and start or end no callback.
LEMMA UnseenKeeps ==
  ASSUME IndInv, Unseen
  PROVE  /\ UNCHANGED <<now, nextId, startTime, duration, isRepeating, cancelled>>
         /\ ViewRunning' = ViewRunning /\ Destroying' = Destroying
<1> USE DEF ViewRunning, Destroying, timerVars
<1>1. CASE WaitReturns \/ ScriptOrJobsEnd \/ CallbackReturns \/ TakeEvent \/ (Ring /\ cancelled[event])
  BY <1>1 DEF WaitReturns, ScriptOrJobsEnd, CallbackReturns, TakeEvent, Ring
<1>2. CASE TimerThread
  BY <1>2 DEF TimerThread, StopCondition, NoTimers, TopIsAhead, TopIsDue, StartsOver,
     ScheduleEvent, LeaveBody
<1>3. CASE DestructorStops \/ DestructorNotifies \/ DestructorJoins
  BY <1>3 DEF DestructorStops, DestructorNotifies, DestructorJoins
<1>4. CASE UNCHANGED vars
  BY <1>4 DEF vars
<1> QED
  BY <1>1, <1>2, <1>3, <1>4 DEF Unseen

\* Nor do they lose a timer that is owed: only a cleared one leaves unseen.
LEMMA UnseenOwes == IndInv /\ Unseen => Owed' = Owed
<1> SUFFICES ASSUME IndInv, Unseen PROVE Owed' = Owed
  OBVIOUS
<1>1. cancelled' = cancelled /\ Destroying' = Destroying
  BY UnseenKeeps
<1>2. Waiting' = Waiting => Owed' = Owed
  BY <1>1 DEF Owed
<1> USE DEF Waiting, Late
<1>3. CASE Destroying
  BY <1>1, <1>3 DEF Owed
<1>4. CASE TakeEvent
  BY <1>2, <1>4, TakeMoves DEF IndInv, Ringing, TakeEvent
<1>5. CASE Ring /\ cancelled[event]
  <2>1. Ringing' = {} /\ Ringing = {event}
    BY <1>5 DEF Ring, Ringing
  <2>2. Waiting' \cup {event} = Waiting
    BY <1>5, <2>1, RingMoves
  <2> QED
    BY <1>1, <1>5, <2>2 DEF Owed
<1>6. CASE TopIsDue
  <2>1. Ringing' = Ringing
    BY <1>6 DEF TopIsDue, Ringing
  <2>2. PICK i \in timers :
          /\ InThread = {} /\ timers' = timers \ {i} /\ InQueue' = InQueue
          /\ InThread' = IF cancelled[i] THEN {} ELSE {i}
    BY <1>6, DueMoves DEF IndInv
  <2>3. CASE cancelled[i]
    <3>1. Waiting' \cup {i} = Waiting
      BY <2>1, <2>2, <2>3
    <3> QED
      BY <1>1, <2>3, <3>1 DEF Owed
  <2>4. CASE ~cancelled[i]
    BY <1>2, <2>1, <2>2, <2>4
  <2> QED
    BY <2>3, <2>4
<1>7. CASE ScheduleEvent
  <2>1. Ringing' = Ringing
    BY <1>7 DEF ScheduleEvent, Ringing
  <2> QED
    BY <1>2, <1>7, <2>1, ScheduleMoves DEF IndInv
<1>8. CASE WaitReturns \/ ScriptOrJobsEnd \/ CallbackReturns \/ StopCondition \/ NoTimers
             \/ TopIsAhead \/ StartsOver \/ LeaveBody \/ UNCHANGED vars
  <2>1. Ringing' = Ringing
    BY <1>8 DEF Ringing, WaitReturns, ScriptOrJobsEnd, CallbackReturns, StopCondition, NoTimers,
       TopIsAhead, StartsOver, LeaveBody, vars
  <2>2. Quiet
    BY <1>8 DEF Quiet
  <2> QED
    BY <1>2, <2>1, <2>2, QuietMoves DEF Settled
<1>9. DestructorStops \/ DestructorNotifies \/ DestructorJoins => Destroying
  BY DEF DestructorStops, DestructorNotifies, DestructorJoins, Destroying
<1> QED
  BY <1>3, <1>4, <1>5, <1>6, <1>7, <1>8, <1>9 DEF Unseen, TimerThread
\* Under the mapping, every step is one of the service or none at all.
LEMMA ServiceStep ==
  IndInv /\ KeptInv /\ RingOrder /\ [Next]_vars => [ServiceView!Next]_(ServiceView!vars)
<1> SUFFICES ASSUME IndInv, KeptInv, RingOrder, [Next]_vars
             PROVE  ServiceView!Next \/ UNCHANGED ServiceView!vars
  OBVIOUS
<1>1. TypeOK /\ HolderInv /\ OnePlace /\ Waiting \subseteq Ids
  BY Numbers DEF IndInv, HolderInv
<1>2. CASE Unseen
  <2>1. \A i \in Owed : EndTime(i)' = EndTime(i)
    BY <1>2, UnseenKeeps DEF EndTime
  <2>2. ViewPeriod' = ViewPeriod
    BY <1>2, UnseenKeeps DEF ViewPeriod
  <2> QED
    BY <1>2, <2>1, <2>2, UnseenKeeps, UnseenOwes, SameDue, SameView
<1>3. CASE Tick
  <2>1. now' = now + 1 /\ UNCHANGED <<timers, scheduledFunctions, tpc, timer, jpc, event,
                                      nextId, startTime, duration, isRepeating, cancelled>>
    BY <1>3 DEF Tick, timerVars, tableVars
  <2>2. Owed' = Owed /\ ViewPeriod' = ViewPeriod /\ ViewRunning' = ViewRunning
        /\ Destroying' = Destroying
    BY <2>1 DEF Owed, Waiting, Late, Ringing, InThread, InQueue, ViewPeriod, ViewRunning, Destroying
  <2>3. \A i \in Owed : EndTime(i)' = EndTime(i)
    BY <2>1 DEF EndTime
  <2> QED
    BY <2>1, <2>2, <2>3, SameDue, ServiceTick DEF ServiceView!Next
<1>4. CASE CallbackThrows
  <2>1. /\ jpc = "callback" /\ jpc' = "loop"
        /\ UNCHANGED <<timers, scheduledFunctions, tpc, timer, now,
                       nextId, startTime, duration, isRepeating, cancelled>>
    BY <1>4 DEF CallbackThrows, timerVars, tableVars
  <2>2. Owed' = Owed /\ ViewPeriod' = ViewPeriod /\ Destroying' = Destroying
    BY <2>1 DEF Owed, Waiting, Late, Ringing, InThread, InQueue, ViewPeriod, Destroying
  <2>3. \A i \in Owed : EndTime(i)' = EndTime(i)
    BY <2>1 DEF EndTime
  <2>4. ViewRunning # None /\ ViewRunning' = None
    BY <1>1, <2>1 DEF ViewRunning, HolderInv, LocalInv
  <2> QED
    BY <2>1, <2>2, <2>3, <2>4, SameDue, ServiceThrow DEF ServiceView!Next
<1>5. CASE DestructorClears
  <2>1. ViewRunning = None /\ ViewRunning' = None /\ Destroying' /\ ViewPeriod' = ViewPeriod
        /\ now' = now /\ nextId' = nextId
    BY <1>5 DEF DestructorClears, ViewRunning, Destroying, ViewPeriod, timerVars
  <2> QED
    BY <2>1, ServiceClose DEF ServiceView!Next
<1>6. ASSUME NEW i \in Ids, ClearTimer(i) PROVE ServiceView!Clear(i)
  <2>1. /\ UNCHANGED <<timers, scheduledFunctions, tpc, timer, jpc, event, now,
                       nextId, startTime, duration, isRepeating>>
        /\ cancelled' = [cancelled EXCEPT ![i] = TRUE]
        /\ ~Destroying /\ i \in timersById
    BY <1>6 DEF ClearTimer, InJavaScript, Destroying, tableVars
  <2>2. i < nextId
    BY <2>1, KeptTypes
  <2>3. cancelled \in [Ids -> BOOLEAN]
    BY <1>1 DEF TypeOK
  <2>4. Destroying' = Destroying /\ ViewRunning' = ViewRunning /\ Waiting' = Waiting
    BY <2>1 DEF Destroying, ViewRunning, Waiting, Late, Ringing, InThread, InQueue
  <2>5. Owed' = Owed \ {i}
    BY <1>1, <2>1, <2>3, <2>4 DEF Owed
  <2>6. ViewPeriod' = [ViewPeriod EXCEPT ![i] = -1]
    BY <2>1, <2>3 DEF ViewPeriod
  <2>7. \A j \in Owed' : EndTime(j)' = EndTime(j)
    BY <2>1 DEF EndTime
  <2> QED
    BY <1>1, <2>1, <2>2, <2>4, <2>5, <2>6, <2>7, ServiceClear
<1>7. CASE Ring /\ ~cancelled[event]
  <2>1. /\ jpc = "ring" /\ jpc' = "callback"
        /\ UNCHANGED <<timers, scheduledFunctions, tpc, timer, event, now,
                       nextId, startTime, duration, isRepeating, cancelled>>
    BY <1>7 DEF Ring, timerVars
  <2>2. PICK i : i = event
    OBVIOUS
  <2>3. i \in Late /\ i \in Waiting /\ ~Destroying
    BY <2>1, <2>2 DEF Late, Waiting, Ringing, Destroying
  <2>4. i \in Owed
    BY <1>7, <2>2, <2>3 DEF Owed
  <2>5. EndTime(i) <= now /\ \A j \in Owed : EndTime(i) <= EndTime(j)
    BY <2>1, <2>2, <2>3 DEF IndInv, DueInv, RingOrder, Owed
  <2>6. Waiting' = Waiting \ {i}
    <3>1. i \notin timers \cup InThread \cup InQueue
      BY <1>1, <1>7, <2>2, RingMoves DEF OnePlace
    <3> QED
      BY <2>1, <2>2, <3>1 DEF Waiting, Late, Ringing, InThread, InQueue
  <2>7. Owed' = Owed \ {i} /\ Destroying' = Destroying
    BY <2>1, <2>6 DEF Owed, Destroying
  <2>8. ViewRunning = None /\ ViewRunning' = i /\ ViewPeriod' = ViewPeriod
    BY <2>1, <2>2 DEF ViewRunning, ViewPeriod
  <2>9. \A j \in Owed' : EndTime(j)' = EndTime(j)
    BY <2>1 DEF EndTime
  <2>10. ServiceView!Fire(i)
    BY <2>1, <2>3, <2>4, <2>5, <2>7, <2>8, <2>9, ServiceFire
  <2> QED
    BY <1>1, <2>3, <2>10 DEF ServiceView!Next
<1>8. CASE AfterCallback
  <2>1. PICK i : i = event
    OBVIOUS
  <2>2. /\ jpc = "tail" /\ jpc' = "jobs" /\ i \in Ids
        /\ UNCHANGED <<scheduledFunctions, event, now, nextId, duration, isRepeating, cancelled>>
        /\ IF isRepeating[i] THEN startTime' = [startTime EXCEPT ![i] = now]
                             ELSE startTime' = startTime
    BY <1>1, <1>8, <2>1 DEF AfterCallback, HolderInv, LocalInv, TypeOK
  <2>3. i \notin Waiting
    BY <1>1, <1>8, <2>1, <2>2, AfterCallbackMoves DEF OnePlace, Waiting, Late, Ringing
  <2>4. Waiting' = IF isRepeating[i] THEN Waiting \cup {i} ELSE Waiting
    BY <1>8, <2>1, <2>2, AfterCallbackMoves DEF Waiting, Late, Ringing
  <2>5. Destroying' = Destroying /\ ViewPeriod' = ViewPeriod /\ ~Destroying
    BY <2>2 DEF Destroying, ViewPeriod
  <2>6. ViewRunning = i /\ ViewRunning' = None
    BY <2>1, <2>2 DEF ViewRunning
  <2>7. \A j \in Owed : EndTime(j)' = EndTime(j)
    BY <1>1, <2>2, <2>3 DEF EndTime, Owed, TypeOK
  <2>8. IF isRepeating[i] /\ ~cancelled[i]
        THEN Owed' = Owed \cup {i} /\ EndTime(i)' = now + duration[i]
        ELSE Owed' = Owed
    <3>1. isRepeating[i] => EndTime(i)' = now + duration[i]
      BY <1>1, <2>2 DEF EndTime, TypeOK
    <3> QED
      BY <2>2, <2>4, <2>5, <3>1 DEF Owed
  <2>9. i \notin Owed
    BY <2>3 DEF Owed
  <2> QED
    BY <1>1, <2>2, <2>5, <2>6, <2>7, <2>8, <2>9, ServiceReturn DEF ServiceView!Next
<1>9. CASE CreateTimer
  <2>1. PICK i : i = nextId
    OBVIOUS
  <2>2. PICK delay \in Durations, repeats \in BOOLEAN :
          /\ duration' = [duration EXCEPT ![i] = delay]
          /\ isRepeating' = [isRepeating EXCEPT ![i] = repeats]
    BY <1>9, <2>1 DEF CreateTimer
  <2>3. /\ i \in Ids /\ nextId' = nextId + 1 /\ startTime' = [startTime EXCEPT ![i] = now]
        /\ jpc \in {"script", "callback", "jobs"}
        /\ UNCHANGED <<now, cancelled, jpc, event>>
    BY <1>1, <1>9, <2>1, CreateMoves DEF CreateTimer, InJavaScript
  <2>4. ~cancelled[i] /\ i \notin Waiting
    <3>1. i >= nextId
      BY <2>1, KeptTypes
    <3>2. Waiting = timers \cup InThread \cup InQueue
      BY <2>3 DEF Waiting, Late, Ringing
    <3> QED
      BY <1>1, <2>3, <3>1, <3>2 DEF KeptInv, HolderInv, UnusedInv
  <2>5. Waiting' = Waiting \cup {i}
    BY <1>1, <1>9, <2>1, <2>3, CreateMoves DEF Waiting, Late, Ringing
  <2>6. ~Destroying /\ Destroying' = Destroying /\ ViewRunning' = ViewRunning
    BY <2>3 DEF Destroying, ViewRunning
  <2>7. Owed' = Owed \cup {i} /\ i \notin Owed
    BY <2>3, <2>4, <2>5, <2>6 DEF Owed
  <2>8. \A j \in Owed : EndTime(j)' = EndTime(j)
    BY <1>1, <2>2, <2>3, <2>4 DEF EndTime, Owed, TypeOK
  <2>9. EndTime(i)' = now + delay
    BY <1>1, <2>2, <2>3 DEF EndTime, TypeOK
  <2>10. ViewPeriod' = [ViewPeriod EXCEPT ![i] = IF repeats THEN delay ELSE -1]
    BY <1>1, <2>2, <2>3, <2>4 DEF ViewPeriod, TypeOK
  <2>11. ServiceView!Set(i)
    BY <1>1, <2>1, <2>3, <2>6, <2>7, <2>8, <2>9, <2>10, ServiceSet
  <2> QED
    BY <2>3, <2>11 DEF ServiceView!Next
<1> QED
  BY <1>2, <1>3, <1>4, <1>5, <1>6, <1>7, <1>8, <1>9
  DEF Next, EventSteps, Destructor, Unseen, ServiceView!Next

\* The threads, the heap, the queue and the table implement timers that ring when they are
\* due, in the order of their deadlines, and never once they were cleared.
THEOREM TimersImplementService == Spec => ImplementsTimerService
<1>1. Init => KeptInv /\ RingOrder
  BY KeptInit DEF Init, RingOrder
<1>2. IndInv /\ KeptInv /\ RingOrder /\ [Next]_vars => KeptInv' /\ RingOrder'
  BY KeptStep, RingOrderStep
<1>3. Spec => [](IndInv /\ KeptInv /\ RingOrder)
  BY <1>1, <1>2, Invariance, PTL DEF Spec
<1> QED
  BY <1>3, ServiceInit, ServiceStep, PTL DEF Spec, ImplementsTimerService, ServiceView!Spec

===============================================================================
