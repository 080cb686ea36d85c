-------------------------------- MODULE Timers --------------------------------
(***************************************************************************)
(* TimersFeature: setTimeout, setInterval, sleep and their clear           *)
(* functions.  The JavaScript thread creates and clears timers; a timer    *)
(* thread sleeps until the earliest deadline and schedules an event that   *)
(* runs the callback on the JavaScript thread; the destructor stops and    *)
(* joins the timer thread.                                                 *)
(*                                                                         *)
(* A block under _timersMutex is one action.  The event loop is taken at   *)
(* the interface that EventLoop is shown to implement (TaskLoop): a FIFO   *)
(* of events, one task at a time, the jobs of a task before the next one.  *)
(* Timers are shared_ptrs: who holds one is part of the state, because the *)
(* last holder to let go destroys the JavaScript function inside.          *)
(***************************************************************************)
EXTENDS Integers, Sequences, SequencesExt

CONSTANTS MaxTimers,  \* bound: how many timers are created
          MaxTime,    \* bound: when the clock stops
          Durations   \* the delays asked for, in ticks

ASSUME TimersAssumption ==
  /\ MaxTimers \in Nat /\ MaxTime \in Nat
  /\ Durations \subseteq Nat

Ids == 1..MaxTimers
None == 0

VARIABLES
  now,         \* steady_clock
  nextId,
  startTime, duration, isRepeating, cancelled,  \* the Timer objects, by id
  timers,      \* _timers: the heap, as a set
  timersById,  \* _timersById: its keys
  scheduledFunctions, \* the events of the timer thread, as the ids they captured
  tpc,         \* where the timer thread is
  timer,       \* its local: the timer it took from the heap
  jpc,         \* where the JavaScript thread is
  event,       \* its local: the timer captured by the event it holds
  stop,        \* _stop
  thrown,      \* history: the timers whose callback threw
  rungAt       \* history: when the callback last started, -1 before the first time

timerVars == <<nextId, startTime, duration, isRepeating, cancelled>>
tableVars == <<timers, timersById>>
history == <<thrown, rungAt>>
vars == <<now, timerVars, tableVars, scheduledFunctions, tpc, timer, jpc, event, stop, history>>

TypeOK ==
  /\ now \in 0..MaxTime /\ nextId \in 1..(MaxTimers + 1)
  /\ startTime \in [Ids -> Nat] /\ duration \in [Ids -> Nat]
  /\ isRepeating \in [Ids -> BOOLEAN] /\ cancelled \in [Ids -> BOOLEAN]
  /\ timers \subseteq Ids /\ timersById \subseteq Ids
  /\ scheduledFunctions \in Seq(Ids)
  /\ tpc \in {"check", "lock", "wait", "woken", "waitUntil", "roused", "push", "leave", "done"}
  /\ timer \in Ids \cup {None} /\ event \in Ids \cup {None}
  /\ jpc \in {"loop", "script", "ring", "callback", "tail", "jobs",
              "stop", "notify", "join", "destroyed"}
  /\ stop \in BOOLEAN
  /\ thrown \subseteq Ids /\ rungAt \in [Ids -> Int]

\* initialize() has started the thread, the embedder evaluates a script.
Init ==
  /\ now = 0 /\ nextId = 1
  /\ startTime = [i \in Ids |-> 0] /\ duration = [i \in Ids |-> 0]
  /\ isRepeating = [i \in Ids |-> FALSE] /\ cancelled = [i \in Ids |-> FALSE]
  /\ timers = {} /\ timersById = {}
  /\ scheduledFunctions = <<>>
  /\ tpc = "check" /\ timer = None
  /\ jpc = "script" /\ event = None
  /\ stop = FALSE
  /\ thrown = {} /\ rungAt = [i \in Ids |-> -1]

EndTime(i) == startTime[i] + duration[i]

\* The order of the heap turned round.
Latest == {i \in timers : \A j \in timers : EndTime(j) <= EndTime(i)}

\* The root of the heap: ties are broken in no particular order.
Tops == {i \in timers : \A j \in timers : EndTime(i) <= EndTime(j)}

-------------------------------------------------------------------------------
(* Time, and the condition variable of the timer thread.                     *)

Tick ==
  /\ now < MaxTime
  /\ now' = now + 1
  /\ UNCHANGED <<timerVars, tableVars, scheduledFunctions, tpc, timer, jpc, event, stop, history>>

\* A thread in wait() or wait_until() that the condition variable lets go.
Woken == CASE tpc = "wait" -> "woken" [] tpc = "waitUntil" -> "roused" [] OTHER -> tpc

\* A notify_one that was forgotten.
NoSignal == tpc' = tpc

Signal == tpc' = Woken

\* wait_until returns at its deadline; either wait may return spuriously.
WaitReturns ==
  /\ tpc \in {"wait", "waitUntil"}
  /\ Signal
  /\ UNCHANGED <<now, timerVars, tableVars, scheduledFunctions, timer, jpc, event, stop, history>>

WaitTimesOut == tpc = "waitUntil" /\ EndTime(timer) <= now /\ WaitReturns

-------------------------------------------------------------------------------
(* JavaScript: the script, a callback, or the jobs that follow it.           *)

InJavaScript == jpc \in {"script", "callback", "jobs"}

\* setTimeout, setInterval and sleep.
CreateTimer ==
  /\ InJavaScript
  /\ nextId <= MaxTimers
  /\ \E millis \in Durations, repeats \in BOOLEAN :
       /\ duration' = [duration EXCEPT ![nextId] = millis]
       /\ isRepeating' = [isRepeating EXCEPT ![nextId] = repeats]
  /\ startTime' = [startTime EXCEPT ![nextId] = now]
  /\ timers' = timers \cup {nextId}
  /\ timersById' = timersById \cup {nextId}
  /\ nextId' = nextId + 1
  /\ Signal
  /\ UNCHANGED <<now, cancelled, scheduledFunctions, timer, jpc, event, stop, history>>

\* A clear that forgets the id at once.
ClearErases(i) ==
  /\ InJavaScript
  /\ i \in timersById
  /\ cancelled' = [cancelled EXCEPT ![i] = TRUE]
  /\ timersById' = timersById \ {i}
  /\ UNCHANGED <<now, nextId, startTime, duration, isRepeating, timers,
                 scheduledFunctions, tpc, timer, jpc, event, stop, history>>

\* clearTimeout and clearInterval: the timer is marked, and stays where it is.
ClearTimer(i) ==
  /\ InJavaScript
  /\ i \in timersById
  /\ cancelled' = [cancelled EXCEPT ![i] = TRUE]
  /\ UNCHANGED <<now, nextId, startTime, duration, isRepeating, tableVars,
                 scheduledFunctions, tpc, timer, jpc, event, stop, history>>

\* The script, or the jobs of an iteration: after those the event is destroyed.
ScriptOrJobsEnd ==
  /\ jpc \in {"script", "jobs"}
  /\ jpc' = "loop"
  /\ event' = None
  /\ UNCHANGED <<now, timerVars, tableVars, scheduledFunctions, tpc, timer, stop, history>>

\* A callback that throws unwinds the event and runEventLoop, past the tail.
CallbackThrows ==
  /\ jpc = "callback"
  /\ jpc' = "loop"
  /\ event' = None
  /\ thrown' = thrown \cup {event}
  /\ UNCHANGED <<now, timerVars, tableVars, scheduledFunctions, tpc, timer, stop, rungAt>>

CallbackReturns ==
  /\ jpc = "callback"
  /\ jpc' = "tail"
  /\ UNCHANGED <<now, timerVars, tableVars, scheduledFunctions, tpc, timer, event, stop, history>>

-------------------------------------------------------------------------------
(* The event of a timer, on the JavaScript thread.                           *)

TakeEvent ==
  /\ jpc = "loop"
  /\ scheduledFunctions # <<>>
  /\ event' = Head(scheduledFunctions)
  /\ scheduledFunctions' = Tail(scheduledFunctions)
  /\ jpc' = "ring"
  /\ UNCHANGED <<now, timerVars, tableVars, tpc, timer, stop, history>>

\* The event runs the callback without looking at cancelled again.
RingRegardless ==
  /\ jpc = "ring"
  /\ jpc' = "callback"
  /\ rungAt' = [rungAt EXCEPT ![event] = now]
  /\ UNCHANGED <<now, timerVars, tableVars, scheduledFunctions, tpc, timer, event, stop, thrown>>

Ring ==
  /\ jpc = "ring"
  /\ IF cancelled[event]
     THEN /\ jpc' = "jobs"
          /\ timersById' = timersById \ {event}
          /\ UNCHANGED rungAt
     ELSE /\ jpc' = "callback"
          /\ rungAt' = [rungAt EXCEPT ![event] = now]
          /\ UNCHANGED timersById
  /\ UNCHANGED <<now, timerVars, timers, scheduledFunctions, tpc, timer, event, stop, thrown>>

\* A tail that keeps the interval's start of the last round.
AfterCallbackUnchanged ==
  /\ jpc = "tail"
  /\ jpc' = "jobs"
  /\ timers' = IF isRepeating[event] THEN timers \cup {event} ELSE timers
  /\ timersById' = IF isRepeating[event] THEN timersById ELSE timersById \ {event}
  /\ IF isRepeating[event] THEN Signal ELSE NoSignal
  /\ UNCHANGED <<now, timerVars, scheduledFunctions, timer, event, stop, history>>

\* A tail that forgets an interval, too.
AfterCallbackForgets ==
  /\ jpc = "tail"
  /\ jpc' = "jobs"
  /\ timersById' = timersById \ {event}
  /\ IF isRepeating[event]
     THEN /\ startTime' = [startTime EXCEPT ![event] = now]
          /\ timers' = timers \cup {event}
          /\ Signal
     ELSE UNCHANGED <<startTime, timers, tpc>>
  /\ UNCHANGED <<now, nextId, duration, isRepeating, cancelled,
                 scheduledFunctions, timer, event, stop, history>>

\* After the callback: an interval starts again, a timeout is forgotten.
AfterCallback ==
  /\ jpc = "tail"
  /\ jpc' = "jobs"
  /\ IF isRepeating[event]
     THEN /\ startTime' = [startTime EXCEPT ![event] = now]
          /\ timers' = timers \cup {event}
          /\ Signal
          /\ UNCHANGED timersById
     ELSE /\ timersById' = timersById \ {event}
          /\ UNCHANGED <<startTime, timers, tpc>>
  /\ UNCHANGED <<now, nextId, duration, isRepeating, cancelled,
                 scheduledFunctions, timer, event, stop, history>>

-------------------------------------------------------------------------------
(* The timer thread.                                                         *)

StopCondition ==
  /\ tpc = "check"
  /\ tpc' = IF stop THEN "done" ELSE "lock"
  /\ UNCHANGED <<now, timerVars, tableVars, scheduledFunctions, timer, jpc, event, stop, history>>

\* Under the mutex: nothing to wait for. The first time it sleeps, woken it starts over.
NoTimers ==
  /\ tpc \in {"lock", "woken"}
  /\ timers = {}
  /\ tpc' = IF tpc = "lock" THEN "wait" ELSE "check"
  /\ UNCHANGED <<now, timerVars, tableVars, scheduledFunctions, timer, jpc, event, stop, history>>

\* Under the mutex: the earliest deadline is ahead, sleep until then holding the timer.
TopIsAhead ==
  /\ tpc \in {"lock", "woken"}
  /\ \E i \in Tops :
       /\ EndTime(i) > now
       /\ timer' = i
  /\ tpc' = "waitUntil"
  /\ UNCHANGED <<now, timerVars, tableVars, scheduledFunctions, jpc, event, stop, history>>

\* top() without the pop().
DueStaysInHeap ==
  /\ tpc \in {"lock", "woken"}
  /\ \E i \in Tops :
       /\ EndTime(i) <= now
       /\ tpc' = "push" /\ timer' = i
  /\ UNCHANGED <<now, timerVars, tableVars, scheduledFunctions, jpc, event, stop, history>>

\* Under the mutex: the earliest timer is due. A cleared one is let go here.
TopIsDue ==
  /\ tpc \in {"lock", "woken"}
  /\ \E i \in Tops :
       /\ EndTime(i) <= now
       /\ timers' = timers \ {i}
       /\ IF cancelled[i]
          THEN /\ timersById' = timersById \ {i}
               /\ tpc' = "check" /\ timer' = None
          ELSE /\ tpc' = "push" /\ timer' = i
               /\ UNCHANGED timersById
  /\ UNCHANGED <<now, timerVars, scheduledFunctions, jpc, event, stop, history>>

\* wait_until is followed by continue.
StartsOver ==
  /\ tpc = "roused"
  /\ tpc' = "check"
  /\ timer' = None
  /\ UNCHANGED <<now, timerVars, tableVars, scheduledFunctions, jpc, event, stop, history>>

\* scheduleEvent: the closure holds the timer, and so does the thread, until it leaves.
ScheduleEvent ==
  /\ tpc = "push"
  /\ tpc' = "leave"
  /\ scheduledFunctions' = Append(scheduledFunctions, timer)
  /\ UNCHANGED <<now, timerVars, tableVars, timer, jpc, event, stop, history>>

LeaveBody ==
  /\ tpc = "leave"
  /\ tpc' = "check"
  /\ timer' = None
  /\ UNCHANGED <<now, timerVars, tableVars, scheduledFunctions, jpc, event, stop, history>>

-------------------------------------------------------------------------------
(* ~TimersFeature, on the JavaScript thread, outside of the loop.            *)

DestructorClears ==
  /\ jpc = "loop"
  /\ jpc' = "stop"
  /\ timers' = {}
  /\ UNCHANGED <<now, timerVars, timersById, scheduledFunctions, tpc, timer, event, stop, history>>

DestructorStops ==
  /\ jpc = "stop"
  /\ jpc' = "notify"
  /\ stop' = TRUE
  /\ UNCHANGED <<now, timerVars, tableVars, scheduledFunctions, tpc, timer, event, history>>

DestructorNotifies ==
  /\ jpc = "notify"
  /\ jpc' = "join"
  /\ Signal
  /\ UNCHANGED <<now, timerVars, tableVars, scheduledFunctions, timer, event, stop, history>>

\* join(), then the members and the queue of the base class go.
DestructorJoins ==
  /\ jpc = "join" /\ tpc = "done"
  /\ jpc' = "destroyed"
  /\ timersById' = {}
  /\ scheduledFunctions' = <<>>
  /\ UNCHANGED <<now, timerVars, timers, tpc, timer, event, stop, history>>

-------------------------------------------------------------------------------
TimerThread ==
  \/ StopCondition \/ NoTimers \/ TopIsAhead \/ TopIsDue
  \/ StartsOver \/ ScheduleEvent \/ LeaveBody

EventSteps ==
  \/ TakeEvent \/ Ring \/ AfterCallback
  \/ CallbackReturns \/ CallbackThrows \/ ScriptOrJobsEnd

Destructor ==
  DestructorClears \/ DestructorStops \/ DestructorNotifies \/ DestructorJoins

Next ==
  \/ Tick \/ WaitReturns
  \/ CreateTimer \/ (\E i \in Ids : ClearTimer(i)) \/ EventSteps
  \/ TimerThread \/ Destructor

Spec == Init /\ [][Next]_vars

\* Both threads run, a wait with a deadline ends at it, a callback ends, and the loop
\* takes its next event. Spurious wakeups are possible and never owed.
Fairness ==
  /\ WF_vars(TimerThread)
  /\ WF_vars(WaitTimesOut)
  /\ WF_vars(EventSteps)
  /\ WF_vars(DestructorStops \/ DestructorNotifies \/ DestructorJoins)

FairSpec == Spec /\ Fairness

-------------------------------------------------------------------------------
(* Safety.                                                                   *)

\* Where a live timer is, between its creation and the end of its last event.
InThread  == IF tpc = "push" THEN {timer} ELSE {}
InQueue   == ToSet(scheduledFunctions)
InEvent   == IF jpc \in {"ring", "callback", "tail"} THEN {event} ELSE {}

\* The destructor has begun.
Destroying == jpc \in {"stop", "notify", "join", "destroyed"}

\* A live timer is in one place only: the heap, the timer thread's hand, the event
\* queue or the running event; so a round of it rings once and an interval does not
\* multiply.
OnePlace ==
  /\ timers \cap (InThread \cup InQueue \cup InEvent) = {}
  /\ InThread \cap (InQueue \cup InEvent) = {}
  /\ InQueue \cap InEvent = {}
  /\ IsInjective(scheduledFunctions)

\* The id table holds the live timers, and nothing else but the timers whose callback
\* threw: those are never erased. No timer leaks in another way.
TableExact ==
  ~Destroying =>
    timersById = timers \cup InThread \cup InQueue \cup InEvent \cup thrown

\* Whoever sleeps sleeps no longer than it may: without a deadline only on an empty
\* heap, otherwise until the earliest deadline of the heap.
NoOversleep ==
  /\ tpc = "wait" => timers = {}
  /\ tpc = "waitUntil" => \A i \in timers : EndTime(timer) <= EndTime(i)

\* Timers ring in the order of their deadlines: the events queue up sorted, and
\* whatever has left the heap is due no later than whatever is still in it.
DeadlineOrder ==
  /\ \A a, b \in DOMAIN scheduledFunctions :
       a < b => EndTime(scheduledFunctions[a]) <= EndTime(scheduledFunctions[b])
  /\ \A i \in InQueue, j \in InThread \cup timers : EndTime(i) <= EndTime(j)
  /\ \A i \in InThread, j \in timers : EndTime(i) <= EndTime(j)

\* No callback starts before its deadline, nor after its timer was cleared, even when
\* the clear came between the timer thread's check and the event's.
RingsOnlyWhenDue ==
  [][jpc = "ring" /\ jpc' = "callback" => EndTime(event) <= now /\ ~cancelled[event]]_vars

\* Only an interval rings twice, and its rounds start at least its duration apart.
IntervalSpacing ==
  [][jpc = "ring" /\ jpc' = "callback" /\ rungAt[event] >= 0
       => isRepeating[event] /\ now - rungAt[event] >= duration[event]]_vars

\* Who still holds the shared_ptr of a timer.
Alive(i) == i \in timers \/ i \in timersById \/ i \in InQueue \/ timer = i \/ event = i

\* JavaScript values are touched by the JavaScript thread only: the timer thread is
\* never the last to let go of a timer, which would free the function in it.
ReleasedOnLoopThread ==
  [][TimerThread => \A i \in Ids : Alive(i) => Alive(i)']_vars

\* What does hold: the timer thread is the last holder of a timer only where the callback
\* is of no use any more. It is cleared, or has been called and is not owed again.
OwedOutlivesThread ==
  [][TimerThread => \A i \in Ids :
       Alive(i) /\ ~cancelled[i] /\ (rungAt[i] < 0 \/ (isRepeating[i] /\ i \notin thrown))
         => Alive(i)']_vars

-------------------------------------------------------------------------------
(* Liveness.                                                                 *)

\* An interval of no length: while the clock stands still it is due again at once, and a
\* tie with another timer may always go to it.
Starving(i) == \E j \in timersById \ {i} : isRepeating[j] /\ duration[j] = 0

\* A timer that is due gets its callback, or was cleared and is forgotten, unless the
\* machine is being destroyed or an interval of no length keeps the threads busy.
DueIsServed ==
  \A i \in Ids :
    (i \in timers /\ EndTime(i) <= now) ~>
      \/ jpc = "callback" /\ event = i
      \/ i \notin timersById
      \/ Destroying
      \/ Starving(i)

\* Destroying the machine ends: the join of the destructor returns.
DestructorReturns == jpc = "stop" ~> jpc = "destroyed"

-------------------------------------------------------------------------------
(* The timers as JavaScript sees them.                                       *)

\* Between its deadline and its callback a timer is as good as in the heap; one that was
\* cleared is as good as gone, long before the heap and the table forget it.
Ringing == IF jpc = "ring" THEN {event} ELSE {}
Late    == InThread \cup InQueue \cup Ringing
Waiting == timers \cup Late
Owed    == IF Destroying THEN {} ELSE {i \in Waiting : ~cancelled[i]}

ServiceView == INSTANCE TimerService WITH
  used    <- 1..(nextId - 1),
  due     <- [i \in Owed |-> EndTime(i)],
  period  <- [i \in Ids |-> IF isRepeating[i] /\ ~cancelled[i] THEN duration[i] ELSE -1],
  running <- IF jpc \in {"callback", "tail"} THEN event ELSE None,
  open    <- ~Destroying

\* Two threads, the heap, the queue, the table and their lazy clearing implement timers
\* that ring in the order of their deadlines and are cleared at once.
ImplementsTimerService == ServiceView!Spec

===============================================================================
