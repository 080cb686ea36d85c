------------------------------ MODULE EventQueue ------------------------------
(***************************************************************************)
(* EventQueueFeature: a deque of closures behind a mutex, with one         *)
(* condition variable on which the event loop thread waits for work.       *)
(*                                                                         *)
(* Every access to the deque happens under _scheduledFunctionsMutex, so a  *)
(* locked block is one action.  What the mutex does not cover is kept      *)
(* apart: scheduleEvent signals after it has unlocked, notifyEventLoop     *)
(* signals without ever locking, and getEvent waits ONCE, without a        *)
(* predicate, so that a wakeup may find the deque empty.                   *)
(*                                                                         *)
(* This module has the operations; EventLoop and Timers compose them with  *)
(* the threads that call them.                                             *)
(***************************************************************************)
EXTENDS Naturals, Sequences

CONSTANTS Senders,   \* the threads that call scheduleEvent
          Events     \* the closures they schedule

VARIABLES
  scheduledFunctions, \* _scheduledFunctions, the head is the next to run
  waiter,             \* the consumer inside getEvent: on the condition variable or not
  sending             \* per sender: between the unlock and the notify_one of scheduleEvent?

queueVars == <<scheduledFunctions, waiter, sending>>

QueueTypeOK ==
  /\ scheduledFunctions \in Seq(Events)
  /\ waiter \in {"running", "blocked", "woken"}
  /\ sending \in [Senders -> BOOLEAN]

QueueInit ==
  /\ scheduledFunctions = <<>>
  /\ waiter = "running"
  /\ sending = [s \in Senders |-> FALSE]

-------------------------------------------------------------------------------
(* The condition variable. *)

\* A forgotten notify_one: the waiter stays where it is.
SignalLost == waiter' = waiter

\* notify_one: a blocked consumer becomes runnable, a signal with nobody waiting is lost.
Signal == waiter' = IF waiter = "blocked" THEN "woken" ELSE waiter

\* The standard lets a wait return with no notification.
SpuriousWakeup ==
  /\ waiter = "blocked"
  /\ waiter' = "woken"
  /\ UNCHANGED <<scheduledFunctions, sending>>

-------------------------------------------------------------------------------
(* scheduleEvent: push under the mutex, then signal outside it. *)

Push(s, e) ==
  /\ ~sending[s]
  /\ scheduledFunctions' = Append(scheduledFunctions, e)
  /\ sending' = [sending EXCEPT ![s] = TRUE]
  /\ UNCHANGED waiter

\* The mutex is free by now: others may have pushed, taken or gone to sleep in between.
Notify(s) ==
  /\ sending[s]
  /\ sending' = [sending EXCEPT ![s] = FALSE]
  /\ Signal
  /\ UNCHANGED scheduledFunctions

-------------------------------------------------------------------------------
(* getEvent(wait): three ways through it, by what the deque holds. *)

\* wait && empty: release the mutex and sleep, atomically.
GetEventBlocks(wait) ==
  /\ waiter = "running"
  /\ wait
  /\ scheduledFunctions = <<>>
  /\ waiter' = "blocked"
  /\ UNCHANGED <<scheduledFunctions, sending>>

\* The front of the deque is handed to the caller.
GetEventTakes(e) ==
  /\ waiter # "blocked"
  /\ scheduledFunctions # <<>>
  /\ e = Head(scheduledFunctions)
  /\ scheduledFunctions' = Tail(scheduledFunctions)
  /\ waiter' = "running"
  /\ UNCHANGED sending

\* std::nullopt: at once when not asked to wait, else after one wakeup that found nothing.
GetEventEmpty(wait) ==
  /\ waiter = (IF wait THEN "woken" ELSE "running")
  /\ scheduledFunctions = <<>>
  /\ waiter' = "running"
  /\ UNCHANGED <<scheduledFunctions, sending>>

-------------------------------------------------------------------------------
(* No event is stranded: the consumer sleeps on a deque that holds something *)
(* only while a sender stands between its push and its notify_one.           *)
NoLostWakeup ==
  waiter = "blocked" /\ scheduledFunctions # <<>> => \E s \in Senders : sending[s]

===============================================================================
