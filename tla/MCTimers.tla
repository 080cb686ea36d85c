------------------------------- MODULE MCTimers -------------------------------
(* The instances of Timers that TLC checks. *)
EXTENDS Timers, TLC
===============================================================================
