---------------------------- MODULE ExceptionFlow ----------------------------
(***************************************************************************)
(* What the exceptions promise to a program whose frames are C++ and       *)
(* JavaScript by turns, with the library between the two: one value is in  *)
(* flight, whichever form it has, and goes from frame to frame until the   *)
(* program catches it.  The library drops none and makes none twice, and   *)
(* puts no other errors in its place than its own.                         *)
(***************************************************************************)
EXTENDS Integers

CONSTANTS Thrown,      \* what may be in flight
          Substitutes, \* the errors that the library puts in the place of another
          None         \* nothing is in flight

VARIABLES
  depth,    \* how many frames there are
  script,   \* the last of them is JavaScript
  library,  \* it is inside of the library, which calls or was called for it
  inFlight

vars == <<depth, script, library, inFlight>>

Init == depth = 1 /\ script = FALSE /\ library = FALSE /\ inFlight = None

Proceeds == UNCHANGED <<depth, script, inFlight>>

Calls ==
  /\ inFlight = None
  /\ depth' = depth + 1 /\ script' = ~script
  /\ UNCHANGED inFlight

\* The frame is left by a return, or by what is in flight.
Leaves ==
  /\ depth > 1
  /\ depth' = depth - 1 /\ script' = ~script

Returns == inFlight = None /\ Leaves /\ UNCHANGED inFlight

Unwinds == inFlight # None /\ Leaves /\ UNCHANGED inFlight

\* A JavaScript frame is left by what it throws; C++ code may have a handler for its own.
Throws ==
  /\ inFlight = None
  /\ inFlight' \in Thrown
  /\ IF script THEN Leaves ELSE UNCHANGED <<depth, script>>

Replaces ==
  /\ inFlight # None
  /\ library
  /\ inFlight' \in Substitutes
  /\ UNCHANGED <<depth, script>>

Catches ==
  /\ inFlight # None
  /\ ~library
  /\ inFlight' = None
  /\ UNCHANGED <<depth, script>>

Next ==
  /\ library' \in BOOLEAN
  /\ Proceeds \/ Calls \/ Returns \/ Unwinds \/ Throws \/ Replaces \/ Catches

Spec == Init /\ [][Next]_vars
===============================================================================
