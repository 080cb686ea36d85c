------------------------------ MODULE MCMachine ------------------------------
(* The instances of Machine that TLC checks. *)
EXTENDS Machine, TLC
===============================================================================
