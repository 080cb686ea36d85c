---------------------------- MODULE MCNativeCalls ----------------------------
(* The instances of NativeCalls that TLC checks. *)
EXTENDS NativeCalls, TLC
===============================================================================
