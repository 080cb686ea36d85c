-------------------------------- MODULE MCSetup --------------------------------
(* The instances of Setup that TLC checks. *)
EXTENDS Setup, TLC

\* Names, instances, managers and types are interchangeable.
Symmetry ==
  Permutations(Names) \cup Permutations(Instances)
    \cup Permutations(Managers) \cup Permutations(Types)
================================================================================
