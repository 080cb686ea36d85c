----------------------------- MODULE MCOwnership ------------------------------
(* The instance of Ownership that TLC checks. *)
EXTENDS Ownership, TLC

\* Objects, instances and places are interchangeable.
Symmetry == Permutations(Objects) \cup Permutations(Instances) \cup Permutations(Places)
===============================================================================
