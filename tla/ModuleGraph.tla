----------------------------- MODULE ModuleGraph -----------------------------
(***************************************************************************)
(* What imports promise to a program, without a loader, a recursion or     *)
(* exceptions: a module is there when all that it imports is there, its    *)
(* code runs once, after the code of all that it imports, and never when   *)
(* that failed.  What went wrong with other modules before, between or     *)
(* after makes no difference.                                              *)
(***************************************************************************)
CONSTANTS Files,   \* modules with code
          Natives, \* the names of those without
          Imports  \* of a file: what its code imports

VARIABLES
  made,   \* the native modules that exist
  ready,  \* those that are initialised
  loaded, \* the files that are compiled and complete
  ran,    \* those whose code has run to its end
  failed  \* those that threw, or wait for one that did

vars == <<made, ready, loaded, ran, failed>>

Init == made = {} /\ ready = {} /\ loaded = {} /\ ran = {} /\ failed = {}

Make(n) ==
  /\ made' = made \cup {n}
  /\ UNCHANGED <<ready, loaded, ran, failed>>

Initialise(n) ==
  /\ n \in made \ ready
  /\ ready' = ready \cup {n}
  /\ UNCHANGED <<made, loaded, ran, failed>>

Load(f) ==
  /\ f \notin loaded
  /\ Imports[f] \subseteq loaded \cup made
  /\ loaded' = loaded \cup {f}
  /\ UNCHANGED <<made, ready, ran, failed>>

\* Everything that the code of f imports is there to be used.
MayRun(f) == Imports[f] \subseteq ran \cup ready

Run(f) ==
  /\ f \in loaded \ (ran \cup failed)
  /\ MayRun(f)
  /\ ran' = ran \cup {f}
  /\ UNCHANGED <<made, ready, loaded, failed>>

\* The code of one throws, or one has failed before: those that wait for it fail with it.
Fail(waiting) ==
  /\ waiting \subseteq loaded \ (ran \cup failed)
  /\ \A f \in waiting : MayRun(f) \/ Imports[f] \cap (failed \cup waiting) # {}
  /\ failed' = failed \cup waiting
  /\ UNCHANGED <<made, ready, loaded, ran>>

Next ==
  \/ \E n \in Natives : Make(n) \/ Initialise(n)
  \/ \E f \in Files : Load(f) \/ Run(f)
  \/ \E waiting \in SUBSET Files : Fail(waiting)

Spec == Init /\ [][Next]_vars
===============================================================================
