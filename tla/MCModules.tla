------------------------------- MODULE MCModules -------------------------------
(* The instance of Modules that TLC checks. *)
EXTENDS Modules, TLC

\* What the three files of the program import; "fs" is the native module.
Graph == ("main" :> {"lib", "leaf", "fs"}) @@ ("lib" :> {"leaf", "fs"}) @@ ("leaf" :> {})

\* The names they import from it.
Names == ("main" :> {<<"fs", "open">>}) @@ ("lib" :> {<<"fs", "exists">>}) @@ ("leaf" :> {})
================================================================================
