-------------------------------- MODULE Modules --------------------------------
(***************************************************************************)
(* Modules of a machine: the native ones, which C++ code makes and fills   *)
(* with exports, and the files that ModuleLoaderFeature loads.  The engine *)
(* resolves the imports of a module before it links any, and calls the     *)
(* loader for what it does not know; it links all before it evaluates any, *)
(* and evaluates each module once, after those it imports.                 *)
(***************************************************************************)
EXTENDS Integers, Sequences

CONSTANTS Files,       \* files with code
          Natives,     \* names of native modules
          Imports,     \* of a file: what its code imports
          Keys,        \* names of exports
          Needs,       \* of a file: the names it imports from native modules
          Script,      \* the importer in a dynamic import
          MaxModules,  \* bound: native modules
          MaxExports   \* bound: exports of one

ASSUME ModulesAssumption ==
  /\ Files \cap Natives = {} /\ Script \notin Files \cup Natives
  /\ Imports \in [Files -> SUBSET (Files \cup Natives)]
  /\ Needs \in [Files -> SUBSET (Natives \X Keys)]
  /\ \A f \in Files : \A w \in Needs[f] : w[1] \in Imports[f]
  /\ MaxModules \in Nat /\ MaxExports \in Nat

VARIABLES
  life,       \* of the machine
  modules,    \* _modules in the order of newModule, each with its exports
  defs,       \* the JSModuleDefs of the same
  disk,       \* of a file: what opening and compiling it would do
  unit,       \* of a file: its module in the engine
  meta,       \* the files whose import.meta was filled
  mains,      \* history: the files given to evalFile
  pc,         \* what the engine is at
  stack,      \* the modules being resolved, or evaluated, the importer below the imported
  exception   \* the current exception of the runtime is set

moduleVars == <<modules, defs>>
fileVars == <<unit, meta, mains>>
engineVars == <<pc, stack, exception>>
vars == <<life, moduleVars, disk, fileVars, engineVars>>

\* An export: whether the wrapper in Module::exports holds its value; for the properties,
\* how often its reference was given back.
Export == [key : Keys, held : BOOLEAN, freed : Nat]
Module == [name : Natives, exports : Seq(Export)]

\* What JavaScript sees: the exports declared; those with a variable, made when the module is
\* linked first; for each the one whose value it has got; and whether the init callback has
\* run; for the properties, how many exports there were then.
Def == [declared : SUBSET Keys, linked : BOOLEAN, slots : SUBSET Keys, bound : [Keys -> Nat],
        ready : BOOLEAN, given : Nat]

\* A module at work, what it imports, and which of these are still to be seen to.
Frame == [unit : Files \cup {Script}, imports : SUBSET (Files \cup Natives),
          todo : SUBSET (Files \cup Natives)]

TypeOK ==
  /\ life \in {"ready", "cleared", "freed"}
  /\ modules \in Seq(Module) /\ defs \in Seq(Def) /\ Len(modules) = Len(defs)
  /\ disk \in [Files -> {"missing", "broken", "good"}]
  /\ unit \in [Files -> {"none", "resolving", "loaded", "evaluated", "failed"}]
  /\ meta \subseteq Files /\ mains \subseteq Files
  /\ pc \in {"idle", "resolve", "abort", "evaluate", "crashed"}
  /\ stack \in Seq(Frame)
  /\ exception \in BOOLEAN

\* initialize() is over.
Init ==
  /\ life = "ready"
  /\ modules = <<>> /\ defs = <<>>
  /\ disk \in [Files -> {"missing", "broken", "good"}]
  /\ unit = [f \in Files |-> "none"] /\ meta = {} /\ mains = {}
  /\ pc = "idle" /\ stack = <<>> /\ exception = FALSE

-------------------------------------------------------------------------------
(* Native modules.                                                           *)

Top == stack[Len(stack)]

\* The code of a module is about to run, or runs.
BodyRuns == pc = "evaluate" /\ stack # <<>> /\ Top.todo = {} /\ Top.unit \in Files

\* C++ code runs: the embedder's, or a function that the code of a module called.
Native == life = "ready" /\ (pc = "idle" \/ BodyRuns)

NewModule(n) ==
  /\ Native /\ Len(modules) < MaxModules
  /\ modules' = Append(modules, [name |-> n, exports |-> <<>>])
  /\ defs' = Append(defs, [declared |-> {}, linked |-> FALSE, slots |-> {},
                           bound |-> [k \in Keys |-> 0], ready |-> FALSE, given |-> 0])
  /\ UNCHANGED <<life, disk, fileVars, engineVars>>

\* JS_AddModuleExport refuses a second export of the name; nobody looks at the result.
Declare(d, k) ==
  /\ defs' = [defs EXCEPT ![d].declared = @ \cup {k}]
  /\ exception' = (exception \/ k \in defs[d].declared)

AddExport(d, k) ==
  /\ Native /\ Len(modules[d].exports) < MaxExports
  /\ Declare(d, k)
  /\ modules' = [modules EXCEPT ![d].exports =
                   Append(@, [key |-> k, held |-> TRUE, freed |-> 0])]
  /\ UNCHANGED <<life, disk, fileVars, pc, stack>>

\* The exports with this key; the last and the first of them, 0 if there is none.
Under(exports, k) == {i \in 1..Len(exports) : exports[i].key = k}
Last(S) == IF S = {} THEN 0 ELSE CHOOSE i \in S : \A j \in S : j <= i
LastOf(exports, k) == Last(Under(exports, k))
FirstOf(exports, k) ==
  IF Under(exports, k) = {} THEN 0
  ELSE CHOOSE i \in Under(exports, k) : \A j \in Under(exports, k) : i <= j

\* The values are copied to the engine, and the wrappers keep theirs.
HandedCopy(e, arrives) == [e EXCEPT !.freed = IF arrives THEN @ ELSE @ + 1]

\* loot(): the wrapper is empty, and the engine has the value, which it frees when a later
\* export has the same name.
HandedOver(e, arrives) ==
  [e EXCEPT !.held = FALSE, !.freed = IF ~e.held \/ arrives THEN @ ELSE @ + 1]

\* The init callback of def d, when each export has a variable to be written to; bound is the
\* number of the export that is written last under a name.
Writes(d, bound) ==
  LET exports == modules[d].exports
  IN /\ \A i \in 1..Len(exports) : exports[i].key \in defs[d].slots
     /\ defs' = [defs EXCEPT ![d].bound = bound, ![d].ready = TRUE, ![d].given = Len(exports)]
     /\ modules' = [modules EXCEPT ![d].exports =
                      [i \in 1..Len(exports) |->
                         HandedOver(exports[i], bound[exports[i].key] = i)]]

\* It goes through the exports from the end.
InitFromTheEnd(d) == Writes(d, [k \in Keys |-> FirstOf(modules[d].exports, k)])

InitModule(d) == Writes(d, [k \in Keys |-> LastOf(modules[d].exports, k)])

-------------------------------------------------------------------------------
(* Resolution: the loader.                                                   *)

Below == SubSeq(stack, 1, Len(stack) - 1)
FrameOf(u, imports) == [unit |-> u, imports |-> imports, todo |-> imports]
Resolved(n) == [stack EXCEPT ![Len(stack)].todo = @ \ {n}]

TopBecomes(s) == unit' = IF Top.unit = Script THEN unit ELSE [unit EXCEPT ![Top.unit] = s]

\* The def that an import of a name finds: the first of the name.
Named(n) == {d \in 1..Len(modules) : modules[d].name = n}
FirstNamed(n) == CHOOSE d \in Named(n) : \A e \in Named(n) : d <= e

\* The engine knows the module.
Known(n) == IF n \in Natives THEN Named(n) # {} ELSE unit[n] # "none"

\* File::File and loadCode.
Opens(n) == n \in Files /\ disk[n] # "missing"

\* evalFile of a file that compiles; loadCode and eval throw what does not.
EvalFile(f) ==
  /\ life = "ready" /\ pc = "idle"
  /\ unit[f] = "none" /\ disk[f] = "good"
  /\ mains' = mains \cup {f}
  /\ unit' = [unit EXCEPT ![f] = "resolving"]
  /\ pc' = "resolve" /\ stack' = <<FrameOf(f, Imports[f])>>
  /\ UNCHANGED <<life, moduleVars, disk, meta, exception>>

\* import(n) in JavaScript: a job.
DynamicImport(n) ==
  /\ life = "ready" /\ pc = "idle"
  /\ pc' = "resolve" /\ stack' = <<FrameOf(Script, {n})>>
  /\ UNCHANGED <<life, moduleVars, disk, fileVars, exception>>

FindModule ==
  /\ pc = "resolve"
  /\ \E n \in Top.todo : Known(n) /\ stack' = Resolved(n)
  /\ UNCHANGED <<life, moduleVars, disk, fileVars, pc, exception>>

\* A loader that returns nullptr and throws nothing.
AbortsSilently == pc' = "abort" /\ UNCHANGED <<stack, exception>>

\* nullptr: throwJS, or what the compiler has thrown.
Aborts == pc' = "abort" /\ exception' = TRUE /\ UNCHANGED stack

\* moduleLoaderCbk: loadCode throws.
LoadThrows ==
  /\ pc = "resolve"
  /\ \E n \in Top.todo : ~Known(n) /\ ~Opens(n)
  /\ Aborts
  /\ UNCHANGED <<life, moduleVars, disk, fileVars>>

\* moduleLoaderCbk: the code does not compile.
CompileThrows ==
  /\ pc = "resolve"
  /\ \E n \in Top.todo \cap Files : ~Known(n) /\ disk[n] = "broken"
  /\ Aborts
  /\ UNCHANGED <<life, moduleVars, disk, fileVars>>

\* moduleLoaderCbk: inside of JS_Eval, the imports of the file are resolved first.
LoadBegins ==
  /\ pc = "resolve"
  /\ \E n \in Top.todo \cap Files :
       /\ ~Known(n) /\ disk[n] = "good"
       /\ unit' = [unit EXCEPT ![n] = "resolving"]
       /\ stack' = Append(Resolved(n), FrameOf(n, Imports[n]))
  /\ UNCHANGED <<life, moduleVars, disk, meta, mains, pc, exception>>

\* JS_Eval without COMPILE_ONLY: it evaluates the module, too.
LoadEvaluates ==
  /\ pc = "resolve" /\ Top.todo = {} /\ Len(stack) > 1
  /\ TopBecomes("evaluated")
  /\ stack' = Below
  /\ UNCHANGED <<life, moduleVars, disk, meta, mains, pc, exception>>

\* moduleLoaderCbk fills import.meta and returns the module to the one that imports it.
LoadReturns ==
  /\ pc = "resolve" /\ Top.todo = {} /\ Len(stack) > 1
  /\ TopBecomes("loaded")
  /\ meta' = meta \cup {Top.unit}
  /\ stack' = Below
  /\ UNCHANGED <<life, moduleVars, disk, mains, pc, exception>>

\* A loader, or eval, that is in JS_Eval gets an exception from it: its module is gone.
LoadAborts ==
  /\ pc = "abort" /\ stack # <<>>
  /\ TopBecomes("none")
  /\ stack' = Below
  /\ UNCHANGED <<life, moduleVars, disk, meta, mains, pc, exception>>

\* The exception is taken: by evalFile, which throws it, or by the promise of the import.
ExceptionTaken ==
  /\ pc = "abort" /\ stack = <<>>
  /\ pc' = "idle" /\ exception' = FALSE
  /\ UNCHANGED <<life, moduleVars, disk, fileVars, stack>>

-------------------------------------------------------------------------------
(* Linking: JS_EvalFunction, before it evaluates.                            *)

\* What the module asked for imports, directly or through others.
InGraph ==
  {n \in Files \cup Natives :
     \A S \in SUBSET (Files \cup Natives) :
       Top.imports \subseteq S /\ (\A f \in S \cap Files : Imports[f] \subseteq S) => n \in S}

\* The names that it and these import from native modules.
Wanted == UNION {Needs[f] : f \in (InGraph \cup {Top.unit}) \cap Files}

\* A native module that is linked for the first time: what is declared gets variables.
WithVariables(d) ==
  IF modules[d].name \in InGraph /\ d = FirstNamed(modules[d].name) /\ ~defs[d].linked
  THEN [defs[d] EXCEPT !.linked = TRUE, !.slots = defs[d].declared] ELSE defs[d]

\* The names that an import finds, and those that have a variable, too.
Declared == {w \in Natives \X Keys : Named(w[1]) # {} /\ w[2] \in defs[FirstNamed(w[1])].declared}
Slots    == {w \in Natives \X Keys :
               Named(w[1]) # {} /\ w[2] \in WithVariables(FirstNamed(w[1])).slots}

\* Everything is loaded, and is linked.
Links ==
  /\ pc = "resolve" /\ Top.todo = {} /\ Len(stack) = 1
  /\ TopBecomes("loaded")
  /\ defs' = [d \in 1..Len(defs) |-> WithVariables(d)]
  /\ UNCHANGED <<life, modules, disk, meta, mains>>

\* An import finds no export of the name.
LinkThrows ==
  /\ Links /\ ~(Wanted \subseteq Declared)
  /\ pc' = "abort" /\ stack' = <<>> /\ exception' = TRUE

\* It finds one that has no variable, as it was added after the module was linked, and the
\* engine takes one from nowhere.
LinkCrashes ==
  /\ Links /\ (Wanted \cap Declared) \ Slots # {}
  /\ pc' = "crashed" /\ stack' = <<>>
  /\ UNCHANGED exception

-------------------------------------------------------------------------------
(* Evaluation.                                                               *)

\* Evaluation begins at the module asked for.
EvaluationBegins ==
  /\ Links /\ Wanted \subseteq Slots
  /\ pc' = "evaluate"
  /\ stack' = <<[Top EXCEPT !.todo = Top.imports]>>
  /\ UNCHANGED exception

\* A native module that is imported: initialised the first time.
NativeImported ==
  /\ pc = "evaluate" /\ stack # <<>>
  /\ \E n \in Top.todo \cap Natives :
       /\ IF defs[FirstNamed(n)].ready THEN UNCHANGED moduleVars ELSE InitModule(FirstNamed(n))
       /\ stack' = Resolved(n)
  /\ UNCHANGED <<life, disk, fileVars, pc, exception>>

\* The init callback writes through the variable of an export that has none: one that was
\* added, under a new name, after the module was linked.
InitCrashes ==
  /\ pc = "evaluate" /\ stack # <<>>
  /\ \E n \in Top.todo \cap Natives :
       LET d == FirstNamed(n)
       IN ~defs[d].ready /\ \E i \in 1..Len(modules[d].exports) :
                              modules[d].exports[i].key \notin defs[d].slots
  /\ pc' = "crashed" /\ stack' = <<>>
  /\ UNCHANGED <<life, moduleVars, disk, fileVars, exception>>

\* A file that is imported: evaluated the first time.
FileImported ==
  /\ pc = "evaluate" /\ stack # <<>>
  /\ \E n \in Top.todo \cap Files :
       \/ unit[n] = "evaluated" /\ stack' = Resolved(n)
       \/ unit[n] = "loaded"
          /\ stack' = Append(Resolved(n), FrameOf(n, Imports[n]))
  /\ UNCHANGED <<life, moduleVars, disk, fileVars, pc, exception>>

\* The code of the module runs to its end.
BodyReturns ==
  /\ pc = "evaluate" /\ stack # <<>> /\ Top.todo = {}
  /\ TopBecomes("evaluated")
  /\ stack' = Below
  /\ UNCHANGED <<life, moduleVars, disk, meta, mains, pc, exception>>

\* The code of the module throws, or a module it imports threw before: all that wait for it fail.
EvaluationThrows ==
  /\ pc = "evaluate" /\ stack # <<>>
  /\ Top.todo = {} \/ \E n \in Top.todo \cap Files : unit[n] = "failed"
  /\ unit' = [f \in Files |-> IF \E i \in 1..Len(stack) : stack[i].unit = f
                              THEN "failed" ELSE unit[f]]
  /\ stack' = <<>>
  /\ UNCHANGED <<life, moduleVars, disk, meta, mains, pc, exception>>

EvaluationEnds ==
  /\ pc = "evaluate" /\ stack = <<>>
  /\ pc' = "idle"
  /\ UNCHANGED <<life, moduleVars, disk, fileVars, stack, exception>>
-------------------------------------------------------------------------------
(* The files change, the machine ends.                                       *)

\* JavaScript or anybody else writes or removes a file. What is loaded is not read again.
DiskChanges(f) ==
  /\ pc = "idle" /\ life = "ready" /\ unit[f] = "none"
  /\ \E d \in {"missing", "broken", "good"} : disk' = [disk EXCEPT ![f] = d]
  /\ UNCHANGED <<life, moduleVars, fileVars, engineVars>>

GivenBack(e) == [e EXCEPT !.held = FALSE, !.freed = IF e.held THEN @ + 1 ELSE @]

\* ~MachineBase: _modules.clear().
ClearModules ==
  /\ life = "ready" /\ pc = "idle"
  /\ life' = "cleared"
  /\ modules' = [d \in 1..Len(modules) |-> [modules[d] EXCEPT !.exports =
                   [i \in 1..Len(modules[d].exports) |-> GivenBack(modules[d].exports[i])]]]
  /\ UNCHANGED <<defs, disk, fileVars, engineVars>>

LetGo(e, here) == [e EXCEPT !.freed = IF here THEN @ + 1 ELSE @]

\* The engine lets go of the values it was given.
Unbind ==
  /\ modules' = [d \in 1..Len(modules) |-> [modules[d] EXCEPT !.exports =
                   [i \in 1..Len(modules[d].exports) |->
                      LetGo(modules[d].exports[i], defs[d].bound[modules[d].exports[i].key] = i)]]]
  /\ defs' = [d \in 1..Len(defs) |-> [defs[d] EXCEPT !.bound = [k \in Keys |-> 0]]]

\* A destructor that leaves _modules to its own destructor.
FreeContextFirst ==
  /\ life = "ready" /\ pc = "idle"
  /\ life' = "freed"
  /\ Unbind
  /\ UNCHANGED <<disk, fileVars, engineVars>>

\* ~MachineBase: JS_FreeContext and JS_FreeRuntime.
FreeContext ==
  /\ life = "cleared"
  /\ life' = "freed"
  /\ Unbind
  /\ UNCHANGED <<disk, fileVars, engineVars>>

-------------------------------------------------------------------------------
NativeStep ==
  \/ \E n \in Natives : NewModule(n)
  \/ \E d \in 1..Len(modules), k \in Keys : AddExport(d, k)

Resolution ==
  FindModule \/ LoadThrows \/ CompileThrows \/ LoadBegins \/ LoadReturns \/ LoadAborts
    \/ ExceptionTaken

Evaluation ==
  LinkThrows \/ LinkCrashes \/ EvaluationBegins \/ NativeImported \/ InitCrashes \/ FileImported
    \/ BodyReturns \/ EvaluationThrows \/ EvaluationEnds

Next ==
  \/ NativeStep \/ Resolution \/ Evaluation
  \/ \E f \in Files : EvalFile(f) \/ DiskChanges(f)
  \/ \E n \in Files \cup Natives : DynamicImport(n)
  \/ ClearModules \/ FreeContext

Spec == Init /\ [][Next]_vars

-------------------------------------------------------------------------------
(* Properties.                                                               *)

\* Code that runs has what it imports from native modules: each of them is initialised, and
\* each name that the code imports has a value, the one that addExport was given last for the
\* name before the module was initialised, however many modules of the name are made, whatever
\* files imported it before, and whatever is added later.  It says nothing of a name that is
\* added after the module was linked: no code that imports it gets to run.
ExportsArrive ==
  /\ BodyRuns => \A n \in Top.imports \cap Natives :
                   Named(n) # {} /\ defs[FirstNamed(n)].ready
  /\ BodyRuns => \A w \in Needs[Top.unit] :
                   defs[FirstNamed(w[1])].bound[w[2]] # 0
  /\ life = "ready" => \A d \in 1..Len(defs) : defs[d].ready =>
       \A k \in Keys :
         defs[d].bound[k] = LastOf(SubSeq(modules[d].exports, 1, defs[d].given), k)

One(b) == IF b THEN 1 ELSE 0

\* A value that addExport was given is exported, whenever it is added: neither an import nor
\* the init callback meets an export that the engine has made no variable for.
ExportsHaveVariables == pc # "crashed"

\* The value of an export has one owner, the Module or the engine, and is given back once,
\* before the runtime ends: by the import that finds it overwritten, by the engine, or by
\* ~MachineBase for what was never imported or came too late.
OwnedOnce ==
  \A d \in 1..Len(modules) : \A i \in 1..Len(modules[d].exports) :
    LET e == modules[d].exports[i]
    IN /\ One(e.held) + One(defs[d].bound[e.key] = i) + e.freed = 1
       /\ life = "freed" => e.freed = 1

\* No code runs in a module that the loader has not finished: its import.meta is filled,
\* though the modules it imports are compiled by nested calls of the loader before that.
MetaBeforeRun ==
  \A f \in Files :
    unit[f] \in {"evaluated", "failed"} \/ (pc = "evaluate" /\ unit[f] = "loaded")
      => f \in meta \cup mains

\* Whenever the engine is told that a module cannot be had, however deep in nested loads,
\* the runtime has an exception that says why, until the importer takes it.
FailureReported == pc = "abort" => exception

-------------------------------------------------------------------------------
(* The modules as the program sees them.                                     *)

Are(stages) == {f \in Files : unit[f] \in stages}
Made        == {n \in Natives : Named(n) # {}}
Ready       == {n \in Made : defs[FirstNamed(n)].ready}

GraphView == INSTANCE ModuleGraph WITH
  made   <- Made,
  ready  <- Ready,
  loaded <- Are({"loaded", "evaluated", "failed"}),
  ran    <- Are({"evaluated"}),
  failed <- Are({"failed"})

\* No file imports itself, directly or through others.
NoCycles == \A S \in SUBSET Files : S # {} => \E f \in S : Imports[f] \cap S = {}

\* The loader, called back from inside of the engine that it calls, makes no module that
\* lacks one of its imports, whatever loads fail around it, and runs no code: each module
\* runs once, after all that it imports, and never when one of those failed.
ImplementsModuleGraph == GraphView!Spec
================================================================================
