----------------------------- MODULE ModulesProofs -----------------------------
(***************************************************************************)
(* Proofs about Modules for any files, imports, native modules, exports    *)
(* and bounds.                                                             *)
(***************************************************************************)
EXTENDS Modules, SequenceTheorems, WellFoundedInduction, TLAPS

\* Every non-empty set of numbers has a least one.
LEMMA LeastNumber ==
  ASSUME NEW S \in SUBSET Nat, S # {}
  PROVE  \E n \in S : \A m \in S : n <= m
<1>1. PICK n \in S : \A m \in S : ~(<<m, n>> \in OpToRel(<, Nat))
  BY WFMin, NatLessThanWellFounded
<1>2. ASSUME NEW m \in S PROVE n <= m
  <2>1. ~(m < n)
    BY <1>1, <1>2 DEF OpToRel
  <2> QED
    BY <2>1
<1> QED
  BY <1>2

\* Every non-empty set of numbers with an upper bound has a greatest one.
LEMMA GreatestNumber ==
  ASSUME NEW k \in Nat, NEW S \in SUBSET (0..k), S # {}
  PROVE  \E n \in S : \A m \in S : m <= n
<1> DEFINE T == {k - n : n \in S}
<1>1. T \in SUBSET Nat /\ T # {}
  <2>1. ASSUME NEW n \in S PROVE k - n \in Nat
    <3>1. n \in 0..k
      OBVIOUS
    <3> QED
      BY <3>1
  <2> QED
    BY <2>1
<1>2. PICK t \in T : \A s \in T : t <= s
  BY <1>1, LeastNumber
<1>3. PICK n \in S : t = k - n
  OBVIOUS
<1>4. ASSUME NEW m \in S PROVE m <= n
  <2>1. k - n <= k - m
    BY <1>2, <1>3
  <2>2. m \in 0..k /\ n \in 0..k
    OBVIOUS
  <2> HIDE DEF T
  <2> QED
    BY <2>1, <2>2
<1> QED
  BY <1>4

-------------------------------------------------------------------------------
(* Exports and names.                                                        *)

\* The last export of a key is one of the exports, with this key, or none.
LEMMA LastIsOne ==
  ASSUME NEW e \in Seq(Export), NEW k
  PROVE  /\ LastOf(e, k) \in 0..Len(e)
         /\ LastOf(e, k) = 0 <=> Under(e, k) = {}
         /\ LastOf(e, k) # 0 => e[LastOf(e, k)].key = k
<1>1. CASE Under(e, k) = {}
  BY <1>1 DEF LastOf, Last
<1>2. CASE Under(e, k) # {}
  <2>1. Under(e, k) \in SUBSET (0..Len(e)) /\ Len(e) \in Nat
    BY DEF Under
  <2>2. \E i \in Under(e, k) : \A j \in Under(e, k) : j <= i
    BY <1>2, <2>1, GreatestNumber
  <2>3. LastOf(e, k) \in Under(e, k)
    BY <1>2, <2>2 DEF LastOf, Last
  <2> QED
    BY <1>2, <2>3 DEF Under
<1> QED
  BY <1>1, <1>2

\* The last export of a key depends on the keys only.
LEMMA LastByKeys ==
  ASSUME NEW e, NEW g, Len(e) = Len(g), \A i \in 1..Len(e) : e[i].key = g[i].key
  PROVE  \A k : LastOf(e, k) = LastOf(g, k)
<1>1. \A k : Under(e, k) = Under(g, k)
  BY DEF Under
<1> QED
  BY <1>1 DEF LastOf

\* The first module of a name is one of that name.
LEMMA FirstIsNamed ==
  ASSUME NEW n, Named(n) # {}
  PROVE  /\ FirstNamed(n) \in 1..Len(modules) /\ modules[FirstNamed(n)].name = n
         /\ \A e \in Named(n) : FirstNamed(n) <= e
<1>1. Named(n) \in SUBSET Nat
  BY DEF Named
<1>2. \E d \in Named(n) : \A e \in Named(n) : d <= e
  BY <1>1, LeastNumber
<1>3. FirstNamed(n) \in Named(n) /\ \A e \in Named(n) : FirstNamed(n) <= e
  BY <1>2 DEF FirstNamed
<1> QED
  BY <1>3 DEF Named

-------------------------------------------------------------------------------
(* The stack.                                                                *)

\* An import that was seen to leaves the todo of the top frame.
LEMMA ResolvedFrames ==
  ASSUME stack \in Seq(Frame), stack # <<>>, NEW n
  PROVE  /\ Top \in Frame /\ Top = stack[Len(stack)] /\ Len(stack) \in 1..Len(stack)
         /\ Resolved(n) \in Seq(Frame) /\ Len(Resolved(n)) = Len(stack)
         /\ \A j \in 1..Len(stack) :
              /\ Resolved(n)[j].unit = stack[j].unit
              /\ Resolved(n)[j].imports = stack[j].imports
              /\ j # Len(stack) => Resolved(n)[j] = stack[j]
              /\ j = Len(stack) => Resolved(n)[j].todo = stack[j].todo \ {n}
<1>1. stack \in Seq(Frame) /\ Len(stack) \in 1..Len(stack)
  OBVIOUS
<1>2. Top \in Frame /\ Top = stack[Len(stack)]
  BY <1>1 DEF Top
<1>3. [Top EXCEPT !.todo = Top.todo \ {n}] \in Frame
  BY <1>2 DEF Frame
<1>4. Resolved(n) = [stack EXCEPT ![Len(stack)] = [Top EXCEPT !.todo = Top.todo \ {n}]]
  BY <1>1, <1>2 DEF Resolved
<1>5. \A j \in 1..Len(stack) : stack[j] \in Frame
  BY <1>1
<1> QED
  BY <1>1, <1>2, <1>3, <1>4, <1>5 DEF Frame

\* The frame of an imported file comes on top of its importer.
LEMMA PushedFrames ==
  ASSUME stack \in Seq(Frame), stack # <<>>, NEW n \in Files
  PROVE  LET pushed == Append(Resolved(n), FrameOf(n, Imports[n]))
         IN /\ pushed \in Seq(Frame) /\ Len(pushed) = Len(stack) + 1
            /\ pushed[Len(stack) + 1] = FrameOf(n, Imports[n])
            /\ \A j \in 1..Len(stack) : pushed[j] = Resolved(n)[j]
<1>1. FrameOf(n, Imports[n]) \in Frame
  BY ModulesAssumption DEF FrameOf, Frame
<1>2. Resolved(n) \in Seq(Frame) /\ Len(Resolved(n)) = Len(stack)
  BY ResolvedFrames
<1> QED
  BY <1>1, <1>2

\* The frames below the top stay.
LEMMA BelowFrames ==
  ASSUME stack \in Seq(Frame), stack # <<>>
  PROVE  /\ Top \in Frame /\ Top = stack[Len(stack)] /\ Len(stack) \in 1..Len(stack)
         /\ Below \in Seq(Frame) /\ Len(Below) = Len(stack) - 1
         /\ \A j \in 1..Len(Below) : j \in 1..Len(stack) /\ Below[j] = stack[j]
<1>1. stack \in Seq(Frame) /\ Len(stack) \in 1..Len(stack) /\ Len(stack) \in Nat
  OBVIOUS
<1>2. Len(stack) - 1 \in 0..Len(stack)
  BY <1>1
<1>3. Below = SubSeq(stack, 1, Len(stack) - 1)
  BY DEF Below
<1>4. Below \in Seq(Frame) /\ Len(Below) = Len(stack) - 1
      /\ \A j \in 1..(Len(stack) - 1) : Below[j] = stack[j]
  <2>1. \A j \in 1..(Len(stack) - 1) : stack[j] \in Frame
    BY <1>1, <1>2
  <2>2. /\ Below \in Seq(Frame)
        /\ Len(Below) = IF 1 <= Len(stack) - 1 THEN (Len(stack) - 1) - 1 + 1 ELSE 0
        /\ \A j \in 1..((Len(stack) - 1) - 1 + 1) : Below[j] = stack[1 + j - 1]
    BY <1>1, <1>2, <1>3, <2>1, SubSeqProperties
  <2>3. (Len(stack) - 1) - 1 + 1 = Len(stack) - 1
    BY <1>1
  <2>4. Len(Below) = Len(stack) - 1
    <3> DEFINE l == Len(stack)
    <3>1. l \in Nat /\ l >= 1
      BY <1>1
    <3>2. 1 <= l - 1 \/ l - 1 = 0
      <4> HIDE DEF l
      <4> QED
        BY <3>1
    <3> QED
      BY <2>2, <2>3, <3>2
  <2>5. ASSUME NEW j \in 1..(Len(stack) - 1) PROVE Below[j] = stack[j]
    <3>1. 1 + j - 1 = j
      BY <1>1
    <3> QED
      BY <2>2, <2>3, <3>1
  <2> QED
    BY <2>2, <2>4, <2>5
<1> QED
  BY <1>1, <1>4 DEF Top
-------------------------------------------------------------------------------
(* The invariant.                                                            *)

\* Export x, number i of a module with definition d in a machine at l, has one owner.
OneOwner(x, i, d, l) ==
  /\ x.key \in d.declared
  /\ l = "ready" /\ ~d.ready => x.held
  /\ l # "ready" => ~x.held
  /\ One(x.held) + One(d.bound[x.key] = i) + x.freed = 1
  /\ l = "freed" => x.freed = 1

\* Each declared name is one of an export, and has no variable before the module is linked; a
\* variable has a value when the module is initialised.
VariablesInv(e, d, l) ==
  /\ \A k \in d.declared : \E i \in 1..Len(e) : e[i].key = k
  /\ d.slots \subseteq d.declared
  /\ ~d.linked => ~d.ready /\ d.slots = {}
  /\ l = "ready" /\ d.ready => \A k \in d.slots : d.bound[k] # 0

\* The exports e of a module have one owner each, and JavaScript looks for the value of a key
\* at none before the module is initialised, at the last then.
ModuleInv(e, d, l) ==
  /\ \A k \in Keys : d.bound[k] \in 0..Len(e) /\ (~d.ready => d.bound[k] = 0)
  /\ d.given \in 0..Len(e)
  /\ \A i \in 1..Len(e) : OneOwner(e[i], i, d, l)
  /\ l = "ready" /\ d.ready =>
       \A k \in Keys : d.bound[k] = LastOf(SubSeq(e, 1, d.given), k)
  /\ VariablesInv(e, d, l)

ModulesInv ==
  /\ life \in {"ready", "cleared", "freed"}
  /\ modules \in Seq(Module) /\ defs \in Seq(Def) /\ Len(modules) = Len(defs)
  /\ \A d \in 1..Len(modules) : ModuleInv(modules[d].exports, defs[d], life)

\* Files that the loader, or evalFile, has finished.
Finished == {f \in Files : unit[f] \in {"loaded", "evaluated", "failed"}}

\* Each module at work imports what its code does, and only the first may be a script.
FramesInv(s) ==
  /\ s \in Seq(Frame)
  /\ \A j \in 1..Len(s) :
       /\ s[j].unit \in Files => s[j].imports = Imports[s[j].unit]
       /\ j > 1 => s[j].unit \in Files
       /\ s[j].todo \subseteq s[j].imports

\* The engine works for a machine that is there, and on the imports of the files it is at.
EngineInv ==
  /\ disk \in [Files -> {"missing", "broken", "good"}]
  /\ unit \in [Files -> {"none", "resolving", "loaded", "evaluated", "failed"}]
  /\ meta \subseteq Files /\ mains \subseteq Files
  /\ pc \in {"idle", "resolve", "abort", "evaluate", "crashed"} /\ exception \in BOOLEAN
  /\ pc # "idle" => life = "ready"
  /\ pc = "resolve" => stack # <<>>
  /\ FramesInv(stack)

IsKnown(n) == Named(n) # {}
IsReady(n) == Named(n) # {} /\ defs[FirstNamed(n)].ready

\* Native modules that were looked up are known, those that were imported are initialised.
KnownInv ==
  /\ pc = "resolve" => \A j \in 1..Len(stack) :
       \A n \in stack[j].imports \cap Natives : n \in stack[j].todo \/ IsKnown(n)
  /\ \A f \in Finished : \A n \in Imports[f] \cap Natives : IsKnown(n)
  /\ pc = "evaluate" => \A j \in 1..Len(stack) :
       \A n \in stack[j].imports \cap Natives :
         IsKnown(n) /\ (n \in stack[j].todo \/ IsReady(n))

\* What is finished has its import.meta.
MetaInv ==
  /\ Finished \subseteq meta \cup mains
  /\ pc = "resolve" => stack[1].unit \in mains \cup {Script}
  /\ pc = "evaluate" => \A j \in 1..Len(stack) : stack[j].unit \in meta \cup mains \cup {Script}

IsLinked(n) == Named(n) # {} /\ defs[FirstNamed(n)].linked
HasVariable(w) == Named(w[1]) # {} /\ w[2] \in defs[FirstNamed(w[1])].slots

\* The files G, and the modules at work s, belong to a graph that is linked: what they need
\* has variables, and what they import belongs to it, too.
Supplied(G) ==
  \A f \in G :
    /\ \A w \in Needs[f] : HasVariable(w)
    /\ f \in Finished => /\ Imports[f] \cap Files \subseteq G
                         /\ \A n \in Imports[f] \cap Natives : IsLinked(n)
Covers(G, s) ==
  \A j \in 1..Len(s) :
    /\ s[j].unit \in G \cup {Script}
    /\ s[j].imports \cap Files \subseteq G
    /\ \A n \in s[j].imports \cap Natives : IsLinked(n)

WantedInv == pc = "evaluate" => \E G \in SUBSET Files : Supplied(G) /\ Covers(G, stack)

IndInv == ModulesInv /\ EngineInv /\ KnownInv /\ WantedInv /\ MetaInv /\ FailureReported

-------------------------------------------------------------------------------
(* Modules and exports.                                                      *)

\* Where no export is added the keys are the same, and so is the last one of each.
LEMMA LastOfPrefix ==
  ASSUME NEW e \in Seq(Export), NEW g \in Seq(Export), NEW n \in 0..Len(e), Len(e) <= Len(g),
         \A i \in 1..Len(e) : e[i].key = g[i].key
  PROVE  \A k : LastOf(SubSeq(e, 1, n), k) = LastOf(SubSeq(g, 1, n), k)
<1>1. n \in Nat /\ Len(e) \in Nat /\ Len(g) \in Nat /\ n \in 0..Len(g)
  OBVIOUS
<1>2. SubSeq(e, 1, n) = Restrict(e, 1..n) /\ SubSeq(g, 1, n) = Restrict(g, 1..n)
  BY <1>1, SubSeqRestrict
<1>3. Len(SubSeq(e, 1, n)) = n /\ Len(SubSeq(g, 1, n)) = n
  BY <1>1
<1>4. \A i \in 1..n : SubSeq(e, 1, n)[i].key = SubSeq(g, 1, n)[i].key
  BY <1>1, <1>2 DEF Restrict
<1> QED
  BY <1>3, <1>4, LastByKeys

\* A definition in the engine stays initialised and linked, and keeps its variables.
DefGrows(d, e) == (d.ready => e.ready) /\ (d.linked => e.linked) /\ d.slots \subseteq e.slots

\* No module goes away, gets another name, or is linked or initialised again.
ModulesGrow ==
  /\ Len(modules) <= Len(modules')
  /\ \A d \in 1..Len(modules) :
       modules'[d].name = modules[d].name /\ DefGrows(defs[d], defs'[d])

\* A new module has no exports.
LEMMA NewModuleKeeps ==
  ASSUME ModulesInv, NEW n \in Natives, NewModule(n)
  PROVE  /\ ModulesInv' /\ ModulesGrow
<1> DEFINE mdl == [name |-> n, exports |-> <<>>]
           def == [declared |-> {}, linked |-> FALSE, slots |-> {}, bound |-> [k \in Keys |-> 0],
                   ready |-> FALSE, given |-> 0]
<1>1. modules' = Append(modules, mdl) /\ defs' = Append(defs, def) /\ life' = life
  BY DEF NewModule
<1>2. mdl \in Module /\ def \in Def /\ mdl.exports = <<>> /\ ModuleInv(<<>>, def, life)
  <2>1. ModuleInv(<<>>, def, life)
    BY DEF ModuleInv, VariablesInv
  <2> QED
    BY <2>1 DEF Module, Def
<1>3. modules \in Seq(Module) /\ defs \in Seq(Def) /\ Len(modules) \in Nat /\ Len(defs) = Len(modules)
  BY DEF ModulesInv
<1> HIDE DEF mdl, def
<1>4. /\ modules' \in Seq(Module) /\ defs' \in Seq(Def)
      /\ Len(modules') = Len(modules) + 1 /\ Len(defs') = Len(defs) + 1
      /\ modules'[Len(modules) + 1] = mdl /\ defs'[Len(modules) + 1] = def
      /\ \A d \in 1..Len(modules) : modules'[d] = modules[d] /\ defs'[d] = defs[d]
  BY <1>1, <1>2, <1>3
<1>5. ASSUME NEW d \in 1..Len(modules') PROVE ModuleInv(modules'[d].exports, defs'[d], life')
  <2>1. CASE d \in 1..Len(modules)
    BY <1>1, <1>4, <2>1 DEF ModulesInv
  <2>2. CASE d = Len(modules) + 1
    BY <1>1, <1>2, <1>4, <2>2
  <2> QED
    BY <1>3, <1>4, <2>1, <2>2
<1> QED
  BY <1>1, <1>3, <1>4, <1>5 DEF ModulesInv, ModulesGrow, DefGrows

\* What ModulesInv says of one module.
LEMMA OneModule ==
  ASSUME ModulesInv, NEW d \in 1..Len(modules)
  PROVE  /\ modules[d] \in Module /\ modules[d].exports \in Seq(Export) /\ modules[d].name \in Natives
         /\ defs[d] \in Def /\ defs[d].bound \in [Keys -> Nat] /\ defs[d].declared \subseteq Keys
         /\ defs[d].ready \in BOOLEAN /\ defs[d].given \in Nat
         /\ defs[d].linked \in BOOLEAN /\ defs[d].slots \subseteq Keys
         /\ ModuleInv(modules[d].exports, defs[d], life)
         /\ \A i \in 1..Len(modules[d].exports) :
              /\ modules[d].exports[i] \in Export /\ modules[d].exports[i].key \in Keys
              /\ modules[d].exports[i].held \in BOOLEAN /\ modules[d].exports[i].freed \in Nat
<1>1. modules[d] \in Module /\ defs[d] \in Def
  BY DEF ModulesInv
<1>2. modules[d].exports \in Seq(Export)
  BY <1>1 DEF Module
<1>3. \A i \in 1..Len(modules[d].exports) : modules[d].exports[i] \in Export
  BY <1>2
<1> QED
  BY <1>1, <1>2, <1>3 DEF ModulesInv, Module, Def, Export

\* A new export is held, declared, and bound nowhere yet.
LEMMA AddExportKeeps ==
  ASSUME ModulesInv, NEW d \in 1..Len(modules), NEW k \in Keys, AddExport(d, k)
  PROVE  /\ ModulesInv' /\ ModulesGrow
<1> DEFINE e == modules[d].exports
           new == [key |-> k, held |-> TRUE, freed |-> 0]
           g == Append(e, new)
           mdl == [modules[d] EXCEPT !.exports = g]
           def == [defs[d] EXCEPT !.declared = @ \cup {k}]
<1>1. life' = life /\ life = "ready" /\ modules' = [modules EXCEPT ![d] = mdl]
      /\ defs' = [defs EXCEPT ![d] = def]
  BY DEF AddExport, Declare, Native
<1>2. /\ modules[d] \in Module /\ defs[d] \in Def /\ e \in Seq(Export) /\ Len(e) \in Nat
      /\ ModuleInv(e, defs[d], life) /\ defs[d].given \in Nat /\ defs[d].bound \in [Keys -> Nat]
  BY OneModule
<1>3. /\ new \in Export /\ g \in Seq(Export) /\ Len(g) = Len(e) + 1 /\ g[Len(e) + 1] = new
      /\ \A i \in 1..Len(e) : g[i] = e[i]
  BY <1>2 DEF Export
<1>4. mdl \in Module /\ mdl.exports = g /\ mdl.name = modules[d].name
  BY <1>2, <1>3 DEF Module
<1>5. def \in Def /\ def.bound = defs[d].bound /\ def.ready = defs[d].ready
      /\ def.given = defs[d].given /\ def.declared = defs[d].declared \cup {k}
      /\ def.linked = defs[d].linked /\ def.slots = defs[d].slots
  BY <1>2 DEF Def
<1>6. ModuleInv(g, def, life)
  <2>1. \A h \in Keys : def.bound[h] \in 0..Len(g) /\ (~def.ready => def.bound[h] = 0)
    BY <1>2, <1>3, <1>5 DEF ModuleInv
  <2>2. def.given \in 0..Len(g) /\ defs[d].given \in 0..Len(e)
    BY <1>2, <1>3, <1>5 DEF ModuleInv
  <2>3. ASSUME NEW i \in 1..Len(g) PROVE OneOwner(g[i], i, def, life)
    <3>1. CASE i \in 1..Len(e)
      <4>1. OneOwner(e[i], i, defs[d], life) /\ g[i] = e[i]
        BY <1>2, <1>3, <3>1 DEF ModuleInv
      <4> HIDE DEF e, g, def
      <4> QED
        BY <1>5, <4>1 DEF OneOwner
    <3>2. CASE i = Len(e) + 1
      <4>1. def.bound[k] # i
        BY <1>2, <1>5, <3>2 DEF ModuleInv
      <4>2. g[i].key = k /\ g[i].held = TRUE /\ g[i].freed = 0
        BY <1>3, <3>2
      <4> HIDE DEF e, g, def
      <4> QED
        BY <1>1, <1>5, <4>1, <4>2 DEF One, OneOwner
    <3>3. Len(g) = Len(e) + 1 /\ Len(e) \in Nat
      BY <1>2, <1>3
    <3> HIDE DEF e, g, def
    <3> QED
      BY <3>1, <3>2, <3>3
  <2>4. \A h : LastOf(SubSeq(e, 1, def.given), h) = LastOf(SubSeq(g, 1, def.given), h)
    <3> HIDE DEF e, g, def
    <3>1. Len(e) <= Len(g)
      BY <1>2, <1>3
    <3> QED
      BY <1>2, <1>3, <1>5, <2>2, <3>1, LastOfPrefix
  <2>5. VariablesInv(g, def, life)
    <3>1. VariablesInv(e, defs[d], life)
      BY <1>2 DEF ModuleInv
    <3>2. \A i \in 1..Len(g) : i \in 1..Len(e) \/ i = Len(e) + 1
      BY <1>2, <1>3
    <3>3. Len(e) + 1 \in 1..Len(g) /\ g[Len(e) + 1].key = k /\ 1..Len(e) \subseteq 1..Len(g)
      BY <1>2, <1>3
    <3> HIDE DEF e, g, def
    <3>4. ASSUME NEW h \in def.declared PROVE \E i \in 1..Len(g) : g[i].key = h
      <4>1. CASE h = k
        BY <3>3, <4>1
      <4>2. CASE h \in defs[d].declared
        <5>1. PICK i \in 1..Len(e) : e[i].key = h
          BY <3>1, <4>2 DEF VariablesInv
        <5> QED
          BY <1>3, <3>3, <5>1
      <4> QED
        BY <1>5, <4>1, <4>2
    <3> QED
      BY <1>5, <3>1, <3>4 DEF VariablesInv
  <2> HIDE DEF e, g, def
  <2> QED
    BY <1>2, <1>5, <2>1, <2>2, <2>3, <2>4, <2>5 DEF ModuleInv
<1> HIDE DEF e, g, mdl, def
<1>7. modules \in Seq(Module) /\ defs \in Seq(Def) /\ Len(modules) \in Nat /\ Len(defs) = Len(modules)
  BY DEF ModulesInv
<1>8. /\ modules' \in Seq(Module) /\ defs' \in Seq(Def)
      /\ Len(modules') = Len(modules) /\ Len(defs') = Len(modules)
      /\ modules'[d] = mdl /\ defs'[d] = def
      /\ \A c \in 1..Len(modules) : c # d => modules'[c] = modules[c] /\ defs'[c] = defs[c]
  BY <1>1, <1>4, <1>5, <1>7
<1>9. ASSUME NEW c \in 1..Len(modules) PROVE ModuleInv(modules'[c].exports, defs'[c], life')
  BY <1>1, <1>4, <1>6, <1>8 DEF ModulesInv
<1> QED
  BY <1>1, <1>4, <1>5, <1>7, <1>8, <1>9 DEF ModulesInv, ModulesGrow, DefGrows

\* A held export that is handed over: the engine has the value, or has freed it.
LEMMA HandedOverOne ==
  ASSUME NEW x \in Export, x.held = TRUE, x.freed = 0, NEW b \in BOOLEAN
  PROVE  /\ HandedOver(x, b) \in Export /\ HandedOver(x, b).key = x.key
         /\ HandedOver(x, b).held = FALSE /\ HandedOver(x, b).freed = IF b THEN 0 ELSE 1
<1> DEFINE f == IF ~x.held \/ b THEN x.freed ELSE x.freed + 1
<1>1. f = (IF b THEN 0 ELSE 1) /\ f \in Nat
  OBVIOUS
<1>2. HandedOver(x, b) = [x EXCEPT !.held = FALSE, !.freed = f]
  BY DEF HandedOver
<1> HIDE DEF f
<1> QED
  BY <1>1, <1>2 DEF Export

\* The engine gets the value of the last export of each name, and frees the others.
LEMMA InitModuleKeeps ==
  ASSUME ModulesInv, life = "ready", life' = life,
         NEW d \in 1..Len(modules), ~defs[d].ready, defs[d].linked, InitModule(d)
  PROVE  ModulesInv' /\ ModulesGrow /\ defs'[d].ready
<1> DEFINE e == modules[d].exports
           bound == [k \in Keys |-> LastOf(e, k)]
           g == [i \in 1..Len(e) |-> HandedOver(e[i], bound[e[i].key] = i)]
           mdl == [modules[d] EXCEPT !.exports = g]
           def == [defs[d] EXCEPT !.bound = bound, !.ready = TRUE, !.given = Len(e)]
<1>1. modules' = [modules EXCEPT ![d] = mdl] /\ defs' = [defs EXCEPT ![d] = def]
  BY DEF InitModule, Writes
<1>2. /\ modules[d] \in Module /\ defs[d] \in Def /\ e \in Seq(Export) /\ Len(e) \in Nat
      /\ ModuleInv(e, defs[d], life)
      /\ \A i \in 1..Len(e) : e[i] \in Export /\ e[i].key \in Keys
  BY OneModule
<1>3. \A i \in 1..Len(e) : e[i].held = TRUE /\ e[i].freed = 0 /\ e[i].key \in defs[d].declared
  <2>1. ASSUME NEW i \in 1..Len(e)
        PROVE e[i].held = TRUE /\ e[i].freed = 0 /\ e[i].key \in defs[d].declared
    <3>1. OneOwner(e[i], i, defs[d], life) /\ e[i] \in Export /\ e[i].key \in Keys
      BY <1>2 DEF ModuleInv
    <3>2. defs[d].bound[e[i].key] = 0
      BY <1>2, <3>1 DEF ModuleInv
    <3>3. e[i].held = TRUE /\ e[i].freed \in Nat /\ i # 0
      BY <3>1 DEF OneOwner, Export
    <3> HIDE DEF e
    <3> QED
      BY <3>1, <3>2, <3>3 DEF OneOwner, One
  <2> QED
    BY <2>1
<1>4. bound \in [Keys -> Nat] /\ \A k \in Keys : bound[k] = LastOf(e, k) /\ bound[k] \in 0..Len(e)
  <2>1. \A k : LastOf(e, k) \in 0..Len(e)
    BY <1>2, LastIsOne
  <2> QED
    BY <1>2, <2>1
<1> HIDE DEF bound
<1>5. \A i \in 1..Len(e) : /\ HandedOver(e[i], bound[e[i].key] = i) \in Export
                            /\ HandedOver(e[i], bound[e[i].key] = i).key = e[i].key
                            /\ HandedOver(e[i], bound[e[i].key] = i).held = FALSE
                            /\ HandedOver(e[i], bound[e[i].key] = i).freed
                                 = IF bound[e[i].key] = i THEN 0 ELSE 1
  <2>2. ASSUME NEW i \in 1..Len(e), NEW b \in BOOLEAN
        PROVE  /\ HandedOver(e[i], b) \in Export /\ HandedOver(e[i], b).key = e[i].key
               /\ HandedOver(e[i], b).held = FALSE /\ HandedOver(e[i], b).freed = IF b THEN 0 ELSE 1
    BY <1>2, <1>3, HandedOverOne
  <2>3. \A i \in 1..Len(e) : (bound[e[i].key] = i) \in BOOLEAN
    OBVIOUS
  <2> HIDE DEF e
  <2> QED
    BY <2>2, <2>3
<1>6. /\ g \in Seq(Export) /\ Len(g) = Len(e)
      /\ \A i \in 1..Len(e) : /\ g[i].key = e[i].key /\ g[i].held = FALSE
                              /\ g[i].freed = IF bound[e[i].key] = i THEN 0 ELSE 1
  BY <1>2, <1>5
<1> HIDE DEF g
<1>7. mdl \in Module /\ mdl.exports = g /\ mdl.name = modules[d].name
  BY <1>2, <1>6 DEF Module
<1>8. def \in Def /\ def.bound = bound /\ def.ready = TRUE
      /\ def.given = Len(e) /\ def.declared = defs[d].declared
      /\ def.linked = TRUE /\ def.slots = defs[d].slots
  BY <1>2, <1>4 DEF Def
<1> HIDE DEF mdl, def
<1>9. ModuleInv(g, def, life)
  <2> HIDE DEF e
  <2>1. ASSUME NEW i \in 1..Len(g) PROVE OneOwner(g[i], i, def, life)
    BY <1>3, <1>6, <1>8 DEF OneOwner, One
  <2>2. \A k : LastOf(SubSeq(g, 1, Len(e)), k) = LastOf(e, k)
    <3>1. SubSeq(g, 1, Len(e)) = g
      BY <1>2, <1>6, SubSeqFull
    <3>2. \A k : LastOf(e, k) = LastOf(g, k)
      BY <1>6, LastByKeys
    <3> QED
      BY <3>1, <3>2
  <2>3. VariablesInv(g, def, life)
    <3>1. VariablesInv(e, defs[d], life) /\ defs[d].slots \subseteq Keys
      BY <1>2 DEF ModuleInv, Def
    <3>2. ASSUME NEW k \in def.slots PROVE def.bound[k] # 0
      <4>1. k \in Keys /\ \E i \in 1..Len(e) : e[i].key = k
        BY <1>8, <3>1 DEF VariablesInv
      <4>2. Under(e, k) # {}
        BY <4>1 DEF Under
      <4> QED
        BY <1>2, <1>4, <1>8, <4>1, <4>2, LastIsOne
    <3> QED
      BY <1>6, <1>8, <3>1, <3>2 DEF VariablesInv
  <2> QED
    BY <1>2, <1>4, <1>6, <1>8, <2>1, <2>2, <2>3 DEF ModuleInv
<1> HIDE DEF e
<1>10. modules \in Seq(Module) /\ defs \in Seq(Def) /\ Len(modules) \in Nat /\ Len(defs) = Len(modules)
  BY DEF ModulesInv
<1>11. /\ modules' \in Seq(Module) /\ defs' \in Seq(Def)
       /\ Len(modules') = Len(modules) /\ Len(defs') = Len(modules)
       /\ modules'[d] = mdl /\ defs'[d] = def
       /\ \A c \in 1..Len(modules) : c # d => modules'[c] = modules[c] /\ defs'[c] = defs[c]
  BY <1>1, <1>7, <1>8, <1>10
<1>12. ASSUME NEW c \in 1..Len(modules) PROVE ModuleInv(modules'[c].exports, defs'[c], life')
  BY <1>7, <1>9, <1>11 DEF ModulesInv
<1> QED
  BY <1>7, <1>8, <1>10, <1>11, <1>12 DEF ModulesInv, ModulesGrow, DefGrows

\* A native module that is linked first gets its variables, and no values yet.
LEMMA LinksKeep ==
  ASSUME ModulesInv, Links
  PROVE  /\ ModulesInv' /\ ModulesGrow
         /\ Len(modules') = Len(modules) /\ Len(defs') = Len(modules)
         /\ \A d \in 1..Len(modules) : /\ defs'[d] = WithVariables(d)
                                        /\ defs'[d].ready = defs[d].ready
<1>1. modules' = modules /\ life' = life /\ defs' = [d \in 1..Len(defs) |-> WithVariables(d)]
  BY DEF Links
<1>2. modules \in Seq(Module) /\ defs \in Seq(Def) /\ Len(modules) \in Nat /\ Len(defs) = Len(modules)
  BY DEF ModulesInv
<1>3. ASSUME NEW d \in 1..Len(modules)
      PROVE  /\ WithVariables(d) \in Def /\ DefGrows(defs[d], WithVariables(d))
             /\ WithVariables(d).ready = defs[d].ready
             /\ ModuleInv(modules[d].exports, WithVariables(d), life)
  <2>1. defs[d] \in Def /\ ModuleInv(modules[d].exports, defs[d], life)
    BY OneModule
  <2>2. CASE WithVariables(d) = defs[d]
    BY <2>1, <2>2 DEF DefGrows
  <2>3. CASE WithVariables(d) # defs[d]
    <3> DEFINE def == [defs[d] EXCEPT !.linked = TRUE, !.slots = defs[d].declared]
    <3>1. WithVariables(d) = def /\ ~defs[d].linked
      BY <2>3 DEF WithVariables
    <3>2. /\ def \in Def /\ def.bound = defs[d].bound /\ def.ready = defs[d].ready
          /\ def.given = defs[d].given /\ def.declared = defs[d].declared
          /\ def.linked = TRUE /\ def.slots = defs[d].declared
      BY <2>1 DEF Def
    <3> HIDE DEF def
    <3>3. ~defs[d].ready /\ defs[d].slots = {}
      BY <2>1, <3>1 DEF ModuleInv, VariablesInv
    <3>4. \A i \in 1..Len(modules[d].exports) : OneOwner(modules[d].exports[i], i, def, life)
      BY <2>1, <3>2 DEF ModuleInv, OneOwner
    <3>5. ModuleInv(modules[d].exports, def, life)
      BY <2>1, <3>2, <3>3, <3>4 DEF ModuleInv, VariablesInv
    <3> QED
      BY <3>1, <3>2, <3>3, <3>5 DEF DefGrows
  <2> QED
    BY <2>2, <2>3
<1>4. defs' \in Seq(Def) /\ Len(defs') = Len(modules) /\ \A d \in 1..Len(modules) : defs'[d] = WithVariables(d)
  BY <1>1, <1>2, <1>3
<1> QED
  BY <1>1, <1>2, <1>3, <1>4 DEF ModulesInv, ModulesGrow

\* A wrapper that is destroyed gives its value back, if it still has one.
LEMMA GivenBackOne ==
  ASSUME NEW x \in Export
  PROVE  /\ GivenBack(x) \in Export /\ GivenBack(x).key = x.key
         /\ GivenBack(x).held = FALSE /\ GivenBack(x).freed = One(x.held) + x.freed
<1> DEFINE f == IF x.held THEN x.freed + 1 ELSE x.freed
<1>1. f = One(x.held) + x.freed /\ f \in Nat
  BY DEF Export, One
<1>2. GivenBack(x) = [x EXCEPT !.held = FALSE, !.freed = f]
  BY DEF GivenBack
<1> HIDE DEF f
<1> QED
  BY <1>1, <1>2 DEF Export

\* After _modules.clear() only the engine owns values.
LEMMA ClearModulesKeeps ==
  ASSUME ModulesInv, ClearModules
  PROVE  ModulesInv' /\ ModulesGrow
<1> DEFINE e(d) == modules[d].exports
           g(d) == [i \in 1..Len(e(d)) |-> GivenBack(e(d)[i])]
           mdl(d) == [modules[d] EXCEPT !.exports = g(d)]
<1>1. life = "ready" /\ life' = "cleared" /\ defs' = defs
      /\ modules' = [d \in 1..Len(modules) |-> mdl(d)]
  BY DEF ClearModules
<1>2. modules \in Seq(Module) /\ defs \in Seq(Def) /\ Len(modules) \in Nat /\ Len(defs) = Len(modules)
  BY DEF ModulesInv
<1>3. ASSUME NEW d \in 1..Len(modules)
      PROVE  /\ mdl(d) \in Module /\ mdl(d).name = modules[d].name
             /\ ModuleInv(mdl(d).exports, defs[d], "cleared")
  <2> DEFINE ed == e(d)
             gd == g(d)
  <2>1. /\ ed \in Seq(Export) /\ Len(ed) \in Nat /\ ModuleInv(ed, defs[d], life)
        /\ \A i \in 1..Len(ed) : ed[i] \in Export
    BY OneModule
  <2>2. \A i \in 1..Len(ed) : /\ GivenBack(ed[i]) \in Export /\ GivenBack(ed[i]).key = ed[i].key
                               /\ GivenBack(ed[i]).held = FALSE
                               /\ GivenBack(ed[i]).freed = One(ed[i].held) + ed[i].freed
    BY <2>1, GivenBackOne
  <2>3. gd \in Seq(Export) /\ Len(gd) = Len(ed) /\ \A i \in 1..Len(ed) : gd[i] = GivenBack(ed[i])
    BY <2>1, <2>2
  <2>4. mdl(d) \in Module /\ mdl(d).name = modules[d].name /\ mdl(d).exports = gd
    BY <2>3, OneModule DEF Module
  <2> HIDE DEF ed, gd
  <2>5. ASSUME NEW i \in 1..Len(gd) PROVE OneOwner(gd[i], i, defs[d], "cleared")
    <3>1. OneOwner(ed[i], i, defs[d], life) /\ ed[i].freed \in Nat
      BY <2>1, <2>3 DEF ModuleInv, Export
    <3>2. /\ gd[i].key = ed[i].key /\ gd[i].held = FALSE /\ gd[i].freed = One(ed[i].held) + ed[i].freed
      BY <2>2, <2>3
    <3>3. gd[i].key \in defs[d].declared /\ ~gd[i].held
      BY <3>1, <3>2 DEF OneOwner
    <3>4. One(gd[i].held) + One(defs[d].bound[gd[i].key] = i) + gd[i].freed = 1
      <4> DEFINE b == One(defs[d].bound[ed[i].key] = i)
                 h == One(ed[i].held)
      <4>1. b \in Nat /\ h \in Nat /\ h + b + ed[i].freed = 1
        BY <3>1 DEF OneOwner, One
      <4>2. One(gd[i].held) = 0 /\ One(defs[d].bound[gd[i].key] = i) = b
        BY <3>2 DEF One
      <4>3. gd[i].freed = h + ed[i].freed
        BY <3>2
      <4> HIDE DEF b, h
      <4> QED
        BY <3>1, <4>1, <4>2, <4>3
    <3> QED
      BY <3>3, <3>4 DEF OneOwner
  <2>6. VariablesInv(gd, defs[d], "cleared")
    BY <2>1, <2>2, <2>3 DEF ModuleInv, VariablesInv
  <2> HIDE DEF mdl
  <2> QED
    BY <1>1, <2>1, <2>3, <2>4, <2>5, <2>6 DEF ModuleInv
<1> HIDE DEF mdl
<1>4. /\ modules' \in Seq(Module) /\ Len(modules') = Len(modules)
      /\ \A d \in 1..Len(modules) : modules'[d] = mdl(d)
  BY <1>1, <1>2, <1>3
<1> QED
  BY <1>1, <1>2, <1>3, <1>4 DEF ModulesInv, ModulesGrow, DefGrows

\* A value that the engine has is given back by it.
LEMMA LetGoOne ==
  ASSUME NEW x \in Export, x.held = FALSE, NEW b \in BOOLEAN, One(b) + x.freed = 1
  PROVE  /\ LetGo(x, b) \in Export /\ LetGo(x, b).key = x.key
         /\ LetGo(x, b).held = FALSE /\ LetGo(x, b).freed = 1
<1> DEFINE f == IF b THEN x.freed + 1 ELSE x.freed
<1>1. f = 1
  BY DEF One, Export
<1>2. LetGo(x, b) = [x EXCEPT !.freed = f]
  BY DEF LetGo
<1> HIDE DEF f
<1> QED
  BY <1>1, <1>2 DEF Export

\* After JS_FreeContext every value was given back.
LEMMA FreeContextKeeps ==
  ASSUME ModulesInv, FreeContext
  PROVE  ModulesInv' /\ ModulesGrow
<1> DEFINE e(d) == modules[d].exports
           g(d) == [i \in 1..Len(e(d)) |-> LetGo(e(d)[i], defs[d].bound[e(d)[i].key] = i)]
           mdl(d) == [modules[d] EXCEPT !.exports = g(d)]
           none == [k \in Keys |-> 0]
           def(d) == [defs[d] EXCEPT !.bound = none]
<1>1. life = "cleared" /\ life' = "freed"
      /\ modules' = [d \in 1..Len(modules) |-> mdl(d)]
      /\ defs' = [d \in 1..Len(defs) |-> def(d)]
  BY DEF FreeContext, Unbind
<1>2. modules \in Seq(Module) /\ defs \in Seq(Def) /\ Len(modules) \in Nat /\ Len(defs) = Len(modules)
  BY DEF ModulesInv
<1>3. ASSUME NEW d \in 1..Len(modules)
      PROVE  /\ mdl(d) \in Module /\ mdl(d).name = modules[d].name
             /\ def(d) \in Def /\ def(d).ready = defs[d].ready /\ DefGrows(defs[d], def(d))
             /\ ModuleInv(mdl(d).exports, def(d), "freed")
  <2> DEFINE ed == e(d)
             gd == g(d)
             dd == def(d)
  <2>1. /\ ed \in Seq(Export) /\ Len(ed) \in Nat /\ ModuleInv(ed, defs[d], life)
        /\ \A i \in 1..Len(ed) : ed[i] \in Export
    BY OneModule
  <2>2. ASSUME NEW i \in 1..Len(ed)
        PROVE  gd[i] \in Export /\ gd[i].key = ed[i].key /\ gd[i].held = FALSE /\ gd[i].freed = 1
    <3>1. OneOwner(ed[i], i, defs[d], life) /\ ed[i] \in Export
      BY <2>1 DEF ModuleInv
    <3> DEFINE b == defs[d].bound[ed[i].key] = i
    <3>2. ed[i].held = FALSE /\ One(b) + ed[i].freed = 1
      BY <1>1, <3>1 DEF OneOwner, One, Export
    <3>3. gd[i] = LetGo(ed[i], b)
      BY Zenon
    <3> HIDE DEF ed, gd
    <3> QED
      BY <3>1, <3>2, <3>3, LetGoOne
  <2>3. gd \in Seq(Export) /\ Len(gd) = Len(ed)
    <3>1. gd = [i \in 1..Len(ed) |-> gd[i]]
      BY Zenon
    <3> HIDE DEF ed, gd
    <3>2. gd \in [1..Len(ed) -> Export]
      BY <2>2, <3>1
    <3> QED
      BY <2>1, <3>2
  <2>4. mdl(d) \in Module /\ mdl(d).name = modules[d].name /\ mdl(d).exports = gd
    BY <2>3, OneModule DEF Module
  <2>5. dd \in Def /\ dd.declared = defs[d].declared /\ dd.bound = none /\ dd.given = defs[d].given
        /\ dd.ready = defs[d].ready /\ dd.linked = defs[d].linked /\ dd.slots = defs[d].slots
    BY OneModule DEF Def
  <2> HIDE DEF ed, gd, dd
  <2>6. ASSUME NEW i \in 1..Len(gd) PROVE OneOwner(gd[i], i, dd, "freed")
    <3>1. OneOwner(ed[i], i, defs[d], life) /\ i \in 1..Len(ed) /\ ed[i].key \in Keys
      BY <2>1, <2>3 DEF ModuleInv, Export
    <3>2. gd[i].key = ed[i].key /\ gd[i].held = FALSE /\ gd[i].freed = 1
      BY <2>2, <2>3, <3>1
    <3>3. dd.bound[gd[i].key] # i
      BY <2>1, <2>5, <3>1, <3>2
    <3>4. gd[i].key \in dd.declared
      BY <2>5, <3>1, <3>2 DEF OneOwner
    <3> QED
      BY <3>2, <3>3, <3>4 DEF OneOwner, One
  <2>7. \A k \in Keys : dd.bound[k] = 0
    BY <2>5
  <2>8. dd.given \in 0..Len(gd)
    BY <2>1, <2>3, <2>5 DEF ModuleInv
  <2>9. VariablesInv(gd, dd, "freed")
    <3>1. VariablesInv(ed, defs[d], life)
      BY <2>1 DEF ModuleInv
    <3>2. \A i \in 1..Len(ed) : gd[i].key = ed[i].key
      BY <2>2
    <3> QED
      BY <2>3, <2>5, <3>1, <3>2 DEF VariablesInv
  <2>10. ModuleInv(gd, dd, "freed")
    BY <2>1, <2>3, <2>6, <2>7, <2>8, <2>9 DEF ModuleInv
  <2> HIDE DEF mdl
  <2> QED
    BY <2>4, <2>5, <2>10 DEF dd, DefGrows
<1> HIDE DEF mdl, def
<1>4. /\ modules' \in Seq(Module) /\ Len(modules') = Len(modules)
      /\ defs' \in Seq(Def) /\ Len(defs') = Len(modules)
      /\ \A d \in 1..Len(modules) : modules'[d] = mdl(d) /\ defs'[d] = def(d)
  BY <1>1, <1>2, <1>3
<1> QED
  BY <1>1, <1>2, <1>3, <1>4 DEF ModulesInv, ModulesGrow, DefGrows

\* The first module of a name stays the first.
LEMMA NamedStay ==
  ASSUME ModulesInv, ModulesInv', ModulesGrow, NEW n, Named(n) # {}
  PROVE  /\ Named(n)' # {} /\ FirstNamed(n)' = FirstNamed(n)
         /\ DefGrows(defs[FirstNamed(n)], defs'[FirstNamed(n)'])
<1>1. Len(modules) \in Nat /\ Len(modules') \in Nat /\ Len(modules) <= Len(modules')
  BY DEF ModulesInv, ModulesGrow, DefGrows
<1> DEFINE f == FirstNamed(n)
<1>2. /\ f \in 1..Len(modules) /\ modules[f].name = n
      /\ \A e \in Named(n) : f <= e
  BY FirstIsNamed
<1> HIDE DEF f
<1>3. f \in 1..Len(modules') /\ f \in Named(n)'
  BY <1>1, <1>2 DEF ModulesGrow, Named
<1>4. ASSUME NEW e \in Named(n)' PROVE f <= e
  <2>1. e \in 1..Len(modules') /\ modules'[e].name = n
    BY DEF Named
  <2>2. CASE e \in 1..Len(modules)
    BY <1>2, <2>1, <2>2 DEF ModulesGrow, Named
  <2>3. CASE e \notin 1..Len(modules)
    BY <1>1, <1>2, <2>1, <2>3
  <2> QED
    BY <2>2, <2>3
<1>5. ASSUME NEW e \in Named(n)', \A c \in Named(n)' : e <= c PROVE e = f
  <2>1. e <= f /\ f <= e /\ e \in Int /\ f \in Int
    BY <1>2, <1>3, <1>4, <1>5 DEF Named
  <2> QED
    BY <2>1
<1>6. FirstNamed(n)' = f
  <2>1. FirstNamed(n)' = CHOOSE d \in Named(n)' : \A e \in Named(n)' : d <= e
    BY DEF FirstNamed
  <2>2. FirstNamed(n)' \in Named(n)' /\ \A c \in Named(n)' : FirstNamed(n)' <= c
    BY <1>3, <1>4, <2>1
  <2> QED
    BY <1>5, <2>2
<1> QED
  BY <1>2, <1>3, <1>6 DEF f, ModulesGrow

\* Each step keeps the modules and their exports.
LEMMA ModulesKeep ==
  ASSUME ModulesInv, EngineInv, KnownInv, WantedInv, [Next]_vars
  PROVE  ModulesInv' /\ ModulesGrow
<1>1. ASSUME UNCHANGED <<life, moduleVars>> PROVE ModulesInv' /\ ModulesGrow
  <2>1. Len(modules) \in Nat
    BY DEF ModulesInv
  <2> QED
    BY <1>1, <2>1 DEF ModulesInv, ModulesGrow, DefGrows, ModuleInv, VariablesInv, OneOwner, moduleVars
<1>2. CASE NativeStep
  BY <1>2, NewModuleKeeps, AddExportKeeps DEF NativeStep
<1>3. CASE NativeImported
  <2>1. stack \in Seq(Frame) /\ stack # <<>> /\ life = "ready" /\ life' = life
    BY <1>3 DEF NativeImported, EngineInv, FramesInv
  <2>2. PICK n \in Top.todo \cap Natives :
          IF defs[FirstNamed(n)].ready THEN UNCHANGED moduleVars ELSE InitModule(FirstNamed(n))
    BY <1>3 DEF NativeImported
  <2>3. FirstNamed(n) \in 1..Len(modules) /\ defs[FirstNamed(n)].linked
    <3>1. Top = stack[Len(stack)] /\ Len(stack) \in 1..Len(stack)
      BY <2>1, BelowFrames
    <3>2. n \in Natives /\ n \in Top.imports /\ pc = "evaluate"
      BY <1>3, <2>2, <3>1 DEF EngineInv, NativeImported, FramesInv
    <3>3. IsLinked(n)
      BY <3>1, <3>2 DEF WantedInv, Covers
    <3> QED
      BY <3>3, FirstIsNamed DEF IsLinked
  <2>4. CASE defs[FirstNamed(n)].ready
    BY <1>1, <2>1, <2>2, <2>4
  <2>5. CASE ~defs[FirstNamed(n)].ready
    BY <2>1, <2>2, <2>3, <2>5, InitModuleKeeps
  <2> QED
    BY <2>4, <2>5
<1>4. CASE Resolution
  BY <1>1, <1>4 DEF Resolution, FindModule, LoadThrows, CompileThrows, LoadBegins, LoadReturns,
    LoadAborts, ExceptionTaken, Aborts
<1>5. CASE InitCrashes \/ FileImported \/ BodyReturns \/ EvaluationThrows \/ EvaluationEnds
  BY <1>1, <1>5 DEF InitCrashes, FileImported, BodyReturns, EvaluationThrows, EvaluationEnds
<1>6. CASE \E f \in Files : EvalFile(f) \/ DiskChanges(f)
  BY <1>1, <1>6 DEF EvalFile, DiskChanges
<1>7. CASE \E n \in Files \cup Natives : DynamicImport(n)
  BY <1>1, <1>7 DEF DynamicImport
<1>8. CASE UNCHANGED vars
  BY <1>1, <1>8 DEF vars
<1>9. CASE LinkThrows \/ LinkCrashes \/ EvaluationBegins
  BY <1>9, LinksKeep DEF LinkThrows, LinkCrashes, EvaluationBegins
<1> QED
  BY <1>2, <1>3, <1>4, <1>5, <1>6, <1>7, <1>8, <1>9, ClearModulesKeeps, FreeContextKeeps
  DEF Next, Evaluation

-------------------------------------------------------------------------------
(* The engine.                                                               *)

\* The stacks that steps make of a good one are good.
LEMMA FramesStay ==
  ASSUME FramesInv(stack), stack # <<>>
  PROVE  /\ \A n : FramesInv(Resolved(n)) /\ Resolved(n) # <<>>
         /\ \A n \in Files : /\ FramesInv(Append(Resolved(n), FrameOf(n, Imports[n])))
                            /\ Append(Resolved(n), FrameOf(n, Imports[n])) # <<>>
         /\ FramesInv(Below)
         /\ FramesInv(<<[stack[1] EXCEPT !.todo = stack[1].imports]>>)
<1>1. stack \in Seq(Frame) /\ Len(stack) \in 1..Len(stack) /\ Len(stack) \in Nat /\ 1 \in 1..Len(stack)
  BY DEF FramesInv
<1>2. ASSUME NEW n PROVE FramesInv(Resolved(n)) /\ Resolved(n) # <<>>
  BY <1>1, ResolvedFrames DEF FramesInv
<1>3. ASSUME NEW n \in Files
      PROVE  /\ FramesInv(Append(Resolved(n), FrameOf(n, Imports[n])))
             /\ Append(Resolved(n), FrameOf(n, Imports[n])) # <<>>
  <2> DEFINE r == Resolved(n)
             f == FrameOf(n, Imports[n])
             s == Append(r, f)
  <2>1. /\ s \in Seq(Frame) /\ Len(s) = Len(stack) + 1 /\ s[Len(stack) + 1] = f
        /\ \A j \in 1..Len(stack) : s[j] = r[j]
    BY <1>1, PushedFrames
  <2>2. FramesInv(r) /\ Len(r) = Len(stack)
    BY <1>1, <1>2, ResolvedFrames
  <2>3. f.unit = n /\ f.imports = Imports[n] /\ f.todo = Imports[n]
    BY DEF FrameOf
  <2> HIDE DEF r, f, s
  <2>4. ASSUME NEW j \in 1..Len(s)
        PROVE  /\ s[j].unit \in Files => s[j].imports = Imports[s[j].unit]
               /\ j > 1 => s[j].unit \in Files
               /\ s[j].todo \subseteq s[j].imports
    <3>1. CASE j \in 1..Len(stack)
      BY <2>1, <2>2, <3>1 DEF FramesInv
    <3>2. CASE j = Len(stack) + 1
      BY <2>1, <2>3, <3>2
    <3> QED
      BY <1>1, <2>1, <3>1, <3>2
  <2>5. s # <<>>
    BY <1>1, <2>1
  <2> QED
    BY <2>1, <2>4, <2>5 DEF FramesInv, r, f, s
<1>4. FramesInv(Below)
  BY <1>1, BelowFrames DEF FramesInv
<1>5. FramesInv(<<[stack[1] EXCEPT !.todo = stack[1].imports]>>)
  <2>1. stack[1] \in Frame
    BY <1>1
  <2> DEFINE x == [stack[1] EXCEPT !.todo = stack[1].imports]
  <2>2. /\ x \in Frame /\ x.todo \subseteq x.imports
        /\ x.unit \in Files => x.imports = Imports[x.unit]
    BY <1>1, <2>1 DEF Frame, FramesInv
  <2> HIDE DEF x
  <2>3. <<x>> \in Seq(Frame) /\ Len(<<x>>) = 1 /\ <<x>>[1] = x
    BY <2>2
  <2>4. FramesInv(<<x>>)
    <3>1. ASSUME NEW j \in 1..Len(<<x>>) PROVE j = 1 /\ <<x>>[j] = x
      BY <2>3
    <3> QED
      BY <2>2, <2>3, <3>1 DEF FramesInv
  <2> QED
    BY <2>4 DEF x
<1> QED
  BY <1>2, <1>3, <1>4, <1>5

\* A step of the file on top.
LEMMA TopBecomesOne ==
  ASSUME EngineInv, stack # <<>>, NEW s \in {"none", "loaded", "evaluated"}, TopBecomes(s)
  PROVE  /\ unit' \in [Files -> {"none", "resolving", "loaded", "evaluated", "failed"}]
         /\ \A f \in Files : unit'[f] = IF f = Top.unit THEN s ELSE unit[f]
         /\ Top = stack[Len(stack)] /\ Len(stack) \in 1..Len(stack) /\ Len(stack) \in Nat
         /\ Top.unit \in Files \cup {Script}
<1>1. Top = stack[Len(stack)] /\ Len(stack) \in 1..Len(stack) /\ Len(stack) \in Nat /\ Top \in Frame
  BY DEF EngineInv, FramesInv, Top
<1>2. Top.unit \in Files \cup {Script}
  BY <1>1 DEF Frame
<1> QED
  BY <1>1, <1>2, ModulesAssumption DEF TopBecomes, EngineInv

\* Each step keeps the engine's state in order.
LEMMA EngineKeeps ==
  ASSUME EngineInv, [Next]_vars
  PROVE  EngineInv'
<1> USE DEF EngineInv
<1>1. CASE NativeStep
  BY <1>1 DEF NativeStep, NewModule, AddExport, Declare, Native, fileVars, engineVars
<1>2. CASE FindModule
  BY <1>2, FramesStay DEF FindModule, fileVars
<1>3. CASE LoadThrows \/ CompileThrows
  BY <1>3 DEF LoadThrows, CompileThrows, Aborts, fileVars
<1>4. CASE LoadBegins
  <2>1. PICK n \in Files : /\ unit' = [unit EXCEPT ![n] = "resolving"]
                           /\ stack' = Append(Resolved(n), FrameOf(n, Imports[n]))
    BY <1>4 DEF LoadBegins
  <2>2. FramesInv(stack') /\ stack' # <<>> /\ pc = "resolve"
    BY <1>4, <2>1, FramesStay DEF LoadBegins
  <2> QED
    BY <1>4, <2>1, <2>2 DEF LoadBegins
<1>5. CASE LoadReturns
  <2>1. stack # <<>> /\ TopBecomes("loaded") /\ stack' = Below /\ Len(stack) > 1
    BY <1>5 DEF LoadReturns
  <2>2. FramesInv(stack') /\ stack' # <<>>
    BY <2>1, FramesStay, BelowFrames DEF FramesInv
  <2>3. unit' \in [Files -> {"none", "resolving", "loaded", "evaluated", "failed"}]
        /\ Top.unit \in Files
    BY <2>1, TopBecomesOne DEF FramesInv
  <2> QED
    BY <1>5, <2>2, <2>3 DEF LoadReturns
<1>6. CASE LoadAborts
  BY <1>6, FramesStay, TopBecomesOne DEF LoadAborts
<1>7. CASE ExceptionTaken
  BY <1>7 DEF ExceptionTaken, fileVars
<1>8. CASE EvaluationBegins
  <2>1. stack # <<>> /\ Top = stack[1] /\ TopBecomes("loaded")
    BY <1>8 DEF EvaluationBegins, Links, Top
  <2>2. FramesInv(stack')
    BY <1>8, <2>1, FramesStay DEF EvaluationBegins
  <2> QED
    BY <1>8, <2>1, <2>2, TopBecomesOne DEF EvaluationBegins, Links
<1>9. CASE NativeImported
  BY <1>9, FramesStay DEF NativeImported, fileVars
<1>10. CASE FileImported
  BY <1>10, FramesStay DEF FileImported, fileVars
<1>11. CASE BodyReturns
  BY <1>11, FramesStay, TopBecomesOne DEF BodyReturns
<1>12. CASE EvaluationThrows
  BY <1>12 DEF EvaluationThrows, FramesInv
<1>13. CASE EvaluationEnds
  BY <1>13 DEF EvaluationEnds, fileVars
<1>14. ASSUME NEW f \in Files, EvalFile(f) PROVE EngineInv'
  <2>1. FrameOf(f, Imports[f]) \in Frame
    BY ModulesAssumption DEF FrameOf, Frame
  <2>2. FramesInv(<<FrameOf(f, Imports[f])>>)
    BY <2>1 DEF FramesInv, FrameOf
  <2> QED
    BY <1>14, <2>2 DEF EvalFile
<1>15. ASSUME NEW f \in Files, DiskChanges(f) PROVE EngineInv'
  BY <1>15 DEF DiskChanges, fileVars, engineVars
<1>16. ASSUME NEW n \in Files \cup Natives, DynamicImport(n) PROVE EngineInv'
  <2>1. FrameOf(Script, {n}) \in Frame
    BY DEF FrameOf, Frame
  <2>2. FramesInv(<<FrameOf(Script, {n})>>)
    BY <2>1, ModulesAssumption DEF FramesInv, FrameOf
  <2> QED
    BY <1>16, <2>2 DEF DynamicImport, fileVars
<1>17. CASE ClearModules
  BY <1>17 DEF ClearModules, fileVars, engineVars
<1>18. CASE FreeContext
  BY <1>18 DEF FreeContext, fileVars, engineVars
<1>19. CASE UNCHANGED vars
  BY <1>19 DEF vars, fileVars, engineVars
<1>20. CASE LinkThrows \/ LinkCrashes
  <2>1. stack # <<>> /\ TopBecomes("loaded") /\ stack' = <<>> /\ pc = "resolve" /\ life' = life
        /\ UNCHANGED <<disk, meta, mains>> /\ pc' \in {"abort", "crashed"} /\ exception' \in BOOLEAN
    BY <1>20 DEF LinkThrows, LinkCrashes, Links
  <2>2. FramesInv(stack')
    BY <2>1 DEF FramesInv
  <2> QED
    BY <2>1, <2>2, TopBecomesOne
<1>21. CASE InitCrashes
  <2>1. FramesInv(<<>>)
    BY DEF FramesInv
  <2> QED
    BY <1>21, <2>1 DEF InitCrashes, fileVars
<1> QED
  BY <1>1, <1>2, <1>3, <1>4, <1>5, <1>6, <1>7, <1>8, <1>9, <1>10, <1>11, <1>12, <1>13, <1>14,
     <1>15, <1>16, <1>17, <1>18, <1>19, <1>20, <1>21 DEF Next, Resolution, Evaluation

\* Each step keeps the native modules that were looked up, and initialised.
LEMMA KnownKeeps ==
  ASSUME ModulesInv, EngineInv, KnownInv, WantedInv, ModulesInv', ModulesGrow, [Next]_vars
  PROVE  KnownInv'
<1>1. \A n : (IsKnown(n) => IsKnown(n)') /\ (IsReady(n) => IsReady(n)')
  BY NamedStay DEF IsKnown, IsReady, DefGrows
<1>2. ASSUME UNCHANGED <<pc, stack>>, Finished' \subseteq Finished PROVE KnownInv'
  BY <1>1, <1>2 DEF KnownInv
<1>3. ASSUME UNCHANGED unit PROVE Finished' = Finished
  BY <1>3 DEF Finished
<1>4. /\ FramesInv(stack) /\ stack \in Seq(Frame) /\ unit \in [Files -> {"none", "resolving", "loaded", "evaluated", "failed"}]
  BY DEF EngineInv, FramesInv
<1>5. CASE NativeStep
  BY <1>2, <1>3, <1>5 DEF NativeStep, NewModule, AddExport, Declare, fileVars, engineVars
<1>6. CASE FindModule
  <2>1. PICK n \in Top.todo : Known(n) /\ stack' = Resolved(n)
    BY <1>6 DEF FindModule
  <2>2. n \in Natives => IsKnown(n)
    BY <2>1 DEF Known, IsKnown
  <2>3. stack # <<>> /\ pc = "resolve" /\ pc' = "resolve" /\ unit' = unit
    BY <1>6 DEF FindModule, EngineInv, fileVars
  <2>4. \A j \in 1..Len(stack') : \A m \in stack'[j].imports \cap Natives :
          m \in stack'[j].todo \/ IsKnown(m)
    BY <1>4, <2>1, <2>2, <2>3, ResolvedFrames DEF KnownInv
  <2> QED
    BY <1>1, <1>3, <2>3, <2>4 DEF KnownInv
<1>7. CASE LoadThrows \/ CompileThrows
  BY <1>1, <1>3, <1>7 DEF KnownInv, LoadThrows, CompileThrows, Aborts, fileVars
<1>8. CASE LoadBegins
  <2>1. PICK n \in Files : /\ unit' = [unit EXCEPT ![n] = "resolving"]
                           /\ stack' = Append(Resolved(n), FrameOf(n, Imports[n]))
    BY <1>8 DEF LoadBegins
  <2>2. stack # <<>> /\ pc = "resolve" /\ pc' = "resolve" /\ n \notin Natives
    BY <1>8, ModulesAssumption DEF LoadBegins, EngineInv
  <2>3. Finished' \subseteq Finished
    BY <1>4, <2>1 DEF Finished
  <2>4. ASSUME NEW j \in 1..Len(stack'), NEW m \in stack'[j].imports \cap Natives
        PROVE  m \in stack'[j].todo \/ IsKnown(m)
    <3>1. CASE j \in 1..Len(stack)
      <4>1. stack'[j] = Resolved(n)[j]
        BY <1>4, <2>1, <2>2, <3>1, PushedFrames
      <4> QED
        BY <1>4, <2>2, <3>1, <4>1, ResolvedFrames DEF KnownInv
    <3>2. CASE j = Len(stack) + 1
      BY <1>4, <2>1, <2>2, <3>2, PushedFrames DEF FrameOf
    <3>3. Len(stack') = Len(stack) + 1 /\ Len(stack) \in Nat
      BY <1>4, <2>1, <2>2, PushedFrames
    <3> QED
      BY <3>1, <3>2, <3>3
  <2> QED
    BY <1>1, <2>2, <2>3, <2>4 DEF KnownInv
<1>9. CASE LoadReturns
  <2>1. stack # <<>> /\ TopBecomes("loaded") /\ stack' = Below /\ pc = "resolve" /\ pc' = "resolve"
        /\ Top.todo = {}
    BY <1>9 DEF LoadReturns
  <2>2. \A n \in Top.imports \cap Natives : IsKnown(n)
    BY <1>4, <2>1, BelowFrames DEF KnownInv
  <2>3. ASSUME NEW f \in Finished' PROVE \A n \in Imports[f] \cap Natives : IsKnown(n)
    BY <1>4, <2>1, <2>2, TopBecomesOne DEF KnownInv, FramesInv, Finished
  <2>4. \A j \in 1..Len(stack') : \A m \in stack'[j].imports \cap Natives :
          m \in stack'[j].todo \/ IsKnown(m)
    BY <1>4, <2>1, BelowFrames DEF KnownInv
  <2> QED
    BY <1>1, <2>1, <2>3, <2>4 DEF KnownInv
<1>10. CASE LoadAborts
  <2>1. stack # <<>> /\ TopBecomes("none") /\ pc' = "abort"
    BY <1>10 DEF LoadAborts
  <2>2. Finished' \subseteq Finished
    BY <2>1, TopBecomesOne DEF Finished
  <2> QED
    BY <1>1, <2>1, <2>2 DEF KnownInv
<1>11. CASE ExceptionTaken
  BY <1>1, <1>3, <1>11 DEF KnownInv, ExceptionTaken, fileVars
<1>12. CASE EvaluationBegins
  <2>1. /\ stack # <<>> /\ Top = stack[1] /\ TopBecomes("loaded") /\ Top.todo = {} /\ Len(stack) = 1
        /\ stack' = <<[Top EXCEPT !.todo = Top.imports]>> /\ pc = "resolve" /\ pc' = "evaluate"
    BY <1>12 DEF EvaluationBegins, Links, Top
  <2>2. \A n \in Top.imports \cap Natives : IsKnown(n)
    BY <2>1 DEF KnownInv
  <2>3. ASSUME NEW f \in Finished' PROVE \A n \in Imports[f] \cap Natives : IsKnown(n)
    BY <1>4, <2>1, <2>2, TopBecomesOne DEF KnownInv, FramesInv, Finished
  <2>4. Len(stack') = 1 /\ stack'[1].imports = Top.imports /\ stack'[1].todo = Top.imports
    <3> DEFINE x == [Top EXCEPT !.todo = Top.imports]
    <3>1. Top \in Frame
      BY <1>4, <2>1, BelowFrames
    <3>2. x.imports = Top.imports /\ x.todo = Top.imports
      BY <3>1 DEF Frame
    <3> HIDE DEF x
    <3>3. stack' = <<x>>
      BY <2>1 DEF x
    <3> QED
      BY <3>2, <3>3
  <2> QED
    BY <1>1, <2>1, <2>2, <2>3, <2>4 DEF KnownInv
<1>13. CASE NativeImported
  <2>1. stack # <<>> /\ pc = "evaluate" /\ pc' = "evaluate" /\ unit' = unit /\ life = "ready" /\ life' = life
    BY <1>13 DEF NativeImported, fileVars, EngineInv
  <2>2. PICK n \in Top.todo \cap Natives :
          /\ IF defs[FirstNamed(n)].ready THEN UNCHANGED moduleVars ELSE InitModule(FirstNamed(n))
          /\ stack' = Resolved(n)
    BY <1>13 DEF NativeImported
  <2>3. Top = stack[Len(stack)] /\ Len(stack) \in 1..Len(stack) /\ n \in Top.imports
    BY <1>4, <2>1, <2>2, ResolvedFrames DEF FramesInv
  <2>4. IsKnown(n)
    BY <2>1, <2>2, <2>3 DEF KnownInv
  <2>5. IsReady(n)'
    <3>1. CASE defs[FirstNamed(n)].ready
      BY <1>1, <2>4, <3>1 DEF IsReady, IsKnown
    <3>2. CASE ~defs[FirstNamed(n)].ready
      <4>1. FirstNamed(n) \in 1..Len(modules) /\ defs[FirstNamed(n)].linked
        BY <2>1, <2>2, <2>3, <2>4, FirstIsNamed DEF IsKnown, WantedInv, Covers, IsLinked
      <4>2. defs'[FirstNamed(n)].ready
        BY <2>1, <2>2, <3>2, <4>1, InitModuleKeeps
      <4> QED
        BY <2>4, <4>2, NamedStay DEF IsKnown, IsReady
    <3> QED
      BY <3>1, <3>2
  <2>6. ASSUME NEW j \in 1..Len(stack'), NEW m \in stack'[j].imports \cap Natives
        PROVE  IsKnown(m)' /\ (m \in stack'[j].todo \/ IsReady(m)')
    <3>1. /\ j \in 1..Len(stack) /\ stack'[j].imports = stack[j].imports
          /\ m \in stack[j].todo => m = n \/ m \in stack'[j].todo
      BY <1>4, <2>1, <2>2, ResolvedFrames
    <3> QED
      BY <1>1, <2>1, <2>5, <3>1 DEF KnownInv
  <2> QED
    BY <1>1, <1>3, <2>1, <2>6 DEF KnownInv
<1>14. CASE FileImported
  <2>1. stack # <<>> /\ pc = "evaluate" /\ pc' = "evaluate" /\ unit' = unit
    BY <1>14 DEF FileImported, fileVars
  <2>2. PICK n \in Top.todo \cap Files :
          \/ stack' = Resolved(n)
          \/ unit[n] = "loaded" /\ stack' = Append(Resolved(n), FrameOf(n, Imports[n]))
    BY <1>14 DEF FileImported
  <2>3. n \notin Natives
    BY ModulesAssumption
  <2>4. ASSUME NEW j \in 1..Len(stack), NEW m \in Resolved(n)[j].imports \cap Natives
        PROVE  IsKnown(m) /\ (m \in Resolved(n)[j].todo \/ IsReady(m))
    BY <1>4, <2>1, <2>3, ResolvedFrames DEF KnownInv
  <2>5. CASE stack' = Resolved(n)
    <3>1. Len(stack') = Len(stack)
      BY <1>4, <2>1, <2>5, ResolvedFrames
    <3> QED
      BY <1>1, <1>3, <2>1, <2>4, <2>5, <3>1 DEF KnownInv
  <2>6. CASE unit[n] = "loaded" /\ stack' = Append(Resolved(n), FrameOf(n, Imports[n]))
    <3>1. \A m \in Imports[n] \cap Natives : IsKnown(m)
      BY <2>6 DEF KnownInv, Finished
    <3>2. /\ Len(stack') = Len(stack) + 1 /\ stack'[Len(stack) + 1] = FrameOf(n, Imports[n])
          /\ \A j \in 1..Len(stack) : stack'[j] = Resolved(n)[j]
      BY <1>4, <2>1, <2>6, PushedFrames
    <3>3. ASSUME NEW j \in 1..Len(stack'), NEW m \in stack'[j].imports \cap Natives
          PROVE  IsKnown(m) /\ (m \in stack'[j].todo \/ IsReady(m))
      <4>1. CASE j \in 1..Len(stack)
        BY <2>4, <3>2, <4>1
      <4>2. CASE j = Len(stack) + 1
        BY <3>1, <3>2, <4>2 DEF FrameOf
      <4>3. Len(stack) \in Nat
        BY <1>4
      <4> QED
        BY <3>2, <4>1, <4>2, <4>3
    <3> QED
      BY <1>1, <1>3, <2>1, <3>3 DEF KnownInv
  <2> QED
    BY <2>2, <2>5, <2>6
<1>15. CASE BodyReturns
  <2>1. stack # <<>> /\ TopBecomes("evaluated") /\ stack' = Below /\ pc = "evaluate" /\ pc' = "evaluate"
    BY <1>15 DEF BodyReturns
  <2>2. \A n \in Top.imports \cap Natives : IsKnown(n)
    BY <1>4, <2>1, BelowFrames DEF KnownInv
  <2>3. ASSUME NEW f \in Finished' PROVE \A n \in Imports[f] \cap Natives : IsKnown(n)
    BY <1>4, <2>1, <2>2, TopBecomesOne DEF KnownInv, FramesInv, Finished
  <2>4. \A j \in 1..Len(stack') : \A m \in stack'[j].imports \cap Natives :
          IsKnown(m) /\ (m \in stack'[j].todo \/ IsReady(m))
    BY <1>4, <2>1, BelowFrames DEF KnownInv
  <2> QED
    BY <1>1, <2>1, <2>3, <2>4 DEF KnownInv
<1>16. CASE EvaluationThrows
  <2>1. /\ pc = "evaluate" /\ pc' = "evaluate" /\ stack' = <<>>
        /\ unit' = [f \in Files |-> IF \E i \in 1..Len(stack) : stack[i].unit = f
                                   THEN "failed" ELSE unit[f]]
    BY <1>16 DEF EvaluationThrows
  <2>2. ASSUME NEW f \in Finished' PROVE \A n \in Imports[f] \cap Natives : IsKnown(n)
    BY <1>4, <2>1 DEF KnownInv, FramesInv, Finished
  <2> QED
    BY <1>1, <2>1, <2>2 DEF KnownInv
<1>17. CASE EvaluationEnds
  BY <1>1, <1>3, <1>17 DEF KnownInv, EvaluationEnds, fileVars
<1>18. ASSUME NEW f \in Files, EvalFile(f) PROVE KnownInv'
  <2>1. Finished' \subseteq Finished
    BY <1>4, <1>18 DEF EvalFile, Finished
  <2>2. pc' = "resolve" /\ Len(stack') = 1 /\ stack'[1].imports = stack'[1].todo
    BY <1>18 DEF EvalFile, FrameOf
  <2> QED
    BY <1>1, <2>1, <2>2 DEF KnownInv
<1>19. ASSUME NEW f \in Files, DiskChanges(f) PROVE KnownInv'
  BY <1>2, <1>3, <1>19 DEF DiskChanges, fileVars, engineVars
<1>20. ASSUME NEW n \in Files \cup Natives, DynamicImport(n) PROVE KnownInv'
  <2>1. Finished' \subseteq Finished
    BY <1>3, <1>20 DEF DynamicImport, fileVars
  <2>2. pc' = "resolve" /\ Len(stack') = 1 /\ stack'[1].imports = stack'[1].todo
    BY <1>20 DEF DynamicImport, FrameOf
  <2> QED
    BY <1>1, <2>1, <2>2 DEF KnownInv
<1>21. CASE ClearModules \/ FreeContext \/ UNCHANGED vars
  BY <1>2, <1>3, <1>21 DEF ClearModules, FreeContext, vars, fileVars, engineVars
<1>22. CASE LinkThrows \/ LinkCrashes
  <2>1. /\ stack # <<>> /\ Top = stack[1] /\ TopBecomes("loaded") /\ Top.todo = {} /\ Len(stack) = 1
        /\ pc = "resolve" /\ pc' \in {"abort", "crashed"}
    BY <1>22 DEF LinkThrows, LinkCrashes, Links, Top
  <2>2. \A n \in Top.imports \cap Natives : IsKnown(n)
    BY <2>1 DEF KnownInv
  <2>3. ASSUME NEW f \in Finished' PROVE \A n \in Imports[f] \cap Natives : IsKnown(n)
    BY <1>4, <2>1, <2>2, TopBecomesOne DEF KnownInv, FramesInv, Finished
  <2> QED
    BY <1>1, <2>1, <2>3 DEF KnownInv
<1>23. CASE InitCrashes
  BY <1>1, <1>3, <1>23 DEF KnownInv, InitCrashes, fileVars
<1> QED
  BY <1>5, <1>6, <1>7, <1>8, <1>9, <1>10, <1>11, <1>12, <1>13, <1>14, <1>15, <1>16, <1>17, <1>18,
     <1>19, <1>20, <1>21, <1>22, <1>23 DEF Next, Resolution, Evaluation

\* What the module asked for imports is in its graph, and so is what these import.
LEMMA GraphClosed ==
  ASSUME Top \in Frame
  PROVE  Top.imports \subseteq InGraph /\ \A f \in InGraph \cap Files : Imports[f] \subseteq InGraph
<1>1. Top.imports \subseteq Files \cup Natives
  BY DEF Frame
<1>2. \A f \in Files : Imports[f] \subseteq Files \cup Natives
  BY ModulesAssumption
<1> QED
  BY <1>1, <1>2 DEF InGraph

\* Each step keeps the modules at work in a graph that is linked.
LEMMA WantedKeeps ==
  ASSUME ModulesInv, EngineInv, KnownInv, WantedInv, ModulesInv', KnownInv', ModulesGrow, [Next]_vars
  PROVE  WantedInv'
<1> SUFFICES ASSUME pc' = "evaluate"
             PROVE  \E G \in SUBSET Files : (Supplied(G) /\ Covers(G, stack))'
  BY DEF WantedInv
<1>1. /\ \A n : IsLinked(n) => IsLinked(n)'
      /\ \A w : HasVariable(w) => HasVariable(w)'
  BY NamedStay DEF IsLinked, HasVariable, DefGrows
<1>2. /\ FramesInv(stack) /\ stack \in Seq(Frame)
      /\ unit \in [Files -> {"none", "resolving", "loaded", "evaluated", "failed"}]
  BY DEF EngineInv, FramesInv
<1>3. CASE pc # "evaluate"
  <2>1. EvaluationBegins
    BY <1>3 DEF Next, Resolution, Evaluation, NativeStep, NewModule, AddExport, FindModule, LoadThrows,
      CompileThrows, Aborts, LoadBegins, LoadReturns, LoadAborts, ExceptionTaken, LinkThrows,
      LinkCrashes, NativeImported, InitCrashes, FileImported, BodyReturns, EvaluationThrows,
      EvaluationEnds, EvalFile, DiskChanges, DynamicImport, ClearModules, FreeContext, vars, engineVars
  <2>2. /\ stack # <<>> /\ Top = stack[1] /\ TopBecomes("loaded") /\ Top.todo = {} /\ Len(stack) = 1
        /\ stack' = <<[Top EXCEPT !.todo = Top.imports]>> /\ pc = "resolve" /\ modules' = modules
        /\ Wanted \subseteq Slots
    BY <2>1 DEF EvaluationBegins, Links, Top
  <2>3. Top \in Frame /\ Top.unit \in Files \cup {Script}
    BY <1>2, <2>2, BelowFrames DEF Frame
  <2> PICK G \in SUBSET Files : G = (InGraph \cup {Top.unit}) \cap Files
    OBVIOUS
  <2>4. Len(stack') = 1 /\ stack'[1].unit = Top.unit /\ stack'[1].imports = Top.imports
    <3> DEFINE x == [Top EXCEPT !.todo = Top.imports]
    <3>1. x.unit = Top.unit /\ x.imports = Top.imports
      BY <2>3 DEF Frame
    <3> HIDE DEF x
    <3>2. stack' = <<x>>
      BY <2>2 DEF x
    <3> QED
      BY <3>1, <3>2
  <2>5. \A n : Named(n)' = Named(n) /\ FirstNamed(n)' = FirstNamed(n)
    BY <2>2 DEF Named, FirstNamed
  <2>6. ASSUME NEW n \in InGraph \cap Natives, IsKnown(n) PROVE IsLinked(n)'
    <3>1. FirstNamed(n) \in 1..Len(modules) /\ modules[FirstNamed(n)].name = n
      BY <2>6, FirstIsNamed DEF IsKnown
    <3>2. defs'[FirstNamed(n)] = WithVariables(FirstNamed(n)) /\ defs[FirstNamed(n)] \in Def
      BY <2>1, <3>1, LinksKeep, OneModule DEF EvaluationBegins
    <3>3. WithVariables(FirstNamed(n)).linked
      BY <2>6, <3>1, <3>2 DEF WithVariables, Def
    <3> QED
      BY <2>5, <2>6, <3>2, <3>3 DEF IsLinked, IsKnown
  <2>7. ASSUME NEW f \in G, NEW w \in Needs[f] PROVE HasVariable(w)'
    <3>1. w \in Slots
      BY <2>2, <2>7 DEF Wanted
    <3>2. Named(w[1]) # {} /\ w[2] \in WithVariables(FirstNamed(w[1])).slots
      BY <3>1 DEF Slots
    <3>3. defs'[FirstNamed(w[1])] = WithVariables(FirstNamed(w[1]))
      BY <2>1, <3>2, FirstIsNamed, LinksKeep DEF EvaluationBegins
    <3> QED
      BY <2>5, <3>2, <3>3 DEF HasVariable
  <2>8. \A f \in G : Imports[f] \subseteq InGraph
    BY <1>2, <2>2, <2>3, GraphClosed DEF FramesInv
  <2>9. ASSUME NEW f \in G, f \in Finished', NEW n \in Imports[f] \cap Natives PROVE IsLinked(n)'
    <3>1. IsKnown(n)
      BY <2>5, <2>9 DEF KnownInv, IsKnown
    <3> QED
      BY <2>6, <2>8, <3>1
  <2>10. Supplied(G)'
    BY <2>7, <2>8, <2>9 DEF Supplied
  <2>11. Covers(G, stack)'
    <3>1. \A n \in Top.imports \cap Natives : IsKnown(n)
      BY <2>2 DEF KnownInv
    <3> QED
      BY <2>2, <2>3, <2>4, <2>6, <3>1, GraphClosed DEF Covers
  <2> QED
    BY <2>10, <2>11
<1>4. CASE pc = "evaluate"
  <2>1. PICK G \in SUBSET Files : Supplied(G) /\ Covers(G, stack)
    BY <1>4 DEF WantedInv
  <2>2. ASSUME \A f \in G : f \in Finished' =>
                 \/ f \in Finished
                 \/ \E j \in 1..Len(stack) : stack[j].unit = f
        PROVE  Supplied(G)'
    <3>1. \A j \in 1..Len(stack) : stack[j].unit \in Files => stack[j].imports = Imports[stack[j].unit]
      BY <1>2 DEF FramesInv
    <3> QED
      BY <1>1, <2>1, <2>2, <3>1 DEF Supplied, Covers
  <2>3. ASSUME \A j \in 1..Len(stack') :
                 \/ j \in 1..Len(stack) /\ stack'[j].unit = stack[j].unit
                    /\ stack'[j].imports = stack[j].imports
                 \/ stack'[j].unit \in G \cap Finished /\ stack'[j].imports = Imports[stack'[j].unit]
        PROVE  Covers(G, stack)'
    BY <1>1, <2>1, <2>3 DEF Covers, Supplied
  <2>4. CASE NativeStep \/ UNCHANGED vars
    <3>1. stack' = stack /\ unit' = unit
      BY <2>4 DEF NativeStep, NewModule, AddExport, vars, fileVars, engineVars
    <3>2. Finished' = Finished
      BY <3>1 DEF Finished
    <3> QED
      BY <2>2, <2>3, <3>1, <3>2
  <2>5. CASE NativeImported
    <3>1. PICK n : stack # <<>> /\ stack' = Resolved(n) /\ unit' = unit
      BY <2>5 DEF NativeImported, fileVars
    <3>2. Finished' = Finished
      BY <3>1 DEF Finished
    <3>3. Covers(G, stack)'
      BY <1>2, <2>3, <3>1, ResolvedFrames
    <3> QED
      BY <2>2, <3>2, <3>3
  <2>6. CASE FileImported
    <3>1. PICK n \in Top.todo \cap Files :
            \/ stack' = Resolved(n)
            \/ unit[n] = "loaded" /\ stack' = Append(Resolved(n), FrameOf(n, Imports[n]))
      BY <2>6 DEF FileImported
    <3>2. stack # <<>> /\ unit' = unit
      BY <2>6 DEF FileImported, fileVars
    <3>3. Finished' = Finished
      BY <3>2 DEF Finished
    <3>4. n \in G
      <4>1. Top = stack[Len(stack)] /\ Len(stack) \in 1..Len(stack) /\ n \in Top.imports
        BY <1>2, <3>1, <3>2, BelowFrames DEF FramesInv
      <4> QED
        BY <2>1, <4>1 DEF Covers
    <3>5. CASE stack' = Resolved(n)
      <4>1. Covers(G, stack)'
        BY <1>2, <2>3, <3>2, <3>5, ResolvedFrames
      <4> QED
        BY <2>2, <3>3, <4>1
    <3>6. CASE unit[n] = "loaded" /\ stack' = Append(Resolved(n), FrameOf(n, Imports[n]))
      <4>1. /\ Len(stack') = Len(stack) + 1 /\ stack'[Len(stack) + 1] = FrameOf(n, Imports[n])
            /\ \A j \in 1..Len(stack) : stack'[j] = Resolved(n)[j]
        BY <1>2, <3>2, <3>6, PushedFrames
      <4>2. \A j \in 1..Len(stack') : j \in 1..Len(stack) \/ j = Len(stack) + 1
        BY <1>2, <4>1
      <4>3. n \in Finished
        BY <3>6 DEF Finished
      <4>4. \A j \in 1..Len(stack) : /\ stack'[j].unit = stack[j].unit
                                    /\ stack'[j].imports = stack[j].imports
        BY <1>2, <3>2, <4>1, ResolvedFrames
      <4>5. Covers(G, stack)'
        BY <2>3, <3>4, <4>1, <4>2, <4>3, <4>4 DEF FrameOf
      <4> QED
        BY <2>2, <3>3, <4>5
    <3> QED
      BY <3>1, <3>5, <3>6
  <2>7. CASE BodyReturns
    <3>1. stack # <<>> /\ TopBecomes("evaluated") /\ stack' = Below
      BY <2>7 DEF BodyReturns
    <3>2. \A f \in Finished' :
            f \in Finished \/ (f = stack[Len(stack)].unit /\ Len(stack) \in 1..Len(stack))
      BY <3>1, TopBecomesOne DEF Finished
    <3>3. Covers(G, stack)'
      BY <1>2, <2>3, <3>1, BelowFrames
    <3> QED
      BY <2>2, <3>2, <3>3
  <2>8. CASE EvaluationThrows
    <3>1. /\ stack' = <<>> /\ Len(stack') = 0
          /\ unit' = [f \in Files |-> IF \E i \in 1..Len(stack) : stack[i].unit = f
                                     THEN "failed" ELSE unit[f]]
      BY <2>8 DEF EvaluationThrows
    <3>2. \A f \in Finished' : f \in Finished \/ \E j \in 1..Len(stack) : stack[j].unit = f
      BY <3>1 DEF Finished
    <3>3. Covers(G, stack)'
      BY <2>3, <3>1
    <3> QED
      BY <2>2, <3>2, <3>3
  <2> QED
    BY <1>4, <2>4, <2>5, <2>6, <2>7, <2>8 DEF EngineInv, Next, Resolution, Evaluation, FindModule, LoadThrows,
      CompileThrows, LoadBegins, LoadReturns, LoadAborts, ExceptionTaken, LinkThrows, LinkCrashes,
      EvaluationBegins, Links, InitCrashes, EvaluationEnds, EvalFile, DiskChanges, DynamicImport,
      ClearModules, FreeContext, engineVars
<1> QED
  BY <1>3, <1>4

\* Each step finishes only files with import.meta, or those given to evalFile.
LEMMA MetaKeeps ==
  ASSUME EngineInv, MetaInv, [Next]_vars
  PROVE  MetaInv'
<1>1. ASSUME UNCHANGED unit PROVE Finished' = Finished
  BY <1>1 DEF Finished
<1>2. ASSUME UNCHANGED <<fileVars, pc, stack>> PROVE MetaInv'
  BY <1>1, <1>2 DEF MetaInv, fileVars
<1>3. FramesInv(stack) /\ stack \in Seq(Frame)
      /\ unit \in [Files -> {"none", "resolving", "loaded", "evaluated", "failed"}]
  BY DEF EngineInv, FramesInv
<1>4. CASE NativeStep
  BY <1>2, <1>4 DEF NativeStep, NewModule, AddExport, Declare, engineVars
<1>5. CASE FindModule
  <2>1. PICK n \in Top.todo : stack' = Resolved(n)
    BY <1>5 DEF FindModule
  <2>2. stack # <<>> /\ pc = "resolve" /\ pc' = "resolve" /\ UNCHANGED <<unit, meta, mains>>
    BY <1>5 DEF FindModule, EngineInv, fileVars
  <2>3. stack'[1].unit = stack[1].unit
    BY <1>3, <2>1, <2>2, ResolvedFrames
  <2> QED
    BY <1>1, <2>2, <2>3 DEF MetaInv
<1>6. CASE LoadThrows \/ CompileThrows
  BY <1>1, <1>6 DEF MetaInv, LoadThrows, CompileThrows, Aborts, fileVars
<1>7. CASE LoadBegins
  <2>1. PICK n \in Files : /\ unit' = [unit EXCEPT ![n] = "resolving"]
                           /\ stack' = Append(Resolved(n), FrameOf(n, Imports[n]))
    BY <1>7 DEF LoadBegins
  <2>2. stack # <<>> /\ pc = "resolve" /\ pc' = "resolve" /\ UNCHANGED <<meta, mains>>
    BY <1>7 DEF LoadBegins, EngineInv
  <2>3. Finished' \subseteq Finished
    BY <1>3, <2>1 DEF Finished
  <2>4. stack'[1].unit = stack[1].unit
    BY <1>3, <2>1, <2>2, PushedFrames, ResolvedFrames
  <2> QED
    BY <2>2, <2>3, <2>4 DEF MetaInv
<1>8. CASE LoadReturns
  <2>1. /\ stack # <<>> /\ TopBecomes("loaded") /\ stack' = Below /\ pc = "resolve" /\ pc' = "resolve"
        /\ meta' = meta \cup {Top.unit} /\ UNCHANGED mains /\ Len(stack) > 1
    BY <1>8 DEF LoadReturns
  <2>2. Finished' \subseteq meta' \cup mains
    BY <2>1, TopBecomesOne DEF MetaInv, Finished
  <2>3. stack'[1] = stack[1]
    BY <1>3, <2>1, BelowFrames
  <2> QED
    BY <2>1, <2>2, <2>3 DEF MetaInv
<1>9. CASE LoadAborts
  <2>1. stack # <<>> /\ TopBecomes("none") /\ pc' = "abort" /\ UNCHANGED <<meta, mains>>
    BY <1>9 DEF LoadAborts
  <2>2. Finished' \subseteq Finished
    BY <2>1, TopBecomesOne DEF Finished
  <2> QED
    BY <2>1, <2>2 DEF MetaInv
<1>10. CASE ExceptionTaken \/ EvaluationEnds
  BY <1>1, <1>10 DEF MetaInv, ExceptionTaken, EvaluationEnds, fileVars
<1>11. CASE EvaluationBegins
  <2>1. /\ stack # <<>> /\ Top = stack[1] /\ TopBecomes("loaded") /\ UNCHANGED <<meta, mains>>
        /\ stack' = <<[Top EXCEPT !.todo = Top.imports]>> /\ pc = "resolve" /\ pc' = "evaluate"
    BY <1>11 DEF EvaluationBegins, Links, Top
  <2>2. Top.unit \in mains \cup {Script} /\ Finished' \subseteq meta \cup mains
    BY <2>1, TopBecomesOne, ModulesAssumption DEF MetaInv, Finished
  <2>3. Len(stack') = 1 /\ stack'[1].unit = Top.unit
    <3> DEFINE x == [Top EXCEPT !.todo = Top.imports]
    <3>1. Top \in Frame
      BY <1>3, <2>1, BelowFrames
    <3>2. x.unit = Top.unit
      BY <3>1 DEF Frame
    <3> HIDE DEF x
    <3>3. stack' = <<x>>
      BY <2>1 DEF x
    <3> QED
      BY <3>2, <3>3
  <2> QED
    BY <2>1, <2>2, <2>3 DEF MetaInv
<1>12. CASE NativeImported
  <2>1. PICK n \in Top.todo : stack' = Resolved(n)
    BY <1>12 DEF NativeImported
  <2>2. stack # <<>> /\ pc = "evaluate" /\ pc' = "evaluate" /\ UNCHANGED <<unit, meta, mains>>
    BY <1>12 DEF NativeImported, fileVars
  <2>3. Len(stack') = Len(stack) /\ \A j \in 1..Len(stack) : stack'[j].unit = stack[j].unit
    BY <1>3, <2>1, <2>2, ResolvedFrames
  <2> QED
    BY <1>1, <2>2, <2>3 DEF MetaInv
<1>13. CASE FileImported
  <2>1. stack # <<>> /\ pc = "evaluate" /\ pc' = "evaluate" /\ UNCHANGED <<unit, meta, mains>>
    BY <1>13 DEF FileImported, fileVars
  <2>2. PICK n \in Top.todo \cap Files :
          \/ stack' = Resolved(n)
          \/ unit[n] = "loaded" /\ stack' = Append(Resolved(n), FrameOf(n, Imports[n]))
    BY <1>13 DEF FileImported
  <2>3. \A j \in 1..Len(stack) : Resolved(n)[j].unit = stack[j].unit
    BY <1>3, <2>1, ResolvedFrames
  <2>4. CASE stack' = Resolved(n)
    <3>1. Len(stack') = Len(stack)
      BY <1>3, <2>1, <2>4, ResolvedFrames
    <3> QED
      BY <1>1, <2>1, <2>3, <2>4, <3>1 DEF MetaInv
  <2>5. CASE unit[n] = "loaded" /\ stack' = Append(Resolved(n), FrameOf(n, Imports[n]))
    <3>1. n \in meta \cup mains
      BY <2>5 DEF MetaInv, Finished
    <3>2. /\ Len(stack') = Len(stack) + 1 /\ stack'[Len(stack) + 1].unit = n
          /\ \A j \in 1..Len(stack) : stack'[j] = Resolved(n)[j]
      BY <1>3, <2>1, <2>5, PushedFrames DEF FrameOf
    <3>3. ASSUME NEW j \in 1..Len(stack') PROVE stack'[j].unit \in meta \cup mains \cup {Script}
      <4>1. CASE j \in 1..Len(stack)
        BY <2>1, <2>3, <3>2, <4>1 DEF MetaInv
      <4>2. CASE j = Len(stack) + 1
        BY <3>1, <3>2, <4>2
      <4>3. Len(stack) \in Nat
        BY <1>3
      <4> QED
        BY <3>2, <4>1, <4>2, <4>3
    <3> QED
      BY <1>1, <2>1, <3>3 DEF MetaInv
  <2> QED
    BY <2>2, <2>4, <2>5
<1>14. CASE BodyReturns
  <2>1. stack # <<>> /\ TopBecomes("evaluated") /\ stack' = Below /\ pc = "evaluate" /\ pc' = "evaluate"
        /\ UNCHANGED <<meta, mains>>
    BY <1>14 DEF BodyReturns
  <2>2. Top.unit \in meta \cup mains \cup {Script}
    BY <1>3, <2>1, BelowFrames DEF MetaInv
  <2>3. Finished' \subseteq meta \cup mains
    BY <2>1, <2>2, TopBecomesOne, ModulesAssumption DEF MetaInv, Finished
  <2>4. \A j \in 1..Len(stack') : stack'[j].unit \in meta \cup mains \cup {Script}
    BY <1>3, <2>1, BelowFrames DEF MetaInv
  <2> QED
    BY <2>1, <2>3, <2>4 DEF MetaInv
<1>15. CASE EvaluationThrows
  <2>1. /\ pc = "evaluate" /\ pc' = "evaluate" /\ stack' = <<>> /\ UNCHANGED <<meta, mains>>
        /\ unit' = [f \in Files |-> IF \E i \in 1..Len(stack) : stack[i].unit = f
                                   THEN "failed" ELSE unit[f]]
    BY <1>15 DEF EvaluationThrows
  <2>2. ASSUME NEW f \in Finished' PROVE f \in meta \cup mains
    BY <1>3, <2>1, ModulesAssumption DEF MetaInv, Finished
  <2> QED
    BY <2>1, <2>2 DEF MetaInv
<1>16. ASSUME NEW f \in Files, EvalFile(f) PROVE MetaInv'
  <2>1. Finished' \subseteq Finished
    BY <1>3, <1>16 DEF EvalFile, Finished
  <2>2. pc' = "resolve" /\ stack'[1].unit = f /\ mains' = mains \cup {f} /\ meta' = meta
    BY <1>16 DEF EvalFile, FrameOf
  <2> QED
    BY <2>1, <2>2 DEF MetaInv
<1>17. ASSUME NEW n \in Files \cup Natives, DynamicImport(n) PROVE MetaInv'
  <2>1. Finished' = Finished
    BY <1>1, <1>17 DEF DynamicImport, fileVars
  <2>2. pc' = "resolve" /\ stack'[1].unit = Script /\ UNCHANGED <<meta, mains>>
    BY <1>17 DEF DynamicImport, FrameOf, fileVars
  <2> QED
    BY <2>1, <2>2 DEF MetaInv
<1>18. CASE (\E f \in Files : DiskChanges(f)) \/ ClearModules \/ FreeContext \/ UNCHANGED vars
  BY <1>2, <1>18 DEF DiskChanges, ClearModules, FreeContext, vars, engineVars
<1>19. CASE LinkThrows \/ LinkCrashes
  <2>1. /\ stack # <<>> /\ Top = stack[1] /\ TopBecomes("loaded") /\ UNCHANGED <<meta, mains>>
        /\ pc = "resolve" /\ pc' \in {"abort", "crashed"}
    BY <1>19 DEF LinkThrows, LinkCrashes, Links, Top
  <2>2. Top.unit \in mains \cup {Script} /\ Finished' \subseteq meta \cup mains
    BY <2>1, TopBecomesOne, ModulesAssumption DEF MetaInv, Finished
  <2> QED
    BY <2>1, <2>2 DEF MetaInv
<1>20. CASE InitCrashes
  BY <1>1, <1>20 DEF MetaInv, InitCrashes, fileVars
<1> QED
  BY <1>4, <1>5, <1>6, <1>7, <1>8, <1>9, <1>10, <1>11, <1>12, <1>13, <1>14, <1>15, <1>16, <1>17,
     <1>18, <1>19, <1>20 DEF Next, Resolution, Evaluation

\* Each step that aborts has an exception, and only taking it ends the abort.
LEMMA FailureKeeps ==
  ASSUME FailureReported, [Next]_vars
  PROVE  FailureReported'
<1> USE DEF FailureReported
<1>1. CASE NativeStep
  BY <1>1 DEF NativeStep, NewModule, AddExport, Declare, Native, engineVars
<1>2. CASE Resolution
  BY <1>2 DEF Resolution, FindModule, LoadThrows, CompileThrows, LoadBegins, LoadReturns,
    LoadAborts, ExceptionTaken, Aborts
<1>3. CASE Evaluation
  BY <1>3 DEF Evaluation, LinkThrows, LinkCrashes, Links, EvaluationBegins, NativeImported,
    InitCrashes, FileImported, BodyReturns, EvaluationThrows, EvaluationEnds
<1>4. CASE \E f \in Files : EvalFile(f) \/ DiskChanges(f)
  BY <1>4 DEF EvalFile, DiskChanges, engineVars
<1>5. CASE \E n \in Files \cup Natives : DynamicImport(n)
  BY <1>5 DEF DynamicImport
<1>6. CASE ClearModules \/ FreeContext \/ UNCHANGED vars
  BY <1>6 DEF ClearModules, FreeContext, vars, engineVars
<1> QED
  BY <1>1, <1>2, <1>3, <1>4, <1>5, <1>6 DEF Next

-------------------------------------------------------------------------------
(* Theorems.                                                                 *)

\* The invariant is inductive: it holds at first and each step keeps it.
THEOREM Inductive == Spec => []IndInv
<1>1. Init => IndInv
  <2> SUFFICES ASSUME Init PROVE IndInv
    OBVIOUS
  <2>1. Finished = {}
    BY DEF Init, Finished
  <2>2. ModulesInv
    BY DEF Init, ModulesInv
  <2>3. FramesInv(stack)
    BY DEF Init, FramesInv
  <2>4. EngineInv
    BY <2>3 DEF Init, EngineInv
  <2> QED
    BY <2>1, <2>2, <2>4 DEF Init, IndInv, KnownInv, WantedInv, MetaInv, FailureReported
<1>2. IndInv /\ [Next]_vars => IndInv'
  <2> SUFFICES ASSUME IndInv, [Next]_vars PROVE IndInv'
    OBVIOUS
  <2>1. ModulesInv' /\ ModulesGrow
    BY ModulesKeep DEF IndInv
  <2>2. KnownInv'
    BY <2>1, KnownKeeps DEF IndInv
  <2>3. WantedInv'
    BY <2>1, <2>2, WantedKeeps DEF IndInv
  <2> QED
    BY <2>1, <2>2, <2>3, EngineKeeps, MetaKeeps, FailureKeeps DEF IndInv
<1> QED
  BY <1>1, <1>2, PTL DEF Spec

\* The variables have their types: modules and their definitions in the engine are made together.
THEOREM TypeCorrect == Spec => []TypeOK
<1>1. IndInv => TypeOK
  BY DEF IndInv, ModulesInv, EngineInv, FramesInv, TypeOK
<1> QED
  BY <1>1, Inductive, PTL

\* Code that runs has what it imports by name from native modules, whatever is made, added
\* and imported around it.
THEOREM ExportsComeThrough == Spec => []ExportsArrive
<1>1. IndInv => ExportsArrive
  <2> SUFFICES ASSUME IndInv PROVE ExportsArrive
    OBVIOUS
  <2>1. ASSUME BodyRuns
        PROVE  /\ Top = stack[Len(stack)] /\ Len(stack) \in 1..Len(stack)
               /\ Top.todo = {} /\ pc = "evaluate" /\ life = "ready"
    BY <2>1, BelowFrames DEF IndInv, EngineInv, FramesInv, BodyRuns
  <2>2. ASSUME BodyRuns, NEW n \in Top.imports \cap Natives
        PROVE  Named(n) # {} /\ defs[FirstNamed(n)].ready
    BY <2>1, <2>2 DEF IndInv, KnownInv, IsKnown, IsReady
  <2>3. ASSUME BodyRuns, NEW w \in Needs[Top.unit]
        PROVE  defs[FirstNamed(w[1])].bound[w[2]] # 0
    <3>1. Top.unit \in Files /\ Imports[Top.unit] = Top.imports
      BY <2>1, <2>3 DEF BodyRuns, IndInv, EngineInv, FramesInv
    <3>2. w[1] \in Top.imports \cap Natives
      BY <2>3, <3>1, ModulesAssumption
    <3>3. FirstNamed(w[1]) \in 1..Len(modules) /\ defs[FirstNamed(w[1])].ready
      BY <2>2, <2>3, <3>2, FirstIsNamed
    <3>4. w[2] \in defs[FirstNamed(w[1])].slots
      <4>1. PICK G \in SUBSET Files : Supplied(G) /\ Covers(G, stack)
        BY <2>1, <2>3 DEF IndInv, WantedInv
      <4>2. Top.unit \in G
        BY <2>1, <2>3, <3>1, <4>1, ModulesAssumption DEF Covers
      <4> QED
        BY <2>3, <4>1, <4>2 DEF Supplied, HasVariable
    <3> QED
      BY <2>1, <2>3, <3>3, <3>4 DEF IndInv, ModulesInv, ModuleInv, VariablesInv
  <2>4. ASSUME life = "ready", NEW d \in 1..Len(defs), defs[d].ready, NEW k \in Keys
        PROVE  defs[d].bound[k] = LastOf(SubSeq(modules[d].exports, 1, defs[d].given), k)
    BY <2>4 DEF IndInv, ModulesInv, ModuleInv
  <2> QED
    BY <2>2, <2>3, <2>4 DEF ExportsArrive
<1> QED
  BY <1>1, Inductive, PTL

\* Each export has one owner, and is given back once.
THEOREM OneOwnerEach == Spec => []OwnedOnce
<1>1. IndInv => OwnedOnce
  BY DEF IndInv, ModulesInv, ModuleInv, OneOwner, OwnedOnce
<1> QED
  BY <1>1, Inductive, PTL

\* No code runs in a module that the loader has not finished.
THEOREM MetaComesFirst == Spec => []MetaBeforeRun
<1>1. IndInv => MetaBeforeRun
  BY DEF IndInv, MetaInv, Finished, MetaBeforeRun
<1> QED
  BY <1>1, Inductive, PTL

\* A module that cannot be had leaves an exception until the importer takes it.
THEOREM FailureIsReported == Spec => []FailureReported
<1>1. IndInv => FailureReported
  BY DEF IndInv
<1> QED
  BY <1>1, Inductive, PTL

-------------------------------------------------------------------------------
(* The modules as the program sees them.                                     *)

\* Each frame is that of an import of the one below.
Path(s) == \A j \in 1..Len(s) : j > 1 => s[j].unit \in s[j - 1].imports

\* The files at work, and no others, are being resolved, or wait to be evaluated.
AtWork == IF pc = "evaluate" THEN "loaded" ELSE "resolving"

PathInv ==
  /\ Path(stack)
  /\ pc = "idle" => stack = <<>>
  /\ \A j \in 1..Len(stack) : stack[j].unit \in Files => unit[stack[j].unit] = AtWork
  /\ \A f \in Files : unit[f] = "resolving" => \E j \in 1..Len(stack) : stack[j].unit = f

\* The frame above number j is that of n.
Above(s, j, n) == j + 1 \in 1..Len(s) /\ s[j + 1].unit = n

\* What a finished file imports is finished. What a file at work imports is finished,
\* and evaluated, when it was seen to, but for the one that is at work above.
LinkInv ==
  /\ \A f \in Finished : Imports[f] \cap Files \subseteq Finished
  /\ pc = "resolve" => \A j \in 1..Len(stack) : \A n \in stack[j].imports \cap Files :
       n \in stack[j].todo \/ n \in Finished \/ Above(stack, j, n)
  /\ pc = "evaluate" => \A j \in 1..Len(stack) : \A n \in stack[j].imports \cap Files :
       /\ n \in Finished
       /\ n \in stack[j].todo \/ unit[n] = "evaluated" \/ Above(stack, j, n)

\* Without cycles no frame imports what is at work at it or below.
LEMMA NoWayBack ==
  ASSUME NoCycles, FramesInv(stack), Path(stack), NEW k \in 1..Len(stack), NEW i \in 1..k,
         stack[i].unit \in Files
  PROVE  stack[i].unit \notin stack[k].imports
<1> SUFFICES ASSUME stack[i].unit \in stack[k].imports PROVE FALSE
  OBVIOUS
<1> DEFINE S == {stack[m].unit : m \in i..k}
<1>1. Len(stack) \in Nat /\ \A m \in i..k : m \in 1..Len(stack) /\ m \in Int
  BY DEF FramesInv
<1>2. \A m \in i..k : stack[m].unit \in Files /\ stack[m].imports = Imports[stack[m].unit]
  <2> SUFFICES ASSUME NEW m \in i..k PROVE stack[m].unit \in Files
    BY <1>1 DEF FramesInv
  <2>1. m = i \/ m > 1
    BY <1>1
  <2> QED
    BY <1>1, <2>1 DEF FramesInv
<1>3. ASSUME NEW f \in S PROVE Imports[f] \cap S # {}
  <2>1. PICK m \in i..k : f = stack[m].unit
    OBVIOUS
  <2>2. CASE m = k
    BY <1>1, <1>2, <2>1, <2>2
  <2>3. CASE m # k
    <3>1. m + 1 \in i..k /\ (m + 1) - 1 = m /\ m + 1 > 1
      BY <1>1, <2>3
    <3>2. stack[m + 1].unit \in stack[m].imports
      BY <1>1, <3>1 DEF Path
    <3> QED
      BY <1>2, <2>1, <3>1, <3>2
  <2> QED
    BY <2>2, <2>3
<1>4. S \in SUBSET Files /\ S # {}
  BY <1>1, <1>2
<1> HIDE DEF S
<1> QED
  BY <1>3, <1>4 DEF NoCycles

\* What the top imports is not at work, and the top is at work once.
LEMMA TopIsNew ==
  ASSUME NoCycles, FramesInv(stack), Path(stack), stack # <<>>
  PROVE  \A j \in 1..Len(stack) :
           /\ stack[j].unit \in Files => stack[j].unit \notin Top.imports
           /\ j # Len(stack) => stack[j].unit # Top.unit
<1> SUFFICES ASSUME NEW j \in 1..Len(stack)
             PROVE  /\ stack[j].unit \in Files => stack[j].unit \notin Top.imports
                    /\ j # Len(stack) => stack[j].unit # Top.unit
  OBVIOUS
<1>1. Top = stack[Len(stack)] /\ Len(stack) \in 1..Len(stack) /\ Len(stack) \in Nat
  BY BelowFrames DEF FramesInv
<1>2. stack[j].unit \in Files => stack[j].unit \notin Top.imports
  BY <1>1, NoWayBack
<1>3. ASSUME j # Len(stack), stack[j].unit = Top.unit PROVE FALSE
  <2> DEFINE k == Len(stack) - 1
  <2>1. k \in 1..Len(stack) /\ j \in 1..k /\ Len(stack) > 1
    BY <1>1, <1>3
  <2>2. Top.unit \in Files /\ Top.unit \in stack[k].imports
    BY <1>1, <2>1 DEF FramesInv, Path
  <2> QED
    BY <1>3, <2>1, <2>2, NoWayBack
<1> QED
  BY <1>2, <1>3

\* The paths that steps make of one.
LEMMA PathsStay ==
  ASSUME FramesInv(stack), Path(stack), stack # <<>>
  PROVE  /\ \A n : Path(Resolved(n))
         /\ \A n \in Files \cap Top.imports : Path(Append(Resolved(n), FrameOf(n, Imports[n])))
         /\ Path(Below)
<1>1. stack \in Seq(Frame) /\ Len(stack) \in Nat /\ Len(stack) \in 1..Len(stack)
      /\ Top = stack[Len(stack)]
  BY BelowFrames DEF FramesInv
<1>2. ASSUME NEW n PROVE Path(Resolved(n))
  <2>1. ASSUME NEW j \in 1..Len(stack), j > 1 PROVE Resolved(n)[j].unit \in Resolved(n)[j - 1].imports
    <3>1. j - 1 \in 1..Len(stack)
      BY <1>1, <2>1
    <3> QED
      BY <1>1, <2>1, <3>1, ResolvedFrames DEF Path
  <2> QED
    BY <1>1, <2>1, ResolvedFrames DEF Path
<1>3. ASSUME NEW n \in Files \cap Top.imports
      PROVE  Path(Append(Resolved(n), FrameOf(n, Imports[n])))
  <2> DEFINE s == Append(Resolved(n), FrameOf(n, Imports[n]))
  <2>1. /\ Len(s) = Len(stack) + 1 /\ s[Len(stack) + 1].unit = n
        /\ \A j \in 1..Len(stack) : s[j] = Resolved(n)[j]
    BY <1>1, PushedFrames DEF FrameOf
  <2>2. Resolved(n)[Len(stack)].imports = Top.imports /\ Len(Resolved(n)) = Len(stack)
    BY <1>1, ResolvedFrames
  <2> HIDE DEF s
  <2>3. ASSUME NEW j \in 1..Len(s), j > 1 PROVE s[j].unit \in s[j - 1].imports
    <3>1. CASE j \in 1..Len(stack)
      <4>1. j - 1 \in 1..Len(stack)
        BY <1>1, <2>3, <3>1
      <4> QED
        BY <1>2, <2>1, <2>2, <2>3, <3>1, <4>1 DEF Path
    <3>2. CASE j = Len(stack) + 1
      <4>1. j - 1 = Len(stack)
        BY <1>1, <3>2
      <4> QED
        BY <1>1, <2>1, <2>2, <3>2, <4>1
    <3> QED
      BY <1>1, <2>1, <3>1, <3>2
  <2> QED
    BY <2>3 DEF Path, s
<1>4. Path(Below)
  <2>1. ASSUME NEW j \in 1..Len(Below), j > 1 PROVE Below[j].unit \in Below[j - 1].imports
    <3>1. j - 1 \in 1..Len(Below) /\ j \in 1..Len(stack)
      BY <1>1, <2>1, BelowFrames
    <3> QED
      BY <1>1, <2>1, <3>1, BelowFrames DEF Path
  <2> QED
    BY <2>1 DEF Path
<1> QED
  BY <1>2, <1>3, <1>4

\* Each step keeps the files at work on a path of imports.
LEMMA PathKeeps ==
  ASSUME NoCycles, EngineInv, PathInv, [Next]_vars
  PROVE  PathInv'
<1> USE DEF PathInv
<1>1. /\ FramesInv(stack) /\ stack \in Seq(Frame) /\ Len(stack) \in Nat
      /\ unit \in [Files -> {"none", "resolving", "loaded", "evaluated", "failed"}]
  BY DEF EngineInv, FramesInv
<1>2. ASSUME UNCHANGED <<stack, unit>>, pc' = pc \/ (pc = "resolve" /\ pc' = "abort") PROVE PathInv'
  BY <1>2 DEF Path, AtWork
<1>3. ASSUME NEW n, stack # <<>>, stack' = Resolved(n), UNCHANGED <<unit, pc>> PROVE PathInv'
  <2>1. Path(stack') /\ Len(stack') = Len(stack) /\ pc # "idle"
    BY <1>1, <1>3, PathsStay, ResolvedFrames
  <2>2. \A j \in 1..Len(stack) : stack'[j].unit = stack[j].unit
    BY <1>1, <1>3, ResolvedFrames
  <2> QED
    BY <1>3, <2>1, <2>2 DEF AtWork
<1>4. ASSUME NEW n \in Files, stack # <<>>, n \in Top.todo, pc' = pc,
             stack' = Append(Resolved(n), FrameOf(n, Imports[n])),
             unit' = [unit EXCEPT ![n] = AtWork], unit[n] # "resolving"
      PROVE  PathInv'
  <2>1. n \in Top.imports
    BY <1>1, <1>4, BelowFrames DEF FramesInv
  <2>2. Path(stack') /\ pc # "idle"
    BY <1>1, <1>4, <2>1, PathsStay
  <2>3. /\ Len(stack') = Len(stack) + 1 /\ stack'[Len(stack) + 1].unit = n
        /\ \A j \in 1..Len(stack) : stack'[j].unit = stack[j].unit
    BY <1>1, <1>4, PushedFrames, ResolvedFrames DEF FrameOf
  <2>4. \A j \in 1..Len(stack') : j \in 1..Len(stack) \/ j = Len(stack) + 1
    BY <1>1, <2>3
  <2>5. AtWork' = AtWork /\ unit'[n] = AtWork /\ \A f \in Files \ {n} : unit'[f] = unit[f]
    BY <1>1, <1>4 DEF AtWork
  <2>6. \A j \in 1..Len(stack') : stack'[j].unit \in Files => unit'[stack'[j].unit] = AtWork'
    BY <2>3, <2>4, <2>5
  <2>7. ASSUME NEW f \in Files, unit'[f] = "resolving"
        PROVE  \E j \in 1..Len(stack') : stack'[j].unit = f
    <3>1. CASE f = n
      <4>1. Len(stack) + 1 \in 1..Len(stack')
        BY <1>1, <2>3
      <4> QED
        BY <2>3, <3>1, <4>1
    <3>2. CASE f # n
      <4>1. PICK j \in 1..Len(stack) : stack[j].unit = f
        BY <2>5, <2>7, <3>2
      <4>2. j \in 1..Len(stack')
        BY <1>1, <2>3
      <4> QED
        BY <2>3, <4>1, <4>2
    <3> QED
      BY <3>1, <3>2
  <2> QED
    BY <1>4, <2>2, <2>6, <2>7
<1>5. ASSUME stack # <<>>, stack' = Below, pc' = pc, NEW s \in {"none", "loaded", "evaluated"},
             TopBecomes(s)
      PROVE  PathInv'
  <2>1. /\ Path(stack') /\ Len(stack') = Len(stack) - 1 /\ pc # "idle"
        /\ \A j \in 1..Len(stack') : stack'[j] = stack[j] /\ j \in 1..Len(stack) /\ j # Len(stack)
    BY <1>1, <1>5, PathsStay, BelowFrames
  <2>2. \A f \in Files : unit'[f] = IF f = Top.unit THEN s ELSE unit[f]
    BY <1>5, TopBecomesOne
  <2>3. \A j \in 1..Len(stack') : stack'[j].unit \in Files => unit'[stack'[j].unit] = AtWork'
    BY <1>1, <1>5, <2>1, <2>2, TopIsNew DEF AtWork
  <2>4. ASSUME NEW f \in Files, unit'[f] = "resolving"
        PROVE  \E j \in 1..Len(stack') : stack'[j].unit = f
    <3>1. f # Top.unit /\ unit[f] = "resolving"
      BY <2>2, <2>4
    <3>2. PICK j \in 1..Len(stack) : stack[j].unit = f
      BY <3>1
    <3>3. j # Len(stack)
      BY <1>1, <1>5, <3>1, <3>2, BelowFrames
    <3>4. j \in 1..Len(stack')
      BY <1>1, <2>1, <3>3
    <3> QED
      BY <2>1, <3>2, <3>4
  <2> QED
    BY <1>5, <2>1, <2>3, <2>4
<1>6. CASE NativeStep \/ LoadThrows \/ CompileThrows \/ UNCHANGED vars
  BY <1>2, <1>6 DEF NativeStep, NewModule, AddExport, Declare, LoadThrows, CompileThrows, Aborts,
    vars, fileVars, engineVars
<1>7. CASE FindModule
  BY <1>3, <1>7 DEF FindModule, EngineInv, fileVars
<1>8. CASE LoadBegins
  <2>1. PICK n \in Top.todo \cap Files :
          /\ ~Known(n) /\ unit' = [unit EXCEPT ![n] = "resolving"]
          /\ stack' = Append(Resolved(n), FrameOf(n, Imports[n]))
    BY <1>8 DEF LoadBegins
  <2>2. unit[n] = "none" /\ pc = "resolve" /\ pc' = "resolve" /\ stack # <<>>
    BY <1>8, <2>1, ModulesAssumption DEF Known, LoadBegins, EngineInv
  <2> QED
    BY <1>4, <2>1, <2>2 DEF AtWork
<1>9. CASE LoadReturns
  BY <1>5, <1>9 DEF LoadReturns
<1>10. CASE LoadAborts
  BY <1>5, <1>10 DEF LoadAborts
<1>11. CASE ExceptionTaken \/ EvaluationEnds
  <2>1. stack = <<>> /\ stack' = <<>> /\ unit' = unit /\ Len(stack) = 0
    BY <1>11 DEF ExceptionTaken, EvaluationEnds, fileVars
  <2> QED
    BY <2>1 DEF Path
<1>12. CASE EvaluationBegins
  <2>1. /\ stack # <<>> /\ Len(stack) = 1 /\ Top = stack[1] /\ TopBecomes("loaded")
        /\ stack' = <<[Top EXCEPT !.todo = Top.imports]>> /\ pc = "resolve" /\ pc' = "evaluate"
    BY <1>12 DEF EvaluationBegins, Links, Top
  <2>2. Len(stack') = 1 /\ stack'[1].unit = Top.unit
    BY <1>1, <2>1, BelowFrames DEF Frame
  <2>3. \A f \in Files : unit'[f] = IF f = Top.unit THEN "loaded" ELSE unit[f]
    BY <2>1, TopBecomesOne
  <2>4. \A f \in Files : unit[f] = "resolving" => f = Top.unit
    BY <2>1
  <2> QED
    BY <2>1, <2>2, <2>3, <2>4 DEF Path, AtWork
<1>13. CASE NativeImported
  BY <1>3, <1>13 DEF NativeImported, fileVars
<1>14. CASE FileImported
  <2>1. PICK n \in Top.todo \cap Files :
          \/ stack' = Resolved(n)
          \/ unit[n] = "loaded" /\ stack' = Append(Resolved(n), FrameOf(n, Imports[n]))
    BY <1>14 DEF FileImported
  <2>2. stack # <<>> /\ pc = "evaluate" /\ pc' = "evaluate" /\ unit' = unit
    BY <1>14 DEF FileImported, fileVars
  <2>3. CASE unit[n] = "loaded" /\ stack' = Append(Resolved(n), FrameOf(n, Imports[n]))
    <3>1. unit' = [unit EXCEPT ![n] = AtWork]
      BY <1>1, <2>2, <2>3 DEF AtWork
    <3> QED
      BY <1>4, <2>1, <2>2, <2>3, <3>1
  <2> QED
    BY <1>3, <2>1, <2>2, <2>3
<1>15. CASE BodyReturns
  BY <1>5, <1>15 DEF BodyReturns
<1>16. CASE EvaluationThrows
  <2>1. /\ pc = "evaluate" /\ pc' = "evaluate" /\ stack' = <<>> /\ Len(stack') = 0
        /\ unit' = [f \in Files |-> IF \E i \in 1..Len(stack) : stack[i].unit = f
                                   THEN "failed" ELSE unit[f]]
    BY <1>16 DEF EvaluationThrows
  <2> QED
    BY <2>1 DEF Path
<1>17. ASSUME NEW f \in Files, EvalFile(f) PROVE PathInv'
  <2>1. stack = <<>> /\ Len(stack) = 0 /\ unit' = [unit EXCEPT ![f] = "resolving"]
        /\ pc' = "resolve" /\ Len(stack') = 1 /\ stack'[1].unit = f
    BY <1>17 DEF EvalFile, FrameOf
  <2> QED
    BY <1>1, <2>1 DEF Path, AtWork
<1>18. ASSUME NEW n \in Files \cup Natives, DynamicImport(n) PROVE PathInv'
  <2>1. stack = <<>> /\ Len(stack) = 0 /\ unit' = unit
        /\ pc' = "resolve" /\ Len(stack') = 1 /\ stack'[1].unit = Script
    BY <1>18 DEF DynamicImport, FrameOf, fileVars
  <2> QED
    BY <1>1, <2>1, ModulesAssumption DEF Path
<1>19. CASE (\E f \in Files : DiskChanges(f)) \/ ClearModules \/ FreeContext
  BY <1>2, <1>19 DEF DiskChanges, ClearModules, FreeContext, fileVars, engineVars
<1>20. CASE LinkThrows \/ LinkCrashes
  <2>1. /\ stack # <<>> /\ Len(stack) = 1 /\ Top = stack[1] /\ TopBecomes("loaded")
        /\ stack' = <<>> /\ Len(stack') = 0 /\ pc' \in {"abort", "crashed"}
    BY <1>20 DEF LinkThrows, LinkCrashes, Links, Top
  <2>2. \A f \in Files : unit'[f] = IF f = Top.unit THEN "loaded" ELSE unit[f]
    BY <2>1, TopBecomesOne
  <2>3. \A f \in Files : unit[f] = "resolving" => f = Top.unit
    BY <2>1
  <2> QED
    BY <2>1, <2>2, <2>3 DEF Path
<1>21. CASE InitCrashes
  <2>1. /\ pc = "evaluate" /\ pc' = "crashed" /\ stack' = <<>> /\ Len(stack') = 0 /\ unit' = unit
    BY <1>21 DEF InitCrashes, fileVars
  <2>2. \A f \in Files : unit[f] # "resolving"
    BY <2>1 DEF AtWork
  <2> QED
    BY <2>1, <2>2 DEF Path
<1> QED
  BY <1>6, <1>7, <1>8, <1>9, <1>10, <1>11, <1>12, <1>13, <1>14, <1>15, <1>16, <1>17, <1>18, <1>19,
     <1>20, <1>21 DEF Next, Resolution, Evaluation

\* Each step keeps what is finished closed, and what was seen to finished.
LEMMA LinkKeeps ==
  ASSUME NoCycles, EngineInv, PathInv, LinkInv, [Next]_vars
  PROVE  LinkInv'
<1> USE DEF LinkInv
<1>1. /\ FramesInv(stack) /\ stack \in Seq(Frame) /\ Len(stack) \in Nat
      /\ unit \in [Files -> {"none", "resolving", "loaded", "evaluated", "failed"}]
  BY DEF EngineInv, FramesInv
<1>2. ASSUME Finished' = Finished,
             pc' \in {"idle", "abort", "crashed"} \/ (pc' = pc /\ UNCHANGED <<stack, unit>>)
      PROVE  LinkInv'
  BY <1>2 DEF Above
<1>3. ASSUME NEW n, stack # <<>>, stack' = Resolved(n), UNCHANGED <<unit, pc>>,
             n \in Files => unit[n] = "evaluated" \/ (pc = "resolve" /\ n \in Finished)
      PROVE  LinkInv'
  <2>1. Finished' = Finished /\ Len(stack') = Len(stack)
    BY <1>1, <1>3, ResolvedFrames DEF Finished
  <2>2. ASSUME NEW j \in 1..Len(stack'), NEW m \in stack'[j].imports \cap Files
        PROVE  /\ m \in stack[j].imports
               /\ m \in stack[j].todo => m = n \/ m \in stack'[j].todo
               /\ Above(stack, j, m) => Above(stack', j, m)
    BY <1>1, <1>3, <2>1, ResolvedFrames DEF Above
  <2>3. CASE pc = "resolve"
    <3>1. ASSUME NEW j \in 1..Len(stack'), NEW m \in stack'[j].imports \cap Files
          PROVE  m \in stack'[j].todo \/ m \in Finished \/ Above(stack', j, m)
      BY <1>3, <2>1, <2>2, <2>3 DEF Finished
    <3> QED
      BY <1>3, <2>1, <2>3, <3>1
  <2>4. CASE pc = "evaluate"
    <3>1. ASSUME NEW j \in 1..Len(stack'), NEW m \in stack'[j].imports \cap Files
          PROVE  /\ m \in Finished
                 /\ m \in stack'[j].todo \/ unit[m] = "evaluated" \/ Above(stack', j, m)
      BY <1>3, <2>1, <2>2, <2>4
    <3> QED
      BY <1>3, <2>1, <2>4, <3>1
  <2> QED
    BY <1>3, <2>1, <2>3, <2>4
<1>4. ASSUME NEW n \in Files, stack # <<>>, pc' = pc, Finished' = Finished,
             \A f \in Finished : unit'[f] = unit[f],
             stack' = Append(Resolved(n), FrameOf(n, Imports[n])),
             pc = "evaluate" => n \in Finished
      PROVE  LinkInv'
  <2>1. /\ Len(stack') = Len(stack) + 1 /\ stack'[Len(stack) + 1] = FrameOf(n, Imports[n])
        /\ \A j \in 1..Len(stack) : stack'[j] = Resolved(n)[j]
    BY <1>1, <1>4, PushedFrames
  <2>2. \A j \in 1..Len(stack') : j \in 1..Len(stack) \/ j = Len(stack) + 1
    BY <1>1, <2>1
  <2>3. ASSUME NEW j \in 1..Len(stack), NEW m \in stack'[j].imports \cap Files
        PROVE  /\ m \in stack[j].imports
               /\ m \in stack[j].todo => m \in stack'[j].todo \/ Above(stack', j, m)
               /\ Above(stack, j, m) => Above(stack', j, m)
    <3>1. m \in stack[j].imports /\ Len(stack) \in 1..Len(stack)
      BY <1>1, <1>4, <2>1, ResolvedFrames
    <3>2. ASSUME m \in stack[j].todo, m \notin stack'[j].todo PROVE Above(stack', j, m)
      <4>1. j = Len(stack) /\ m = n
        BY <1>1, <1>4, <2>1, <3>2, ResolvedFrames
      <4>2. j + 1 \in 1..Len(stack') /\ stack'[j + 1].unit = n
        BY <1>1, <2>1, <4>1 DEF FrameOf
      <4> QED
        BY <4>1, <4>2 DEF Above
    <3>3. ASSUME Above(stack, j, m) PROVE Above(stack', j, m)
      <4>1. j + 1 \in 1..Len(stack) /\ stack[j + 1].unit = m
        BY <3>3 DEF Above
      <4>2. stack'[j + 1].unit = m /\ j + 1 \in 1..Len(stack')
        BY <1>1, <1>4, <2>1, <4>1, ResolvedFrames
      <4> QED
        BY <4>2 DEF Above
    <3> QED
      BY <3>1, <3>2, <3>3
  <2>4. LET top == stack'[Len(stack) + 1] IN top.imports = Imports[n] /\ top.todo = Imports[n]
    BY <2>1 DEF FrameOf
  <2>5. CASE pc = "resolve"
    BY <1>4, <2>2, <2>3, <2>4, <2>5
  <2>6. CASE pc = "evaluate"
    <3>1. Imports[n] \cap Files \subseteq Finished
      BY <1>4, <2>6
    <3>2. ASSUME NEW j \in 1..Len(stack'), NEW m \in stack'[j].imports \cap Files
          PROVE  /\ m \in Finished
                 /\ m \in stack'[j].todo \/ unit'[m] = "evaluated" \/ Above(stack', j, m)
      <4>1. CASE j \in 1..Len(stack)
        BY <1>4, <2>3, <2>6, <4>1
      <4>2. CASE j = Len(stack) + 1
        BY <2>4, <3>1, <4>2
      <4> QED
        BY <2>2, <4>1, <4>2
    <3> QED
      BY <1>4, <2>6, <3>2
  <2> QED
    BY <1>4, <2>5, <2>6
<1>5. ASSUME stack # <<>>, stack' = Below, pc' = pc, NEW s \in {"loaded", "evaluated"},
             TopBecomes(s), Top.todo = {},
             (s = "loaded" /\ pc = "resolve") \/ (s = "evaluated" /\ pc = "evaluate")
      PROVE  LinkInv'
  <2>1. /\ Len(stack') = Len(stack) - 1 /\ Top = stack[Len(stack)] /\ Len(stack) \in 1..Len(stack)
        /\ \A j \in 1..Len(stack') : stack'[j] = stack[j] /\ j \in 1..Len(stack)
    BY <1>1, <1>5, BelowFrames
  <2>2. \A f \in Files : unit'[f] = IF f = Top.unit THEN s ELSE unit[f]
    BY <1>5, TopBecomesOne
  <2>3. Finished' = Finished \cup ({Top.unit} \cap Files)
    BY <2>2 DEF Finished
  <2>4. \A n \in Top.imports \cap Files : n \in Finished
    BY <1>1, <1>5, <2>1 DEF Above
  <2>5. Top.unit \in Files => Imports[Top.unit] = Top.imports
    BY <1>1, <2>1 DEF FramesInv
  <2>6. ASSUME NEW j \in 1..Len(stack'), NEW m \in stack'[j].imports \cap Files, Above(stack, j, m)
        PROVE  Above(stack', j, m) \/ m = Top.unit
    BY <1>1, <2>1, <2>6 DEF Above
  <2>7. ASSUME pc = "resolve", NEW j \in 1..Len(stack'), NEW m \in stack'[j].imports \cap Files
        PROVE  m \in stack'[j].todo \/ m \in Finished' \/ Above(stack', j, m)
    BY <2>1, <2>3, <2>6, <2>7
  <2>8. ASSUME pc = "evaluate", NEW j \in 1..Len(stack'), NEW m \in stack'[j].imports \cap Files
        PROVE  /\ m \in Finished'
               /\ m \in stack'[j].todo \/ unit'[m] = "evaluated" \/ Above(stack', j, m)
    BY <1>5, <2>1, <2>2, <2>3, <2>6, <2>8
  <2> QED
    BY <1>5, <2>3, <2>4, <2>5, <2>7, <2>8
<1>6. ASSUME UNCHANGED unit PROVE Finished' = Finished
  BY <1>6 DEF Finished
<1>7. CASE NativeStep \/ LoadThrows \/ CompileThrows \/ ExceptionTaken \/ EvaluationEnds
             \/ UNCHANGED vars
  BY <1>2, <1>6, <1>7 DEF NativeStep, NewModule, AddExport, Declare, LoadThrows, CompileThrows,
    Aborts, ExceptionTaken, EvaluationEnds, vars, fileVars, engineVars
<1>8. CASE FindModule
  <2>1. PICK n \in Top.todo : Known(n) /\ stack' = Resolved(n)
    BY <1>8 DEF FindModule
  <2>2. stack # <<>> /\ pc = "resolve" /\ UNCHANGED <<unit, pc>>
    BY <1>8 DEF FindModule, EngineInv, fileVars
  <2>3. ASSUME n \in Files PROVE n \in Finished
    <3>1. unit[n] # "none" /\ n \in Top.imports
      BY <1>1, <2>1, <2>2, <2>3, ModulesAssumption, BelowFrames DEF Known, FramesInv
    <3>2. unit[n] # "resolving"
      BY <1>1, <2>2, <2>3, <3>1, TopIsNew DEF PathInv
    <3> QED
      BY <1>1, <2>3, <3>1, <3>2 DEF Finished
  <2> QED
    BY <1>3, <2>1, <2>2, <2>3
<1>9. CASE LoadBegins
  <2>1. PICK n \in Top.todo \cap Files :
          /\ ~Known(n) /\ unit' = [unit EXCEPT ![n] = "resolving"]
          /\ stack' = Append(Resolved(n), FrameOf(n, Imports[n]))
    BY <1>9 DEF LoadBegins
  <2>2. unit[n] = "none" /\ pc = "resolve" /\ pc' = "resolve" /\ stack # <<>>
    BY <1>9, <2>1, ModulesAssumption DEF Known, LoadBegins, EngineInv
  <2>3. Finished' = Finished /\ \A f \in Finished : unit'[f] = unit[f]
    BY <1>1, <2>1, <2>2 DEF Finished
  <2> QED
    BY <1>4, <2>1, <2>2, <2>3
<1>10. CASE LoadReturns
  <2>1. /\ stack # <<>> /\ stack' = Below /\ pc' = pc /\ TopBecomes("loaded") /\ Top.todo = {}
        /\ pc = "resolve"
    BY <1>10 DEF LoadReturns
  <2> QED
    BY <1>5, <2>1
<1>11. CASE LoadAborts
  <2>1. /\ stack # <<>> /\ stack' = Below /\ pc' = "abort"
        /\ \A f \in Files : unit'[f] = IF f = Top.unit THEN "none" ELSE unit[f]
    BY <1>11, TopBecomesOne DEF LoadAborts
  <2>2. Top.unit \in Files => unit[Top.unit] = "resolving"
    BY <1>1, <1>11, <2>1, BelowFrames DEF PathInv, AtWork, LoadAborts
  <2>3. Finished' = Finished
    BY <2>1, <2>2 DEF Finished
  <2> QED
    BY <1>2, <2>1, <2>3
<1>12. CASE EvaluationBegins
  <2>1. /\ stack # <<>> /\ Len(stack) = 1 /\ Top = stack[1] /\ TopBecomes("loaded")
        /\ stack' = <<[Top EXCEPT !.todo = Top.imports]>> /\ pc = "resolve" /\ pc' = "evaluate"
        /\ Top.todo = {}
    BY <1>12 DEF EvaluationBegins, Links, Top
  <2>2. Len(stack') = 1 /\ stack'[1].todo = Top.imports /\ stack'[1].imports = Top.imports
    BY <1>1, <2>1, BelowFrames DEF Frame
  <2>3. \A f \in Files : unit'[f] = IF f = Top.unit THEN "loaded" ELSE unit[f]
    BY <2>1, TopBecomesOne
  <2>4. Finished' = Finished \cup ({Top.unit} \cap Files)
    BY <2>3 DEF Finished
  <2>5. \A n \in Top.imports \cap Files : n \in Finished
    BY <2>1 DEF Above
  <2>6. Top.unit \in Files => Imports[Top.unit] = Top.imports
    BY <1>1, <2>1 DEF FramesInv
  <2> QED
    BY <2>1, <2>2, <2>4, <2>5, <2>6
<1>13. CASE NativeImported
  <2>1. PICK n \in Top.todo \cap Natives : stack' = Resolved(n)
    BY <1>13 DEF NativeImported
  <2> QED
    BY <1>3, <1>13, <2>1, ModulesAssumption DEF NativeImported, fileVars
<1>14. CASE FileImported
  <2>1. PICK n \in Top.todo \cap Files :
          \/ unit[n] = "evaluated" /\ stack' = Resolved(n)
          \/ unit[n] = "loaded" /\ stack' = Append(Resolved(n), FrameOf(n, Imports[n]))
    BY <1>14 DEF FileImported
  <2>2. stack # <<>> /\ pc = "evaluate" /\ pc' = "evaluate" /\ unit' = unit
    BY <1>14 DEF FileImported, fileVars
  <2>3. CASE unit[n] = "loaded" /\ stack' = Append(Resolved(n), FrameOf(n, Imports[n]))
    BY <1>4, <1>6, <2>1, <2>2, <2>3 DEF Finished
  <2> QED
    BY <1>3, <2>1, <2>2, <2>3
<1>15. CASE BodyReturns
  BY <1>5, <1>15 DEF BodyReturns
<1>16. CASE EvaluationThrows
  <2>1. /\ pc = "evaluate" /\ pc' = "evaluate" /\ stack' = <<>> /\ Len(stack') = 0
        /\ unit' = [f \in Files |-> IF \E i \in 1..Len(stack) : stack[i].unit = f
                                   THEN "failed" ELSE unit[f]]
    BY <1>16 DEF EvaluationThrows
  <2>2. Finished' = Finished
    BY <1>1, <2>1 DEF Finished, PathInv, AtWork
  <2> QED
    BY <2>1, <2>2
<1>17. ASSUME NEW f \in Files, EvalFile(f) PROVE LinkInv'
  <2>1. /\ unit[f] = "none" /\ unit' = [unit EXCEPT ![f] = "resolving"]
        /\ pc' = "resolve" /\ Len(stack') = 1 /\ stack'[1].todo = stack'[1].imports
    BY <1>17 DEF EvalFile, FrameOf
  <2>2. Finished' = Finished
    BY <1>1, <2>1 DEF Finished
  <2> QED
    BY <2>1, <2>2
<1>18. ASSUME NEW n \in Files \cup Natives, DynamicImport(n) PROVE LinkInv'
  <2>1. unit' = unit /\ pc' = "resolve" /\ Len(stack') = 1 /\ stack'[1].todo = stack'[1].imports
    BY <1>18 DEF DynamicImport, FrameOf, fileVars
  <2> QED
    BY <1>6, <2>1
<1>19. CASE (\E f \in Files : DiskChanges(f)) \/ ClearModules \/ FreeContext
  BY <1>2, <1>6, <1>19 DEF DiskChanges, ClearModules, FreeContext, fileVars, engineVars
<1>20. CASE LinkThrows \/ LinkCrashes
  <2>1. /\ stack # <<>> /\ Len(stack) = 1 /\ Top = stack[1] /\ TopBecomes("loaded")
        /\ pc = "resolve" /\ pc' \in {"abort", "crashed"} /\ Top.todo = {}
    BY <1>20 DEF LinkThrows, LinkCrashes, Links, Top
  <2>2. \A f \in Files : unit'[f] = IF f = Top.unit THEN "loaded" ELSE unit[f]
    BY <2>1, TopBecomesOne
  <2>3. Finished' = Finished \cup ({Top.unit} \cap Files)
    BY <2>2 DEF Finished
  <2>4. \A n \in Top.imports \cap Files : n \in Finished
    BY <2>1 DEF Above
  <2>5. Top.unit \in Files => Imports[Top.unit] = Top.imports
    BY <1>1, <2>1 DEF FramesInv
  <2> QED
    BY <2>1, <2>3, <2>4, <2>5
<1>21. CASE InitCrashes
  BY <1>2, <1>6, <1>21 DEF InitCrashes, fileVars
<1> QED
  BY <1>7, <1>8, <1>9, <1>10, <1>11, <1>12, <1>13, <1>14, <1>15, <1>16, <1>17, <1>18, <1>19,
     <1>20, <1>21 DEF Next, Resolution, Evaluation

\* Where modules keep their names, the first module of a name is the same.
LEMMA NamesStay ==
  ASSUME Len(modules') = Len(modules),
         \A d \in 1..Len(modules) : modules'[d].name = modules[d].name
  PROVE  Made' = Made /\ \A n : Named(n)' = Named(n) /\ FirstNamed(n)' = FirstNamed(n)
<1>1. ASSUME NEW n PROVE Named(n)' = Named(n)
  BY DEF Named
<1>2. ASSUME NEW n PROVE FirstNamed(n)' = FirstNamed(n)
  BY <1>1 DEF FirstNamed
<1> QED
  BY <1>1, <1>2 DEF Made

\* Where they are initialised besides, JavaScript sees the same native modules.
LEMMA NativesStay ==
  ASSUME Len(modules') = Len(modules),
         \A d \in 1..Len(modules) : /\ modules'[d].name = modules[d].name
                                    /\ defs'[d].ready = defs[d].ready
  PROVE  Made' = Made /\ Ready' = Ready
<1>1. Made' = Made /\ \A n : FirstNamed(n)' = FirstNamed(n)
  BY NamesStay
<1>2. \A n \in Made : FirstNamed(n) \in 1..Len(modules)
  BY FirstIsNamed DEF Made
<1> QED
  BY <1>1, <1>2 DEF Ready

\* Only a new module is made, and it is not initialised.
LEMMA NewModuleSeen ==
  ASSUME ModulesInv, NEW n \in Natives, NewModule(n)
  PROVE  Made' = Made \cup {n} /\ Ready' = Ready
<1> DEFINE L == Len(modules)
<1>1. /\ L \in Nat /\ Len(modules') = L + 1 /\ modules'[L + 1].name = n /\ ~defs'[L + 1].ready
      /\ \A d \in 1..L : modules'[d] = modules[d] /\ defs'[d] = defs[d]
  BY DEF ModulesInv, NewModule
<1> HIDE DEF L
<1>2. ASSUME NEW m, m # n PROVE Named(m)' = Named(m) /\ FirstNamed(m)' = FirstNamed(m)
  <2>1. Named(m)' = Named(m)
    BY <1>1, <1>2 DEF Named, L
  <2> QED
    BY <2>1 DEF FirstNamed
<1>3. Made' = Made \cup {n}
  <2>1. L + 1 \in Named(n)'
    BY <1>1 DEF Named
  <2> QED
    BY <1>2, <2>1 DEF Made
<1>4. IsReady(n)' <=> IsReady(n)
  <2>1. CASE Named(n) # {}
    <3>1. ModulesInv' /\ ModulesGrow
      BY NewModuleKeeps
    <3>2. FirstNamed(n)' = FirstNamed(n) /\ FirstNamed(n) \in 1..L /\ Named(n)' # {}
      BY <2>1, <3>1, NamedStay, FirstIsNamed DEF L
    <3> QED
      BY <1>1, <2>1, <3>2 DEF IsReady
  <2>2. CASE Named(n) = {}
    <3>1. Named(n)' = {L + 1}
      BY <1>1, <2>2 DEF Named, L
    <3>2. FirstNamed(n)' = L + 1
      BY <1>1, <3>1 DEF FirstNamed
    <3> QED
      BY <1>1, <2>2, <3>2 DEF IsReady
  <2> QED
    BY <2>1, <2>2
<1>5. \A m \in Natives : IsReady(m)' <=> IsReady(m)
  BY <1>1, <1>2, <1>4, FirstIsNamed DEF IsReady, L
<1>6. Ready = {m \in Natives : IsReady(m)} /\ Ready' = {m \in Natives : IsReady(m)'}
  BY DEF Ready, Made, IsReady
<1> QED
  BY <1>3, <1>5, <1>6

\* The init callback initialises the module of one name.
LEMMA InitModuleSeen ==
  ASSUME ModulesInv, NEW n \in Natives, IsKnown(n), InitModule(FirstNamed(n))
  PROVE  n \in Made /\ Made' = Made /\ Ready' = Ready \cup {n}
<1> DEFINE d == FirstNamed(n)
<1>1. d \in 1..Len(modules) /\ modules[d].name = n /\ n \in Made
  BY FirstIsNamed DEF IsKnown, Made
<1> HIDE DEF d
<1>2. PICK e : modules' = [modules EXCEPT ![d].exports = e]
  BY DEF InitModule, Writes, d
<1>3. /\ Len(modules') = Len(modules) /\ \A c \in 1..Len(modules) : modules'[c].name = modules[c].name
  BY <1>1, <1>2 DEF ModulesInv, Module
<1>4. defs'[d].ready /\ \A c \in 1..Len(modules) : c # d => defs'[c].ready = defs[c].ready
  <2>1. PICK b, g : defs' = [defs EXCEPT ![d] =
                              [defs[d] EXCEPT !.bound = b, !.ready = TRUE, !.given = g]]
    BY DEF InitModule, Writes, d
  <2>2. defs \in Seq(Def) /\ Len(modules) = Len(defs) /\ defs[d] \in Def
    BY <1>1 DEF ModulesInv
  <2>3. [defs[d] EXCEPT !.bound = b, !.ready = TRUE, !.given = g].ready = TRUE
    BY <2>2 DEF Def
  <2> QED
    BY <1>1, <2>1, <2>2, <2>3
<1>5. Made' = Made /\ \A m : FirstNamed(m)' = FirstNamed(m)
  BY <1>3, NamesStay
<1>6. \A m \in Made : /\ FirstNamed(m) \in 1..Len(modules)
                      /\ FirstNamed(m) = d <=> m = n
  BY <1>1, FirstIsNamed DEF Made, d
<1> QED
  BY <1>1, <1>4, <1>5, <1>6 DEF Ready

\* Steps of files that do not finish, or that were not there, are not seen.
LEMMA StagesStay ==
  ASSUME \A f \in Files : unit'[f] = unit[f] \/ {unit[f], unit'[f]} \subseteq {"none", "resolving"}
  PROVE  \A stages \in SUBSET {"loaded", "evaluated", "failed"} : Are(stages)' = Are(stages)
BY DEF Are

GraphInv == ModulesInv /\ EngineInv /\ KnownInv /\ PathInv /\ LinkInv

\* At first nothing is there.
LEMMA GraphInit == Init => GraphView!Init
BY DEF Init, GraphView!Init, Made, Ready, Named, Are

\* Each step is seen as one of making, initialising, loading, running or failing, or not at all.
LEMMA GraphStep ==
  ASSUME NoCycles, GraphInv, [Next]_vars
  PROVE  [GraphView!Next]_(GraphView!vars)
<1> DEFINE Done == {"loaded", "evaluated", "failed"}
<1> USE DEF GraphInv
<1>1. /\ FramesInv(stack) /\ stack \in Seq(Frame) /\ Len(stack) \in Nat
      /\ unit \in [Files -> {"none", "resolving", "loaded", "evaluated", "failed"}]
      /\ Finished = Are(Done)
  BY DEF EngineInv, FramesInv, Finished, Are
<1>2. ASSUME UNCHANGED moduleVars PROVE Made' = Made /\ Ready' = Ready
  BY <1>2, NativesStay DEF moduleVars
<1>3. ASSUME \A f \in Files : unit'[f] = unit[f] \/ {unit[f], unit'[f]} \subseteq {"none", "resolving"}
      PROVE  /\ Are(Done)' = Are(Done)
             /\ Are({"evaluated"})' = Are({"evaluated"}) /\ Are({"failed"})' = Are({"failed"})
  BY <1>3, StagesStay
<1>4. ASSUME UNCHANGED moduleVars,
             \A f \in Files : unit'[f] = unit[f] \/ {unit[f], unit'[f]} \subseteq {"none", "resolving"}
      PROVE  UNCHANGED GraphView!vars
  BY <1>2, <1>3, <1>4 DEF GraphView!vars
<1>5. ASSUME NEW f \in Files, Made' = Made, Ready' = Ready, unit[f] = "resolving",
             \A g \in Files : unit'[g] = IF g = f THEN "loaded" ELSE unit[g],
             \A n \in Imports[f] : n \in Finished \/ (n \in Natives /\ IsKnown(n))
      PROVE  GraphView!Load(f)
  <2>1. /\ Are(Done)' = Are(Done) \cup {f} /\ f \notin Are(Done)
        /\ Are({"evaluated"})' = Are({"evaluated"}) /\ Are({"failed"})' = Are({"failed"})
    BY <1>5 DEF Are
  <2>2. Imports[f] \subseteq Are(Done) \cup Made
    BY <1>1, <1>5 DEF IsKnown, Made
  <2> QED
    BY <1>5, <2>1, <2>2 DEF GraphView!Load
<1>6. CASE NativeStep
  <2>1. UNCHANGED unit
    BY <1>6 DEF NativeStep, NewModule, AddExport, fileVars
  <2>2. ASSUME NEW n \in Natives, NewModule(n) PROVE GraphView!Make(n)
    BY <1>3, <2>1, <2>2, NewModuleSeen DEF GraphView!Make
  <2>3. ASSUME NEW d \in 1..Len(modules), NEW k \in Keys, AddExport(d, k)
        PROVE  UNCHANGED GraphView!vars
    <3>1. Made' = Made /\ Ready' = Ready
      BY <2>3, NativesStay DEF AddExport, Declare, ModulesInv, Module, Def
    <3> QED
      BY <1>3, <2>1, <3>1 DEF GraphView!vars
  <2> QED
    BY <1>6, <2>2, <2>3 DEF NativeStep, GraphView!Next
<1>7. CASE FindModule \/ LoadThrows \/ CompileThrows \/ ExceptionTaken \/ FileImported
             \/ InitCrashes \/ EvaluationEnds \/ UNCHANGED vars
  BY <1>4, <1>7 DEF FindModule, LoadThrows, CompileThrows, Aborts, ExceptionTaken, FileImported,
    InitCrashes, EvaluationEnds, vars, fileVars
<1>8. CASE LoadBegins
  <2>1. PICK n \in Files : ~Known(n) /\ unit' = [unit EXCEPT ![n] = "resolving"]
    BY <1>8 DEF LoadBegins
  <2>2. unit[n] = "none"
    BY <2>1, ModulesAssumption DEF Known
  <2> QED
    BY <1>1, <1>4, <1>8, <2>1, <2>2 DEF LoadBegins
<1>9. CASE LoadReturns \/ LinkThrows \/ LinkCrashes \/ EvaluationBegins
  <2>1. stack # <<>> /\ TopBecomes("loaded") /\ Top.todo = {} /\ pc = "resolve"
    BY <1>9 DEF LoadReturns, LinkThrows, LinkCrashes, EvaluationBegins, Links
  <2>6. Made' = Made /\ Ready' = Ready
    <3>1. CASE LoadReturns
      BY <1>2, <3>1 DEF LoadReturns
    <3>2. CASE Links
      BY <3>2, LinksKeep, NativesStay DEF Links
    <3> QED
      BY <1>9, <3>1, <3>2 DEF LinkThrows, LinkCrashes, EvaluationBegins
  <2>2. Top = stack[Len(stack)] /\ Len(stack) \in 1..Len(stack)
    BY <1>1, <2>1, BelowFrames
  <2>3. \A g \in Files : unit'[g] = IF g = Top.unit THEN "loaded" ELSE unit[g]
    BY <2>1, TopBecomesOne
  <2>4. CASE Top.unit \in Files
    <3>1. Imports[Top.unit] = Top.imports /\ unit[Top.unit] = "resolving"
      BY <1>1, <2>1, <2>2, <2>4 DEF FramesInv, PathInv, AtWork
    <3>2. \A n \in Top.imports \cap Files : n \in Finished
      BY <1>1, <2>1, <2>2 DEF LinkInv, Above
    <3>3. \A n \in Top.imports \cap Natives : IsKnown(n)
      BY <2>1, <2>2 DEF KnownInv
    <3>4. Imports[Top.unit] \subseteq Files \cup Natives
      BY <2>4, ModulesAssumption
    <3>5. GraphView!Load(Top.unit)
      BY <1>5, <2>3, <2>4, <2>6, <3>1, <3>2, <3>3, <3>4
    <3> QED
      BY <2>4, <3>5 DEF GraphView!Next
  <2>5. CASE Top.unit \notin Files
    BY <1>3, <2>3, <2>5, <2>6 DEF GraphView!vars
  <2> QED
    BY <2>4, <2>5
<1>10. CASE LoadAborts
  <2>1. /\ stack # <<>> /\ pc = "abort" /\ UNCHANGED moduleVars
        /\ \A f \in Files : unit'[f] = IF f = Top.unit THEN "none" ELSE unit[f]
    BY <1>10, TopBecomesOne DEF LoadAborts
  <2>2. Top.unit \in Files => unit[Top.unit] = "resolving"
    BY <1>1, <2>1, BelowFrames DEF PathInv, AtWork
  <2> QED
    BY <1>4, <2>1, <2>2
<1>11. CASE NativeImported
  <2>1. stack # <<>> /\ pc = "evaluate" /\ unit' = unit
    BY <1>11 DEF NativeImported, fileVars
  <2>2. PICK n \in Top.todo \cap Natives :
          IF defs[FirstNamed(n)].ready THEN UNCHANGED moduleVars ELSE InitModule(FirstNamed(n))
    BY <1>11 DEF NativeImported
  <2>3. IsKnown(n)
    BY <1>1, <2>1, <2>2, BelowFrames DEF KnownInv, FramesInv
  <2>4. CASE defs[FirstNamed(n)].ready
    BY <1>4, <2>1, <2>2, <2>4
  <2>5. CASE ~defs[FirstNamed(n)].ready
    <3>1. n \in Made \ Ready /\ Made' = Made /\ Ready' = Ready \cup {n}
      BY <2>2, <2>3, <2>5, InitModuleSeen DEF Ready
    <3>2. GraphView!Initialise(n)
      BY <1>3, <2>1, <3>1 DEF GraphView!Initialise
    <3> QED
      BY <2>2, <3>2 DEF GraphView!Next
  <2> QED
    BY <2>4, <2>5
<1>12. CASE BodyReturns
  <2>1. /\ stack # <<>> /\ TopBecomes("evaluated") /\ Top.todo = {} /\ pc = "evaluate"
        /\ UNCHANGED moduleVars
    BY <1>12 DEF BodyReturns
  <2>2. Top = stack[Len(stack)] /\ Len(stack) \in 1..Len(stack)
    BY <1>1, <2>1, BelowFrames
  <2>3. \A g \in Files : unit'[g] = IF g = Top.unit THEN "evaluated" ELSE unit[g]
    BY <2>1, TopBecomesOne
  <2>4. CASE Top.unit \in Files
    <3>1. Imports[Top.unit] = Top.imports /\ unit[Top.unit] = "loaded"
      BY <1>1, <2>1, <2>2, <2>4 DEF FramesInv, PathInv, AtWork
    <3>2. \A n \in Top.imports \cap Files : unit[n] = "evaluated"
      BY <1>1, <2>1, <2>2 DEF LinkInv, Above
    <3>3. \A n \in Top.imports \cap Natives : IsReady(n)
      BY <2>1, <2>2 DEF KnownInv
    <3>4. Imports[Top.unit] \subseteq Files \cup Natives
      BY <2>4, ModulesAssumption
    <3>5. Imports[Top.unit] \subseteq Are({"evaluated"}) \cup Ready
      BY <3>1, <3>2, <3>3, <3>4 DEF Are, Ready, Made, IsReady
    <3>6. /\ Are(Done)' = Are(Done) /\ Are({"failed"})' = Are({"failed"})
          /\ Are({"evaluated"})' = Are({"evaluated"}) \cup {Top.unit}
          /\ Top.unit \in Are(Done) \ (Are({"evaluated"}) \cup Are({"failed"}))
      BY <2>3, <2>4, <3>1 DEF Are
    <3>7. GraphView!Run(Top.unit)
      BY <1>2, <2>1, <3>5, <3>6 DEF GraphView!Run, GraphView!MayRun
    <3> QED
      BY <2>4, <3>7 DEF GraphView!Next
  <2>5. CASE Top.unit \notin Files
    BY <1>4, <2>1, <2>3, <2>5
  <2> QED
    BY <2>4, <2>5
<1>13. CASE EvaluationThrows
  <2> DEFINE waiting == {f \in Files : \E i \in 1..Len(stack) : stack[i].unit = f}
  <2>1. /\ stack # <<>> /\ pc = "evaluate" /\ UNCHANGED moduleVars
        /\ Top.todo = {} \/ \E n \in Top.todo \cap Files : unit[n] = "failed"
        /\ unit' = [f \in Files |-> IF f \in waiting THEN "failed" ELSE unit[f]]
    BY <1>13 DEF EvaluationThrows
  <2>2. Top = stack[Len(stack)] /\ Len(stack) \in 1..Len(stack)
    BY <1>1, <2>1, BelowFrames
  <2>3. \A f \in waiting : unit[f] = "loaded"
    BY <2>1 DEF PathInv, AtWork
  <2>4. /\ waiting \subseteq Are(Done) \ (Are({"evaluated"}) \cup Are({"failed"}))
        /\ Are(Done)' = Are(Done) /\ Are({"evaluated"})' = Are({"evaluated"})
        /\ Are({"failed"})' = Are({"failed"}) \cup waiting
    BY <2>1, <2>3 DEF Are
  <2>5. ASSUME NEW f \in waiting
        PROVE  \/ Imports[f] \subseteq Are({"evaluated"}) \cup Ready
               \/ Imports[f] \cap (Are({"failed"}) \cup waiting) # {}
    <3>1. PICK j \in 1..Len(stack) : stack[j].unit = f
      OBVIOUS
    <3>2. f \in Files /\ Imports[f] = stack[j].imports /\ Imports[f] \subseteq Files \cup Natives
      BY <1>1, <3>1, ModulesAssumption DEF FramesInv
    <3>3. CASE j # Len(stack)
      <4>1. j + 1 \in 1..Len(stack) /\ j + 1 > 1 /\ (j + 1) - 1 = j
        BY <1>1, <3>3
      <4>2. stack[j + 1].unit \in stack[j].imports \cap Files
        BY <1>1, <4>1 DEF PathInv, Path, FramesInv
      <4> QED
        BY <3>2, <4>1, <4>2
    <3>4. CASE j = Len(stack) /\ Top.todo = {}
      <4>1. \A n \in Top.imports \cap Files : unit[n] = "evaluated"
        BY <1>1, <2>1, <2>2, <3>4 DEF LinkInv, Above
      <4>2. \A n \in Top.imports \cap Natives : IsReady(n)
        BY <2>1, <2>2, <3>4 DEF KnownInv
      <4> QED
        BY <2>2, <3>2, <3>4, <4>1, <4>2 DEF Are, Ready, Made, IsReady
    <3>5. CASE j = Len(stack) /\ Top.todo # {}
      <4>1. PICK n \in Top.todo \cap Files : unit[n] = "failed"
        BY <2>1, <3>5
      <4>2. n \in Imports[f] /\ n \in Are({"failed"})
        BY <1>1, <2>2, <3>2, <3>5, <4>1 DEF FramesInv, Are
      <4> QED
        BY <4>2
    <3> QED
      BY <3>3, <3>4, <3>5
  <2>6. waiting \in SUBSET Files
    OBVIOUS
  <2> HIDE DEF waiting
  <2>7. GraphView!Fail(waiting)
    BY <1>2, <2>1, <2>4, <2>5 DEF GraphView!Fail, GraphView!MayRun
  <2> QED
    BY <2>6, <2>7 DEF GraphView!Next
<1>14. ASSUME NEW f \in Files, EvalFile(f) PROVE UNCHANGED GraphView!vars
  BY <1>1, <1>4, <1>14 DEF EvalFile
<1>15. CASE \/ \E f \in Files : DiskChanges(f)
            \/ \E n \in Files \cup Natives : DynamicImport(n)
  BY <1>4, <1>15 DEF DiskChanges, DynamicImport, fileVars
<1>16. CASE ClearModules \/ FreeContext
  <2>1. unit' = unit
    BY <1>16 DEF ClearModules, FreeContext, fileVars
  <2>2. ModulesInv' /\ ModulesGrow
    BY <1>16, ClearModulesKeeps, FreeContextKeeps
  <2>3. /\ modules \in Seq(Module) /\ defs \in Seq(Def) /\ Len(modules) = Len(defs)
        /\ modules' \in Seq(Module) /\ Len(modules') \in Nat /\ Len(modules) \in Nat
    BY <2>2 DEF ModulesInv
  <2>4. Len(modules') = Len(modules)
    <3>1. DOMAIN modules' = 1..Len(modules)
      BY <1>16, <2>3 DEF ClearModules, FreeContext, Unbind
    <3>2. 1..Len(modules') = 1..Len(modules)
      BY <2>3, <3>1
    <3> QED
      BY <2>3, <3>2
  <2>5. \A d \in 1..Len(modules) : defs'[d].ready = defs[d].ready
    <3>1. \A d \in 1..Len(modules) : defs[d] \in Def
      BY <2>3
    <3> QED
      BY <1>16, <2>3, <3>1 DEF ClearModules, FreeContext, Unbind, Def
  <2>6. Made' = Made /\ Ready' = Ready
    BY <2>2, <2>4, <2>5, NativesStay DEF ModulesGrow
  <2> QED
    BY <1>3, <2>1, <2>6 DEF GraphView!vars
<1> QED
  BY <1>6, <1>7, <1>8, <1>9, <1>10, <1>11, <1>12, <1>13, <1>14, <1>15, <1>16
  DEF Next, Resolution, Evaluation

\* Without cycles of imports, the loader that the engine calls back implements modules that
\* run once, after all that they import.
THEOREM ModulesImplementGraph == NoCycles => (Spec => ImplementsModuleGraph)
<1> SUFFICES ASSUME NoCycles PROVE Spec => ImplementsModuleGraph
  OBVIOUS
<1>1. Init => PathInv /\ LinkInv
  BY DEF Init, PathInv, LinkInv, Path, Finished
<1>2. IndInv /\ PathInv /\ LinkInv /\ [Next]_vars => PathInv' /\ LinkInv'
  BY PathKeeps, LinkKeeps DEF IndInv
<1>3. IndInv /\ PathInv /\ LinkInv => GraphInv
  BY DEF IndInv, GraphInv
<1>4. NoCycles /\ GraphInv /\ [Next]_vars => [GraphView!Next]_(GraphView!vars)
  BY GraphStep
<1>5. Spec => []GraphInv
  BY <1>1, <1>2, <1>3, Inductive, PTL DEF Spec
<1> QED
  BY <1>4, <1>5, GraphInit, PTL DEF Spec, ImplementsModuleGraph, GraphView!Spec
================================================================================
