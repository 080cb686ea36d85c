--------------------------- MODULE OwnershipProofs ----------------------------
(***************************************************************************)
(* Proofs about Ownership for any objects, wrappers and instances and any  *)
(* number of references.                                                   *)
(***************************************************************************)
EXTENDS Ownership, FiniteSetTheorems, TLAPS

\* The instance of an object is alive while the object is, and is nobody else's.
InstanceInv ==
  /\ \A o \in Objects : opaque[o] # None =>
       /\ state[o] # "unborn" /\ instance[opaque[o]] # "unborn"
       /\ instance[opaque[o]] = "alive" <=> state[o] = "live"
       /\ \A p \in Objects : opaque[p] = opaque[o] => p = o
  /\ \A i \in Instances : instance[i] = "alive" => \E o \in Objects : opaque[o] = i

\* A wrapper that is not constructed holds nothing; the object under construction is in Frame.
ConstructionInv ==
  /\ \A w \in Wrappers \ built : value[w] = None
  /\ Frame \in built <=> constructing # "no"
  /\ constructing # "no" => value[Frame] \in classed
  /\ constructing \in {"post", "posted"} => opaque[value[Frame]] # None
  /\ constructing = "opaque" => opaque[value[Frame]] = None
  /\ \A o \in classed : state[o] # "unborn"

IndInv == TypeOK /\ CountExact /\ InstanceInv /\ ConstructionInv /\ SeenHasInstance

\* The part of the invariant that only objects and instances matter to.
ObjectInv ==
  /\ state \in [Objects -> {"unborn", "live", "freed"}]
  /\ count \in [Objects -> Nat]
  /\ classed \subseteq Objects
  /\ opaque \in [Objects -> Instances \cup {None}]
  /\ instance \in [Instances -> {"unborn", "alive", "destroyed"}]
  /\ \A o \in Objects : state[o] = "live" <=> count[o] > 0
  /\ \A o \in classed : state[o] # "unborn"
  /\ InstanceInv

References(o) == Cardinality(Holders(o)) + raw[o] + engine[o]

-------------------------------------------------------------------------------
(* Counting.                                                                 *)

Maybe == Objects \cup {None}

HoldersIn(f, o) == {w \in Wrappers : f[w] = o}

\* A wrapper that holds something is counted, a finite number of them is.
LEMMA HolderCounts ==
  ASSUME NEW f, NEW o
  PROVE  /\ IsFiniteSet(HoldersIn(f, o)) /\ Cardinality(HoldersIn(f, o)) \in Nat
         /\ \A w \in Wrappers : f[w] = o => Cardinality(HoldersIn(f, o)) > 0
<1>1. HoldersIn(f, o) \in SUBSET Wrappers
  BY DEF HoldersIn
<1>2. IsFiniteSet(HoldersIn(f, o))
  BY <1>1, FS_Subset, OwnershipAssumption
<1>3. Cardinality(HoldersIn(f, o)) \in Nat
  BY <1>2, FS_CardinalityType
<1>4. ASSUME NEW w \in Wrappers, f[w] = o PROVE Cardinality(HoldersIn(f, o)) > 0
  <2>1. HoldersIn(f, o) # {}
    BY <1>4 DEF HoldersIn
  <2>2. Cardinality(HoldersIn(f, o)) # 0
    BY <1>2, <2>1, FS_EmptySet
  <2> QED
    BY <1>3, <2>2
<1> QED
  BY <1>2, <1>3, <1>4

\* What changes of the number of holders when one wrapper changes.
LEMMA HolderChanges ==
  ASSUME NEW f \in [Wrappers -> Maybe], NEW o, NEW w \in Wrappers, NEW x \in Maybe
  PROVE  Cardinality(HoldersIn([f EXCEPT ![w] = x], o))
           = Cardinality(HoldersIn(f, o)) - One(f[w], o) + One(x, o)
<1> DEFINE g == [f EXCEPT ![w] = x]
<1>1. IsFiniteSet(HoldersIn(f, o)) /\ Cardinality(HoldersIn(f, o)) \in Nat
  BY HolderCounts
<1>2. CASE f[w] = o /\ x # o
  <2>1. HoldersIn(g, o) = HoldersIn(f, o) \ {w} /\ w \in HoldersIn(f, o)
    BY <1>2 DEF HoldersIn
  <2>2. Cardinality(HoldersIn(g, o)) = Cardinality(HoldersIn(f, o)) - 1
    BY <1>1, <2>1, FS_RemoveElement
  <2> QED
    BY <1>1, <1>2, <2>2 DEF One
<1>3. CASE f[w] # o /\ x = o
  <2>1. HoldersIn(g, o) = HoldersIn(f, o) \cup {w} /\ w \notin HoldersIn(f, o)
    BY <1>3 DEF HoldersIn
  <2>2. Cardinality(HoldersIn(g, o)) = Cardinality(HoldersIn(f, o)) + 1
    BY <1>1, <2>1, FS_AddElement
  <2> QED
    BY <1>1, <1>3, <2>2 DEF One
<1>4. CASE (f[w] = o) = (x = o)
  <2>1. HoldersIn(g, o) = HoldersIn(f, o)
    BY <1>4 DEF HoldersIn
  <2> QED
    BY <1>1, <1>4, <2>1 DEF One
<1> QED
  BY <1>2, <1>3, <1>4

\* Everything that is held, by anyone, is live.
LEMMA HeldIsLive ==
  ASSUME IndInv
  PROVE  /\ ObjectInv
         /\ \A o \in Objects : Cardinality(Holders(o)) \in Nat /\ count[o] = References(o)
         /\ \A w \in Wrappers : value[w] # None => count[value[w]] > 0
         /\ \A o \in Objects : raw[o] > 0 \/ engine[o] > 0 => count[o] > 0
<1>1. ObjectInv
  BY DEF IndInv, ObjectInv, TypeOK, CountExact, ConstructionInv
<1>2. \A o \in Objects : Cardinality(Holders(o)) \in Nat /\ count[o] = References(o)
  <2> SUFFICES ASSUME NEW o \in Objects
               PROVE Cardinality(Holders(o)) \in Nat /\ count[o] = References(o)
    OBVIOUS
  <2>1. Holders(o) = HoldersIn(value, o)
    BY DEF Holders, HoldersIn
  <2> QED
    BY <2>1, HolderCounts DEF IndInv, CountExact, References
<1>3. ASSUME NEW w \in Wrappers, value[w] # None PROVE count[value[w]] > 0
  <2>1. value[w] \in Objects
    BY <1>3 DEF IndInv, TypeOK
  <2>2. Holders(value[w]) = HoldersIn(value, value[w])
    BY DEF Holders, HoldersIn
  <2>3. Cardinality(Holders(value[w])) > 0
    BY <2>2, HolderCounts
  <2>4. raw[value[w]] \in Nat /\ engine[value[w]] \in Nat
    BY <2>1, OwnershipAssumption DEF IndInv, TypeOK
  <2> QED
    BY <1>2, <2>1, <2>3, <2>4 DEF References
<1>4. \A o \in Objects : raw[o] > 0 \/ engine[o] > 0 => count[o] > 0
  <2> SUFFICES ASSUME NEW o \in Objects PROVE raw[o] > 0 \/ engine[o] > 0 => count[o] > 0
    OBVIOUS
  <2>1. raw[o] \in Nat /\ engine[o] \in Nat
    BY OwnershipAssumption DEF IndInv, TypeOK
  <2> QED
    BY <1>2, <2>1 DEF References
<1> QED
  BY <1>1, <1>2, <1>3, <1>4

-------------------------------------------------------------------------------
(* Operations on objects.                                                    *)

\* Freeing a reference that exists and duplicating one that outlives this keeps objects and
\* instances in order.
LEMMA FreeThenDupKeeps ==
  ASSUME ObjectInv,
         NEW old \in Maybe, old # None => count[old] > 0,
         NEW new \in Maybe, new # None => count[new] > 0 /\ (new = old => count[new] > 1),
         FreeThenDup(old, new)
  PROVE  /\ ObjectInv'
         /\ \A o \in Objects : count'[o] = count[o] - One(o, old) + One(o, new)
         /\ UNCHANGED <<classed, opaque>>
<1>1. \A o \in Objects : count'[o] = count[o] - One(o, old) + One(o, new)
  BY DEF FreeThenDup
<1>2. \A o \in Objects : count'[o] \in Nat
  <2> SUFFICES ASSUME NEW o \in Objects PROVE count'[o] \in Nat
    OBVIOUS
  <2>1. count[o] \in Nat /\ (o = old => count[o] > 0)
    BY OwnershipAssumption DEF ObjectInv
  <2> QED
    BY <1>1, <2>1 DEF One
<1>3. state' \in [Objects -> {"unborn", "live", "freed"}]
  BY DEF FreeThenDup, ObjectInv
<1>4. \A o \in Objects : state'[o] = "live" <=> count'[o] > 0
  <2> SUFFICES ASSUME NEW o \in Objects PROVE state'[o] = "live" <=> count'[o] > 0
    OBVIOUS
  <2>1. /\ count[o] \in Nat /\ (state[o] = "live" <=> count[o] > 0)
        /\ o # None /\ (o = new => count[o] > 0 /\ (new = old => count[o] > 1))
        /\ count'[o] = count[o] - One(o, old) + One(o, new)
    BY <1>1, OwnershipAssumption DEF ObjectInv
  <2>2. state'[o] = IF o = old /\ count[o] = 1 THEN "freed" ELSE state[o]
    BY <2>1 DEF FreeThenDup, Freed, ObjectInv
  <2> QED
    BY <2>1, <2>2 DEF One
<1>9. count' \in [Objects -> Nat]
  BY <1>2 DEF FreeThenDup
<1>5. \A o \in classed : state'[o] # "unborn"
  BY DEF FreeThenDup, ObjectInv
<1>6. instance' \in [Instances -> {"unborn", "alive", "destroyed"}]
  BY DEF FreeThenDup, Finalize, ObjectInv
<1>7. InstanceInv'
  <2>1. CASE Freed(old) /\ opaque[old] # None
    <3>1. old \in Objects /\ opaque[old] \in Instances
      BY <2>1 DEF Freed, Maybe, ObjectInv
    <3>2. /\ state' = [state EXCEPT ![old] = "freed"] /\ opaque' = opaque
          /\ instance' = [instance EXCEPT ![opaque[old]] = "destroyed"]
      BY <2>1 DEF FreeThenDup, Finalize
    <3> QED
      BY <3>1, <3>2, <2>1 DEF ObjectInv, InstanceInv
  <2>2. CASE Freed(old) /\ opaque[old] = None
    <3>1. /\ state' = [state EXCEPT ![old] = "freed"] /\ opaque' = opaque /\ instance' = instance
      BY <2>2 DEF FreeThenDup, Finalize
    <3> QED
      BY <3>1, <2>2 DEF ObjectInv, InstanceInv
  <2>3. CASE ~Freed(old)
    BY <2>3 DEF FreeThenDup, Finalize, ObjectInv, InstanceInv
  <2> QED
    BY <2>1, <2>2, <2>3
<1>8. UNCHANGED <<classed, opaque>>
  BY DEF FreeThenDup
<1> QED
  BY <1>1, <1>3, <1>4, <1>5, <1>6, <1>7, <1>8, <1>9 DEF ObjectInv

\* A new object has one reference, and nobody held it before.
LEMMA NewObjectKeeps ==
  ASSUME IndInv, NEW o \in Objects, NewObject(o)
  PROVE  /\ count'[o] = 1 /\ References(o) = 0 /\ count[o] = 0
         /\ \A p \in Objects \ {o} : count'[p] = count[p] /\ state'[p] = state[p]
         /\ state' \in [Objects -> {"unborn", "live", "freed"}] /\ state'[o] = "live"
         /\ count' \in [Objects -> Nat]
         /\ \A p \in Objects : state'[p] = "live" <=> count'[p] > 0
         /\ o \notin classed /\ opaque[o] = None
<1>1. count[o] = 0
  BY HeldIsLive DEF ObjectInv, NewObject
<1>2. References(o) = 0
  BY <1>1, HeldIsLive
<1> QED
  BY <1>1, <1>2 DEF NewObject, IndInv, TypeOK, CountExact, ConstructionInv, InstanceInv

-------------------------------------------------------------------------------
(* JSValues outside of wrappers.                                             *)

\* The types of those who hold references.
HolderTypes ==
  /\ engine \in [Objects -> 0..MaxRefs] /\ raw \in [Objects -> 0..MaxRefs]
  /\ built \subseteq Wrappers /\ value \in [Wrappers -> Maybe]
  /\ constructing \in {"no", "opaque", "post", "posted"}

\* References of JavaScript code and of JSValues may come and go if the count follows.
LEMMA RawKeeps ==
  ASSUME IndInv, ObjectInv', HolderTypes', UNCHANGED <<wrapperVars, constructing, classed, opaque>>,
         \A o \in Objects : count'[o] = count[o] + (raw'[o] - raw[o]) + (engine'[o] - engine[o]),
         \A o \in classed : opaque[o] = None => raw'[o] = 0 /\ engine'[o] = 0
  PROVE  IndInv'
<1>2. \A o \in Objects : Holders(o)' = Holders(o)
  BY DEF Holders, wrapperVars
<1>3. CountExact'
  <2> SUFFICES ASSUME NEW o \in Objects
               PROVE  /\ count'[o] = Cardinality(Holders(o)') + raw'[o] + engine'[o]
                      /\ state'[o] = "live" <=> count'[o] > 0
    BY DEF CountExact
  <2>1. /\ Cardinality(Holders(o)) \in Nat
        /\ count[o] = Cardinality(Holders(o)) + raw[o] + engine[o]
    BY HeldIsLive DEF References
  <2>2. raw[o] \in Nat /\ engine[o] \in Nat /\ raw'[o] \in Nat /\ engine'[o] \in Nat
    BY OwnershipAssumption DEF IndInv, TypeOK, HolderTypes
  <2> QED
    BY <1>2, <2>1, <2>2 DEF ObjectInv
<1>4. ConstructionInv'
  BY DEF IndInv, ConstructionInv, wrapperVars, ObjectInv
<1>5. SeenHasInstance'
  BY <1>2 DEF IndInv, TypeOK, SeenHasInstance
<1> QED
  BY <1>3, <1>4, <1>5 DEF IndInv, TypeOK, ObjectInv, HolderTypes, Maybe

LEMMA NewReferenceStep == ASSUME IndInv, NewReference PROVE IndInv'
<1>1. PICK o \in Objects :
        /\ engine[o] > 0 \/ \E w \in built \ {Frame} : value[w] = o
        /\ Gains(raw, o) /\ FreeThenDup(None, o)
  BY DEF NewReference
<1>2. count[o] > 0 /\ o # None
  BY <1>1, HeldIsLive, OwnershipAssumption DEF IndInv, TypeOK
<1>3. /\ ObjectInv' /\ UNCHANGED <<classed, opaque>>
      /\ \A p \in Objects : count'[p] = count[p] - One(p, None) + One(p, o)
  BY <1>1, <1>2, HeldIsLive, FreeThenDupKeeps DEF Maybe
<1>4. UNCHANGED <<wrapperVars, engine, constructing>> /\ raw' = [raw EXCEPT ![o] = @ + 1]
      /\ raw[o] < MaxRefs
  BY <1>1 DEF NewReference, Gains
<1>5. HolderTypes'
  BY <1>4, OwnershipAssumption DEF IndInv, TypeOK, HolderTypes, wrapperVars, Maybe
<1>6. \A p \in Objects : count'[p] = count[p] + (raw'[p] - raw[p]) + (engine'[p] - engine[p])
  BY <1>3, <1>4, OwnershipAssumption DEF One, IndInv, TypeOK
<1>7. \A p \in classed : opaque[p] = None => raw'[p] = 0 /\ engine'[p] = 0
  <2>1. o \in classed => opaque[o] # None
    BY <1>1, OwnershipAssumption DEF IndInv, TypeOK, SeenHasInstance, Holders
  <2> QED
    BY <1>4, <2>1 DEF IndInv, TypeOK, SeenHasInstance
<1> QED
  BY <1>3, <1>4, <1>5, <1>6, <1>7, RawKeeps

LEMMA GiveStep == ASSUME IndInv, Give PROVE IndInv'
<1>1. PICK o \in Objects : Drops(raw, o) /\ Gains(engine, o)
  BY DEF Give
<1>2. /\ raw' = [raw EXCEPT ![o] = @ - 1] /\ engine' = [engine EXCEPT ![o] = @ + 1]
      /\ raw[o] > 0 /\ engine[o] < MaxRefs /\ UNCHANGED <<objectVars, wrapperVars, constructing>>
  BY <1>1 DEF Give, Gains, Drops
<1>3. ObjectInv' /\ UNCHANGED <<classed, opaque, count>>
  BY <1>2, HeldIsLive DEF objectVars, ObjectInv, InstanceInv
<1>4. HolderTypes'
  BY <1>2, OwnershipAssumption DEF IndInv, TypeOK, HolderTypes, wrapperVars, Maybe
<1>5. \A p \in Objects : count'[p] = count[p] + (raw'[p] - raw[p]) + (engine'[p] - engine[p])
  BY <1>2, <1>3, OwnershipAssumption DEF IndInv, TypeOK
<1>6. \A p \in classed : opaque[p] = None => raw'[p] = 0 /\ engine'[p] = 0
  BY <1>2 DEF IndInv, TypeOK, SeenHasInstance
<1> QED
  BY <1>2, <1>3, <1>4, <1>5, <1>6, RawKeeps

LEMMA FreeRawStep == ASSUME IndInv, FreeRaw PROVE IndInv'
<1>1. PICK o \in Objects : Drops(raw, o) /\ FreeThenDup(o, None)
  BY DEF FreeRaw
<1>2. /\ raw' = [raw EXCEPT ![o] = @ - 1] /\ raw[o] > 0
      /\ UNCHANGED <<wrapperVars, engine, constructing>>
  BY <1>1 DEF FreeRaw, Drops
<1>3. count[o] > 0 /\ o # None
  BY <1>2, HeldIsLive, OwnershipAssumption
<1>4. /\ ObjectInv' /\ UNCHANGED <<classed, opaque>>
      /\ \A p \in Objects : count'[p] = count[p] - One(p, o) + One(p, None)
  BY <1>1, <1>3, HeldIsLive, FreeThenDupKeeps DEF Maybe
<1>5. HolderTypes'
  BY <1>2, OwnershipAssumption DEF IndInv, TypeOK, HolderTypes, wrapperVars, Maybe
<1>6. \A p \in Objects : count'[p] = count[p] + (raw'[p] - raw[p]) + (engine'[p] - engine[p])
  BY <1>2, <1>4, OwnershipAssumption DEF One, IndInv, TypeOK
<1>7. \A p \in classed : opaque[p] = None => raw'[p] = 0 /\ engine'[p] = 0
  BY <1>2 DEF IndInv, TypeOK, SeenHasInstance
<1> QED
  BY <1>2, <1>4, <1>5, <1>6, <1>7, RawKeeps

LEMMA EngineDupsStep == ASSUME IndInv, EngineDups PROVE IndInv'
<1>1. PICK o \in Objects : engine[o] > 0 /\ Gains(engine, o) /\ FreeThenDup(None, o)
  BY DEF EngineDups
<1>2. /\ engine' = [engine EXCEPT ![o] = @ + 1] /\ engine[o] > 0 /\ engine[o] < MaxRefs
      /\ UNCHANGED <<wrapperVars, raw, constructing>>
  BY <1>1 DEF EngineDups, Gains
<1>3. count[o] > 0 /\ o # None
  BY <1>2, HeldIsLive, OwnershipAssumption
<1>4. /\ ObjectInv' /\ UNCHANGED <<classed, opaque>>
      /\ \A p \in Objects : count'[p] = count[p] - One(p, None) + One(p, o)
  BY <1>1, <1>3, HeldIsLive, FreeThenDupKeeps DEF Maybe
<1>5. HolderTypes'
  BY <1>2, OwnershipAssumption DEF IndInv, TypeOK, HolderTypes, wrapperVars, Maybe
<1>6. \A p \in Objects : count'[p] = count[p] + (raw'[p] - raw[p]) + (engine'[p] - engine[p])
  BY <1>2, <1>4, OwnershipAssumption DEF One, IndInv, TypeOK
<1>7. \A p \in classed : opaque[p] = None => raw'[p] = 0 /\ engine'[p] = 0
  BY <1>2 DEF IndInv, TypeOK, SeenHasInstance
<1> QED
  BY <1>2, <1>4, <1>5, <1>6, <1>7, RawKeeps

LEMMA EngineDropsStep == ASSUME IndInv, EngineDrops PROVE IndInv'
<1>1. PICK o \in Objects : Drops(engine, o) /\ FreeThenDup(o, None)
  BY DEF EngineDrops
<1>2. /\ engine' = [engine EXCEPT ![o] = @ - 1] /\ engine[o] > 0
      /\ UNCHANGED <<wrapperVars, raw, constructing>>
  BY <1>1 DEF EngineDrops, Drops
<1>3. count[o] > 0 /\ o # None
  BY <1>2, HeldIsLive, OwnershipAssumption
<1>4. /\ ObjectInv' /\ UNCHANGED <<classed, opaque>>
      /\ \A p \in Objects : count'[p] = count[p] - One(p, o) + One(p, None)
  BY <1>1, <1>3, HeldIsLive, FreeThenDupKeeps DEF Maybe
<1>5. HolderTypes'
  BY <1>2, OwnershipAssumption DEF IndInv, TypeOK, HolderTypes, wrapperVars, Maybe
<1>6. \A p \in Objects : count'[p] = count[p] + (raw'[p] - raw[p]) + (engine'[p] - engine[p])
  BY <1>2, <1>4, OwnershipAssumption DEF One, IndInv, TypeOK
<1>7. \A p \in classed : opaque[p] = None => raw'[p] = 0 /\ engine'[p] = 0
  BY <1>2 DEF IndInv, TypeOK, SeenHasInstance
<1> QED
  BY <1>2, <1>4, <1>5, <1>6, <1>7, RawKeeps

LEMMA NewValueStep == ASSUME IndInv, NewValue PROVE IndInv'
<1>1. PICK o \in Objects : NewObject(o) /\ Gains(raw, o)
  BY DEF NewValue
<1>2. /\ raw' = [raw EXCEPT ![o] = @ + 1] /\ raw[o] < MaxRefs
      /\ UNCHANGED <<classed, opaque, instance, wrapperVars, engine, constructing>>
  BY <1>1 DEF NewValue, Gains
<1>3. /\ count'[o] = 1 /\ count[o] = 0
      /\ \A p \in Objects \ {o} : count'[p] = count[p] /\ state'[p] = state[p]
      /\ o \notin classed /\ opaque[o] = None /\ state'[o] = "live"
  BY <1>1, NewObjectKeeps
<1>4. ObjectInv'
  BY <1>1, <1>2, <1>3, NewObjectKeeps DEF ObjectInv, InstanceInv, IndInv, TypeOK, ConstructionInv
<1>5. HolderTypes'
  BY <1>2, OwnershipAssumption DEF IndInv, TypeOK, HolderTypes, wrapperVars, Maybe
<1>6. \A p \in Objects : count'[p] = count[p] + (raw'[p] - raw[p]) + (engine'[p] - engine[p])
  BY <1>2, <1>3, OwnershipAssumption DEF IndInv, TypeOK
<1>7. \A p \in classed : opaque[p] = None => raw'[p] = 0 /\ engine'[p] = 0
  BY <1>2, <1>3 DEF IndInv, TypeOK, SeenHasInstance
<1> QED
  BY <1>2, <1>4, <1>5, <1>6, <1>7, RawKeeps

-------------------------------------------------------------------------------
(* Wrappers.                                                                 *)

\* The count follows when the count of an object changes as its holders do.
LEMMA CountFollows ==
  ASSUME IndInv, ObjectInv', HolderTypes',
         \A o \in Objects :
           count'[o] = count[o] + (raw'[o] - raw[o]) + (engine'[o] - engine[o])
             + (Cardinality(HoldersIn(value', o)) - Cardinality(HoldersIn(value, o)))
  PROVE  CountExact'
<1> SUFFICES ASSUME NEW o \in Objects
             PROVE  /\ count'[o] = Cardinality(Holders(o)') + raw'[o] + engine'[o]
                    /\ state'[o] = "live" <=> count'[o] > 0
  BY DEF CountExact
<1>1. Holders(o) = HoldersIn(value, o) /\ Holders(o)' = HoldersIn(value', o)
  BY DEF Holders, HoldersIn
<1>2. Cardinality(HoldersIn(value, o)) \in Nat /\ Cardinality(HoldersIn(value', o)) \in Nat
  BY HolderCounts
<1>3. count[o] = Cardinality(Holders(o)) + raw[o] + engine[o]
  BY DEF IndInv, CountExact
<1>4. raw[o] \in Nat /\ engine[o] \in Nat /\ raw'[o] \in Nat /\ engine'[o] \in Nat
  BY OwnershipAssumption DEF IndInv, TypeOK, HolderTypes
<1> QED
  BY <1>1, <1>2, <1>3, <1>4 DEF ObjectInv

\* Raw references of objects without their instance, and wrappers of them, are not made.
Decent ==
  \A o \in classed : opaque[o] = None => raw'[o] = 0 /\ engine'[o] = 0

\* The wrapper w comes to hold x, and the count follows.
Assigned(w, x) ==
  /\ value' = [value EXCEPT ![w] = x]
  /\ built' = built \cup {w} \/ (built' = built \ {w} /\ x = None)
  /\ constructing' = constructing \/ (constructing = "post" /\ constructing' = "posted")
  /\ \A o \in classed : opaque[o] = None => x # o
  /\ \A o \in Objects : count'[o] = count[o] + (raw'[o] - raw[o]) + (engine'[o] - engine[o])
                                    - One(value[w], o) + One(x, o)

\* A wrapper other than that of a constructor is built, destroyed or changed.
LEMMA OneWrapper ==
  ASSUME IndInv, ObjectInv', HolderTypes', UNCHANGED <<classed, opaque>>, Decent,
         NEW w \in Places, NEW x \in Maybe, Assigned(w, x)
  PROVE  IndInv'
<1> USE DEF Assigned
<1>1. w \in Wrappers /\ w # Frame /\ value \in [Wrappers -> Maybe]
  BY DEF Places, IndInv, TypeOK, Maybe
<1>2. CountExact'
  <2> SUFFICES ASSUME NEW o \in Objects
               PROVE  count'[o] = count[o] + (raw'[o] - raw[o]) + (engine'[o] - engine[o])
                 + (Cardinality(HoldersIn(value', o)) - Cardinality(HoldersIn(value, o)))
    BY CountFollows
  <2>1. Cardinality(HoldersIn(value', o))
          = Cardinality(HoldersIn(value, o)) - One(value[w], o) + One(x, o)
    BY <1>1, HolderChanges
  <2>2. Cardinality(HoldersIn(value, o)) \in Nat
    BY HolderCounts
  <2>3. raw[o] \in Nat /\ engine[o] \in Nat /\ raw'[o] \in Nat /\ engine'[o] \in Nat
        /\ count[o] \in Nat
    BY OwnershipAssumption DEF IndInv, TypeOK, HolderTypes
  <2> QED
    BY <2>1, <2>2, <2>3 DEF One
<1>3. ConstructionInv'
  <2>1. \A u \in Wrappers \ built' : value'[u] = None
    BY <1>1 DEF IndInv, ConstructionInv
  <2>2. value'[Frame] = value[Frame] /\ (Frame \in built' <=> Frame \in built)
    BY <1>1, OwnershipAssumption
  <2> QED
    BY <2>1, <2>2 DEF IndInv, ConstructionInv, ObjectInv
<1>4. SeenHasInstance'
  BY <1>1 DEF IndInv, TypeOK, SeenHasInstance, Decent, Holders
<1> QED
  BY <1>2, <1>3, <1>4 DEF IndInv, TypeOK, ObjectInv, HolderTypes, Maybe

\* The value of v goes to w, and what w held is freed.
Moved(w, v) ==
  /\ value' = [value EXCEPT ![w] = value[v], ![v] = None]
  /\ built' = built \cup {w}
  /\ UNCHANGED <<raw, engine, constructing>>
  /\ \A o \in Objects : count'[o] = count[o] - One(value[w], o)

LEMMA HolderMoves ==
  ASSUME NEW f \in [Wrappers -> Maybe], NEW o \in Objects, NEW w \in Wrappers, NEW v \in Wrappers
  PROVE  Cardinality(HoldersIn([f EXCEPT ![w] = f[v], ![v] = None], o))
           = Cardinality(HoldersIn(f, o)) - One(f[w], o)
<1>1. \A h \in [Wrappers -> Maybe], u \in Wrappers, y \in Maybe :
        Cardinality(HoldersIn([h EXCEPT ![u] = y], o))
          = Cardinality(HoldersIn(h, o)) - One(h[u], o) + One(y, o)
  BY HolderChanges
<1>2. f[v] \in Maybe /\ None \in Maybe /\ None # o
  BY OwnershipAssumption DEF Maybe
<1>3. PICK g \in [Wrappers -> Maybe] : g = [f EXCEPT ![w] = f[v]]
  BY <1>2
<1>4. Cardinality(HoldersIn(g, o)) = Cardinality(HoldersIn(f, o)) - One(f[w], o) + One(f[v], o)
  <2>1. Cardinality(HoldersIn([f EXCEPT ![w] = f[v]], o))
          = Cardinality(HoldersIn(f, o)) - One(f[w], o) + One(f[v], o)
    BY <1>1, <1>2
  <2> QED
    BY <1>3, <2>1
<1>5. Cardinality(HoldersIn([g EXCEPT ![v] = None], o))
        = Cardinality(HoldersIn(g, o)) - One(g[v], o) + One(None, o)
  BY <1>1, <1>2
<1>6. g[v] = f[v] /\ [f EXCEPT ![w] = f[v], ![v] = None] = [g EXCEPT ![v] = None]
  BY <1>3
<1>7. Cardinality(HoldersIn(f, o)) \in Nat
  BY HolderCounts
<1> QED
  BY <1>2, <1>4, <1>5, <1>6, <1>7 DEF One

LEMMA TwoWrappers ==
  ASSUME IndInv, ObjectInv', HolderTypes', UNCHANGED <<classed, opaque>>,
         NEW w \in Places, NEW v \in built \ {Frame}, Moved(w, v)
  PROVE  IndInv'
<1>1. /\ w \in Wrappers /\ w # Frame /\ v \in Wrappers /\ v # Frame
      /\ value \in [Wrappers -> Maybe]
  BY DEF Places, IndInv, TypeOK, Maybe
<1>2. /\ value'[v] = None /\ value'[w] \in {value[v], None}
      /\ \A u \in Wrappers \ {w, v} : value'[u] = value[u]
  BY <1>1 DEF Moved
<1>3. CountExact'
  <2> SUFFICES ASSUME NEW o \in Objects
               PROVE  count'[o] = count[o] + (raw'[o] - raw[o]) + (engine'[o] - engine[o])
                 + (Cardinality(HoldersIn(value', o)) - Cardinality(HoldersIn(value, o)))
    BY CountFollows
  <2>1. Cardinality(HoldersIn(value', o)) = Cardinality(HoldersIn(value, o)) - One(value[w], o)
    BY <1>1, HolderMoves DEF Moved
  <2>2. Cardinality(HoldersIn(value, o)) \in Nat
    BY HolderCounts
  <2>3. raw[o] \in Nat /\ engine[o] \in Nat /\ count[o] \in Nat
    BY OwnershipAssumption DEF IndInv, TypeOK
  <2> QED
    BY <2>1, <2>2, <2>3 DEF One, Moved
<1>4. ConstructionInv'
  <2>1. \A u \in Wrappers \ built' : value'[u] = None
    BY <1>1, <1>2 DEF IndInv, ConstructionInv, Moved
  <2>2. value'[Frame] = value[Frame] /\ (Frame \in built' <=> Frame \in built)
    BY <1>1, <1>2, OwnershipAssumption DEF Moved
  <2>3. UNCHANGED constructing /\ \A o \in classed' : state'[o] # "unborn"
    BY DEF Moved, ObjectInv
  <2> QED
    BY <2>1, <2>2, <2>3 DEF IndInv, ConstructionInv
<1>5. SeenHasInstance'
  <2>1. \A o \in classed : opaque[o] = None =>
          raw[o] = 0 /\ engine[o] = 0 /\ \A u \in Wrappers \ {Frame} : value[u] # o
    BY DEF IndInv, TypeOK, SeenHasInstance, Holders
  <2>2. \A o \in classed : opaque[o] = None => \A u \in Wrappers \ {Frame} : value'[u] # o
    BY <1>1, <1>2, <2>1, OwnershipAssumption DEF IndInv, TypeOK
  <2> QED
    BY <2>1, <2>2 DEF SeenHasInstance, Holders, Moved
<1> QED
  BY <1>3, <1>4, <1>5 DEF IndInv, TypeOK, ObjectInv, HolderTypes, Maybe

\* What a wrapper other than that of a constructor holds has its instance.
LEMMA HeldHasInstance ==
  ASSUME IndInv, NEW v \in built \ {Frame}, NEW o \in classed, opaque[o] = None
  PROVE  value[v] # o
BY DEF IndInv, TypeOK, SeenHasInstance, Holders

LEMMA WrapStep == ASSUME IndInv, Wrap PROVE IndInv'
<1>1. PICK o \in Objects, w \in Places : Drops(raw, o) /\ Builds(w, o)
  BY DEF Wrap
<1>2. /\ raw' = [raw EXCEPT ![o] = @ - 1] /\ raw[o] > 0 /\ UNCHANGED <<objectVars, engine, constructing>>
      /\ w \notin built /\ built' = built \cup {w} /\ value' = [value EXCEPT ![w] = o]
  BY <1>1 DEF Wrap, Drops, Builds
<1>3. ObjectInv' /\ UNCHANGED <<classed, opaque, count>>
  BY <1>2, HeldIsLive DEF objectVars, ObjectInv, InstanceInv
<1>4. HolderTypes'
  BY <1>2, OwnershipAssumption DEF IndInv, TypeOK, HolderTypes, Places, Maybe
<1>5. Decent /\ \A p \in classed : opaque[p] = None => o # p
  BY <1>2, OwnershipAssumption DEF IndInv, TypeOK, SeenHasInstance, Decent
<1>6. value[w] = None /\ o \in Maybe /\ w \in built'
  BY <1>2 DEF Places, IndInv, ConstructionInv, Maybe
<1>7. \A p \in Objects : count'[p] = count[p] + (raw'[p] - raw[p]) + (engine'[p] - engine[p])
                                          - One(value[w], p) + One(o, p)
  BY <1>2, <1>3, <1>6, OwnershipAssumption DEF IndInv, TypeOK, One
<1>8. Assigned(w, o)
  BY <1>2, <1>3, <1>4, <1>5, <1>6, <1>7 DEF Assigned
<1> QED
  BY <1>2, <1>3, <1>4, <1>5, <1>6, <1>7, <1>8, OneWrapper

LEMMA CopyConstructStep == ASSUME IndInv, CopyConstruct PROVE IndInv'
<1>1. PICK v \in built \ {Frame}, w \in Places :
        Builds(w, value[v]) /\ FreeThenDup(None, value[v])
  BY DEF CopyConstruct
<1>2. /\ UNCHANGED <<engine, raw, constructing>>
      /\ w \notin built /\ built' = built \cup {w} /\ value' = [value EXCEPT ![w] = value[v]]
  BY <1>1 DEF CopyConstruct, Builds
<1>3. v \in Wrappers /\ value[v] \in Maybe /\ (value[v] # None => count[value[v]] > 0)
  BY HeldIsLive DEF IndInv, TypeOK, Maybe
<1>4. /\ ObjectInv' /\ UNCHANGED <<classed, opaque>>
      /\ \A p \in Objects : count'[p] = count[p] - One(p, None) + One(p, value[v])
  BY <1>1, <1>3, HeldIsLive, FreeThenDupKeeps DEF Maybe
<1>5. HolderTypes'
  BY <1>2, <1>3 DEF IndInv, TypeOK, HolderTypes, Places, Maybe
<1>6. Decent /\ \A p \in classed : opaque[p] = None => value[v] # p
  BY <1>2, HeldHasInstance DEF IndInv, TypeOK, SeenHasInstance, Decent
<1>7. value[w] = None /\ w \in built'
  BY <1>2 DEF Places, IndInv, ConstructionInv
<1>8. \A p \in Objects : count'[p] = count[p] + (raw'[p] - raw[p]) + (engine'[p] - engine[p])
                                          - One(value[w], p) + One(value[v], p)
  BY <1>2, <1>4, <1>7, OwnershipAssumption DEF IndInv, TypeOK, One
<1>9. Assigned(w, value[v])
  BY <1>2, <1>3, <1>4, <1>5, <1>6, <1>7, <1>8 DEF Assigned
<1> QED
  BY <1>2, <1>3, <1>4, <1>5, <1>6, <1>7, <1>8, <1>9, OneWrapper

LEMMA MoveConstructStep == ASSUME IndInv, MoveConstruct PROVE IndInv'
<1>1. PICK v \in built \ {Frame}, w \in Places \ built :
        /\ built' = built \cup {w}
        /\ value' = [value EXCEPT ![w] = value[v], ![v] = None]
  BY DEF MoveConstruct
<1>2. UNCHANGED <<objectVars, engine, raw, constructing>>
  BY DEF MoveConstruct
<1>3. ObjectInv' /\ UNCHANGED <<classed, opaque, count>>
  BY <1>2, HeldIsLive DEF objectVars, ObjectInv, InstanceInv
<1>4. HolderTypes'
  BY <1>1, <1>2 DEF IndInv, TypeOK, HolderTypes, Places, Maybe
<1>5. value[w] = None /\ w \in built' /\ w \in Places
  BY <1>1 DEF Places, IndInv, ConstructionInv
<1>6. \A p \in Objects : count'[p] = count[p] - One(value[w], p)
  BY <1>3, <1>5, OwnershipAssumption DEF IndInv, TypeOK, One
<1>7. Moved(w, v)
  BY <1>1, <1>2, <1>3, <1>4, <1>5, <1>6 DEF Moved
<1> QED
  BY <1>1, <1>2, <1>3, <1>4, <1>5, <1>6, <1>7, TwoWrappers

LEMMA CopyAssignStep == ASSUME IndInv, CopyAssign PROVE IndInv'
<1>1. PICK w \in built \ {Frame}, v \in built \ {Frame} :
        /\ v # w
        /\ FreeThenDup(value[w], value[v])
        /\ value' = [value EXCEPT ![w] = value[v]]
  BY DEF CopyAssign
<1>2. UNCHANGED <<built, engine, raw, constructing>> /\ w \in Places
  BY DEF CopyAssign, Places, IndInv, TypeOK
<1>3. /\ v \in Wrappers /\ value[v] \in Maybe /\ (value[v] # None => count[value[v]] > 0)
      /\ w \in Wrappers /\ value[w] \in Maybe /\ (value[w] # None => count[value[w]] > 0)
  BY HeldIsLive DEF IndInv, TypeOK, Maybe
<1>4. ASSUME value[v] # None, value[v] = value[w] PROVE count[value[v]] > 1
  <2> DEFINE o == value[v]
             g == [value EXCEPT ![w] = None]
  <2>1. o \in Objects /\ value \in [Wrappers -> Maybe] /\ None \in Maybe
    BY <1>3, <1>4 DEF Maybe, IndInv, TypeOK
  <2>2. Cardinality(HoldersIn(g, o)) = Cardinality(HoldersIn(value, o)) - One(value[w], o) + One(None, o)
    BY <1>3, <2>1, HolderChanges
  <2>3. Cardinality(HoldersIn(g, o)) > 0
    BY <1>1, <1>3, <2>1, HolderCounts
  <2>4. Cardinality(HoldersIn(g, o)) \in Nat /\ Cardinality(HoldersIn(value, o)) \in Nat
    BY HolderCounts
  <2>5. count[o] = Cardinality(HoldersIn(value, o)) + raw[o] + engine[o]
    BY <2>1 DEF IndInv, CountExact, Holders, HoldersIn
  <2>6. raw[o] \in Nat /\ engine[o] \in Nat
    BY <2>1, OwnershipAssumption DEF IndInv, TypeOK
  <2> QED
    BY <1>4, <2>2, <2>3, <2>4, <2>5, <2>6 DEF One
<1>5. /\ ObjectInv' /\ UNCHANGED <<classed, opaque>>
      /\ \A p \in Objects : count'[p] = count[p] - One(p, value[w]) + One(p, value[v])
  BY <1>1, <1>3, <1>4, HeldIsLive, FreeThenDupKeeps
<1>6. HolderTypes'
  BY <1>1, <1>2, <1>3 DEF IndInv, TypeOK, HolderTypes, Maybe
<1>7. Decent /\ \A p \in classed : opaque[p] = None => value[v] # p
  BY <1>2, HeldHasInstance DEF IndInv, TypeOK, SeenHasInstance, Decent
<1>8. \A p \in Objects : count'[p] = count[p] + (raw'[p] - raw[p]) + (engine'[p] - engine[p])
                                          - One(value[w], p) + One(value[v], p)
  BY <1>2, <1>5, OwnershipAssumption DEF IndInv, TypeOK, One
<1>9. Assigned(w, value[v])
  BY <1>1, <1>2, <1>3, <1>5, <1>6, <1>7, <1>8 DEF Assigned
<1> QED
  BY <1>1, <1>2, <1>3, <1>5, <1>6, <1>7, <1>8, <1>9, OneWrapper

LEMMA MoveAssignStep == ASSUME IndInv, MoveAssign PROVE IndInv'
<1>1. PICK w \in built \ {Frame}, v \in built \ {Frame} :
        /\ FreeThenDup(value[w], None)
        /\ value' = [value EXCEPT ![w] = value[v], ![v] = None]
  BY DEF MoveAssign
<1>2. UNCHANGED <<built, engine, raw, constructing>> /\ w \in Places /\ w \in built'
  BY DEF MoveAssign, Places, IndInv, TypeOK
<1>3. /\ value[w] \in Maybe /\ (value[w] # None => count[value[w]] > 0)
  BY HeldIsLive DEF IndInv, TypeOK, Maybe
<1>4. /\ ObjectInv' /\ UNCHANGED <<classed, opaque>>
      /\ \A p \in Objects : count'[p] = count[p] - One(p, value[w]) + One(p, None)
  BY <1>1, <1>3, HeldIsLive, FreeThenDupKeeps DEF Maybe
<1>5. HolderTypes'
  BY <1>1, <1>2 DEF IndInv, TypeOK, HolderTypes, Maybe
<1>6. \A p \in Objects : count'[p] = count[p] - One(value[w], p)
  BY <1>4, OwnershipAssumption DEF IndInv, TypeOK, One
<1>7. Moved(w, v)
  BY <1>1, <1>2, <1>4, <1>5, <1>6 DEF Moved
<1> QED
  BY <1>1, <1>2, <1>4, <1>5, <1>6, <1>7, TwoWrappers

LEMMA DestroyStep == ASSUME IndInv, Destroy PROVE IndInv'
<1>1. PICK w \in built \ {Frame} : FreeThenDup(value[w], None) /\ Unbuilds(w)
  BY DEF Destroy
<1>2. /\ UNCHANGED <<engine, raw, constructing>> /\ w \in Places /\ None \in Maybe
      /\ built' = built \ {w} /\ value' = [value EXCEPT ![w] = None]
  BY <1>1 DEF Destroy, Unbuilds, Places, IndInv, TypeOK, Maybe
<1>3. value[w] \in Maybe /\ (value[w] # None => count[value[w]] > 0)
  BY HeldIsLive DEF IndInv, TypeOK, Maybe
<1>4. /\ ObjectInv' /\ UNCHANGED <<classed, opaque>>
      /\ \A p \in Objects : count'[p] = count[p] - One(p, value[w]) + One(p, None)
  BY <1>1, <1>2, <1>3, HeldIsLive, FreeThenDupKeeps
<1>5. HolderTypes'
  BY <1>2 DEF IndInv, TypeOK, HolderTypes, Maybe
<1>6. Decent /\ \A p \in classed : opaque[p] = None => None # p
  BY <1>2, OwnershipAssumption DEF IndInv, TypeOK, SeenHasInstance, Decent
<1>7. \A p \in Objects : count'[p] = count[p] + (raw'[p] - raw[p]) + (engine'[p] - engine[p])
                                          - One(value[w], p) + One(None, p)
  BY <1>2, <1>4, OwnershipAssumption DEF IndInv, TypeOK, One
<1>8. Assigned(w, None)
  BY <1>2, <1>4, <1>5, <1>6, <1>7 DEF Assigned
<1> QED
  BY <1>2, <1>4, <1>5, <1>6, <1>7, <1>8, OneWrapper

LEMMA LootStep == ASSUME IndInv, Loot PROVE IndInv'
<1>1. PICK w \in built \ {Frame}, o \in Objects :
        /\ value[w] = o /\ Gains(raw, o)
        /\ value' = [value EXCEPT ![w] = None]
  BY DEF Loot
<1>2. /\ UNCHANGED <<objectVars, built, engine, constructing>> /\ w \in Places /\ None \in Maybe
      /\ raw' = [raw EXCEPT ![o] = @ + 1] /\ raw[o] < MaxRefs
  BY <1>1 DEF Loot, Gains, Places, IndInv, TypeOK, Maybe
<1>3. ObjectInv' /\ UNCHANGED <<classed, opaque, count>>
  BY <1>2, HeldIsLive DEF objectVars, ObjectInv, InstanceInv
<1>4. HolderTypes'
  BY <1>1, <1>2, OwnershipAssumption DEF IndInv, TypeOK, HolderTypes, Maybe
<1>5. \A p \in classed : opaque[p] = None => None # p /\ o # p
  BY <1>1, HeldHasInstance, OwnershipAssumption DEF IndInv, TypeOK
<1>6. Decent
  BY <1>2, <1>5 DEF IndInv, TypeOK, SeenHasInstance, Decent
<1>7. \A p \in Objects : count'[p] = count[p] + (raw'[p] - raw[p]) + (engine'[p] - engine[p])
                                          - One(value[w], p) + One(None, p)
  BY <1>1, <1>2, <1>3, OwnershipAssumption DEF IndInv, TypeOK, One
<1>8. Assigned(w, None)
  BY <1>1, <1>2, <1>3, <1>4, <1>5, <1>6, <1>7 DEF Assigned
<1> QED
  BY <1>1, <1>2, <1>3, <1>4, <1>5, <1>6, <1>7, <1>8, OneWrapper

-------------------------------------------------------------------------------
(* Objects of a Class.                                                       *)

\* A wrapper that is built with a new object is the one that holds it.
LEMMA NewWrapped ==
  ASSUME IndInv, ObjectInv', HolderTypes', NEW o \in Objects, NewObject(o),
         NEW w \in Wrappers, Builds(w, o), UNCHANGED <<raw, engine>>
  PROVE  CountExact'
<1>1. /\ value \in [Wrappers -> Maybe] /\ value' = [value EXCEPT ![w] = o] /\ value[w] = None
      /\ o \in Maybe
  BY DEF IndInv, TypeOK, ConstructionInv, Builds, Maybe
<1>2. /\ count'[o] = 1 /\ count[o] = 0
      /\ \A p \in Objects \ {o} : count'[p] = count[p]
  BY NewObjectKeeps
<1> SUFFICES ASSUME NEW p \in Objects
             PROVE  count'[p] = count[p] + (raw'[p] - raw[p]) + (engine'[p] - engine[p])
               + (Cardinality(HoldersIn(value', p)) - Cardinality(HoldersIn(value, p)))
  BY CountFollows
<1>3. Cardinality(HoldersIn(value', p))
        = Cardinality(HoldersIn(value, p)) - One(value[w], p) + One(o, p)
  BY <1>1, HolderChanges
<1>4. Cardinality(HoldersIn(value, p)) \in Nat
  BY HolderCounts
<1>5. raw[p] \in Nat /\ engine[p] \in Nat /\ count[p] \in Nat /\ None # p
  BY OwnershipAssumption DEF IndInv, TypeOK
<1> QED
  BY <1>1, <1>2, <1>3, <1>4, <1>5 DEF One

\* Nobody holds an unborn object.
LEMMA UnbornIsNotHeld ==
  ASSUME IndInv, NEW o \in Objects, state[o] = "unborn"
  PROVE  (\A w \in Wrappers : value[w] # o) /\ raw[o] = 0 /\ engine[o] = 0
<1>1. count[o] = 0
  BY HeldIsLive DEF ObjectInv
<1>2. raw[o] \in Nat /\ engine[o] \in Nat /\ o # None
  BY OwnershipAssumption DEF IndInv, TypeOK
<1> QED
  BY <1>1, <1>2, HeldIsLive

LEMMA ConstructBeginsStep == ASSUME IndInv, ConstructBegins PROVE IndInv'
<1>1. PICK o \in Objects : NewObject(o) /\ Builds(Frame, o) /\ classed' = classed \cup {o}
  BY DEF ConstructBegins
<1>2. /\ constructing = "no" /\ constructing' = "opaque" /\ UNCHANGED <<opaque, instance, engine, raw>>
      /\ built' = built \cup {Frame} /\ value' = [value EXCEPT ![Frame] = o]
      /\ Frame \in Wrappers /\ Frame \notin built
  BY <1>1, OwnershipAssumption DEF ConstructBegins, Builds
<1>3. /\ count'[o] = 1 /\ state'[o] = "live" /\ o \notin classed /\ opaque[o] = None
      /\ \A p \in Objects \ {o} : count'[p] = count[p] /\ state'[p] = state[p]
  BY <1>1, NewObjectKeeps
<1>4. ObjectInv'
  <2>1. InstanceInv'
    BY <1>2, <1>3 DEF InstanceInv, IndInv
  <2>2. \A p \in classed' : state'[p] # "unborn"
    BY <1>1, <1>3 DEF IndInv, TypeOK, ConstructionInv
  <2> QED
    BY <1>1, <1>2, <2>1, <2>2, NewObjectKeeps DEF ObjectInv, IndInv, TypeOK
<1>5. HolderTypes'
  BY <1>2 DEF IndInv, TypeOK, HolderTypes, Maybe
<1>6. CountExact'
  BY <1>1, <1>2, <1>4, <1>5, NewWrapped
<1>7. value'[Frame] = o /\ \A w \in Wrappers \ {Frame} : value'[w] = value[w]
  BY <1>2 DEF IndInv, TypeOK
<1>8. ConstructionInv'
  BY <1>1, <1>2, <1>3, <1>4, <1>7 DEF IndInv, ConstructionInv, ObjectInv
<1>9. SeenHasInstance'
  <2>1. state[o] = "unborn"
    BY <1>1 DEF NewObject
  <2>2. \A w \in Wrappers \ {Frame} : value'[w] # o
    BY <1>7, <2>1, UnbornIsNotHeld
  <2>3. \A p \in classed : opaque[p] = None => \A w \in Wrappers \ {Frame} : value'[w] # p
    BY <1>7 DEF IndInv, TypeOK, SeenHasInstance, Holders
  <2>4. raw[o] = 0 /\ engine[o] = 0
    BY <2>1, UnbornIsNotHeld
  <2> QED
    BY <1>1, <1>2, <2>2, <2>3, <2>4 DEF IndInv, SeenHasInstance, Holders
<1> QED
  BY <1>4, <1>5, <1>6, <1>8, <1>9 DEF IndInv, TypeOK, ObjectInv, HolderTypes, Maybe

\* An object gets an instance that nobody had.
LEMMA NewInstanceKeeps ==
  ASSUME IndInv, NEW o \in Objects, NEW i \in Instances, NewInstance(o, i), opaque[o] = None,
         state'[o] = "live", \A p \in Objects \ {o} : state'[p] = state[p]
  PROVE  InstanceInv'
<1>1. \A p \in Objects : opaque[p] # i
  <2>1. instance[i] = "unborn" /\ i # None
    BY OwnershipAssumption DEF NewInstance
  <2> QED
    BY <2>1 DEF IndInv, InstanceInv
<1>2. /\ opaque'[o] = i /\ \A p \in Objects \ {o} : opaque'[p] = opaque[p]
      /\ instance'[i] = "alive" /\ \A j \in Instances \ {i} : instance'[j] = instance[j]
  BY DEF IndInv, TypeOK, NewInstance
<1>3. ASSUME NEW p \in Objects, opaque'[p] # None
      PROVE  /\ state'[p] # "unborn" /\ instance'[opaque'[p]] # "unborn"
             /\ instance'[opaque'[p]] = "alive" <=> state'[p] = "live"
             /\ \A q \in Objects : opaque'[q] = opaque'[p] => q = p
  <2>1. CASE p = o
    BY <2>1, <1>1, <1>2
  <2>2. CASE p # o
    <3>1. opaque'[p] = opaque[p] /\ opaque[p] \in Instances \ {i}
      BY <2>2, <1>1, <1>2, <1>3 DEF IndInv, TypeOK
    <3> QED
      BY <2>2, <1>1, <1>2, <1>3, <3>1 DEF IndInv, InstanceInv
  <2> QED
    BY <2>1, <2>2
<1>4. ASSUME NEW j \in Instances, instance'[j] = "alive" PROVE \E p \in Objects : opaque'[p] = j
  <2>1. CASE j = i
    BY <2>1, <1>2
  <2>2. CASE j # i
    <3>1. PICK p \in Objects : opaque[p] = j
      BY <2>2, <1>2, <1>4 DEF IndInv, InstanceInv
    <3> QED
      BY <3>1, <1>2, OwnershipAssumption
  <2> QED
    BY <2>1, <2>2
<1> QED
  BY <1>3, <1>4 DEF InstanceInv

LEMMA ConstructOpaqueStep == ASSUME IndInv, ConstructOpaque PROVE IndInv'
<1> DEFINE o == value[Frame]
<1>1. PICK i \in Instances : NewInstance(o, i)
  BY DEF ConstructOpaque
<1>2. /\ constructing = "opaque" /\ constructing' = "post"
      /\ UNCHANGED <<state, count, classed, built, value, engine, raw>>
      /\ instance[i] = "unborn" /\ instance' = [instance EXCEPT ![i] = "alive"]
      /\ opaque' = [opaque EXCEPT ![o] = i]
  BY <1>1 DEF ConstructOpaque, NewInstance, wrapperVars
<1>3. o \in classed /\ o \in Objects /\ opaque[o] = None /\ Frame \in Wrappers
  BY <1>2, OwnershipAssumption DEF IndInv, ConstructionInv, TypeOK
<1>4. state[o] = "live" /\ i # None
  BY <1>3, HeldIsLive, OwnershipAssumption DEF ObjectInv
<1>5. InstanceInv'
  BY <1>1, <1>2, <1>3, <1>4, NewInstanceKeeps
<1>6. TypeOK' /\ CountExact'
  BY <1>2, <1>3 DEF IndInv, TypeOK, CountExact, Holders
<1>7. opaque'[o] # None /\ \A p \in Objects \ {o} : opaque'[p] = opaque[p]
  BY <1>2, <1>3, <1>4 DEF IndInv, TypeOK
<1>8. ConstructionInv'
  BY <1>2, <1>3, <1>7 DEF IndInv, ConstructionInv
<1>9. SeenHasInstance'
  BY <1>2, <1>7 DEF IndInv, TypeOK, SeenHasInstance, Holders
<1> QED
  BY <1>5, <1>6, <1>8, <1>9 DEF IndInv

LEMMA PostConstructionStep == ASSUME IndInv, PostConstruction PROVE IndInv'
<1> DEFINE o == value[Frame]
<1>1. PICK w \in Places : Builds(w, o) /\ FreeThenDup(None, o)
  BY DEF PostConstruction
<1>2. /\ constructing = "post" /\ constructing' = "posted" /\ UNCHANGED <<engine, raw>>
      /\ w \notin built /\ built' = built \cup {w} /\ value' = [value EXCEPT ![w] = o]
  BY <1>1 DEF PostConstruction, Builds
<1>3. o \in Objects /\ opaque[o] # None /\ Frame \in Wrappers /\ o # None /\ o \in Maybe
  BY <1>2, OwnershipAssumption DEF IndInv, ConstructionInv, TypeOK, Maybe
<1>4. count[o] > 0
  BY <1>3, HeldIsLive
<1>5. /\ ObjectInv' /\ UNCHANGED <<classed, opaque>>
      /\ \A p \in Objects : count'[p] = count[p] - One(p, None) + One(p, o)
  BY <1>1, <1>3, <1>4, HeldIsLive, FreeThenDupKeeps DEF Maybe
<1>6. HolderTypes'
  BY <1>2, <1>3 DEF IndInv, TypeOK, HolderTypes, Places, Maybe
<1>7. Decent
  BY <1>2 DEF IndInv, TypeOK, SeenHasInstance, Decent
<1>8. value[w] = None
  BY <1>2 DEF Places, IndInv, ConstructionInv
<1>9. \A p \in Objects : count'[p] = count[p] + (raw'[p] - raw[p]) + (engine'[p] - engine[p])
                                          - One(value[w], p) + One(o, p)
  BY <1>2, <1>5, <1>8, OwnershipAssumption DEF IndInv, TypeOK, One
<1>10. Assigned(w, o)
  BY <1>2, <1>3, <1>9 DEF Assigned
<1> QED
  BY <1>3, <1>5, <1>6, <1>7, <1>10, OneWrapper

\* The frame of a constructor is left, and its reference is freed or goes to the engine.
LEMMA FrameLeft ==
  ASSUME IndInv, ObjectInv', HolderTypes', UNCHANGED <<classed, opaque>>, Decent,
         Unbuilds(Frame), constructing' = "no", value[Frame] \in Objects,
         \A o \in Objects : count'[o] = count[o] + (raw'[o] - raw[o]) + (engine'[o] - engine[o])
                                          - One(value[Frame], o)
  PROVE  IndInv'
<1>1. /\ value \in [Wrappers -> Maybe] /\ value' = [value EXCEPT ![Frame] = None]
      /\ None \in Maybe /\ Frame \in Wrappers /\ built' = built \ {Frame}
  BY OwnershipAssumption DEF IndInv, TypeOK, Unbuilds, Maybe
<1>2. CountExact'
  <2> SUFFICES ASSUME NEW o \in Objects
               PROVE  count'[o] = count[o] + (raw'[o] - raw[o]) + (engine'[o] - engine[o])
                 + (Cardinality(HoldersIn(value', o)) - Cardinality(HoldersIn(value, o)))
    BY CountFollows
  <2>1. Cardinality(HoldersIn(value', o))
          = Cardinality(HoldersIn(value, o)) - One(value[Frame], o) + One(None, o)
    BY <1>1, HolderChanges
  <2>2. Cardinality(HoldersIn(value, o)) \in Nat
    BY HolderCounts
  <2>3. raw[o] \in Nat /\ engine[o] \in Nat /\ raw'[o] \in Nat /\ engine'[o] \in Nat
        /\ count[o] \in Nat /\ None # o
    BY OwnershipAssumption DEF IndInv, TypeOK, HolderTypes
  <2> QED
    BY <2>1, <2>2, <2>3 DEF One
<1>3. value'[Frame] = None /\ \A w \in Wrappers \ {Frame} : value'[w] = value[w]
  BY <1>1
<1>4. ConstructionInv'
  BY <1>1, <1>3 DEF IndInv, ConstructionInv, ObjectInv
<1>5. SeenHasInstance'
  <2>1. \A p \in classed : opaque[p] = None => \A w \in Wrappers \ {Frame} : value'[w] # p
    BY <1>3 DEF IndInv, TypeOK, SeenHasInstance, Holders
  <2> QED
    BY <2>1 DEF SeenHasInstance, Holders, Decent
<1> QED
  BY <1>2, <1>4, <1>5 DEF IndInv, TypeOK, ObjectInv, HolderTypes, Maybe

LEMMA ConstructThrowsStep == ASSUME IndInv, ConstructThrows PROVE IndInv'
<1> DEFINE o == value[Frame]
<1>1. /\ constructing # "no" /\ constructing' = "no" /\ UNCHANGED <<engine, raw>>
      /\ FreeThenDup(o, None) /\ Unbuilds(Frame)
  BY DEF ConstructThrows
<1>2. o \in Objects /\ o # None /\ o \in Maybe /\ Frame \in Wrappers
  BY <1>1, OwnershipAssumption DEF IndInv, ConstructionInv, TypeOK, Maybe
<1>3. count[o] > 0
  BY <1>2, HeldIsLive
<1>4. /\ ObjectInv' /\ UNCHANGED <<classed, opaque>>
      /\ \A p \in Objects : count'[p] = count[p] - One(p, o) + One(p, None)
  BY <1>1, <1>2, <1>3, HeldIsLive, FreeThenDupKeeps DEF Maybe
<1>5. HolderTypes'
  BY <1>1 DEF IndInv, TypeOK, HolderTypes, Unbuilds, Maybe
<1>6. Decent
  BY <1>1 DEF IndInv, TypeOK, SeenHasInstance, Decent
<1>7. \A p \in Objects : count'[p] = count[p] + (raw'[p] - raw[p]) + (engine'[p] - engine[p])
                                          - One(value[Frame], p)
  BY <1>1, <1>4, OwnershipAssumption DEF IndInv, TypeOK, One
<1> QED
  BY <1>1, <1>2, <1>4, <1>5, <1>6, <1>7, FrameLeft

LEMMA ConstructReturnsStep == ASSUME IndInv, ConstructReturns PROVE IndInv'
<1> DEFINE o == value[Frame]
<1>1. /\ constructing \in {"post", "posted"} /\ constructing' = "no" /\ UNCHANGED <<objectVars, raw>>
      /\ engine[o] < MaxRefs /\ engine' = [engine EXCEPT ![o] = @ + 1] /\ Unbuilds(Frame)
  BY DEF ConstructReturns, Gains
<1>2. o \in Objects /\ opaque[o] # None
  BY <1>1 DEF IndInv, ConstructionInv, TypeOK
<1>3. ObjectInv' /\ UNCHANGED <<classed, opaque, count>>
  BY <1>1, HeldIsLive DEF objectVars, ObjectInv, InstanceInv
<1>4. HolderTypes'
  BY <1>1, <1>2, OwnershipAssumption DEF IndInv, TypeOK, HolderTypes, Unbuilds, Maybe
<1>5. Decent
  BY <1>1, <1>2 DEF IndInv, TypeOK, SeenHasInstance, Decent
<1>6. \A p \in Objects : count'[p] = count[p] + (raw'[p] - raw[p]) + (engine'[p] - engine[p])
                                          - One(value[Frame], p)
  BY <1>1, <1>2, <1>3, OwnershipAssumption DEF IndInv, TypeOK, One
<1> QED
  BY <1>1, <1>2, <1>3, <1>4, <1>5, <1>6, FrameLeft

LEMMA CreateInstanceStep == ASSUME IndInv, CreateInstance PROVE IndInv'
<1>1. PICK o \in Objects, i \in Instances, w \in Places :
        /\ NewObject(o) /\ NewInstance(o, i) /\ Builds(w, o)
        /\ classed' = classed \cup {o}
  BY DEF CreateInstance
<1>2. /\ UNCHANGED <<engine, raw, constructing>> /\ opaque' = [opaque EXCEPT ![o] = i]
      /\ instance' = [instance EXCEPT ![i] = "alive"] /\ i # None
      /\ built' = built \cup {w} /\ value' = [value EXCEPT ![w] = o]
      /\ w \in Wrappers /\ w # Frame /\ Frame \in Wrappers
  BY <1>1, OwnershipAssumption DEF CreateInstance, NewInstance, Builds, Places
<1>3. /\ count'[o] = 1 /\ state'[o] = "live" /\ o \notin classed /\ opaque[o] = None
      /\ \A p \in Objects \ {o} : count'[p] = count[p] /\ state'[p] = state[p]
  BY <1>1, NewObjectKeeps
<1>4. opaque'[o] = i /\ \A p \in Objects \ {o} : opaque'[p] = opaque[p]
  BY <1>2 DEF IndInv, TypeOK
<1>5. ObjectInv'
  <2>1. InstanceInv'
    BY <1>1, <1>3, NewInstanceKeeps
  <2>2. \A p \in classed' : state'[p] # "unborn"
    BY <1>1, <1>3 DEF IndInv, TypeOK, ConstructionInv
  <2> QED
    BY <1>1, <1>2, <2>1, <2>2, NewObjectKeeps DEF ObjectInv, IndInv, TypeOK
<1>6. HolderTypes'
  BY <1>2 DEF IndInv, TypeOK, HolderTypes, Maybe
<1>7. CountExact'
  BY <1>1, <1>2, <1>5, <1>6, NewWrapped
<1>8. /\ value'[Frame] = value[Frame] /\ (Frame \in built' <=> Frame \in built)
      /\ value'[w] = o /\ \A u \in Wrappers \ {w} : value'[u] = value[u]
  BY <1>2 DEF IndInv, TypeOK
<1>9. ConstructionInv'
  <2>1. \A u \in Wrappers \ built' : value'[u] = None
    BY <1>2, <1>8 DEF IndInv, ConstructionInv
  <2>2. constructing # "no" => value[Frame] \in classed /\ value[Frame] \in Objects \ {o}
    BY <1>3 DEF IndInv, ConstructionInv, TypeOK
  <2>3. constructing # "no" => opaque'[value[Frame]] = opaque[value[Frame]]
    BY <2>2, <1>4
  <2> QED
    BY <1>1, <1>2, <1>5, <1>8, <2>1, <2>2, <2>3 DEF IndInv, ConstructionInv, ObjectInv
<1>10. SeenHasInstance'
  <2>1. \A p \in classed : p # o /\ p \in Objects /\ opaque'[p] = opaque[p]
    BY <1>3, <1>4 DEF IndInv, TypeOK
  <2>2. \A p \in classed : opaque[p] = None => \A u \in Wrappers \ {Frame} : value'[u] # p
    BY <1>8, <2>1 DEF IndInv, SeenHasInstance, Holders
  <2> QED
    BY <1>1, <1>2, <1>4, <2>1, <2>2 DEF IndInv, SeenHasInstance, Holders
<1> QED
  BY <1>5, <1>6, <1>7, <1>9, <1>10 DEF IndInv, TypeOK, ObjectInv, HolderTypes, Maybe

-------------------------------------------------------------------------------
(* The theorems.                                                             *)

LEMMA InitEstablishes == Init => IndInv
<1> SUFFICES ASSUME Init PROVE IndInv
  OBVIOUS
<1> USE DEF Init
<1>1. TypeOK
  BY OwnershipAssumption DEF TypeOK
<1>2. \A o \in Objects : Holders(o) = {} /\ Cardinality({}) = 0
  BY OwnershipAssumption, FS_EmptySet DEF Holders
<1>3. CountExact
  BY <1>2 DEF CountExact
<1>4. InstanceInv /\ ConstructionInv /\ SeenHasInstance
  BY DEF InstanceInv, ConstructionInv, SeenHasInstance
<1> QED
  BY <1>1, <1>3, <1>4 DEF IndInv

LEMMA StutterStep == ASSUME IndInv, UNCHANGED vars PROVE IndInv'
BY DEF IndInv, TypeOK, CountExact, InstanceInv, ConstructionInv, SeenHasInstance, Holders,
       vars, objectVars, wrapperVars

\* Every reachable state satisfies the inductive invariant.
THEOREM Invariance == Spec => []IndInv
<1>1. IndInv /\ [Next]_vars => IndInv'
  BY NewValueStep, NewReferenceStep, GiveStep, FreeRawStep, EngineDupsStep, EngineDropsStep,
     WrapStep, CopyConstructStep, MoveConstructStep, CopyAssignStep, MoveAssignStep,
     DestroyStep, LootStep, ConstructBeginsStep, ConstructOpaqueStep, PostConstructionStep,
     ConstructThrowsStep, ConstructReturnsStep, CreateInstanceStep, StutterStep DEF Next
<1> QED
  BY <1>1, InitEstablishes, PTL DEF Spec

\* All variables keep their types: no count ever falls below 0.
THEOREM TypeCorrect == Spec => []TypeOK
<1>1. IndInv => TypeOK
  BY DEF IndInv
<1> QED
  BY Invariance, <1>1, PTL

\* The count of an object is the number of its holders, for any number of wrappers.
THEOREM CountsAreExact == Spec => []CountExact
<1>1. IndInv => CountExact
  BY DEF IndInv
<1> QED
  BY Invariance, <1>1, PTL

\* No wrapper, no JSValue of C++ code and no JavaScript refers to an object that was freed.
THEOREM NothingDangles == Spec => []NoDangling
<1>1. IndInv => NoDangling
  <2> SUFFICES ASSUME IndInv, NEW o \in Objects, state[o] # "live"
               PROVE Holders(o) = {} /\ raw[o] = 0 /\ engine[o] = 0
    BY DEF NoDangling
  <2>1. count[o] = 0 /\ o # None
    BY HeldIsLive, OwnershipAssumption DEF ObjectInv
  <2>2. \A w \in Wrappers : value[w] # o
    BY <2>1, HeldIsLive
  <2>3. raw[o] \in Nat /\ engine[o] \in Nat
    BY OwnershipAssumption DEF IndInv, TypeOK
  <2> QED
    BY <2>1, <2>2, <2>3, HeldIsLive DEF Holders
<1> QED
  BY Invariance, <1>1, PTL

\* An instance lives exactly as long as its object, however its construction ends.
THEOREM InstancesLiveWithObjects == Spec => []InstanceLifetime
<1>1. IndInv => InstanceLifetime
  BY OwnershipAssumption DEF IndInv, TypeOK, InstanceInv, InstanceLifetime
<1> QED
  BY Invariance, <1>1, PTL

\* What is seen outside of its constructor has its instance.
THEOREM MethodsFindInstances == Spec => []SeenHasInstance
<1>1. IndInv => SeenHasInstance
  BY DEF IndInv
<1> QED
  BY Invariance, <1>1, PTL
===============================================================================
