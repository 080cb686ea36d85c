------------------------------ MODULE Ownership ------------------------------
(***************************************************************************)
(* Who owns JavaScript objects: the references held by the wrappers of C++ *)
(* code (Value, Object, Function, Exception ...), by JSValues that no      *)
(* wrapper holds for the moment, and by the engine; and the native         *)
(* instances behind the objects of a Class.                                *)
(*                                                                         *)
(* An object is freed when its count falls to 0; the finalizer of a Class  *)
(* then destroys the instance in the object's opaque pointer.              *)
(***************************************************************************)
EXTENDS Integers, FiniteSets

CONSTANTS Objects,    \* JavaScript objects; an address is not used again
          Wrappers,   \* places for a wrapper: locals, members, exports of a module
          Instances,  \* native objects
          Frame,      \* the wrapper `obj' of a running constructor_impl; one runs at a time
          None,       \* no object, no instance
          MaxRefs     \* bound: references of the engine, and raw ones, to one object

ASSUME OwnershipAssumption ==
  /\ IsFiniteSet(Wrappers) /\ Frame \in Wrappers
  /\ None \notin Objects \cup Instances
  /\ MaxRefs \in Nat \ {0}

VARIABLES
  state, count,  \* of an object: its life, its reference count
  classed,       \* the objects of a Class
  opaque,        \* of an object: its opaque pointer
  engine,        \* of an object: references of JavaScript code and of the engine
  raw,           \* of an object: references of JSValues in C++ code, in no wrapper
  instance,      \* of an instance: its life
  built, value,  \* of a wrapper: it is constructed, and what it holds
  constructing   \* where constructor_impl is

objectVars == <<state, count, classed, opaque, instance>>
wrapperVars == <<built, value>>
vars == <<objectVars, wrapperVars, engine, raw, constructing>>

TypeOK ==
  /\ state \in [Objects -> {"unborn", "live", "freed"}]
  /\ count \in [Objects -> Nat]
  /\ classed \subseteq Objects
  /\ opaque \in [Objects -> Instances \cup {None}]
  /\ engine \in [Objects -> 0..MaxRefs] /\ raw \in [Objects -> 0..MaxRefs]
  /\ instance \in [Instances -> {"unborn", "alive", "destroyed"}]
  /\ built \subseteq Wrappers
  /\ value \in [Wrappers -> Objects \cup {None}]
  /\ constructing \in {"no", "opaque", "post", "posted"}

Init ==
  /\ state = [o \in Objects |-> "unborn"] /\ count = [o \in Objects |-> 0]
  /\ classed = {} /\ opaque = [o \in Objects |-> None] /\ instance = [i \in Instances |-> "unborn"]
  /\ engine = [o \in Objects |-> 0] /\ raw = [o \in Objects |-> 0]
  /\ built = {} /\ value = [w \in Wrappers |-> None]
  /\ constructing = "no"

-------------------------------------------------------------------------------
(* Reference counting.                                                       *)

One(a, b) == IF a = b THEN 1 ELSE 0

Freed(o) == o # None /\ count[o] = 1

\* The class has no finalizer.
FinalizeNothing(o) == UNCHANGED instance

\* destroyOpaque of a null pointer does nothing.
Finalize(o) ==
  instance' = IF Freed(o) /\ opaque[o] # None
              THEN [instance EXCEPT ![opaque[o]] = "destroyed"] ELSE instance

\* JS_FreeValue(old), which may free the object, then JS_DupValue(new). Either may be None.
FreeThenDup(old, new) ==
  /\ count' = [o \in Objects |-> count[o] - One(o, old) + One(o, new)]
  /\ state' = IF Freed(old) THEN [state EXCEPT ![old] = "freed"] ELSE state
  /\ Finalize(old)
  /\ UNCHANGED <<classed, opaque>>

\* A new object, with the reference that its creator gets.
NewObject(o) ==
  /\ state[o] = "unborn"
  /\ state' = [state EXCEPT ![o] = "live"]
  /\ count' = [count EXCEPT ![o] = 1]

\* One more holder f, engine or raw, of o, or one less.
Gains(f, o) == f[o] < MaxRefs /\ f' = [f EXCEPT ![o] = @ + 1]
Drops(f, o) == f[o] > 0 /\ f' = [f EXCEPT ![o] = @ - 1]

-------------------------------------------------------------------------------
(* JSValues outside of wrappers.                                             *)

\* JS_NewObject and the like, JS_NewCFunction2, the result of an evaluation.
NewValue ==
  /\ \E o \in Objects : NewObject(o) /\ Gains(raw, o)
  /\ UNCHANGED <<classed, opaque, instance, wrapperVars, engine, constructing>>

\* The engine returns a reference (a property, the result of a call, the current exception),
\* or a weak value is converted, which a wrapper or, during a call, the engine keeps alive.
NewReference ==
  /\ \E o \in Objects :
       /\ engine[o] > 0 \/ \E w \in built \ {Frame} : value[w] = o
       /\ Gains(raw, o) /\ FreeThenDup(None, o)
  /\ UNCHANGED <<wrapperVars, engine, constructing>>

\* The value goes to the engine, which owns it: a property, an export, a result, a throw.
Give ==
  /\ \E o \in Objects : Drops(raw, o) /\ Gains(engine, o)
  /\ UNCHANGED <<objectVars, wrapperVars, constructing>>

\* The arguments of callThis are freed when the call is over. So is the value in Object(ctx, val)
\* or Function(ctx, val) when it is none: by the wrapper made on the way.
FreeRaw ==
  /\ \E o \in Objects : Drops(raw, o) /\ FreeThenDup(o, None)
  /\ UNCHANGED <<wrapperVars, engine, constructing>>

\* JavaScript code copies and drops references.
EngineDups ==
  /\ \E o \in Objects : engine[o] > 0 /\ Gains(engine, o) /\ FreeThenDup(None, o)
  /\ UNCHANGED <<wrapperVars, raw, constructing>>

EngineDrops ==
  /\ \E o \in Objects : Drops(engine, o) /\ FreeThenDup(o, None)
  /\ UNCHANGED <<wrapperVars, raw, constructing>>

-------------------------------------------------------------------------------
(* Wrappers.                                                                 *)

\* A place of the embedder's code: that of a constructor is its own.
Places == Wrappers \ {Frame}

\* The construction of a wrapper of o at w, and its end.
Builds(w, o) == w \notin built /\ built' = built \cup {w} /\ value' = [value EXCEPT ![w] = o]
Unbuilds(w) == built' = built \ {w} /\ value' = [value EXCEPT ![w] = None]

Wrap ==
  /\ \E o \in Objects, w \in Places : Drops(raw, o) /\ Builds(w, o)
  /\ UNCHANGED <<objectVars, engine, constructing>>

\* The reference is not duplicated.
CopyShares ==
  /\ \E v \in built \ {Frame}, w \in Places : Builds(w, value[v])
  /\ UNCHANGED <<objectVars, engine, raw, constructing>>

CopyConstruct ==
  /\ \E v \in built \ {Frame}, w \in Places : Builds(w, value[v]) /\ FreeThenDup(None, value[v])
  /\ UNCHANGED <<engine, raw, constructing>>

MoveConstruct ==
  /\ \E v \in built \ {Frame}, w \in Places \ built :
       /\ built' = built \cup {w}
       /\ value' = [value EXCEPT ![w] = value[v], ![v] = None]
  /\ UNCHANGED <<objectVars, engine, raw, constructing>>

\* What w held is freed before what v holds is duplicated. The code does not look whether
\* they are one wrapper, which would duplicate what it has freed: callers never do that.
CopyAssign ==
  /\ \E w, v \in built \ {Frame} :
       /\ v # w
       /\ FreeThenDup(value[w], value[v])
       /\ value' = [value EXCEPT ![w] = value[v]]
  /\ UNCHANGED <<built, engine, raw, constructing>>

\* The other wrapper keeps what was moved.
MoveAssignKeeps ==
  /\ \E w, v \in built \ {Frame} :
       /\ FreeThenDup(value[w], None)
       /\ value' = [value EXCEPT ![w] = value[v]]
  /\ UNCHANGED <<built, engine, raw, constructing>>

\* To itself, too: the wrapper is empty then.
MoveAssign ==
  /\ \E w, v \in built \ {Frame} :
       /\ FreeThenDup(value[w], None)
       /\ value' = [value EXCEPT ![w] = value[v], ![v] = None]
  /\ UNCHANGED <<built, engine, raw, constructing>>

Destroy ==
  /\ \E w \in built \ {Frame} : FreeThenDup(value[w], None) /\ Unbuilds(w)
  /\ UNCHANGED <<engine, raw, constructing>>

\* The wrapper stays, empty. To loot an empty wrapper yields undefined.
Loot ==
  /\ \E w \in built \ {Frame}, o \in Objects :
       /\ value[w] = o /\ Gains(raw, o)
       /\ value' = [value EXCEPT ![w] = None]
  /\ UNCHANGED <<objectVars, built, engine, constructing>>

-------------------------------------------------------------------------------
(* Objects of a Class with an instance.                                      *)

NewInstance(o, i) ==
  /\ instance[i] = "unborn" /\ instance' = [instance EXCEPT ![i] = "alive"]
  /\ opaque' = [opaque EXCEPT ![o] = i]

\* postConstruction sees the object before it has its instance.
BeginsWithPost ==
  /\ constructing = "no" /\ constructing' = "post"
  /\ \E o \in Objects : NewObject(o) /\ Builds(Frame, o) /\ classed' = classed \cup {o}
  /\ UNCHANGED <<opaque, instance, engine, raw>>

\* `new C(...)' in JavaScript: constructor_impl has made the object.
ConstructBegins ==
  /\ constructing = "no" /\ constructing' = "opaque"
  /\ \E o \in Objects : NewObject(o) /\ Builds(Frame, o) /\ classed' = classed \cup {o}
  /\ UNCHANGED <<opaque, instance, engine, raw>>

ConstructOpaque ==
  /\ constructing = "opaque" /\ constructing' = "post"
  /\ \E i \in Instances : NewInstance(value[Frame], i)
  /\ UNCHANGED <<state, count, classed, wrapperVars, engine, raw>>

\* postConstruction gets a copy of the wrapper, which it may keep.
PostConstruction ==
  /\ constructing = "post" /\ constructing' = "posted"
  /\ \E w \in Places : Builds(w, value[Frame]) /\ FreeThenDup(None, value[Frame])
  /\ UNCHANGED <<engine, raw>>

\* constructOpaque or postConstruction throws.
ConstructThrows ==
  /\ constructing # "no" /\ constructing' = "no"
  /\ FreeThenDup(value[Frame], None) /\ Unbuilds(Frame)
  /\ UNCHANGED <<engine, raw>>

\* The result is looted for the engine. Not every Class has a postConstruction.
ConstructReturns ==
  /\ constructing \in {"post", "posted"} /\ constructing' = "no"
  /\ Gains(engine, value[Frame]) /\ Unbuilds(Frame)
  /\ UNCHANGED <<objectVars, raw>>

\* Called by C++ code that has just made the instance.
CreateInstance ==
  /\ \E o \in Objects, i \in Instances, w \in Places :
       /\ NewObject(o) /\ NewInstance(o, i) /\ Builds(w, o)
       /\ classed' = classed \cup {o}
  /\ UNCHANGED <<engine, raw, constructing>>

Next ==
  \/ NewValue \/ NewReference \/ Give \/ FreeRaw \/ EngineDups \/ EngineDrops
  \/ Wrap \/ CopyConstruct \/ MoveConstruct \/ CopyAssign \/ MoveAssign
  \/ Destroy \/ Loot
  \/ ConstructBegins \/ ConstructOpaque \/ PostConstruction \/ ConstructThrows
  \/ ConstructReturns \/ CreateInstance

Spec == Init /\ [][Next]_vars

-------------------------------------------------------------------------------
(* Properties.                                                               *)

Holders(o) == {w \in Wrappers : value[w] = o}

\* The count of an object is the number of those who hold it, and it lives while that is not 0:
\* whatever is copied, moved, looted, thrown or assigned, but for a copy of a wrapper to itself,
\* no reference is given back twice or forgotten (ValueWrapper, values.h).
CountExact ==
  \A o \in Objects :
    /\ count[o] = Cardinality(Holders(o)) + raw[o] + engine[o]
    /\ state[o] = "live" <=> count[o] > 0

\* Nobody holds an object that was freed: no wrapper, no JSValue in C++ code, no JavaScript;
\* again where no wrapper is copied to itself.
NoDangling ==
  \A o \in Objects : state[o] # "live" => Holders(o) = {} /\ raw[o] = 0 /\ engine[o] = 0

\* An instance lives as long as the one object it belongs to, however its construction ends
\* (Class::constructor_impl and its finalizer): it is neither leaked nor destroyed in use.
InstanceLifetime ==
  \A i \in Instances : instance[i] = "alive" <=>
    \E o \in Objects : state[o] = "live" /\ opaque[o] = i
                       /\ \A p \in Objects \ {o} : opaque[p] # i

\* What JavaScript, or any C++ code but the constructor itself, gets hold of has its instance:
\* methods and accessors do not test the pointer that JS_GetOpaque returns (class.h).
SeenHasInstance ==
  \A o \in classed : opaque[o] = None =>
    Holders(o) \subseteq {Frame} /\ raw[o] = 0 /\ engine[o] = 0
===============================================================================
