----------------------------- MODULE ClassRegistry -----------------------------
(***************************************************************************)
(* One jac::Class<Builder>: its name and id are static, one for the        *)
(* process; every machine has its own registration of the id in its        *)
(* runtime and its own prototype in its context, made by initContext or,   *)
(* when first needed, by getProto; JavaScript constructors and             *)
(* createInstance make objects that own a native instance.                 *)
(***************************************************************************)
EXTENDS Integers

CONSTANTS Machines,   \* every machine that a process makes
          Names,      \* what init is called with: a name and the constructor flag
          Instances,  \* native instances
          None,       \* no name, no machine
          MaxProtos   \* bound: prototypes made in one context

ASSUME RegistryAssumption ==
  /\ None \notin Names \cup Machines
  /\ MaxProtos \in Nat

VARIABLES
  className,   \* the statics of the class, None before init
  life,        \* of a machine
  registered,  \* of a runtime: what JS_NewClass registered the id with, or None
  proto,       \* of a context: the number of its class prototype, 0 when it has none
  instance,    \* of an instance: its life
  home, shape  \* of the object around an instance: its machine, its prototype

contextVars == <<registered, proto>>
objectVars == <<instance, home, shape>>
registryVars == <<className, life, contextVars, objectVars>>

\* A prototype of an object that is none of the class: that of a subclass, or whatever
\* Reflect.construct or a `prototype' property gave.
Other == -1

RegistryTypeOK ==
  /\ className \in Names \cup {None}
  /\ life \in [Machines -> {"absent", "ready", "destroyed"}]
  /\ registered \in [Machines -> Names \cup {None}]
  /\ proto \in [Machines -> 0..MaxProtos]
  /\ instance \in [Instances -> {"unborn", "object", "leaked", "destroyed"}]
  /\ home \in [Instances -> Machines \cup {None}]
  /\ shape \in [Instances -> Other..MaxProtos]

RegistryInit ==
  /\ className = None
  /\ life = [m \in Machines |-> "absent"]
  /\ registered = [m \in Machines |-> None] /\ proto = [m \in Machines |-> 0]
  /\ instance = [i \in Instances |-> "unborn"]
  /\ home = [i \in Instances |-> None] /\ shape = [i \in Instances |-> 0]

-------------------------------------------------------------------------------
(* init: the statics.                                                        *)

\* A later call that overwrites the name.
InitOverwrites(n) == className' = n /\ UNCHANGED <<life, contextVars, objectVars>>

\* The first call takes a class id. A later one does nothing, or throws if n is another.
ClassInit(n) ==
  /\ className = None
  /\ className' = n
  /\ UNCHANGED <<life, contextVars, objectVars>>

-------------------------------------------------------------------------------
(* initContext and getProto.                                                 *)

\* The class can be used: init was called, the machine is initialised.
Usable(m) == className # None /\ life[m] = "ready"

\* Registered with whatever the process registered first.
RegisterOnce(m) ==
  registered' = IF \E n \in Machines : registered[n] # None THEN registered
                ELSE [registered EXCEPT ![m] = className]

\* JS_NewClass, unless the runtime has the id already.
Register(m) ==
  registered' = IF registered[m] = None THEN [registered EXCEPT ![m] = className] ELSE registered

\* A prototype with its properties and its constructor takes the place of the one before.
SetsProto(m) ==
  /\ Register(m)
  /\ proto[m] < MaxProtos
  /\ proto' = [proto EXCEPT ![m] = @ + 1]

\* addProperties throws, on a class that is registered but has got no prototype.
AddPropertiesThrows(m) == Register(m) /\ UNCHANGED proto

InitContext(m) ==
  /\ Usable(m)
  /\ SetsProto(m)
  /\ UNCHANGED <<className, life, objectVars>>

InitContextThrows(m) ==
  /\ Usable(m)
  /\ AddPropertiesThrows(m)
  /\ UNCHANGED <<className, life, objectVars>>

\* Only a context without a prototype is initialised on the way.
GetsProto(m) ==
  \/ proto[m] > 0 /\ UNCHANGED contextVars
  \/ proto[m] = 0 /\ SetsProto(m)

\* getProto and getConstructor, called by the embedder.
GetProto(m) ==
  /\ Usable(m)
  /\ GetsProto(m)
  /\ UNCHANGED <<className, life, objectVars>>

-------------------------------------------------------------------------------
(* Objects.                                                                  *)

\* An object of machine m with prototype p and instance i.
MakesObject(m, i, p) ==
  /\ instance[i] = "unborn"
  /\ instance' = [instance EXCEPT ![i] = "object"]
  /\ home' = [home EXCEPT ![i] = m]
  /\ shape' = [shape EXCEPT ![i] = p]

\* C++ code hands its instance over.
CreateInstance(m, i) ==
  /\ Usable(m)
  /\ GetsProto(m)
  /\ MakesObject(m, i, proto'[m])
  /\ UNCHANGED <<className, life>>

\* getProto throws: nobody owns the instance.
CreateInstanceThrows(m, i) ==
  /\ Usable(m) /\ proto[m] = 0
  /\ AddPropertiesThrows(m)
  /\ instance[i] = "unborn" /\ instance' = [instance EXCEPT ![i] = "leaked"]
  /\ UNCHANGED <<className, life, home, shape>>

\* JavaScript constructs, with the constructor that came with a prototype of now or of
\* before: `new C', or for a new.target with another prototype.
Construct(m, i) ==
  /\ Usable(m) /\ proto[m] > 0
  /\ \E p \in 1..proto[m] \cup {Other} : MakesObject(m, i, p)
  /\ UNCHANGED <<className, life, contextVars>>

\* The finalizers of objects, which destroy their instances.
Finalize(dead) ==
  /\ instance' = [i \in Instances |-> IF i \in dead THEN "destroyed" ELSE instance[i]]
  /\ home' = [i \in Instances |-> IF i \in dead THEN None ELSE home[i]]
  /\ shape' = [i \in Instances |-> IF i \in dead THEN 0 ELSE shape[i]]

Collect(i) ==
  /\ instance[i] = "object"
  /\ Finalize({i})
  /\ UNCHANGED <<className, life, contextVars>>

-------------------------------------------------------------------------------
(* Machines.                                                                 *)

MachineInitialize(m) ==
  /\ life[m] = "absent"
  /\ life' = [life EXCEPT ![m] = "ready"]
  /\ UNCHANGED <<className, contextVars, objectVars>>

\* Freeing context and runtime finalizes the objects.
MachineDestroy(m) ==
  /\ life[m] = "ready"
  /\ life' = [life EXCEPT ![m] = "destroyed"]
  /\ registered' = [registered EXCEPT ![m] = None]
  /\ proto' = [proto EXCEPT ![m] = 0]
  /\ Finalize({i \in Instances : instance[i] = "object" /\ home[i] = m})
  /\ UNCHANGED className

\* What the embedder, native functions and JavaScript do with the class in machine m.
UseClass(m) ==
  \/ InitContext(m) \/ InitContextThrows(m) \/ GetProto(m)
  \/ \E i \in Instances : CreateInstance(m, i) \/ CreateInstanceThrows(m, i) \/ Construct(m, i)

-------------------------------------------------------------------------------
(* Properties.                                                               *)

\* Wherever there is an object of the class, its own runtime knows the class, by the name
\* and flag that every other machine has, and its own context has a prototype of it with the
\* properties; if the object's prototype is one of the class, it is of that context (init,
\* initContext and getProto share one id among all machines).
ObjectsOfTheClass ==
  \A i \in Instances : instance[i] = "object" =>
    /\ life[home[i]] = "ready"
    /\ className # None /\ registered[home[i]] = className
    /\ proto[home[i]] > 0 /\ shape[i] \in 1..proto[home[i]] \cup {Other}

\* "If the class is already initialized, this function does nothing" (initContext): the
\* objects in one machine whose prototype is one of the class have the same one, so that
\* `instanceof' and the properties are those of all of them.
OnePrototype ==
  \A i, j \in Instances :
    /\ instance[i] = "object" /\ instance[j] = "object"
    /\ home[i] = home[j] /\ Other \notin {shape[i], shape[j]}
    => shape[i] = shape[j]
================================================================================
