------------------------------ MODULE SetupProofs ------------------------------
(***************************************************************************)
(* Proofs about Setup for any machines, names, instances, managers, types  *)
(* and bounds.  A step of Setup is a step of the class or a stutter, and a *)
(* step of the plugins or a stutter, so each part has its own invariant.   *)
(***************************************************************************)
EXTENDS Setup, TLAPS

RegistryStep ==
  \/ \E n \in Names : ClassInit(n)
  \/ \E m \in Machines : UseClass(m) \/ MachineInitialize(m) \/ MachineDestroy(m)
  \/ \E i \in Instances : Collect(i)

PluginStep ==
  \/ \E g \in Managers, type \in Types : AddPlugin(g, type)
  \/ \E m \in Hosts, type \in Types : HoldPlugin(m, type)
  \/ \E m \in Hosts, g \in Managers : InitializeBegins(m, g)
  \/ ConstructorReturns \/ ConstructorThrows \/ InitializeReturns
  \/ \E m \in Hosts : PluginsDestroyed(m)

\* Each step of the process is one of each part, or leaves that part alone.
LEMMA Parts == [Next]_vars => [RegistryStep]_registryVars /\ [PluginStep]_pluginVars
<1> SUFFICES ASSUME [Next]_vars PROVE [RegistryStep]_registryVars /\ [PluginStep]_pluginVars
  OBVIOUS
<1>1. CASE Classes
  BY <1>1 DEF Classes, RegistryStep
<1>2. CASE Groups
  BY <1>2 DEF Groups, PluginStep
<1>3. ASSUME NEW m \in Machines, Initialize(m) \/ Destroy(m)
      PROVE [RegistryStep]_registryVars /\ [PluginStep]_pluginVars
  BY <1>3 DEF Initialize, Destroy, RegistryStep, PluginStep
<1>4. CASE UNCHANGED vars
  BY <1>4 DEF vars
<1> QED
  BY <1>1, <1>2, <1>3, <1>4 DEF Next

-------------------------------------------------------------------------------
(* The class.                                                                *)

\* A runtime knows the class by the static name or not at all, and a prototype comes after
\* the registration.
ContextInv ==
  \A m \in Machines :
    /\ registered[m] \in {None, className}
    /\ proto[m] > 0 => className # None /\ registered[m] = className

HomeInv == \A i \in Instances : instance[i] = "object" => home[i] \in Machines

RegistryInv == RegistryTypeOK /\ ContextInv /\ HomeInv /\ ObjectsOfTheClass

\* No machine, no name, no object.
LEMMA RegistryInitEstablishes == RegistryInit => RegistryInv
BY RegistryAssumption
   DEF RegistryInit, RegistryInv, RegistryTypeOK, ContextInv, HomeInv, ObjectsOfTheClass,
       Other

\* What a part of a context becomes: it is registered now if it was not, and its prototype is
\* the one before, or the next.
LEMMA ContextMoves ==
  ASSUME RegistryInv, NEW m \in Machines, Usable(m),
         GetsProto(m) \/ SetsProto(m) \/ AddPropertiesThrows(m)
  PROVE  /\ registered' \in [Machines -> Names \cup {None}] /\ registered'[m] = className
         /\ \A n \in Machines \ {m} : registered'[n] = registered[n] /\ proto'[n] = proto[n]
         /\ proto' \in [Machines -> 0..MaxProtos] /\ proto[m] <= proto'[m]
         /\ proto'[m] = proto[m] \/ (SetsProto(m) /\ proto'[m] = proto[m] + 1)
         /\ GetsProto(m) => proto'[m] > 0 /\ (proto[m] > 0 => proto'[m] = proto[m])
<1> USE RegistryAssumption DEF RegistryInv, RegistryTypeOK, ContextInv, Usable
<1>1. CASE SetsProto(m)
  <2>1. proto[m] \in 0..MaxProtos /\ proto[m] + 1 \in 0..MaxProtos
    BY <1>1 DEF SetsProto
  <2>2. proto' = [proto EXCEPT ![m] = proto[m] + 1]
    BY <1>1 DEF SetsProto
  <2>3. Register(m)
    BY <1>1 DEF SetsProto
  <2> QED
    BY <1>1, <2>1, <2>2, <2>3 DEF Register, GetsProto, contextVars
<1>2. CASE AddPropertiesThrows(m) /\ ~SetsProto(m)
  BY <1>2 DEF AddPropertiesThrows, Register, GetsProto, contextVars
<1>3. CASE GetsProto(m) /\ ~SetsProto(m)
  BY <1>3 DEF GetsProto, contextVars
<1> QED
  BY <1>1, <1>2, <1>3

\* The invariant of the class, where no instance and no life changes.
LEMMA ContextKeeps ==
  ASSUME RegistryInv, NEW m \in Machines, Usable(m), UNCHANGED <<className, life, objectVars>>,
         GetsProto(m) \/ SetsProto(m) \/ AddPropertiesThrows(m)
  PROVE  RegistryInv'
<1>1. RegistryTypeOK' /\ HomeInv'
  BY ContextMoves DEF RegistryInv, RegistryTypeOK, HomeInv, objectVars
<1>2. \A n \in Machines : proto[n] \in Nat /\ proto'[n] \in Nat /\ proto[n] <= proto'[n]
  BY ContextMoves, RegistryAssumption DEF RegistryInv, RegistryTypeOK
<1>3. ContextInv'
  <2>1. ASSUME NEW n \in Machines \ {m}
        PROVE  /\ registered'[n] \in {None, className'}
               /\ proto'[n] > 0 => className' # None /\ registered'[n] = className'
    BY <2>1, ContextMoves DEF RegistryInv, ContextInv
  <2>2. registered'[m] = className /\ className # None
    BY ContextMoves DEF Usable
  <2> QED
    BY <2>1, <2>2 DEF ContextInv
<1>4. ObjectsOfTheClass'
  <2> SUFFICES ASSUME NEW i \in Instances, instance'[i] = "object"
      PROVE  /\ life'[home'[i]] = "ready"
             /\ className' # None /\ registered'[home'[i]] = className'
             /\ proto'[home'[i]] > 0 /\ shape'[i] \in 1..proto'[home'[i]] \cup {Other}
    BY DEF ObjectsOfTheClass
  <2>1. home[i] \in Machines /\ instance[i] = "object" /\ proto[home[i]] > 0
        /\ shape[i] \in 1..proto[home[i]] \cup {Other}
    BY DEF RegistryInv, HomeInv, ObjectsOfTheClass, objectVars
  <2>2. registered'[home[i]] = className
    BY <2>1, ContextMoves DEF RegistryInv, ObjectsOfTheClass
  <2> QED
    BY <1>2, <2>1, <2>2 DEF RegistryInv, ObjectsOfTheClass, objectVars
<1> QED
  BY <1>1, <1>3, <1>4 DEF RegistryInv

\* A new object is one of the class, in a machine where the class has its prototypes.
LEMMA ObjectKeeps ==
  ASSUME RegistryInv, NEW m \in Machines, NEW i \in Instances, NEW p, Usable(m),
         MakesObject(m, i, p), UNCHANGED <<className, life>>,
         p \in 1..proto'[m] \cup {Other}, GetsProto(m)
  PROVE  RegistryInv'
<1>1. proto' \in [Machines -> 0..MaxProtos] /\ registered' \in [Machines -> Names \cup {None}]
      /\ \A n \in Machines : proto[n] \in Nat /\ proto'[n] \in Nat /\ proto[n] <= proto'[n]
  BY ContextMoves, RegistryAssumption DEF RegistryInv, RegistryTypeOK
<1>2. p \in Other..MaxProtos
  BY <1>1, RegistryAssumption DEF Other
<1>3. RegistryTypeOK'
  BY <1>1, <1>2 DEF RegistryInv, RegistryTypeOK, MakesObject
<1>4. HomeInv'
  BY DEF RegistryInv, RegistryTypeOK, HomeInv, MakesObject
<1>5. ContextInv'
  <2>1. ASSUME NEW n \in Machines \ {m}
        PROVE  /\ registered'[n] \in {None, className'}
               /\ proto'[n] > 0 => className' # None /\ registered'[n] = className'
    BY <2>1, ContextMoves DEF RegistryInv, ContextInv
  <2>2. registered'[m] = className /\ className # None
    BY ContextMoves DEF Usable
  <2> QED
    BY <2>1, <2>2 DEF ContextInv
<1>6. ObjectsOfTheClass'
  <2> SUFFICES ASSUME NEW j \in Instances, instance'[j] = "object"
      PROVE  /\ life'[home'[j]] = "ready"
             /\ className' # None /\ registered'[home'[j]] = className'
             /\ proto'[home'[j]] > 0 /\ shape'[j] \in 1..proto'[home'[j]] \cup {Other}
    BY DEF ObjectsOfTheClass
  <2>1. CASE j = i
    <3>1. home'[i] = m /\ shape'[i] = p
      BY DEF MakesObject, RegistryInv, RegistryTypeOK
    <3> QED
      BY <2>1, <3>1, ContextMoves DEF Usable
  <2>2. CASE j # i
    <3>1. home'[j] = home[j] /\ shape'[j] = shape[j] /\ instance[j] = "object"
      BY <2>2 DEF MakesObject, RegistryInv, RegistryTypeOK
    <3>2. home[j] \in Machines /\ proto[home[j]] > 0 /\ shape[j] \in 1..proto[home[j]] \cup {Other}
      BY <3>1 DEF RegistryInv, HomeInv, ObjectsOfTheClass
    <3>3. registered'[home[j]] = className
      BY <3>1, <3>2, ContextMoves DEF RegistryInv, ObjectsOfTheClass
    <3> QED
      BY <1>1, <3>1, <3>2, <3>3 DEF RegistryInv, ObjectsOfTheClass
  <2> QED
    BY <2>1, <2>2
<1> QED
  BY <1>3, <1>4, <1>5, <1>6 DEF RegistryInv

\* The invariant of the class, step by step.
LEMMA RegistryKeeps == RegistryInv /\ [RegistryStep]_registryVars => RegistryInv'
<1> SUFFICES ASSUME RegistryInv, [RegistryStep]_registryVars PROVE RegistryInv'
  OBVIOUS
<1>1. ASSUME NEW n \in Names, ClassInit(n) PROVE RegistryInv'
  <2>1. \A m \in Machines : registered[m] = None /\ ~(proto[m] > 0)
    BY <1>1 DEF ClassInit, RegistryInv, ContextInv
  <2> QED
    BY <1>1, <2>1 DEF ClassInit, RegistryInv, RegistryTypeOK, ContextInv, HomeInv,
       ObjectsOfTheClass, contextVars, objectVars
<1>2. ASSUME NEW m \in Machines, InitContext(m) \/ InitContextThrows(m) \/ GetProto(m)
      PROVE RegistryInv'
  BY <1>2, ContextKeeps DEF InitContext, InitContextThrows, GetProto
<1>3. ASSUME NEW m \in Machines, NEW i \in Instances, CreateInstance(m, i) PROVE RegistryInv'
  <2>1. proto'[m] \in 1..proto'[m]
    BY <1>3, ContextMoves, RegistryAssumption DEF CreateInstance
  <2> QED
    BY <1>3, <2>1, ObjectKeeps DEF CreateInstance
<1>4. ASSUME NEW m \in Machines, NEW i \in Instances, Construct(m, i) PROVE RegistryInv'
  <2>1. PICK p \in 1..proto[m] \cup {Other} : MakesObject(m, i, p)
    BY <1>4 DEF Construct
  <2>2. GetsProto(m) /\ p \in 1..proto'[m] \cup {Other}
    BY <1>4, <2>1 DEF GetsProto, Construct, contextVars
  <2> QED
    BY <1>4, <2>1, <2>2, ObjectKeeps DEF Construct
<1>5. ASSUME NEW m \in Machines, NEW i \in Instances, CreateInstanceThrows(m, i)
      PROVE RegistryInv'
  <2>1. proto' = proto /\ UNCHANGED <<className, life, home, shape>>
    BY <1>5 DEF CreateInstanceThrows, AddPropertiesThrows
  <2>2. registered' \in [Machines -> Names \cup {None}] /\ registered'[m] = className
        /\ \A n \in Machines \ {m} : registered'[n] = registered[n]
    BY <1>5, ContextMoves DEF CreateInstanceThrows
  <2>3. instance' \in [Instances -> {"unborn", "object", "leaked", "destroyed"}]
        /\ \A j \in Instances : instance'[j] = "object" => instance[j] = "object"
    BY <1>5 DEF CreateInstanceThrows, RegistryInv, RegistryTypeOK
  <2>4. className # None
    BY <1>5 DEF CreateInstanceThrows, Usable
  <2> QED
    BY <2>1, <2>2, <2>3, <2>4
       DEF RegistryInv, RegistryTypeOK, ContextInv, HomeInv, ObjectsOfTheClass
<1>6. ASSUME NEW i \in Instances, Collect(i) PROVE RegistryInv'
  BY <1>6, RegistryAssumption DEF Collect, Finalize, RegistryInv, RegistryTypeOK, ContextInv,
     HomeInv, ObjectsOfTheClass, contextVars, Other
<1>7. ASSUME NEW m \in Machines, MachineInitialize(m) PROVE RegistryInv'
  BY <1>7 DEF MachineInitialize, RegistryInv, RegistryTypeOK, ContextInv, HomeInv,
     ObjectsOfTheClass, contextVars, objectVars
<1>8. ASSUME NEW m \in Machines, MachineDestroy(m) PROVE RegistryInv'
  <2>1. RegistryTypeOK'
    BY <1>8, RegistryAssumption
       DEF MachineDestroy, Finalize, RegistryInv, RegistryTypeOK, Other
  <2>2. ContextInv'
    BY <1>8 DEF MachineDestroy, RegistryInv, RegistryTypeOK, ContextInv
  <2>3. \A i \in Instances : instance'[i] = "object" =>
           instance[i] = "object" /\ home[i] # m /\ home'[i] = home[i] /\ shape'[i] = shape[i]
    BY <1>8 DEF MachineDestroy, Finalize
  <2>4. HomeInv' /\ ObjectsOfTheClass'
    BY <1>8, <2>3 DEF MachineDestroy, RegistryInv, RegistryTypeOK, HomeInv, ObjectsOfTheClass
  <2> QED
    BY <2>1, <2>2, <2>4 DEF RegistryInv
<1>9. CASE UNCHANGED registryVars
  BY <1>9 DEF registryVars, contextVars, objectVars, RegistryInv, RegistryTypeOK, ContextInv,
     HomeInv, ObjectsOfTheClass
<1> QED
  BY <1>1, <1>2, <1>3, <1>4, <1>5, <1>6, <1>7, <1>8, <1>9 DEF RegistryStep, UseClass

-------------------------------------------------------------------------------
(* The plugins.                                                              *)

\* The plugins made by the running call are the last of the machine.
RunningInv == Running => Current.before + Current.made = Len(plugins[Current.machine])

PluginsInv == PluginsTypeOK /\ RunningInv /\ HeldInOrder

\* No plugin, no call.
LEMMA PluginsInitEstablishes == PluginsInit => PluginsInv
BY DEF PluginsInit, PluginsInv, PluginsTypeOK, RunningInv, Running, HeldInOrder

\* The first n plugins of call c are held in the order of its group.
HeldTo(c, n) ==
  /\ calls[c].before + n <= Len(plugins[calls[c].machine])
  /\ \A k \in 1..n : Get(calls[c], calls[c].before, k) = [type |-> calls[c].group[k], call |-> c]

\* What is held stays where it is when machines hold more.
LEMMA HeldKeeps ==
  ASSUME PluginsInv, plugins' \in [Hosts -> Seq(Plugin)], closed \subseteq closed',
         Len(calls) <= Len(calls'), calls' \in Seq(Call),
         \A m \in Hosts \ closed' :
           /\ Len(plugins[m]) <= Len(plugins'[m])
           /\ \A j \in 1..Len(plugins[m]) : plugins'[m][j] = plugins[m][j],
         \A c \in 1..Len(calls) : /\ calls'[c].machine = calls[c].machine
                                  /\ calls'[c].group = calls[c].group
                                  /\ calls'[c].before = calls[c].before,
         NEW c \in 1..Len(calls), NEW n, n = calls[c].made, calls[c].machine \notin closed'
  PROVE  HeldTo(c, n)'
<1>1. calls[c] \in Call /\ calls[c].machine \notin closed /\ c \in DOMAIN calls
  BY DEF PluginsInv, PluginsTypeOK
<1>2. calls[c].before \in Nat /\ n \in Nat /\ calls[c].machine \in Hosts
  BY <1>1 DEF Call
<1> DEFINE m == calls[c].machine
<1>3. Len(plugins[m]) \in Nat /\ Len(plugins'[m]) \in Nat
  BY <1>2 DEF PluginsInv, PluginsTypeOK
<1>4. calls[c].before + n <= Len(plugins[m])
      /\ \A k \in 1..n : plugins[m][calls[c].before + k] = [type |-> calls[c].group[k], call |-> c]
  BY <1>1 DEF PluginsInv, HeldInOrder, Open, Get
<1>5. calls[c].before + n <= Len(plugins'[m])
  <2>1. Len(plugins[m]) <= Len(plugins'[m])
    BY <1>2
  <2> HIDE DEF m
  <2> QED
    BY <1>2, <1>3, <1>4, <2>1
<1>6. ASSUME NEW k \in 1..n
      PROVE plugins'[m][calls[c].before + k] = [type |-> calls[c].group[k], call |-> c]
  <2>1. calls[c].before + k \in 1..Len(plugins[m])
    <3> DEFINE b == calls[c].before
               len == Len(plugins[m])
    <3>1. b \in Nat /\ n \in Nat /\ len \in Nat /\ b + n <= len /\ k \in 1..n
      BY <1>2, <1>3, <1>4
    <3> HIDE DEF b, len
    <3>2. b + k \in 1..len
      BY <3>1
    <3> QED
      BY <3>2 DEF b, len
  <2> QED
    BY <1>2, <1>4, <2>1
<1> QED
  BY <1>5, <1>6 DEF HeldTo, Get

\* The calls of initialize stay what they are, but for the running one.
LEMMA CurrentMoves ==
  ASSUME PluginsInv, Running, NEW call \in Call, CurrentBecomes(call),
         call.machine = Current.machine, call.group = Current.group,
         call.before = Current.before
  PROVE  /\ Current \in Call /\ Len(calls) \in 1..Len(calls)
         /\ calls' \in Seq(Call) /\ Len(calls') = Len(calls) /\ calls'[Len(calls)] = call
         /\ \A c \in 1..Len(calls) \ {Len(calls)} : calls'[c] = calls[c]
         /\ \A c \in 1..Len(calls) : /\ calls'[c].machine = calls[c].machine
                                      /\ calls'[c].group = calls[c].group
                                      /\ calls'[c].before = calls[c].before
<1>1. calls \in Seq(Call) /\ Len(calls) \in 1..Len(calls)
  BY DEF PluginsInv, PluginsTypeOK, Running
<1>2. calls' = [calls EXCEPT ![Len(calls)] = call]
  BY DEF CurrentBecomes
<1>3. calls' \in Seq(Call) /\ Len(calls') = Len(calls) /\ calls'[Len(calls)] = call
      /\ \A c \in 1..Len(calls) \ {Len(calls)} : calls'[c] = calls[c]
  BY <1>1, <1>2
<1> QED
  BY <1>1, <1>3 DEF Current
\* HeldInOrder by calls.
LEMMA HeldByCalls ==
  ASSUME \A c \in DOMAIN calls : \A n : n = calls[c].made /\ Open(calls[c]) => HeldTo(c, n)
  PROVE  HeldInOrder
BY DEF HeldInOrder, HeldTo

\* The invariant of the plugins, step by step.
LEMMA PluginsKeep == PluginsInv /\ [PluginStep]_pluginVars => PluginsInv'
<1> SUFFICES ASSUME PluginsInv, [PluginStep]_pluginVars PROVE PluginsInv'
  OBVIOUS
<1>a. calls \in Seq(Call) /\ Len(calls) \in Nat /\ plugins \in [Hosts -> Seq(Plugin)]
      /\ group \in [Managers -> Seq(Types)] /\ closed \subseteq Hosts
  BY DEF PluginsInv, PluginsTypeOK
<1>1. ASSUME NEW g \in Managers, NEW type \in Types, AddPlugin(g, type) PROVE PluginsInv'
  <2>1. UNCHANGED <<plugins, calls, closed>> /\ group' \in [Managers -> Seq(Types)]
    BY <1>1, <1>a DEF AddPlugin
  <2> QED
    BY <2>1 DEF PluginsInv, PluginsTypeOK, RunningInv, Running, Current, HeldInOrder, Open, Get
<1>2. ASSUME NEW m \in Hosts, NEW type \in Types, HoldPlugin(m, type) PROVE PluginsInv'
  <2> DEFINE plugin == [type |-> type, call |-> 0]
  <2>1. plugin \in Plugin /\ UNCHANGED <<group, calls, closed>>
        /\ plugins' = [plugins EXCEPT ![m] = Append(plugins[m], plugin)]
    BY <1>2 DEF HoldPlugin, Hold, Plugin
  <2>2. plugins' \in [Hosts -> Seq(Plugin)]
        /\ \A n \in Hosts : /\ Len(plugins[n]) <= Len(plugins'[n])
                            /\ \A j \in 1..Len(plugins[n]) : plugins'[n][j] = plugins[n][j]
    BY <1>a, <2>1
  <2>3. HeldInOrder'
    <3> SUFFICES ASSUME NEW c \in DOMAIN calls', NEW n, n = calls'[c].made, Open(calls[c])'
        PROVE HeldTo(c, n)'
      BY HeldByCalls DEF HeldInOrder, HeldTo
    <3>1. c \in 1..Len(calls) /\ n = calls[c].made /\ calls[c].machine \notin closed'
      BY <1>a, <2>1 DEF Open
    <3>2. closed \subseteq closed' /\ calls' = calls /\ Len(calls) <= Len(calls')
      BY <1>a, <2>1
    <3> HIDE DEF plugin
    <3> QED
      BY <1>a, <2>2, <3>1, <3>2, HeldKeeps
  <2> QED
    BY <1>2, <1>a, <2>1, <2>2, <2>3 DEF PluginsInv, PluginsTypeOK, RunningInv, HoldPlugin, Running
<1>3. ASSUME NEW m \in Hosts, NEW g \in Managers, InitializeBegins(m, g) PROVE PluginsInv'
  <2> DEFINE call == [machine |-> m, group |-> group[g], first |-> PluginBegin,
                      made |-> 0, before |-> Len(plugins[m]), state |-> "running"]
  <2>1. UNCHANGED <<group, plugins, closed>> /\ calls' = Append(calls, call)
    BY <1>3 DEF InitializeBegins
  <2>2. call \in Call
    BY <1>a DEF Call, PluginBegin
  <2>3. calls' \in Seq(Call) /\ Len(calls') = Len(calls) + 1 /\ calls'[Len(calls')] = call
        /\ \A c \in 1..Len(calls) : calls'[c] = calls[c]
    BY <1>a, <2>1, <2>2
  <2>4. HeldInOrder'
    <3> SUFFICES ASSUME NEW c \in DOMAIN calls', NEW n, n = calls'[c].made, Open(calls[c])'
        PROVE HeldTo(c, n)'
      BY HeldByCalls DEF HeldInOrder, HeldTo
    <3>1. CASE c \in 1..Len(calls)
      BY <1>a, <2>1, <2>3, <3>1, HeldKeeps DEF Open
    <3>2. CASE c = Len(calls')
      <4>1. n = 0 /\ calls'[c].before = Len(plugins[m]) /\ calls'[c].machine = m
        BY <2>3, <3>2
      <4> QED
        BY <1>a, <2>1, <4>1 DEF HeldTo
    <3> QED
      BY <1>a, <2>3, <3>1, <3>2
  <2>5. RunningInv'
    BY <1>a, <2>1, <2>3 DEF RunningInv, Current
  <2> QED
    BY <1>a, <2>1, <2>3, <2>4, <2>5 DEF PluginsInv, PluginsTypeOK
<1>4. CASE ConstructorReturns
  <2> DEFINE m == Current.machine
             plugin == [type |-> Current.group[Current.made + 1], call |-> Len(calls)]
             call == [Current EXCEPT !.made = @ + 1]
  <2>1. Running /\ UNCHANGED <<group, closed>> /\ CurrentBecomes(call)
        /\ Current.made < Len(Current.group)
        /\ plugins' = [plugins EXCEPT ![m] = Append(plugins[m], plugin)]
    BY <1>4 DEF ConstructorReturns, Hold
  <2>2. Current \in Call /\ Len(calls) \in 1..Len(calls)
    BY <1>a, <2>1 DEF Running, Current
  <2>3. call \in Call /\ plugin \in Plugin /\ m \in Hosts
        /\ Current.before \in Nat /\ Current.made \in Nat
        /\ call.machine = m /\ call.group = Current.group /\ call.before = Current.before
        /\ call.made = Current.made + 1
    <3>1. Current.made \in Nat /\ Current.group \in Seq(Types) /\ m \in Hosts
          /\ Current.before \in Nat
      BY <2>2 DEF Call
    <3>2. Current.made + 1 \in 1..Len(Current.group)
      BY <2>1, <3>1
    <3>3. plugin \in Plugin
      BY <2>2, <3>1, <3>2 DEF Plugin
    <3> QED
      BY <2>2, <3>1, <3>3 DEF Call
  <2>4. calls' \in Seq(Call) /\ Len(calls') = Len(calls) /\ calls'[Len(calls)] = call
        /\ (\A c \in 1..Len(calls) \ {Len(calls)} : calls'[c] = calls[c])
        /\ \A c \in 1..Len(calls) : /\ calls'[c].machine = calls[c].machine
                                     /\ calls'[c].group = calls[c].group
                                     /\ calls'[c].before = calls[c].before
    <3> HIDE DEF call, m
    <3> QED
      BY <2>1, <2>3, CurrentMoves DEF m
  <2>5. plugins' \in [Hosts -> Seq(Plugin)]
        /\ \A n \in Hosts : /\ Len(plugins[n]) <= Len(plugins'[n])
                            /\ \A j \in 1..Len(plugins[n]) : plugins'[n][j] = plugins[n][j]
    BY <1>a, <2>1, <2>3
  <2>6. Len(plugins[m]) \in Nat /\ Len(plugins'[m]) = Len(plugins[m]) + 1
        /\ plugins'[m][Len(plugins[m]) + 1] = plugin
    BY <1>a, <2>1, <2>3
  <2>7. Len(plugins[m]) = Current.before + Current.made
    BY <2>1 DEF PluginsInv, RunningInv
  <2>8. HeldInOrder'
    <3> SUFFICES ASSUME NEW c \in DOMAIN calls', NEW n, n = calls'[c].made, Open(calls[c])'
        PROVE HeldTo(c, n)'
      BY HeldByCalls DEF HeldInOrder, HeldTo
    <3>1. c \in 1..Len(calls) /\ calls[c].machine \notin closed'
      BY <2>4 DEF Open
    <3>3. ASSUME NEW l, l = calls[c].made PROVE HeldTo(c, l)'
      <4>1. Len(calls) <= Len(calls') /\ closed \subseteq closed'
        BY <1>a, <2>1, <2>4
      <4> HIDE DEF call, m, plugin
      <4> QED
        BY <2>4, <2>5, <3>1, <3>3, <4>1, HeldKeeps
    <3>4. CASE c # Len(calls)
      BY <2>4, <3>1, <3>3, <3>4
    <3>5. CASE c = Len(calls)
      <4>1. calls'[c] = call /\ n = Current.made + 1 /\ calls[c] = Current
        BY <2>3, <2>4, <3>5 DEF Current
      <4>2. HeldTo(c, n - 1)' /\ n \in Nat /\ n > 0
        BY <2>3, <3>3, <4>1
      <4>3. calls'[c].machine = m /\ calls'[c].group = Current.group
            /\ calls'[c].before = Current.before
        BY <2>3, <4>1
      <4>4. calls'[c].before + n = Len(plugins'[m])
        BY <2>3, <2>6, <2>7, <4>1, <4>3
      <4>5. Get(calls[c], calls[c].before, n)' = [type |-> calls'[c].group[n], call |-> c]
        <5>1. calls'[c].before + n = Len(plugins[m]) + 1 /\ n = Current.made + 1
          BY <2>3, <2>6, <2>7, <4>1, <4>3
        <5> QED
          BY <2>6, <3>5, <4>3, <5>1 DEF Get
      <4>6. \A k \in 1..n : k \in 1..(n - 1) \/ k = n
        BY <4>2
      <4> QED
        BY <2>6, <4>2, <4>3, <4>4, <4>5, <4>6 DEF HeldTo
    <3> QED
      BY <3>4, <3>5
  <2>9. RunningInv'
    BY <2>3, <2>4, <2>6, <2>7 DEF RunningInv, Current
  <2> QED
    BY <1>a, <2>1, <2>4, <2>5, <2>8, <2>9 DEF PluginsInv, PluginsTypeOK
<1>5. CASE ConstructorThrows \/ InitializeReturns
  <2>1. PICK call : /\ Running /\ UNCHANGED <<group, plugins, closed>> /\ CurrentBecomes(call)
                    /\ \/ call = [Current EXCEPT !.state = "threw"]
                       \/ call = [Current EXCEPT !.state = "returned"]
    BY <1>5 DEF ConstructorThrows, InitializeReturns
  <2>2. Current \in Call /\ Len(calls) \in 1..Len(calls)
    BY <1>a, <2>1 DEF Running, Current
  <2>3. call \in Call /\ call.machine = Current.machine /\ call.group = Current.group
        /\ call.before = Current.before /\ call.made = Current.made /\ call.state # "running"
    BY <2>1, <2>2 DEF Call
  <2>4. calls' \in Seq(Call) /\ Len(calls') = Len(calls) /\ calls'[Len(calls)] = call
        /\ (\A c \in 1..Len(calls) \ {Len(calls)} : calls'[c] = calls[c])
        /\ \A c \in 1..Len(calls) : /\ calls'[c].machine = calls[c].machine
                                     /\ calls'[c].group = calls[c].group
                                     /\ calls'[c].before = calls[c].before
    BY <2>1, <2>3, CurrentMoves
  <2>5. \A c \in 1..Len(calls) : calls'[c].made = calls[c].made
    BY <2>3, <2>4 DEF Current
  <2>6. HeldInOrder'
    <3> SUFFICES ASSUME NEW c \in DOMAIN calls', NEW n, n = calls'[c].made, Open(calls[c])'
        PROVE HeldTo(c, n)'
      BY HeldByCalls DEF HeldInOrder, HeldTo
    <3>1. c \in 1..Len(calls) /\ n = calls[c].made /\ calls[c].machine \notin closed'
      BY <2>4, <2>5 DEF Open
    <3>2. Len(calls) <= Len(calls') /\ closed \subseteq closed'
          /\ \A m \in Hosts : Len(plugins[m]) <= Len(plugins'[m])
      BY <1>a, <2>1, <2>4
    <3> QED
      BY <1>a, <2>1, <2>4, <3>1, <3>2, HeldKeeps
  <2>7. RunningInv'
    BY <2>3, <2>4 DEF RunningInv, Running
  <2> QED
    BY <1>a, <2>1, <2>4, <2>6, <2>7 DEF PluginsInv, PluginsTypeOK
<1>6. ASSUME NEW m \in Hosts, PluginsDestroyed(m) PROVE PluginsInv'
  <2>1. UNCHANGED <<group, calls>> /\ closed' = closed \cup {m} /\ ~Running'
        /\ plugins' = [plugins EXCEPT ![m] = <<>>]
    BY <1>6 DEF PluginsDestroyed, Running
  <2>2. plugins' \in [Hosts -> Seq(Plugin)] /\ \A n \in Hosts \ closed' : plugins'[n] = plugins[n]
    BY <1>a, <2>1
  <2>3. \A n \in Hosts : Len(plugins[n]) \in Nat
    BY <1>a
  <2>4. HeldInOrder'
    <3> SUFFICES ASSUME NEW c \in DOMAIN calls', NEW n, n = calls'[c].made, Open(calls[c])'
        PROVE HeldTo(c, n)'
      BY HeldByCalls DEF HeldInOrder, HeldTo
    <3>1. c \in 1..Len(calls) /\ n = calls[c].made /\ calls[c].machine \notin closed'
      BY <1>a, <2>1 DEF Open
    <3> QED
      BY <1>a, <2>1, <2>2, <2>3, <3>1, HeldKeeps
  <2> QED
    BY <1>a, <2>1, <2>2, <2>4 DEF PluginsInv, PluginsTypeOK, RunningInv
<1>7. CASE UNCHANGED pluginVars
  BY <1>7 DEF pluginVars, PluginsInv, PluginsTypeOK, RunningInv, Running, Current, HeldInOrder,
     Open, Get
<1> QED
  BY <1>1, <1>2, <1>3, <1>4, <1>5, <1>6, <1>7 DEF PluginStep
-------------------------------------------------------------------------------
(* Both.                                                                     *)

IndInv == RegistryInv /\ PluginsInv

\* Every behaviour of Setup keeps both invariants.
THEOREM Inductive == Spec => []IndInv
<1>1. Init => IndInv
  BY RegistryInitEstablishes, PluginsInitEstablishes DEF Init, IndInv
<1>2. IndInv /\ [Next]_vars => IndInv'
  BY Parts, RegistryKeeps, PluginsKeep DEF IndInv
<1> QED
  BY <1>1, <1>2, PTL DEF Spec

\* Every variable of Setup keeps its type, for any machines, groups and bounds.
THEOREM TypeCorrect == Spec => []TypeOK
<1>1. IndInv => TypeOK
  BY DEF IndInv, RegistryInv, PluginsInv, TypeOK
<1> QED
  BY <1>1, Inductive, PTL

\* An object of a class is found only in machines that know the class, with a prototype of
\* their own (init, initContext, getProto, createInstance and constructor_impl of Class).
THEOREM ObjectsAreOfTheClass == Spec => []ObjectsOfTheClass
<1>1. IndInv => ObjectsOfTheClass
  BY DEF IndInv, RegistryInv
<1> QED
  BY <1>1, Inductive, PTL

\* The plugins of a group are held side by side in the order of the group, whatever
\* constructors threw (PluginManager::initialize, holdPlugin).
THEOREM PluginsInOrder == Spec => []HeldInOrder
<1>1. IndInv => HeldInOrder
  BY DEF IndInv, PluginsInv
<1> QED
  BY <1>1, Inductive, PTL

-------------------------------------------------------------------------------
(* When the handle of a group is the right one.                              *)

\* Who made what is held: nobody after the last call; what a machine held before a call was
\* made by others. The handle is always that of the machine's first plugin.
MakersInv ==
  /\ \A m \in Hosts : \A j \in 1..Len(plugins[m]) : plugins[m][j].call <= Len(calls)
  /\ \A c \in 1..Len(calls) :
       /\ calls[c].first = 0
       /\ calls[c].state = "returned" => calls[c].made = Len(calls[c].group)
       /\ Open(calls[c]) =>
            \A j \in 1..calls[c].before : plugins[calls[c].machine][j].call # c

\* The handle of a call finds its plugins.
FindsItsOwn(c) ==
  \A k \in 1..Len(calls[c].group) :
    Get(calls[c], calls[c].first, k) = [type |-> calls[c].group[k], call |-> c]

\* HandleFindsPlugin holds for a group that was initialised first of all in its machine, and
\* for no other that is not empty, whatever is held later.
HandleOfFirstGroup ==
  \A c \in 1..Len(calls) :
    Open(calls[c]) /\ calls[c].state = "returned" /\ calls[c].group # <<>>
      => (FindsItsOwn(c) <=> calls[c].before = 0)

\* No plugin, no call.
LEMMA MakersInit == PluginsInit => MakersInv
BY DEF PluginsInit, MakersInv

\* Plugins are added at the end, by the last call or by none: before it, nothing changes.
LEMMA MakersStep == PluginsInv /\ MakersInv /\ [PluginStep]_pluginVars => MakersInv'
<1> SUFFICES ASSUME PluginsInv, MakersInv, [PluginStep]_pluginVars PROVE MakersInv'
  OBVIOUS
<1>a. calls \in Seq(Call) /\ Len(calls) \in Nat /\ plugins \in [Hosts -> Seq(Plugin)]
      /\ \A m \in Hosts : Len(plugins[m]) \in Nat
  BY DEF PluginsInv, PluginsTypeOK
<1>b. ASSUME NEW c \in 1..Len(calls), Open(calls[c])
      PROVE  calls[c].before <= Len(plugins[calls[c].machine])
  <2>1. calls[c] \in Call
    BY <1>a
  <2>2. calls[c].before \in Nat /\ calls[c].made \in Nat /\ calls[c].machine \in Hosts
    BY <2>1 DEF Call
  <2>3. calls[c].before + calls[c].made <= Len(plugins[calls[c].machine])
    BY <1>a, <1>b DEF PluginsInv, HeldInOrder
  <2> DEFINE n == Len(plugins[calls[c].machine])
  <2>4. n \in Nat
    BY <1>a, <2>2
  <2> HIDE DEF n
  <2> QED
    BY <2>2, <2>3, <2>4 DEF n
<1>c. \A c \in 1..Len(calls) : /\ calls[c] \in Call /\ calls[c].machine \in Hosts
                              /\ calls[c].before \in Nat
  <2> TAKE c \in 1..Len(calls)
  <2>1. calls[c] \in Call
    BY <1>a
  <2> QED
    BY <2>1 DEF Call
<1>1. ASSUME NEW m \in Hosts, NEW plugin \in Plugin,
             plugins' = [plugins EXCEPT ![m] = Append(plugins[m], plugin)],
             plugin.call <= Len(calls), closed' = closed,
             calls' \in Seq(Call), Len(calls') = Len(calls),
             \A c \in 1..Len(calls) :
               /\ calls'[c].machine = calls[c].machine /\ calls'[c].before = calls[c].before
               /\ calls'[c].first = calls[c].first
               /\ calls'[c].state = "returned" => calls'[c].made = Len(calls'[c].group)
      PROVE  MakersInv'
  <2>1. \A n \in Hosts \ {m} : plugins'[n] = plugins[n]
    BY <1>a, <1>1
  <2>2. /\ Len(plugins'[m]) = Len(plugins[m]) + 1
        /\ \A j \in 1..Len(plugins[m]) : plugins'[m][j] = plugins[m][j]
        /\ plugins'[m][Len(plugins[m]) + 1] = plugin
    BY <1>a, <1>1
  <2>3. \A j \in 1..Len(plugins'[m]) : plugins'[m][j].call <= Len(calls)
    <3> TAKE j \in 1..Len(plugins'[m])
    <3>1. j \in 1..Len(plugins[m]) \/ j = Len(plugins[m]) + 1
      BY <1>a, <2>2
    <3> QED
      BY <1>1, <2>2, <3>1 DEF MakersInv
  <2>4. ASSUME NEW c \in 1..Len(calls), Open(calls[c]), NEW j \in 1..calls[c].before
        PROVE plugins'[calls[c].machine][j] = plugins[calls[c].machine][j]
    <3>1. j \in 1..Len(plugins[calls[c].machine])
      BY <1>a, <1>b, <1>c, <2>4
    <3> QED
      BY <1>c, <2>1, <2>2, <3>1
  <2>5. ASSUME NEW c \in 1..Len(calls), Open(calls[c])'
        PROVE \A j \in 1..calls'[c].before : plugins'[calls'[c].machine][j].call # c
    <3>1. Open(calls[c]) /\ calls'[c].machine = calls[c].machine
          /\ calls'[c].before = calls[c].before
      BY <1>1, <2>5 DEF Open
    <3>2. \A j \in 1..calls[c].before : plugins[calls[c].machine][j].call # c
      BY <3>1 DEF MakersInv
    <3> QED
      BY <2>4, <3>1, <3>2
  <2> QED
    BY <1>1, <2>1, <2>3, <2>5 DEF MakersInv
<1>2. CASE \E g \in Managers, type \in Types : AddPlugin(g, type)
  BY <1>2 DEF AddPlugin, MakersInv, Open
<1>3. ASSUME NEW m \in Hosts, NEW type \in Types, HoldPlugin(m, type) PROVE MakersInv'
  <2> DEFINE plugin == [type |-> type, call |-> 0]
  <2>1. plugin \in Plugin /\ plugin.call <= Len(calls) /\ UNCHANGED <<calls, closed>>
        /\ plugins' = [plugins EXCEPT ![m] = Append(plugins[m], plugin)]
    BY <1>a, <1>3 DEF HoldPlugin, Hold, Plugin
  <2> HIDE DEF plugin
  <2> QED
    BY <1>a, <1>1, <2>1 DEF MakersInv
<1>4. ASSUME NEW m \in Hosts, NEW g \in Managers, InitializeBegins(m, g) PROVE MakersInv'
  <2> DEFINE call == [machine |-> m, group |-> group[g], first |-> PluginBegin,
                      made |-> 0, before |-> Len(plugins[m]), state |-> "running"]
  <2>1. UNCHANGED <<plugins, closed>> /\ calls' = Append(calls, call)
    BY <1>4 DEF InitializeBegins
  <2>2. /\ Len(calls') = Len(calls) + 1 /\ calls'[Len(calls) + 1] = call
        /\ \A c \in 1..Len(calls) : calls'[c] = calls[c]
    BY <1>a, <2>1
  <2>3. \A n \in Hosts : \A j \in 1..Len(plugins[n]) :
          plugins[n][j].call \in Nat /\ plugins[n][j].call <= Len(calls)
    <3> TAKE n \in Hosts
    <3> TAKE j \in 1..Len(plugins[n])
    <3>1. plugins[n][j] \in Plugin
      BY <1>a
    <3> QED
      BY <3>1 DEF MakersInv, Plugin
  <2>4. \A n \in Hosts : \A j \in 1..Len(plugins'[n]) : plugins'[n][j].call <= Len(calls')
    BY <1>a, <2>1, <2>2, <2>3
  <2>5. /\ call.first = 0 /\ call.state # "returned" /\ call.machine = m
        /\ call.before = Len(plugins[m])
    BY DEF PluginBegin
  <2> HIDE DEF call
  <2>6. \A j \in 1..call.before : plugins'[call.machine][j].call # Len(calls) + 1
    BY <1>a, <2>1, <2>3, <2>5
  <2>7. ASSUME NEW c \in 1..Len(calls')
        PROVE /\ calls'[c].first = 0
              /\ calls'[c].state = "returned" => calls'[c].made = Len(calls'[c].group)
              /\ Open(calls[c])' =>
                   \A j \in 1..calls'[c].before : plugins'[calls'[c].machine][j].call # c
    <3>1. CASE c \in 1..Len(calls)
      BY <2>1, <2>2, <3>1 DEF MakersInv, Open
    <3>2. CASE c = Len(calls) + 1
      BY <2>2, <2>5, <2>6, <3>2
    <3> QED
      BY <1>a, <2>2, <3>1, <3>2
  <2> QED
    BY <2>4, <2>7 DEF MakersInv
<1>5. CASE ConstructorReturns
  <2> DEFINE m == Current.machine
             plugin == [type |-> Current.group[Current.made + 1], call |-> Len(calls)]
             call == [Current EXCEPT !.made = @ + 1]
  <2>1. Running /\ UNCHANGED closed /\ CurrentBecomes(call)
        /\ Current.made < Len(Current.group)
        /\ plugins' = [plugins EXCEPT ![m] = Append(plugins[m], plugin)]
    BY <1>5 DEF ConstructorReturns, Hold
  <2>2. Current \in Call /\ Current = calls[Len(calls)] /\ Current.state = "running"
    BY <1>a, <2>1 DEF Running, Current
  <2>3. /\ Current.made \in Nat /\ Current.group \in Seq(Types) /\ m \in Hosts
        /\ Current.first = 0
    <3>1. Len(calls) \in 1..Len(calls)
      BY <1>a, <2>1 DEF Running
    <3>2. Current.first = 0
      BY <2>2, <3>1 DEF MakersInv
    <3> QED
      BY <2>2, <3>2 DEF Call
  <2>4. Current.made + 1 \in 1..Len(Current.group)
    BY <2>1, <2>3
  <2>5. plugin \in Plugin /\ plugin.call <= Len(calls)
    BY <1>a, <2>3, <2>4 DEF Plugin
  <2>6. call \in Call /\ call.machine = m /\ call.group = Current.group
        /\ call.before = Current.before /\ call.first = Current.first
        /\ call.state = "running"
    BY <2>2, <2>3 DEF Call
  <2> HIDE DEF call, plugin, m
  <2>7. /\ calls' \in Seq(Call) /\ Len(calls') = Len(calls) /\ calls'[Len(calls)] = call
        /\ \A c \in 1..Len(calls) \ {Len(calls)} : calls'[c] = calls[c]
    BY <2>1, <2>6, CurrentMoves DEF m
  <2>8. ASSUME NEW c \in 1..Len(calls)
        PROVE /\ calls'[c].machine = calls[c].machine /\ calls'[c].before = calls[c].before
              /\ calls'[c].first = calls[c].first
              /\ calls'[c].state = "returned" => calls'[c].made = Len(calls'[c].group)
    <3>1. CASE c = Len(calls)
      BY <2>2, <2>6, <2>7, <3>1 DEF m
    <3>2. CASE c # Len(calls)
      BY <2>7, <3>2 DEF MakersInv
    <3> QED
      BY <3>1, <3>2
  <2> QED
    BY <1>1, <2>1, <2>3, <2>5, <2>7, <2>8
<1>6. CASE ConstructorThrows \/ InitializeReturns
  <2>1. PICK call : /\ Running /\ UNCHANGED <<plugins, closed>> /\ CurrentBecomes(call)
                    /\ \/ call = [Current EXCEPT !.state = "threw"]
                       \/ /\ call = [Current EXCEPT !.state = "returned"]
                          /\ Current.made = Len(Current.group)
    BY <1>6 DEF ConstructorThrows, InitializeReturns
  <2>2. Current \in Call /\ Current = calls[Len(calls)]
    BY <1>a, <2>1 DEF Running, Current
  <2>3. call \in Call /\ call.machine = Current.machine /\ call.group = Current.group
        /\ call.before = Current.before
    BY <2>1, <2>2 DEF Call
  <2>4. /\ Len(calls') = Len(calls) /\ calls'[Len(calls)] = call
        /\ \A c \in 1..Len(calls) \ {Len(calls)} : calls'[c] = calls[c]
    BY <2>1, <2>3, CurrentMoves
  <2>6. call.first = Current.first /\ (call.state = "returned" => call.made = Len(call.group))
    <3>1. CASE call = [Current EXCEPT !.state = "threw"]
      BY <2>2, <3>1 DEF Call
    <3>2. CASE call = [Current EXCEPT !.state = "returned"] /\ Current.made = Len(Current.group)
      BY <2>2, <3>2 DEF Call
    <3> QED
      BY <2>1, <3>1, <3>2
  <2>5. ASSUME NEW c \in 1..Len(calls)
        PROVE /\ calls'[c].machine = calls[c].machine /\ calls'[c].before = calls[c].before
              /\ calls'[c].first = calls[c].first
              /\ calls'[c].state = "returned" => calls'[c].made = Len(calls'[c].group)
    <3>1. CASE c = Len(calls)
      BY <2>2, <2>3, <2>4, <2>6, <3>1
    <3>2. CASE c # Len(calls)
      BY <2>4, <3>2 DEF MakersInv
    <3> QED
      BY <3>1, <3>2
  <2> QED
    BY <2>1, <2>4, <2>5 DEF MakersInv, Open
<1>7. ASSUME NEW m \in Hosts, PluginsDestroyed(m) PROVE MakersInv'
  <2>1. UNCHANGED calls /\ closed' = closed \cup {m}
        /\ plugins' = [plugins EXCEPT ![m] = <<>>]
    BY <1>7 DEF PluginsDestroyed
  <2>2. plugins'[m] = <<>> /\ \A n \in Hosts \ {m} : plugins'[n] = plugins[n]
    BY <1>a, <2>1
  <2>3. \A n \in Hosts : \A j \in 1..Len(plugins'[n]) : plugins'[n][j].call <= Len(calls)
    BY <2>2 DEF MakersInv
  <2>4. \A c \in 1..Len(calls) : Open(calls[c])' => Open(calls[c]) /\ calls[c].machine # m
    BY <2>1 DEF Open
  <2> QED
    BY <1>c, <2>1, <2>2, <2>3, <2>4 DEF MakersInv
<1>8. CASE UNCHANGED pluginVars
  BY <1>8 DEF pluginVars, MakersInv, Open
<1> QED
  BY <1>2, <1>3, <1>4, <1>5, <1>6, <1>7, <1>8 DEF PluginStep

\* What was held before the call is at the handle when there is such; it is another's.
LEMMA HandleFollows == PluginsInv /\ MakersInv => HandleOfFirstGroup
<1> SUFFICES ASSUME PluginsInv, MakersInv, NEW c \in 1..Len(calls),
                    Open(calls[c]), calls[c].state = "returned", calls[c].group # <<>>
             PROVE  FindsItsOwn(c) <=> calls[c].before = 0
  BY DEF HandleOfFirstGroup
<1>1. calls[c] \in Call /\ c \in DOMAIN calls
  BY DEF PluginsInv, PluginsTypeOK
<1>2. calls[c].before \in Nat /\ calls[c].first = 0 /\ calls[c].group \in Seq(Types)
      /\ calls[c].made = Len(calls[c].group)
  BY <1>1 DEF Call, MakersInv
<1>3. CASE calls[c].before = 0
  <2>1. \A k \in 1..calls[c].made :
          Get(calls[c], calls[c].before, k) = [type |-> calls[c].group[k], call |-> c]
    BY <1>1 DEF PluginsInv, HeldInOrder
  <2> QED
    BY <1>2, <1>3, <2>1 DEF FindsItsOwn
<1>4. CASE calls[c].before # 0
  <2>1. 1 \in 1..Len(calls[c].group) /\ 1 \in 1..calls[c].before
    BY <1>2, <1>4
  <2>2. Get(calls[c], calls[c].first, 1) = plugins[calls[c].machine][1]
    BY <1>2 DEF Get
  <2>3. plugins[calls[c].machine][1].call # c
    BY <2>1 DEF MakersInv
  <2>4. [type |-> calls[c].group[1], call |-> c].call = c
    OBVIOUS
  <2> QED
    BY <1>4, <2>1, <2>2, <2>3, <2>4 DEF FindsItsOwn
<1> QED
  BY <1>3, <1>4

\* The handle that initialize returns finds the plugins of its group exactly when the machine
\* held none before: pluginBegin() is the machine's first plugin (PluginManager::initialize).
THEOREM HandleIsOfFirstGroup == Spec => []HandleOfFirstGroup
<1>1. Init => IndInv /\ MakersInv
  BY RegistryInitEstablishes, PluginsInitEstablishes, MakersInit DEF Init, IndInv
<1>2. IndInv /\ MakersInv /\ [Next]_vars => (IndInv /\ MakersInv)'
  BY Parts, RegistryKeeps, PluginsKeep, MakersStep DEF IndInv
<1>3. IndInv /\ MakersInv => HandleOfFirstGroup
  BY HandleFollows DEF IndInv
<1> QED
  BY <1>1, <1>2, <1>3, PTL DEF Spec
================================================================================
