--------------------------------- MODULE Setup ---------------------------------
(***************************************************************************)
(* A process that makes machines, adds plugins to them and uses a class in *)
(* them: Plugins over ClassRegistry.  The constructor of a plugin uses the *)
(* machine it is given; a machine destroys its plugins before its context. *)
(***************************************************************************)
EXTENDS ClassRegistry, Plugins

\* Some of the machines have a PluginHolderFeature.
ASSUME SetupAssumption == Hosts \subseteq Machines

vars == <<registryVars, pluginVars>>

TypeOK == RegistryTypeOK /\ PluginsTypeOK

Init == RegistryInit /\ PluginsInit

\* While a group is initialised its constructors run, and use the machine they are given.
Active(m) == Running => Current.machine = m

Classes ==
  /\ \/ \E n \in Names : ClassInit(n)
     \/ \E m \in Machines : Active(m) /\ UseClass(m)
     \/ \E i \in Instances : Collect(i)
  /\ UNCHANGED pluginVars

\* The initialize of a machine comes before that of its plugins.
Groups ==
  /\ \/ \E g \in Managers, type \in Types : AddPlugin(g, type)
     \/ \E m \in Hosts, type \in Types : life[m] = "ready" /\ HoldPlugin(m, type)
     \/ \E m \in Hosts, g \in Managers : life[m] = "ready" /\ InitializeBegins(m, g)
     \/ ConstructorReturns \/ ConstructorThrows \/ InitializeReturns
  /\ UNCHANGED registryVars

Initialize(m) == ~Running /\ MachineInitialize(m) /\ UNCHANGED pluginVars

\* ~PluginHolderFeature, where there is one, then ~MachineBase.
Destroy(m) ==
  /\ IF m \in Hosts THEN PluginsDestroyed(m) ELSE ~Running /\ UNCHANGED pluginVars
  /\ MachineDestroy(m)

Next ==
  \/ Classes \/ Groups
  \/ \E m \in Machines : Initialize(m) \/ Destroy(m)

Spec == Init /\ [][Next]_vars
================================================================================
