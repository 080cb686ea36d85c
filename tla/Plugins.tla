-------------------------------- MODULE Plugins --------------------------------
(***************************************************************************)
(* PluginHolderFeature and PluginManager: a manager is a group of plugin   *)
(* types; initialize() makes one plugin of each in a machine, which holds  *)
(* them, and returns a handle that is to be added to the offsets of the    *)
(* group.                                                                  *)
(***************************************************************************)
EXTENDS Integers, Sequences

CONSTANTS Hosts,      \* machines
          Managers,
          Types,      \* types of plugins
          MaxGroup,   \* bound: plugins in a group
          MaxCalls,   \* bound: calls of initialize
          MaxHeld     \* bound: plugins held in one machine

ASSUME PluginsAssumption == MaxGroup \in Nat /\ MaxCalls \in Nat /\ MaxHeld \in Nat

VARIABLES
  group,    \* of a manager: its _plugins, as their types
  plugins,  \* of a machine: its _plugins
  calls,    \* the calls of initialize, the last of which may be running
  closed    \* the machines that are no more

pluginVars == <<group, plugins, calls, closed>>

\* A plugin, with the call that made it; 0 when the embedder made it.
Plugin == [type : Types, call : Nat]

\* A call: its machine, the group, its local `first', the plugins it has made; for the
\* properties, how many plugins the machine held when it began.
Call == [machine : Hosts, group : Seq(Types), first : Nat, made : Nat, before : Nat,
         state : {"running", "returned", "threw"}]

PluginsTypeOK ==
  /\ group \in [Managers -> Seq(Types)]
  /\ plugins \in [Hosts -> Seq(Plugin)]
  /\ calls \in Seq(Call)
  /\ closed \subseteq Hosts

PluginsInit ==
  /\ group = [g \in Managers |-> <<>>]
  /\ plugins = [m \in Hosts |-> <<>>]
  /\ calls = <<>>
  /\ closed = {}

Running == calls # <<>> /\ calls[Len(calls)].state = "running"

\* The running call, and what becomes of it.
Current == calls[Len(calls)]
CurrentBecomes(call) == calls' = [calls EXCEPT ![Len(calls)] = call]

\* A plugin at the front.
HoldFirst(m, plugin) ==
  /\ Len(plugins[m]) < MaxHeld
  /\ plugins' = [plugins EXCEPT ![m] = <<plugin>> \o @]

\* push_back of a unique_ptr.
Hold(m, plugin) ==
  /\ Len(plugins[m]) < MaxHeld
  /\ plugins' = [plugins EXCEPT ![m] = Append(@, plugin)]

-------------------------------------------------------------------------------
AddPlugin(g, type) ==
  /\ ~Running /\ Len(group[g]) < MaxGroup
  /\ group' = [group EXCEPT ![g] = Append(@, type)]
  /\ UNCHANGED <<plugins, calls, closed>>

HoldPlugin(m, type) ==
  /\ ~Running
  /\ Hold(m, [type |-> type, call |-> 0])
  /\ UNCHANGED <<group, calls, closed>>

\* The first plugin of the machine.
PluginBegin == 0

InitializeBegins(m, g) ==
  /\ ~Running /\ Len(calls) < MaxCalls
  /\ calls' = Append(calls, [machine |-> m, group |-> group[g], first |-> PluginBegin,
                             made |-> 0, before |-> Len(plugins[m]), state |-> "running"])
  /\ UNCHANGED <<group, plugins, closed>>

\* A constructor has returned: the machine holds the plugin.
ConstructorReturns ==
  /\ Running /\ Current.made < Len(Current.group)
  /\ Hold(Current.machine, [type |-> Current.group[Current.made + 1], call |-> Len(calls)])
  /\ CurrentBecomes([Current EXCEPT !.made = @ + 1])
  /\ UNCHANGED <<group, closed>>

\* A constructor throws, and initialize with it: the plugins before it stay.
ConstructorThrows ==
  /\ Running /\ Current.made < Len(Current.group)
  /\ CurrentBecomes([Current EXCEPT !.state = "threw"])
  /\ UNCHANGED <<group, plugins, closed>>

InitializeReturns ==
  /\ Running /\ Current.made = Len(Current.group)
  /\ CurrentBecomes([Current EXCEPT !.state = "returned"])
  /\ UNCHANGED <<group, plugins, closed>>

\* The destructor of the holder.
PluginsDestroyed(m) ==
  /\ ~Running
  /\ plugins' = [plugins EXCEPT ![m] = <<>>]
  /\ closed' = closed \cup {m}
  /\ UNCHANGED <<group, calls>>

-------------------------------------------------------------------------------
(* Properties.                                                               *)

Open(call) == call.machine \notin closed

\* getPlugin(handle) of the code, for the k-th plugin of a group: handle and offset from 0.
Get(call, handle, k) == plugins[call.machine][handle + k]

\* The plugins of a group stand in the machine one after the other, in the order of the group,
\* whatever other groups were added before, between or after, and when a constructor threw,
\* those before it: an offset in the group is an offset from the plugin made first.
HeldInOrder ==
  \A c \in DOMAIN calls : Open(calls[c]) =>
    /\ calls[c].before + calls[c].made <= Len(plugins[calls[c].machine])
    /\ \A k \in 1..calls[c].made :
         Get(calls[c], calls[c].before, k) = [type |-> calls[c].group[k], call |-> c]

\* The handle that initialize returned, plus the offset that addPlugin returned, finds the
\* plugin that this call made ("the handle of the first plugin in the group", plugins.md).
HandleFindsPlugin ==
  \A c \in DOMAIN calls : Open(calls[c]) /\ calls[c].state = "returned" =>
    \A k \in 1..Len(calls[c].group) :
      Get(calls[c], calls[c].first, k) = [type |-> calls[c].group[k], call |-> c]
================================================================================
