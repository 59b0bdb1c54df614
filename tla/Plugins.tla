------------------------------ MODULE Plugins ------------------------------
(***************************************************************************)
(* The plugin registry and the events it triggers (shared/                 *)
(* plugin_system.py), with the admin API on it (admin_service/routes/      *)
(* plugins.py).  It is a global of one process, whose event loop changes   *)
(* hands only where a handler is awaited.                                  *)
(***************************************************************************)
EXTENDS Naturals, Sequences, SequencesExt

CONSTANTS
    PluginNames,
    Events,          \* trigger_event calls, all of one type of event
    Missing,         \* no plugin offers the tool
    MaxRegistrations \* bound on the registrations with handlers

ASSUME PluginsAssumption ==
    /\ Missing \notin PluginNames
    /\ MaxRegistrations \in Nat

VARIABLES
    plugins,   \* _plugins: "absent", "enabled" or "disabled"
    tool,      \* _tools[name] of one name that every plugin offers: whose it is
    triggers,  \* _triggers of the type of event: plugin and number of each handler
    event      \* each trigger_event: its iterator, what it ran, and where it is

pluginVars == <<plugins, tool, triggers, event>>

PluginsInit ==
    /\ plugins = [p \in PluginNames |-> "absent"]
    /\ tool = Missing
    /\ triggers = <<>>
    /\ event = [e \in Events |-> [at |-> "new", index |-> 0, ran |-> <<>>, due |-> {}]]

\* The admin API registers an empty module: a tool and handlers stay as they are.
InstallPlugin(p) ==
    /\ plugins' = [plugins EXCEPT ![p] = "enabled"]
    /\ UNCHANGED <<tool, triggers, event>>

\* Code registers a module that has a tool and a handler, once more every time.
RegisterPlugin(p) ==
    /\ Len(triggers) < MaxRegistrations
    /\ plugins' = [plugins EXCEPT ![p] = "enabled"]
    /\ tool' = p
    /\ triggers' = Append(triggers, <<p, Len(triggers) + 1>>)
    /\ UNCHANGED event

TogglePlugin(p, status) ==
    /\ plugins[p] # "absent"
    /\ plugins' = [plugins EXCEPT ![p] = status]
    /\ UNCHANGED <<tool, triggers, event>>

\* Mutant: the handlers of the plugin are removed from the live list.
Remaining_Others(p) == SelectSeq(triggers, LAMBDA h : h[1] # p)

\* uninstall_plugin leaves what the plugin registered.
Remaining(p) == triggers

UninstallPlugin(p) ==
    /\ plugins[p] # "absent"
    /\ plugins' = [plugins EXCEPT ![p] = "absent"]
    /\ triggers' = Remaining(p)
    /\ UNCHANGED <<tool, event>>

(***************************************************************************)
(* trigger_event iterates over the live list and awaits each handler,      *)
(* whatever the status of its plugin; an exception is logged.              *)
(***************************************************************************)
StartEvent(e) ==
    /\ event[e].at = "new"
    /\ event' = [event EXCEPT ![e].at = "running", ![e].due = ToSet(triggers)]
    /\ UNCHANGED <<plugins, tool, triggers>>

RunHandler(e) ==
    /\ event[e].at = "running"
    /\ event[e].index < Len(triggers)
    /\ event' = [event EXCEPT ![e].index = @ + 1,
                              ![e].ran = Append(@, triggers[event[e].index + 1])]
    /\ UNCHANGED <<plugins, tool, triggers>>

EndEvent(e) ==
    /\ event[e].at = "running"
    /\ event[e].index >= Len(triggers)
    /\ event' = [event EXCEPT ![e].at = "done"]
    /\ UNCHANGED <<plugins, tool, triggers>>

PluginsNext ==
    \/ \E p \in PluginNames :
         \/ InstallPlugin(p) \/ RegisterPlugin(p) \/ UninstallPlugin(p)
         \/ \E s \in {"enabled", "disabled"} : TogglePlugin(p, s)
    \/ \E e \in Events : StartEvent(e) \/ RunHandler(e) \/ EndEvent(e)

PluginsSpec == PluginsInit /\ [][PluginsNext]_pluginVars

-----------------------------------------------------------------------------
(***************************************************************************)
(* Types; an event runs no handler twice, and, by its end, each one that   *)
(* was there when it began, although plugins come and go while it awaits;  *)
(* and a tool once offered is never lost to the callers of execute_tool.   *)
(***************************************************************************)
PluginsInv ==
    /\ plugins \in [PluginNames -> {"absent", "enabled", "disabled"}]
    /\ tool \in PluginNames \cup {Missing}
    /\ triggers \in Seq(PluginNames \X (1..MaxRegistrations))
    /\ \A e \in Events :
         /\ event[e].at \in {"new", "running", "done"}
         /\ IsInjective(event[e].ran)
         /\ event[e].at = "done" => event[e].due \subseteq ToSet(event[e].ran)
    /\ triggers # <<>> => tool = Last(triggers)[1]
=============================================================================
