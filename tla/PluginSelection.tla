-------------------------- MODULE PluginSelection --------------------------
(***************************************************************************)
(* What the plugin manager promises about the selected plugin, with no     *)
(* locks, clocks, error counts or collector in sight: a plugin that is     *)
(* taken away because it failed is benched, and while it is on the bench   *)
(* no failover brings it back; nor does a failover ever pick the plugin    *)
(* that has just failed.  Only the user may select a benched plugin.       *)
(***************************************************************************)
CONSTANTS
    Plugins,    \* the plugins there are
    None,       \* no plugin
    Targets     \* the plugins the user may select

VARIABLES
    plugin,     \* the selected plugin, or None
    benched     \* the plugins that sit out after a failure

Init == plugin = None /\ benched = {}

\* At startup nothing has failed yet.
Start(p) ==
    /\ plugin = None
    /\ benched = {}
    /\ plugin' = p
    /\ UNCHANGED benched

Choose(p) ==
    /\ plugin' = p
    /\ UNCHANGED benched

\* Unloaded, or collected.
Deselect ==
    /\ plugin # None
    /\ plugin' = None
    /\ UNCHANGED benched

\* The failed plugin may have been collected before it is replaced.
FailOver(failed, p) ==
    /\ plugin \in {failed, None}
    /\ p \notin benched \union {failed}
    /\ plugin' = p
    /\ benched' = benched \union {failed}

Recover ==
    /\ benched' \in SUBSET benched
    /\ UNCHANGED plugin

Next ==
    \/ \E p \in Plugins : Start(p)
    \/ \E p \in Targets : Choose(p)
    \/ Deselect
    \/ \E failed, p \in Plugins : FailOver(failed, p)
    \/ Recover

Spec == Init /\ [][Next]_<<plugin, benched>>
=============================================================================
