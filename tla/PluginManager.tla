--------------------------- MODULE PluginManager ---------------------------
(***************************************************************************)
(* The SttPluginManager of crates/app/src/stt/plugin_manager.rs: which     *)
(* speech-to-text plugin is selected, how consecutive errors make it fail  *)
(* over to another one, and how inactive plugins are garbage collected.    *)
(*                                                                         *)
(* The methods that take &mut self (process_audio, switch_plugin,          *)
(* initialize, set_selection_config ...) exclude each other: the manager   *)
(* lives in an outer RwLock.  At most one is in progress, and `pc' says  *)
(* how far it has got.  The garbage collector does not take that lock: it  *)
(* is a task of its own that shares two inner RwLocks with the call in     *)
(* progress,                                                               *)
(*    current_plugin   (`holder' is the process that write-locks it) and   *)
(*    last_activity    (`readers' are the collectors that read-lock it     *)
(*                      across an await).                                  *)
(* A lock that is taken and released with no await in between is taken     *)
(* and released within one step here.  One action stands for the code      *)
(* between two points at which the task may wait.                          *)
(***************************************************************************)
EXTENDS Naturals, Sequences

CONSTANTS
    Plugins,      \* identifiers of the registered plugins
    None,         \* no plugin
    Preferred,    \* selection_config.preferred_plugin, or None
    Fallbacks,    \* selection_config.fallback_plugins, in order of priority
    Creatable,    \* the plugins whose factory can create an instance here
    LazyInit,     \* the plugins that refuse audio until initialize() is called
    Targets,      \* the plugins the user may select with switch_plugin
    Threshold,    \* failover_threshold
    Cooldown,     \* failover_cooldown_secs, in ticks
    Ttl,          \* model_ttl_secs, in ticks
    GcTask,       \* the set that holds the background collector, or {}
    GcCallers     \* tasks that call gc_inactive_models

Collectors == GcTask \union GcCallers

ASSUME PluginsAssumption ==
    /\ None \notin Plugins \union Nat
    /\ Preferred \in Plugins \union {None}
    /\ Fallbacks \in Seq(Plugins)
    /\ Creatable \subseteq Plugins
    /\ LazyInit \subseteq Plugins
    /\ Targets \subseteq Plugins

ASSUME LimitsAssumption ==
    /\ Threshold \in Nat \ {0}
    /\ Cooldown \in Nat
    /\ Ttl \in Nat

ASSUME CollectorsAssumption ==
    /\ GcTask \intersect GcCallers = {}
    /\ {"nobody", "call"} \intersect Collectors = {}

VARIABLES
    current,      \* the selected plugin, or None
    stage,        \* how far the selected instance has been brought up
    activity,     \* ticks since each plugin was used, None when not tracked
    errors,       \* consecutive_errors: saturates at Threshold
    cooldown,     \* ticks each failed plugin must still sit out
    pc,           \* how far the exclusive call in progress has got
    subject,      \* the plugin it works on, or None
    holder,       \* who write-locks current_plugin
    readers,      \* which collectors read-lock last_activity
    gcpc,         \* how far each collector has got
    victims,      \* the plugins a collector has found inactive
    doomed        \* the victim a collector is working on

\* Two history variables, which no action reads.
VARIABLES
    streak,       \* errors in a row of the selected instance (saturating)
    reselected    \* collectors since whose scan the selection was replaced

vars == <<current, stage, activity, errors, cooldown, pc, subject, holder,
          readers, gcpc, victims, doomed, streak, reselected>>

CallPcs == {"starting", "idle", "touch", "transcribe", "failover", "retry",
            "record"}
GcPcs   == {"idle", "scan", "sweep", "forget"}

TypeOK ==
    /\ current \in Plugins \union {None}
    /\ stage \in {"created", "initialized"}
    /\ activity \in [Plugins -> 0 .. Ttl + 1 \union {None}]
    /\ errors \in [Plugins -> 0 .. Threshold]
    /\ cooldown \in [Plugins -> 0 .. Cooldown]
    /\ pc \in CallPcs
    /\ subject \in Plugins \union {None}
    /\ holder \in {"nobody", "call"} \union Collectors
    /\ readers \subseteq Collectors
    /\ gcpc \in [Collectors -> GcPcs]
    /\ victims \in [Collectors -> SUBSET Plugins]
    /\ doomed \in [Collectors -> Plugins \union {None}]
    /\ streak \in 0 .. Threshold
    /\ reselected \subseteq Collectors

\* n, counted no further than the bound.
AtMost(n, bound) == IF n < bound THEN n ELSE bound

Return == pc' = "idle" /\ subject' = None

\* The manager is built and the collector started before initialize() runs.
Init ==
    /\ current = None
    /\ stage = "created"
    /\ activity = [p \in Plugins |-> None]
    /\ errors = [p \in Plugins |-> 0]
    /\ cooldown = [p \in Plugins |-> 0]
    /\ pc = "starting"
    /\ subject = None
    /\ holder = "nobody"
    /\ readers = {}
    /\ gcpc = [g \in Collectors |-> "idle"]
    /\ victims = [g \in Collectors |-> {}]
    /\ doomed = [g \in Collectors |-> None]
    /\ streak = 0
    /\ reselected = {}

gcVars == <<readers, gcpc, victims, doomed>>

\* gc_inactive_models borrows the manager: no &mut call runs beside it.
Exclusive == \A g \in GcCallers : gcpc[g] = "idle"

\* A new instance becomes the selected one.
Select(p, how) ==
    /\ current' = p
    /\ stage' = how
    /\ streak' = 0
    /\ reselected' = Collectors

-----------------------------------------------------------------------------
(* initialize(), switch_plugin(), apply_transcription_config(), unloading  *)

\* The first fallback, by priority, that satisfies the set of candidates.
IsFirst(p, candidates) ==
    \E i \in DOMAIN Fallbacks :
        /\ Fallbacks[i] = p
        /\ p \in candidates
        /\ \A j \in DOMAIN Fallbacks : Fallbacks[j] \in candidates => i <= j

HasFallback(candidates) ==
    \E i \in DOMAIN Fallbacks : Fallbacks[i] \in candidates

\* The preferred plugin, else the first fallback, else the registry's best.
StartupChoice(p) ==
    /\ p \in Creatable
    /\ \/ p = Preferred
       \/ Preferred \notin Creatable /\ IsFirst(p, Creatable)
       \/ Preferred \notin Creatable /\ ~HasFallback(Creatable)

\* The runtime calls initialize() once; when it fails the program exits.
Initialize(p) ==
    /\ pc = "starting"
    /\ Exclusive
    /\ holder = "nobody"
    /\ StartupChoice(p)
    /\ Select(p, "initialized")
    /\ holder' = "call"
    /\ pc' = "record"
    /\ subject' = p
    /\ UNCHANGED <<activity, errors, cooldown, gcVars>>

\* The old plugin is replaced whatever its unload() answers.
SwitchPlugin(p) ==
    /\ pc = "idle"
    /\ Exclusive
    /\ holder = "nobody"
    /\ p \in Creatable
    /\ Select(p, "created")
    /\ holder' = "call"
    /\ pc' = "record"
    /\ subject' = p
    /\ UNCHANGED <<activity, errors, cooldown, gcVars>>

\* Both end by recording activity, with current_plugin still locked.
RecordSelection ==
    /\ pc = "record"
    /\ readers = {}
    /\ activity' = [activity EXCEPT ![subject] = 0]
    /\ holder' = "nobody"
    /\ Return
    /\ UNCHANGED <<current, stage, errors, cooldown, gcVars, streak,
                   reselected>>

ApplyTranscriptionConfig ==
    /\ pc = "idle"
    /\ Exclusive
    /\ holder = "nobody"
    /\ current # None
    /\ stage' = "initialized"
    /\ UNCHANGED <<current, activity, errors, cooldown, pc, subject, holder,
                   gcVars, streak, reselected>>

\* unload_plugin(current) and unload_all_plugins(); a failing unload() other
\* than "already unloaded" leaves everything as it was.
UnloadPlugin ==
    /\ pc = "idle"
    /\ holder = "nobody"
    /\ current # None
    /\ current' = None
    /\ stage' = "created"
    /\ UNCHANGED <<activity, errors, cooldown, pc, subject, holder, gcVars,
                   streak, reselected>>

-----------------------------------------------------------------------------
(* process_audio() and attempt_failover()                                  *)

\* With no plugin selected the call returns an error and changes nothing.
BeginAudio ==
    /\ pc = "idle"
    /\ Exclusive
    /\ holder = "nobody"
    /\ current # None
    /\ holder' = "call"
    /\ pc' = "touch"
    /\ subject' = current
    /\ UNCHANGED <<current, stage, activity, errors, cooldown, gcVars, streak,
                   reselected>>

TouchActivity ==
    /\ pc = "touch"
    /\ readers = {}
    /\ activity' = [activity EXCEPT ![subject] = 0]
    /\ pc' = "transcribe"
    /\ UNCHANGED <<subject, current, stage, errors, cooldown, holder, gcVars,
                   streak, reselected>>

CanTranscribe == stage = "initialized" \/ current \notin LazyInit

TranscribeOk ==
    /\ pc = "transcribe"
    /\ CanTranscribe
    /\ errors' = [errors EXCEPT ![subject] = 0]
    /\ streak' = 0
    /\ holder' = "nobody"
    /\ Return
    /\ UNCHANGED <<current, stage, activity, cooldown, gcVars, reselected>>

\* Does this many errors in a row call for a failover?
ShouldFailover(count) == count >= Threshold

\* Before it fails over, the call drops its lock on current_plugin.
KeepLock(failover) == IF failover THEN "call" ELSE "nobody"
DropLock(failover) == "nobody"

TranscribeErr ==
    LET p == subject
        count == AtMost(errors[p] + 1, Threshold)
        failover == ShouldFailover(count)
    IN  /\ pc = "transcribe"
        /\ errors' = [errors EXCEPT ![p] = count]
        /\ streak' = AtMost(streak + 1, Threshold)
        /\ holder' = DropLock(failover)
        /\ pc' = IF failover THEN "failover" ELSE "idle"
        /\ subject' = IF failover THEN subject ELSE None
        /\ UNCHANGED <<current, stage, activity, cooldown, gcVars, reselected>>

\* The plugins a failover may choose: not the failed one, not cooling down.
IgnoringCooldown == {p \in Creatable : p # subject}
IncludingFailed == {p \in Creatable : cooldown[p] = 0}
FailoverCandidates ==
    {p \in Creatable : p # subject /\ cooldown[p] = 0}

\* The replacement starts with a clean error count, and the failed plugin
\* goes into cooldown.  The old instance is dropped, the new one used as the
\* factory made it.
FailOver ==
    /\ pc = "failover"
    /\ holder = "nobody"
    /\ \E p \in Plugins :
         /\ IsFirst(p, FailoverCandidates)
         /\ Select(p, "created")
         /\ errors' = [errors EXCEPT ![p] = 0]
    /\ cooldown' = [cooldown EXCEPT ![subject] = Cooldown]
    /\ pc' = "retry"
    /\ UNCHANGED <<subject, activity, holder, gcVars>>

\* No candidate: the failing plugin stays, with its error count.
FailOverFails ==
    /\ pc = "failover"
    /\ ~HasFallback(FailoverCandidates)
    /\ Return
    /\ UNCHANGED <<current, stage, activity, errors, cooldown, holder, gcVars,
                   streak, reselected>>

\* The samples are given to the new plugin once; its answer, and any error,
\* goes to the caller and is not counted.
RetryOk ==
    /\ pc = "retry"
    /\ holder = "nobody"
    /\ current # None
    /\ CanTranscribe
    /\ Return
    /\ streak' = 0
    /\ UNCHANGED <<current, stage, activity, errors, cooldown, holder, gcVars,
                   reselected>>

RetryErr ==
    /\ pc = "retry"
    /\ holder = "nobody"
    /\ Return
    /\ streak' =
         IF current = None THEN streak ELSE AtMost(streak + 1, Threshold)
    /\ UNCHANGED <<current, stage, activity, errors, cooldown, holder, gcVars,
                   reselected>>

-----------------------------------------------------------------------------
(* The garbage collector: the task of start_gc_task, gc_inactive_models    *)

Stale == {p \in Plugins : activity[p] = Ttl + 1}

\* `now' is taken and last_activity read-locked; current_plugin comes next.
GcBegin(g) ==
    /\ gcpc[g] = "idle"
    /\ g \in GcCallers => pc = "idle"
    /\ readers' = readers \union {g}
    /\ victims' = [victims EXCEPT ![g] = Stale]
    /\ gcpc' = [gcpc EXCEPT ![g] = "scan"]
    /\ UNCHANGED <<current, stage, activity, errors, cooldown, pc, subject,
                   holder, doomed, streak, reselected>>

\* "NEVER GC the actively selected plugin (#284)": it is not a victim.
AllInactive(g) == victims[g]
Inactive(g) == victims[g] \ {current}

GcScan(g) ==
    LET found == Inactive(g)
    IN  /\ gcpc[g] = "scan"
        /\ holder = "nobody"
        /\ victims' = [victims EXCEPT ![g] = found]
        /\ readers' = readers \ {g}
        /\ gcpc' = [gcpc EXCEPT ![g] = IF found = {} THEN "idle" ELSE "sweep"]
        /\ reselected' = reselected \ {g}
        /\ UNCHANGED <<current, stage, activity, errors, cooldown, pc, subject,
                       holder, doomed, streak>>

\* One victim: unloaded and deselected when it is the selected plugin now.
\* An unload() error other than "already unloaded" keeps it selected.
GcSweep(g, p) ==
    /\ gcpc[g] = "sweep"
    /\ p \in victims[g]
    /\ holder = "nobody"
    /\ \/ /\ current = p
          /\ current' = None
          /\ stage' = "created"
       \/ UNCHANGED <<current, stage>>
    /\ holder' = g
    /\ victims' = [victims EXCEPT ![g] = @ \ {p}]
    /\ doomed' = [doomed EXCEPT ![g] = p]
    /\ gcpc' = [gcpc EXCEPT ![g] = "forget"]
    /\ UNCHANGED <<activity, errors, cooldown, pc, subject, readers, streak,
                   reselected>>

\* Its activity is forgotten, with current_plugin still locked.
GcForget(g) ==
    /\ gcpc[g] = "forget"
    /\ readers = {}
    /\ activity' = [activity EXCEPT ![doomed[g]] = None]
    /\ holder' = "nobody"
    /\ doomed' = [doomed EXCEPT ![g] = None]
    /\ gcpc' = [gcpc EXCEPT ![g] = IF victims[g] = {} THEN "idle" ELSE "sweep"]
    /\ UNCHANGED <<current, stage, errors, cooldown, pc, subject, readers,
                   victims, streak, reselected>>

\* set_selection_config() aborts the background task, wherever it waits, and
\* starts a new one; its locks are released as it is dropped.
RestartGcTask(g) ==
    /\ pc = "idle"
    /\ Exclusive
    /\ g \in GcTask
    /\ gcpc[g] # "idle"
    /\ holder' = IF holder = g THEN "nobody" ELSE holder
    /\ readers' = readers \ {g}
    /\ victims' = [victims EXCEPT ![g] = {}]
    /\ doomed' = [doomed EXCEPT ![g] = None]
    /\ gcpc' = [gcpc EXCEPT ![g] = "idle"]
    /\ UNCHANGED <<current, stage, activity, errors, cooldown, pc, subject,
                   streak, reselected>>

-----------------------------------------------------------------------------
\* Time: Instant::now() moves on by one unit.
NeverShorter(left) == left
OneLess(left) == IF left = 0 THEN 0 ELSE left - 1

Tick ==
    /\ activity' = [p \in Plugins |->
                      IF activity[p] = None THEN None
                      ELSE AtMost(activity[p] + 1, Ttl + 1)]
    /\ cooldown' = [p \in Plugins |-> OneLess(cooldown[p])]
    /\ UNCHANGED <<current, stage, errors, pc, subject, holder, gcVars, streak,
                   reselected>>

CallStep ==
    \/ \E p \in Plugins : Initialize(p)
    \/ \E p \in Targets : SwitchPlugin(p)
    \/ RecordSelection
    \/ ApplyTranscriptionConfig
    \/ UnloadPlugin
    \/ BeginAudio
    \/ TouchActivity
    \/ TranscribeOk
    \/ TranscribeErr
    \/ FailOver
    \/ FailOverFails
    \/ RetryOk
    \/ RetryErr

GcStep(g) ==
    \/ GcBegin(g)
    \/ GcScan(g)
    \/ \E p \in Plugins : GcSweep(g, p)
    \/ GcForget(g)
    \/ RestartGcTask(g)

Next ==
    \/ CallStep
    \/ \E g \in Collectors : GcStep(g)
    \/ Tick

Spec == Init /\ [][Next]_vars

(***************************************************************************)
(* Fairness.  A task that can run is polled, and tokio's RwLock serves its *)
(* waiters in order of arrival, so one that finds the lock free again and  *)
(* again gets it: strong fairness of the steps that finish what was begun. *)
(* Audio keeps coming while somebody speaks, and time passes.              *)
(***************************************************************************)
CallProgress ==
    \/ \E p \in Plugins : Initialize(p)
    \/ RecordSelection \/ TouchActivity
    \/ TranscribeOk \/ TranscribeErr
    \/ FailOver \/ FailOverFails \/ RetryOk \/ RetryErr

GcProgress(g) ==
    GcScan(g) \/ GcForget(g) \/ \E p \in Plugins : GcSweep(g, p)

Fairness ==
    /\ SF_vars(CallProgress)
    /\ \A g \in Collectors : SF_vars(GcProgress(g))
    /\ SF_vars(BeginAudio)
    /\ WF_vars(Tick)

FairSpec == Spec /\ Fairness

-----------------------------------------------------------------------------
(* Safety                                                                  *)

\* A collector is about to unload the selected plugin only when the plugin
\* was selected after its scan: a selection that does not change is never
\* collected, however long ago it was used (the filter on current_id in
\* start_gc_task and gc_inactive_models).
GcSparesSettledSelection ==
    \A g \in Collectors :
        gcpc[g] \in {"sweep", "forget"} /\ current \in victims[g]
            => g \in reselected

\* A plugin that nobody selects by hand is never the selected one while it
\* sits out its cooldown: failovers among three plugins, failed ones, and
\* expiring cooldowns never bring it back too early (attempt_failover).
CoolingPluginRests ==
    current \in Plugins \ Targets => cooldown[current] = 0

\* Unless it is selected by hand, every plugin a failover takes away has
\* failed Threshold times in a row since it was selected: errors it made
\* before an earlier failover are not held against it (consecutive_errors).
FailoverIsEarned ==
    pc = "failover" /\ subject \notin Targets => streak = Threshold

\* The manager implements PluginSelection: a plugin is on the bench while its
\* cooldown lasts.
Selection ==
    INSTANCE PluginSelection WITH
        plugin  <- current,
        benched <- {p \in Plugins : cooldown[p] > 0}

ImplementsSelection == Selection!Spec

-----------------------------------------------------------------------------
(* Liveness                                                                *)

\* The call holds current_plugin and wants last_activity, or a collector
\* does, while another collector holds last_activity and wants
\* current_plugin.
LockCycle ==
    /\ readers # {}
    /\ \/ pc \in {"touch", "record"}
       \/ \E g \in Collectors : gcpc[g] = "forget"

\* Every call returns, unless the two locks are taken in opposite orders:
\* nothing else (a failover without a candidate, a plugin that fails again
\* and again, a plugin collected before the retry) blocks process_audio.
CallReturnsOrCycle == pc # "idle" ~> pc = "idle" \/ LockCycle

\* A plugin at its error threshold does not stay selected and failing for
\* ever: when the other plugins are all cooling down it is tried again until
\* one of them may be used (process_audio attempts a failover at every error
\* past the threshold).
FailingPluginReplaced ==
    \A p \in Plugins :
        current = p /\ errors[p] = Threshold
            ~> current # p \/ errors[p] = 0 \/ LockCycle

-----------------------------------------------------------------------------
(* What comments, tests and documents say, and the code does not do        *)

\* process_audio returns.  The test that runs it beside the collector waits
\* "for all tasks to complete" (plugin_manager.rs, tests).
ProcessAudioReturns == pc = "touch" ~> pc = "idle"

\* The collector never deselects a plugin: "NEVER GC the actively selected
\* plugin (#284)" (start_gc_task).
NeverGcSelected ==
    [][ (\E g \in Collectors : gcpc[g] = "sweep" /\ gcpc'[g] = "forget")
            => current' = current ]_vars

\* The plugin a failover has installed can take the audio the call retries
\* on it: "failover to alternate STT plugins when available [...] to maintain
\* transcription continuity" (fdn-voice-pipeline-core-requirements.md).
ReplacementUsable ==
    pc = "retry" /\ current # None => CanTranscribe
=============================================================================
