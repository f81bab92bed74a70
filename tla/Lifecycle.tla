----------------------------- MODULE Lifecycle -----------------------------
(***************************************************************************)
(* Start and end of the program: runtime::start and AppHandle::shutdown    *)
(* (crates/app/src/runtime.rs) as main.rs and the two dashboards of        *)
(* crates/app/src/bin use them, with ShutdownHandler and StateManager of   *)
(* coldvox-foundation, and AppHandle::set_activation_mode.                 *)
(*                                                                         *)
(* A part of the pipeline is a thread or a task; the parts of one start    *)
(* carry its number.  When the process exits nothing is left to say.       *)
(***************************************************************************)
EXTENDS Naturals

CONSTANTS
    MaxStarts,      \* bound: starts a user asks for
    MaxSignals      \* bound: interrupts a user sends

ASSUME LifecycleAssumption == {MaxStarts, MaxSignals} \subseteq Nat

Programs == {"coldvox", "tui_dashboard", "tui_dashboard_manual"}

\* ActivationMode, each with the one that 'a' makes of it.
NextMode == [Vad |-> "Hotkey", Hotkey |-> "AlwaysOn", AlwaysOn |-> "Vad"]

\* Tasks that shutdown() aborts, and those of them that it awaits.
Tasks == {"chunker", "trigger", "fanout", "stt", "forward", "injection"}
Awaited == Tasks \ {"forward"}

\* Tasks that are told to end and awaited by nobody: the forwarder of
\* transcripts, the manager's collector and its metrics, and a trigger that
\* another has replaced.
Dropped == {"forward", "gc", "replaced"}

\* Tasks that nobody keeps a handle of: what the processor spawns to begin,
\* cancel or finalize an utterance, and the restores of an injection.
Detaches == [stt |-> "finalize", injection |-> "restore"]
Detached == {"finalize", "restore"}

VARIABLES
    program,
    at,         \* where main or the loop of the dashboard is
    startStep,  \* where runtime::start is
    attempts,   \* starts so far
    failed,     \* those that returned an error
    running,    \* the parts that run, as <<attempt, part>>
    aborted,    \* those that have been told to end
    owned,      \* the attempt whose AppHandle exists, 0 for none
    stopStep,   \* where AppHandle::shutdown is; "joining" and "unloading":
                \* for good
    lock,       \* a finalization's hold of the manager's lock, "hung" if the
                \* call it makes with it never returns
    asked,      \* the mode of the settings or of the dashboard
    mode        \* current_mode

VARIABLES
    signals,    \* interrupts sent
    listening,  \* "yes" until the handler's task has had its one signal
    woken,      \* "yes" once wait() has been notified
    appState    \* AppState

signalVars == <<signals, listening, woken>>
modeVars == <<asked, mode>>
pipelineVars == <<startStep, attempts, failed, running, aborted, owned,
                  stopStep, lock, modeVars>>
lifecycleVars == <<program, at, appState, pipelineVars, signalVars>>

LifecycleInit ==
    /\ program \in Programs /\ at = "boot" /\ appState = "Initializing"
    /\ startStep = "no" /\ attempts = 0 /\ failed = {}
    /\ running = {} /\ aborted = {} /\ owned = 0 /\ stopStep = "no"
    /\ lock = "free" /\ asked \in {"Vad", "Hotkey"} /\ mode = asked
    /\ signals = 0 /\ listening = "no" /\ woken = "no"

Exited == at = "exited"
InDashboard == program # "coldvox"

-----------------------------------------------------------------------------
(* StateManager and ShutdownHandler                                        *)

Transitions ==
    {<<"Initializing", "Running">>, <<"Running", "Recovering">>,
     <<"Running", "Stopping">>, <<"Recovering", "Running">>,
     <<"Recovering", "Stopping">>, <<"Stopping", "Stopped">>}

Transition(new) == <<appState, new>> \in Transitions /\ appState' = new

\* The terminal delivers no interrupt to a dashboard: it is a key there.
Interrupt ==
    /\ program = "coldvox" /\ ~Exited /\ at # "boot" /\ signals < MaxSignals
    /\ signals' = signals + 1
    /\ UNCHANGED <<program, at, appState, pipelineVars, listening, woken>>

\* The task waits for one signal; notify_waiters reaches who waits by then.
NotifyWaiters ==
    /\ listening = "yes" /\ signals > 0
    /\ listening' = "no"
    /\ woken' = IF at = "waiting" THEN "yes" ELSE "no"
    /\ UNCHANGED <<program, at, appState, pipelineVars, signals>>

-----------------------------------------------------------------------------
(* runtime::start                                                          *)

\* main installs the handler and is Running before it starts the pipeline.
Boot ==
    /\ at = "boot"
    /\ IF InDashboard
       THEN /\ at' = "ui"
            /\ UNCHANGED <<startStep, attempts, listening, appState>>
       ELSE /\ at' = "starting" /\ startStep' = "capture"
            /\ attempts' = attempts + 1 /\ listening' = "yes"
            /\ Transition("Running")
    /\ UNCHANGED <<program, failed, running, aborted, owned, stopStep, lock,
                   modeVars, signals, woken>>

StartsAnyway == at = "ui" /\ attempts < MaxStarts
\* 's', while is_running is false.
MayStart == at = "ui" /\ owned = 0 /\ attempts < MaxStarts

KeyStart ==
    /\ MayStart
    /\ at' = "starting" /\ startStep' = "capture" /\ attempts' = attempts + 1
    /\ mode' = asked
    /\ UNCHANGED <<program, appState, failed, running, aborted, owned,
                   stopStep, lock, asked, signalVars>>

Part(name) == <<attempts, name>>
Began(names) == running' = running \union {Part(n) : n \in names}

\* An error ends main; a dashboard logs it and goes on.
StartFails ==
    /\ failed' = failed \union {attempts} /\ startStep' = "no"
    /\ at' = IF InDashboard THEN "ui" ELSE "exited"

\* AudioCaptureThread::spawn fails before there is a thread, or gives up
\* waiting for one that goes on; the VAD engine may not load, by when capture
\* and chunker run.
SpawnAudio ==
    /\ startStep = "capture"
    /\ \/ StartFails /\ UNCHANGED running
       \/ StartFails /\ Began({"capture"})
       \/ mode = "Vad" /\ StartFails /\ Began({"capture", "chunker"})
       \/ /\ Began({"capture", "chunker", "trigger"})
          /\ startStep' = "plugins" /\ UNCHANGED <<at, failed>>
    /\ UNCHANGED <<program, appState, attempts, aborted, owned, stopStep,
                   lock, modeVars, signalVars>>

\* The manual dashboard selects no plugin and so has no manager.  One that
\* finds no plugin is dropped, which tells its collector to end.
HasManager == program # "tui_dashboard_manual"

InitializePlugins ==
    /\ startStep = "plugins"
    /\ \/ HasManager /\ StartFails /\ UNCHANGED <<running, aborted>>
       \/ /\ HasManager /\ StartFails /\ Began({"gc"})
          /\ aborted' = aborted \union {Part("gc")}
       \/ /\ startStep' = "tasks" /\ UNCHANGED <<at, failed, aborted>>
          /\ Began(IF HasManager THEN {"gc"} ELSE {})
    /\ UNCHANGED <<program, appState, attempts, owned, stopStep, lock,
                   modeVars, signalVars>>

\* Only main injects.
Spawned == {"fanout"}
           \union (IF HasManager THEN {"stt", "forward"} ELSE {})
           \union (IF InDashboard THEN {} ELSE {"injection"})

SpawnTasks ==
    /\ startStep = "tasks"
    /\ Began(Spawned) /\ owned' = attempts
    /\ startStep' = "no" /\ at' = IF InDashboard THEN "ui" ELSE "waiting"
    /\ UNCHANGED <<program, appState, attempts, failed, aborted, stopStep,
                   lock, modeVars, signalVars>>

-----------------------------------------------------------------------------
(* What happens while a pipeline runs                                      *)

DetachedBegins ==
    /\ owned > 0
    /\ \E t \in DOMAIN Detaches :
         /\ <<owned, t>> \in running
         /\ running' = running \union {<<owned, Detaches[t]>>}
    /\ UNCHANGED <<program, at, appState, startStep, attempts, failed,
                   aborted, owned, stopStep, lock, modeVars, signalVars>>

\* A finalization calls the plugin with the manager's lock, and may wait for
\* ever (PluginManager).
CallBegins ==
    /\ lock = "free" /\ lock' \in {"held", "hung"}
    /\ \E p \in running : p[2] = "finalize"
    /\ UNCHANGED <<program, at, appState, startStep, attempts, failed,
                   running, aborted, owned, stopStep, modeVars, signalVars>>

CallEnds ==
    /\ lock = "held" /\ lock' = "free"
    /\ UNCHANGED <<program, at, appState, startStep, attempts, failed,
                   running, aborted, owned, stopStep, modeVars, signalVars>>

DetachedEnds ==
    /\ \E p \in running :
         /\ p[2] = "restore" \/ (p[2] = "finalize" /\ lock = "free")
         /\ running' = running \ {p}
    /\ UNCHANGED <<program, at, appState, startStep, attempts, failed,
                   aborted, owned, stopStep, lock, modeVars, signalVars>>

Trigger == <<owned, "trigger">>

\* It is overtaken by the audio, or has no hotkey to listen to (Activation).
TriggerEnds ==
    /\ Trigger \in running
    /\ running' = running \ {Trigger} /\ aborted' = aborted \ {Trigger}
    /\ UNCHANGED <<program, at, appState, startStep, attempts, failed, owned,
                   stopStep, lock, modeVars, signalVars>>

\* 'a': the mode of the next start, or of the pipeline that runs.
KeyMode ==
    /\ program = "tui_dashboard" /\ at = "ui"
    /\ asked' = NextMode[asked]
    /\ at' = IF owned = 0 THEN at ELSE "switching"
    /\ UNCHANGED <<program, appState, startStep, attempts, failed, running,
                   aborted, owned, stopStep, lock, mode, signalVars>>

Unlocked == lock = "free"

\* set_activation_mode unloads the plugins, which waits for the manager's
\* lock, tells the trigger to end and spawns another, unless the VAD engine
\* does not load.  Bound: the one replaced before has ended.
SetActivationMode ==
    /\ at = "switching" /\ at' = "ui"
    /\ \/ asked = mode /\ UNCHANGED <<running, aborted, mode>>
       \/ /\ asked = "Vad" /\ asked # mode /\ Unlocked
          /\ aborted' = aborted \union ({Trigger} \intersect running)
          /\ UNCHANGED <<running, mode>>
       \/ /\ asked # mode /\ Unlocked /\ mode' = asked
          /\ <<owned, "replaced">> \notin running
          /\ LET old == IF Trigger \in running THEN {<<owned, "replaced">>}
                        ELSE {}
             IN  /\ running' = running \union old \union {Trigger}
                 /\ aborted' = (aborted \ {Trigger}) \union old
    /\ UNCHANGED <<program, appState, startStep, attempts, failed, owned,
                   stopStep, lock, asked, signalVars>>

-----------------------------------------------------------------------------
(* AppHandle::shutdown                                                     *)

StopWaiting ==
    /\ at = "waiting" /\ woken = "yes"
    /\ at' = "stopping" /\ stopStep' = "capture"
    /\ Transition("Stopping")
    /\ UNCHANGED <<program, startStep, attempts, failed, running, aborted,
                   owned, lock, modeVars, signalVars>>

\* 'q': the manual dashboard awaits the shutdown, the other leaves it to a
\* task of its own and exits.
KeyQuit ==
    /\ at = "ui"
    /\ IF owned = 0 THEN at' = "exited" /\ UNCHANGED stopStep
       ELSE /\ stopStep' = "capture"
            /\ at' = IF program = "tui_dashboard" THEN "leaving"
                     ELSE "stopping"
    /\ UNCHANGED <<program, appState, startStep, attempts, failed, running,
                   aborted, owned, lock, modeVars, signalVars>>

Mine(names) == {<<owned, n>> : n \in names}

\* The capture thread is told to end and joined before anything else; it may
\* not end (AudioCapture).
StopCapture ==
    /\ stopStep = "capture"
    /\ \/ stopStep' = "abort" /\ running' = running \ Mine({"capture"})
       \/ stopStep' = "joining" /\ UNCHANGED running
    /\ UNCHANGED <<program, at, appState, startStep, attempts, failed,
                   aborted, owned, lock, modeVars, signalVars>>

AllButTrigger == Tasks \ {"trigger"}
ToAbort == Tasks
AbortTasks ==
    /\ stopStep = "abort"
    /\ aborted' = aborted \union (running \intersect Mine(ToAbort))
    /\ stopStep' = "unload"
    /\ UNCHANGED <<program, at, appState, startStep, attempts, failed,
                   running, owned, lock, modeVars, signalVars>>

\* It waits for the manager's lock, and for the plugins.
UnloadPlugins ==
    /\ stopStep = "unload" /\ Unlocked
    /\ \/ /\ stopStep' = "await"
          /\ aborted' = aborted \union (running \intersect Mine({"gc"}))
       \/ HasManager /\ stopStep' = "unloading" /\ UNCHANGED aborted
    /\ UNCHANGED <<program, at, appState, startStep, attempts, failed,
                   running, owned, lock, modeVars, signalVars>>

\* A task ends at the await it has got to.
TaskEnds ==
    /\ \E t \in aborted : running' = running \ {t} /\ aborted' = aborted \ {t}
    /\ UNCHANGED <<program, at, appState, startStep, attempts, failed, owned,
                   stopStep, lock, modeVars, signalVars>>

AwaitsNone == TRUE
AwaitedAreOver == running \intersect Mine(Awaited) = {}

ShutdownReturns ==
    /\ stopStep = "await" /\ AwaitedAreOver
    /\ stopStep' = "done" /\ owned' = 0
    /\ IF InDashboard THEN UNCHANGED appState ELSE Transition("Stopped")
    /\ at' = IF at = "stopping" THEN "stopped" ELSE at
    /\ UNCHANGED <<program, startStep, attempts, failed, running, aborted,
                   lock, modeVars, signalVars>>

Exit ==
    /\ at \in {"stopped", "leaving"} /\ at' = "exited"
    /\ UNCHANGED <<program, appState, pipelineVars, signalVars>>

LifecycleNext ==
    \/ Interrupt \/ NotifyWaiters \/ Boot \/ KeyStart
    \/ SpawnAudio \/ InitializePlugins \/ SpawnTasks
    \/ DetachedBegins \/ CallBegins \/ CallEnds \/ DetachedEnds
    \/ TriggerEnds \/ KeyMode \/ SetActivationMode
    \/ StopWaiting \/ KeyQuit \/ StopCapture \/ AbortTasks \/ UnloadPlugins
    \/ TaskEnds \/ ShutdownReturns \/ Exit

LifecycleSpec == LifecycleInit /\ [][LifecycleNext]_lifecycleVars

-----------------------------------------------------------------------------
(* Correctness                                                             *)

\* When the program says Stopped, or a shutdown has returned, what still runs
\* of the pipeline is what AppHandle::shutdown does not await: the forwarder
\* of transcripts, the collector and a replaced trigger, which have all been
\* told to end, and the tasks nobody has a handle of.  Capture, chunker,
\* trigger, fan-out, processor and injection are over, but for those of
\* starts that failed.
StoppedMeansStopped ==
    stopStep = "done" =>
        \A p \in running :
            \/ p[1] \in failed
            \/ p[2] \in Dropped /\ p \in aborted
            \/ p[2] \in Detached

\* A part of the pipeline that no AppHandle owns is left from a start that
\* failed (runtime::start): no start that succeeded runs beside another.
OrphansAreOfFailedStarts ==
    at = "ui" => \A p \in running : p[1] \in failed \union {owned}

\* A shutdown that stands still for good: behind a capture thread that does
\* not end, a plugin that does not unload, or a finalization whose call does
\* not return.
ShutdownHangs ==
    \/ stopStep \in {"joining", "unloading"}
    \/ stopStep = "unload" /\ lock = "hung"

\* A signal that comes while main waits ends the program, unless the shutdown
\* hangs; one that comes before wait() is lost, and with it every later one
\* (ShutdownHandler, AppHandle::shutdown).
SignalEnds ==
    (at = "waiting" /\ listening = "yes" /\ signals > 0)
        ~> (Exited \/ ShutdownHangs)
=============================================================================
