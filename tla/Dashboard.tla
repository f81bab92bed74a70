----------------------------- MODULE Dashboard -----------------------------
(***************************************************************************)
(* What a dashboard shows of the speech it is told of: the trigger of a    *)
(* pipeline and its replacement by AppHandle::set_activation_mode          *)
(* (crates/app/src/runtime.rs), the fan-out's broadcast of VAD events, the *)
(* task that forwards them to the loop, and the loop                       *)
(* (crates/app/src/bin/tui_dashboard.rs).                                  *)
(*                                                                         *)
(* A start that fails leaves nothing that speaks to this dashboard         *)
(* (Lifecycle), and with the loop the process ends.                        *)
(***************************************************************************)
EXTENDS Integers, Sequences

CONSTANTS
    MaxEvents,      \* bound: VAD events
    MaxSwitches,    \* bound: times the user presses 'a'
    BroadcastCap,   \* the broadcast channel of VAD events
    UiCap           \* the channel to the dashboard's loop

ASSUME DashboardAssumption ==
    /\ {MaxEvents, MaxSwitches} \subseteq Nat
    /\ {BroadcastCap, UiCap} \subseteq Nat \ {0}

VARIABLES
    loop,       \* down, or awaiting a start or a switch, or up
    wanted,     \* activation_mode of the dashboard
    current,    \* current_mode of the AppHandle
    switches,   \* times 'a' was pressed
    triggers,   \* the trigger, and the one replaced last, if they run
    inSpeech,   \* those that have told a start and not its end
    vadEvents,  \* VAD events so far
    unread,     \* the broadcast's events for the forwarder
    forwarder,  \* "yes" while that task runs
    teller,     \* history: the trigger whose event reached it last
    uiQueue,    \* what it has sent the loop
    speaking    \* is_speaking

switchVars == <<wanted, current, switches>>
triggerVars == <<triggers, inSpeech, vadEvents>>
toldVars == <<unread, forwarder, teller, uiQueue, speaking>>
dashboardVars == <<loop, switchVars, triggerVars, toldVars>>

\* ActivationMode, each with the one that toggle_activation_mode makes of it.
Toggled == [Vad |-> "Hotkey", Hotkey |-> "AlwaysOn", AlwaysOn |-> "Vad"]

DashboardInit ==
    /\ loop = "down" /\ wanted \in {"Vad", "Hotkey"} /\ current = wanted
    /\ switches = 0
    /\ triggers = {} /\ inSpeech = {} /\ vadEvents = 0
    /\ unread = <<>> /\ forwarder = "no" /\ teller = "none"
    /\ uiQueue = <<>> /\ speaking = "no"

\* 's'.  The trigger may speak before the dashboard listens.
PipelineStarts ==
    /\ loop = "down" /\ loop' = "starting"
    /\ current' = wanted /\ triggers' = {"trigger"}
    /\ UNCHANGED <<wanted, switches, inSpeech, vadEvents, toldVars>>

SubscribeVad ==
    /\ loop = "starting" /\ loop' = "up" /\ forwarder' = "yes"
    /\ UNCHANGED <<switchVars, triggerVars, unread, teller, uiQueue,
                   speaking>>

\* A trigger alternates starts and ends (Activation); one that has been told
\* to end may speak until it does.  An event counts when the fan-out has it.
VadEvent ==
    /\ vadEvents < MaxEvents /\ vadEvents' = vadEvents + 1
    /\ \E t \in triggers :
         /\ inSpeech' = IF t \in inSpeech THEN inSpeech \ {t}
                        ELSE inSpeech \union {t}
         /\ IF forwarder = "yes"
            THEN /\ unread' = Append(unread, IF t \in inSpeech THEN "end"
                                             ELSE "start")
                 /\ teller' = t
            ELSE UNCHANGED <<unread, teller>>
    /\ UNCHANGED <<loop, switchVars, triggers, forwarder, uiQueue, speaking>>

\* It was told to, or overtaken by the audio, or has no hotkey to listen to.
TriggerStops ==
    /\ \E t \in triggers : triggers' = triggers \ {t}
    /\ UNCHANGED <<loop, switchVars, inSpeech, vadEvents, toldVars>>

Overtaken == Len(unread) > BroadcastCap

\* while let Ok(ev) = vad_rx.recv(): a receiver that lags ends the loop too.
Forward ==
    /\ forwarder = "yes"
    /\ IF Overtaken
       THEN forwarder' = "no" /\ unread' = <<>> /\ UNCHANGED uiQueue
       ELSE /\ unread # <<>> /\ Len(uiQueue) < UiCap
            /\ uiQueue' = Append(uiQueue, Head(unread))
            /\ unread' = Tail(unread) /\ UNCHANGED forwarder
    /\ UNCHANGED <<loop, switchVars, triggerVars, teller, speaking>>

EndsNothing(event) == IF event = "start" THEN "yes" ELSE speaking
Speaks(event) == IF event = "start" THEN "yes" ELSE "no"

\* The loop is not at its select! while it awaits a start or a mode switch.
Show ==
    /\ loop = "up" /\ uiQueue # <<>>
    /\ speaking' = Speaks(Head(uiQueue)) /\ uiQueue' = Tail(uiQueue)
    /\ UNCHANGED <<loop, switchVars, triggerVars, unread, forwarder, teller>>

\* 'a': the mode of the next start, or of the pipeline that runs.
ToggleMode ==
    /\ loop \in {"down", "up"} /\ switches < MaxSwitches
    /\ switches' = switches + 1 /\ wanted' = Toggled[wanted]
    /\ loop' = IF loop = "up" THEN "switching" ELSE loop
    /\ UNCHANGED <<current, triggerVars, toldVars>>

\* The trigger is told to end and another spawned, which has said nothing; if
\* the VAD engine does not load none is spawned, and the mode stays.  Bound:
\* the one replaced before has ended.
SwitchMode ==
    /\ loop = "switching" /\ loop' = "up"
    /\ \/ /\ wanted \in {"Vad", current}
          /\ UNCHANGED <<current, triggers, inSpeech, teller>>
       \/ /\ wanted # current /\ current' = wanted
          /\ "replaced" \notin triggers
          /\ triggers' = {"trigger"} \union
               {t \in {"replaced"} : "trigger" \in triggers}
          /\ inSpeech' = {t \in {"replaced"} : "trigger" \in inSpeech}
          /\ teller' = IF teller = "none" THEN teller ELSE "replaced"
    /\ UNCHANGED <<wanted, switches, vadEvents, unread, forwarder, uiQueue,
                   speaking>>

DashboardNext ==
    \/ PipelineStarts \/ SubscribeVad \/ ToggleMode \/ SwitchMode
    \/ VadEvent \/ TriggerStops \/ Forward \/ Show

DashboardSpec == DashboardInit /\ [][DashboardNext]_dashboardVars

-----------------------------------------------------------------------------
(* Correctness                                                             *)

CaughtUp == forwarder = "yes" /\ unread = <<>> /\ uiQueue = <<>>

\* Once it has been told everything the dashboard shows whether the trigger
\* is in mid-speech, or was when it ended, if it spoke last.  Excepted are a
\* forwarder that the broadcast has overtaken, which ends it, and the time
\* from the replacement of a trigger until the new one speaks.
ShowsWhoSpeaks ==
    CaughtUp /\ teller = "trigger" =>
        (speaking = "yes" <=> "trigger" \in inSpeech)

-----------------------------------------------------------------------------
(* What one might expect, and the code does not do                         *)

\* A dashboard that has been told everything shows speech only while there is
\* a trigger that hears some: one that is replaced in mid-speech tells no end
\* (set_activation_mode).
ShowsOnlySpeech ==
    CaughtUp /\ speaking = "yes" => inSpeech \intersect triggers # {}
=============================================================================
