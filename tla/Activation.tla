---------------------------- MODULE Activation -----------------------------
(***************************************************************************)
(* What starts and ends a session: VadProcessor                            *)
(* (crates/app/src/audio/vad_processor.rs) with the Silero engine          *)
(* (crates/coldvox-vad-silero/src/silero_wrapper.rs), or the hotkey        *)
(* listener (crates/app/src/hotkey), and their replacement by              *)
(* AppHandle::set_activation_mode (runtime.rs).  Either is one task, and   *)
(* sends SpeechStart and SpeechEnd into the channel of the fan-out.        *)
(*                                                                         *)
(* The detector's probability is reduced to the side of the threshold it   *)
(* falls on, which is the speaker's doing; a frame counts as what the      *)
(* speaker does when it is processed.                                      *)
(***************************************************************************)
EXTENDS Integers

CONSTANTS
    FrameCapacity,   \* of the broadcast of frames (200)
    EventCapacity,   \* of the channel of events (200)
    MinSpeech,       \* min_speech_duration_ms, in ticks
    MinSilence,      \* min_silence_duration_ms, in ticks
    MaxSignals       \* bound: D-Bus signals waiting in one stream

ASSUME ActivationAssumption ==
    /\ FrameCapacity \in Nat \ {0} /\ EventCapacity \in Nat \ {0}
    /\ MinSpeech \in Nat /\ MinSilence \in Nat /\ MaxSignals \in Nat \ {0}

VARIABLES
    mode,       \* current_mode
    voice,      \* "on" while somebody speaks
    vad,        \* the VadProcessor task: "off", "running" or "ended"
    backlog,    \* frames its receiver has not taken
    lagged,     \* "yes" once it was overtaken
    speech,     \* current_state of the engine
    onset,      \* speech_start_time, as its age plus 1; 0 is None
    quiet,      \* silence_start_time, likewise
    key,        \* "down" while the user holds the shortcut
    listener,   \* the listener task
    presses,    \* signals waiting in pressed_stream
    releases,   \* and in released_stream
    pressed,    \* is_pressed
    sending,    \* the event whose send() the task waits for, or "none"
    queued,     \* events in the channel
    sent,       \* history: the last event that entered the channel
    owing,      \* history: "yes" from the start the trigger has sent until
                \* its end is sent, or the trigger is gone
    orphan      \* history: "yes" if the task that owes the last SpeechStart
                \* its SpeechEnd is gone or has missed the occasion

vadVars == <<vad, backlog, lagged, speech, onset, quiet>>
hotkeyVars == <<listener, presses, releases, pressed>>
channelVars == <<sending, queued, sent, owing>>
userVars == <<voice, key>>
activationVars == <<mode, userVars, vadVars, hotkeyVars, channelVars, orphan>>

FreshVad(state) ==
    /\ vad' = state /\ backlog' = 0 /\ lagged' = "no"
    /\ speech' = "Silence" /\ onset' = 0 /\ quiet' = 0

FreshListener(state) ==
    /\ listener' = state
    /\ presses' = 0 /\ releases' = 0 /\ pressed' = "no"

\* runtime::start spawns the trigger of the configured mode.
ActivationInit ==
    /\ mode \in {"Vad", "Hotkey"}
    /\ voice = "off" /\ key = "up"
    /\ vad = IF mode = "Vad" THEN "running" ELSE "off"
    /\ backlog = 0 /\ lagged = "no"
    /\ speech = "Silence" /\ onset = 0 /\ quiet = 0
    /\ listener = IF mode = "Hotkey" THEN "starting" ELSE "off"
    /\ presses = 0 /\ releases = 0 /\ pressed = "no"
    /\ sending = "none" /\ queued = 0 /\ sent = "SpeechEnd"
    /\ owing = "no" /\ orphan = "no"

\* The end it owes goes with the trigger.
SessionLost ==
    /\ owing' = "no"
    /\ orphan' = IF owing = "yes" THEN "yes" ELSE orphan

-----------------------------------------------------------------------------
(* The speaker, the clock, the channel                                     *)

Speak ==
    /\ voice' = IF voice = "on" THEN "off" ELSE "on"
    /\ UNCHANGED <<mode, key, vadVars, hotkeyVars, channelVars, orphan>>

Older(age, limit) == IF age = 0 \/ age > limit THEN age ELSE age + 1

TickClock ==
    /\ onset' = Older(onset, MinSpeech) /\ quiet' = Older(quiet, MinSilence)
    /\ UNCHANGED <<mode, userVars, vad, backlog, lagged, speech, hotkeyVars,
                   channelVars, orphan>>

Sent ==
    /\ sending # "none" /\ queued < EventCapacity
    /\ queued' = queued + 1
    /\ sent' = sending /\ sending' = "none"
    /\ owing' = IF sending = "SpeechStart" THEN "yes" ELSE "no"
    /\ orphan' = IF sending = "SpeechEnd" THEN "no" ELSE orphan
    /\ UNCHANGED <<mode, userVars, vadVars, hotkeyVars>>

\* The fan-out takes an event.
FanOut ==
    /\ queued > 0
    /\ queued' = queued - 1
    /\ UNCHANGED <<mode, userVars, vadVars, hotkeyVars, sending, sent, owing,
                   orphan>>

-----------------------------------------------------------------------------
(* VadProcessor                                                            *)

\* The chunker broadcasts a frame; the oldest makes room for it.
Broadcast ==
    /\ vad = "running"
    /\ IF backlog < FrameCapacity
       THEN backlog' = backlog + 1 /\ UNCHANGED lagged
       ELSE lagged' = "yes" /\ UNCHANGED backlog
    /\ UNCHANGED <<mode, userVars, vad, speech, onset, quiet, hotkeyVars,
                   channelVars, orphan>>

Receiving == vad = "running" /\ sending = "none"

\* recv() answers Lagged, and the loop asks for Ok.
Overtaken ==
    /\ Receiving /\ lagged = "yes"
    /\ vad' = "ended"
    /\ SessionLost
    /\ UNCHANGED <<mode, userVars, backlog, lagged, speech, onset, quiet,
                   hotkeyVars, sending, queued, sent>>

\* Instant::elapsed() against a minimal duration.
LongEnough(age, limit) == age > limit

\* A timer is set by the first frame of a kind and runs on.
SetAgain(age) == 1
Timing(age) == IF age = 0 THEN 1 ELSE age

\* process_probability in state Silence.
WhileSilent ==
    \/ /\ voice = "off"
       /\ onset' = 0
       /\ UNCHANGED <<speech, quiet, sending>>
    \/ /\ voice = "on" /\ ~LongEnough(onset, MinSpeech)
       /\ onset' = Timing(onset)
       /\ UNCHANGED <<speech, quiet, sending>>
    \/ /\ voice = "on" /\ LongEnough(onset, MinSpeech)
       /\ speech' = "Speech" /\ sending' = "SpeechStart"
       /\ onset' = 0 /\ quiet' = 0

\* and in state Speech.
WhileSpeaking ==
    \/ /\ voice = "on"
       /\ quiet' = 0
       /\ UNCHANGED <<speech, onset, sending>>
    \/ /\ voice = "off" /\ ~LongEnough(quiet, MinSilence)
       /\ quiet' = Timing(quiet)
       /\ UNCHANGED <<speech, onset, sending>>
    \/ /\ voice = "off" /\ LongEnough(quiet, MinSilence)
       /\ speech' = "Silence" /\ sending' = "SpeechEnd"
       /\ onset' = 0 /\ quiet' = 0

ProcessFrame ==
    /\ Receiving /\ lagged = "no" /\ backlog > 0
    /\ backlog' = backlog - 1
    /\ \/ speech = "Silence" /\ WhileSilent
       \/ speech = "Speech" /\ WhileSpeaking
    /\ UNCHANGED <<mode, userVars, vad, lagged, hotkeyVars, queued, sent,
                   owing, orphan>>

-----------------------------------------------------------------------------
(* The hotkey listener                                                     *)

\* The user presses or releases the shortcut; D-Bus delivers the signal to
\* the stream of its kind if there is one.
Press ==
    /\ key = "up" /\ presses < MaxSignals
    /\ key' = "down"
    /\ presses' = IF listener = "listening" THEN presses + 1 ELSE presses
    /\ UNCHANGED <<mode, voice, vadVars, listener, releases, pressed,
                   channelVars, orphan>>

Release ==
    /\ key = "down" /\ releases < MaxSignals
    /\ key' = "up"
    /\ releases' = IF listener = "listening" THEN releases + 1 ELSE releases
    /\ UNCHANGED <<mode, voice, vadVars, listener, presses, pressed,
                   channelVars, orphan>>

\* The steps of the listener before it listens; a failure of the second or
\* the third ends the task.  The dummy sleeps for ever.
Proceed(from, to) ==
    /\ listener = from /\ listener' \in to
    /\ UNCHANGED <<mode, userVars, vadVars, presses, releases, pressed,
                   channelVars, orphan>>

DetectBackend == Proceed("starting", {"detected", "dummy"})
InitializeBackend == Proceed("detected", {"initialized", "ended"})
RegisterShortcut == Proceed("initialized", {"connecting", "ended"})

\* get_component_proxy and the two subscriptions, or an error.
ConnectFails == Proceed("connecting", {"backoff"})
Connect ==
    /\ listener = "connecting"
    /\ FreshListener("listening")
    /\ UNCHANGED <<mode, userVars, vadVars, channelVars, orphan>>

\* Both streams have ended: the next connection starts with is_pressed unset.
Disconnect ==
    /\ listener = "listening" /\ sending = "none"
    /\ FreshListener("backoff")
    /\ SessionLost
    /\ UNCHANGED <<mode, userVars, vadVars, sending, queued, sent>>

\* start_listening tries again after its back-off, for ever.
Reconnect == Proceed("backoff", {"connecting"})

\* Debounce: only the first of several presses starts a session.
StartsAnyway == "SpeechStart"
FirstPress == IF pressed = "no" THEN "SpeechStart" ELSE "none"

\* select! takes from either stream when both have something.
TakePress ==
    /\ listener = "listening" /\ sending = "none" /\ presses > 0
    /\ presses' = presses - 1
    /\ pressed' = "yes"
    /\ sending' = FirstPress
    /\ orphan' = IF key = "up" /\ presses = 1 /\ releases = 0
                 THEN "yes" ELSE orphan
    /\ UNCHANGED <<mode, userVars, vadVars, listener, releases, queued, sent,
                   owing>>

TakeRelease ==
    /\ listener = "listening" /\ sending = "none" /\ releases > 0
    /\ releases' = releases - 1
    /\ pressed' = "no"
    /\ sending' = IF pressed = "yes" THEN "SpeechEnd" ELSE "none"
    /\ UNCHANGED <<mode, userVars, vadVars, listener, presses, queued, sent,
                   owing, orphan>>

-----------------------------------------------------------------------------
(* AppHandle::set_activation_mode                                          *)

\* The old task is aborted, wherever it waits; a new one starts afresh, or
\* does not, and then the mode stays what it was.  Hotkey stands for
\* AlwaysOnPushToTranscribe too: a switch between the two starts afresh.
SwitchMode ==
    /\ SessionLost
    /\ sending' = "none"
    /\ \/ /\ mode = "Vad"
          /\ mode' = "Hotkey"
          /\ FreshListener("starting") /\ FreshVad("off")
       \/ /\ mode = "Hotkey"
          /\ mode' = "Vad"
          /\ FreshListener("off") /\ FreshVad("running")
       \/ /\ mode = "Hotkey"
          /\ mode' = mode
          /\ FreshListener("off") /\ FreshVad("off")
       \/ /\ mode = "Hotkey"
          /\ mode' = mode
          /\ FreshListener("starting") /\ FreshVad("off")
    /\ UNCHANGED <<userVars, queued, sent>>

ActivationNext ==
    \/ Speak \/ TickClock \/ Sent \/ FanOut
    \/ Broadcast \/ Overtaken \/ ProcessFrame
    \/ Press \/ Release \/ DetectBackend \/ InitializeBackend
    \/ RegisterShortcut \/ Connect \/ ConnectFails \/ Disconnect \/ Reconnect
    \/ TakePress \/ TakeRelease \/ SwitchMode

\* Time passes, frames come, tasks that can run are polled, and select!
\* neglects no stream for ever.
ActivationSpec ==
    /\ ActivationInit /\ [][ActivationNext]_activationVars
    /\ WF_activationVars(TickClock) /\ WF_activationVars(Sent)
    /\ WF_activationVars(FanOut) /\ WF_activationVars(Broadcast)
    /\ SF_activationVars(ProcessFrame) /\ WF_activationVars(Overtaken)
    /\ SF_activationVars(TakePress) /\ SF_activationVars(TakeRelease)

-----------------------------------------------------------------------------
(* Correctness                                                             *)

ActivationTypeOK ==
    /\ mode \in {"Vad", "Hotkey"}
    /\ voice \in {"on", "off"} /\ key \in {"up", "down"}
    /\ vad \in {"off", "running", "ended"}
    /\ backlog \in 0 .. FrameCapacity /\ lagged \in {"yes", "no"}
    /\ speech \in {"Silence", "Speech"}
    /\ onset \in 0 .. MinSpeech + 1 /\ quiet \in 0 .. MinSilence + 1
    /\ listener \in {"off", "starting", "detected", "initialized",
                    "connecting", "listening", "backoff", "dummy", "ended"}
    /\ presses \in 0 .. MaxSignals /\ releases \in 0 .. MaxSignals
    /\ pressed \in {"yes", "no"}
    /\ sending \in {"none", "SpeechStart", "SpeechEnd"}
    /\ queued \in 0 .. EventCapacity
    /\ sent \in {"SpeechStart", "SpeechEnd"}
    /\ owing \in {"yes", "no"} /\ orphan \in {"yes", "no"}

\* Starts and ends alternate, whichever task sends them, except that the
\* start of a new trigger may follow one whose own trigger is gone
\* (silero_wrapper.rs, kglobalaccel.rs, set_activation_mode).
Alternate ==
    [][(queued' = queued + 1 /\ sending = sent) =>
           (sending = "SpeechStart" /\ orphan = "yes")]_activationVars

\* The trigger as its listeners see it: in speech from the start it has sent
\* until its end is sent, dead when no task is left that could send one.
Sender ==
    IF owing = "yes" THEN "speech"
    ELSE IF vad = "running" \/ listener \notin {"off", "dummy", "ended"}
    THEN "quiet" ELSE "dead"

Trigger ==
    INSTANCE SessionTrigger WITH
        Capacity <- EventCapacity, trigger <- Sender, waiting <- queued

\* Both triggers, their replacement and all their ways to fail keep to what
\* SttPipeline takes for granted of the events it is sent: they implement
\* SessionTrigger (vad_processor.rs, kglobalaccel.rs, set_activation_mode).
ImplementsTrigger == Trigger!Spec

\* A session does not outlast the speech, or the pressing of the shortcut,
\* for good, but for four causes: the trigger was replaced, the VAD fell
\* behind, the connection was lost while the key was down, or a release was
\* taken before its press (vad_processor.rs, run; kglobalaccel.rs, select!).
SessionEnds ==
    []<>(sent = "SpeechEnd" \/ orphan = "yes" \/ voice = "on" \/ key = "down")

\* vad_processor.rs, run: the loop exits when the sender is dropped.
EndsWithSenderOnly == vad # "ended"
=============================================================================
