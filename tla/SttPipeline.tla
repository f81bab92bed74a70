---------------------------- MODULE SttPipeline ----------------------------
(***************************************************************************)
(* From the trigger that hears speech to the consumers of its text: the    *)
(* tasks that crates/app/src/runtime.rs starts around the PluginSttProces- *)
(* sor of crates/app/src/stt/processor.rs.                                 *)
(*                                                                         *)
(*   trigger -> fan-out -> processor ... finalization task                 *)
(*                                 -> forwarder -> injection, stt_rx       *)
(*                                                                         *)
(* The processor's loop never waits: at the end of an utterance it spawns  *)
(* a task that asks the plugin for the text, sends it on, and only then    *)
(* resets the state the loop looks at.  The channels are bounded, and a    *)
(* send to a full one waits.  One action stands for the code between two   *)
(* points at which its task may wait.  Calls of the plugin manager return  *)
(* here (PluginManager says when they do).                                 *)
(***************************************************************************)
EXTENDS Naturals, Sequences

CONSTANTS
    MaxUtterances,  \* bound: utterances, heard and on their way or accepted
    MaxSwitches,    \* bound: how often the user changes the activation mode
    LastSwitch,     \* bound: utterances accepted before that
    FirstMode,      \* opts.activation_mode
    SessionCap,     \* room between the trigger and the processor
    StreamCap,      \* capacity of stt_pipeline_tx
    InjectionCap,   \* capacity of text_injection_tx
    UiCap,          \* capacity of stt_tx
    Behavior        \* settings.hotkey_behavior

HotkeyBehaviors == {"Incremental"}
Modes == {"Hotkey", "Vad"}

ASSUME PipelineAssumption ==
    /\ {MaxUtterances, MaxSwitches, LastSwitch} \subseteq Nat
    /\ FirstMode \in Modes
    /\ {SessionCap, StreamCap, InjectionCap, UiCap} \subseteq Nat \ {0}
    /\ Behavior \in HotkeyBehaviors

Utterances == 1 .. MaxUtterances

VARIABLES
    trigger,    \* the VAD or hotkey task: quiet, in speech, or not running
    mode,       \* current_mode
    switching,  \* the mode set_activation_mode is changing to, or "none"
    injector,   \* the injection processor, or "off" when it is disabled
    reader,     \* who has stt_rx: one that reads it or not, or nobody
    loaded,     \* "yes" while the manager has a plugin
    sessions,   \* the session events on their way to the processor
    state,      \* UtteranceState
    utt,        \* utterances accepted so far; the number of the last one
    begin,      \* the begin_utterance task of the last utterance
    task,       \* the finalization task of each utterance
    stream,     \* results on their way to the forwarder
    forwarding, \* the result the forwarder holds, or 0
    fwpc,       \* how far it has got with it
    injection,  \* "open" until the forwarder finds the channel closed
    injq, ui    \* text_injection_tx and stt_tx

\* History variables, which no action reads.
VARIABLES
    switches,   \* how often the mode has been changed
    audio,      \* frames of the last utterance: none yet, dropped or fed
    injected    \* the results the injection processor has received

triggerVars == <<trigger, mode, switching, switches>>
sessionVars == <<state, utt, begin, task, audio>>
outVars     == <<stream, forwarding, fwpc, injection, injq, ui, injected>>
consumers   == <<injector, reader>>
vars == <<triggerVars, consumers, loaded, sessions, sessionVars, outVars>>

HasRoom(queue, capacity) == Len(queue) < capacity

TypeOK ==
    /\ trigger \in {"quiet", "speech", "dead"}
    /\ mode \in Modes /\ switching \in Modes \union {"none"}
    /\ injector \in {"off", "idle", "buffers", "injects", "hung"}
    /\ reader \in {"reads", "keeps", "gone"}
    /\ loaded \in {"yes", "no"}
    /\ sessions \in Seq({"start", "end"}) /\ Len(sessions) <= SessionCap
    /\ state \in {"Idle", "SpeechActive", "Finalizing"}
    /\ utt \in Nat
    /\ begin \in {"none", "spawned", "done"}
    /\ task \in [Utterances ->
                    {"none", "finalize", "send", "settle", "done"}]
    /\ stream \in Seq(Utterances) /\ Len(stream) <= StreamCap
    /\ fwpc \in {"idle", "inject", "ui", "ended"}
    /\ forwarding \in IF fwpc \in {"inject", "ui"} THEN Utterances ELSE {0}
    /\ injection \in {"open", "closed"}
    /\ injq \in Seq(Utterances) /\ Len(injq) <= InjectionCap
    /\ ui \in Seq(Utterances) /\ Len(ui) <= UiCap
    /\ switches \in 0 .. MaxSwitches
    /\ audio \in {"none", "dropped", "fed"}
    /\ injected \in Seq(Utterances)

Init ==
    /\ trigger = "quiet" /\ mode = FirstMode /\ switching = "none"
    /\ injector \in {"off", "idle"} /\ reader \in {"reads", "keeps"}
    /\ loaded = "yes"
    /\ sessions = <<>>
    /\ state = "Idle" /\ utt = 0
    /\ begin = "none"
    /\ task = [u \in Utterances |-> "none"]
    /\ stream = <<>>
    /\ forwarding = 0 /\ fwpc = "idle" /\ injection = "open"
    /\ injq = <<>> /\ ui = <<>>
    /\ switches = 0
    /\ audio = "none" /\ injected = <<>>

-----------------------------------------------------------------------------
(* The trigger and the fan-out, and set_activation_mode                    *)

SpeechStart ==
    /\ trigger = "quiet"
    /\ HasRoom(sessions, SessionCap)
    /\ utt + Len(sessions) < MaxUtterances
    /\ trigger' = "speech"
    /\ sessions' = Append(sessions, "start")
    /\ UNCHANGED <<mode, switching, switches, consumers, loaded, sessionVars,
                   outVars>>

SpeechEnd ==
    /\ trigger = "speech"
    /\ HasRoom(sessions, SessionCap)
    /\ trigger' = "quiet"
    /\ sessions' = Append(sessions, "end")
    /\ UNCHANGED <<mode, switching, switches, consumers, loaded,
                   sessionVars, outVars>>

\* The plugins are unloaded first, and nothing loads one again.
SetActivationMode(m) ==
    /\ switching = "none"
    /\ m # mode
    /\ switches < MaxSwitches /\ utt <= LastSwitch
    /\ switching' = m
    /\ switches' = switches + 1
    /\ loaded' = "no"
    /\ UNCHANGED <<consumers, trigger, mode, sessions, sessionVars,
                   outVars>>

\* The old trigger is aborted wherever it is, and a new one spawned.  A VAD
\* engine may fail to start: the call then returns with the old mode.
ReplaceTrigger ==
    /\ switching # "none"
    /\ \/ trigger' = "quiet" /\ mode' = switching
       \/ switching = "Vad" /\ trigger' = "dead" /\ mode' = mode
    /\ switching' = "none"
    /\ UNCHANGED <<switches, consumers, loaded, sessions,
                   sessionVars, outVars>>

\* The trigger is lost without being replaced: a VAD that was overtaken by
\* its frames ends, as does a listener that cannot be set up; one that lost
\* its connection starts anew.  Its end is not sent (Activation has them).
LoseTrigger ==
    /\ trigger # "dead"
    /\ \/ mode = "Hotkey" /\ trigger' = "quiet"
       \/ (mode = "Vad" \/ trigger = "quiet") /\ trigger' = "dead"
    /\ UNCHANGED <<mode, switching, switches, consumers, loaded,
                   sessions, sessionVars, outVars>>

-----------------------------------------------------------------------------
(* PluginSttProcessor: the loop, and the tasks it spawns                   *)

\* A Start counts in this state only; in any other it is dropped.
AcceptsUnlessActive(s) == s # "SpeechActive"
Accepts(s) == s = "Idle"

HandleStart ==
    /\ sessions # <<>> /\ Head(sessions) = "start"
    /\ sessions' = Tail(sessions)
    /\ IF Accepts(state)
       THEN /\ state' = "SpeechActive"
            /\ utt' = utt + 1
            /\ begin' = "spawned"
            /\ audio' = "none"
       ELSE UNCHANGED <<state, utt, begin, audio>>
    /\ UNCHANGED <<triggerVars, consumers, loaded, task, outVars>>

HandleEnd ==
    /\ sessions # <<>> /\ Head(sessions) = "end"
    /\ sessions' = Tail(sessions)
    /\ IF state = "SpeechActive"
       THEN /\ state' = "Finalizing"
            /\ task' = [task EXCEPT ![utt] = "finalize"]
       ELSE UNCHANGED <<state, task>>
    /\ UNCHANGED <<triggerVars, consumers, loaded, utt, begin, audio,
                   outVars>>

\* A frame is buffered and given to the plugin unless the behaviour is
\* Incremental: then nothing is done with it.
HandleAudioFrame ==
    /\ state = "SpeechActive"
    /\ audio' = IF Behavior # "Incremental" THEN "fed" ELSE "dropped"
    /\ UNCHANGED <<triggerVars, consumers, loaded, sessions, state, utt, begin,
                   task, outVars>>

\* It may run as late as it likes, and is followed here until the utterance
\* is finalized.
BeginUtterance ==
    /\ begin = "spawned"
    /\ begin' = "done"
    /\ UNCHANGED <<triggerVars, consumers, loaded, sessions, state, utt, task,
                   audio, outVars>>

\* finalize() answers a transcript, nothing, or an error, which is sent like
\* a transcript; without a plugin it answers nothing.
Finalize(u) ==
    /\ task[u] = "finalize"
    /\ \/ /\ loaded = "yes"
          /\ task' = [task EXCEPT ![u] = "send"]
       \/ task' = [task EXCEPT ![u] = "settle"]
    /\ begin' = "none" /\ audio' = "none"
    /\ UNCHANGED <<triggerVars, consumers, loaded, sessions, state, utt,
                   outVars>>

\* A result nobody will forward any more is given up.
SendResult(u) ==
    /\ task[u] = "send"
    /\ \/ fwpc = "ended" /\ UNCHANGED stream
       \/ /\ fwpc # "ended" /\ HasRoom(stream, StreamCap)
          /\ stream' = Append(stream, u)
    /\ task' = [task EXCEPT ![u] = "settle"]
    /\ UNCHANGED <<triggerVars, consumers, loaded, sessions, state, utt, begin,
                   audio, forwarding, fwpc, injection, injq, ui,
                   injected>>

\* The state after a finalization.
LeftAlone == state
Reset == "Idle"

Settle(u) ==
    /\ task[u] = "settle"
    /\ state' = Reset
    /\ task' = [task EXCEPT ![u] = "done"]
    /\ UNCHANGED <<triggerVars, consumers, loaded, sessions, utt, begin, audio,
                   outVars>>

-----------------------------------------------------------------------------
(* The forwarder and the consumers                                         *)

\* When injection is disabled its receiver is dropped, and the send fails.
ClosedOrFull == injector = "off" \/ ~HasRoom(injq, InjectionCap)
Closed == injector = "off"

ForwardNext ==
    /\ fwpc = "idle"
    /\ stream # <<>>
    /\ forwarding' = Head(stream)
    /\ stream' = Tail(stream)
    /\ fwpc' = IF injection = "open" THEN "inject" ELSE "ui"
    /\ UNCHANGED <<triggerVars, consumers, loaded, sessions, sessionVars,
                   injection, injq, ui, injected>>

ForwardToInjection ==
    /\ fwpc = "inject"
    /\ \/ /\ ~Closed
          /\ HasRoom(injq, InjectionCap)
          /\ injq' = Append(injq, forwarding)
          /\ UNCHANGED injection
       \/ /\ Closed
          /\ injection' = "closed"
          /\ UNCHANGED injq
    /\ fwpc' = "ui"
    /\ UNCHANGED <<triggerVars, consumers, loaded, sessions, sessionVars,
                   stream, forwarding, ui, injected>>

\* A send nobody can receive ends the forwarder, and with it the stream,
\* when nobody injects either.
ForwardToUi ==
    /\ fwpc = "ui"
    /\ \/ /\ reader # "gone" /\ HasRoom(ui, UiCap)
          /\ ui' = Append(ui, forwarding)
          /\ fwpc' = "idle"
          /\ UNCHANGED stream
       \/ /\ reader = "gone"
          /\ fwpc' = IF injection = "open" THEN "idle" ELSE "ended"
          /\ stream' = IF injection = "open" THEN stream ELSE <<>>
          /\ UNCHANGED ui
    /\ forwarding' = 0
    /\ UNCHANGED <<triggerVars, consumers, loaded, sessions, sessionVars,
                   injection, injq, injected>>

\* The injection processor's loop takes a result, but not while it injects
\* (TextInjection goes on).
InjectorReceives ==
    /\ injector \in {"idle", "buffers"}
    /\ injq # <<>>
    /\ injq' = Tail(injq)
    /\ injected' = Append(injected, Head(injq))
    /\ injector' = "buffers"
    /\ UNCHANGED <<triggerVars, reader, loaded, sessions, sessionVars,
                   stream, forwarding, fwpc, injection, ui>>

\* What it has buffered is injected within the loop, and nothing bounds the
\* time that takes: a desktop that does not answer is waited for for good.
InjectionBegins ==
    /\ injector = "buffers"
    /\ injector' \in {"injects", "hung"}
    /\ UNCHANGED <<triggerVars, reader, loaded, sessions, sessionVars,
                   outVars>>

InjectionAnswered ==
    /\ injector = "injects"
    /\ injector' = "idle"
    /\ UNCHANGED <<triggerVars, reader, loaded, sessions, sessionVars,
                   outVars>>

\* tui_dashboard receives from stt_rx; nothing in the main binary does.
UiReceives ==
    /\ reader = "reads"
    /\ ui # <<>>
    /\ ui' = Tail(ui)
    /\ UNCHANGED <<triggerVars, consumers, loaded, sessions, sessionVars,
                   stream, forwarding, fwpc, injection, injq, injected>>

\* Whoever has stt_rx, a public field of AppHandle, drops it.
DropReader ==
    /\ reader # "gone"
    /\ reader' = "gone"
    /\ ui' = <<>>
    /\ UNCHANGED <<triggerVars, injector, loaded, sessions, sessionVars,
                   stream, forwarding, fwpc, injection, injq, injected>>

-----------------------------------------------------------------------------
TaskStep(u) == Finalize(u) \/ SendResult(u) \/ Settle(u)

Forward == ForwardNext \/ ForwardToInjection \/ ForwardToUi

Next ==
    \/ SpeechStart \/ SpeechEnd
    \/ \E m \in Modes : SetActivationMode(m)
    \/ ReplaceTrigger \/ LoseTrigger
    \/ HandleStart \/ HandleEnd \/ HandleAudioFrame \/ BeginUtterance
    \/ \E u \in Utterances : TaskStep(u)
    \/ Forward
    \/ InjectorReceives \/ InjectionBegins \/ InjectionAnswered
    \/ UiReceives \/ DropReader

Spec == Init /\ [][Next]_vars

(***************************************************************************)
(* Fairness: a task that can run is polled.  Nothing is promised of the    *)
(* user, of the speaker, or of the audio.  An injection that is answered   *)
(* ends, and any may be the one that never is; the plugin answers.         *)
(***************************************************************************)
Fairness ==
    /\ WF_vars(HandleStart) /\ WF_vars(HandleEnd)
    /\ \A u \in Utterances :
         WF_vars(Finalize(u)) /\ WF_vars(SendResult(u)) /\ WF_vars(Settle(u))
    /\ WF_vars(Forward)
    /\ WF_vars(InjectorReceives) /\ WF_vars(InjectionAnswered)
    /\ WF_vars(UiReceives)

FairSpec == Spec /\ Fairness

-----------------------------------------------------------------------------
(* Safety                                                                  *)

Unfinished(u) == task[u] \in {"finalize", "send", "settle"}

\* While a finalization task is under way the state says so, and there is
\* only that one: the task that resets the state at its end, without looking
\* at it, cannot reset the state of a later utterance (handle_session_event,
\* handle_session_end).
OneFinalization ==
    \A u \in Utterances :
        Unfinished(u) => state = "Finalizing" /\ u = utt

Increasing(s) == \A i, j \in DOMAIN s : i < j => s[i] < s[j]

\* Results arrive at the injection processor in the order their utterances
\* were spoken, and none twice, whatever tasks and queues they pass.
InSpokenOrder ==
    Increasing(injected \o injq \o
               (IF fwpc = "inject" THEN <<forwarding>> ELSE <<>>) \o stream)

Trigger ==
    INSTANCE SessionTrigger WITH
        Capacity <- SessionCap, trigger <- trigger, waiting <- Len(sessions)

\* What this module takes for granted of the trigger is what SessionTrigger
\* promises, and Activation keeps (runtime.rs, the fan-out).
ListensToTrigger == Trigger!Spec

-----------------------------------------------------------------------------
(* Liveness                                                                *)

\* Behind a UI channel that is full and that nobody receives from, the
\* forwarder waits for good.
StuckBehindUi == reader = "keeps" /\ Len(ui) = UiCap

\* The same behind an injection channel, when the desktop never answers.
StuckBehindInjection == injector = "hung" /\ Len(injq) = InjectionCap

\* A finalization ends, so the next utterance can start (handle_session_end):
\* nothing along the way can hold it up but a UI channel nobody reads, or an
\* injection that never ends behind which the channel is full.
StallsOnlyBehindConsumers ==
    state = "Finalizing"
        ~> state = "Idle" \/ StuckBehindUi \/ StuckBehindInjection

\* Every result a finalization has produced reaches the injection processor
\* when there is one, unless nobody reads the UI channel in front of it or
\* an earlier injection never ends.
ResultIsInjected ==
    \A u \in Utterances :
        task[u] = "send" /\ injector # "off"
            ~> \/ \E i \in DOMAIN injected : injected[i] = u
               \/ StuckBehindUi \/ injector = "hung"

-----------------------------------------------------------------------------
(* What comments and documents say, and the code does not do               *)

\* "Critical: Reset the state back to Idle so the next utterance can start"
\* (handle_session_end): a finalization always ends.
FinalizationEnds == state = "Finalizing" ~> state = "Idle"

\* After an utterance ends "the main loop can immediately start processing
\* the next utterance" (handle_session_end): the next Start is accepted.
NextUtteranceStarts ==
    [][ (/\ state = "Finalizing"
         /\ sessions # <<>> /\ Head(sessions) = "start"
         /\ sessions' = Tail(sessions))
            => utt' = utt + 1 ]_vars

\* "The system shall buffer audio between SpeechStart and SpeechEnd and
\* submit the buffered segment to the configured STT engine": when an
\* utterance has been finalized the plugin has been given its audio.
AudioIsSubmitted == state = "Finalizing" => audio # "dropped"

\* begin_utterance "prepares the plugin for a new utterance": it has run
\* before the utterance is finalized.
PreparedBeforeFinalize ==
    [][\A u \in Utterances : Finalize(u) => begin = "done"]_vars

\* Activation-mode changes need no restart: the plugin comes back.
PluginComesBack == loaded = "no" ~> loaded = "yes"

\* The mode the application reports has a trigger that is running.
ModeHasTrigger == switching = "none" => trigger # "dead"
=============================================================================
