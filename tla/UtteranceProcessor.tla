------------------------- MODULE UtteranceProcessor -------------------------
(***************************************************************************)
(* The utterance processor of crates/coldvox-stt: SttProcessor             *)
(* (processor.rs) selects between VAD events and audio frames, buffers the *)
(* frames of an utterance and hands them, when the speech ends, through    *)
(* PluginAdapter (plugin_adapter.rs) to one of the engines (plugins/).     *)
(*                                                                         *)
(* Audio frames are numbered as they are recorded.  An engine is what it   *)
(* has buffered and what it may answer; the text of an answer is left out. *)
(***************************************************************************)
EXTENDS Integers, Sequences, SequencesExt

CONSTANTS
    Engines,       \* the registered engines
    MaxFrames,     \* bound: frames recorded
    MaxSpeech,     \* bound: utterances spoken
    AudioCap,      \* the broadcast channel of frames
    VadCap,        \* the channel of VAD events
    EventCap,      \* the channel of transcription events
    ChunkSize,     \* DEFAULT_CHUNK_SIZE_SAMPLES, in frames
    MaxAudio,      \* the audio an engine takes, in frames
    MockChunks,    \* transcription_after_chunks of the mock engine
    FailAfter      \* fail_after_calls of the mock engine

AllEngines == {"http", "parakeet", "moonshine", "mock", "noop"}

ASSUME UtteranceAssumption ==
    /\ Engines \subseteq AllEngines /\ Engines # {}
    /\ {MaxFrames, MaxSpeech} \subseteq Nat
    /\ {AudioCap, VadCap, EventCap, ChunkSize, MaxAudio, MockChunks,
        FailAfter} \subseteq Nat \ {0}

VARIABLES
    recorded,   \* frames recorded
    airing,     \* frames the broadcast still holds for the processor
    lagged,     \* "yes" if it has dropped some the processor had not read
    audioOpen, vadOpen,     \* "yes" while the channel has a sender
    vad,        \* VAD events not taken
    spoken      \* starts and ends the VAD has sent

VARIABLES
    pc,         \* where run() is
    state,      \* UtteranceState
    buffer,     \* audio_buffer of the active state
    left,       \* what of it the engine has not been given
    out,        \* the event that is being sent
    after,      \* where run() goes on when it is sent
    events      \* events the consumer has not taken

VARIABLES
    engine, model,          \* the engine and the model it has loaded
    held,                   \* audio_buffer of the engine
    chunks, calls,          \* the mock engine's counts
    id, nextId              \* the adapter's utterance id, the next free one

\* History variables.
VARIABLES
    utterance,  \* how many starts have been handled
    answered,   \* <<id, utterance>> of the finals
    dropped     \* frames the broadcast dropped unread

worldVars == <<recorded, airing, lagged, audioOpen, vadOpen, vad, spoken,
               dropped>>
engineVars == <<engine, model, held, chunks, calls, id, nextId>>
loopVars == <<state, buffer, left, utterance>>
utteranceVars == <<worldVars, engineVars, loopVars, pc, out, after, events,
                   answered>>

NoModel == "none"
NoEvent == <<"none">>

\* check_requirements: an engine that runs here needs its build, and a GPU
\* or three Python packages; the others need nothing.
Local == {"parakeet", "moonshine"}
ParakeetRuns == {{}, {"parakeet"}}
MoonshineRuns == {{}, {"moonshine"}}
MeetRequirements ==
    {Engines \intersect ((AllEngines \ Local) \union p \union m) :
       p \in ParakeetRuns, m \in MoonshineRuns}

\* create_best_available: the first of the preferred engines that is
\* registered, whatever it requires; else one whose requirements hold.
BestAvailable(preferred, meeting) ==
    LET asked == {k \in 1 .. Len(preferred) : preferred[k] \in Engines}
    IN  IF asked = {} THEN meeting
        ELSE {preferred[CHOOSE k \in asked : \A j \in asked : k <= j]}

Selectable ==
    UNION {BestAvailable(preferred, meeting) :
             preferred \in {<<>>} \union {<<e>> : e \in AllEngines},
             meeting \in MeetRequirements}

FreshEngine == model = NoModel /\ held = <<>> /\ chunks = 0 /\ calls = 0

UtteranceInit ==
    /\ recorded = 0 /\ airing = <<>> /\ lagged = "no"
    /\ audioOpen = "yes" /\ vadOpen = "yes" /\ vad = <<>> /\ spoken = 0
    /\ pc = "init" /\ state = "Idle" /\ buffer = <<>> /\ left = <<>>
    /\ out = NoEvent /\ after = "select" /\ events = <<>>
    /\ engine \in Selectable /\ FreshEngine
    /\ id = 1 /\ nextId = 2
    /\ utterance = 0 /\ answered = {} /\ dropped = {}

-----------------------------------------------------------------------------
(* The microphone, the VAD and the consumer                                *)

processVars == <<engineVars, loopVars, pc, out, after, events, answered>>

\* A broadcast channel overwrites what its slowest receiver has not read.
RecordFrame ==
    /\ audioOpen = "yes" /\ recorded < MaxFrames
    /\ recorded' = recorded + 1
    /\ LET full == Len(airing) = AudioCap
       IN  /\ airing' = Append(IF full THEN Tail(airing) ELSE airing,
                               recorded + 1)
           /\ lagged' = IF full THEN "yes" ELSE lagged
           /\ dropped' = IF full THEN dropped \union {Head(airing)}
                         ELSE dropped
    /\ UNCHANGED <<audioOpen, vadOpen, vad, spoken, processVars>>

\* Starts and ends alternate (Activation shows it).
VadSays ==
    /\ vadOpen = "yes" /\ Len(vad) < VadCap /\ spoken < 2 * MaxSpeech
    /\ vad' = Append(vad, IF spoken % 2 = 0 THEN "SpeechStart"
                          ELSE "SpeechEnd")
    /\ spoken' = spoken + 1
    /\ UNCHANGED <<recorded, airing, lagged, audioOpen, vadOpen, dropped,
                   processVars>>

Closes ==
    /\ \/ audioOpen = "yes" /\ audioOpen' = "no" /\ UNCHANGED vadOpen
       \/ vadOpen = "yes" /\ vadOpen' = "no" /\ UNCHANGED audioOpen
    /\ UNCHANGED <<recorded, airing, lagged, vad, spoken, dropped,
                   processVars>>

Consume ==
    /\ events # <<>> /\ events' = Tail(events)
    /\ UNCHANGED <<worldVars, engineVars, loopVars, pc, out, after, answered>>

-----------------------------------------------------------------------------
(* The engines                                                             *)

\* resolve_model_path takes the first of these that is on the disk.
ModelPlaces == <<"env", "config", "given", "cache", "shared", "hub">>
ResolvedModel(disk) ==
    LET found == SelectSeq(ModelPlaces, LAMBDA p : p \in disk)
    IN  IF found = <<>> THEN NoModel ELSE Head(found)

\* ParakeetPlugin::initialize wants a GPU, a model and loads it;
ParakeetLoads == {NoModel} \union {ResolvedModel({p}) : p \in {"env", "hub"}}

\* MoonshinePlugin::initialize wants three Python packages and a model.
MoonshineLoads == {NoModel, "given", "hub"}

\* The http engine has a service with a well-formed URL and its token, or
\* it finds out, at every request, that it has not.
ServiceUrls == {NoModel, "url"}

Loads == CASE engine = "parakeet" -> ParakeetLoads
           [] engine = "moonshine" -> MoonshineLoads
           [] engine = "http" -> ServiceUrls
           [] OTHER -> {NoModel}

\* PluginAdapter::initialize, before the processor is built; a failure
\* leaves an engine without a model.  A disabled processor returns at once.
Initialize ==
    /\ pc = "init"
    /\ model' \in Loads
    /\ pc' \in {"select", "done"}
    /\ UNCHANGED <<worldVars, engine, held, chunks, calls, id, nextId,
                   loopVars, out, after, events, answered>>

\* What a call of an engine leaves and answers.
Outcome(audio, count, call, answer) ==
    [held |-> audio, chunks |-> count, calls |-> call, answer |-> answer]
Unchanged(answer) == Outcome(held, chunks, calls, answer)
Buffered(audio) == Outcome(audio, chunks, calls, "none")

HttpTakes(chunk) == Buffered(held \o chunk)
ParakeetTakes(chunk) ==
    IF model = NoModel THEN Unchanged("error") ELSE Buffered(held \o chunk)
MoonshineTakes(chunk) ==
    LET audio == held \o chunk
    IN  IF model = NoModel THEN Unchanged("error")
        ELSE Buffered(IF Len(audio) > MaxAudio THEN SubSeq(audio, 1, MaxAudio)
                      ELSE audio)
MockTakes ==
    IF calls + 1 > FailAfter THEN Outcome(held, chunks, calls + 1, "error")
    ELSE IF chunks + 1 >= MockChunks THEN Outcome(held, 0, calls + 1, "final")
    ELSE Outcome(held, chunks + 1, calls + 1, "none")

\* The noop engine answers everything with nothing.
NoopAnswers == Unchanged("none")

ProcessAudio(chunk) ==
    CASE engine = "http" -> HttpTakes(chunk)
      [] engine = "parakeet" -> ParakeetTakes(chunk)
      [] engine = "moonshine" -> MoonshineTakes(chunk)
      [] engine = "mock" -> MockTakes
      [] engine = "noop" -> NoopAnswers

\* An engine keeps its audio unless it has transcribed it.
Transcribed == {Outcome(<<>>, chunks, calls, "final"), Unchanged("error")}

\* The guard rails are looked at before the request is sent.
WithinGuardrails == Len(held) <= MaxAudio

\* A request may be refused, time out, or be answered with something else.
ServiceAnswers == IF WithinGuardrails /\ model # NoModel THEN Transcribed
                  ELSE {Unchanged("error")}

HttpFinalizes == IF held = <<>> THEN {Unchanged("none")} ELSE ServiceAnswers

\* A build without the engine has nothing but errors.
Unloaded == {Unchanged("none"), Unchanged("error")}

ParakeetFinalizes ==
    IF model = NoModel THEN Unloaded
    ELSE IF held = <<>> THEN {Unchanged("none")} ELSE Transcribed
MoonshineFinalizes ==
    IF model = NoModel THEN Unloaded
    ELSE IF held = <<>> THEN {Unchanged("none")} ELSE Transcribed
MockFinalizes == {Unchanged(IF chunks > 0 THEN "final" ELSE "none")}

Finalize ==
    CASE engine = "http" -> HttpFinalizes
      [] engine = "parakeet" -> ParakeetFinalizes
      [] engine = "moonshine" -> MoonshineFinalizes
      [] engine = "mock" -> MockFinalizes
      [] engine = "noop" -> {NoopAnswers}

KeepsAudio == UNCHANGED held /\ chunks' = 0 /\ calls' = 0
ResetEngine == held' = <<>> /\ chunks' = 0 /\ calls' = 0

-----------------------------------------------------------------------------
(* PluginAdapter                                                           *)

\* The mock engine draws an id of its own, which the adapter replaces.
Drawn(answer) == IF engine = "mock" /\ answer = "final" THEN 1 ELSE 0

Event(answer) == IF answer = "final" THEN <<"final", id, utterance>>
                 ELSE <<answer>>

Answers(o) ==
    /\ held' = o.held /\ chunks' = o.chunks /\ calls' = o.calls
    /\ answered' = IF o.answer = "final"
                   THEN answered \union {<<id, utterance>>} ELSE answered
    /\ out' = Event(o.answer)

OnSpeechFrame(chunk) ==
    LET o == ProcessAudio(chunk)
    IN  /\ Answers(o)
        /\ id' = id /\ nextId' = nextId + Drawn(o.answer)

OnSpeechEnd ==
    \E o \in Finalize :
        /\ Answers(o)
        /\ IF o.answer = "final"
           THEN /\ id' = nextId + Drawn("final")
                /\ nextId' = nextId + Drawn("final") + 1
           ELSE UNCHANGED <<id, nextId>>

KeepsId == ResetEngine /\ UNCHANGED <<id, nextId>>
Reset ==
    /\ id' = nextId /\ nextId' = nextId + 1
    /\ ResetEngine

-----------------------------------------------------------------------------
(* SttProcessor                                                            *)

\* handle_speech_start, for a start in any state.
SpeechStart ==
    /\ state' = "SpeechActive" /\ buffer' = <<>>
    /\ utterance' = utterance + 1
    /\ Reset
    /\ pc' = "select"
    /\ UNCHANGED <<left, after>>

\* handle_speech_end begins.  An empty buffer is finalized all the same.
SpeechEnd ==
    /\ IF state = "SpeechActive"
       THEN left' = buffer /\ pc' = "feed"
       ELSE left' = <<>> /\ pc' = "select"
    /\ UNCHANGED <<state, buffer, utterance, held, chunks, calls, id, nextId,
                   after>>

TakeEvent ==
    /\ pc \in {"select", "eventsOnly"} /\ vad # <<>>
    /\ vad' = Tail(vad)
    /\ IF Head(vad) = "SpeechStart" THEN SpeechStart ELSE SpeechEnd
    /\ UNCHANGED <<recorded, airing, lagged, audioOpen, vadOpen, spoken,
                   dropped, engine, model, out, events, answered>>

\* handle_audio_frame
Heard(frame) == Append(buffer, frame)

TakeFrame ==
    /\ pc = "select" /\ lagged = "no" /\ airing # <<>>
    /\ airing' = Tail(airing)
    /\ buffer' = IF state = "SpeechActive" THEN Heard(Head(airing))
                 ELSE buffer
    /\ UNCHANGED <<recorded, lagged, audioOpen, vadOpen, vad, spoken, dropped,
                   engineVars, state, left, utterance, pc, out, after, events,
                   answered>>

\* A lagged receiver is told once.  That is no Ok(frame), so this select!
\* goes on without the audio, until a VAD event comes.
Lagged ==
    /\ pc = "select" /\ lagged = "yes"
    /\ lagged' = "no" /\ pc' = "eventsOnly"
    /\ UNCHANGED <<recorded, airing, audioOpen, vadOpen, vad, spoken, dropped,
                   engineVars, loopVars, out, after, events, answered>>

\* No branch of the select! is left.
Ends ==
    /\ vadOpen = "no" /\ vad = <<>>
    /\ \/ pc = "eventsOnly"
       \/ pc = "select" /\ audioOpen = "no" /\ airing = <<>>
    /\ pc' = "done"
    /\ UNCHANGED <<worldVars, engineVars, loopVars, out, after, events,
                   answered>>

FeedChunk ==
    /\ pc = "feed" /\ left # <<>>
    /\ LET n == IF Len(left) < ChunkSize THEN Len(left) ELSE ChunkSize
       IN  /\ OnSpeechFrame(SubSeq(left, 1, n))
           /\ left' = SubSeq(left, n + 1, Len(left))
    /\ after' = "feed"
    /\ pc' = IF out' = NoEvent THEN "feed" ELSE "send"
    /\ UNCHANGED <<worldVars, engine, model, state, buffer, utterance, events>>

FinalizeEnd ==
    /\ pc = "feed" /\ left = <<>>
    /\ OnSpeechEnd
    /\ state' = "Idle" /\ buffer' = <<>> /\ after' = "select"
    /\ pc' = IF out' = NoEvent THEN "select" ELSE "send"
    /\ UNCHANGED <<worldVars, engine, model, left, utterance, events>>

\* send_event gives up after five seconds.
TimesOut == Len(events) = EventCap
SendEvent ==
    /\ pc = "send"
    /\ \/ Len(events) < EventCap /\ events' = Append(events, out)
       \/ TimesOut /\ UNCHANGED events
    /\ pc' = after /\ out' = NoEvent
    /\ UNCHANGED <<worldVars, engineVars, loopVars, after, answered>>

UtteranceNext ==
    \/ RecordFrame \/ VadSays \/ Closes \/ Consume
    \/ Initialize \/ TakeEvent \/ TakeFrame \/ Lagged \/ Ends
    \/ FeedChunk \/ FinalizeEnd \/ SendEvent

UtteranceSpec == UtteranceInit /\ [][UtteranceNext]_utteranceVars

-----------------------------------------------------------------------------
(* Correctness                                                             *)

EngineHoldsTheUtterance ==
    pc = "feed" \/ (pc = "send" /\ after = "feed")
        => IsPrefix(held, buffer)
GapsAreLags ==
    \A k \in 1 .. Len(buffer) - 1 :
        /\ buffer[k] < buffer[k + 1]
        /\ \A f \in buffer[k] + 1 .. buffer[k + 1] - 1 : f \in dropped

\* While an utterance is handed over the engine holds nothing but the audio
\* of that utterance, from its beginning: what an earlier one left behind,
\* because the service failed, refused it or timed out, has been dropped
\* (handle_speech_start, the engines' finalize and reset).  That audio is in
\* the order it was recorded, and what is missing in the middle is what the
\* broadcast dropped (handle_audio_frame).
UtteranceKept == EngineHoldsTheUtterance /\ GapsAreLags

\* Transcripts of two utterances never carry the same id, whether the engine
\* answers while it is fed, at the end, or not at all (plugin_adapter.rs).
IdsTellUtterancesApart ==
    \A a, b \in answered : a[1] = b[1] => a[2] = b[2]
=============================================================================
