---------------------------- MODULE Persistence ----------------------------
(***************************************************************************)
(* The persistence of transcripts (crates/app/src/stt/persistence.rs):     *)
(* spawn_persistence_handler's task selects between audio frames, VAD      *)
(* events and transcription events, and its TranscriptionWriter keeps a    *)
(* session in memory and on the disk: one wav and one text file for each   *)
(* utterance, named by the utterance id, and the manifest of the session.  *)
(*                                                                         *)
(* The three channels are independent, so their messages are taken in any  *)
(* order.  Every write may fail.  What is on the disk when the program is  *)
(* killed is what it holds in the state that comes last: the invariants    *)
(* are about every state.                                                  *)
(***************************************************************************)
EXTENDS Integers, Sequences, SequencesExt, FiniteSets

CONSTANTS
    MaxSpoken,      \* bound: utterances
    MaxAired,       \* bound: audio frames
    AirCap,         \* the broadcast channel of audio frames
    QueueCap,       \* the channels of VAD events and transcripts
    UtteranceIds,   \* the ids an engine gives its transcripts
    RetentionDays,  \* retention_days
    DayLength       \* the length of a day, in ticks of the clock

ASSUME PersistenceAssumption ==
    /\ {MaxSpoken, MaxAired} \subseteq Nat
    /\ {AirCap, QueueCap, DayLength} \subseteq Nat \ {0}
    /\ RetentionDays \in Nat /\ UtteranceIds \subseteq Nat

Channels == {"audio", "vad", "text"}
Savings == {"nothing", "text", "audio"}
Formats == {"json", "csv"}

VARIABLES
    inbox,      \* the messages of each channel
    open,       \* the channels that have a sender
    overrun,    \* "yes" if the broadcast dropped frames not taken
    aired, said, told   \* frames, starts and ends, transcripts sent

VARIABLES
    step,       \* where the task is
    saving,     \* enabled and save_audio of the configuration
    format,     \* transcript_format
    active,     \* utterance_active
    sound,      \* current_utterance_audio: <<frame, start it was taken after>>
    lastStart, lastDuration,    \* the utterances of the two times, 0 for None
    session,    \* current_session.utterances
    ended,      \* "yes" if the session has ended_at
    final       \* the transcript in hand

\* The disk.
VARIABLES
    wavs,       \* what was recorded, by utterance id
    files,      \* the records of the text files, as <<id, record>>
    manifest,   \* session.json
    days        \* the days that have a directory; today is RetentionDays + 1

\* History variables.
VARIABLES
    finals,     \* transcripts taken
    behind      \* "yes" if the last transcript was not saved to the end

sourceVars == <<inbox, open, overrun, aired, said, told>>
memoryVars == <<active, sound, lastStart, lastDuration, session, ended,
                final>>
diskVars == <<wavs, files, manifest, days>>
writerVars == <<step, saving, format, memoryVars, diskVars, finals, behind>>
persistenceVars == <<sourceVars, writerVars>>

NoManifest == [records |-> <<>>, ended |-> "no", whole |-> "no"]
NoFinal == <<0, 0>>
Today == RetentionDays + 1

PersistenceInit ==
    /\ inbox = [c \in Channels |-> <<>>] /\ open = Channels
    /\ overrun = "no" /\ aired = 0 /\ said = 0 /\ told = 0
    /\ step = "new" /\ saving \in Savings /\ format \in Formats
    /\ active = "no" /\ sound = <<>> /\ lastStart = 0 /\ lastDuration = 0
    /\ session = <<>> /\ ended = "no" /\ final = NoFinal
    /\ wavs = [i \in {} |-> <<>>] /\ files = {} /\ manifest = NoManifest
    /\ days = 0 .. RetentionDays
    /\ finals = 0 /\ behind = "no"

-----------------------------------------------------------------------------
(* The senders                                                             *)

Send(channel, message) ==
    /\ Len(inbox[channel]) < QueueCap
    /\ inbox' = [inbox EXCEPT ![channel] = Append(@, message)]

AirFrame ==
    /\ "audio" \in open /\ aired < MaxAired
    /\ aired' = aired + 1
    /\ LET full == Len(inbox["audio"]) = AirCap
       IN  /\ inbox' = [inbox EXCEPT !["audio"] =
                Append(IF full THEN Tail(@) ELSE @, aired + 1)]
           /\ overrun' = IF full THEN "yes" ELSE overrun
    /\ UNCHANGED <<open, said, told, writerVars>>

SayBoundary ==
    /\ "vad" \in open /\ said < 2 * MaxSpoken
    /\ said' = said + 1
    /\ Send("vad", IF said % 2 = 0 THEN "SpeechStart" ELSE "SpeechEnd")
    /\ UNCHANGED <<open, overrun, aired, told, writerVars>>

\* The transcript of an utterance follows its end; an utterance may have none.
TellFinal ==
    /\ "text" \in open
    /\ \E u \in told + 1 .. said \div 2, id \in UtteranceIds :
           Send("text", <<id, u>>) /\ told' = u
    /\ UNCHANGED <<open, overrun, aired, said, writerVars>>

\* Bound: the senders go when the last utterance has been spoken.
CloseChannel ==
    /\ said = 2 * MaxSpoken
    /\ \E c \in open : open' = open \ {c}
    /\ UNCHANGED <<inbox, overrun, aired, said, told, writerVars>>

-----------------------------------------------------------------------------
(* TranscriptionWriter::new and cleanup_old_files                          *)

Snapshot == [records |-> session, ended |-> ended, whole |-> "yes"]
\* A write truncates the file before it fills it.
TornManifest == [records |-> <<>>, ended |-> "no", whole |-> "no"]

NewWriter ==
    /\ step = "new"
    /\ \/ saving = "nothing" /\ step' = "clean" /\ UNCHANGED <<manifest, days>>
       \/ /\ saving # "nothing" /\ step' = "clean"
          /\ manifest' = Snapshot /\ days' = days \union {Today}
       \/ /\ saving # "nothing" /\ step' = "done"
          /\ manifest' \in {manifest, TornManifest}
          /\ days' \in {days, days \union {Today}}
    /\ UNCHANGED <<sourceVars, saving, format, memoryVars, wavs, files,
                   finals, behind>>

\* A day is old when its midnight is before the cutoff.
Expired(day, clock) ==
    day * DayLength < Today * DayLength + clock - RetentionDays * DayLength

\* Whether or not anything is saved.  An error leaves the rest for next time.
CleanUp ==
    /\ step = "clean" /\ step' = "select"
    /\ \E clock \in 0 .. DayLength - 1 :
         LET old == {d \in days : Expired(d, clock)}
         IN  days' \in IF RetentionDays = 0 THEN {days}
                       ELSE {days \ removed : removed \in SUBSET old}
    /\ UNCHANGED <<sourceVars, saving, format, memoryVars, wavs, files,
                   manifest, finals, behind>>

-----------------------------------------------------------------------------
(* The select! loop                                                        *)

Selecting == step \in {"select", "withoutAudio"}

Take(channel) ==
    /\ Selecting /\ inbox[channel] # <<>>
    /\ inbox' = [inbox EXCEPT ![channel] = Tail(@)]
    /\ UNCHANGED <<open, overrun, aired, said, told>>

\* handle_audio_frame
TakeAudio ==
    /\ step = "select" /\ overrun = "no" /\ Take("audio")
    /\ sound' = IF saving = "audio" /\ active = "yes"
                THEN Append(sound, <<Head(inbox["audio"]), lastStart>>)
                ELSE sound
    /\ UNCHANGED <<step, saving, format, active, lastStart, lastDuration,
                   session, ended, final, diskVars, finals, behind>>

\* The error of a receiver that lags disables its branch until another fires.
AudioLagged ==
    /\ step = "select" /\ overrun = "yes"
    /\ overrun' = "no" /\ step' = "withoutAudio"
    /\ UNCHANGED <<inbox, open, aired, said, told, saving, format,
                   memoryVars, diskVars, finals, behind>>

\* handle_vad_event
Uncleared == active' = "yes" /\ lastStart' = lastStart + 1 /\ UNCHANGED sound
StartUtterance ==
    /\ active' = "yes" /\ lastStart' = lastStart + 1
    /\ sound' = IF saving = "audio" THEN <<>> ELSE sound

TakeVad ==
    /\ Take("vad") /\ step' = "select"
    /\ IF saving = "nothing"
       THEN UNCHANGED <<active, lastStart, lastDuration, sound>>
       ELSE IF Head(inbox["vad"]) = "SpeechStart"
       THEN StartUtterance /\ UNCHANGED lastDuration
       ELSE /\ active' = "no" /\ lastDuration' = lastDuration + 1
            /\ UNCHANGED <<sound, lastStart>>
    /\ UNCHANGED <<saving, format, session, ended, final, diskVars, finals,
                   behind>>

\* handle_transcription, up to the first await
TakeFinal ==
    /\ Take("text")
    /\ IF saving = "nothing"
       THEN step' = "select" /\ UNCHANGED <<final, finals>>
       ELSE /\ final' = Head(inbox["text"]) /\ finals' = finals + 1
            /\ step' = "wav"
    /\ UNCHANGED <<saving, format, active, sound, lastStart, lastDuration,
                   session, ended, diskVars, behind>>

WithFile(id, content) ==
    [i \in DOMAIN wavs \union {id} |-> IF i = id THEN content ELSE wavs[i]]

\* The record names the wav only if it was written.
RecordOf(audio) == [id |-> final[1], of |-> final[2], start |-> lastStart,
                  duration |-> lastDuration, audio |-> audio]
Push(record) == session' = Append(session, record)

NamesItAnyway(audio) ==
    \/ wavs' = WithFile(final[1], audio) /\ Push(RecordOf(audio))
    \/ /\ wavs' \in {wavs, WithFile(final[1], <<>>)}
       /\ Push(RecordOf(audio))
WriteWav(audio) ==
    \/ wavs' = WithFile(final[1], audio) /\ Push(RecordOf(audio))
    \/ /\ wavs' \in {wavs, WithFile(final[1], <<>>)}
       /\ Push(RecordOf(<<>>))

Copied == UNCHANGED sound
Taken == sound' = <<>>

\* save_wav_file on a thread of its own, awaited; then the record.
SaveWav ==
    /\ step = "wav" /\ step' = "file"
    /\ IF saving = "audio" /\ sound # <<>> THEN WriteWav(sound) /\ Taken
       ELSE Push(RecordOf(<<>>)) /\ UNCHANGED <<wavs, sound>>
    /\ UNCHANGED <<sourceVars, saving, format, active, lastStart,
                   lastDuration, ended, final, files, manifest, days, finals,
                   behind>>

GivesUp == step' = "select" /\ behind' = "yes" /\ final' = NoFinal

\* A failed file is forgotten in memory too.
DropsFailed ==
    \/ /\ files' = files \union {<<final[1], session[Len(session)]>>}
       /\ step' = "manifest" /\ UNCHANGED <<final, behind, session>>
    \/ GivesUp /\ UNCHANGED files /\ session' = Front(session)
\* save_utterance: a file for each id, or a line of the one csv file.
SaveUtterance ==
    \/ /\ files' = (IF format = "csv" THEN files
                    ELSE {f \in files : f[1] # final[1]})
                   \union {<<final[1], session[Len(session)]>>}
       /\ step' = "manifest" /\ UNCHANGED <<final, behind, session>>
    \/ GivesUp /\ UNCHANGED <<files, session>>

SaveFile ==
    /\ step = "file" /\ SaveUtterance
    /\ UNCHANGED <<sourceVars, saving, format, active, sound, lastStart,
                   lastDuration, ended, wavs, manifest, days, finals>>

\* update_session_manifest
SaveManifest ==
    /\ step = "manifest"
    /\ \/ /\ manifest' = Snapshot /\ behind' = "no"
          /\ step' = "select" /\ final' = NoFinal
       \/ GivesUp /\ manifest' \in {manifest, TornManifest}
    /\ UNCHANGED <<sourceVars, saving, format, active, sound, lastStart,
                   lastDuration, session, ended, wavs, files, days, finals>>

\* No branch is left: finalize()
AudioIsOver == \/ step = "withoutAudio"
               \/ "audio" \notin open /\ inbox["audio"] = <<>>
ChannelsAreOver ==
    AudioIsOver /\ \A c \in {"vad", "text"} : c \notin open /\ inbox[c] = <<>>

CloseSession ==
    /\ Selecting /\ ChannelsAreOver
    /\ IF saving = "nothing" THEN UNCHANGED <<ended, manifest, behind>>
       ELSE /\ ended' = "yes"
            /\ \/ /\ manifest' = [Snapshot EXCEPT !.ended = "yes"]
                  /\ behind' = "no"
               \/ /\ manifest' \in {manifest, TornManifest}
                  /\ behind' = "yes"
    /\ step' = "done"
    /\ UNCHANGED <<sourceVars, saving, format, active, sound, lastStart,
                   lastDuration, session, final, wavs, files, days, finals>>

PersistenceNext ==
    \/ AirFrame \/ SayBoundary \/ TellFinal \/ CloseChannel
    \/ NewWriter \/ CleanUp \/ TakeAudio \/ AudioLagged \/ TakeVad
    \/ TakeFinal \/ SaveWav \/ SaveFile \/ SaveManifest \/ CloseSession

PersistenceSpec == PersistenceInit /\ [][PersistenceNext]_persistenceVars

-----------------------------------------------------------------------------
(* Correctness                                                             *)

\* Whenever the last transcript was saved to the end, the manifest on the
\* disk lists every transcript taken, those whose own file could not be
\* written included (handle_transcription pushes the record first).
ManifestCatchesUp ==
    Selecting /\ finals > 0 /\ behind = "no" =>
        /\ manifest.whole = "yes"
        /\ manifest.records = session /\ Len(session) = finals

WavsAreApart ==
    /\ \A i \in DOMAIN wavs : \A k \in 1 .. Len(wavs[i]) - 1 :
         /\ wavs[i][k][2] = wavs[i][k + 1][2]
         /\ wavs[i][k][1] < wavs[i][k + 1][1]
    /\ \A i, j \in DOMAIN wavs :
         i # j => ToSet(wavs[i]) \intersect ToSet(wavs[j]) = {}

PathsLeadToTheAudio ==
    \A k \in 1 .. Len(session) :
        session[k].audio # <<>> =>
            \/ /\ session[k].id \in DOMAIN wavs
               /\ wavs[session[k].id] = session[k].audio
            \/ \E j \in k + 1 .. Len(session) : session[j].id = session[k].id

\* The samples of a wav were all taken between one start of speech and the
\* next, in the order they were recorded, and no sample is in two wavs,
\* however late the transcripts and whichever writes fail (handle_vad_event
\* clears the audio, handle_transcription takes it away).  A record that
\* names a wav finds its own samples there, unless a later transcript had
\* the same utterance id and its wav replaced them.
RecordingsAreRight == WavsAreApart /\ PathsLeadToTheAudio
=============================================================================
