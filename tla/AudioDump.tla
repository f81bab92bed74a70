----------------------------- MODULE AudioDump -----------------------------
(***************************************************************************)
(* The recording a dashboard makes of what the pipeline hears: the task    *)
(* that crates/app/src/bin/tui_dashboard.rs spawns after a start.  It      *)
(* reads the broadcast of frames, which forgets the oldest ones when the   *)
(* task is behind, and writes them to one file through a BufWriter, its    *)
(* own or that of hound's WavWriter.  Frames are numbered from the         *)
(* subscription on.                                                        *)
(***************************************************************************)
EXTENDS Integers, Sequences, SequencesExt

CONSTANTS
    MaxRecorded,    \* bound: frames after the subscription
    RecordCap,      \* the broadcast channel of frames
    BufferCap       \* frames a BufWriter holds

ASSUME AudioDumpAssumption ==
    MaxRecorded \in Nat /\ {RecordCap, BufferCap} \subseteq Nat \ {0}

VARIABLES
    dumpFormat,     \* DumpFormat
    dumpStep,       \* where the task is
    onAir,          \* "yes" while somebody may send frames
    sent,           \* frames sent since the subscription
    waiting,        \* those the task has not received or been told it missed
    buffered,       \* those the writer has taken and not written
    recording,      \* the file
    reported,       \* frames that a message calls dropped
    refusals,       \* frames of which some sample could not be written
    lost,           \* frames taken that never reach the file
    ending,         \* why the task ended
    admitted        \* "yes" once a message has said that the end failed

airVars == <<dumpFormat, onAir, sent>>
writtenVars == <<buffered, recording, refusals, lost>>
dumpVars ==
    <<airVars, writtenVars, dumpStep, waiting, reported, ending, admitted>>

DumpInit ==
    /\ dumpFormat \in {"pcm", "wav"} /\ dumpStep = "off" /\ onAir = "yes"
    /\ sent = 0 /\ waiting = <<>> /\ buffered = <<>> /\ recording = <<>>
    /\ reported = 0 /\ refusals = 0 /\ lost = 0
    /\ ending = "none" /\ admitted = "no"

\* The subscription precedes the task; COLDVOX_DISABLE_AUDIO_DUMP means
\* there is neither.
StartDump ==
    /\ dumpStep = "off" /\ dumpStep' = "opening"
    /\ UNCHANGED <<airVars, writtenVars, waiting, reported, ending, admitted>>

SendFrame ==
    /\ dumpStep # "off" /\ onAir = "yes" /\ sent < MaxRecorded
    /\ sent' = sent + 1
    /\ waiting' = IF dumpStep = "ended" THEN waiting
                  ELSE Append(waiting, sent + 1)
    /\ UNCHANGED <<dumpFormat, onAir, writtenVars, dumpStep, reported, ending,
                   admitted>>

\* A shutdown ends the chunker and drops the AppHandle, the two senders.
EndAir ==
    /\ onAir = "yes" /\ onAir' = "no"
    /\ UNCHANGED <<dumpFormat, sent, writtenVars, dumpStep, waiting, reported,
                   ending, admitted>>

EndDump(why) == dumpStep' = "ended" /\ ending' = why

RecorderIsBehind == Len(waiting) > RecordCap
Missed == Len(waiting) - RecordCap
AirIsOver == waiting = <<>> /\ onAir = "no"

\* A raw file is opened at once; a WAV's header needs the rate of a frame.
Open ==
    /\ dumpStep = "opening"
    /\ \/ EndDump("open")
       \/ /\ dumpStep' = IF dumpFormat = "pcm" THEN "recording" ELSE "first"
          /\ UNCHANGED ending
    /\ UNCHANGED <<airVars, writtenVars, waiting, reported, admitted>>

-----------------------------------------------------------------------------
(* The writer                                                              *)

\* n frames of the buffer get into the file.
Written(n) ==
    /\ recording' = recording \o SubSeq(buffered, 1, n)
    /\ buffered' = SubSeq(buffered, n + 1, Len(buffered))

\* A frame that finds room is taken ...
Accept(frame) ==
    /\ Len(buffered) < BufferCap
    /\ buffered' = Append(buffered, frame)
    /\ UNCHANGED <<recording, refusals>>

\* ... and one that does not has the buffer written first.
WriteThenAccept(frame) ==
    /\ Len(buffered) = BufferCap
    /\ recording' = recording \o buffered /\ buffered' = <<frame>>
    /\ UNCHANGED refusals

\* An error leaves in the buffer what has not been written.
Refuse ==
    /\ Len(buffered) = BufferCap /\ refusals' = refusals + 1
    /\ \E n \in 0 .. Len(buffered) - 1 : Written(n)

\* The last flush, that of the writer's Drop included, has an error or not.
LastFlush ==
    /\ \E n \in 0 .. Len(buffered) :
         /\ recording' = recording \o SubSeq(buffered, 1, n)
         /\ lost' = Len(buffered) - n
    /\ buffered' = <<>> /\ UNCHANGED refusals

-----------------------------------------------------------------------------
(* The task                                                                *)

\* Any error of this receive ends the task, a lag too.
FirstFrame ==
    /\ dumpStep = "first"
    /\ IF RecorderIsBehind \/ AirIsOver
       THEN /\ EndDump(IF AirIsOver THEN "silence" ELSE "lag")
            /\ UNCHANGED <<waiting, buffered>>
       ELSE /\ waiting # <<>> /\ waiting' = Tail(waiting)
            /\ \/ EndDump("open") /\ UNCHANGED buffered
               \/ /\ dumpStep' = "recording" /\ UNCHANGED ending
                  /\ buffered' = <<Head(waiting)>>
    /\ UNCHANGED <<airVars, recording, refusals, lost, reported, admitted>>

Receive ==
    /\ dumpStep = "recording" /\ ~RecorderIsBehind
    /\ waiting # <<>> /\ waiting' = Tail(waiting)

\* write_all fails: the loop ends.
WritePcmFrame ==
    /\ dumpFormat = "pcm" /\ Receive
    /\ \/ /\ Accept(Head(waiting)) \/ WriteThenAccept(Head(waiting))
          /\ UNCHANGED <<dumpStep, ending>>
       \/ Refuse /\ dumpStep' = "flushing" /\ ending' = "write"
    /\ UNCHANGED <<airVars, lost, reported, admitted>>

\* A sample cannot be written: break leaves the loop over the samples only.
WriteWavFrame ==
    /\ dumpFormat = "wav" /\ Receive
    /\ \/ Accept(Head(waiting)) \/ WriteThenAccept(Head(waiting))
       \/ Refuse
    /\ UNCHANGED <<airVars, lost, dumpStep, reported, ending, admitted>>

\* Mutant: while let Ok, as the forwarder of VAD events has it.
EndsBehind ==
    /\ dumpStep = "recording" /\ RecorderIsBehind
    /\ dumpStep' = "flushing" /\ ending' = "lag"
    /\ UNCHANGED <<airVars, writtenVars, waiting, reported, admitted>>

\* Lagged(n): the receiver goes on with the oldest frame there is.
SkipMissed ==
    /\ dumpStep = "recording" /\ RecorderIsBehind
    /\ reported' = reported + Missed
    /\ waiting' = SubSeq(waiting, Missed + 1, Len(waiting))
    /\ UNCHANGED <<airVars, writtenVars, dumpStep, ending, admitted>>

AirEnds ==
    /\ dumpStep = "recording" /\ AirIsOver
    /\ dumpStep' = "flushing" /\ ending' = "closed"
    /\ UNCHANGED <<airVars, writtenVars, waiting, reported, admitted>>

\* The error of flush() is dropped, for either format; that of finalize(),
\* which flushes once more and completes the WAV's header, is told.
Finish ==
    /\ dumpStep = "flushing" /\ dumpStep' = "ended"
    /\ LastFlush
    /\ admitted' \in IF dumpFormat = "pcm" THEN {"no"}
                 ELSE IF lost' > 0 THEN {"yes"} ELSE {"yes", "no"}
    /\ UNCHANGED <<airVars, waiting, reported, ending>>

\* 'q' ends the process, which drops the task at an await and its writer with
\* it: what waits is not recorded, and nobody is left to be told.
AtAnAwait == \/ dumpStep \in {"opening", "first", "recording"}
             \/ dumpStep = "flushing" /\ ending = "write"
QuitDump ==
    /\ AtAnAwait
    /\ EndDump("quit") /\ LastFlush
    /\ UNCHANGED <<airVars, waiting, reported, admitted>>

DumpNext ==
    \/ StartDump \/ SendFrame \/ EndAir \/ Open \/ FirstFrame
    \/ WritePcmFrame \/ WriteWavFrame \/ SkipMissed \/ AirEnds \/ Finish
    \/ QuitDump

DumpSpec == DumpInit /\ [][DumpNext]_dumpVars

-----------------------------------------------------------------------------
(* Correctness                                                             *)

\* A recording has what was said, in order and once.  Until the audio ends
\* every frame waits, is in the file or on its way there, was reported as
\* dropped or refused with an error; what has been taken is lost only by a
\* last flush that fails.  Nothing but the end of the audio, an error of a
\* raw file and the end of the process ends a recording that has begun.
RecordingIsAccountedFor ==
    /\ \A i \in 1 .. Len(recording) - 1 : recording[i] < recording[i + 1]
    /\ dumpStep = "recording" \/ ending = "closed" =>
         sent = Len(recording) + Len(buffered) + Len(waiting)
                + reported + refusals + lost
    /\ dumpStep # "ended" => lost = 0
    /\ lost > 0 /\ ending = "closed" /\ dumpFormat = "wav" => admitted = "yes"
    /\ dumpStep = "ended" /\ recording # <<>> =>
         \/ ending \in {"closed", "quit"}
         \/ ending = "write" /\ dumpFormat = "pcm" /\ refusals = 1

-----------------------------------------------------------------------------
(* What one might expect, and the code does not do                         *)

\* What a recording that has come to its end lacks has been reported: a raw
\* file's last flush may fail, and the message is "Audio dump stopped".
LossIsTold ==
    dumpStep = "ended" /\ ending = "closed" /\ lost > 0 => admitted = "yes"
=============================================================================
