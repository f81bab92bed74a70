---------------------------- MODULE SamplePath -----------------------------
(***************************************************************************)
(* The way of a sample from the cpal callback to a frame of 16 kHz mono:   *)
(* the ring of crates/coldvox-audio/src/ring_buffer.rs, FrameReader        *)
(* (frame_reader.rs), AudioChunker (chunker.rs), StreamResampler           *)
(* (resampler.rs) and the device configuration that capture.rs broadcasts. *)
(*                                                                         *)
(* A device is known by its configuration: how many channels it            *)
(* interleaves and whether its rate is not 16 kHz.  A device sample is     *)
(* <<instant, channel, device>>; a mono sample is the pair of the first    *)
(* and the last device sample it was made from.  Values are left out.      *)
(***************************************************************************)
EXTENDS Integers, Sequences

CONSTANTS
    Inputs,      \* the configurations the capture may switch between
    Channels,    \* the number of channels of each
    Resampled,   \* those whose rate is not the chunker's
    RingSize,    \* capture_buffer_samples
    ReadMax,     \* what read_frame asks for at once
    ChunkSize,   \* mono samples the resampler takes at a time; one comes out
    FrameSize,   \* frame_size_samples
    Block,       \* instants in one callback
    MaxInstants, \* bound: instants captured
    MaxChanges   \* bound: device changes

ASSUME SamplesAssumption ==
    /\ Channels \in [Inputs -> Nat \ {0}]
    /\ Resampled \subseteq Inputs
    /\ RingSize \in Nat /\ MaxInstants \in Nat /\ MaxChanges \in Nat
    /\ ReadMax \in Nat \ {0} /\ ChunkSize \in Nat \ {0}
    /\ FrameSize \in Nat \ {0} /\ Block \in Nat \ {0}

VARIABLES
    device,     \* the configuration of the stream that plays
    instant,    \* instants captured so far
    changes,    \* device changes so far
    ring,       \* the device samples in the ring buffer
    announced,  \* configurations broadcast and not yet applied
    listening,  \* "yes" once the chunker's receiver exists
    reader,     \* the configuration FrameReader believes in
    chunker,    \* "config" or "read": where the worker's loop is
    input,      \* the configuration resampler and mix-down are set up for
    residue,    \* mono samples in the resampler's input_buffer
    buffer,     \* mono samples short of a frame
    last,       \* history: the last mono sample sent in a frame
    settled,    \* history: "no" once the ring gets samples of a device that is
                \* not the reader's, or a read ends within an instant, until
                \* the ring is empty
    missed      \* history: "yes" if the last change went unheard

deviceVars == <<device, instant, changes, missed>>
workerVars == <<input, residue, buffer, last>>
sampleVars == <<deviceVars, ring, announced, listening, reader, chunker,
                workerVars, settled>>

Unset == "unset"

SamplesInit ==
    /\ device \in Inputs /\ reader = device
    /\ instant = 0 /\ changes = 0 /\ missed = "no"
    /\ ring = <<>> /\ announced = <<>> /\ listening = "no"
    /\ chunker = "config" /\ input = Unset
    /\ residue = <<>> /\ buffer = <<>> /\ last = <<>>
    /\ settled = "yes"

-----------------------------------------------------------------------------
(* The capture side                                                        *)

\* What a callback hands over: Block instants, channels interleaved.
Interleaved ==
    [k \in 1 .. Block * Channels[device] |->
        <<instant + 1 + (k - 1) \div Channels[device],
          1 + ((k - 1) % Channels[device]), device>>]

\* AudioProducer::write: all of it or nothing.
PartlyWritten(samples) ==
    IF Len(ring) + Len(samples) <= RingSize THEN samples
    ELSE SubSeq(samples, 1, RingSize - Len(ring))
Written(samples) ==
    IF Len(ring) + Len(samples) <= RingSize THEN samples ELSE <<>>

Capture ==
    /\ instant + Block <= MaxInstants
    /\ instant' = instant + Block
    /\ ring' = ring \o Written(Interleaved)
    /\ settled' = IF reader = device THEN settled ELSE "no"
    /\ UNCHANGED <<device, changes, missed, announced, listening, reader,
                   chunker, workerVars>>

\* AudioCapture::start on another device: the configuration is broadcast
\* before the stream plays; the old one no longer does.
ChangeDevice ==
    /\ changes < MaxChanges
    /\ changes' = changes + 1
    /\ device' \in Inputs \ {device}
    /\ announced' = IF listening = "yes" THEN Append(announced, device')
                                         ELSE announced
    /\ missed' = IF listening = "yes" THEN "no" ELSE "yes"
    /\ UNCHANGED <<instant, ring, listening, reader, chunker, workerVars,
                   settled>>

\* runtime::start resubscribes some time after spawn() has returned the
\* first configuration; what was broadcast before is not received.
Subscribe ==
    /\ listening = "no"
    /\ listening' = "yes"
    /\ UNCHANGED <<deviceVars, ring, announced, reader, chunker, workerVars,
                   settled>>

-----------------------------------------------------------------------------
(* The chunker's loop                                                      *)

Oldest(configs) == configs[1]
Newest(configs) == configs[Len(configs)]

ApplyConfigs ==
    /\ listening = "yes" /\ chunker = "config"
    /\ chunker' = "read"
    /\ announced' = <<>>
    /\ reader' = IF announced = <<>> THEN reader ELSE Newest(announced)
    /\ settled' = IF reader' = reader \/ ring = <<>> THEN settled ELSE "no"
    /\ UNCHANGED <<deviceVars, ring, listening, workerVars>>

\* AudioConsumer::read takes what there is, up to ReadMax.
Batch == SubSeq(ring, 1, IF Len(ring) < ReadMax THEN Len(ring) ELSE ReadMax)
CommittedShort == SubSeq(ring, Len(Batch), Len(ring))
Unread == SubSeq(ring, Len(Batch) + 1, Len(ring))

\* process_frame: chunks_exact(channels), a remainder is left out.
MixDown(samples, channels) ==
    [j \in 1 .. Len(samples) \div channels |->
        <<samples[(j - 1) * channels + 1], samples[j * channels]>>]

\* reconfigure_for_device replaces the resampler: what it held is gone.
Held == IF input = reader THEN residue ELSE <<>>

\* StreamResampler::process on what it holds and the new samples.
Resample(samples) ==
    [j \in 1 .. Len(samples) \div ChunkSize |->
        <<samples[(j - 1) * ChunkSize + 1][1], samples[j * ChunkSize][2]>>]
Incomplete(samples) ==
    SubSeq(samples, 1 + ChunkSize * (Len(samples) \div ChunkSize),
           Len(samples))

\* flush_ready_frames leaves less than a frame.
Ready(samples) == FrameSize * (Len(samples) \div FrameSize)

Idle ==
    /\ chunker = "read" /\ ring = <<>>
    /\ chunker' = "config"
    /\ UNCHANGED <<deviceVars, ring, announced, listening, reader,
                   workerVars, settled>>

ReadFrame ==
    LET mono == MixDown(Batch, Channels[reader])
        fed == Held \o mono
        fresh == IF reader \in Resampled THEN Resample(fed) ELSE mono
        whole == buffer \o fresh
    IN  /\ chunker = "read" /\ ring # <<>>
        /\ chunker' = "config"
        /\ ring' = Unread
        /\ input' = reader
        /\ residue' = IF reader \in Resampled THEN Incomplete(fed) ELSE <<>>
        /\ buffer' = SubSeq(whole, Ready(whole) + 1, Len(whole))
        /\ last' = IF Ready(whole) = 0 THEN last ELSE whole[Ready(whole)]
        /\ settled' = IF Unread = <<>> THEN "yes"
                      ELSE IF Len(Batch) % Channels[reader] = 0 THEN settled
                      ELSE "no"
        /\ UNCHANGED <<deviceVars, announced, listening, reader>>

SamplesNext ==
    \/ Capture \/ ChangeDevice \/ Subscribe
    \/ ApplyConfigs \/ Idle \/ ReadFrame

\* A tokio task that can run is polled; start() gets to its end.
SamplesSpec ==
    /\ SamplesInit /\ [][SamplesNext]_sampleVars
    /\ WF_sampleVars(Subscribe) /\ WF_sampleVars(ApplyConfigs)
    /\ WF_sampleVars(Idle) /\ WF_sampleVars(ReadFrame)
-----------------------------------------------------------------------------
(* Correctness                                                             *)

\* Position in the device's stream.
Before(a, b) == a[1] < b[1] \/ (a[1] = b[1] /\ a[2] < b[2])

\* Everything on its way, oldest first.
InFlight == buffer \o residue \o [k \in DOMAIN ring |-> <<ring[k], ring[k]>>]

SamplesInOrder ==
    /\ \A i, j \in DOMAIN InFlight :
           i < j => Before(InFlight[i][2], InFlight[j][1])
    /\ last # <<>> =>
           \A i \in DOMAIN InFlight : Before(last[2], InFlight[i][1])

WholeInstants ==
    settled = "yes" =>
        /\ Len(ring) % Channels[reader] = 0
        /\ \A k \in DOMAIN ring :
               /\ ring[k][2] = 1 + ((k - 1) % Channels[reader])
               /\ ring[k][3] = reader
        /\ \A m \in 1 .. Len(MixDown(ring, Channels[reader])) :
               LET mono == MixDown(ring, Channels[reader])[m]
               IN  mono[1][1] = mono[2][1]

\* No sample is used twice and none overtakes another between the callback
\* and the frames, whatever is dropped by a full ring, left over by a
\* mix-down or lost with a replaced resampler, and however often the device
\* changes (ring_buffer.rs, chunker.rs).  What the ring holds begins with the
\* first channel, so that a mono sample is made of all the channels of one
\* instant, with two exceptions that last until the ring is empty: after a
\* device has changed, while the reader believes in another than the one the
\* samples are of, and after a read of ReadMax samples that is not a whole
\* number of instants, as 4096 is not with three channels or six: its
\* remainder is dropped, and what follows is mixed across instants (run,
\* process_frame).  A full ring does not shift the channels, because write()
\* takes whole callbacks only.
SamplesAreRead == SamplesInOrder /\ WholeInstants

\* The reader ends up with the configuration of the stream that plays, with
\* one exception: a change between the return of spawn() and resubscribe()
\* is never heard of (runtime.rs, start; chunker.rs, run).
ReaderCatchesUp == <>[](reader = device \/ missed = "yes")

-----------------------------------------------------------------------------
(* What a comment says, and the code does not do                           *)

\* "Convert multi-channel to mono by averaging" (process_frame): with one
\* device from the start, what is averaged are the channels of an instant.
ChannelsStayAligned ==
    changes = 0 =>
        \A k \in DOMAIN ring : ring[k][2] = 1 + ((k - 1) % Channels[device])

=============================================================================
