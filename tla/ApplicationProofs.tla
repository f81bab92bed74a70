------------------------- MODULE ApplicationProofs -------------------------
(***************************************************************************)
(* The parts of the application that TLC explores together in              *)
(* MCApplication: utterances handed to an engine, the writer of            *)
(* transcripts, the program from its start to its end, what a dashboard    *)
(* shows of speech and records, and the settings from one start to the     *)
(* next.  They share no variable, so each has an inductive invariant of    *)
(* its own.                                                                *)
(***************************************************************************)
EXTENDS UtteranceProcessor, Persistence, Lifecycle, Dashboard, AudioDump,
        Configuration, QueueTheorems, TLAPS

-----------------------------------------------------------------------------
(***************************************************************************)
(* UtteranceProcessor.  The numbers of the frames say where each of them   *)
(* is: those the broadcast holds are the last ones recorded, those of the  *)
(* buffer came before, and what lies between has been dropped.  While an   *)
(* utterance is handed over, what the engine holds and what is left are    *)
(* the buffer, unless the engine has taken all the audio it takes.         *)
(***************************************************************************)
UtteranceTypeOK ==
    /\ engine \in AllEngines /\ recorded \in Nat
    /\ airing \in Seq(Int) /\ buffer \in Seq(Int)
    /\ left \in Seq(Int) /\ held \in Seq(Int)

Feeding == pc = "feed" \/ (pc = "send" /\ after = "feed")

Begins(s, t) == \E rest \in Seq(Int) : t = s \o rest

Fed ==
    /\ engine = "http" \/ (engine = "parakeet" /\ model # NoModel) =>
         held \o left = buffer
    /\ engine = "moonshine" /\ model # NoModel =>
         \/ held \o left = buffer
         \/ Len(held) = MaxAudio /\ Begins(held, buffer)
    /\ engine \in {"mock", "noop"} \/ (engine \in Local /\ model = NoModel) =>
         held = <<>>

HandedOver ==
    /\ Feeding => state = "SpeechActive" /\ Fed
    /\ ~Feeding /\ state = "SpeechActive" => held = <<>>

LEMMA SelectableType == Selectable \subseteq AllEngines
<1>1. ASSUME NEW p \in {<<>>} \union {<<e>> : e \in AllEngines},
             NEW m \in MeetRequirements
      PROVE  BestAvailable(p, m) \subseteq AllEngines
  <2> DEFINE named == {k \in 1 .. Len(p) : p[k] \in Engines}
  <2>1. m \subseteq AllEngines
    BY UtteranceAssumption DEF UtteranceAssumption, MeetRequirements
  <2>2. CASE named = {}
    BY <2>1, <2>2 DEF BestAvailable
  <2>3. CASE named # {}
    <3>1. PICK e \in AllEngines : p = <<e>>
      BY <2>3
    <3>2. named = {1}
      BY <2>3, <3>1
    <3>3. (CHOOSE k \in {1} : \A j \in {1} : k <= j) = 1
      OBVIOUS
    <3>4. BestAvailable(p, m) = {p[1]}
      BY <3>2, <3>3 DEF BestAvailable
    <3>5. QED BY <3>1, <3>4
  <2>4. QED BY <2>2, <2>3
<1>2. QED BY <1>1 DEF Selectable

LEMMA RegroupedFrames ==
  \A r, s, t \in Seq(Int) : (r \o s) \o t = r \o (s \o t)
<1>1. PICK Frames : Frames = Int
  OBVIOUS
<1>2. \A r, s, t \in Seq(Frames) : (r \o s) \o t = r \o (s \o t)
  BY Regrouped
<1>3. QED BY <1>1, <1>2, SMTT(30)

LEMMA FramesCutInTwo ==
  \A q \in Seq(Int) : \A n \in 0 .. Len(q) :
    /\ SubSeq(q, 1, n) \in Seq(Int) /\ Len(SubSeq(q, 1, n)) = n
    /\ SubSeq(q, n + 1, Len(q)) \in Seq(Int)
    /\ Len(SubSeq(q, n + 1, Len(q))) = Len(q) - n
    /\ q = SubSeq(q, 1, n) \o SubSeq(q, n + 1, Len(q))
<1>1. PICK Frames : Frames = Int
  OBVIOUS
<1>2. ASSUME NEW q \in Seq(Frames), NEW n \in 0 .. Len(q)
      PROVE  /\ SubSeq(q, 1, n) \in Seq(Frames) /\ Len(SubSeq(q, 1, n)) = n
             /\ SubSeq(q, n + 1, Len(q)) \in Seq(Frames)
             /\ Len(SubSeq(q, n + 1, Len(q))) = Len(q) - n
             /\ q = SubSeq(q, 1, n) \o SubSeq(q, n + 1, Len(q))
  BY CutInTwo
<1>3. QED BY <1>1, <1>2, Zenon

LEMMA FramesJoined ==
  \A s, t \in Seq(Int), e \in Int : s \o Append(t, e) = Append(s \o t, e)
<1>1. PICK Frames : Frames = Int
  OBVIOUS
<1>2. \A s, t \in Seq(Frames), e \in Frames :
        s \o Append(t, e) = Append(s \o t, e)
  BY JoinedBehind
<1>3. QED BY <1>1, <1>2, Zenon

LEMMA FramesConcat ==
  \A s, t \in Seq(Int) :
    /\ s \o t \in Seq(Int) /\ Len(s \o t) = Len(s) + Len(t)
    /\ Len(s) \in Nat /\ Len(t) \in Nat
<1>1. PICK Frames : Frames = Int
  OBVIOUS
<1>2. ASSUME NEW s \in Seq(Frames), NEW t \in Seq(Frames)
      PROVE  /\ s \o t \in Seq(Frames) /\ Len(s \o t) = Len(s) + Len(t)
             /\ Len(s) \in Nat /\ Len(t) \in Nat
  BY ConcatParts
<1>3. QED BY <1>1, <1>2, Zenon

\* For the provers, which do not match s \o t within larger terms.
Joined(s, t) == s \o t

LEMMA JoinedRegroup ==
  \A r, s, t \in Seq(Int) : Joined(Joined(r, s), t) = Joined(r, Joined(s, t))
  BY RegroupedFrames, Zenon DEF Joined

\* What an engine holds of a chunk it is given.
LEMMA ChunkTaken ==
  ASSUME UtteranceTypeOK, Fed, NEW chunk \in Seq(Int), chunk # <<>>,
         NEW rest \in Seq(Int), left = chunk \o rest,
         held' = ProcessAudio(chunk).held, left' = rest,
         UNCHANGED <<engine, model, buffer>>
  PROVE  held' \in Seq(Int) /\ Fed'
<1>0. \A r, s, t \in Seq(Int) : (r \o s) \o t = r \o (s \o t)
  BY RegroupedFrames
<1>1. /\ engine \in AllEngines /\ buffer \in Seq(Int) /\ held \in Seq(Int)
      /\ left \in Seq(Int)
  BY DEF UtteranceTypeOK
<1> DEFINE audio == held \o chunk
<1>2. /\ audio \in Seq(Int) /\ Len(audio) = Len(held) + Len(chunk)
      /\ Len(chunk) \in Nat \ {0} /\ Len(held) \in Nat
  BY <1>1, ConcatParts, EmptySeq
<1>3. audio \o rest = held \o left
  <2>1. Joined(Joined(held, chunk), rest) = Joined(held, Joined(chunk, rest))
    BY <1>1, JoinedRegroup
  <2>2. QED BY <2>1, Zenon DEF Joined
<1> HIDE DEF audio
<1>4. MaxAudio \in Nat \ {0}
  BY UtteranceAssumption DEF UtteranceAssumption
<1>5. CASE engine = "http"
  <2>1. held' = audio
    BY <1>5 DEF ProcessAudio, HttpTakes, Buffered, Outcome, audio
  <2>2. held \o left = buffer
    BY <1>5 DEF Fed
  <2>3. held' \o left' = buffer'
    BY <1>3, <2>1, <2>2
  <2>4. QED BY <1>2, <1>5, <2>1, <2>3 DEF Fed, Local
<1>6. CASE engine = "parakeet" /\ model # NoModel
  <2>1. held' = audio
    BY <1>6 DEF ProcessAudio, ParakeetTakes, Buffered, Outcome, audio
  <2>2. held \o left = buffer
    BY <1>6 DEF Fed
  <2>3. held' \o left' = buffer'
    BY <1>3, <2>1, <2>2
  <2>4. QED BY <1>2, <1>6, <2>1, <2>3 DEF Fed, Local
<1>7. CASE engine = "moonshine" /\ model # NoModel
  <2>1. held' = IF Len(audio) > MaxAudio THEN SubSeq(audio, 1, MaxAudio)
                ELSE audio
    BY <1>7 DEF ProcessAudio, MoonshineTakes, Buffered, Outcome, audio
  <2>2. CASE held \o left = buffer /\ ~(Len(audio) > MaxAudio)
    <3>1. held' = audio /\ held' \o left' = buffer'
      BY <1>3, <2>1, <2>2
    <3>2. QED BY <1>2, <1>7, <3>1 DEF Fed, Local
  <2>3. CASE held \o left = buffer /\ Len(audio) > MaxAudio
    <3>1. MaxAudio \in 0 .. Len(audio)
      BY <1>2, <1>4, <2>3
    <3>2. PICK h \in Seq(Int), t \in Seq(Int) :
            h = SubSeq(audio, 1, MaxAudio) /\ Len(h) = MaxAudio
              /\ audio = h \o t
      <4>1. PICK m \in 0 .. Len(audio) : m = MaxAudio
        BY <3>1
      <4>2. /\ SubSeq(audio, 1, m) \in Seq(Int) /\ Len(SubSeq(audio, 1, m)) = m
            /\ SubSeq(audio, m + 1, Len(audio)) \in Seq(Int)
            /\ audio = SubSeq(audio, 1, m) \o SubSeq(audio, m + 1, Len(audio))
        BY <1>2, FramesCutInTwo
      <4>3. QED BY <4>1, <4>2
    <3>3. held' = h
      BY <2>1, <2>3, <3>2
    <3>4. t \o rest \in Seq(Int) /\ (h \o t) \o rest = h \o (t \o rest)
      BY <1>0, ConcatParts
    <3>5. buffer = h \o (t \o rest)
      BY <1>3, <2>3, <3>2, <3>4
    <3>6. Begins(held', buffer')
      BY <3>3, <3>4, <3>5 DEF Begins
    <3>7. QED BY <1>7, <3>2, <3>3, <3>6 DEF Fed, Local
  <2>4. CASE Len(held) = MaxAudio /\ Begins(held, buffer)
    <3>1. Len(audio) > MaxAudio
      BY <1>2, <1>4, <2>4
    <3>2. MaxAudio \in 1 .. Len(held) /\ 1 \in 1 .. Len(held)
      BY <1>4, <2>4
    <3>3. SubSeq(audio, 1, MaxAudio) = SubSeq(held, 1, MaxAudio)
      BY <1>1, <3>2, SubSeqOfConcat1 DEF audio
    <3>4. SubSeq(held, 1, Len(held)) = held
      BY <1>1, SubSeqFull
    <3>5. held' = held
      BY <2>1, <2>4, <3>1, <3>3, <3>4
    <3>6. QED BY <1>1, <1>7, <2>4, <3>5 DEF Fed, Local, Begins
  <2>5. QED BY <1>7, <2>2, <2>3, <2>4 DEF Fed
<1>8. CASE engine \in {"mock", "noop"} \/ (engine \in Local /\ model = NoModel)
  <2>1. held = <<>>
    BY <1>8 DEF Fed
  <2>2. held' = held
    BY <1>8
    DEF ProcessAudio, MockTakes, NoopAnswers, ParakeetTakes, MoonshineTakes,
        Unchanged, Outcome, Local
  <2>3. engine # "http"
    BY <1>8 DEF Local
  <2>4. QED BY <1>8, <1>1, <2>1, <2>2, <2>3 DEF Fed
<1>9. QED BY <1>1, <1>5, <1>6, <1>7, <1>8 DEF AllEngines, Local

LEMMA FinalizeKeeps ==
  ASSUME UtteranceTypeOK, NEW o \in Finalize
  PROVE  o.held \in Seq(Int)
<1>1. held \in Seq(Int) /\ engine \in AllEngines /\ <<>> \in Seq(Int)
  BY DEF UtteranceTypeOK
<1>2. o.held \in {held, <<>>}
  BY <1>1
  DEF Finalize, HttpFinalizes, ServiceAnswers, Transcribed, Unloaded,
      ParakeetFinalizes, MoonshineFinalizes, MockFinalizes, NoopAnswers,
      Unchanged, Outcome, AllEngines
<1>3. QED BY <1>1, <1>2

\* Where the frames are.
FramesPlaced ==
    /\ \A k \in 1 .. Len(airing) : airing[k] = recorded - Len(airing) + k
    /\ state # "SpeechActive" => buffer = <<>>
    /\ buffer # <<>> =>
         /\ buffer[Len(buffer)] <= recorded - Len(airing)
         /\ \A f \in buffer[Len(buffer)] + 1 .. recorded - Len(airing) :
              f \in dropped
    /\ GapsAreLags

LEMMA UtteranceTypeStep ==
  ASSUME UtteranceTypeOK, HandedOver, [UtteranceNext]_utteranceVars
  PROVE  UtteranceTypeOK' /\ HandedOver'
<1> USE DEF UtteranceTypeOK, worldVars, engineVars, loopVars
<1>0. /\ engine \in AllEngines /\ recorded \in Nat
      /\ airing \in Seq(Int) /\ buffer \in Seq(Int)
      /\ left \in Seq(Int) /\ held \in Seq(Int)
  OBVIOUS
<1>1. CASE RecordFrame
  <2>1. /\ recorded' = recorded + 1
        /\ UNCHANGED <<engineVars, loopVars, pc, after>>
    BY <1>1 DEF RecordFrame, processVars
  <2>2. airing' \in Seq(Int)
    <3>1. CASE Len(airing) = AudioCap
      <4>1. airing # <<>>
        BY <3>1, UtteranceAssumption DEF UtteranceAssumption
      <4>2. airing' = Append(Tail(airing), recorded + 1)
        BY <1>1, <3>1 DEF RecordFrame
      <4>3. QED BY <1>0, <4>1, <4>2, HeadTaken, LastAdded
    <3>2. CASE Len(airing) # AudioCap
      <4>1. airing' = Append(airing, recorded + 1)
        BY <1>1, <3>2 DEF RecordFrame
      <4>2. QED BY <1>0, <4>1, LastAdded
    <3>3. QED BY <3>1, <3>2
  <2>3. QED BY <1>0, <2>1, <2>2 DEF HandedOver, Feeding, Fed
<1>2. CASE VadSays \/ Closes \/ Consume \/ Lagged \/ Ends
  <2>1. UNCHANGED <<engineVars, loopVars, airing, recorded>>
    BY <1>2 DEF VadSays, Closes, Consume, Lagged, Ends, processVars
  <2>2. Feeding' <=> Feeding
    BY <1>2 DEF VadSays, Closes, Consume, Lagged, Ends, processVars, Feeding
  <2>3. QED BY <1>0, <2>1, <2>2 DEF HandedOver, Fed
<1>3. CASE Initialize
  BY <1>0, <1>3 DEF Initialize, HandedOver, Feeding
<1>4. CASE TakeEvent
  <2>1. pc \in {"select", "eventsOnly"} /\ ~Feeding
        /\ UNCHANGED <<recorded, airing, engine, model>>
    BY <1>4 DEF TakeEvent, Feeding
  <2>2. CASE SpeechStart
    BY <1>0, <2>1, <2>2
    DEF SpeechStart, Reset, ResetEngine, HandedOver, Feeding
  <2>3. CASE SpeechEnd /\ state = "SpeechActive"
    <3>1. held = <<>> /\ held' = held /\ left' = buffer /\ buffer' = buffer
          /\ state' = state /\ pc' = "feed"
      BY <2>1, <2>3 DEF SpeechEnd, HandedOver
    <3>2. <<>> \o buffer = buffer
      BY <1>0, ConcatEmptySeq
    <3>3. Fed'
      BY <3>1, <3>2 DEF Fed
    <3>4. QED BY <1>0, <2>1, <2>3, <3>1, <3>3 DEF HandedOver, Feeding
  <2>4. CASE SpeechEnd /\ state # "SpeechActive"
    BY <1>0, <2>1, <2>4 DEF SpeechEnd, HandedOver, Feeding
  <2>5. QED BY <1>4, <2>2, <2>3, <2>4 DEF TakeEvent
<1>5. CASE TakeFrame
  <2>1. Tail(airing) \in Seq(Int) /\ Append(buffer, Head(airing)) \in Seq(Int)
    BY <1>0, <1>5, HeadTaken, LastAdded DEF TakeFrame
  <2>2. /\ airing' = Tail(airing)
        /\ buffer' \in {buffer, Append(buffer, Head(airing))}
        /\ UNCHANGED <<recorded, engineVars, left, state, pc, after>>
        /\ pc = "select"
    BY <1>5 DEF TakeFrame, Heard
  <2>3. QED BY <1>0, <2>1, <2>2 DEF HandedOver, Feeding
<1>6. CASE FeedChunk
  <2>1. PICK n \in 1 .. Len(left) :
          /\ OnSpeechFrame(SubSeq(left, 1, n))
          /\ left' = SubSeq(left, n + 1, Len(left))
    <3>1. Len(left) \in Nat /\ Len(left) # 0 /\ ChunkSize \in Nat \ {0}
      BY <1>0, <1>6, EmptySeq, UtteranceAssumption
      DEF FeedChunk, UtteranceAssumption
    <3>2. (IF Len(left) < ChunkSize THEN Len(left) ELSE ChunkSize)
            \in 1 .. Len(left)
      BY <3>1
    <3>3. QED BY <1>6, <3>2 DEF FeedChunk
  <2>2. PICK chunk \in Seq(Int), rest \in Seq(Int) :
          /\ chunk = SubSeq(left, 1, n) /\ Len(chunk) = n
          /\ rest = SubSeq(left, n + 1, Len(left)) /\ left = chunk \o rest
    <3>1. n \in 0 .. Len(left)
      OBVIOUS
    <3>2. /\ SubSeq(left, 1, n) \in Seq(Int) /\ Len(SubSeq(left, 1, n)) = n
          /\ SubSeq(left, n + 1, Len(left)) \in Seq(Int)
          /\ left = SubSeq(left, 1, n) \o SubSeq(left, n + 1, Len(left))
      BY <1>0, <3>1, CutInTwo
    <3>3. QED BY <3>2
  <2>3. chunk # <<>>
    <3>1. Len(chunk) > 0
      BY <1>0, <2>2
    <3>2. Len(<<>>) = 0
      OBVIOUS
    <3>3. QED BY <3>1, <3>2
  <2>4. /\ held' = ProcessAudio(chunk).held /\ left' = rest
        /\ pc = "feed" /\ after' = "feed" /\ pc' \in {"feed", "send"}
        /\ UNCHANGED <<recorded, airing, engine, model, state, buffer>>
    BY <1>6, <2>1, <2>2 DEF FeedChunk, OnSpeechFrame, Answers
  <2>5. state = "SpeechActive" /\ Fed
    BY <2>4 DEF HandedOver, Feeding
  <2>6. held' \in Seq(Int) /\ Fed'
    BY <2>2, <2>3, <2>4, <2>5, ChunkTaken
  <2>7. QED BY <1>0, <2>2, <2>4, <2>5, <2>6 DEF HandedOver, Feeding
<1>7. CASE FinalizeEnd
  <2>1. /\ state' = "Idle" /\ buffer' = <<>> /\ after' = "select"
        /\ pc' \in {"select", "send"}
        /\ UNCHANGED <<recorded, airing, engine, model, left>>
    BY <1>7 DEF FinalizeEnd
  <2>2. PICK o \in Finalize : held' = o.held
    BY <1>7 DEF FinalizeEnd, OnSpeechEnd, Answers
  <2>3. held' \in Seq(Int)
    BY <2>2, FinalizeKeeps
  <2>4. QED BY <1>0, <2>1, <2>3 DEF HandedOver, Feeding
<1>8. CASE SendEvent
  BY <1>0, <1>8 DEF SendEvent, HandedOver, Feeding, Fed
<1>9. CASE UNCHANGED utteranceVars
  BY <1>0, <1>9 DEF utteranceVars, HandedOver, Feeding, Fed
<1>10. QED
  BY <1>1, <1>2, <1>3, <1>4, <1>5, <1>6, <1>7, <1>8, <1>9 DEF UtteranceNext

LEMMA FramesStep ==
  ASSUME UtteranceTypeOK, FramesPlaced, [UtteranceNext]_utteranceVars
  PROVE  FramesPlaced'
<1>0. /\ recorded \in Nat /\ airing \in Seq(Int) /\ buffer \in Seq(Int)
      /\ Len(airing) \in Nat /\ Len(buffer) \in Nat
  BY DEF UtteranceTypeOK
<1>1. CASE UNCHANGED <<recorded, airing, dropped, state, buffer>>
  BY <1>1 DEF FramesPlaced, GapsAreLags
<1>2. CASE /\ UNCHANGED <<recorded, airing, dropped>>
           /\ buffer' = <<>>
  BY <1>0, <1>2 DEF FramesPlaced, GapsAreLags
<1>3. CASE RecordFrame
  <2>0. recorded' = recorded + 1 /\ UNCHANGED <<state, buffer>>
    BY <1>3 DEF RecordFrame, processVars, loopVars
  <2>1. CASE Len(airing) = AudioCap
    <3>1. airing # <<>>
      BY <2>1, UtteranceAssumption DEF UtteranceAssumption
    <3>2. /\ airing' = Append(Tail(airing), recorded + 1)
          /\ dropped' = dropped \union {Head(airing)}
      BY <1>3, <2>1 DEF RecordFrame
    <3>3. /\ Tail(airing) \in Seq(Int) /\ Len(Tail(airing)) = Len(airing) - 1
          /\ Head(airing) = airing[1] /\ Len(airing) > 0
          /\ \A k \in 1 .. Len(Tail(airing)) : Tail(airing)[k] = airing[k + 1]
      BY <1>0, <3>1, HeadTaken, HeadTailProperties
    <3>4. /\ Len(airing') = Len(airing)
          /\ \A k \in 1 .. Len(airing) - 1 : airing'[k] = airing[k + 1]
          /\ airing'[Len(airing)] = recorded + 1
      BY <1>0, <3>2, <3>3, AppendProperties
    <3>5. ASSUME NEW k \in 1 .. Len(airing')
          PROVE  airing'[k] = recorded' - Len(airing') + k
      <4>1. CASE k = Len(airing)
        BY <1>0, <2>0, <3>4, <4>1
      <4>2. CASE k < Len(airing)
        <5>1. k \in 1 .. Len(airing) - 1 /\ k + 1 \in 1 .. Len(airing)
          BY <1>0, <3>4, <4>2
        <5>2. airing'[k] = recorded - Len(airing) + (k + 1)
          BY <3>4, <5>1 DEF FramesPlaced
        <5>3. QED BY <1>0, <2>0, <3>4, <5>1, <5>2
      <4>3. QED BY <1>0, <3>4, <4>1, <4>2
    <3>6. Head(airing) = recorded - Len(airing) + 1
      BY <1>0, <3>3 DEF FramesPlaced
    <3>7. recorded' - Len(airing') = recorded - Len(airing) + 1
      BY <1>0, <2>0, <3>4
    <3>8. GapsAreLags'
      BY <2>0, <3>2 DEF FramesPlaced, GapsAreLags
    <3>9. ASSUME buffer # <<>>
          PROVE  /\ buffer[Len(buffer)] <= recorded - Len(airing) + 1
                 /\ \A f \in buffer[Len(buffer)] + 1
                              .. recorded - Len(airing) + 1 : f \in dropped'
      <4>1. /\ buffer[Len(buffer)] <= recorded - Len(airing)
            /\ \A f \in buffer[Len(buffer)] + 1 .. recorded - Len(airing) :
                 f \in dropped
        BY <3>9 DEF FramesPlaced
      <4>2. buffer[Len(buffer)] \in Int
        BY <1>0, <3>9, ElementOfSeq, EmptySeq
      <4>3. ASSUME NEW f \in buffer[Len(buffer)] + 1
                           .. recorded - Len(airing) + 1
            PROVE  f \in dropped'
        <5>1. CASE f = recorded - Len(airing) + 1
          BY <3>2, <3>6, <5>1
        <5>2. CASE f # recorded - Len(airing) + 1
          <6>1. f \in buffer[Len(buffer)] + 1 .. recorded - Len(airing)
            BY <1>0, <4>2, <5>2
          <6>2. QED BY <3>2, <4>1, <6>1
        <5>3. QED BY <5>1, <5>2
      <4>4. buffer[Len(buffer)] <= recorded - Len(airing) + 1
        BY <1>0, <4>1, <4>2
      <4>5. QED BY <4>3, <4>4
    <3>10. QED
      BY <2>0, <3>5, <3>7, <3>8, <3>9 DEF FramesPlaced
  <2>2. CASE Len(airing) # AudioCap
    <3>1. airing' = Append(airing, recorded + 1) /\ dropped' = dropped
      BY <1>3, <2>2 DEF RecordFrame
    <3>2. /\ Len(airing') = Len(airing) + 1
          /\ \A k \in 1 .. Len(airing) : airing'[k] = airing[k]
          /\ airing'[Len(airing) + 1] = recorded + 1
      BY <1>0, <3>1, AppendProperties
    <3>3. ASSUME NEW k \in 1 .. Len(airing')
          PROVE  airing'[k] = recorded' - Len(airing') + k
      <4>1. CASE k = Len(airing) + 1
        BY <1>0, <2>0, <3>2, <4>1
      <4>2. CASE k <= Len(airing)
        <5>1. airing'[k] = recorded - Len(airing) + k
          BY <1>0, <3>2, <4>2 DEF FramesPlaced
        <5>2. QED BY <1>0, <2>0, <3>2, <5>1
      <4>3. QED BY <1>0, <3>2, <4>1, <4>2
    <3>4. recorded' - Len(airing') = recorded - Len(airing)
      BY <1>0, <2>0, <3>2
    <3>5. QED
      BY <2>0, <3>1, <3>3, <3>4 DEF FramesPlaced, GapsAreLags
  <2>3. QED BY <2>1, <2>2
<1>4. CASE TakeFrame
  <2>0. /\ airing # <<>> /\ airing' = Tail(airing)
        /\ UNCHANGED <<recorded, dropped, state>>
    BY <1>4 DEF TakeFrame
  <2>1. /\ Tail(airing) \in Seq(Int) /\ Len(Tail(airing)) = Len(airing) - 1
        /\ Head(airing) = airing[1] /\ Len(airing) > 0
        /\ \A k \in 1 .. Len(Tail(airing)) : Tail(airing)[k] = airing[k + 1]
    BY <1>0, <2>0, HeadTaken, HeadTailProperties
  <2>2. /\ Len(airing') = Len(airing) - 1
        /\ \A k \in 1 .. Len(airing') :
             airing'[k] = recorded - Len(airing') + k
    BY <1>0, <2>0, <2>1 DEF FramesPlaced
  <2>3. Head(airing) = recorded - Len(airing) + 1
    BY <1>0, <2>1 DEF FramesPlaced
  <2>4. CASE state # "SpeechActive"
    <3>1. buffer = <<>> /\ buffer' = buffer
      BY <1>4, <2>4 DEF TakeFrame, FramesPlaced
    <3>2. QED BY <2>0, <2>2, <3>1 DEF FramesPlaced, GapsAreLags
  <2>5. CASE state = "SpeechActive"
    <3>1. /\ buffer' = Append(buffer, Head(airing)) /\ Head(airing) \in Int
      BY <1>0, <1>4, <2>0, <2>5, HeadTaken DEF TakeFrame, Heard
    <3>2. /\ buffer' # <<>> /\ Len(buffer') = Len(buffer) + 1
          /\ \A k \in 1 .. Len(buffer) : buffer'[k] = buffer[k]
          /\ buffer'[Len(buffer) + 1] = Head(airing)
      BY <1>0, <3>1, AppendProperties
    <3>3. buffer'[Len(buffer')] = recorded' - Len(airing')
      BY <1>0, <2>0, <2>2, <2>3, <3>2
    <3>4. ASSUME NEW k \in 1 .. Len(buffer') - 1
          PROVE  /\ buffer'[k] < buffer'[k + 1]
                 /\ \A f \in buffer'[k] + 1 .. buffer'[k + 1] - 1 :
                      f \in dropped
      <4>1. CASE k = Len(buffer)
        <5>1. /\ buffer'[k] = buffer[Len(buffer)] /\ buffer # <<>>
              /\ buffer'[k + 1] = recorded - Len(airing) + 1
              /\ buffer[Len(buffer)] \in Int
          BY <1>0, <2>3, <3>2, <3>4, <4>1, ElementOfSeq
        <5>2. /\ buffer[Len(buffer)] <= recorded - Len(airing)
              /\ \A f \in buffer[Len(buffer)] + 1 .. recorded - Len(airing) :
                   f \in dropped
          BY <5>1 DEF FramesPlaced
        <5>3. (recorded - Len(airing) + 1) - 1 = recorded - Len(airing)
          BY <1>0
        <5>4. QED BY <1>0, <5>1, <5>2, <5>3
      <4>2. CASE k < Len(buffer)
        <5>1. k \in 1 .. Len(buffer) - 1 /\ k + 1 \in 1 .. Len(buffer)
          BY <1>0, <3>2, <4>2
        <5>2. buffer'[k] = buffer[k] /\ buffer'[k + 1] = buffer[k + 1]
          BY <1>0, <3>2, <5>1
        <5>3. QED BY <5>1, <5>2 DEF FramesPlaced, GapsAreLags
      <4>3. QED BY <1>0, <3>2, <4>1, <4>2
    <3>5. GapsAreLags'
      BY <2>0, <3>4 DEF GapsAreLags
    <3>6. \A f \in buffer'[Len(buffer')] + 1 .. recorded' - Len(airing') :
            f \in dropped'
      BY <1>0, <2>0, <2>2, <3>3
    <3>7. buffer'[Len(buffer')] <= recorded' - Len(airing')
      BY <1>0, <2>0, <2>2, <3>3
    <3>8. QED
      BY <2>0, <2>2, <2>5, <3>5, <3>6, <3>7 DEF FramesPlaced
  <2>6. QED BY <2>4, <2>5
<1>5. CASE TakeEvent
  <2>1. UNCHANGED <<recorded, airing, dropped>>
    BY <1>5 DEF TakeEvent
  <2>2. buffer' = <<>> \/ UNCHANGED <<state, buffer>>
    BY <1>5 DEF TakeEvent, SpeechStart, SpeechEnd
  <2>3. QED BY <1>1, <1>2, <2>1, <2>2
<1>6. CASE FinalizeEnd
  BY <1>2, <1>6 DEF FinalizeEnd, worldVars
<1>7. CASE VadSays \/ Closes \/ Consume \/ Initialize \/ Lagged \/ Ends
  BY <1>1, <1>7
  DEF VadSays, Closes, Consume, Initialize, Lagged, Ends, processVars,
      loopVars, worldVars
<1>8. CASE FeedChunk \/ SendEvent \/ UNCHANGED utteranceVars
  BY <1>1, <1>8 DEF FeedChunk, SendEvent, utteranceVars, worldVars, loopVars
<1>9. QED
  BY <1>3, <1>4, <1>5, <1>6, <1>7, <1>8 DEF UtteranceNext

UtteranceInv == UtteranceTypeOK /\ HandedOver /\ FramesPlaced

LEMMA UtteranceInvKept ==
  UtteranceInit /\ [][UtteranceNext]_utteranceVars => []UtteranceInv
<1>1. ASSUME UtteranceInit PROVE UtteranceInv
  BY <1>1, SelectableType
  DEF UtteranceInit, FreshEngine, UtteranceInv, UtteranceTypeOK, HandedOver,
      Feeding, FramesPlaced, GapsAreLags
<1>2. ASSUME UtteranceInv, [UtteranceNext]_utteranceVars
      PROVE  UtteranceInv'
  BY <1>2, UtteranceTypeStep, FramesStep DEF UtteranceInv
<1>3. QED BY <1>1, <1>2, PTL

LEMMA BeginsIsPrefix ==
  ASSUME NEW s \in Seq(Int), NEW rest \in Seq(Int)
  PROVE  IsPrefix(s, s \o rest)
<1>1. Len(s) \in Nat /\ Len(rest) \in Nat
      /\ Len(s \o rest) = Len(s) + Len(rest)
  BY ConcatParts
<1>2. CASE Len(s) = 0
  <2>1. SubSeq(s, 1, Len(s)) = <<>> /\ SubSeq(s \o rest, 1, Len(s)) = <<>>
    BY <1>2, SubSeqEmpty
  <2>2. QED BY <1>1, <2>1 DEF IsPrefix
<1>3. CASE Len(s) > 0
  <2>1. 1 \in 1 .. Len(s) /\ Len(s) \in 1 .. Len(s)
    BY <1>1, <1>3
  <2>2. SubSeq(s \o rest, 1, Len(s)) = SubSeq(s, 1, Len(s))
    BY <2>1, SubSeqOfConcat1
  <2>3. QED BY <1>1, <2>2 DEF IsPrefix
<1>4. QED BY <1>1, <1>2, <1>3

\* Whichever engine runs, it is handed the audio of one utterance only, in
\* the order it was recorded, with no gap that the broadcast did not make.
THEOREM UtterancesHandedOver == UtteranceSpec => []UtteranceKept
<1>1. ASSUME UtteranceInv PROVE UtteranceKept
  <2>1. GapsAreLags
    BY <1>1 DEF UtteranceInv, FramesPlaced
  <2>2. ASSUME Feeding PROVE IsPrefix(held, buffer)
    <3>1. /\ Fed /\ engine \in AllEngines /\ held \in Seq(Int)
          /\ left \in Seq(Int) /\ buffer \in Seq(Int)
      BY <1>1, <2>2 DEF UtteranceInv, HandedOver, UtteranceTypeOK
    <3>2. <<>> \o buffer = buffer
      BY <3>1, ConcatEmptySeq
    <3>3. \E rest \in Seq(Int) : buffer = held \o rest
      BY <3>1, <3>2 DEF Fed, Begins, AllEngines, Local
    <3>4. QED BY <3>1, <3>3, BeginsIsPrefix
  <2>3. QED
    BY <2>1, <2>2 DEF UtteranceKept, EngineHoldsTheUtterance, Feeding
<1>2. QED BY <1>1, UtteranceInvKept, PTL DEF UtteranceSpec

(***************************************************************************)
(* The ids.  The next free one is above every id in use; the adapter's is  *)
(* only in answers of the utterance at hand.                               *)
(***************************************************************************)
IdsInOrder ==
    /\ id \in Nat /\ nextId \in Nat /\ id < nextId
    /\ answered \subseteq Nat \X Nat /\ utterance \in Nat
    /\ \A a \in answered : a[1] < nextId /\ (a[1] = id => a[2] = utterance)
    /\ IdsTellUtterancesApart

LEMMA NextAbove ==
  ASSUME NEW n \in Nat, NEW i \in {n, n + 1}, NEW m, m = i + 1
  PROVE  i \in Nat /\ m \in Nat /\ i < m /\ n <= i
  OBVIOUS

LEMMA IdsStep ==
  ASSUME IdsInOrder, [UtteranceNext]_utteranceVars
  PROVE  IdsInOrder'
<1> USE DEF IdsInOrder, IdsTellUtterancesApart
<1>1. CASE UNCHANGED <<id, nextId, answered, utterance>>
  BY <1>1
<1>2. ASSUME answered' \in {answered, answered \union {<<id, utterance>>}}
      PROVE  /\ answered' \subseteq Nat \X Nat
             /\ \A a \in answered' :
                  a[1] < nextId /\ (a[1] = id => a[2] = utterance)
             /\ IdsTellUtterancesApart'
  BY <1>2
<1>3. \A answer : Drawn(answer) \in {0, 1}
  BY DEF Drawn
<1>4. CASE FeedChunk
  <2>1. PICK chunk : OnSpeechFrame(chunk)
    BY <1>4 DEF FeedChunk
  <2>2. answered' \in {answered, answered \union {<<id, utterance>>}}
    BY <2>1 DEF OnSpeechFrame, Answers
  <2>3. id' = id /\ nextId' \in {nextId, nextId + 1} /\ utterance' = utterance
    BY <1>3, <1>4, <2>1 DEF FeedChunk, OnSpeechFrame
  <2>4. QED BY <1>2, <2>2, <2>3
<1>5. CASE FinalizeEnd
  <2>1. PICK o \in Finalize :
          /\ Answers(o)
          /\ IF o.answer = "final"
             THEN /\ id' = nextId + Drawn("final")
                  /\ nextId' = nextId + Drawn("final") + 1
             ELSE UNCHANGED <<id, nextId>>
    BY <1>5 DEF FinalizeEnd, OnSpeechEnd
  <2>2. answered' \in {answered, answered \union {<<id, utterance>>}}
    BY <2>1 DEF Answers
  <2>3. utterance' = utterance
    BY <1>5 DEF FinalizeEnd
  <2>4. CASE UNCHANGED <<id, nextId>>
    BY <1>2, <2>2, <2>3, <2>4
  <2>5. CASE /\ id' = nextId + Drawn("final")
             /\ nextId' = nextId + Drawn("final") + 1
    <3>1. id' \in {nextId, nextId + 1} /\ nextId' = id' + 1
      BY <1>3, <2>5
    <3>2. /\ answered' \subseteq Nat \X Nat
          /\ \A a \in answered' : a[1] < nextId
          /\ IdsTellUtterancesApart'
      BY <1>2, <2>2
    <3>3. id' \in Nat /\ nextId' \in Nat /\ id' < nextId' /\ nextId <= id'
      BY <3>1, NextAbove
    <3>4. \A a \in answered' : a[1] < nextId' /\ a[1] # id'
      <4>1. TAKE a \in answered'
      <4>2. a[1] \in Nat /\ a[1] < nextId
        BY <3>2
      <4>3. QED BY <3>3, <4>2
    <3>5. QED BY <2>3, <3>2, <3>3, <3>4
  <2>6. QED BY <2>1, <2>4, <2>5
<1>6. CASE TakeEvent
  <2>1. CASE SpeechStart
    BY <1>6, <2>1 DEF TakeEvent, SpeechStart, Reset
  <2>2. CASE SpeechEnd
    BY <1>1, <1>6, <2>2 DEF TakeEvent, SpeechEnd
  <2>3. QED BY <1>6, <2>1, <2>2 DEF TakeEvent
<1>7. CASE TakeFrame \/ RecordFrame \/ VadSays \/ Closes \/ Consume
  BY <1>1, <1>7
  DEF TakeFrame, RecordFrame, VadSays, Closes, Consume, processVars,
      engineVars, loopVars
<1>8. CASE Initialize \/ Lagged \/ Ends \/ SendEvent \/ UNCHANGED utteranceVars
  BY <1>1, <1>8
  DEF Initialize, Lagged, Ends, SendEvent, utteranceVars, engineVars, loopVars
<1>9. QED BY <1>4, <1>5, <1>6, <1>7, <1>8 DEF UtteranceNext

\* No id is given to the transcripts of two utterances, whenever the engine
\* answers and however often.
THEOREM IdsApart == UtteranceSpec => []IdsTellUtterancesApart
<1>1. ASSUME UtteranceInit PROVE IdsInOrder
  BY <1>1 DEF UtteranceInit, IdsInOrder, IdsTellUtterancesApart
<1>2. IdsInOrder => IdsTellUtterancesApart
  BY DEF IdsInOrder
<1>3. QED BY <1>1, <1>2, IdsStep, PTL DEF UtteranceSpec


-----------------------------------------------------------------------------
(***************************************************************************)
(* Persistence.  A transcript in hand is the only one the session may not  *)
(* have yet.  The frames of the wavs, of the audio in memory and of the    *)
(* channel follow each other in the order they were aired, so a frame that *)
(* is written is never met again; the audio in memory is of one start.     *)
(***************************************************************************)
Samples == Int \X Nat
Records == [id : Nat, of : Nat, start : Nat, duration : Nat,
            audio : Seq(Samples)]

PersistenceTypeOK ==
    /\ DOMAIN inbox = Channels /\ inbox["text"] \in Seq(Nat \X Nat)
    /\ inbox["audio"] \in Seq(Int)
    /\ told \in Nat /\ aired \in Nat /\ final \in Nat \X Nat
    /\ lastStart \in Nat /\ lastDuration \in Nat
    /\ sound \in Seq(Samples) /\ session \in Seq(Records)
    /\ \A i \in DOMAIN wavs : wavs[i] \in Seq(Samples)

\* The session has every transcript taken but the one in hand.
RecordsCounted ==
    /\ finals = Len(session) + (IF step = "wav" THEN 1 ELSE 0)
    /\ step \in {"new", "clean"} => finals = 0
    /\ ManifestCatchesUp

FramesOf(samples) == {samples[k][1] : k \in DOMAIN samples}
Before(these, those) == \A m \in these, n \in those : m < n

\* Samples in the order they were recorded, all taken after one start.
OneStretch(samples, start) ==
    /\ \A k \in DOMAIN samples : samples[k][2] = start
    /\ \A k, m \in DOMAIN samples : k < m => samples[k][1] < samples[m][1]

AudioInOrder ==
    /\ Ascending(inbox["audio"]) /\ \A n \in Range(inbox["audio"]) : n <= aired
    /\ OneStretch(sound, lastStart) /\ \A n \in FramesOf(sound) : n <= aired
    /\ Before(FramesOf(sound), Range(inbox["audio"]))
    /\ saving # "audio" => sound = <<>>

WavsAreBehind ==
    \A i \in DOMAIN wavs :
        /\ \A n \in FramesOf(wavs[i]) : n <= aired
        /\ Before(FramesOf(wavs[i]), FramesOf(sound))
        /\ Before(FramesOf(wavs[i]), Range(inbox["audio"]))

\* What the task takes, and a sender adds, changes one channel.
LEMMA ChannelTaken ==
  ASSUME DOMAIN inbox = Channels, NEW c \in Channels, Take(c)
  PROVE  /\ DOMAIN inbox' = Channels
         /\ inbox[c] # <<>> /\ inbox'[c] = Tail(inbox[c])
         /\ \A d \in Channels \ {c} : inbox'[d] = inbox[d]
BY DEF Take

LEMMA ChannelGiven ==
  ASSUME DOMAIN inbox = Channels, NEW c \in Channels, NEW m, Send(c, m)
  PROVE  /\ DOMAIN inbox' = Channels
         /\ inbox'[c] = Append(inbox[c], m)
         /\ \A d \in Channels \ {c} : inbox'[d] = inbox[d]
BY DEF Send

LEMMA AudioGiven ==
  ASSUME PersistenceTypeOK, PersistenceAssumption, AirFrame
  PROVE  /\ DOMAIN inbox' = Channels /\ inbox'["text"] = inbox["text"]
         /\ aired + 1 \in Nat /\ inbox'["audio"] \in Seq(Int)
         /\ \E q \in Seq(Int) : /\ q = inbox["audio"]
                                  \/ /\ q = Tail(inbox["audio"])
                                     /\ inbox["audio"] # <<>>
                               /\ inbox'["audio"] = Append(q, aired + 1)
<1>1. /\ DOMAIN inbox = Channels /\ "audio" \in Channels
      /\ "text" \in Channels
      /\ inbox["audio"] \in Seq(Int) /\ aired + 1 \in Nat
  BY DEF PersistenceTypeOK, Channels
<1>2. /\ DOMAIN inbox' = Channels /\ inbox'["text"] = inbox["text"]
      /\ inbox'["audio"] = Append(IF Len(inbox["audio"]) = AirCap
                                  THEN Tail(inbox["audio"])
                                  ELSE inbox["audio"], aired + 1)
  BY <1>1 DEF AirFrame
<1>3. CASE Len(inbox["audio"]) = AirCap
  <2>1. inbox["audio"] # <<>>
    BY <1>1, <1>3, EmptySeq DEF PersistenceAssumption
  <2>2. Tail(inbox["audio"]) \in Seq(Int)
    BY <1>1, <2>1, HeadTaken
  <2>3. inbox'["audio"] \in Seq(Int)
    BY <1>1, <1>2, <1>3, <2>2, LastAdded
  <2>4. QED BY <1>1, <1>2, <1>3, <2>1, <2>2, <2>3
<1>4. CASE Len(inbox["audio"]) # AirCap
  <2>1. inbox'["audio"] \in Seq(Int)
    BY <1>1, <1>2, <1>4, LastAdded
  <2>2. QED BY <1>1, <1>2, <1>4, <2>1
<1>5. QED BY <1>3, <1>4

LEMMA NoSamples == <<>> \in Seq(Samples)
  OBVIOUS

\* The record of the transcript in hand.
LEMMA RecordTyped ==
  ASSUME PersistenceTypeOK, NEW audio \in Seq(Samples)
  PROVE  RecordOf(audio) \in Records
BY DEF PersistenceTypeOK, RecordOf, Records

\* Saving a wav adds the record of the transcript in hand, with the audio
\* that was written or with none.
LEMMA WavSaved ==
  ASSUME PersistenceTypeOK, SaveWav
  PROVE  /\ sound' \in {<<>>, sound}
         /\ wavs' # wavs => sound' = <<>>
         /\ \E audio \in {<<>>, sound} :
              /\ RecordOf(audio) \in Records
              /\ session' = Append(session, RecordOf(audio))
              /\ \/ audio = <<>> /\ wavs' = wavs
                 \/ audio = <<>> /\ wavs' = WithFile(final[1], <<>>)
                 \/ wavs' = WithFile(final[1], audio)
<1>1. sound \in Seq(Samples) /\ <<>> \in Seq(Samples)
  BY NoSamples DEF PersistenceTypeOK
<1>2. RecordOf(sound) \in Records /\ RecordOf(<<>>) \in Records
  BY <1>1, RecordTyped
<1>3. CASE saving = "audio" /\ sound # <<>>
  <2>1. WriteWav(sound) /\ sound' = <<>>
    BY <1>3 DEF SaveWav, Taken
  <2>2. QED BY <1>2, <2>1 DEF WriteWav, Push
<1>4. CASE ~(saving = "audio" /\ sound # <<>>)
  BY <1>2, <1>4 DEF SaveWav, Push
<1>5. QED BY <1>3, <1>4

LEMMA PersistenceTypeStep ==
  ASSUME PersistenceAssumption, PersistenceTypeOK,
         [PersistenceNext]_persistenceVars
  PROVE  PersistenceTypeOK'
<1>1. /\ DOMAIN inbox = Channels /\ inbox["text"] \in Seq(Nat \X Nat)
      /\ inbox["audio"] \in Seq(Int)
      /\ told \in Nat /\ aired \in Nat /\ final \in Nat \X Nat
      /\ lastStart \in Nat /\ lastDuration \in Nat /\ sound \in Seq(Samples)
      /\ session \in Seq(Records)
      /\ \A i \in DOMAIN wavs : wavs[i] \in Seq(Samples)
  BY DEF PersistenceTypeOK
<1>3. NoFinal \in Nat \X Nat /\ {"audio", "vad", "text"} \subseteq Channels
  BY DEF NoFinal, Channels
<1>4. CASE AirFrame
  <2>1. /\ DOMAIN inbox' = Channels /\ inbox'["text"] = inbox["text"]
        /\ inbox'["audio"] \in Seq(Int)
    BY <1>1, <1>4, AudioGiven
  <2>2. aired' \in Nat
    BY <1>1, <1>4 DEF AirFrame
  <2>3. QED BY <1>1, <1>4, <2>1, <2>2
              DEF AirFrame, writerVars, memoryVars, diskVars,
                  PersistenceTypeOK
<1>5. CASE SayBoundary
  <2>1. PICK m : Send("vad", m)
    BY <1>5 DEF SayBoundary
  <2>2. /\ DOMAIN inbox' = Channels /\ inbox'["text"] = inbox["text"]
        /\ inbox'["audio"] = inbox["audio"]
    BY <1>1, <1>3, <2>1, ChannelGiven
  <2>3. QED BY <1>1, <1>5, <2>2
              DEF SayBoundary, writerVars, memoryVars, diskVars,
                  PersistenceTypeOK
<1>6. CASE TellFinal
  <2>1. PICK u \in told + 1 .. said \div 2, n \in UtteranceIds :
          Send("text", <<n, u>>) /\ told' = u
    BY <1>6 DEF TellFinal
  <2>2. u \in Nat /\ n \in Nat
    BY <1>1, <2>1 DEF PersistenceAssumption
  <2>3. <<n, u>> \in Nat \X Nat
    BY <2>2
  <2>4. /\ DOMAIN inbox' = Channels
        /\ inbox'["text"] = Append(inbox["text"], <<n, u>>)
        /\ inbox'["audio"] = inbox["audio"]
    BY <1>1, <1>3, <2>1, ChannelGiven
  <2>5. inbox'["text"] \in Seq(Nat \X Nat)
    BY <1>1, <2>3, <2>4, LastAdded
  <2>6. QED BY <1>1, <1>6, <2>1, <2>2, <2>4, <2>5
              DEF TellFinal, writerVars, memoryVars, diskVars,
                  PersistenceTypeOK
<1>7. CASE CloseChannel
  BY <1>1, <1>7 DEF CloseChannel, writerVars, memoryVars, diskVars,
                    PersistenceTypeOK
<1>8. CASE NewWriter \/ CleanUp \/ SaveFile \/ SaveManifest \/ CloseSession
           \/ AudioLagged
  <2>1. /\ UNCHANGED <<inbox, told, aired, lastStart, lastDuration, sound,
                       session, wavs>>
        /\ final' \in {final, NoFinal}
    BY <1>8 DEF NewWriter, CleanUp, SaveFile, SaveManifest, CloseSession,
                AudioLagged, SaveUtterance, GivesUp, sourceVars, memoryVars,
                diskVars
  <2>2. QED BY <1>1, <1>3, <2>1 DEF PersistenceTypeOK
<1>9. CASE TakeAudio
  <2>1. /\ DOMAIN inbox' = Channels /\ inbox["audio"] # <<>>
        /\ inbox'["text"] = inbox["text"]
        /\ inbox'["audio"] = Tail(inbox["audio"])
    BY <1>1, <1>3, <1>9, ChannelTaken, SMTT(30) DEF TakeAudio
  <2>2. Head(inbox["audio"]) \in Int /\ inbox'["audio"] \in Seq(Int)
    <3>1. PICK q \in Seq(Int) : q = inbox["audio"]
      BY <1>1
    <3>2. Head(q) \in Int /\ Tail(q) \in Seq(Int)
      BY <2>1, <3>1, HeadTaken
    <3>3. QED BY <2>1, <3>1, <3>2
  <2>3. <<Head(inbox["audio"]), lastStart>> \in Samples
    BY <1>1, <2>2 DEF Samples
  <2>4. sound' \in Seq(Samples)
    BY <1>1, <1>9, <2>3, LastAdded DEF TakeAudio
  <2>5. QED BY <1>1, <1>9, <2>1, <2>2, <2>4
              DEF TakeAudio, Take, diskVars, PersistenceTypeOK
<1>10. CASE TakeVad
  <2>1. /\ DOMAIN inbox' = Channels /\ inbox'["text"] = inbox["text"]
        /\ inbox'["audio"] = inbox["audio"]
    BY <1>1, <1>3, <1>10, ChannelTaken, SMTT(30) DEF TakeVad
  <2>2. /\ sound' \in {sound, <<>>}
        /\ lastStart' \in {lastStart, lastStart + 1}
        /\ lastDuration' \in {lastDuration, lastDuration + 1}
        /\ UNCHANGED <<told, aired, final, session, wavs>>
    BY <1>10 DEF TakeVad, StartUtterance, Take, diskVars
  <2>3. lastStart' \in Nat /\ lastDuration' \in Nat
    BY <1>1, <2>2
  <2>4. sound' \in Seq(Samples)
    BY <1>1, <2>2, NoSamples
  <2>5. QED BY <1>1, <2>1, <2>2, <2>3, <2>4 DEF PersistenceTypeOK
<1>11. CASE TakeFinal
  <2>1. /\ DOMAIN inbox' = Channels /\ inbox["text"] # <<>>
        /\ inbox'["text"] = Tail(inbox["text"])
        /\ inbox'["audio"] = inbox["audio"]
    BY <1>1, <1>3, <1>11, ChannelTaken, SMTT(30) DEF TakeFinal
  <2>2. Head(inbox["text"]) \in Nat \X Nat
        /\ inbox'["text"] \in Seq(Nat \X Nat)
    BY <1>1, <2>1, HeadTaken
  <2>3. QED BY <1>1, <1>11, <2>1, <2>2
              DEF TakeFinal, Take, diskVars, PersistenceTypeOK
<1>12. CASE SaveWav
  <2>1. \E record \in Records : session' = Append(session, record)
    BY <1>12, WavSaved
  <2>2. session' \in Seq(Records)
    BY <1>1, <2>1, LastAdded
  <2>3. sound' \in Seq(Samples)
    <3>1. sound' \in {<<>>, sound}
      BY <1>12, WavSaved
    <3>2. QED BY <1>1, <3>1, NoSamples
  <2>4. \A i \in DOMAIN wavs' : wavs'[i] \in Seq(Samples)
    <3>1. \/ wavs' = wavs
          \/ \E audio \in {<<>>, sound} : wavs' = WithFile(final[1], audio)
      BY <1>12, WavSaved
    <3>2. CASE wavs' = wavs
      BY <1>1, <3>2
    <3>3. ASSUME NEW audio \in Seq(Samples), wavs' = WithFile(final[1], audio)
          PROVE  \A i \in DOMAIN wavs' : wavs'[i] \in Seq(Samples)
      BY <1>1, <3>3 DEF WithFile
    <3>4. QED BY <1>1, <3>1, <3>2, <3>3, NoSamples
  <2>5. QED BY <1>1, <1>12, <2>2, <2>3, <2>4
              DEF SaveWav, sourceVars, PersistenceTypeOK
<1>13. CASE UNCHANGED persistenceVars
  BY <1>1, <1>13 DEF persistenceVars, sourceVars, writerVars, memoryVars,
                     diskVars,
                     PersistenceTypeOK
<1>14. QED BY <1>4, <1>5, <1>6, <1>7, <1>8, <1>9, <1>10, <1>11, <1>12, <1>13
              DEF PersistenceNext

\* What the session and the manifest hold follows the transcripts taken.
LEMMA CountedStep ==
  ASSUME PersistenceTypeOK, RecordsCounted, [PersistenceNext]_persistenceVars
  PROVE  RecordsCounted'
<1>1. /\ session \in Seq(Records) /\ Len(session) \in Nat
      /\ finals = Len(session) + (IF step = "wav" THEN 1 ELSE 0)
      /\ finals \in Nat
      /\ step \in {"new", "clean"} => finals = 0
  BY DEF PersistenceTypeOK, RecordsCounted
<1>2. ManifestCatchesUp
  BY DEF RecordsCounted
<1>3. CASE UNCHANGED <<session, manifest, finals, behind>>
           /\ (step' = "wav" <=> step = "wav")
           /\ (step' \in {"new", "clean"} => step \in {"new", "clean"})
           /\ (Selecting' => Selecting \/ finals = 0)
  BY <1>1, <1>2, <1>3 DEF RecordsCounted, ManifestCatchesUp, Selecting
<1>4. CASE AirFrame \/ SayBoundary \/ TellFinal \/ CloseChannel
  <2>1. UNCHANGED <<step, session, manifest, finals, behind>>
    BY <1>4 DEF AirFrame, SayBoundary, TellFinal, CloseChannel, writerVars,
                memoryVars, diskVars
  <2>2. QED BY <1>3, <2>1 DEF Selecting
<1>5. CASE TakeAudio \/ AudioLagged \/ TakeVad
  <2>1. /\ UNCHANGED <<session, manifest, finals, behind>>
        /\ Selecting /\ step # "wav"
        /\ step' \notin {"wav", "new", "clean"}
    BY <1>5 DEF TakeAudio, AudioLagged, TakeVad, Take, Selecting,
                memoryVars, diskVars
  <2>2. QED BY <1>3, <2>1
<1>6. CASE TakeFinal
  <2>1. CASE saving = "nothing"
    BY <1>3, <1>6, <2>1 DEF TakeFinal, Take, Selecting, diskVars
  <2>2. CASE saving # "nothing"
    BY <1>1, <1>6, <2>2 DEF TakeFinal, Take, Selecting, RecordsCounted,
                            ManifestCatchesUp
  <2>3. QED BY <2>1, <2>2
<1>7. CASE SaveWav
  <2>1. PICK record \in Records : session' = Append(session, record)
    BY <1>7, WavSaved
  <2>2. Len(session') = Len(session) + 1
    BY <1>1, <2>1, LastAdded
  <2>3. step = "wav" /\ step' = "file" /\ finals' = finals
    BY <1>7 DEF SaveWav
  <2>4. QED BY <1>1, <2>2, <2>3
              DEF RecordsCounted, ManifestCatchesUp, Selecting
<1>8. CASE SaveFile
  BY <1>1, <1>8 DEF SaveFile, SaveUtterance, GivesUp, RecordsCounted,
                    ManifestCatchesUp, Selecting
<1>9. CASE SaveManifest
  <2>1. CASE manifest' = Snapshot /\ UNCHANGED session
    BY <1>1, <1>9, <2>1 DEF SaveManifest, GivesUp, Snapshot, RecordsCounted,
                            ManifestCatchesUp, Selecting
  <2>2. CASE GivesUp
    BY <1>1, <1>9, <2>2 DEF SaveManifest, GivesUp, RecordsCounted,
                            ManifestCatchesUp, Selecting
  <2>3. QED BY <1>9, <2>1, <2>2 DEF SaveManifest
<1>10. CASE CloseSession
  BY <1>1, <1>10 DEF CloseSession, RecordsCounted, ManifestCatchesUp,
                     Selecting
<1>11. CASE UNCHANGED persistenceVars
  BY <1>3, <1>11 DEF persistenceVars, writerVars, memoryVars, diskVars,
                     Selecting
<1>12. CASE NewWriter \/ CleanUp
  <2>1. /\ step \in {"new", "clean"} /\ step' # "wav"
        /\ UNCHANGED <<session, finals>>
    BY <1>12 DEF NewWriter, CleanUp, memoryVars
  <2>2. QED BY <1>1, <2>1 DEF RecordsCounted, ManifestCatchesUp
<1>13. QED BY <1>4, <1>5, <1>6, <1>7, <1>8, <1>9, <1>10, <1>11, <1>12
              DEF PersistenceNext

LEMMA PersistenceTyped == PersistenceSpec => []PersistenceTypeOK
<1>1. ASSUME PersistenceInit PROVE PersistenceTypeOK
  BY <1>1 DEF PersistenceInit, PersistenceTypeOK, NoFinal, Channels
<1>2. ASSUME PersistenceTypeOK, [PersistenceNext]_persistenceVars
      PROVE  PersistenceTypeOK'
  BY <1>2, PersistenceTypeStep, PersistenceAssumption
<1>3. QED BY <1>1, <1>2, PTL DEF PersistenceSpec

\* Whenever a transcript was saved to the end, the manifest on the disk lists
\* every transcript taken.  TranscriptionWriter pushes a record before it
\* writes anything and never drops one, so a manifest that is written at all
\* makes up for those that failed before.
THEOREM ManifestComplete == PersistenceSpec => []ManifestCatchesUp
<1>1. ASSUME PersistenceInit PROVE RecordsCounted
  BY <1>1 DEF PersistenceInit, RecordsCounted, ManifestCatchesUp, Selecting
<1>2. ASSUME PersistenceTypeOK, RecordsCounted,
             [PersistenceNext]_persistenceVars
      PROVE  RecordsCounted'
  BY <1>2, CountedStep
<1>3. RecordsCounted => ManifestCatchesUp
  BY DEF RecordsCounted
<1>4. QED BY <1>1, <1>2, <1>3, PersistenceTyped, PTL
          DEF PersistenceSpec

LEMMA FramesOfNone == FramesOf(<<>>) = {} /\ \A t : OneStretch(<<>>, t)
  BY DEF FramesOf, OneStretch

\* A sample that is recorded after those of a stretch goes on with it.
LEMMA SampleAdded ==
  ASSUME NEW s \in Seq(Samples), NEW n \in Int, NEW t \in Nat
  PROVE  /\ FramesOf(Append(s, <<n, t>>)) = FramesOf(s) \union {n}
         /\ OneStretch(s, t) /\ (\A m \in FramesOf(s) : m < n)
              => OneStretch(Append(s, <<n, t>>), t)
<1> DEFINE e == <<n, t>>
           a == Append(s, e)
<1>1. e \in Samples /\ e[1] = n /\ e[2] = t
  BY DEF Samples
<1> HIDE DEF e
<1>2. /\ Len(s) \in Nat /\ DOMAIN s = 1 .. Len(s)
      /\ DOMAIN a = 1 .. Len(s) + 1
      /\ \A k \in 1 .. Len(s) : a[k] = s[k]
      /\ a[Len(s) + 1] = e
  BY <1>1
<1>3. PICK l \in Nat : l = Len(s)
  BY <1>2
<1> HIDE DEF a
<1>4. 1 .. l + 1 = (1 .. l) \union {l + 1} /\ \A k \in 1 .. l : k # l + 1
  BY <1>3
<1>5. FramesOf(a) = FramesOf(s) \union {n}
  BY <1>1, <1>2, <1>3, <1>4 DEF FramesOf
<1>6. ASSUME OneStretch(s, t), \A m \in FramesOf(s) : m < n
      PROVE  OneStretch(a, t)
  <2>1. \A k \in DOMAIN a : a[k][2] = t
    BY <1>1, <1>2, <1>3, <1>4, <1>6 DEF OneStretch
  <2>2. ASSUME NEW k \in DOMAIN a, NEW m \in DOMAIN a, k < m
        PROVE  a[k][1] < a[m][1]
    <3>1. k \in 1 .. l
      BY <1>2, <1>3, <2>2
    <3>2. CASE m = l + 1
      BY <1>1, <1>2, <1>3, <1>6, <3>1, <3>2 DEF FramesOf
    <3>3. CASE m # l + 1
      <4>1. m \in 1 .. l
        BY <1>2, <1>3, <1>4, <3>3
      <4>2. QED BY <1>2, <1>3, <1>6, <2>2, <3>1, <4>1 DEF OneStretch
    <3>4. QED BY <3>2, <3>3
  <2>3. QED BY <2>1, <2>2 DEF OneStretch
<1>7. QED BY <1>5, <1>6 DEF a, e

\* A frame that is aired goes behind all others.
LEMMA FrameAired ==
  ASSUME NEW q \in Seq(Int), NEW p, NEW n \in Nat, Ascending(q),
         \A m \in Range(q) : m <= n, p = q \/ (p = Tail(q) /\ q # <<>>)
  PROVE  /\ Ascending(Append(p, n + 1))
         /\ Range(Append(p, n + 1)) \subseteq Range(q) \union {n + 1}
         /\ \A m \in Range(Append(p, n + 1)) : m <= n + 1
<1>1. p \in Seq(Int) /\ Ascending(p) /\ Range(p) \subseteq Range(q)
  <2>1. CASE p = q
    BY <2>1
  <2>2. CASE p = Tail(q) /\ q # <<>>
    <3>1. Tail(q) \in Seq(Int)
      BY <2>2, HeadTaken
    <3>2. Ascending(Tail(q)) /\ Range(q) = {Head(q)} \union Range(Tail(q))
      BY <2>2, FirstLeaves
    <3>3. QED BY <2>2, <3>1, <3>2
  <2>3. QED BY <2>1, <2>2
<1>2. Range(q) \subseteq Int
  BY DEF Range
<1>3. n + 1 \in Int /\ \A m \in Range(p) : m < n + 1
  BY <1>1, <1>2
<1>4. /\ Ascending(Append(p, n + 1))
      /\ Range(Append(p, n + 1)) = Range(p) \union {n + 1}
  BY <1>1, <1>3, OneJoins
<1>5. QED BY <1>1, <1>2, <1>3, <1>4

LEMMA FramesTyped ==
  ASSUME PersistenceTypeOK
  PROVE  /\ FramesOf(sound) \subseteq Int
         /\ Range(inbox["audio"]) \subseteq Int
         /\ \A i \in DOMAIN wavs : FramesOf(wavs[i]) \subseteq Int
<1>1. \A s \in Seq(Samples) : FramesOf(s) \subseteq Int
  BY DEF Samples, FramesOf
<1>2. \A q \in Seq(Int) : Range(q) \subseteq Int
  BY DEF Range
<1>3. QED BY <1>1, <1>2 DEF PersistenceTypeOK

RecordingInv == AudioInOrder /\ WavsAreBehind /\ WavsAreApart


\* Two wavs whose frames follow each other share no sample.
LEMMA NoneShared ==
  ASSUME NEW s \in Seq(Samples), NEW t \in Seq(Samples),
         Before(FramesOf(s), FramesOf(t))
  PROVE  ToSet(s) \intersect ToSet(t) = {}
<1>1. \A u \in {s, t} : \A e \in ToSet(u) : e[1] \in FramesOf(u)
  BY DEF ToSet, FramesOf
<1>2. FramesOf(s) \subseteq Int
  BY DEF Samples, FramesOf
<1>3. ASSUME NEW e \in ToSet(s), e \in ToSet(t) PROVE FALSE
  <2>1. e[1] \in FramesOf(s) /\ e[1] \in FramesOf(t)
    BY <1>1, <1>3
  <2>2. e[1] \in Int /\ e[1] < e[1]
    BY <1>2, <2>1 DEF Before
  <2>3. QED BY <2>2
<1>4. QED BY <1>3

LEMMA OneStretchStepwise ==
  ASSUME NEW s \in Seq(Samples), NEW t, OneStretch(s, t),
         NEW k \in 1 .. Len(s) - 1
  PROVE  s[k][2] = s[k + 1][2] /\ s[k][1] < s[k + 1][1]
<1>1. PICK n \in Nat : n = Len(s) /\ DOMAIN s = 1 .. n
  OBVIOUS
<1>2. k \in 1 .. n /\ k + 1 \in 1 .. n /\ k < k + 1
  BY <1>1
<1>3. QED BY <1>1, <1>2 DEF OneStretch

\* The audio in memory becomes a wav, that of its utterance id.
LEMMA WavWritten ==
  ASSUME PersistenceTypeOK, AudioInOrder, WavsAreBehind, WavsAreApart,
         NEW audio \in {<<>>, sound}, wavs' = WithFile(final[1], audio),
         FramesOf(sound') = {}, UNCHANGED <<inbox, aired>>
  PROVE  WavsAreBehind' /\ WavsAreApart'
<1>1. /\ sound \in Seq(Samples) /\ audio \in Seq(Samples)
      /\ \A i \in DOMAIN wavs : wavs[i] \in Seq(Samples)
  BY NoSamples DEF PersistenceTypeOK
<1>2. /\ DOMAIN wavs' = DOMAIN wavs \union {final[1]}
      /\ wavs'[final[1]] = audio
      /\ \A i \in DOMAIN wavs \ {final[1]} : wavs'[i] = wavs[i]
  BY DEF WithFile
<1>3. /\ FramesOf(audio) \subseteq FramesOf(sound)
      /\ OneStretch(audio, lastStart)
  BY FramesOfNone DEF AudioInOrder
<1>4. WavsAreBehind'
  <2>1. ASSUME NEW i \in DOMAIN wavs'
        PROVE  /\ \A n \in FramesOf(wavs'[i]) : n <= aired
               /\ Before(FramesOf(wavs'[i]), Range(inbox["audio"]))
    BY <1>2, <1>3 DEF AudioInOrder, WavsAreBehind, Before
  <2>2. QED BY <2>1 DEF WavsAreBehind, Before
<1>5. ASSUME NEW i \in DOMAIN wavs', NEW k \in 1 .. Len(wavs'[i]) - 1
      PROVE  /\ wavs'[i][k][2] = wavs'[i][k + 1][2]
             /\ wavs'[i][k][1] < wavs'[i][k + 1][1]
  <2>1. CASE i = final[1]
    BY <1>1, <1>2, <1>3, <1>5, <2>1, OneStretchStepwise
  <2>2. CASE i # final[1]
    BY <1>2, <1>5, <2>2 DEF WavsAreApart
  <2>3. QED BY <2>1, <2>2
<1>6. ASSUME NEW i \in DOMAIN wavs', NEW j \in DOMAIN wavs', i # j
      PROVE  ToSet(wavs'[i]) \intersect ToSet(wavs'[j]) = {}
  <2>1. ASSUME NEW m \in DOMAIN wavs
        PROVE  ToSet(wavs[m]) \intersect ToSet(audio) = {}
    <3>1. Before(FramesOf(wavs[m]), FramesOf(audio))
      BY <1>3, <2>1 DEF WavsAreBehind, Before
    <3>2. QED BY <1>1, <3>1, NoneShared
  <2>2. CASE i = final[1]
    BY <1>2, <1>6, <2>1, <2>2
  <2>3. CASE j = final[1]
    BY <1>2, <1>6, <2>1, <2>3
  <2>4. CASE i # final[1] /\ j # final[1]
    BY <1>2, <1>6, <2>4 DEF WavsAreApart
  <2>5. QED BY <2>2, <2>3, <2>4
<1>7. QED BY <1>4, <1>5, <1>6 DEF WavsAreApart

LEMMA RecordingStep ==
  ASSUME PersistenceAssumption, PersistenceTypeOK, RecordingInv,
         [PersistenceNext]_persistenceVars
  PROVE  RecordingInv'
<1>1. AudioInOrder /\ WavsAreBehind /\ WavsAreApart
  BY DEF RecordingInv
<1>2. /\ DOMAIN inbox = Channels /\ inbox["audio"] \in Seq(Int)
      /\ aired \in Nat /\ lastStart \in Nat /\ sound \in Seq(Samples)
      /\ {"audio", "vad", "text"} \subseteq Channels
  BY DEF PersistenceTypeOK, Channels
<1>3. /\ FramesOf(sound) \subseteq Int /\ Range(inbox["audio"]) \subseteq Int
      /\ \A i \in DOMAIN wavs : FramesOf(wavs[i]) \subseteq Int
  BY FramesTyped
<1>4. CASE UNCHANGED <<inbox, aired, sound, lastStart, saving, wavs>>
  BY <1>1, <1>4 DEF RecordingInv, AudioInOrder, WavsAreBehind, WavsAreApart
<1>5. CASE AirFrame
  <2>1. PICK p \in Seq(Int) : /\ \/ p = inbox["audio"]
                                 \/ /\ p = Tail(inbox["audio"])
                                    /\ inbox["audio"] # <<>>
                              /\ inbox'["audio"] = Append(p, aired + 1)
    BY <1>5, AudioGiven
  <2>2. /\ Ascending(inbox["audio"])
        /\ \A n \in Range(inbox["audio"]) : n <= aired
    BY <1>1 DEF AudioInOrder
  <2>3. /\ Ascending(inbox'["audio"])
        /\ Range(inbox'["audio"])
             \subseteq Range(inbox["audio"]) \union {aired + 1}
        /\ \A n \in Range(inbox'["audio"]) : n <= aired + 1
    <3>1. PICK q \in Seq(Int) : q = inbox["audio"]
      BY <1>2
    <3>2. Ascending(q) /\ \A n \in Range(q) : n <= aired
      BY <2>2, <3>1
    <3>3. p = q \/ (p = Tail(q) /\ q # <<>>)
      BY <2>1, <3>1
    <3>4. /\ Ascending(Append(p, aired + 1))
          /\ Range(Append(p, aired + 1)) \subseteq Range(q) \union {aired + 1}
          /\ \A n \in Range(Append(p, aired + 1)) : n <= aired + 1
      BY <1>2, <3>2, <3>3, FrameAired
    <3>5. QED BY <2>1, <3>1, <3>4
  <2>4. UNCHANGED <<sound, lastStart, saving, wavs>> /\ aired' = aired + 1
    BY <1>5 DEF AirFrame, writerVars, memoryVars, diskVars
  <2>5. \A frames \in SUBSET Int :
          /\ \A n \in frames : n <= aired
          /\ Before(frames, Range(inbox["audio"]))
          => /\ \A n \in frames : n <= aired'
             /\ Before(frames, Range(inbox'["audio"]))
    BY <1>2, <2>3, <2>4 DEF Before
  <2>6. AudioInOrder'
    BY <1>1, <1>3, <2>3, <2>4, <2>5 DEF AudioInOrder
  <2>7. WavsAreBehind'
    BY <1>1, <1>3, <2>4, <2>5 DEF WavsAreBehind
  <2>8. QED BY <1>1, <2>4, <2>6, <2>7 DEF RecordingInv, WavsAreApart
<1>6. CASE TakeAudio
  <2>1. /\ inbox["audio"] # <<>> /\ inbox'["audio"] = Tail(inbox["audio"])
        /\ UNCHANGED <<aired, lastStart, saving, wavs>>
    BY <1>2, <1>6, ChannelTaken DEF TakeAudio, Take, diskVars
  <2> DEFINE first == Head(inbox["audio"])
  <2>2. PICK q \in Seq(Int) : q = inbox["audio"]
    BY <1>2
  <2>3. /\ Ascending(Tail(q)) /\ Range(q) = {Head(q)} \union Range(Tail(q))
        /\ \A n \in Range(Tail(q)) : Head(q) < n
    BY <1>1, <2>1, <2>2, FirstLeaves DEF AudioInOrder
  <2>4. /\ Ascending(inbox'["audio"]) /\ first \in Int
        /\ Range(inbox["audio"]) = {first} \union Range(inbox'["audio"])
        /\ \A n \in Range(inbox'["audio"]) : first < n
    BY <1>3, <2>1, <2>2, <2>3
  <2>5. /\ OneStretch(sound', lastStart)
        /\ FramesOf(sound') \subseteq FramesOf(sound) \union {first}
        /\ saving # "audio" => sound' = <<>>
    <3>1. \A n \in FramesOf(sound) : n < first
      BY <1>1, <2>4 DEF AudioInOrder, Before
    <3>2. /\ FramesOf(Append(sound, <<first, lastStart>>))
                = FramesOf(sound) \union {first}
          /\ OneStretch(Append(sound, <<first, lastStart>>), lastStart)
      BY <1>1, <1>2, <2>4, <3>1, SampleAdded DEF AudioInOrder
    <3>3. \/ sound' = sound
          \/ /\ sound' = Append(sound, <<first, lastStart>>)
             /\ saving = "audio"
      BY <1>6 DEF TakeAudio
    <3>4. QED BY <1>1, <3>2, <3>3 DEF AudioInOrder
  <2>6. AudioInOrder'
    BY <1>1, <2>1, <2>4, <2>5 DEF AudioInOrder, Before
  <2>7. WavsAreBehind'
    BY <1>1, <2>1, <2>4, <2>5 DEF WavsAreBehind, Before
  <2>8. QED BY <1>1, <2>1, <2>6, <2>7 DEF RecordingInv, WavsAreApart
<1>7. CASE TakeVad
  <2>1. /\ inbox'["audio"] = inbox["audio"]
        /\ UNCHANGED <<aired, saving, wavs>>
    BY <1>2, <1>7, ChannelTaken DEF TakeVad, Take, diskVars
  <2>2. \/ UNCHANGED <<sound, lastStart>>
        \/ sound' = <<>>
    BY <1>1, <1>7 DEF TakeVad, StartUtterance, AudioInOrder
  <2>3. /\ FramesOf(sound') \subseteq FramesOf(sound)
        /\ OneStretch(sound', lastStart')
        /\ saving # "audio" => sound' = <<>>
    BY <1>1, <2>2, FramesOfNone DEF AudioInOrder
  <2>4. AudioInOrder' /\ WavsAreBehind'
    BY <1>1, <2>1, <2>3 DEF AudioInOrder, WavsAreBehind, Before
  <2>5. QED BY <1>1, <2>1, <2>4 DEF RecordingInv, WavsAreApart
<1>8. CASE TakeFinal
  <2>1. /\ inbox'["audio"] = inbox["audio"]
        /\ UNCHANGED <<aired, sound, lastStart, saving, wavs>>
    BY <1>2, <1>8, ChannelTaken DEF TakeFinal, Take, diskVars
  <2>2. QED BY <1>1, <2>1
              DEF RecordingInv, AudioInOrder, WavsAreBehind, WavsAreApart
<1>9. CASE SayBoundary \/ TellFinal
  <2>1. /\ inbox'["audio"] = inbox["audio"]
        /\ UNCHANGED <<aired, sound, lastStart, saving, wavs>>
    BY <1>2, <1>9, ChannelGiven
       DEF SayBoundary, TellFinal, writerVars, memoryVars, diskVars
  <2>2. QED BY <1>1, <2>1
              DEF RecordingInv, AudioInOrder, WavsAreBehind, WavsAreApart
<1>10. CASE SaveWav
  <2>1. UNCHANGED <<inbox, aired, lastStart, saving>>
    BY <1>10 DEF SaveWav, sourceVars
  <2>2. sound' \in {<<>>, sound}
    BY <1>10, WavSaved
  <2>3. AudioInOrder'
    BY <1>1, <2>1, <2>2, FramesOfNone DEF AudioInOrder, Before
  <2>4. CASE wavs' = wavs
    <3>1. WavsAreBehind'
      BY <1>1, <2>1, <2>2, <2>4, FramesOfNone DEF WavsAreBehind, Before
    <3>2. QED BY <1>1, <2>3, <2>4, <3>1 DEF RecordingInv, WavsAreApart
  <2>5. CASE wavs' # wavs
    <3>1. sound' = <<>> /\ FramesOf(sound') = {}
      BY <1>10, <2>5, WavSaved, FramesOfNone
    <3>2. PICK audio \in {<<>>, sound} : wavs' = WithFile(final[1], audio)
      BY <1>10, <2>5, WavSaved
    <3>3. WavsAreBehind' /\ WavsAreApart'
      BY <1>1, <2>1, <3>1, <3>2, WavWritten
    <3>4. QED BY <2>3, <3>3 DEF RecordingInv
  <2>6. QED BY <2>4, <2>5
<1>11. CASE CloseChannel \/ NewWriter \/ CleanUp \/ AudioLagged \/ SaveFile
            \/ SaveManifest \/ CloseSession
  <2>1. UNCHANGED <<inbox, aired, sound, lastStart, saving, wavs>>
    BY <1>11 DEF CloseChannel, NewWriter, CleanUp, AudioLagged, SaveFile,
                 SaveManifest, CloseSession, sourceVars, writerVars,
                 memoryVars, diskVars
  <2>2. QED BY <1>4, <2>1
<1>12. CASE UNCHANGED persistenceVars
  BY <1>4, <1>12
     DEF persistenceVars, sourceVars, writerVars, memoryVars, diskVars
<1>13. QED BY <1>5, <1>6, <1>7, <1>8, <1>9, <1>10, <1>11, <1>12
              DEF PersistenceNext

LEMMA PathsStep ==
  ASSUME PersistenceTypeOK, PathsLeadToTheAudio,
         [PersistenceNext]_persistenceVars
  PROVE  PathsLeadToTheAudio'
<1>1. session \in Seq(Records) /\ Len(session) \in Nat
  BY DEF PersistenceTypeOK
<1>2. CASE UNCHANGED <<wavs, session>>
  BY <1>2 DEF PathsLeadToTheAudio
<1>3. CASE SaveWav
  <2>1. PICK audio \in {<<>>, sound} :
          /\ RecordOf(audio) \in Records
          /\ session' = Append(session, RecordOf(audio))
          /\ \/ audio = <<>> /\ wavs' = wavs
             \/ audio = <<>> /\ wavs' = WithFile(final[1], <<>>)
             \/ wavs' = WithFile(final[1], audio)
    BY <1>3, WavSaved
  <2>2. PICK record \in Records : record = RecordOf(audio)
    BY <2>1
  <2>3. record.id = final[1] /\ record.audio = audio
    BY <2>2 DEF RecordOf
  <2>4. PICK n \in Nat : n = Len(session)
    BY <1>1
  <2>5. /\ Len(session') = n + 1 /\ session'[n + 1] = record
        /\ \A k \in 1 .. n : session'[k] = session[k]
    BY <1>1, <2>1, <2>2, <2>4
  <2>6. ASSUME NEW k \in 1 .. n + 1, session'[k].audio # <<>>
        PROVE  \/ /\ session'[k].id \in DOMAIN wavs'
                  /\ wavs'[session'[k].id] = session'[k].audio
               \/ \E j \in k + 1 .. n + 1 : session'[j].id = session'[k].id
    <3>1. CASE k = n + 1
      <4>1. wavs' = WithFile(final[1], audio)
        BY <2>1, <2>3, <2>5, <2>6, <3>1
      <4>2. QED BY <2>3, <2>5, <3>1, <4>1 DEF WithFile
    <3>2. CASE k # n + 1
      <4>1. k \in 1 .. n /\ n + 1 \in k + 1 .. n + 1
            /\ k + 1 .. n \subseteq 1 .. n
            /\ k + 1 .. n \subseteq k + 1 .. n + 1
        BY <3>2
      <4>2. session'[k] = session[k]
        BY <2>5, <4>1
      <4>3. CASE \E j \in k + 1 .. n : session[j].id = session[k].id
        BY <2>5, <4>1, <4>2, <4>3
      <4>4. CASE /\ session[k].id \in DOMAIN wavs
                 /\ wavs[session[k].id] = session[k].audio
        <5>1. CASE session[k].id = final[1]
          BY <2>3, <2>5, <4>1, <4>2, <5>1
        <5>2. CASE session[k].id # final[1]
          BY <2>1, <4>2, <4>4, <5>2 DEF WithFile
        <5>3. QED BY <5>1, <5>2
      <4>5. QED BY <2>4, <2>6, <4>1, <4>2, <4>3, <4>4 DEF PathsLeadToTheAudio
    <3>3. QED BY <3>1, <3>2
  <2>7. QED BY <2>5, <2>6 DEF PathsLeadToTheAudio
<1>4. CASE AirFrame \/ SayBoundary \/ TellFinal \/ CloseChannel \/ NewWriter
           \/ CleanUp \/ TakeAudio \/ AudioLagged \/ TakeVad \/ TakeFinal
           \/ SaveFile \/ SaveManifest \/ CloseSession
           \/ UNCHANGED persistenceVars
  <2>1. UNCHANGED <<wavs, session>>
    BY <1>4 DEF AirFrame, SayBoundary, TellFinal, CloseChannel, NewWriter,
                CleanUp, TakeAudio, AudioLagged, TakeVad, TakeFinal,
                SaveFile, SaveUtterance, GivesUp, SaveManifest, CloseSession,
                persistenceVars, writerVars, memoryVars, diskVars
  <2>2. QED BY <1>2, <2>1
<1>5. QED BY <1>3, <1>4 DEF PersistenceNext

\* The samples of a wav were all taken after one start of speech, in the
\* order they were recorded, and no sample is in two wavs; a record that
\* names a wav finds its own samples there, unless a later transcript had the
\* same utterance id.  It is so however late the transcripts come and
\* whichever writes fail, because a start clears the audio in memory and the
\* writing of a wav takes it away.
THEOREM WavsHoldTheirAudio == PersistenceSpec => []RecordingsAreRight
<1>1. ASSUME PersistenceInit PROVE RecordingInv /\ PathsLeadToTheAudio
  <2>1. /\ inbox["audio"] = <<>> /\ sound = <<>> /\ session = <<>>
        /\ DOMAIN wavs = {}
    BY <1>1 DEF PersistenceInit, Channels
  <2>2. QED BY <2>1, FramesOfNone, RangeOfNone, AscendingNone
              DEF RecordingInv, AudioInOrder, WavsAreBehind, WavsAreApart,
                  Before, PathsLeadToTheAudio
<1>2. ASSUME PersistenceTypeOK, RecordingInv, PathsLeadToTheAudio,
             [PersistenceNext]_persistenceVars
      PROVE  RecordingInv' /\ PathsLeadToTheAudio'
  BY <1>2, RecordingStep, PathsStep, PersistenceAssumption
<1>3. RecordingInv /\ PathsLeadToTheAudio => RecordingsAreRight
  BY DEF RecordingInv, RecordingsAreRight
<1>4. QED BY <1>1, <1>2, <1>3, PersistenceTyped, PTL DEF PersistenceSpec

-----------------------------------------------------------------------------
(***************************************************************************)
(* Lifecycle.  Where the program is decides what may be under way: a start *)
(* only while main or the dashboard's loop awaits it, a shutdown only once *)
(* they are past it, and an AppHandle from the end of the one to the end   *)
(* of the other.                                                           *)
(***************************************************************************)
Parts == Tasks \union {"capture", "gc", "replaced"} \union Detached

LifecycleTypeOK ==
    /\ at \in {"boot", "ui", "starting", "switching", "waiting", "stopping",
               "leaving", "stopped", "exited"}
    /\ startStep \in {"no", "capture", "plugins", "tasks"}
    /\ stopStep \in {"no", "capture", "joining", "abort", "unload",
                     "unloading", "await", "done"}
    /\ attempts \in Nat /\ failed \subseteq Nat /\ owned \in Nat
    /\ running \subseteq Nat \X Parts /\ aborted \subseteq Nat \X Parts

Phases ==
    /\ at = "starting" <=> startStep # "no"
    /\ stopStep # "no" => at \in {"stopping", "leaving", "stopped", "exited"}
    /\ startStep # "no" => attempts > 0
    /\ startStep # "no" \/ at = "boot" => owned = 0
    /\ at \in {"waiting", "switching"} => owned > 0
    /\ stopStep \notin {"no", "done"} => owned > 0
    /\ stopStep = "done" => owned = 0

LEMMA LifecycleTypeStep ==
  ASSUME LifecycleTypeOK, Phases, [LifecycleNext]_lifecycleVars
  PROVE  LifecycleTypeOK'
<1> USE DEF LifecycleTypeOK, pipelineVars, modeVars, signalVars
<1>1. ASSUME NEW names \in SUBSET Parts, Began(names)
      PROVE  running' \subseteq Nat \X Parts
  BY <1>1 DEF Began, Part
<1>2. /\ <<owned, "trigger">> \in Nat \X Parts
      /\ <<owned, "replaced">> \in Nat \X Parts
      /\ <<attempts, "gc">> \in Nat \X Parts
      /\ \A t \in DOMAIN Detaches : <<owned, Detaches[t]>> \in Nat \X Parts
  BY DEF Parts, Tasks, Detached, Detaches
<1>3. CASE Interrupt \/ NotifyWaiters \/ Boot \/ KeyStart \/ CallBegins
           \/ CallEnds \/ KeyMode
  <2>1. /\ at' \in {at, "ui", "starting", "switching"}
        /\ startStep' \in {startStep, "capture"}
        /\ attempts' \in {attempts, attempts + 1}
    BY <1>3
    DEF Interrupt, NotifyWaiters, Boot, KeyStart, CallBegins, CallEnds,
        KeyMode
  <2>2. UNCHANGED <<stopStep, failed, owned, running, aborted>>
    BY <1>3
    DEF Interrupt, NotifyWaiters, Boot, KeyStart, CallBegins, CallEnds,
        KeyMode
  <2>3. QED BY <2>1, <2>2
<1>4. CASE SpawnAudio
  <2>1. /\ at' \in {at, "ui", "exited"} /\ failed' \subseteq Nat
        /\ startStep' \in {"no", "plugins"}
    BY <1>4 DEF SpawnAudio, StartFails
  <2>2. running' \subseteq Nat \X Parts
    BY <1>1, <1>4 DEF SpawnAudio, Parts, Tasks
  <2>3. QED BY <1>4, <2>1, <2>2 DEF SpawnAudio
<1>5. CASE InitializePlugins
  <2>1. /\ at' \in {at, "ui", "exited"} /\ failed' \subseteq Nat
        /\ startStep' \in {"no", "tasks"}
    BY <1>5 DEF InitializePlugins, StartFails
  <2>2. running' \subseteq Nat \X Parts
    BY <1>1, <1>5 DEF InitializePlugins, Parts
  <2>3. aborted' \subseteq Nat \X Parts
    BY <1>2, <1>5 DEF InitializePlugins, Part
  <2>4. QED BY <1>5, <2>1, <2>2, <2>3 DEF InitializePlugins
<1>6. CASE SpawnTasks
  <2>1. Spawned \in SUBSET Parts
    BY DEF Spawned, Parts, Tasks
  <2>2. running' \subseteq Nat \X Parts
    BY <1>1, <1>6, <2>1 DEF SpawnTasks
  <2>3. /\ at' \in {"ui", "waiting"} /\ owned' = attempts
        /\ startStep' = "no"
    BY <1>6 DEF SpawnTasks
  <2>4. QED BY <1>6, <2>2, <2>3 DEF SpawnTasks
<1>7. CASE DetachedBegins
  BY <1>2, <1>7 DEF DetachedBegins
<1>8. CASE DetachedEnds \/ TriggerEnds
  BY <1>8 DEF DetachedEnds, TriggerEnds
<1>9. CASE SetActivationMode
  <2>1. /\ at' = "ui" /\ UNCHANGED <<startStep, stopStep, attempts, failed,
                                     owned>>
    BY <1>9 DEF SetActivationMode
  <2>2. running' \subseteq Nat \X Parts
    BY <1>2, <1>9 DEF SetActivationMode, Trigger
  <2>3. aborted' \subseteq Nat \X Parts
    BY <1>2, <1>9 DEF SetActivationMode, Trigger
  <2>4. QED BY <2>1, <2>2, <2>3
<1>10. CASE StopWaiting \/ KeyQuit
  BY <1>10 DEF StopWaiting, KeyQuit
<1>11. CASE StopCapture \/ AbortTasks \/ TaskEnds
  BY <1>11 DEF StopCapture, AbortTasks, TaskEnds
<1>12. CASE UnloadPlugins
  BY <1>12 DEF UnloadPlugins
<1>13. CASE ShutdownReturns \/ Exit
  <2>1. /\ at' \in {at, "stopped", "exited"}
        /\ stopStep' \in {stopStep, "done"}
        /\ owned' \in {owned, 0}
    BY <1>13 DEF ShutdownReturns, Exit
  <2>2. UNCHANGED <<startStep, attempts, failed, running, aborted>>
    BY <1>13 DEF ShutdownReturns, Exit
  <2>3. QED BY <2>1, <2>2
<1>14. CASE UNCHANGED lifecycleVars
  BY <1>14 DEF lifecycleVars
<1>15. QED
  BY <1>3, <1>4, <1>5, <1>6, <1>7, <1>8, <1>9, <1>10, <1>11, <1>12, <1>13,
     <1>14
  DEF LifecycleNext

LEMMA PhasesStep ==
  ASSUME LifecycleTypeOK, Phases, [LifecycleNext]_lifecycleVars
  PROVE  Phases'
<1> USE DEF Phases, pipelineVars, modeVars, signalVars
<1>0. attempts \in Nat /\ owned \in Nat
  BY DEF LifecycleTypeOK
<1>1. CASE UNCHANGED <<at, startStep, stopStep, attempts, owned>>
  BY <1>1
<1>2. CASE Boot \/ KeyStart
  BY <1>0, <1>2 DEF Boot, KeyStart, MayStart
<1>3. CASE SpawnAudio \/ InitializePlugins
  BY <1>3 DEF SpawnAudio, InitializePlugins, StartFails
<1>4. CASE SpawnTasks
  BY <1>0, <1>4 DEF SpawnTasks
<1>5. CASE KeyMode \/ SetActivationMode
  BY <1>0, <1>5 DEF KeyMode, SetActivationMode
<1>6. CASE StopWaiting \/ KeyQuit
  BY <1>0, <1>6 DEF StopWaiting, KeyQuit
<1>7. CASE StopCapture \/ AbortTasks \/ UnloadPlugins
  BY <1>7 DEF StopCapture, AbortTasks, UnloadPlugins
<1>8. CASE ShutdownReturns \/ Exit
  BY <1>8 DEF ShutdownReturns, Exit
<1>9. CASE DetachedBegins \/ CallBegins \/ CallEnds \/ DetachedEnds
           \/ TriggerEnds \/ TaskEnds
  BY <1>1, <1>9
  DEF DetachedBegins, CallBegins, CallEnds, DetachedEnds, TriggerEnds,
      TaskEnds
<1>10. CASE Interrupt \/ NotifyWaiters \/ UNCHANGED lifecycleVars
  BY <1>1, <1>10 DEF Interrupt, NotifyWaiters, lifecycleVars
<1>11. QED
  BY <1>2, <1>3, <1>4, <1>5, <1>6, <1>7, <1>8, <1>9, <1>10
  DEF LifecycleNext

\* A part that runs is of a start that failed, of the pipeline that is
\* owned, of the one being started, or a shutdown has not awaited it.
NotAwaited(p) == (p[2] \in Dropped /\ p \in aborted) \/ p[2] \in Detached

PartsAccounted ==
    /\ \A p \in running :
         \/ p[1] \in failed
         \/ p[1] = owned /\ owned > 0
         \/ p[1] = attempts /\ startStep # "no"
         \/ stopStep = "done" /\ NotAwaited(p)
    /\ \A p \in running : p[2] = "replaced" => p \in aborted
    /\ stopStep \in {"abort", "unload", "unloading", "await"} =>
         <<owned, "capture">> \notin running
    /\ stopStep \in {"unload", "unloading", "await"} =>
         running \intersect Mine(Tasks) \subseteq aborted
    /\ stopStep = "await" => running \intersect Mine({"gc"}) \subseteq aborted

LEMMA PartsStep ==
  ASSUME LifecycleTypeOK, Phases, PartsAccounted,
         [LifecycleNext]_lifecycleVars
  PROVE  PartsAccounted'
<1> USE DEF PartsAccounted, NotAwaited, Mine
<1>0. /\ attempts \in Nat /\ owned \in Nat
      /\ running \subseteq Nat \X Parts
  BY DEF LifecycleTypeOK
<1>1. CASE UNCHANGED <<startStep, attempts, failed, running, aborted, owned,
                       stopStep>>
  BY <1>1
<1>2. CASE Boot \/ KeyStart
  BY <1>2 DEF Boot, KeyStart, MayStart, Phases
<1>3. CASE SpawnAudio \/ InitializePlugins
  <2>1. /\ stopStep = "no" /\ stopStep' = "no" /\ startStep # "no"
        /\ aborted \subseteq aborted' /\ UNCHANGED <<attempts, owned>>
    BY <1>3 DEF SpawnAudio, InitializePlugins, Phases
  <2>2. /\ failed \subseteq failed'
        /\ startStep' # "no" \/ attempts \in failed'
    BY <1>3 DEF SpawnAudio, InitializePlugins, StartFails
  <2>3. \A p \in running' :
          p \in running \/ (p[1] = attempts /\ p[2] # "replaced")
    BY <1>3 DEF SpawnAudio, InitializePlugins, Began, Part
  <2>4. QED BY <2>1, <2>2, <2>3
<1>4. CASE SpawnTasks
  <2>1. /\ stopStep = "no" /\ stopStep' = "no" /\ owned = 0 /\ attempts > 0
        /\ owned' = attempts /\ UNCHANGED <<attempts, failed, aborted>>
    BY <1>4 DEF SpawnTasks, Phases
  <2>2. \A p \in running' :
          p \in running \/ (p[1] = attempts /\ p[2] # "replaced")
    BY <1>4 DEF SpawnTasks, Began, Part, Spawned
  <2>3. QED BY <2>1, <2>2
<1>5. CASE DetachedBegins
  <2>1. PICK name \in Detached : running' = running \union {<<owned, name>>}
    BY <1>5 DEF DetachedBegins, Detaches, Detached
  <2>2. /\ owned > 0
        /\ UNCHANGED <<startStep, attempts, failed, aborted, owned, stopStep>>
    BY <1>5 DEF DetachedBegins
  <2>3. name \notin Tasks /\ name \notin {"capture", "gc", "replaced"}
    BY DEF Detached, Tasks
  <2>4. \A p \in running' :
          p \in running \/ (p[1] = owned /\ p[2] = name)
    BY <2>1
  <2>5. /\ <<owned, "capture">> \in running' => <<owned, "capture">> \in running
        /\ running' \intersect Mine(Tasks) \subseteq running
        /\ running' \intersect Mine({"gc"}) \subseteq running
    BY <2>1, <2>3
  <2>6. QED BY <2>2, <2>3, <2>4, <2>5
<1>6. CASE DetachedEnds
  BY <1>6 DEF DetachedEnds
<1>7. CASE TriggerEnds
  BY <1>7 DEF TriggerEnds, Trigger
<1>8. CASE SetActivationMode
  <2>1. /\ stopStep = "no" /\ owned > 0
        /\ UNCHANGED <<startStep, attempts, failed, owned, stopStep>>
    BY <1>8 DEF SetActivationMode, Phases
  <2>2. \A p \in running' : p \in running \/ p[1] = owned
    BY <1>8 DEF SetActivationMode, Trigger
  <2>3. ASSUME NEW p \in running', p[2] = "replaced" PROVE p \in aborted'
    BY <1>8, <2>3 DEF SetActivationMode, Trigger
  <2>4. QED BY <2>1, <2>2, <2>3
<1>9. CASE StopWaiting \/ KeyQuit
  BY <1>9 DEF StopWaiting, KeyQuit, Phases
<1>10. CASE StopCapture
  BY <1>10 DEF StopCapture
<1>11. CASE AbortTasks
  BY <1>11 DEF AbortTasks, ToAbort
<1>12. CASE UnloadPlugins
  BY <1>12 DEF UnloadPlugins
<1>13. CASE TaskEnds
  BY <1>13 DEF TaskEnds
<1>14. CASE ShutdownReturns
  <2>1. /\ stopStep = "await" /\ stopStep' = "done" /\ startStep = "no"
        /\ UNCHANGED <<running, aborted, failed, startStep, attempts>>
        /\ owned > 0 /\ owned' = 0
    BY <1>14 DEF ShutdownReturns, Phases
  <2>2. ASSUME NEW p \in running, p[1] = owned
        PROVE  NotAwaited(p)
    <3>1. p = <<owned, p[2]>> /\ p[2] \in Parts
      BY <1>0, <2>2
    <3>2. p[2] # "capture"
      BY <2>1, <3>1
    <3>3. p[2] \notin Awaited
      BY <1>14, <2>2, <3>1 DEF ShutdownReturns, AwaitedAreOver
    <3>4. p[2] \in Dropped \union Detached
      BY <3>1, <3>2, <3>3 DEF Parts, Awaited, Dropped
    <3>5. CASE p[2] = "forward"
      BY <2>1, <2>2, <3>1, <3>5 DEF Tasks, Dropped
    <3>6. CASE p[2] = "gc"
      BY <2>1, <2>2, <3>1, <3>6 DEF Dropped
    <3>7. CASE p[2] = "replaced"
      BY <2>2, <3>7 DEF Dropped
    <3>8. QED BY <3>4, <3>5, <3>6, <3>7 DEF Dropped
  <2>3. \A p \in running' : p[2] = "replaced" => p \in aborted'
    BY <2>1
  <2>4. \A p \in running' : p[1] \in failed' \/ NotAwaited(p)'
    BY <2>1, <2>2
  <2>5. QED BY <2>1, <2>3, <2>4
<1>15. CASE CallBegins \/ CallEnds \/ KeyMode \/ Exit
  BY <1>1, <1>15
  DEF CallBegins, CallEnds, KeyMode, Exit, pipelineVars
<1>16. CASE Interrupt \/ NotifyWaiters \/ UNCHANGED lifecycleVars
  BY <1>1, <1>16 DEF Interrupt, NotifyWaiters, lifecycleVars, pipelineVars
<1>17. QED
  BY <1>2, <1>3, <1>4, <1>5, <1>6, <1>7, <1>8, <1>9, <1>10, <1>11, <1>12,
     <1>13, <1>14, <1>15, <1>16
  DEF LifecycleNext

LEMMA LifecycleTypes ==
  LifecycleInit /\ [][LifecycleNext]_lifecycleVars
    => [](LifecycleTypeOK /\ Phases /\ PartsAccounted)
<1>1. ASSUME LifecycleInit
      PROVE  LifecycleTypeOK /\ Phases /\ PartsAccounted
  BY <1>1 DEF LifecycleInit, LifecycleTypeOK, Phases, PartsAccounted
<1>2. QED
  BY <1>1, LifecycleTypeStep, PhasesStep, PartsStep, PTL

\* Once a shutdown has returned nothing of the pipeline runs but tasks it
\* has told to end and does not await and tasks nobody has a handle of,
\* whatever the starts before it left behind and however often the mode was
\* switched.
THEOREM ShutdownStops == LifecycleSpec => []StoppedMeansStopped
<1>1. LifecycleTypeOK /\ Phases /\ PartsAccounted => StoppedMeansStopped
  BY DEF LifecycleTypeOK, Phases, PartsAccounted, NotAwaited,
         StoppedMeansStopped
<1>2. QED BY <1>1, LifecycleTypes, PTL DEF LifecycleSpec

\* A dashboard that is not starting a pipeline has no parts but those of
\* the pipeline it owns and of starts that failed.
THEOREM OrphansExplained == LifecycleSpec => []OrphansAreOfFailedStarts
<1>1. LifecycleTypeOK /\ Phases /\ PartsAccounted => OrphansAreOfFailedStarts
  BY DEF LifecycleTypeOK, Phases, PartsAccounted, OrphansAreOfFailedStarts
<1>2. QED BY <1>1, LifecycleTypes, PTL DEF LifecycleSpec

-----------------------------------------------------------------------------
(***************************************************************************)
(* Dashboard.  The loop subscribes once, before it has been told anything. *)
(* From then on, while the trigger is the last that spoke, the last event  *)
(* under way, or else what is shown, says whether it is in mid-speech.     *)
(***************************************************************************)
DashboardTypeOK ==
    /\ loop \in {"down", "starting", "up", "switching"}
    /\ triggers \subseteq {"trigger", "replaced"}
    /\ inSpeech \subseteq {"trigger", "replaced"}
    /\ unread \in Seq({"start", "end"}) /\ uiQueue \in Seq({"start", "end"})
    /\ forwarder \in {"yes", "no"} /\ speaking \in {"yes", "no"}
    /\ teller \in {"none", "trigger", "replaced"}

SaysIt(event) == event = "start" <=> "trigger" \in inSpeech

LastTold ==
    IF unread # <<>> THEN SaysIt(unread[Len(unread)])
    ELSE IF uiQueue # <<>> THEN SaysIt(uiQueue[Len(uiQueue)])
    ELSE speaking = "yes" <=> "trigger" \in inSpeech

Told ==
    /\ loop \in {"down", "starting"} => forwarder = "no" /\ teller = "none"
    /\ forwarder = "yes" /\ teller = "trigger" => LastTold

\* The last of a queue stays the last when the first goes.
LEMMA LastStays ==
  ASSUME NEW S, NEW q \in Seq(S), q # <<>>
  PROVE  IF Tail(q) = <<>> THEN q[Len(q)] = Head(q)
         ELSE Tail(q)[Len(Tail(q))] = q[Len(q)]
<1>1. /\ Len(Tail(q)) = Len(q) - 1 /\ Head(q) = q[1] /\ Len(q) \in Nat
      /\ Tail(q) \in Seq(S)
      /\ \A i \in 1 .. Len(Tail(q)) : Tail(q)[i] = q[i + 1]
  BY HeadTaken, HeadTailProperties
<1>2. CASE Tail(q) = <<>>
  <2>1. Len(q) = 1
    <3>1. PICK t \in Seq(S) :
            t = Tail(q) /\ Len(t) = Len(q) - 1 /\ Len(q) > 0
      BY HeadTaken
    <3>2. Len(t) = 0
      BY <1>2, <3>1
    <3>3. QED BY <3>1, <3>2
  <2>2. QED BY <1>1, <1>2, <2>1
<1>3. CASE Tail(q) # <<>>
  <2>1. Len(Tail(q)) \in 1 .. Len(Tail(q))
    BY <1>1, <1>3, EmptySeq
  <2>2. Tail(q)[Len(Tail(q))] = q[Len(Tail(q)) + 1]
    BY <1>1, <2>1
  <2>3. Len(Tail(q)) + 1 = Len(q)
    BY <1>1
  <2>4. QED BY <1>3, <2>2, <2>3
<1>4. QED BY <1>2, <1>3

LEMMA LastAppended ==
  ASSUME NEW S, NEW q \in Seq(S), NEW e \in S
  PROVE  /\ Append(q, e) \in Seq(S) /\ Append(q, e) # <<>>
         /\ Append(q, e)[Len(Append(q, e))] = e
  BY AppendProperties

LEMMA ToldStep ==
  ASSUME DashboardTypeOK, Told, [DashboardNext]_dashboardVars
  PROVE  DashboardTypeOK' /\ Told'
<1> DEFINE E == {"start", "end"}
<1>0. /\ unread \in Seq(E) /\ uiQueue \in Seq(E)
      /\ forwarder \in {"yes", "no"} /\ speaking \in {"yes", "no"}
      /\ teller \in {"none", "trigger", "replaced"}
  BY DEF DashboardTypeOK
<1>1. CASE PipelineStarts \/ SubscribeVad \/ ToggleMode \/ TriggerStops
  <2>1. /\ UNCHANGED <<inSpeech, unread, teller, uiQueue, speaking>>
        /\ loop' \in {"starting", "up", "switching", loop}
        /\ loop' = "starting" => loop \in {"down", "starting"}
        /\ loop' = "down" => loop = "down"
        /\ triggers' \subseteq {"trigger", "replaced"}
        /\ \/ forwarder' = forwarder
           \/ forwarder' = "yes" /\ loop = "starting" /\ loop' = "up"
    BY <1>1
    DEF PipelineStarts, SubscribeVad, ToggleMode, TriggerStops, switchVars,
        triggerVars, toldVars, DashboardTypeOK
  <2>2. QED BY <2>1 DEF DashboardTypeOK, Told, LastTold, SaysIt
<1>2. CASE SwitchMode
  <2>1. /\ loop = "switching" /\ loop' = "up"
        /\ UNCHANGED <<unread, forwarder, uiQueue, speaking>>
        /\ triggers' \subseteq {"trigger", "replaced"}
        /\ inSpeech' \subseteq {"trigger", "replaced"}
        /\ \/ UNCHANGED <<inSpeech, teller>>
           \/ teller' \in {"none", "replaced"}
    BY <1>2 DEF SwitchMode, DashboardTypeOK
  <2>2. QED BY <2>1 DEF DashboardTypeOK, Told, LastTold, SaysIt
<1>3. CASE VadEvent
  <2>1. PICK t \in triggers :
          /\ inSpeech' = IF t \in inSpeech THEN inSpeech \ {t}
                         ELSE inSpeech \union {t}
          /\ IF forwarder = "yes"
             THEN /\ unread' = Append(unread, IF t \in inSpeech THEN "end"
                                              ELSE "start")
                  /\ teller' = t
             ELSE UNCHANGED <<unread, teller>>
    BY <1>3 DEF VadEvent
  <2>2. UNCHANGED <<loop, triggers, forwarder, uiQueue, speaking>>
        /\ t \in {"trigger", "replaced"}
    BY <1>3 DEF VadEvent, DashboardTypeOK
  <2>3. inSpeech' \subseteq {"trigger", "replaced"}
    BY <2>1, <2>2 DEF DashboardTypeOK
  <2>4. CASE forwarder = "yes"
    <3>1. PICK event \in E : event = IF t \in inSpeech THEN "end" ELSE "start"
      OBVIOUS
    <3>2. /\ unread' \in Seq(E) /\ unread' # <<>>
          /\ unread'[Len(unread')] = event
      BY <1>0, <2>1, <2>4, <3>1, LastAppended
    <3>3. t = "trigger" => (event = "start" <=> "trigger" \in inSpeech')
      BY <2>1, <3>1
    <3>4. teller' = t
      BY <2>1, <2>4
    <3>5. Told'
      BY <1>3, <2>2, <2>4, <3>2, <3>3, <3>4 DEF Told, LastTold, SaysIt
    <3>6. QED BY <2>2, <2>3, <3>2, <3>4, <3>5 DEF DashboardTypeOK
  <2>5. CASE forwarder = "no"
    BY <2>1, <2>2, <2>3, <2>5 DEF DashboardTypeOK, Told
  <2>6. QED BY <1>0, <2>4, <2>5
<1>4. CASE Forward
  <2>0. /\ UNCHANGED <<loop, triggers, inSpeech, teller, speaking>>
        /\ forwarder = "yes"
    BY <1>4 DEF Forward, triggerVars
  <2>1. CASE forwarder' = "no" /\ unread' = <<>> /\ uiQueue' = uiQueue
    BY <2>0, <2>1 DEF DashboardTypeOK, Told
  <2>2. CASE /\ unread # <<>> /\ unread' = Tail(unread)
             /\ uiQueue' = Append(uiQueue, Head(unread))
             /\ forwarder' = forwarder
    <3>1. Head(unread) \in E /\ unread' \in Seq(E)
      BY <1>0, <2>2, HeadTaken
    <3>2. /\ uiQueue' \in Seq(E) /\ uiQueue' # <<>>
          /\ uiQueue'[Len(uiQueue')] = Head(unread)
      BY <1>0, <2>2, <3>1, LastAppended
    <3>3. IF unread' = <<>> THEN unread[Len(unread)] = Head(unread)
          ELSE unread'[Len(unread')] = unread[Len(unread)]
      BY <1>0, <2>2, LastStays
    <3>4. LastTold => LastTold'
      BY <2>0, <2>2, <3>2, <3>3 DEF LastTold, SaysIt
    <3>5. QED BY <2>0, <2>2, <3>1, <3>2, <3>4 DEF DashboardTypeOK, Told
  <2>3. QED BY <1>4, <2>1, <2>2 DEF Forward
<1>5. CASE Show
  <2>0. /\ UNCHANGED <<loop, triggers, inSpeech, teller, unread, forwarder>>
        /\ uiQueue # <<>> /\ uiQueue' = Tail(uiQueue)
        /\ speaking' = Speaks(Head(uiQueue))
    BY <1>5 DEF Show, triggerVars
  <2>1. IF uiQueue' = <<>> THEN uiQueue[Len(uiQueue)] = Head(uiQueue)
        ELSE uiQueue'[Len(uiQueue')] = uiQueue[Len(uiQueue)]
    BY <1>0, <2>0, LastStays
  <2>2. LastTold => LastTold'
    BY <2>0, <2>1 DEF LastTold, SaysIt, Speaks
  <2>3. uiQueue' \in Seq(E) /\ speaking' \in {"yes", "no"}
    BY <1>0, <2>0, HeadTaken DEF Speaks
  <2>4. QED BY <2>0, <2>2, <2>3 DEF DashboardTypeOK, Told
<1>6. CASE UNCHANGED dashboardVars
  BY <1>6
  DEF dashboardVars, switchVars, triggerVars, toldVars, DashboardTypeOK,
      Told, LastTold, SaysIt
<1>7. QED
  BY <1>1, <1>2, <1>3, <1>4, <1>5, <1>6 DEF DashboardNext

\* A dashboard that has caught up shows whether the trigger that spoke last
\* is in mid-speech, however its loop, its forwarder and the triggers
\* interleave, unless the mode has been switched since.
THEOREM DashboardShowsSpeech == DashboardSpec => []ShowsWhoSpeaks
<1>1. ASSUME DashboardInit PROVE DashboardTypeOK /\ Told
  BY <1>1 DEF DashboardInit, DashboardTypeOK, Told
<1>2. Told => ShowsWhoSpeaks
  BY DEF Told, LastTold, ShowsWhoSpeaks, CaughtUp
<1>3. QED BY <1>1, <1>2, ToldStep, PTL DEF DashboardSpec

-----------------------------------------------------------------------------
(***************************************************************************)
(* AudioDump.  What the writer has taken, in the file or in its buffer,    *)
(* and the frames that wait form one line in the order of speech; until    *)
(* the audio is over every frame sent is in it, has been reported, could   *)
(* not be written, or was lost by the last flush.                          *)
(***************************************************************************)
Endings == {"open", "lag", "silence", "write", "closed", "quit"}

DumpTypeOK ==
    /\ dumpFormat \in {"pcm", "wav"} /\ onAir \in {"yes", "no"}
    /\ dumpStep \in {"off", "opening", "first", "recording", "flushing",
                     "ended"}
    /\ ending \in {"none"} \union Endings /\ admitted \in {"yes", "no"}
    /\ sent \in Nat /\ waiting \in Seq(Int)
    /\ recording \in Seq(Int) /\ buffered \in Seq(Int)
    /\ reported \in Nat /\ refusals \in Nat /\ lost \in Nat

Recorded == recording \o buffered

DumpLine == /\ Ascending(Recorded \o waiting)
            /\ \A f \in Range(Recorded \o waiting) : f <= sent

DumpAccounts ==
    /\ dumpStep \in {"off", "opening", "first"} =>
         /\ recording = <<>> /\ buffered = <<>>
         /\ reported = 0 /\ refusals = 0 /\ sent = Len(waiting)
    /\ dumpStep = "first" => dumpFormat = "wav"
    /\ dumpStep # "ended" => lost = 0
    /\ dumpStep \notin {"flushing", "ended"} => ending = "none"
    /\ dumpStep \in {"flushing", "ended"} => ending # "none"
    /\ dumpStep = "flushing" => ending \in {"write", "closed"}
    /\ ending = "closed" => onAir = "no"
    /\ dumpStep = "recording" \/ ending = "closed" =>
         sent = Len(recording) + Len(buffered) + Len(waiting)
                + reported + refusals + lost
    /\ dumpStep = "recording" /\ dumpFormat = "pcm" => refusals = 0
    /\ ending = "write" => dumpFormat = "pcm" /\ refusals = 1
    /\ ending \in {"open", "lag", "silence"} => recording = <<>>
    /\ lost > 0 /\ ending = "closed" /\ dumpFormat = "wav" => admitted = "yes"

DumpInv == DumpTypeOK /\ DumpLine /\ DumpAccounts

\* What is skipped is the beginning of what waits.
LEMMA MissedBound ==
  ASSUME waiting \in Seq(Int), RecorderIsBehind
  PROVE  Missed \in 0 .. Len(waiting) /\ Missed \in Nat
<1>1. Len(waiting) \in Nat /\ RecordCap \in Nat
  BY AudioDumpAssumption DEF AudioDumpAssumption
<1>2. QED BY <1>1 DEF Missed, RecorderIsBehind

\* What goes from the buffer to the file has been taken already.
LEMMA WrittenKeeps ==
  ASSUME recording \in Seq(Int), buffered \in Seq(Int),
         NEW n \in 0 .. Len(buffered), Written(n)
  PROVE  /\ recording' \in Seq(Int) /\ buffered' \in Seq(Int)
         /\ Recorded' = Recorded
         /\ Len(recording') = Len(recording) + n
         /\ Len(buffered') = Len(buffered) - n
<1>1. PICK a \in Seq(Int), b \in Seq(Int) :
        /\ a = SubSeq(buffered, 1, n) /\ Len(a) = n
        /\ b = SubSeq(buffered, n + 1, Len(buffered))
        /\ buffered = a \o b
  <2>1. /\ SubSeq(buffered, 1, n) \in Seq(Int)
        /\ Len(SubSeq(buffered, 1, n)) = n
        /\ SubSeq(buffered, n + 1, Len(buffered)) \in Seq(Int)
        /\ buffered = SubSeq(buffered, 1, n)
                      \o SubSeq(buffered, n + 1, Len(buffered))
    BY FramesCutInTwo
  <2>2. QED BY <2>1
<1>0. Len(buffered) = Len(a) + Len(b) /\ Len(b) \in Nat
  <2>1. Len(a \o b) = Len(a) + Len(b) /\ Len(b) \in Nat
    BY <1>1, FramesConcat, Zenon
  <2>2. QED BY <1>1, <2>1
<1>2. /\ recording \o a \in Seq(Int)
      /\ Len(recording \o a) = Len(recording) + Len(a)
  BY <1>1, FramesConcat
<1>3. (recording \o a) \o b = recording \o (a \o b)
  BY RegroupedFrames, SMTT(30)
<1>4. recording' = recording \o a /\ buffered' = b
  BY <1>1 DEF Written
<1>5. (recording \o a) \o b = recording \o buffered
  BY <1>1, <1>3
<1>6. Len(b) = Len(buffered) - n
  <2>1. PICK k \in Nat : k = Len(b)
    BY <1>0
  <2>2. PICK m \in Nat : m = Len(a) /\ m = n
    BY <1>1
  <2>3. Len(buffered) = m + k
    BY <1>0, <2>1, <2>2
  <2>4. QED BY <2>1, <2>2, <2>3
<1>7. QED BY <1>1, <1>2, <1>4, <1>5, <1>6 DEF Recorded

\* A frame joins what has been taken.
LEMMA AcceptedJoins ==
  ASSUME recording \in Seq(Int), buffered \in Seq(Int), NEW f \in Int,
         Accept(f) \/ WriteThenAccept(f)
  PROVE  /\ recording' \in Seq(Int) /\ buffered' \in Seq(Int)
         /\ Recorded' = Append(Recorded, f) /\ refusals' = refusals
         /\ Len(recording') + Len(buffered')
              = Len(recording) + Len(buffered) + 1
<1>0. Len(recording) \in Nat /\ Len(buffered) \in Nat
  OBVIOUS
<1>1. CASE Accept(f)
  <2>1. /\ Append(buffered, f) \in Seq(Int)
        /\ Len(Append(buffered, f)) = Len(buffered) + 1
    BY LastAdded
  <2>2. recording \o Append(buffered, f) = Append(recording \o buffered, f)
    BY FramesJoined
  <2>3. /\ buffered' = Append(buffered, f) /\ recording' = recording
        /\ refusals' = refusals
    BY <1>1 DEF Accept
  <2>4. QED BY <1>0, <2>1, <2>2, <2>3 DEF Recorded
<1>2. CASE WriteThenAccept(f)
  <2>1. PICK taken \in Seq(Int) :
          taken = recording \o buffered
          /\ Len(taken) = Len(recording) + Len(buffered)
    BY ConcatParts
  <2>2. Append(taken, f) = taken \o <<f>> /\ <<f>> \in Seq(Int)
    BY LastAdded
  <2>3. /\ recording' = taken /\ buffered' = <<f>> /\ refusals' = refusals
    BY <1>2, <2>1 DEF WriteThenAccept
  <2>4. Len(<<f>>) = 1
    OBVIOUS
  <2>5. QED BY <1>0, <2>1, <2>2, <2>3, <2>4 DEF Recorded
<1>3. QED BY <1>1, <1>2

\* What a refused frame and a last flush do to the writer.
LEMMA RefusedStays ==
  ASSUME recording \in Seq(Int), buffered \in Seq(Int), Refuse
  PROVE  /\ recording' \in Seq(Int) /\ buffered' \in Seq(Int)
         /\ Recorded' = Recorded /\ refusals' = refusals + 1
         /\ Len(recording') + Len(buffered') = Len(recording) + Len(buffered)
<1>0. Len(recording) \in Nat /\ Len(buffered) \in Nat
  OBVIOUS
<1>1. PICK n \in 0 .. Len(buffered) : Written(n)
  BY <1>0 DEF Refuse
<1>2. refusals' = refusals + 1
  BY DEF Refuse
<1>3. /\ recording' \in Seq(Int) /\ buffered' \in Seq(Int)
      /\ Recorded' = Recorded
      /\ Len(recording') = Len(recording) + n
      /\ Len(buffered') = Len(buffered) - n
  BY <1>1, WrittenKeeps
<1>4. (Len(recording) + n) + (Len(buffered) - n)
        = Len(recording) + Len(buffered)
  BY <1>0, <1>1
<1>5. QED BY <1>2, <1>3, <1>4

LEMMA FlushLoses ==
  ASSUME recording \in Seq(Int), buffered \in Seq(Int), LastFlush
  PROVE  /\ recording' \in Seq(Int) /\ buffered' = <<>>
         /\ lost' \in Nat /\ refusals' = refusals
         /\ \E rest \in Seq(Int) : Recorded = Recorded' \o rest
         /\ Recorded' \in Seq(Int) /\ Recorded' = recording'
         /\ Len(recording') + lost' = Len(recording) + Len(buffered)
<1>0. Len(recording) \in Nat /\ Len(buffered) \in Nat
  OBVIOUS
<1>1. PICK n \in 0 .. Len(buffered) :
        /\ recording' = recording \o SubSeq(buffered, 1, n)
        /\ lost' = Len(buffered) - n
  BY DEF LastFlush
<1>2. buffered' = <<>> /\ refusals' = refusals
  BY DEF LastFlush
<1>3. PICK a \in Seq(Int), b \in Seq(Int) :
        /\ a = SubSeq(buffered, 1, n) /\ Len(a) = n /\ buffered = a \o b
  <2>1. /\ SubSeq(buffered, 1, n) \in Seq(Int)
        /\ Len(SubSeq(buffered, 1, n)) = n
        /\ SubSeq(buffered, n + 1, Len(buffered)) \in Seq(Int)
        /\ buffered = SubSeq(buffered, 1, n)
                      \o SubSeq(buffered, n + 1, Len(buffered))
    BY FramesCutInTwo
  <2>2. QED BY <2>1
<1>4. recording \o a \in Seq(Int) /\ Len(recording \o a) = Len(recording) + n
  <2>1. /\ recording \o a \in Seq(Int)
        /\ Len(recording \o a) = Len(recording) + Len(a)
    BY <1>3, FramesConcat, Zenon
  <2>2. QED BY <1>3, <2>1
<1>5. recording \o buffered = (recording \o a) \o b
  <2>1. (recording \o a) \o b = recording \o (a \o b)
    BY RegroupedFrames, SMTT(30)
  <2>2. QED BY <1>3, <2>1
<1>6. recording' = recording \o a
  BY <1>1, <1>3
<1>7. recording' \o buffered' = recording'
  BY <1>2, <1>4, <1>6
<1>8. Recorded = Recorded' \o b /\ Recorded' = recording'
  BY <1>5, <1>6, <1>7 DEF Recorded
<1>9. (Len(recording) + n) + lost' = Len(recording) + Len(buffered)
      /\ lost' \in Nat
  BY <1>0, <1>1
<1>10. QED BY <1>2, <1>3, <1>4, <1>6, <1>8, <1>9

\* What a step does to the line of frames.
LEMMA DumpLineStep ==
  ASSUME DumpInv, [DumpNext]_dumpVars
  PROVE  DumpLine'
<1>0. /\ waiting \in Seq(Int) /\ sent \in Nat
      /\ recording \in Seq(Int) /\ buffered \in Seq(Int)
      /\ Recorded \in Seq(Int) /\ Recorded \o waiting \in Seq(Int) /\ DumpLine
  BY ConcatParts DEF DumpInv, DumpTypeOK, Recorded
<1>1. CASE Recorded' = Recorded /\ UNCHANGED <<waiting, sent>>
  BY <1>0, <1>1 DEF DumpLine
<1>2. CASE SendFrame
  <2>0. Recorded' = Recorded
    BY <1>2 DEF SendFrame, writtenVars, Recorded
  <2>1. CASE dumpStep = "ended"
    <3>1. waiting' = waiting /\ sent' = sent + 1
      BY <1>2, <2>1 DEF SendFrame
    <3>2. \A f \in Range(Recorded \o waiting) : f \in Int
      BY <1>0, ElementOfSeq DEF Range
    <3>3. QED BY <1>0, <2>0, <3>1, <3>2 DEF DumpLine
  <2>2. CASE waiting' = Append(waiting, sent + 1)
    <3>1. PICK line \in Seq(Int) : line = Recorded \o waiting
      BY <1>0
    <3>2. Recorded \o Append(waiting, sent + 1) = Append(line, sent + 1)
      <4>1. sent + 1 \in Int
        BY <1>0
      <4>2. QED BY <1>0, <3>1, <4>1, FramesJoined, Zenon
    <3>3. (Recorded \o waiting)' = Append(line, sent + 1)
      BY <2>0, <2>2, <3>2
    <3>4. /\ Ascending(line) /\ \A f \in Range(line) : f <= sent
      BY <1>0, <3>1 DEF DumpLine
    <3>5. \A f \in Range(line) : f \in Int
      BY <3>1, ElementOfSeq DEF Range
    <3>6. /\ Ascending(Append(line, sent + 1))
          /\ Range(Append(line, sent + 1)) = Range(line) \union {sent + 1}
      BY <1>0, <3>4, <3>5, OneJoins
    <3>7. sent' = sent + 1
      BY <1>2 DEF SendFrame
    <3>8. \A f \in Range(line) \union {sent + 1} : f <= sent + 1
      BY <1>0, <3>4, <3>5
    <3>9. QED BY <3>3, <3>6, <3>7, <3>8 DEF DumpLine
  <2>3. QED BY <1>2, <2>1, <2>2 DEF SendFrame
<1>3. CASE /\ waiting # <<>> /\ waiting' = Tail(waiting) /\ sent' = sent
           /\ Recorded' = Append(Recorded, Head(waiting))
  BY <1>0, <1>3, MovedOn DEF DumpLine
<1>4. CASE /\ waiting # <<>> /\ waiting' = Tail(waiting) /\ sent' = sent
           /\ Recorded' = Recorded
  <2>1. PICK h \in Seq(Int), t \in Seq(Int) :
          t = Tail(waiting) /\ waiting = h \o t
    BY <1>0, <1>4, HeadAndTail, HeadTaken
  <2>2. /\ Ascending(Recorded \o t)
        /\ Range(Recorded \o t) \subseteq Range(Recorded \o waiting)
    BY <1>0, <2>1, SegmentLeaves DEF DumpLine
  <2>3. QED BY <1>0, <1>4, <2>1, <2>2 DEF DumpLine
<1>5. CASE FirstFrame
  <2>1. recording = <<>> /\ buffered = <<>> /\ UNCHANGED <<recording, sent>>
    BY <1>5 DEF FirstFrame, airVars, DumpInv, DumpAccounts
  <2>2. CASE UNCHANGED <<waiting, buffered>>
    BY <1>1, <2>1, <2>2 DEF Recorded
  <2>3. CASE waiting # <<>> /\ waiting' = Tail(waiting)
    <3>1. CASE buffered' = <<Head(waiting)>>
      <4>1. Recorded = <<>> /\ Recorded' = <<Head(waiting)>>
        <5>1. PICK h \in Int : h = Head(waiting)
          BY <1>0, <2>3, HeadTaken
        <5>2. <<>> \o <<h>> = <<h>>
          OBVIOUS
        <5>3. QED BY <2>1, <3>1, <5>1, <5>2 DEF Recorded
      <4>2. Append(<<>>, Head(waiting)) = <<Head(waiting)>>
        OBVIOUS
      <4>3. QED BY <1>3, <2>1, <2>3, <4>1, <4>2
    <3>2. CASE buffered' = buffered
      BY <1>4, <2>1, <2>3, <3>2 DEF Recorded
    <3>3. QED BY <1>5, <2>3, <3>1, <3>2 DEF FirstFrame
  <2>4. QED BY <1>5, <2>2, <2>3 DEF FirstFrame
<1>6. CASE WritePcmFrame \/ WriteWavFrame
  <2>1. /\ waiting # <<>> /\ waiting' = Tail(waiting) /\ sent' = sent
        /\ \/ Accept(Head(waiting)) \/ WriteThenAccept(Head(waiting))
           \/ Refuse
    BY <1>6 DEF WritePcmFrame, WriteWavFrame, Receive, airVars
  <2>2. Head(waiting) \in Int
    BY <1>0, <2>1, HeadTaken
  <2>3. Recorded' \in {Recorded, Append(Recorded, Head(waiting))}
    BY <1>0, <2>1, <2>2, AcceptedJoins, RefusedStays
  <2>4. QED BY <1>3, <1>4, <2>1, <2>3
<1>7. CASE SkipMissed
  <2>1. RecorderIsBehind
    BY <1>7 DEF SkipMissed
  <2>2. Missed \in 0 .. Len(waiting)
    BY <1>0, <2>1, MissedBound
  <2>3. PICK h \in Seq(Int), t \in Seq(Int) :
          t = SubSeq(waiting, Missed + 1, Len(waiting)) /\ waiting = h \o t
    <3>1. PICK m \in 0 .. Len(waiting) : m = Missed
      BY <2>2
    <3>2. /\ SubSeq(waiting, 1, m) \in Seq(Int)
          /\ SubSeq(waiting, m + 1, Len(waiting)) \in Seq(Int)
          /\ waiting = SubSeq(waiting, 1, m)
                       \o SubSeq(waiting, m + 1, Len(waiting))
      BY <1>0, CutInTwo
    <3>3. QED BY <3>1, <3>2
  <2>4. /\ Ascending(Recorded \o t)
        /\ Range(Recorded \o t) \subseteq Range(Recorded \o waiting)
    BY <1>0, <2>3, SegmentLeaves DEF DumpLine
  <2>5. waiting' = t /\ sent' = sent /\ Recorded' = Recorded
    BY <1>7, <2>3 DEF SkipMissed, airVars, writtenVars, Recorded
  <2>6. QED BY <1>0, <2>4, <2>5 DEF DumpLine
<1>8. CASE LastFlush /\ UNCHANGED <<waiting, sent>>
  <2>1. PICK rest \in Seq(Int) : Recorded = Recorded' \o rest /\ Recorded' \in Seq(Int)
    BY <1>0, <1>8, FlushLoses
  <2>2. PICK kept \in Seq(Int) : kept = Recorded'
    BY <2>1
  <2>3. Recorded \o waiting = kept \o (rest \o waiting)
    <3>1. PICK w \in Seq(Int) : w = waiting
      BY <1>0
    <3>2. (kept \o rest) \o w = kept \o (rest \o w)
      BY RegroupedFrames, SMTT(30)
    <3>3. QED BY <2>1, <2>2, <3>1, <3>2
  <2>4. /\ Ascending(kept \o waiting)
        /\ Range(kept \o waiting) \subseteq Range(Recorded \o waiting)
    BY <1>0, <2>3, SegmentLeaves DEF DumpLine
  <2>5. (Recorded \o waiting)' = kept \o waiting
    BY <1>8, <2>2
  <2>6. QED BY <1>0, <1>8, <2>4, <2>5 DEF DumpLine
<1>9. CASE Finish \/ QuitDump
  BY <1>8, <1>9 DEF Finish, QuitDump, airVars
<1>10. CASE StartDump \/ EndAir \/ Open \/ AirEnds \/ UNCHANGED dumpVars
  <2>1. UNCHANGED <<waiting, sent, recording, buffered>>
    BY <1>10
    DEF StartDump, EndAir, Open, AirEnds, dumpVars, airVars, writtenVars
  <2>2. QED BY <1>1, <2>1 DEF Recorded
<1>11. QED
  BY <1>2, <1>5, <1>6, <1>7, <1>9, <1>10 DEF DumpNext

LEMMA DumpAccountsStep ==
  ASSUME DumpInv, [DumpNext]_dumpVars
  PROVE  DumpTypeOK' /\ DumpAccounts'
<1> USE DEF DumpTypeOK, DumpAccounts, Endings
<1>0. /\ DumpTypeOK /\ DumpAccounts /\ Len(waiting) \in Nat
      /\ Len(recording) \in Nat /\ Len(buffered) \in Nat
  BY DEF DumpInv
<1>1. CASE StartDump
  BY <1>0, <1>1 DEF StartDump, airVars, writtenVars
<1>2. CASE SendFrame
  <2>1. /\ Append(waiting, sent + 1) \in Seq(Int)
        /\ Len(Append(waiting, sent + 1)) = Len(waiting) + 1
    BY <1>0, LastAdded
  <2>2. /\ sent' = sent + 1 /\ onAir = "yes"
        /\ UNCHANGED <<dumpFormat, onAir, recording, buffered, refusals, lost,
                       dumpStep, reported, ending, admitted>>
    BY <1>2 DEF SendFrame, writtenVars
  <2>3. CASE dumpStep = "ended"
    BY <1>0, <1>2, <2>2, <2>3 DEF SendFrame
  <2>4. CASE dumpStep # "ended"
    <3>1. waiting' \in Seq(Int) /\ Len(waiting') = Len(waiting) + 1
      BY <1>2, <2>1, <2>4 DEF SendFrame
    <3>2. ending # "closed"
      BY <1>0, <2>2
    <3>3. DumpTypeOK'
      BY <1>0, <2>2, <3>1
    <3>4. dumpStep \in {"off", "opening", "first"} => sent' = Len(waiting')
      BY <1>0, <2>2, <3>1
    <3>5. dumpStep = "recording" =>
            sent' = Len(recording) + Len(buffered) + Len(waiting')
                    + reported + refusals + lost
      BY <1>0, <2>2, <3>1
    <3>6. DumpAccounts'
      BY <1>0, <2>2, <3>2, <3>4, <3>5
    <3>7. QED BY <3>3, <3>6
  <2>5. QED BY <2>3, <2>4
<1>3. CASE EndAir
  BY <1>0, <1>3 DEF EndAir, writtenVars
<1>4. CASE Open
  BY <1>0, <1>4 DEF Open, EndDump, airVars, writtenVars
<1>5. ASSUME waiting # <<>>
      PROVE  /\ Tail(waiting) \in Seq(Int) /\ Head(waiting) \in Int
             /\ Len(Tail(waiting)) + 1 = Len(waiting)
  BY <1>0, <1>5, HeadTaken
<1>6. CASE FirstFrame
  <2>1. /\ recording = <<>> /\ buffered = <<>> /\ reported = 0
        /\ refusals = 0 /\ lost = 0 /\ sent = Len(waiting)
        /\ dumpFormat = "wav" /\ ending = "none" /\ dumpStep = "first"
        /\ UNCHANGED <<dumpFormat, onAir, sent, reported, recording, refusals,
                       lost, admitted>>
    BY <1>0, <1>6 DEF FirstFrame, airVars
  <2>2. CASE RecorderIsBehind \/ AirIsOver
    <3>1. /\ dumpStep' = "ended" /\ UNCHANGED <<waiting, buffered>>
          /\ ending' \in {"silence", "lag"}
      BY <1>6, <2>2 DEF FirstFrame, EndDump
    <3>2. QED BY <1>0, <2>1, <3>1
  <2>3. CASE ~(RecorderIsBehind \/ AirIsOver)
    <3>1. waiting # <<>> /\ waiting' = Tail(waiting)
      BY <1>6, <2>3 DEF FirstFrame
    <3>2. CASE dumpStep' = "ended" /\ ending' = "open" /\ UNCHANGED buffered
      BY <1>0, <1>5, <2>1, <3>1, <3>2
    <3>3. CASE /\ dumpStep' = "recording" /\ ending' = "none"
               /\ buffered' = <<Head(waiting)>>
      <4>1. PICK h \in Int : h = Head(waiting)
        BY <1>5, <3>1
      <4>2. <<h>> \in Seq(Int) /\ Len(<<h>>) = 1 /\ Len(<<>>) = 0
        OBVIOUS
      <4>3. buffered' \in Seq(Int) /\ Len(buffered') = 1
            /\ Len(recording') = 0
        BY <2>1, <3>3, <4>1, <4>2
      <4>4. QED BY <1>0, <1>5, <2>1, <3>1, <3>3, <4>3
    <3>4. QED
      BY <1>6, <2>1, <2>3, <3>2, <3>3 DEF FirstFrame, EndDump
  <2>4. QED BY <2>2, <2>3
<1>7. CASE WritePcmFrame \/ WriteWavFrame
  <2>1. /\ waiting # <<>> /\ waiting' = Tail(waiting)
        /\ dumpStep = "recording"
        /\ UNCHANGED <<dumpFormat, onAir, sent, lost, reported, admitted>>
    BY <1>7 DEF WritePcmFrame, WriteWavFrame, Receive, airVars
  <2>2. CASE /\ \/ Accept(Head(waiting)) \/ WriteThenAccept(Head(waiting))
             /\ UNCHANGED <<dumpStep, ending>>
    <3>1. /\ recording' \in Seq(Int) /\ buffered' \in Seq(Int)
          /\ refusals' = refusals
          /\ Len(recording') + Len(buffered')
               = Len(recording) + Len(buffered) + 1
      BY <1>0, <1>5, <2>1, <2>2, AcceptedJoins
    <3>2. DumpTypeOK'
      BY <1>0, <1>5, <2>1, <2>2, <3>1
    <3>3. sent' = Len(recording') + Len(buffered') + Len(waiting')
                  + reported' + refusals' + lost'
      <4>0. /\ Len(recording') \in Nat /\ Len(buffered') \in Nat
            /\ Len(waiting') \in Nat
        BY <1>0, <1>5, <2>1, <3>1
      <4>1. PICK r \in Nat, b \in Nat, w \in Nat, rr \in Nat, bb \in Nat,
                 ww \in Nat :
              /\ r = Len(recording) /\ b = Len(buffered) /\ w = Len(waiting)
              /\ rr = Len(recording') /\ bb = Len(buffered')
              /\ ww = Len(waiting')
        BY <1>0, <4>0
      <4>2. /\ sent = r + b + w + reported + refusals + lost
            /\ ww + 1 = w
            /\ rr + bb = r + b + 1 /\ refusals' = refusals
        BY <1>0, <1>5, <2>1, <3>1, <4>1
      <4>3. sent = rr + bb + ww + reported + refusals' + lost
        BY <1>0, <4>2
      <4>4. QED BY <2>1, <4>1, <4>3
    <3>4. DumpAccounts'
      BY <1>0, <2>1, <2>2, <3>1, <3>3
    <3>5. QED BY <3>2, <3>4
  <2>3. CASE Refuse
    <3>1. /\ recording' \in Seq(Int) /\ buffered' \in Seq(Int)
          /\ refusals' = refusals + 1
          /\ Len(recording') + Len(buffered')
               = Len(recording) + Len(buffered)
      BY <1>0, <2>3, RefusedStays
    <3>2. sent' = Len(recording') + Len(buffered') + Len(waiting')
                  + reported' + refusals' + lost'
      <4>0. /\ Len(recording') \in Nat /\ Len(buffered') \in Nat
            /\ Len(waiting') \in Nat
        BY <1>0, <1>5, <2>1, <3>1
      <4>1. PICK r \in Nat, b \in Nat, w \in Nat, rr \in Nat, bb \in Nat,
                 ww \in Nat :
              /\ r = Len(recording) /\ b = Len(buffered) /\ w = Len(waiting)
              /\ rr = Len(recording') /\ bb = Len(buffered')
              /\ ww = Len(waiting')
        BY <1>0, <4>0
      <4>2. /\ sent = r + b + w + reported + refusals + lost
            /\ ww + 1 = w
            /\ rr + bb = r + b /\ refusals' = refusals + 1
        BY <1>0, <1>5, <2>1, <3>1, <4>1
      <4>3. sent = rr + bb + ww + reported + refusals' + lost
        BY <1>0, <4>2
      <4>4. QED BY <2>1, <4>1, <4>3
    <3>3. CASE /\ dumpFormat = "pcm" /\ dumpStep' = "flushing"
               /\ ending' = "write"
      BY <1>0, <1>5, <2>1, <3>1, <3>2, <3>3
    <3>4. CASE dumpFormat = "wav" /\ UNCHANGED <<dumpStep, ending>>
      BY <1>0, <1>5, <2>1, <3>1, <3>2, <3>4
    <3>5. CASE Accept(Head(waiting)) \/ WriteThenAccept(Head(waiting))
      BY <1>0, <1>5, <2>1, <3>1, <3>5, AcceptedJoins
    <3>6. QED
      BY <1>7, <3>3, <3>4, <3>5 DEF WritePcmFrame, WriteWavFrame
  <2>4. QED BY <1>7, <2>2, <2>3 DEF WritePcmFrame, WriteWavFrame
<1>8. CASE SkipMissed
  <2>1. RecorderIsBehind
    BY <1>8 DEF SkipMissed
  <2>2. Missed \in 0 .. Len(waiting) /\ Missed \in Nat
    BY <1>0, <2>1, MissedBound
  <2>3. /\ SubSeq(waiting, Missed + 1, Len(waiting)) \in Seq(Int)
        /\ Len(SubSeq(waiting, Missed + 1, Len(waiting))) =
             Len(waiting) - Missed
    BY <1>0, <2>2, CutInTwo
  <2>4. /\ reported' = reported + Missed /\ dumpStep = "recording"
        /\ waiting' \in Seq(Int) /\ Len(waiting') = Len(waiting) - Missed
        /\ UNCHANGED <<dumpFormat, dumpStep, onAir, sent, recording, buffered,
                       refusals, lost, ending, admitted>>
    BY <1>8, <2>3 DEF SkipMissed, airVars, writtenVars
  <2>5. QED BY <1>0, <2>2, <2>4
<1>9. CASE AirEnds
  BY <1>0, <1>9 DEF AirEnds, AirIsOver, airVars, writtenVars
<1>10. CASE Finish
  <2>1. /\ recording' \in Seq(Int) /\ buffered' = <<>> /\ lost' \in Nat
        /\ refusals' = refusals
        /\ Len(recording') + lost' = Len(recording) + Len(buffered)
    BY <1>0, <1>10, FlushLoses DEF Finish
  <2>2. /\ dumpStep = "flushing" /\ dumpStep' = "ended" /\ lost = 0
        /\ UNCHANGED <<dumpFormat, onAir, sent, waiting, reported, ending>>
    BY <1>0, <1>10 DEF Finish, airVars
  <2>3. /\ admitted' \in {"yes", "no"}
        /\ lost' > 0 /\ dumpFormat = "wav" => admitted' = "yes"
    BY <1>0, <1>10 DEF Finish
  <2>4. Len(recording') \in Nat /\ Len(buffered') = 0
        /\ buffered' \in Seq(Int)
    BY <2>1
  <2>5. ending = "closed" =>
          sent = Len(recording') + Len(buffered') + Len(waiting)
                 + reported + refusals + lost'
    BY <1>0, <2>1, <2>2, <2>4
  <2>6. DumpTypeOK'
    BY <1>0, <2>1, <2>2, <2>3, <2>4
  <2>7. QED BY <1>0, <2>1, <2>2, <2>3, <2>5, <2>6
<1>11. CASE QuitDump
  <2>1. /\ recording' \in Seq(Int) /\ buffered' = <<>> /\ lost' \in Nat
        /\ refusals' = refusals
    BY <1>0, <1>11, FlushLoses DEF QuitDump
  <2>2. /\ dumpStep' = "ended" /\ ending' = "quit"
        /\ UNCHANGED <<dumpFormat, onAir, sent, waiting, reported, admitted>>
    BY <1>11 DEF QuitDump, EndDump, airVars
  <2>3. buffered' \in Seq(Int)
    BY <2>1
  <2>4. QED BY <1>0, <2>1, <2>2, <2>3
<1>12. CASE UNCHANGED dumpVars
  BY <1>0, <1>12 DEF dumpVars, airVars, writtenVars
<1>13. QED
  BY <1>1, <1>2, <1>3, <1>4, <1>6, <1>7, <1>8, <1>9, <1>10, <1>11, <1>12
  DEF DumpNext

LEMMA DumpKept == DumpInit /\ [][DumpNext]_dumpVars => []DumpInv
<1>1. ASSUME DumpInit PROVE DumpInv
  <2>1. DumpTypeOK /\ DumpAccounts
    BY <1>1 DEF DumpInit, DumpTypeOK, DumpAccounts
  <2>2. Recorded \o waiting = <<>>
    BY <1>1 DEF DumpInit, Recorded
  <2>3. DumpLine
    BY <2>2, AscendingNone, RangeOfNone DEF DumpLine
  <2>4. QED BY <2>1, <2>3 DEF DumpInv
<1>2. ASSUME DumpInv, [DumpNext]_dumpVars PROVE DumpInv'
  BY <1>2, DumpLineStep, DumpAccountsStep DEF DumpInv
<1>3. QED BY <1>1, <1>2, PTL

\* Every frame of a recording that ends because the audio does is in the
\* file, reported, refused or lost by the last flush, and the file is in
\* order, for every capacity of the broadcast and of the writer's buffer.
THEOREM RecordingsAccounted == DumpSpec => []RecordingIsAccountedFor
<1>1. ASSUME DumpInv PROVE RecordingIsAccountedFor
  <2>1. /\ recording \in Seq(Int) /\ buffered \in Seq(Int)
        /\ waiting \in Seq(Int) /\ Recorded \in Seq(Int)
    BY <1>1, ConcatParts DEF DumpInv, DumpTypeOK, Recorded
  <2>2. Ascending(recording)
    BY <1>1, <2>1, AscendingConcat DEF DumpInv, DumpLine, Recorded
  <2>3. \A i \in 1 .. Len(recording) - 1 : recording[i] < recording[i + 1]
    <3>1. Len(recording) \in Nat /\ DOMAIN recording = 1 .. Len(recording)
      BY <2>1
    <3>2. TAKE i \in 1 .. Len(recording) - 1
    <3>3. i \in DOMAIN recording /\ i + 1 \in DOMAIN recording /\ i < i + 1
      BY <3>1
    <3>4. QED BY <2>2, <3>3 DEF Ascending
  <2>4. QED
    BY <1>1, <2>3
    DEF DumpInv, DumpTypeOK, DumpAccounts, Endings, RecordingIsAccountedFor
<1>2. QED BY <1>1, DumpKept, PTL DEF DumpSpec

-----------------------------------------------------------------------------
(***************************************************************************)
(* Configuration.  From the moment main has loaded its settings until it   *)
(* ends, they are the repaired ones of one file and one environment or the *)
(* defaults, and from the moment the manager has been given the selection  *)
(* of the settings it keeps that one, whatever happens to the files.       *)
(***************************************************************************)
Loading == {"manager", "selection", "saving", "writing", "selecting",
            "running"}
Selected == {"saving", "writing", "selecting", "running"}

ConfigurationInv ==
    binary = "coldvox" =>
        /\ stage \in Loading =>
              /\ settings = IF IsSound THEN Repaired(Asked)
                            ELSE StructDefaults
              /\ inUse = Options(settings)
        /\ stage \in Selected => selection = settings.stt

\* Every setting has a default.
LEMMA AllSettings ==
  ASSUME NEW file, NEW w
  PROVE  {"stt", "activation_mode", "cooldown_initial_ms", "base_url",
          "payload", "resampler_quality"} \subseteq DOMAIN BuildConfig(file, w)
<1>1. {"stt", "activation_mode", "cooldown_initial_ms", "base_url",
       "payload", "resampler_quality"} \subseteq DOMAIN BuilderDefaults
  BY DEF BuilderDefaults
<1>2. QED BY <1>1 DEF BuildConfig, Overlaid

\* Repairing a name or a number hides no error and changes no selection.
LEMMA RepairKeeps ==
  ASSUME NEW s, {"stt", "activation_mode", "cooldown_initial_ms", "base_url",
                 "payload"} \subseteq DOMAIN s
  PROVE  /\ Repaired(s).stt = s.stt /\ Errors(Repaired(s)) = Errors(s)
         /\ Repaired(s).cooldown_initial_ms = s.cooldown_initial_ms
         /\ s.activation_mode \in {"vad", "hotkey"}
              => Repaired(s).activation_mode = s.activation_mode
<1>1. DOMAIN Accepted = {"resampler_quality", "activation_mode",
                         "keystroke_rate_cps"}
  BY DEF Accepted
<1>2. \A k \in DOMAIN s \ DOMAIN Accepted : Repaired(s)[k] = s[k]
  BY DEF Repaired
<1>3. \A k \in {"stt", "cooldown_initial_ms", "base_url", "payload"} :
        Repaired(s)[k] = s[k]
  BY <1>1, <1>2
<1>4. Errors(Repaired(s)) = Errors(s)
  BY <1>3 DEF Errors
<1>5. ASSUME s.activation_mode \in {"vad", "hotkey"}
      PROVE  Repaired(s).activation_mode = s.activation_mode
  <2>1. /\ Lowercase(s.activation_mode) = s.activation_mode
        /\ Accepted["activation_mode"] = {"vad", "hotkey"}
    BY <1>5 DEF Lowercase, Accepted
  <2>2. QED BY <1>5, <2>1 DEF Repaired
<1>6. QED BY <1>3, <1>4, <1>5

\* What main makes of a file and an environment.
LEMMA SettingsLoaded ==
  ASSUME LoadSettings
  PROVE  /\ settings' = IF IsSound' THEN Repaired(Asked') ELSE StructDefaults
         /\ inUse' = Options(settings') /\ stage' = "manager"
<1> DEFINE file == FileAt(DiscoverConfigPath(surroundings))
           config == BuildConfig(file, surroundings)
<1>1. /\ sources' = file /\ surroundings' = surroundings
      /\ inUse' = Options(settings') /\ stage' = "manager"
      /\ settings' = IF Loaded(file, surroundings) = {} THEN StructDefaults
                     ELSE CHOOSE s \in Loaded(file, surroundings) : TRUE
  BY DEF LoadSettings
<1> HIDE DEF file
<1>2. Asked' = config
  BY <1>1 DEF Asked
<1>3. IsSound' <=> /\ "garbled" \notin {file.state,
                                        surroundings.overrides.state}
                   /\ Errors(config) = {}
  BY <1>1, <1>2 DEF IsSound
<1>4. Errors(Repaired(config)) = Errors(config)
  BY AllSettings, RepairKeeps
<1> HIDE DEF config
<1>5. Loaded(file, surroundings)
        = IF IsSound' THEN {Repaired(config)} ELSE {}
  BY <1>3, <1>4 DEF Loaded, config
<1>6. (CHOOSE s \in {Repaired(config)} : TRUE) = Repaired(config)
  OBVIOUS
<1>7. QED BY <1>1, <1>2, <1>5, <1>6

LEMMA ConfigurationStep ==
  ASSUME ConfigurationInv, [ConfigurationNext]_configurationVars
  PROVE  ConfigurationInv'
<1> USE DEF Loading, Selected
<1>1. CASE UNCHANGED <<binary, surroundings, settings, selection, inUse,
                       sources>> /\ (stage' \in Loading => stage \in Loading)
           /\ (stage' \in Selected => stage \in Selected)
  BY <1>1 DEF ConfigurationInv, IsSound, Asked
<1>2. CASE stage' = "off"
  BY <1>2 DEF ConfigurationInv
<1>3. CASE (\E f \in DOMAIN settingsFiles : EditSettings(f))
           \/ (\E f \in DOMAIN pluginFiles : EditPlugins(f))
  <2>1. UNCHANGED <<runVars, stage>>
    BY <1>3 DEF EditSettings, EditPlugins
  <2>2. QED BY <1>1, <2>1 DEF runVars, launchVars
<1>4. CASE \E p \in {"coldvox", "tui_dashboard"}, w \in Surroundings :
             Launch(p, w)
  BY <1>4 DEF Launch, ConfigurationInv
<1>5. CASE LoadSettings
  BY <1>5, SettingsLoaded DEF ConfigurationInv
<1>6. CASE NewManager
  <2>1. /\ stage = "manager" /\ stage' = "selection"
        /\ UNCHANGED <<binary, surroundings, settings, inUse, sources>>
    BY <1>6 DEF NewManager
  <2>2. QED BY <2>1 DEF ConfigurationInv, IsSound, Asked
<1>7. CASE SetSelectionConfig
  <2>1. CASE Permitted(SelectionOf)
    <3>1. /\ stage = "selection" /\ stage' = "saving"
          /\ selection' = SelectionOf
          /\ UNCHANGED <<binary, surroundings, settings, inUse, sources>>
      BY <1>7, <2>1 DEF SetSelectionConfig
    <3>2. QED BY <3>1 DEF ConfigurationInv, IsSound, Asked, SelectionOf
  <2>2. CASE ~Permitted(SelectionOf)
    BY <1>2, <1>7, <2>2 DEF SetSelectionConfig, Over
  <2>3. QED BY <2>1, <2>2
<1>8. CASE SaveBegins \/ SaveEnds \/ SaveFails
  BY <1>1, <1>8
     DEF SaveBegins, SaveEnds, SaveFails, runVars, launchVars
<1>9. CASE SelectPlugin
  BY <1>1, <1>2, <1>9 DEF SelectPlugin, Over, runVars, launchVars
<1>10. CASE Quit
  BY <1>2, <1>10 DEF Quit, Over
<1>11. CASE UNCHANGED configurationVars
  BY <1>1, <1>11 DEF configurationVars, runVars, launchVars
<1>12. QED BY <1>3, <1>4, <1>5, <1>6, <1>7, <1>8, <1>9, <1>10, <1>11
              DEF ConfigurationNext

LEMMA ConfigurationKept == ConfigurationSpec => []ConfigurationInv
<1>1. ASSUME ConfigurationInit PROVE ConfigurationInv
  BY <1>1 DEF ConfigurationInit, ConfigurationInv, Loading, Selected
<1>2. QED BY <1>1, ConfigurationStep, PTL DEF ConfigurationSpec

\* main runs with the selection of its settings whatever a copy of
\* plugins.json holds, and with the default one if the settings have any
\* error: set_selection_config replaces what SttPluginManager read from the
\* file before the pipeline selects a plugin.
THEOREM SettingsSelectThePlugin == ConfigurationSpec => []ProfileDecides
<1>1. ASSUME ConfigurationInv PROVE ProfileDecides
  <2>1. ASSUME stage = "running", binary = "coldvox"
        PROVE  selection = IF IsSound THEN Asked.stt ELSE StructDefaults.stt
    <3>1. /\ settings = IF IsSound THEN Repaired(Asked) ELSE StructDefaults
          /\ selection = settings.stt
      BY <1>1, <2>1 DEF ConfigurationInv, Loading, Selected
    <3>2. Repaired(Asked).stt = Asked.stt
      BY AllSettings, RepairKeeps DEF Asked
    <3>3. QED BY <3>1, <3>2
  <2>2. QED BY <2>1 DEF ProfileDecides
<1>2. QED BY <1>1, ConfigurationKept, PTL

\* No setting that validate() refuses reaches the pipeline, and none that
\* came together with it; an activation mode that is accepted is the one the
\* pipeline starts in.
THEOREM PipelineSettings == ConfigurationSpec => []SettingsAreOfOnePiece
<1>1. ASSUME ConfigurationInv PROVE SettingsAreOfOnePiece
  <2>1. ASSUME stage = "running", binary = "coldvox"
        PROVE  /\ inUse.injection.cooldown_initial_ms # "zero"
               /\ ~IsSound => inUse = Options(BuilderDefaults)
               /\ IsSound /\ Asked.activation_mode \in {"vad", "hotkey"}
                    => inUse.mode = Asked.activation_mode
    <3>1. /\ settings = IF IsSound THEN Repaired(Asked) ELSE StructDefaults
          /\ inUse = Options(settings)
      BY <1>1, <2>1 DEF ConfigurationInv, Loading
    <3>2. inUse.injection.cooldown_initial_ms = settings.cooldown_initial_ms
      BY <3>1 DEF Options, InjectionKeys, PassedOn
    <3>3. CASE IsSound
      <4>1. /\ settings.cooldown_initial_ms = Asked.cooldown_initial_ms
            /\ Asked.activation_mode \in {"vad", "hotkey"}
                 => settings.activation_mode = Asked.activation_mode
        BY <3>1, <3>3, AllSettings, RepairKeeps DEF Asked
      <4>2. Asked.cooldown_initial_ms # "zero"
        BY <3>3 DEF IsSound, Errors
      <4>3. inUse.mode = Mode(settings)
        BY <3>1 DEF Options
      <4>4. QED BY <3>2, <3>3, <4>1, <4>2, <4>3 DEF Mode
    <3>4. CASE ~IsSound
      <4>1. settings = StructDefaults
        BY <3>1, <3>4
      <4>2. StructDefaults.cooldown_initial_ms = "fine"
        BY DEF StructDefaults, BuilderDefaults
      <4>3. Mode(StructDefaults) = "vad" /\ Mode(BuilderDefaults) = "vad"
        BY DEF StructDefaults, BuilderDefaults, Mode
      <4>4. /\ Quality(StructDefaults) = "balanced"
            /\ Quality(BuilderDefaults) = "balanced"
        BY DEF StructDefaults, BuilderDefaults, Quality, Lowercase
      <4>5. BuilderDefaults.cooldown_initial_ms = "fine"
        BY DEF BuilderDefaults
      <4>6. Options(StructDefaults) = Options(BuilderDefaults)
        BY <4>2, <4>3, <4>4, <4>5 DEF Options, PassedOn, InjectionKeys
      <4>7. QED BY <3>1, <3>2, <3>4, <4>1, <4>2, <4>6
    <3>5. QED BY <3>3, <3>4
  <2>2. QED BY <2>1 DEF SettingsAreOfOnePiece
<1>2. QED BY <1>1, ConfigurationKept, PTL
=============================================================================
