------------------------- MODULE SttPipelineProofs -------------------------
(* Theorems of SttPipeline, for every size of its channels and any number  *)
(* of utterances and mode switches.                                        *)
EXTENDS SttPipeline, QueueTheorems, TLAPS

LEMMA RegroupedUtterances ==
  \A r, s, t \in Seq(Utterances) : (r \o s) \o t = r \o (s \o t)
  BY Regrouped

LEMMA JoinedBehindUtterances ==
  \A s, t \in Seq(Utterances), u \in Utterances :
    s \o Append(t, u) = Append(s \o t, u)
  BY JoinedBehind

USE PipelineAssumption DEF PipelineAssumption

(***************************************************************************)
(* A step of each action keeps the types.                                  *)
(***************************************************************************)
LEMMA TypeStep == ASSUME TypeOK, [Next]_vars PROVE TypeOK'
<1> USE DEF TypeOK, Utterances, Modes, triggerVars, consumers, sessionVars,
            outVars
<1>1. CASE SpeechStart
  BY <1>1, SMTT(30) DEF SpeechStart, HasRoom
<1>2. CASE SpeechEnd
  BY <1>2, SMTT(30) DEF SpeechEnd, HasRoom
<1>3. CASE \E m \in Modes : SetActivationMode(m)
  BY <1>3, SMTT(30) DEF SetActivationMode
<1>4. CASE ReplaceTrigger \/ LoseTrigger
  <2>1. /\ trigger' \in {"quiet", "speech", "dead"} /\ mode' \in Modes
        /\ switching' \in Modes \union {"none"}
    BY <1>4 DEF ReplaceTrigger, LoseTrigger
  <2>2. UNCHANGED <<switches, consumers, loaded, sessions, sessionVars,
                    outVars>>
    BY <1>4 DEF ReplaceTrigger, LoseTrigger
  <2>3. QED BY <2>1, <2>2
<1>5. CASE HandleStart
  <2>1. begin' \in {"none", "spawned", "done"}
    BY <1>5 DEF HandleStart
  <2>2. sessions' \in Seq({"start", "end"}) /\ Len(sessions') <= SessionCap
    <3>1. sessions \in Seq({"start", "end"}) /\ sessions # <<>>
      BY <1>5 DEF HandleStart
    <3>2. QED BY <1>5, <3>1, HeadTaken DEF HandleStart
  <2>3. utt' \in Nat
    BY <1>5, SMTT(30) DEF HandleStart
  <2>4. /\ state' \in {"Idle", "SpeechActive", "Finalizing"}
        /\ audio' \in {"none", "dropped", "fed"}
    BY <1>5 DEF HandleStart
  <2>5. UNCHANGED <<triggerVars, consumers, loaded, task, outVars>>
    BY <1>5 DEF HandleStart
  <2>6. QED BY <2>1, <2>2, <2>3, <2>4, <2>5
<1>6. CASE HandleEnd
  <2>1. task' \in [Utterances ->
                     {"none", "finalize", "send", "settle", "done"}]
    BY <1>6 DEF HandleEnd
  <2>2. sessions' \in Seq({"start", "end"}) /\ Len(sessions') <= SessionCap
    BY <1>6, HeadTaken DEF HandleEnd
  <2>3. QED BY <1>6, <2>1, <2>2, SMTT(30) DEF HandleEnd
<1>7. CASE HandleAudioFrame \/ BeginUtterance
  BY <1>7 DEF HandleAudioFrame, BeginUtterance, HotkeyBehaviors
<1>8. ASSUME NEW u \in Utterances, TaskStep(u) PROVE TypeOK'
  <2>2. CASE Finalize(u)
    <3>1. task' \in [Utterances ->
                       {"none", "finalize", "send", "settle", "done"}]
      BY <2>2 DEF Finalize
    <3>2. QED BY <2>2, <3>1, SMTT(30) DEF Finalize
  <2>3. CASE SendResult(u)
    <3>1. stream' \in Seq(Utterances) /\ Len(stream') <= StreamCap
      <4>1. CASE stream' = stream
        BY <4>1
      <4>2. CASE stream' = Append(stream, u) /\ Len(stream) < StreamCap
        BY <4>2, LastAdded
      <4>3. QED BY <2>3, <4>1, <4>2 DEF SendResult, HasRoom
    <3>2. task' \in [Utterances ->
                       {"none", "finalize", "send", "settle", "done"}]
      BY <2>3 DEF SendResult
    <3>3. QED BY <2>3, <3>1, <3>2, SMTT(30) DEF SendResult
  <2>4. CASE Settle(u)
    BY <2>4 DEF Settle, Reset
  <2>5. QED BY <1>8, <2>2, <2>3, <2>4 DEF TaskStep
<1>9. CASE Forward
  <2>1. CASE ForwardNext
    <3>1. stream \in Seq(Utterances) /\ stream # <<>>
      BY <2>1 DEF ForwardNext
    <3>2. /\ Tail(stream) \in Seq(Utterances) /\ Head(stream) \in Utterances
          /\ Len(Tail(stream)) \in Nat /\ Len(Tail(stream)) <= Len(stream)
      BY <3>1, HeadTaken, SMTT(30)
    <3>3. stream' = Tail(stream) /\ forwarding' = Head(stream)
      BY <2>1 DEF ForwardNext
    <3>4. stream' \in Seq(Utterances) /\ forwarding' \in Utterances
      BY <3>2, <3>3
    <3>5. Len(stream') <= StreamCap
      BY <3>2, <3>3, SMTT(30)
    <3>6. fwpc' \in {"inject", "ui"}
      BY <2>1 DEF ForwardNext
    <3>7. UNCHANGED <<triggerVars, consumers, loaded, sessions, sessionVars,
                      injection, injq, ui, injected>>
      BY <2>1 DEF ForwardNext
    <3>8. QED BY <3>4, <3>5, <3>6, <3>7, SMTT(30)
  <2>2. CASE ForwardToInjection
    <3>1. forwarding \in Utterances
      BY <2>2 DEF ForwardToInjection
    <3>2. injq' \in Seq(Utterances) /\ Len(injq') <= InjectionCap
      <4>1. CASE injq' = injq
        BY <4>1
      <4>2. CASE injq' = Append(injq, forwarding) /\ Len(injq) < InjectionCap
        BY <3>1, <4>2, LastAdded
      <4>3. QED BY <2>2, <4>1, <4>2 DEF ForwardToInjection, HasRoom
    <3>3. fwpc' = "ui" /\ injection' \in {"open", "closed"}
      BY <2>2 DEF ForwardToInjection
    <3>4. UNCHANGED <<triggerVars, consumers, loaded, sessions, sessionVars,
                      stream, forwarding, ui, injected>>
      BY <2>2 DEF ForwardToInjection
    <3>5. QED BY <3>1, <3>2, <3>3, <3>4
  <2>3. CASE ForwardToUi
    <3>1. forwarding \in Utterances
      BY <2>3 DEF ForwardToUi
    <3>2. ui' \in Seq(Utterances) /\ Len(ui') <= UiCap
      <4>1. CASE ui' = ui
        BY <4>1
      <4>2. CASE ui' = Append(ui, forwarding) /\ Len(ui) < UiCap
        BY <3>1, <4>2, LastAdded
      <4>3. QED BY <2>3, <4>1, <4>2 DEF ForwardToUi, HasRoom
    <3>3. stream' \in Seq(Utterances) /\ Len(stream') <= StreamCap
      <4>1. stream' = stream \/ stream' = <<>>
        BY <2>3 DEF ForwardToUi
      <4>2. CASE stream' = stream
        BY <4>2
      <4>3. CASE stream' = <<>>
        <5>1. stream' \in Seq(Utterances) /\ Len(stream') = 0
          BY <4>3
        <5>2. 0 <= StreamCap
          OBVIOUS
        <5>3. QED BY <5>1, <5>2
      <4>4. QED BY <4>1, <4>2, <4>3
    <3>4. fwpc' \in {"idle", "ended"} /\ forwarding' = 0
      BY <2>3 DEF ForwardToUi
    <3>5. UNCHANGED <<triggerVars, consumers, loaded, sessions, sessionVars,
                      injection, injq, injected>>
      BY <2>3 DEF ForwardToUi
    <3>6. QED BY <3>2, <3>3, <3>4, <3>5, SMTT(30)
  <2>4. QED BY <1>9, <2>1, <2>2, <2>3 DEF Forward
<1>10. CASE InjectorReceives
  <2>1. injq' \in Seq(Utterances) /\ Len(injq') <= InjectionCap
    BY <1>10, HeadTaken, SMTT(30) DEF InjectorReceives
  <2>2. injected' \in Seq(Utterances)
    BY <1>10, HeadTaken, LastAdded DEF InjectorReceives
  <2>3. QED BY <1>10, <2>1, <2>2, SMTT(30) DEF InjectorReceives
<1>11. CASE UiReceives
  <2>1. ui' \in Seq(Utterances) /\ Len(ui') <= UiCap
    BY <1>11, HeadTaken DEF UiReceives
  <2>2. QED BY <1>11, <2>1, SMTT(30) DEF UiReceives
<1>12. CASE InjectionBegins \/ InjectionAnswered
  BY <1>12 DEF InjectionBegins, InjectionAnswered
<1>13. CASE DropReader
  <2>1. ui' \in Seq(Utterances) /\ Len(ui') <= UiCap
    BY <1>13 DEF DropReader
  <2>2. QED BY <1>13, <2>1, SMTT(30) DEF DropReader
<1>14. CASE UNCHANGED vars
  BY <1>14 DEF vars
<1>15. QED
  BY <1>1, <1>2, <1>3, <1>4, <1>5, <1>6, <1>7, <1>8, <1>9, <1>10, <1>11,
     <1>12, <1>13, <1>14 DEF Next

LEMMA TypeInit == ASSUME Init PROVE TypeOK
BY DEF Init, TypeOK, Utterances, Modes

\* Every channel stays within its capacity and every variable in its type.
THEOREM TypeCorrect == Spec => []TypeOK
<1>1. QED
  BY TypeInit, TypeStep, PTL DEF Spec

(***************************************************************************)
(* OneFinalization is inductive beside the types.  Only three actions      *)
(* matter: a Start is accepted in Idle, where no finalization can be under *)
(* way; an End begins one in SpeechActive, where none can be either; and   *)
(* the one that leaves Finalizing is the last.                             *)
(***************************************************************************)
LEMMA OneFinalizationStep ==
    ASSUME TypeOK, OneFinalization, [Next]_vars
    PROVE  OneFinalization'
<1> SUFFICES ASSUME NEW v \in Utterances, Unfinished(v)'
             PROVE  state' = "Finalizing" /\ v = utt'
  BY DEF OneFinalization
<1> USE DEF TypeOK, OneFinalization, Unfinished
<1>1. CASE UNCHANGED sessionVars
  BY <1>1 DEF sessionVars
<1>2. CASE HandleStart
  BY <1>2 DEF HandleStart, Accepts
<1>3. CASE HandleEnd
  BY <1>3 DEF HandleEnd
<1>4. CASE HandleAudioFrame \/ BeginUtterance
  BY <1>4 DEF HandleAudioFrame, BeginUtterance
<1>5. ASSUME NEW u \in Utterances, TaskStep(u)
      PROVE  state' = "Finalizing" /\ v = utt'
  <2>2. CASE Finalize(u)
    BY <2>2 DEF Finalize
  <2>3. CASE SendResult(u)
    BY <2>3 DEF SendResult
  <2>4. CASE Settle(u)
    BY <2>4 DEF Settle
  <2>5. QED BY <1>5, <2>2, <2>3, <2>4 DEF TaskStep
<1>6. CASE UNCHANGED vars
  BY <1>6, <1>1 DEF vars
<1>7. QED
  BY <1>1, <1>2, <1>3, <1>4, <1>5, <1>6
  DEF Next, Forward, SpeechStart, SpeechEnd, SetActivationMode,
      ReplaceTrigger, LoseTrigger, ForwardNext, ForwardToInjection,
      ForwardToUi, InjectorReceives, InjectionBegins, InjectionAnswered,
      UiReceives, DropReader

\* At most one finalization is under way, and while one is the processor
\* says so: no task resets the state of an utterance other than its own.
THEOREM FinalizationsExclusive == Spec => []OneFinalization
<1>1. ASSUME Init PROVE OneFinalization
  BY <1>1 DEF Init, OneFinalization, Unfinished
<1>2. QED
  BY <1>1, TypeCorrect, OneFinalizationStep, PTL DEF Spec

(***************************************************************************)
(* The results between the finalization tasks and the injection processor  *)
(* are one line, whichever queue each of them stands in.                   *)
(***************************************************************************)
Carried == IF fwpc = "inject" THEN <<forwarding>> ELSE <<>>
Line == injected \o injq \o Carried \o stream

\* What a step does to the line: nothing, or a result joins it at its end,
\* or, when nobody injects, the forwarder drops one, or all that are left.
LEMMA LineStep ==
  ASSUME TypeOK, [Next]_vars
  PROVE  \/ Line' = Line
         \/ \E u \in Utterances : SendResult(u) /\ Line' = Append(Line, u)
         \/ /\ UNCHANGED sessionVars
            /\ \E a, b \in Seq(Utterances), x \in Utterances :
                 Line = a \o <<x>> \o b /\ Line' = a \o b
         \/ /\ UNCHANGED sessionVars
            /\ \E a, b \in Seq(Utterances) : Line = a \o b /\ Line' = a
<1> DEFINE front == injected \o injq
<1>0. \A r, s, t \in Seq(Utterances) : (r \o s) \o t = r \o (s \o t)
  BY RegroupedUtterances
<1>1. /\ injected \in Seq(Utterances) /\ injq \in Seq(Utterances)
      /\ stream \in Seq(Utterances)
      /\ fwpc = "inject" => forwarding \in Utterances
  BY DEF TypeOK
<1>2. front \in Seq(Utterances)
  BY <1>1
<1>3. Carried \in Seq(Utterances) /\ front \o Carried \in Seq(Utterances)
  BY <1>1, <1>2 DEF Carried
<1>4. ASSUME NEW u \in Utterances, SendResult(u), stream' # stream
      PROVE  Line' = Append(Line, u)
  <2>1. Line' = (front \o Carried) \o Append(stream, u)
    BY <1>4 DEF SendResult, Line, Carried
  <2>2. PICK f \in Seq(Utterances) : f = front \o Carried
    BY <1>3
  <2>3. f \o Append(stream, u) = Append(f \o stream, u)
    BY <1>1, JoinedBehindUtterances
  <2>4. QED BY <2>1, <2>2, <2>3 DEF Line
<1>5. CASE ForwardNext
  <2>1. Carried = <<>> /\ stream # <<>> /\ UNCHANGED <<injected, injq>>
    BY <1>5 DEF ForwardNext, Carried
  <2>2. front \o Carried = front
    BY <1>2, <2>1, ConcatEmptySeq
  <2>3. /\ Head(stream) \in Utterances /\ Tail(stream) \in Seq(Utterances)
        /\ <<Head(stream)>> \in Seq(Utterances)
    BY <1>1, <2>1, HeadTaken
  <2>4. Append(front, Head(stream)) = front \o <<Head(stream)>>
    BY <1>2, <2>3, LastAdded
  <2>5. Line = front \o <<Head(stream)>> \o Tail(stream)
    <3>1. Line = front \o stream
      BY <2>2 DEF Line
    <3>2. ASSUME NEW f \in Seq(Utterances)
          PROVE  Append(f, Head(stream)) \o Tail(stream) = f \o stream
      BY <1>1, <2>1, MovedOn
    <3>3. Append(front, Head(stream)) \o Tail(stream) = front \o stream
      BY <1>2, <3>2
    <3>4. QED BY <2>4, <3>1, <3>3
  <2>6. CASE injection = "open"
    BY <1>5, <2>1, <2>5, <2>6 DEF ForwardNext, Line, Carried
  <2>7. CASE injection # "open"
    <3>1. Carried' = <<>> /\ stream' = Tail(stream)
      BY <1>5, <2>7 DEF ForwardNext, Carried
    <3>2. Line' = front \o Tail(stream)
      BY <1>2, <2>1, <3>1, ConcatEmptySeq DEF Line
    <3>3. UNCHANGED sessionVars
      BY <1>5 DEF ForwardNext
    <3>4. QED BY <1>2, <2>3, <2>5, <3>2, <3>3
  <2>8. QED BY <2>6, <2>7
<1>6. CASE ForwardToInjection
  <2>1. /\ Carried = <<forwarding>> /\ Carried' = <<>>
        /\ forwarding \in Utterances /\ UNCHANGED <<injected, stream>>
    BY <1>1, <1>6 DEF ForwardToInjection, Carried
  <2>2. CASE injq' = Append(injq, forwarding)
    <3>1. injq' = injq \o Carried /\ injq' \in Seq(Utterances)
      BY <1>1, <2>1, <2>2, LastAdded
    <3>2. injected \o injq' = front \o Carried
      <4> DEFINE c == Carried
      <4>1. c \in Seq(Utterances)
        BY <1>3
      <4> HIDE DEF c
      <4>2. (injected \o injq) \o c = injected \o (injq \o c)
        <5>1. injected \in Seq(Utterances) /\ injq \in Seq(Utterances)
          BY <1>1
        <5>2. QED BY <4>1, <5>1, <1>0, Zenon
      <4>3. QED BY <3>1, <4>2 DEF c
    <3>3. (injected \o injq') \o <<>> = injected \o injq'
      BY <1>1, <3>1, ConcatEmptySeq, ConcatProperties
    <3>4. QED BY <2>1, <3>2, <3>3 DEF Line
  <2>3. CASE injq' = injq
    <3>1. Line' = front \o stream
      BY <1>2, <2>1, <2>3, ConcatEmptySeq DEF Line
    <3>2. Line = front \o <<forwarding>> \o stream
      BY <2>1 DEF Line
    <3>3. UNCHANGED sessionVars
      BY <1>6 DEF ForwardToInjection
    <3>4. QED BY <1>1, <1>2, <2>1, <3>1, <3>2, <3>3
  <2>4. QED BY <1>6, <2>2, <2>3 DEF ForwardToInjection
<1>7. CASE InjectorReceives
  <2>1. /\ injq # <<>> /\ injected' = Append(injected, Head(injq))
        /\ injq' = Tail(injq) /\ UNCHANGED <<stream, fwpc, forwarding>>
    BY <1>7 DEF InjectorReceives
  <2>2. (injected \o injq)' = front
    BY <1>1, <2>1, MovedOn
  <2>3. QED BY <2>1, <2>2 DEF Line, Carried
<1>8. CASE UNCHANGED <<stream, injq, injected>> /\ Carried' = Carried
  BY <1>8 DEF Line
<1>9. CASE \E u \in Utterances : TaskStep(u)
  <2>1. PICK u \in Utterances : TaskStep(u)
    BY <1>9
  <2>2. CASE SendResult(u)
    <3>1. CASE stream' = stream
      BY <1>8, <2>2, <3>1 DEF SendResult, Carried
    <3>2. QED BY <1>4, <2>2, <3>1
  <2>3. CASE Finalize(u) \/ Settle(u)
    BY <1>8, <2>3 DEF Finalize, Settle, outVars, Carried
  <2>4. QED BY <2>1, <2>2, <2>3 DEF TaskStep
<1>10. CASE ForwardToUi
  <2>1. /\ Carried = <<>> /\ Carried' = <<>> /\ UNCHANGED <<injq, injected>>
        /\ UNCHANGED sessionVars
    BY <1>10 DEF ForwardToUi, Carried
  <2>2. CASE stream' = stream
    BY <1>8, <2>1, <2>2
  <2>3. CASE stream' = <<>>
    <3>1. Line = front \o stream /\ Line' = front
      BY <1>2, <2>1, <2>3, ConcatEmptySeq DEF Line
    <3>2. QED BY <1>1, <1>2, <2>1, <3>1
  <2>4. QED BY <1>10, <2>2, <2>3 DEF ForwardToUi
<1>11. CASE UNCHANGED outVars
  BY <1>8, <1>11 DEF outVars, Carried
<1>12. CASE UiReceives \/ DropReader
  BY <1>8, <1>12 DEF UiReceives, DropReader, Carried
<1>13. QED
  BY <1>5, <1>6, <1>7, <1>9, <1>10, <1>11, <1>12
  DEF Next, Forward, vars, SpeechStart, SpeechEnd, SetActivationMode,
      ReplaceTrigger, LoseTrigger, HandleStart, HandleEnd, HandleAudioFrame,
      BeginUtterance, InjectionBegins, InjectionAnswered

(***************************************************************************)
(* What makes the order inductive: every result in the line is of an       *)
(* utterance accepted by now, and of the last one only when that one has   *)
(* been sent, so that a result that joins the line is younger than all.    *)
(***************************************************************************)
Sent(u) == u = utt => state # "SpeechActive"
                      /\ task[u] \notin {"finalize", "send"}
LineInv == Ascending(Line) /\ \A u \in Range(Line) : u <= utt /\ Sent(u)

\* A step of the processor: a later utterance makes the sent ones older, and
\* a finalization that begins, goes on or ends is of one not sent.
LEMMA SentStep ==
  ASSUME TypeOK, OneFinalization, [Next]_vars,
         NEW u \in Utterances, u <= utt, Sent(u)
  PROVE  u <= utt' /\ Sent(u)'
<1> USE DEF TypeOK, OneFinalization, Unfinished, Sent
<1>1. CASE UNCHANGED sessionVars
  BY <1>1 DEF sessionVars
<1>2. CASE HandleStart
  <2>1. /\ task' = task
        /\ \/ state' = state /\ utt' = utt
           \/ utt' = utt + 1
    BY <1>2 DEF HandleStart
  <2>2. u # utt + 1 /\ u <= utt + 1
    BY DEF Utterances
  <2>3. QED BY <2>1, <2>2
<1>3. CASE HandleEnd
  BY <1>3 DEF HandleEnd
<1>4. CASE HandleAudioFrame \/ BeginUtterance
  BY <1>4 DEF HandleAudioFrame, BeginUtterance
<1>5. ASSUME NEW v \in Utterances, TaskStep(v) PROVE u <= utt' /\ Sent(u)'
  <2>2. CASE Finalize(v)
    BY <2>2 DEF Finalize
  <2>3. CASE SendResult(v)
    BY <2>3 DEF SendResult
  <2>4. CASE Settle(v)
    BY <2>4 DEF Settle, Reset
  <2>5. QED BY <1>5, <2>2, <2>3, <2>4 DEF TaskStep
<1>6. CASE UNCHANGED vars
  BY <1>6, <1>1 DEF vars
<1>7. QED
  BY <1>1, <1>2, <1>3, <1>4, <1>5, <1>6
  DEF Next, Forward, SpeechStart, SpeechEnd, SetActivationMode,
      ReplaceTrigger, LoseTrigger, ForwardNext, ForwardToInjection,
      ForwardToUi, InjectorReceives, InjectionBegins, InjectionAnswered,
      UiReceives, DropReader

LEMMA LineOrdered ==
  ASSUME TypeOK, OneFinalization, LineInv, [Next]_vars
  PROVE  LineInv'
<1>1. Line \in Seq(Utterances) /\ Line \in Seq(Int)
  <2>1. /\ injected \in Seq(Utterances) /\ injq \in Seq(Utterances)
        /\ stream \in Seq(Utterances) /\ Carried \in Seq(Utterances)
    BY DEF TypeOK, Carried
  <2>2. Line \in Seq(Utterances)
    BY <2>1, ConcatParts DEF Line
  <2>3. QED BY <2>2, SeqMonotonic DEF Utterances
<1>2. ASSUME NEW u \in Range(Line)
      PROVE  u \in Utterances /\ u <= utt' /\ Sent(u)'
  <2>1. u \in Utterances
    BY <1>1, ElementOfSeq DEF Range
  <2>2. QED BY <2>1, SentStep DEF LineInv
<1>3. CASE Line' = Line
  BY <1>2, <1>3 DEF LineInv
<1>4. ASSUME NEW u \in Utterances, SendResult(u), Line' = Append(Line, u)
      PROVE  LineInv'
  <2>1. task[u] = "send" /\ u = utt /\ utt' = utt /\ state' # "SpeechActive"
        /\ task'[u] = "settle"
    BY <1>4 DEF TypeOK, OneFinalization, Unfinished, SendResult
  <2>2. ASSUME NEW v \in Range(Line) PROVE v < u
    BY <1>2, <2>1 DEF LineInv, Sent, Utterances
  <2>3. Ascending(Line') /\ Range(Line') = Range(Line) \union {u}
    <3>1. PICK l \in Seq(Int) : l = Line
      BY <1>1
    <3>2. Ascending(l) /\ u \in Int /\ \A v \in Range(l) : v < u
      BY <2>2, <3>1 DEF LineInv, Utterances
    <3>3. Ascending(Append(l, u)) /\ Range(Append(l, u)) = Range(l) \union {u}
      BY <3>2, OneJoins
    <3>4. QED BY <1>4, <3>1, <3>3
  <2>4. u <= utt' /\ Sent(u)'
    BY <2>1 DEF Sent, Utterances
  <2>5. QED BY <1>2, <2>3, <2>4 DEF LineInv
<1>5. ASSUME UNCHANGED sessionVars,
             NEW a \in Seq(Utterances), NEW b \in Seq(Utterances),
             NEW x \in Utterances, Line = a \o <<x>> \o b, Line' = a \o b
      PROVE  LineInv'
  <2>1. a \in Seq(Int) /\ b \in Seq(Int) /\ x \in Int
    BY SeqMonotonic DEF Utterances
  <2>2. Ascending(Line') /\ Range(Line') \subseteq Range(Line)
    BY <1>5, <2>1, OneLeaves DEF LineInv
  <2>3. QED BY <1>2, <2>2 DEF LineInv
<1>6. ASSUME UNCHANGED sessionVars,
             NEW a \in Seq(Utterances), NEW b \in Seq(Utterances),
             Line = a \o b, Line' = a
      PROVE  LineInv'
  <2>1. a \in Seq(Int) /\ b \in Seq(Int)
    BY SeqMonotonic DEF Utterances
  <2>2. Ascending(Line') /\ Range(Line') \subseteq Range(Line)
    BY <1>6, <2>1, RestLeaves DEF LineInv
  <2>3. QED BY <1>2, <2>2 DEF LineInv
<1>7. QED BY <1>3, <1>4, <1>5, <1>6, LineStep

\* Results reach the injection processor in the order the utterances were
\* spoken and none twice, whatever the capacities of the queues.
THEOREM ResultsInOrder == Spec => []InSpokenOrder
<1>1. ASSUME Init PROVE LineInv
  <2>1. Line = <<>>
    BY <1>1 DEF Init, Line, Carried
  <2>2. QED BY <2>1, AscendingNone, RangeOfNone DEF LineInv
<1>2. LineInv => InSpokenOrder
  BY DEF LineInv, InSpokenOrder, Line, Carried, Ascending, Increasing
<1>3. QED
  BY <1>1, <1>2, TypeCorrect, FinalizationsExclusive, LineOrdered, PTL
  DEF Spec

(***************************************************************************)
(* Refinement.  The trigger here is the one SessionTrigger describes; the  *)
(* processor takes its events one at a time.                               *)
(***************************************************************************)
LEMMA TriggerStep ==
  ASSUME TypeOK, [Next]_vars
  PROVE  [Trigger!Next]_<<trigger, Len(sessions)>>
<1> USE DEF TypeOK, Trigger!Next
<1>1. CASE SpeechStart
  BY <1>1 DEF SpeechStart, HasRoom, Trigger!SpeechStart
<1>2. CASE SpeechEnd
  BY <1>2 DEF SpeechEnd, HasRoom, Trigger!SpeechEnd
<1>3. CASE ReplaceTrigger \/ LoseTrigger
  BY <1>3 DEF ReplaceTrigger, LoseTrigger, Trigger!Lost
<1>4. CASE HandleStart \/ HandleEnd
  <2>1. sessions # <<>> /\ sessions' = Tail(sessions) /\ trigger' = trigger
    BY <1>4 DEF HandleStart, HandleEnd, triggerVars
  <2>2. Len(sessions) > 0 /\ Len(sessions') = Len(sessions) - 1
    BY <2>1
  <2>3. QED BY <2>1, <2>2 DEF Trigger!Taken
<1>5. ASSUME \/ UNCHANGED vars \/ HandleAudioFrame \/ BeginUtterance
             \/ Forward \/ InjectorReceives \/ InjectionBegins
             \/ InjectionAnswered \/ UiReceives \/ DropReader
             \/ \E m \in Modes : SetActivationMode(m)
             \/ \E u \in Utterances : TaskStep(u)
      PROVE  UNCHANGED <<trigger, Len(sessions)>>
  BY <1>5
  DEF vars, triggerVars, HandleAudioFrame, Forward, ForwardNext,
      ForwardToInjection, ForwardToUi, InjectorReceives, UiReceives,
      InjectionBegins, InjectionAnswered, DropReader, SetActivationMode,
      TaskStep, BeginUtterance, Finalize, SendResult, Settle
<1>6. QED BY <1>1, <1>2, <1>3, <1>4, <1>5 DEF Next

\* What the pipeline takes for granted of its trigger is what SessionTrigger
\* promises, for any capacity, however often triggers are replaced or lost.
THEOREM TriggerAssumed == Spec => ListensToTrigger
<1>1. ASSUME Init PROVE Trigger!Init
  BY <1>1 DEF Init, Trigger!Init
<1>2. QED
  BY <1>1, TypeCorrect, TriggerStep, PTL
  DEF Spec, ListensToTrigger, Trigger!Spec
=============================================================================
