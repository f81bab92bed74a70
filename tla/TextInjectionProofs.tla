------------------------ MODULE TextInjectionProofs ------------------------
(***************************************************************************)
(* Theorems of InjectionProcessor, for any capacities, limits and timeouts; *)
(* what follows from them for TextInjection, in which the strategy manager *)
(* does the injecting; and theorems of Injectors, for any number of texts  *)
(* and of the user's copies.                                               *)
(***************************************************************************)
EXTENDS TextInjection, Injectors, QueueTheorems, TLAPS

USE ProcessorAssumption DEF ProcessorAssumption

LEMMA AfterIsText == ASSUME NEW n \in Texts PROVE After(n) \in Texts
  BY DEF After, Texts

LEMMA AgeBound == MaxAge \in Nat
  BY DEF MaxAge, Longest

LEMMA MovedBehind ==
  \A r, s, t \in Seq(Texts) :
    t # <<>> => (r \o Append(s, Head(t))) \o Tail(t) = (r \o s) \o t
<1> TAKE r, s, t \in Seq(Texts)
<1> HAVE t # <<>>
<1>1. PICK a \in Seq(Texts), b \in Seq(Texts) :
        a = Append(s, Head(t)) /\ b = Tail(t)
  BY HeadTaken, LastAdded
<1>2. a \o b = s \o t
  BY <1>1, MovedOn
<1>3. (r \o a) \o b = r \o (a \o b)
  BY ConcatAssociative, SMTT(30)
<1>4. (r \o s) \o t = r \o (s \o t)
  BY ConcatAssociative, SMTT(30)
<1>5. QED BY <1>1, <1>2, <1>3, <1>4

LEMMA StateType ==
  ASSUME NEW texts, NEW e
  PROVE  StateAfterAdding(texts, e) \in {"Buffering", "ReadyToInject"}
  BY DEF StateAfterAdding

\* A batch is held exactly while the injector works on it: an aborted task
\* may have been at either place.
BatchHeld == /\ loop = "select" => batch = <<>>
             /\ loop = "inject" => batch # <<>>

LEMMA BatchStep == ASSUME BatchHeld, [Next]_vars PROVE BatchHeld'
  BY DEF BatchHeld, Next, Check, Arrive, ReceiveMore, Tick, Receive,
         NoticePause, TakeBuffer, InjectReturns, Abort, vars, channelVars,
         sessionVars

LEMMA TypeInit == Init => TypeOK /\ BatchHeld
  BY AgeBound DEF Init, TypeOK, BatchHeld, Texts

LEMMA TypeStep == ASSUME TypeOK, BatchHeld, [Next]_vars PROVE TypeOK'
<1> USE DEF TypeOK, channelVars, sessionVars
<1>1. ASSUME NEW e \in Endings, Arrive(e) PROVE TypeOK'
  <2>1. After(spoken) \in Texts
    BY AfterIsText
  <2>2. inbox' \in Seq(Texts) /\ Len(inbox') <= ChannelCap
        /\ Len(inbox') = Len(inbox) + 1
    BY <1>1, <2>1, LastAdded DEF Arrive
  <2>3. endings' \in Seq(Endings) /\ Len(endings') = Len(endings) + 1
    BY <1>1, LastAdded DEF Arrive
  <2>4. QED BY <1>1, <2>1, <2>2, <2>3 DEF Arrive
<1>2. ASSUME NEW e \in Endings, ReceiveMore(e) PROVE TypeOK'
  BY <1>2, StateType, AgeBound DEF ReceiveMore
<1>3. CASE Tick
  BY <1>3, AgeBound DEF Tick
<1>4. CASE Receive
  <2>1. inbox \in Seq(Texts) /\ inbox # <<>> /\ endings # <<>>
    BY <1>4 DEF Receive
  <2>2. Head(inbox) \in Texts /\ Tail(inbox) \in Seq(Texts)
        /\ Len(Tail(inbox)) = Len(inbox) - 1
    BY <2>1, HeadTaken
  <2>3. Tail(endings) \in Seq(Endings)
        /\ Len(Tail(endings)) = Len(endings) - 1
    BY <2>1, HeadTaken
  <2>4. Append(buffer, Head(inbox)) \in Seq(Texts)
    BY <2>2, LastAdded
  <2>5. inbox' = Tail(inbox) /\ endings' = Tail(endings)
        /\ buffer' = Append(buffer, Head(inbox)) /\ age' = 0
        /\ state' \in {"Buffering", "ReadyToInject"}
        /\ UNCHANGED <<loop, spoken, batch, settled>>
    BY <1>4, StateType DEF Receive
  <2>6. Len(inbox') <= ChannelCap /\ Len(endings') = Len(inbox')
    BY <2>2, <2>3, <2>5
  <2>7. QED BY <2>2, <2>3, <2>4, <2>5, <2>6, AgeBound
<1>5. CASE NoticePause
  BY <1>5 DEF NoticePause
<1>6. CASE TakeBuffer
  BY <1>6, AgeBound DEF TakeBuffer, LeftInBuffer
<1>7. CASE InjectReturns
  <2>1. batch # <<>>
    BY <1>7 DEF InjectReturns, BatchHeld
  <2>2. batch[Len(batch)] \in Texts
    BY <2>1
  <2>3. QED BY <1>7, <2>2 DEF InjectReturns
<1>8. CASE Abort
  BY <1>8 DEF Abort
<1>9. CASE UNCHANGED vars
  BY <1>9 DEF vars
<1>10. QED
  BY <1>1, <1>2, <1>3, <1>4, <1>5, <1>6, <1>7, <1>8, <1>9 DEF Next, Check

\* Every variable keeps its type: only numbers of texts are passed on, and the
\* channel never holds more than its capacity.
THEOREM TypeCorrect == Spec => []TypeOK
<1>1. TypeOK /\ BatchHeld /\ [Next]_vars => (TypeOK /\ BatchHeld)'
  BY TypeStep, BatchStep
<1>2. QED
  BY TypeInit, <1>1, PTL DEF Spec

(***************************************************************************)
(* No text is lost.  Pending is a chain of consecutive numbers: an arrival *)
(* extends it at the end, an answer of the injector removes the batch at   *)
(* its front, and every other step only moves texts within it.             *)
(***************************************************************************)
EndOf(q, n) == IF q = <<>> THEN n ELSE q[Len(q)]

\* A chain with its last number's successor added is a chain.
LEMMA ChainGrows ==
  ASSUME NEW q \in Seq(Texts), NEW n \in Texts, Chained(q, n),
         NEW e, e = After(EndOf(q, n))
  PROVE  Chained(Append(q, e), n) /\ EndOf(Append(q, e), n) = e
<1> DEFINE r == Append(q, e)
<1>0. e \in Texts
  <2>1. EndOf(q, n) \in Texts
    BY DEF EndOf
  <2>2. QED BY <2>1, AfterIsText
<1>1. /\ Len(r) = Len(q) + 1 /\ r # <<>> /\ r[Len(r)] = e
      /\ \A i \in 1 .. Len(q) : r[i] = q[i]
  BY <1>0
<1>2. r[1] = After(n)
  <2>1. CASE q = <<>>
    BY <1>1, <2>1 DEF EndOf
  <2>2. CASE q # <<>>
    <3>1. Len(q) \in Nat \ {0}
      BY <2>2
    <3>2. r[1] = q[1]
      BY <1>1, <3>1
    <3>3. QED BY <2>2, <3>2 DEF Chained
  <2>3. QED BY <2>1, <2>2
<1>3. ASSUME NEW i \in 1 .. Len(r) - 1 PROVE r[i + 1] = After(r[i])
  <2>1. CASE i = Len(q)
    BY <1>1, <2>1 DEF EndOf
  <2>2. CASE i < Len(q)
    BY <1>1, <2>2 DEF Chained
  <2>3. QED BY <1>1, <2>1, <2>2
<1>4. QED BY <1>1, <1>2, <1>3 DEF Chained, EndOf

\* A chain without a front part is a chain from where that part ended.
LEMMA ChainShrinks ==
  ASSUME NEW p \in Seq(Texts), NEW q \in Seq(Texts), NEW n \in Texts, p # <<>>,
         Chained(p \o q, n)
  PROVE  /\ Chained(q, p[Len(p)])
         /\ EndOf(p \o q, n) = EndOf(q, p[Len(p)])
<1> DEFINE r == p \o q
<1>1. /\ Len(r) = Len(p) + Len(q) /\ Len(p) \in Nat \ {0}
      /\ \A i \in 1 .. Len(p) : r[i] = p[i]
      /\ \A i \in 1 .. Len(q) : r[Len(p) + i] = q[i]
  OBVIOUS
<1>2. q # <<>> => q[1] = After(p[Len(p)])
  BY <1>1 DEF Chained
<1>3. ASSUME NEW i \in 1 .. Len(q) - 1 PROVE q[i + 1] = After(q[i])
  <2>1. Len(p) + i \in 1 .. Len(r) - 1 /\ i + 1 \in 1 .. Len(q)
    BY <1>1
  <2>2. r[Len(p) + i + 1] = After(r[Len(p) + i])
    BY <2>1 DEF Chained
  <2>3. r[Len(p) + (i + 1)] = q[i + 1] /\ r[Len(p) + i] = q[i]
    BY <1>1, <2>1
  <2>4. QED BY <1>1, <2>1, <2>2, <2>3
<1>4. r # <<>> /\ EndOf(r, n) = EndOf(q, p[Len(p)])
  BY <1>1 DEF EndOf
<1>5. QED BY <1>2, <1>3, <1>4 DEF Chained

LEMMA NothingLostInit == Init => NothingLost
  BY DEF Init, NothingLost, Pending, Chained

LEMMA NothingLostStep ==
  ASSUME TypeOK, BatchHeld, NothingLost, [Next]_vars
  PROVE  NothingLost'
<1> USE DEF TypeOK, channelVars, sessionVars
<1> SUFFICES \/ Pending' = Pending /\ UNCHANGED <<spoken, settled>>
             \/ NothingLost'
  BY DEF NothingLost, Chained
<1>1. Pending \in Seq(Texts)
  BY DEF Pending
<1>2. Chained(Pending, settled) /\ spoken = EndOf(Pending, settled)
  BY DEF NothingLost, EndOf
<1>3. ASSUME NEW e \in Endings, Arrive(e) PROVE NothingLost'
  <2>1. After(spoken) \in Texts
    BY AfterIsText
  <2>2. settled' = settled /\ spoken' = After(spoken)
        /\ inbox' = Append(inbox, After(spoken))
        /\ UNCHANGED <<batch, buffer>>
    BY <1>3 DEF Arrive
  <2> DEFINE front == batch \o buffer
  <2>3. front \in Seq(Texts)
    OBVIOUS
  <2>4. front \o Append(inbox, After(spoken))
          = Append(front \o inbox, After(spoken))
    BY <2>1, <2>3
  <2>5. Pending' = Append(Pending, After(spoken))
    BY <2>2, <2>4 DEF Pending
  <2>6. Chained(Pending', settled) /\ EndOf(Pending', settled) = After(spoken)
    BY <1>1, <1>2, <2>5, ChainGrows
  <2>7. spoken' = IF Pending' = <<>> THEN settled' ELSE Pending'[Len(Pending')]
    BY <2>2, <2>6 DEF EndOf
  <2>8. Chained(Pending', settled')
    BY <2>2, <2>6
  <2>9. QED BY <2>7, <2>8 DEF NothingLost, Chained
<1>4. CASE Receive
  <2>1. inbox # <<>> /\ inbox' = Tail(inbox)
        /\ buffer' = Append(buffer, Head(inbox))
        /\ UNCHANGED <<spoken, batch, settled>>
    BY <1>4 DEF Receive
  <2>2. batch \in Seq(Texts) /\ buffer \in Seq(Texts) /\ inbox \in Seq(Texts)
    OBVIOUS
  <2>3. (batch \o Append(buffer, Head(inbox))) \o Tail(inbox)
          = (batch \o buffer) \o inbox
    BY <2>1, <2>2, MovedBehind, Zenon
  <2>4. QED BY <2>1, <2>3 DEF Pending
<1>5. CASE TakeBuffer
  BY <1>5 DEF TakeBuffer, LeftInBuffer, Pending, BatchHeld
<1>6. CASE InjectReturns
  <2>1. batch # <<>>
    BY <1>6 DEF InjectReturns, BatchHeld
  <2> DEFINE others == buffer \o inbox
  <2>2. others \in Seq(Texts) /\ Pending = batch \o others
    BY DEF Pending
  <2>3. Pending' = others /\ spoken' = spoken /\ settled' = batch[Len(batch)]
    BY <1>6 DEF InjectReturns, Pending
  <2>4. QED BY <1>2, <2>1, <2>2, <2>3, ChainShrinks DEF NothingLost, EndOf
<1>7. CASE \/ \E e \in Endings : ReceiveMore(e)
           \/ Tick \/ NoticePause \/ Abort \/ UNCHANGED vars
  BY <1>7 DEF ReceiveMore, Tick, NoticePause, Abort, vars, Pending
<1>8. QED
  BY <1>3, <1>4, <1>5, <1>6, <1>7 DEF Next, Check

\* The session and the loop lose, repeat and reorder no text.
THEOREM NoTextLost == Spec => []NothingLost
<1>1. TypeOK /\ BatchHeld /\ NothingLost /\ [Next]_vars
        => (TypeOK /\ BatchHeld /\ NothingLost)'
  BY TypeStep, BatchStep, NothingLostStep
<1>2. QED
  BY TypeInit, NothingLostInit, <1>1, PTL DEF Spec

-----------------------------------------------------------------------------
(* The two parts together                                                  *)

LEMMA SessionStep == [SystemNext]_systemVars => [Next]_vars
<1>1. SystemNext => Next \/ UNCHANGED vars
  BY DEF SystemNext, Listen, HandOver, Work, RecordResult, TimePasses,
         Next, Check
<1>2. UNCHANGED systemVars => UNCHANGED vars
  BY DEF systemVars
<1>3. QED BY <1>1, <1>2

LEMMA ManagerStep == [SystemNext]_systemVars => [Manager!Next]_(Manager!vars)
<1>1. SystemNext => Manager!Next \/ UNCHANGED managerVars
  BY DEF SystemNext, Listen, HandOver, Work, RecordResult, TimePasses,
         Manager!Next
<1>2. UNCHANGED managerVars => UNCHANGED Manager!vars
  BY DEF managerVars, Manager!vars, Manager!callVars, Manager!triedVars,
         Manager!historyVars
<1>3. UNCHANGED systemVars => UNCHANGED managerVars
  BY DEF systemVars
<1>4. QED BY <1>1, <1>2, <1>3

\* Text injection as a whole implements both of its parts: the loop calls the
\* manager as StrategyManager expects to be called, and the manager answers
\* as InjectionProcessor expects to be answered.
THEOREM Composed == SystemSpec => Spec /\ Manager!Spec
<1>1. SystemInit => Init /\ Manager!Init
  BY DEF SystemInit
<1>2. QED
  BY <1>1, SessionStep, ManagerStep, PTL DEF SystemSpec, Spec, Manager!Spec

\* So no text is lost whatever the strategy manager does with it.
THEOREM NoTextLostInSystem == SystemSpec => []NothingLost
  BY Composed, NoTextLost, PTL
-----------------------------------------------------------------------------
(* What the injectors do to the desktop                                    *)

USE InjectorsAssumption DEF InjectorsAssumption

\* What the variables hold.  The texts told are behind the one at work, and
\* what AT-SPI was asked to insert is the last thing asked.
Methods == {"atspi", "clipboard", "enigo", "kdotool", "noop"}
Clips == ({"text"} \X TextIds) \union ({"user"} \X Nat)
Asks == {"insert", "paste", "type"} \X TextIds
InjectorsTypeOK ==
    /\ text \in 0 .. MaxTexts /\ (stage # "idle" => text \in TextIds)
    /\ order \in Seq(Methods) /\ left \in Seq(Methods)
    /\ copies \in Nat /\ base \in Nat
    /\ clip \in Clips /\ backup \in Clips
    /\ restores \in Seq(Clips) /\ requests \in Seq(Asks)
    /\ entered \in [TextIds -> Nat]
    /\ foreign \in {"yes", "no"}

\* The stages in which the clipboard holds the text and the user's clip is
\* the backup.
Seeded == {"settle", "press", "ydotool", "pasted", "unpasted", "seqAct",
           "seqKeys", "seqYdotool", "seqPasted", "seqUnpasted"}

ClipInv ==
    \/ Excused({"copied", "overlap", "unrestored"})
    \/ /\ \A i \in 1 .. Len(restores) : restores[i] = Users
       /\ stage \in Seeded \union {"seed", "seqSeed"} =>
            backup = Users /\ restores = <<>>
       /\ clip = Users \/ stage \in Seeded \/ restores # <<>>

\* The stages from which a paste may follow.
MayPaste == {"find", "act", "keys", "settle", "press", "ydotool", "seqAct",
             "seqKeys", "seqYdotool"}

PasteInv ==
    \/ Excused({"copied", "overlap", "slow", "enigo"})
    \/ /\ foreign = "no"
       /\ \A i \in 1 .. Len(requests) :
            requests[i][1] = "paste" => clip = <<"text", requests[i][2]>>
       /\ stage \in MayPaste => clip = Mine /\ restores = <<>>
       /\ stage \in {"seed", "seqSeed"} => restores = <<>>
       /\ stage \notin {"enigo", "type"}

\* The request that joins the queue, or the one that leaves it.
LEMMA RequestType ==
  ASSUME InjectorsTypeOK, stage # "idle",
         NEW kind \in {"insert", "paste", "type"}
  PROVE  Asked(kind) \in Seq(Asks) /\ Mine \in Clips
<1>1. <<kind, text>> \in Asks /\ Mine \in Clips
  BY DEF InjectorsTypeOK, Asks, Mine, Clips
<1>2. QED BY <1>1, WithLast DEF InjectorsTypeOK, Asked

LEMMA OrdersType == ManagerOrders \union OrchestratorOrders
                      \union {<<"clipboard">>} \subseteq Seq(Methods)
<1>1. /\ <<"noop">> \in Seq(Methods)
      /\ <<"kdotool", "clipboard">> \in Seq(Methods)
      /\ <<"clipboard">> \in Seq(Methods)
      /\ <<"atspi", "clipboard">> \in Seq(Methods)
  BY DEF Methods
<1>2. ASSUME NEW a \in {<<>>, <<"atspi">>}, NEW b \in {<<>>, <<"enigo">>}
      PROVE  a \o b \o <<"clipboard">> \in Seq(Methods)
  <2>1. /\ <<>> \in Seq(Methods) /\ <<"atspi">> \in Seq(Methods)
        /\ <<"enigo">> \in Seq(Methods)
    BY DEF Methods
  <2>2. a \in Seq(Methods) /\ b \in Seq(Methods)
    BY <2>1
  <2>3. a \o b \in Seq(Methods)
    BY <2>2, ConcatParts
  <2>4. QED BY <1>1, <2>3, ConcatParts
<1>3. ASSUME NEW o \in ManagerOrders PROVE o \in Seq(Methods)
  <2>1. CASE o \in {<<"noop">>, <<"kdotool", "clipboard">>}
    BY <1>1, <2>1
  <2>2. CASE o \in {a \o b \o <<"clipboard">> : a \in {<<>>, <<"atspi">>},
                                               b \in {<<>>, <<"enigo">>}}
    <3>1. PICK a \in {<<>>, <<"atspi">>}, b \in {<<>>, <<"enigo">>} :
            o = a \o b \o <<"clipboard">>
      BY <2>2
    <3>2. QED BY <1>2, <3>1
  <2>3. QED BY <2>1, <2>2 DEF ManagerOrders
<1>4. QED BY <1>1, <1>3 DEF OrchestratorOrders

LEMMA InjectorsTypeInit == InjectorsInit => InjectorsTypeOK
<1> SUFFICES ASSUME InjectorsInit PROVE InjectorsTypeOK
  OBVIOUS
<1>1. order \in Seq(Methods)
  BY OrdersType DEF InjectorsInit
<1>2. /\ text = 0 /\ stage = "idle" /\ left = <<>> /\ copies = 0 /\ base = 0
      /\ clip = <<"user", 0>> /\ backup = <<"user", 0>> /\ restores = <<>>
      /\ requests = <<>> /\ entered = [n \in TextIds |-> 0]
      /\ foreign = "no" /\ excuses = {}
  BY DEF InjectorsInit, Nothing
<1>3. QED BY <1>1, <1>2 DEF InjectorsTypeOK, Clips

LEMMA InjectorsTypeStep ==
  ASSUME InjectorsTypeOK, [InjectorsNext]_injectorVars PROVE InjectorsTypeOK'
<1> USE DEF callVars, localVars, clipVars, outcomeVars
<1>0. /\ \A kind \in {"insert", "paste", "type"} :
           stage # "idle" => Asked(kind) \in Seq(Asks)
      /\ stage # "idle" => Mine \in Clips
  BY RequestType
<1>1. CASE UserCopies
  <2>1. <<"user", copies + 1>> \in Clips
    BY DEF InjectorsTypeOK, Clips
  <2>2. QED BY <1>1, <2>1 DEF InjectorsTypeOK, UserCopies
<1>2. CASE AppHandles
  <2>1. Tail(requests) \in Seq(Asks) /\ Head(requests) \in Asks
    BY <1>2, RestOf DEF AppHandles, InjectorsTypeOK
  <2>2. \A c \in Clips : c[1] = "text" => c[2] \in TextIds
    BY DEF Clips
  <2>3. <<"text", Head(requests)[2]>> \in Clips
    BY <2>1 DEF Asks, Clips
  <2>4. PICK what \in Clips :
          /\ entered' = IF what[1] = "text"
                        THEN [entered EXCEPT ![what[2]] = @ + 1]
                        ELSE entered
          /\ foreign' \in {"yes", foreign}
    BY <1>2, <2>3 DEF AppHandles, InjectorsTypeOK
  <2>5. entered' \in [TextIds -> Nat]
    BY <2>2, <2>4 DEF InjectorsTypeOK
  <2>6. QED BY <1>2, <2>1, <2>4, <2>5 DEF InjectorsTypeOK, AppHandles
<1>3. CASE Restore
  <2>1. Tail(restores) \in Seq(Clips) /\ Head(restores) \in Clips
    BY <1>3, RestOf DEF Restore, InjectorsTypeOK
  <2>2. QED BY <1>3, <2>1 DEF InjectorsTypeOK, Restore
<1>4. CASE Inject
  <2>1. text' \in TextIds /\ text' \in 0 .. MaxTexts
    BY <1>4 DEF Inject, TextIds, InjectorsTypeOK
  <2>2. QED BY <1>4, <2>1 DEF InjectorsTypeOK, Inject
<1>5. CASE TryNext
  <2>1. Tail(left) \in Seq(Methods) /\ Head(left) \in Methods
    BY <1>5, RestOf DEF TryNext, InjectorsTypeOK
  <2>2. FirstStep(Head(left)) # "idle"
    BY <2>1 DEF FirstStep, Clipboard, Methods
  <2>3. QED BY <1>5, <2>1, <2>2 DEF InjectorsTypeOK, TryNext
<1>6. CASE GiveUp \/ MethodSucceeded \/ Confirm \/ Unconfirmed
  <2>1. Nothing \in Clips
    BY DEF Nothing, Clips
  <2>2. CASE GiveUp
    BY <2>1, <2>2 DEF InjectorsTypeOK, GiveUp, Returned
  <2>5. CASE Confirm
    BY <2>1, <2>5 DEF InjectorsTypeOK, Confirm, Returned
  <2>6. CASE Unconfirmed
    BY <2>1, <2>6 DEF InjectorsTypeOK, Unconfirmed
  <2>3. CASE MethodSucceeded
    <3>1. text \in TextIds /\ entered[text] \in Nat
      BY <2>3 DEF MethodSucceeded, InjectorsTypeOK
    <3>2. CASE caller = "orchestrator"
      BY <2>3, <3>1, <3>2 DEF InjectorsTypeOK, MethodSucceeded
    <3>3. CASE caller # "orchestrator"
      BY <2>1, <2>3, <3>3 DEF InjectorsTypeOK, MethodSucceeded, Returned
    <3>4. QED BY <3>2, <3>3
  <2>4. QED BY <1>6, <2>2, <2>3, <2>5, <2>6
<1>7. CASE TimeOut
  <2>1. Nothing \in Clips
    BY DEF Nothing, Clips
  <2>2. stage # "idle"
    BY <1>7 DEF TimeOut, InStage
  <2>3. clip' \in Clips /\ requests' \in Seq(Asks)
    BY <1>0, <1>7, <2>2 DEF TimeOut, InjectorsTypeOK
  <2>4. QED BY <1>7, <2>1, <2>3 DEF InjectorsTypeOK, TimeOut, Returned
<1>8. CASE \E step \in {"set", "locate", "find", "read", "seqRead"} :
             Fails(step)
  BY <1>8 DEF InjectorsTypeOK, Fails, AfterFailure
<1>9. CASE AskInsert \/ AnswersLate
  BY <1>0, <1>9 DEF InjectorsTypeOK, AskInsert, AnswersLate
<1>10. CASE Inserted
  <2>1. requests # <<>> => SubSeq(requests, 1, Len(requests) - 1) \in Seq(Asks)
    BY FrontOf DEF InjectorsTypeOK
  <2>2. QED BY <1>10, <2>1 DEF InjectorsTypeOK, Inserted
<1>11. CASE SetClipboard \/ FindTarget
  BY <1>0, <1>11 DEF InjectorsTypeOK, SetClipboard, FindTarget
<1>12. ASSUME NEW from, NEW done, NEW failed, Pastes(from, done, failed),
              from # "idle", done # "idle", failed # "idle"
       PROVE  InjectorsTypeOK'
  BY <1>0, <1>12 DEF InjectorsTypeOK, Pastes
<1>13. ASSUME NEW from, NEW failed, CannotPaste(from, failed),
              from # "idle", failed # "idle"
       PROVE  InjectorsTypeOK'
  BY <1>13 DEF InjectorsTypeOK, CannotPaste
<1>14. CASE PasteAction \/ PasteKeys \/ PressKeys \/ EnigoPaste
            \/ SeqAtspiPaste \/ SeqPressKeys
  <2>1. CASE PasteAction
    BY <1>12, <1>13, <2>1 DEF PasteAction
  <2>2. CASE PasteKeys
    BY <1>12, <1>13, <2>2 DEF PasteKeys
  <2>3. CASE PressKeys
    BY <1>12, <1>13, <2>3 DEF PressKeys, PerformPaste
  <2>4. CASE EnigoPaste
    BY <1>12, <1>13, <2>4 DEF EnigoPaste
  <2>5. CASE SeqAtspiPaste
    BY <1>12, <1>13, <2>5 DEF SeqAtspiPaste
  <2>6. CASE SeqPressKeys
    BY <1>12, <1>13, <2>6 DEF SeqPressKeys
  <2>7. QED BY <1>14, <2>1, <2>2, <2>3, <2>4, <2>5, <2>6
<1>15. CASE ReadClipboard \/ SeqReadClipboard
  BY <1>15 DEF InjectorsTypeOK, ReadClipboard, SeqReadClipboard, BacksUp
<1>16. CASE WriteClipboard \/ SeqWriteClipboard \/ WriteFails \/ SeqWriteFails
  BY <1>0, <1>16 DEF InjectorsTypeOK, WriteClipboard, SeqWriteClipboard,
                     WriteFails, SeqWriteFails, Seeds, SeedFails
<1>17. CASE YdotoolPaste \/ SeqYdotoolPaste \/ TypeText
  BY <1>0, <1>17 DEF InjectorsTypeOK, YdotoolPaste, SeqYdotoolPaste, TypeText
<1>18. CASE AfterPaste
  <2>1. Scheduled \in Seq(Clips) /\ Nothing \in Clips
    BY WithLast DEF InjectorsTypeOK, Scheduled, Nothing, Clips
  <2>2. QED BY <1>18, <2>1 DEF InjectorsTypeOK, AfterPaste
<1>19. CASE Settle \/ SeqRestore \/ SeqUnpasted \/ UNCHANGED injectorVars
  BY <1>19 DEF InjectorsTypeOK, Settle, SeqRestore, SeqUnpasted, injectorVars
<1>20. QED
  BY <1>1, <1>2, <1>3, <1>4, <1>5, <1>6, <1>7, <1>8, <1>9, <1>10, <1>11,
     <1>14, <1>15, <1>16, <1>17, <1>18, <1>19 DEF InjectorsNext

(***************************************************************************)
(* The user's clip is safe: it is in the clipboard, or the injection under *)
(* way holds it as its backup, or a task is to restore it.                 *)
(***************************************************************************)
LEMMA ClipInit == InjectorsInit => ClipInv
  BY DEF InjectorsInit, ClipInv, Users, Seeded

\* An excuse lasts until all is quiet.
LEMMA ExcuseLasts ==
  ASSUME NEW reasons, Excused(reasons), [InjectorsNext]_injectorVars,
         Inject => UNCHANGED excuses
  PROVE  Excused(reasons)'
<1>1. excuses \subseteq excuses'
  BY DEF InjectorsNext, injectorVars, outcomeVars, UserCopies, AppHandles,
         Restore, TryNext, GiveUp, MethodSucceeded, Confirm, Unconfirmed,
         TimeOut, Fails, AskInsert, Inserted, AnswersLate, SetClipboard,
         FindTarget, PasteAction, PasteKeys, Pastes, CannotPaste,
         ReadClipboard, WriteClipboard, WriteFails, Settle, PressKeys,
         YdotoolPaste, AfterPaste, EnigoPaste, TypeText, SeqReadClipboard,
         SeqWriteClipboard, SeqWriteFails, SeqAtspiPaste, SeqPressKeys,
         SeqYdotoolPaste, SeqRestore, SeqUnpasted, BacksUp, Seeds, SeedFails
<1>2. QED BY <1>1 DEF Excused

LEMMA ClipStep ==
  ASSUME InjectorsTypeOK, ClipInv, [InjectorsNext]_injectorVars
  PROVE  ClipInv'
<1> DEFINE Safe ==
      /\ \A i \in 1 .. Len(restores) : restores[i] = Users
      /\ stage \in Seeded \union {"seed", "seqSeed"} =>
           backup = Users /\ restores = <<>>
      /\ clip = Users \/ stage \in Seeded \/ restores # <<>>
<1> USE DEF callVars, localVars, clipVars, outcomeVars
<1>1. CASE Inject
  <2>1. stage = "idle" /\ stage' = "next" /\ UNCHANGED clipVars
        /\ (excuses' = excuses \/ (~Busy /\ clip = Users))
    BY <1>1 DEF Inject
  <2>2. QED
    BY <2>1 DEF ClipInv, Excused, Busy, Users, Seeded
<1>2. CASE Excused({"copied", "overlap", "unrestored"}) /\ ~Inject
  BY <1>2, ExcuseLasts DEF ClipInv
<1> SUFFICES ASSUME Safe, ~Inject,
                    ~Excused({"copied", "overlap", "unrestored"})'
             PROVE  Safe'
  BY <1>1, <1>2 DEF ClipInv
<1>3. CASE UserCopies
  BY <1>3 DEF UserCopies, Excused, Busy, Users, Seeded
<1>4. CASE Restore
  <2>1. restores # <<>> /\ restores' = Tail(restores) /\ copies' = copies
        /\ clip' = Head(restores) /\ UNCHANGED <<stage, backup>>
    BY <1>4 DEF Restore, Excused
  <2>2. Head(restores) = Users
    BY <2>1, RestOf DEF InjectorsTypeOK
  <2>3. \A i \in 1 .. Len(restores') : restores'[i] = Users
    BY <2>1, RestOf DEF InjectorsTypeOK
  <2>4. QED BY <2>1, <2>2, <2>3 DEF Users
<1>5. CASE AppHandles \/ GiveUp \/ MethodSucceeded \/ Confirm \/ Unconfirmed
           \/ UNCHANGED injectorVars
  BY <1>5 DEF AppHandles, GiveUp, MethodSucceeded, Confirm, Unconfirmed,
              Returned, injectorVars, Users, Seeded
<1>6. CASE TryNext
  <2>1. Head(left) \in Methods
    BY <1>6, RestOf DEF TryNext, InjectorsTypeOK
  <2>2. FirstStep(Head(left)) \notin Seeded \union {"seed", "seqSeed"}
    BY <2>1 DEF FirstStep, Clipboard, Methods, Seeded
  <2>3. QED BY <1>6, <2>2 DEF TryNext, Users, Seeded
<1>7. CASE TimeOut \/ SetClipboard
  BY <1>7 DEF TimeOut, SetClipboard, Excused
<1>8. CASE \E step \in {"set", "locate", "find", "read", "seqRead"} :
             Fails(step)
  BY <1>8 DEF Fails, AfterFailure, Users, Seeded
<1>9. CASE AskInsert \/ AnswersLate \/ Inserted \/ FindTarget
  BY <1>9 DEF AskInsert, AnswersLate, Inserted, FindTarget, Users, Seeded
<1>10. CASE PasteAction \/ PasteKeys \/ EnigoPaste
  BY <1>10 DEF PasteAction, PasteKeys, EnigoPaste, Pastes, CannotPaste, Users,
               Seeded
<1>11. CASE PressKeys \/ SeqAtspiPaste \/ SeqPressKeys
  BY <1>11 DEF PressKeys, SeqAtspiPaste, SeqPressKeys, PerformPaste, Pastes,
               CannotPaste, Users, Seeded
<1>12. CASE ReadClipboard \/ SeqReadClipboard
  BY <1>12 DEF ReadClipboard, SeqReadClipboard, BacksUp, Overlap, Excused,
               Users, Seeded
<1>13. CASE WriteClipboard \/ SeqWriteClipboard \/ WriteFails \/ SeqWriteFails
  BY <1>13 DEF WriteClipboard, SeqWriteClipboard, WriteFails, SeqWriteFails,
               Seeds, SeedFails, Excused, Users, Seeded
<1>14. CASE YdotoolPaste \/ SeqYdotoolPaste \/ TypeText \/ Settle
  BY <1>14 DEF YdotoolPaste, SeqYdotoolPaste, TypeText, Settle, Users, Seeded
<1>15. CASE AfterPaste
  <2>1. /\ stage \in Seeded /\ stage' \in {"ok", "next"}
        /\ restores' = Append(restores, backup) /\ UNCHANGED <<clip, copies>>
    BY <1>15 DEF AfterPaste, Scheduled, Seeded
  <2>2. restores = <<>> /\ backup = Users
    BY <2>1
  <2>3. QED BY <2>1, <2>2 DEF Users, Seeded
<1>16. CASE SeqRestore \/ SeqUnpasted
  BY <1>16 DEF SeqRestore, SeqUnpasted, Excused, Users, Seeded
<1>17. QED
  BY <1>3, <1>4, <1>5, <1>6, <1>7, <1>8, <1>9, <1>10, <1>11, <1>12, <1>13,
     <1>14, <1>15, <1>16 DEF InjectorsNext

\* Whatever fails on the way, the clipboard is the user's again when all is
\* quiet, but for what ClipboardComesBack lists; for any number of texts and
\* copies.
THEOREM ClipboardRestored == InjectorsSpec => []ClipboardComesBack
<1>1. InjectorsTypeOK /\ ClipInv /\ [InjectorsNext]_injectorVars
        => (InjectorsTypeOK /\ ClipInv)'
  BY InjectorsTypeStep, ClipStep
<1>2. ClipInv => ClipboardComesBack
  BY DEF ClipInv, ClipboardComesBack, Busy, Seeded
<1>3. QED
  BY InjectorsTypeInit, ClipInit, <1>1, <1>2, PTL DEF InjectorsSpec

(***************************************************************************)
(* What the application is asked to paste is what the clipboard holds, and *)
(* nothing is to be restored while a paste may still be asked for.         *)
(***************************************************************************)
OwnPastes(q, c) == \A i \in 1 .. Len(q) :
                     q[i][1] = "paste" => c = <<"text", q[i][2]>>

LEMMA OwnPastesChange ==
  ASSUME NEW q \in Seq(Asks), NEW c, OwnPastes(q, c)
  PROVE  /\ q # <<>> => OwnPastes(Tail(q), c)
         /\ q # <<>> => OwnPastes(SubSeq(q, 1, Len(q) - 1), c)
         /\ \A e \in Asks : (e[1] = "paste" => c = <<"text", e[2]>>)
                              => OwnPastes(Append(q, e), c)
<1>1. ASSUME q # <<>> PROVE OwnPastes(Tail(q), c)
  BY <1>1, RestOf DEF OwnPastes
<1>2. ASSUME q # <<>> PROVE OwnPastes(SubSeq(q, 1, Len(q) - 1), c)
  BY <1>2, FrontOf DEF OwnPastes
<1>3. ASSUME NEW e \in Asks, e[1] = "paste" => c = <<"text", e[2]>>
      PROVE  OwnPastes(Append(q, e), c)
  <2>1. ASSUME NEW i \in 1 .. Len(Append(q, e)), Append(q, e)[i][1] = "paste"
        PROVE  c = <<"text", Append(q, e)[i][2]>>
    BY <1>3, <2>1, WithLast DEF OwnPastes
  <2>2. QED BY <2>1 DEF OwnPastes
<1>4. QED BY <1>1, <1>2, <1>3

LEMMA PasteInit == InjectorsInit => PasteInv
  BY DEF InjectorsInit, PasteInv, MayPaste

LEMMA PasteStep ==
  ASSUME InjectorsTypeOK, PasteInv, [InjectorsNext]_injectorVars
  PROVE  PasteInv'
<1> DEFINE Causes == {"copied", "overlap", "slow", "enigo"}
           Own == /\ foreign = "no"
                  /\ OwnPastes(requests, clip)
                  /\ stage \in MayPaste => clip = Mine /\ restores = <<>>
                  /\ stage \in {"seed", "seqSeed"} => restores = <<>>
                  /\ stage \notin {"enigo", "type"}
<1> USE DEF callVars, localVars, clipVars, outcomeVars
<1>0. /\ PasteInv <=> Excused(Causes) \/ Own
      /\ PasteInv' <=> Excused(Causes)' \/ Own'
  BY DEF PasteInv, OwnPastes
<1>1. CASE Inject
  <2>1. /\ stage' = "next" /\ UNCHANGED <<clipVars, requests>>
        /\ \/ excuses' = excuses /\ foreign' = foreign
           \/ requests = <<>> /\ foreign' = "no"
    BY <1>1 DEF Inject, Busy
  <2>2. requests = <<>> => OwnPastes(requests, clip)
    BY DEF OwnPastes
  <2>3. QED
    BY <1>0, <2>1, <2>2 DEF Excused, MayPaste
<1>2. CASE Excused(Causes) /\ ~Inject
  BY <1>0, <1>2, ExcuseLasts
<1> SUFFICES ASSUME Own, ~Inject, ~Excused(Causes)' PROVE Own'
  BY <1>0, <1>1, <1>2
<1> HIDE DEF Causes
<1>3. ~Excused({"copied", "overlap", "slow", "enigo"})'
  BY DEF Causes
<1>4. /\ requests # <<>> => OwnPastes(Tail(requests), clip)
      /\ requests # <<>> =>
           OwnPastes(SubSeq(requests, 1, Len(requests) - 1), clip)
  BY OwnPastesChange DEF InjectorsTypeOK
<1>5. ASSUME NEW kind \in {"insert", "paste", "type"}, stage # "idle",
             kind = "paste" => clip = Mine
      PROVE  OwnPastes(Asked(kind), clip)
  <2>1. <<kind, text>> \in Asks
    BY <1>5 DEF Asks, InjectorsTypeOK
  <2>2. <<kind, text>>[1] = "paste" => clip = <<"text", <<kind, text>>[2]>>
    BY <1>5 DEF Mine
  <2>3. OwnPastes(Append(requests, <<kind, text>>), clip)
    BY <2>1, <2>2, OwnPastesChange DEF InjectorsTypeOK
  <2>4. QED BY <2>3 DEF Asked
<1>6. OwnPastes(<<>>, Mine) /\ OwnPastes(<<>>, clip')
  BY DEF OwnPastes
<1>7. CASE UserCopies
  <2>1. ~Busy /\ UNCHANGED <<stage, restores, requests, foreign>>
    BY <1>3, <1>7 DEF UserCopies, Excused
  <2>2. QED BY <1>6, <2>1 DEF Busy, MayPaste
<1>8. CASE AppHandles
  <2>1. requests # <<>> /\ requests' = Tail(requests)
        /\ UNCHANGED <<stage, clip, restores, text>>
    BY <1>8 DEF AppHandles
  <2>2. Head(requests)[1] = "paste" => clip = <<"text", Head(requests)[2]>>
    BY <2>1, RestOf DEF OwnPastes, InjectorsTypeOK
  <2>3. foreign' = foreign
    BY <1>8, <2>2 DEF AppHandles
  <2>4. QED BY <1>4, <2>1, <2>3 DEF Mine
<1>9. CASE Restore
  <2>1. /\ restores # <<>> /\ UNCHANGED <<stage, requests, foreign, text>>
        /\ clip' = clip \/ requests = <<>>
        /\ restores' = Tail(restores)
    BY <1>3, <1>9 DEF Restore, Excused, Overtaking
  <2>2. QED BY <1>6, <2>1
<1>10. CASE \/ GiveUp \/ MethodSucceeded \/ Confirm \/ Unconfirmed
            \/ UNCHANGED injectorVars
  BY <1>10 DEF GiveUp, MethodSucceeded, Confirm, Unconfirmed, Returned,
               injectorVars, MayPaste, Mine
<1>11. CASE TryNext
  <2>1. Head(left) \in Methods /\ Head(left) # "enigo"
    BY <1>3, <1>11, RestOf DEF TryNext, InjectorsTypeOK, Excused
  <2>2. FirstStep(Head(left)) \notin
          MayPaste \union {"seed", "seqSeed", "enigo", "type"}
    BY <2>1 DEF FirstStep, Clipboard, Methods, MayPaste
  <2>3. QED BY <1>11, <2>2 DEF TryNext
<1>12. CASE TimeOut
  <2>1. /\ stage' = "idle" /\ foreign' = foreign /\ stage # "idle"
        /\ \/ clip' = clip
           \/ requests = <<>> /\ requests' = requests
        /\ \/ requests' = requests
           \/ stage \in MayPaste /\ requests' = Asked("paste")
    BY <1>3, <1>12
    DEF TimeOut, InStage, Returned, Excused, Overtaking, MayPaste
  <2>2. OwnPastes(requests', clip')
    BY <1>5, <1>6, <2>1
  <2>3. QED BY <2>1, <2>2 DEF MayPaste
<1>13. CASE \E step \in {"set", "locate", "find", "read", "seqRead"} :
              Fails(step)
  BY <1>13 DEF Fails, AfterFailure, MayPaste
<1>14. CASE AskInsert
  BY <1>5, <1>14 DEF AskInsert, MayPaste
<1>15. CASE Inserted
  BY <1>4, <1>15 DEF Inserted, MayPaste
<1>16. CASE AnswersLate
  BY <1>16 DEF AnswersLate, MayPaste
<1>17. CASE SetClipboard
  <2>1. requests = <<>> /\ restores = <<>> /\ requests' = requests
    BY <1>3, <1>17 DEF SetClipboard, Overtaking, Overlap, Excused
  <2>2. QED BY <1>6, <1>17, <2>1 DEF SetClipboard, Mine
<1>18. CASE FindTarget
  BY <1>18 DEF FindTarget, MayPaste, Mine
<1>19. ASSUME NEW from \in MayPaste, NEW done, NEW failed,
              {done, failed} \intersect {"enigo", "type"} = {},
              Pastes(from, done, failed) \/ CannotPaste(from, failed)
       PROVE  Own'
  <2>1. clip = Mine /\ restores = <<>> /\ stage # "idle"
    BY <1>19 DEF Pastes, CannotPaste, MayPaste
  <2>2. OwnPastes(Asked("paste"), clip)
    BY <1>5, <2>1
  <2>3. QED BY <1>19, <2>1, <2>2 DEF Pastes, CannotPaste, Mine
<1>20. CASE PasteAction
  BY <1>19, <1>20 DEF PasteAction, MayPaste
<1>21. CASE PasteKeys
  BY <1>19, <1>21 DEF PasteKeys, MayPaste
<1>22. CASE PressKeys
  BY <1>19, <1>22 DEF PressKeys, PerformPaste, MayPaste
<1>23. CASE SeqAtspiPaste
  BY <1>19, <1>23 DEF SeqAtspiPaste, MayPaste
<1>24. CASE SeqPressKeys
  BY <1>19, <1>24 DEF SeqPressKeys, MayPaste
<1>25. CASE EnigoPaste \/ TypeText
  BY <1>25 DEF EnigoPaste, TypeText, Pastes, CannotPaste
<1>26. CASE ReadClipboard \/ SeqReadClipboard
  BY <1>3, <1>26 DEF ReadClipboard, SeqReadClipboard, BacksUp, Overlap,
                     Excused, MayPaste
<1>27. CASE WriteClipboard \/ SeqWriteClipboard
  <2>1. requests = <<>> /\ restores = <<>> /\ requests' = requests
    BY <1>3, <1>27
    DEF WriteClipboard, SeqWriteClipboard, Seeds, Overtaking, Excused
  <2>2. QED BY <1>6, <1>27, <2>1
            DEF WriteClipboard, SeqWriteClipboard, Seeds, Mine
<1>28. CASE WriteFails \/ SeqWriteFails
  <2>1. /\ stage' = "next" /\ UNCHANGED <<requests, foreign>>
        /\ clip' = clip \/ requests = <<>>
    BY <1>3, <1>28
    DEF WriteFails, SeqWriteFails, SeedFails, Overtaking, Excused
  <2>2. QED BY <1>6, <2>1 DEF MayPaste
<1>29. CASE Settle
  BY <1>29 DEF Settle, MayPaste, Mine
<1>30. CASE YdotoolPaste \/ SeqYdotoolPaste
  <2>1. clip = Mine /\ stage # "idle"
    BY <1>30 DEF YdotoolPaste, SeqYdotoolPaste, MayPaste
  <2>2. OwnPastes(Asked("paste"), clip)
    BY <1>5, <2>1
  <2>3. QED BY <1>30, <2>2 DEF YdotoolPaste, SeqYdotoolPaste, MayPaste
<1>31. CASE AfterPaste
  BY <1>31 DEF AfterPaste, MayPaste
<1>32. CASE SeqRestore
  <2>1. /\ stage' = "ok" /\ UNCHANGED <<requests, foreign>>
        /\ clip' = clip \/ requests = <<>>
    BY <1>3, <1>32 DEF SeqRestore, Overtaking, Excused
  <2>2. QED BY <1>6, <2>1 DEF MayPaste
<1>33. CASE SeqUnpasted
  BY <1>33 DEF SeqUnpasted, MayPaste
<1>34. QED
  BY <1>7, <1>8, <1>9, <1>10, <1>11, <1>12, <1>13, <1>14, <1>15, <1>16,
     <1>17, <1>18, <1>20, <1>21, <1>22, <1>23, <1>24, <1>25, <1>26, <1>27,
     <1>28, <1>29, <1>30, <1>31, <1>32, <1>33 DEF InjectorsNext

\* Nothing but the text of the injection is pasted for it, but for what
\* PastesItsText lists; for any number of texts and copies.
THEOREM OwnTextPasted == InjectorsSpec => []PastesItsText
<1>1. InjectorsTypeOK /\ PasteInv /\ [InjectorsNext]_injectorVars
        => (InjectorsTypeOK /\ PasteInv)'
  BY InjectorsTypeStep, PasteStep
<1>2. PasteInv => PastesItsText
  BY DEF PasteInv, PastesItsText
<1>3. QED
  BY InjectorsTypeInit, PasteInit, <1>1, <1>2, PTL DEF InjectorsSpec

(***************************************************************************)
(* A text is asked for once: it has entered, or one request of the queue   *)
(* is for it, never both; and it is not asked for again once it has been.  *)
(***************************************************************************)
Once(q, e) == /\ \A n \in TextIds : e[n] <= 1
              /\ \A i \in 1 .. Len(q) :
                   /\ e[q[i][2]] = 0
                   /\ \A j \in 1 .. Len(q) : i # j => q[i][2] # q[j][2]
Unasked(q, e, n) == /\ n \in TextIds => e[n] = 0
                    /\ \A i \in 1 .. Len(q) : q[i][2] # n

LEMMA OnceEntered ==
  ASSUME NEW q \in Seq(Asks), NEW e \in [TextIds -> Nat], Once(q, e), q # <<>>
  PROVE  /\ Head(q)[2] \in TextIds
         /\ Once(Tail(q), [e EXCEPT ![Head(q)[2]] = @ + 1])
         /\ \A n \in TextIds : Unasked(q, e, n) =>
              Unasked(Tail(q), [e EXCEPT ![Head(q)[2]] = @ + 1], n)
<1>1. PICK t \in Seq(Asks), n \in TextIds :
        /\ t = Tail(q) /\ n = Head(q)[2] /\ n = q[1][2]
        /\ \A i \in 1 .. Len(t) :
             i + 1 \in 1 .. Len(q) /\ t[i] = q[i + 1] /\ 1 # i + 1
  <2>1. Head(q) \in Asks /\ Head(q) = q[1] /\ Tail(q) \in Seq(Asks)
    BY RestOf
  <2>2. Head(q)[2] \in TextIds
    BY <2>1 DEF Asks
  <2>3. \A i \in 1 .. Len(Tail(q)) :
          i + 1 \in 1 .. Len(q) /\ Tail(q)[i] = q[i + 1] /\ 1 # i + 1
    BY RestOf
  <2>4. QED BY <2>1, <2>2, <2>3
<1>2. PICK f : f = [e EXCEPT ![n] = @ + 1]
  OBVIOUS
<1>3. /\ f[n] = e[n] + 1 /\ \A m \in TextIds : m # n => f[m] = e[m]
      /\ \A m \in TextIds : e[m] \in Nat
  BY <1>2
<1>4. 1 \in 1 .. Len(q) /\ e[n] = 0
  BY <1>1, RestOf DEF Once
<1>5. ASSUME NEW i \in 1 .. Len(t)
      PROVE  /\ t[i][2] # n /\ t[i][2] \in TextIds /\ e[t[i][2]] = 0
             /\ \A j \in 1 .. Len(t) : i # j => t[i][2] # t[j][2]
  <2>1. t[i] \in Asks
    OBVIOUS
  <2>2. t[i][2] \in TextIds
    BY <2>1 DEF Asks
  <2>3. t[i][2] # n /\ e[t[i][2]] = 0
    BY <1>1, <1>4 DEF Once
  <2>4. ASSUME NEW j \in 1 .. Len(t), i # j PROVE t[i][2] # t[j][2]
    <3>1. i + 1 # j + 1
      BY <2>4
    <3>2. QED BY <1>1, <3>1 DEF Once
  <2>5. QED BY <2>2, <2>3, <2>4
<1>6. \A m \in TextIds : f[m] <= 1
  BY <1>3, <1>4 DEF Once
<1>7. Once(t, f)
  BY <1>3, <1>5, <1>6 DEF Once
<1>8. ASSUME NEW m \in TextIds, Unasked(q, e, m) PROVE Unasked(t, f, m)
  BY <1>1, <1>3, <1>4, <1>8 DEF Unasked
<1>9. QED BY <1>1, <1>2, <1>7, <1>8

LEMMA OnceDropped ==
  ASSUME NEW q \in Seq(Asks), NEW e \in [TextIds -> Nat], Once(q, e), q # <<>>
  PROVE  /\ Once(SubSeq(q, 1, Len(q) - 1), e)
         /\ Unasked(SubSeq(q, 1, Len(q) - 1), e, q[Len(q)][2])
         /\ \A n \in TextIds : Unasked(q, e, n) =>
              Unasked(SubSeq(q, 1, Len(q) - 1), e, n)
<1> USE DEF Once, Unasked
<1>1. PICK f \in Seq(Asks) : f = SubSeq(q, 1, Len(q) - 1)
  BY FrontOf
<1>2. /\ \A i \in 1 .. Len(f) :
           i \in 1 .. Len(q) /\ f[i] = q[i] /\ i # Len(q)
      /\ Len(q) \in 1 .. Len(q)
  BY <1>1, FrontOf
<1>3. Once(f, e)
  <2>1. ASSUME NEW i \in 1 .. Len(f) PROVE e[f[i][2]] = 0
    BY <1>2
  <2>2. ASSUME NEW i \in 1 .. Len(f), NEW j \in 1 .. Len(f), i # j
        PROVE  f[i][2] # f[j][2]
    BY <1>2, <2>2
  <2>3. QED BY <2>1, <2>2
<1>4. /\ Unasked(f, e, q[Len(q)][2])
      /\ \A n \in TextIds : Unasked(q, e, n) => Unasked(f, e, n)
  BY <1>2, SMTT(30)
<1>5. QED BY <1>1, <1>3, <1>4

LEMMA OnceAsked ==
  ASSUME NEW q \in Seq(Asks), NEW e \in [TextIds -> Nat], Once(q, e),
         NEW a \in Asks, Unasked(q, e, a[2])
  PROVE  /\ Once(Append(q, a), e)
         /\ \A n \in TextIds : n # a[2] /\ Unasked(q, e, n) =>
              Unasked(Append(q, a), e, n)
<1> USE DEF Once, Unasked
<1>1. PICK r \in Seq(Asks) : r = Append(q, a)
  BY WithLast
<1>2. /\ \A i \in 1 .. Len(q) : i \in 1 .. Len(r) /\ r[i] = q[i]
      /\ r[Len(q) + 1] = a
      /\ \A i \in 1 .. Len(r) : i \in 1 .. Len(q) \/ i = Len(q) + 1
  BY <1>1, WithLast
<1>3. \A i \in 1 .. Len(r) : e[r[i][2]] = 0
  <2>1. a[2] \in TextIds
    BY DEF Asks
  <2>2. QED BY <1>2, <2>1
<1>4. ASSUME NEW i \in 1 .. Len(r), NEW j \in 1 .. Len(r), i # j
      PROVE  r[i][2] # r[j][2]
  <2>1. CASE i \in 1 .. Len(q) /\ j \in 1 .. Len(q)
    BY <1>2, <1>4, <2>1
  <2>2. CASE i = Len(q) + 1 /\ j \in 1 .. Len(q)
    BY <1>2, <2>2
  <2>3. CASE i \in 1 .. Len(q) /\ j = Len(q) + 1
    BY <1>2, <2>3
  <2>4. QED BY <1>2, <1>4, <2>1, <2>2, <2>3
<1>5. \A n \in TextIds : n # a[2] /\ Unasked(q, e, n) => Unasked(r, e, n)
  BY <1>2
<1>6. Once(r, e)
  BY <1>3, <1>4
<1>7. QED BY <1>1, <1>5, <1>6

LastIsInsert ==
    stage = "insert" /\ requests # <<>> =>
        requests[Len(requests)] = <<"insert", text>>

\* The stages after which nothing more of the text is to be asked.
AllAsked == {"insert", "pasted", "seqPasted", "ok", "confirm", "idle"}

OnceHeld == /\ Once(requests, entered)
            /\ \A n \in TextIds :
                 n > text => Unasked(requests, entered, n)
            /\ stage \notin AllAsked => Unasked(requests, entered, text)

OnceInv == foreign = "yes" \/ Excused({"repeats"}) \/ OnceHeld

LEMMA InsertInit == InjectorsInit => LastIsInsert
  BY DEF InjectorsInit, LastIsInsert

LEMMA InsertStep ==
  ASSUME InjectorsTypeOK, LastIsInsert, [InjectorsNext]_injectorVars
  PROVE  LastIsInsert'
<1> USE DEF callVars, localVars, clipVars, outcomeVars, LastIsInsert
<1>1. CASE AskInsert
  <2>1. <<"insert", text>> \in Asks
    BY <1>1 DEF AskInsert, InjectorsTypeOK, Asks
  <2>2. QED BY <1>1, <2>1, WithLast DEF AskInsert, Asked, InjectorsTypeOK
<1>2. CASE AppHandles
  <2>1. requests # <<>> /\ requests' = Tail(requests)
        /\ UNCHANGED <<stage, text>>
    BY <1>2 DEF AppHandles
  <2>2. Tail(requests) # <<>> =>
          Tail(requests)[Len(Tail(requests))] = requests[Len(requests)]
    BY <2>1 DEF InjectorsTypeOK
  <2>3. QED BY <2>1, <2>2
<1>3. CASE UserCopies \/ Restore \/ UNCHANGED injectorVars
  BY <1>3 DEF UserCopies, Restore, injectorVars
<1>4. CASE stage' # "insert"
  BY <1>4
<1>5. CASE TryNext
  <2>1. Head(left) \in Methods
    BY <1>5, RestOf DEF TryNext, InjectorsTypeOK
  <2>2. FirstStep(Head(left)) # "insert"
    BY <2>1 DEF FirstStep, Clipboard, Methods
  <2>3. QED BY <1>5, <2>2 DEF TryNext
<1>6. QED
  BY <1>1, <1>2, <1>3, <1>4, <1>5
  DEF InjectorsNext, Inject, GiveUp, Returned, MethodSucceeded, Confirm,
      Unconfirmed, TimeOut, Fails, AfterFailure, Inserted, AnswersLate,
      SetClipboard, FindTarget, PasteAction, PasteKeys, Pastes, CannotPaste,
      ReadClipboard, WriteClipboard, WriteFails, Settle, PressKeys,
      PerformPaste, YdotoolPaste, AfterPaste, EnigoPaste, TypeText,
      SeqReadClipboard, SeqWriteClipboard, SeqWriteFails, SeqAtspiPaste,
      SeqPressKeys, SeqYdotoolPaste, SeqRestore, SeqUnpasted

LEMMA OnceInit == InjectorsInit => OnceInv
  BY DEF InjectorsInit, OnceInv, OnceHeld, Once, Unasked

\* Once something else has been pasted, this lasts until all is quiet.
LEMMA ForeignLasts ==
  ASSUME foreign = "yes", [InjectorsNext]_injectorVars, ~Inject
  PROVE  foreign' = "yes"
  BY DEF InjectorsNext, injectorVars, outcomeVars, UserCopies, AppHandles,
         Restore, TryNext, GiveUp, MethodSucceeded, Confirm, Unconfirmed,
         TimeOut, Fails, AskInsert, Inserted, AnswersLate, SetClipboard,
         FindTarget, PasteAction, PasteKeys, Pastes, CannotPaste,
         ReadClipboard, WriteClipboard, WriteFails, Settle, PressKeys,
         YdotoolPaste, AfterPaste, EnigoPaste, TypeText, SeqReadClipboard,
         SeqWriteClipboard, SeqWriteFails, SeqAtspiPaste, SeqPressKeys,
         SeqYdotoolPaste, SeqRestore, SeqUnpasted, BacksUp, Seeds, SeedFails

LEMMA OnceStep ==
  ASSUME InjectorsTypeOK, LastIsInsert, OnceInv, [InjectorsNext]_injectorVars
  PROVE  OnceInv'
<1> USE DEF callVars, localVars, clipVars, outcomeVars
<1>0. /\ requests \in Seq(Asks) /\ entered \in [TextIds -> Nat]
      /\ stage # "idle" => text \in TextIds
  BY DEF InjectorsTypeOK
<1>1. CASE Inject
  <2>1. /\ stage' = "next" /\ requests' = requests /\ text' = text + 1
        /\ text' \in TextIds
        /\ \/ UNCHANGED <<excuses, foreign, entered>>
           \/ /\ requests = <<>> /\ excuses' = {} /\ foreign' = "no"
              /\ entered' = [n \in TextIds |-> 0]
    BY <1>1, SMTT(30) DEF Inject, Busy, InjectorsTypeOK, TextIds
  <2>2. CASE UNCHANGED <<excuses, foreign, entered>>
    <3>1. OnceHeld => OnceHeld'
      BY <2>1, <2>2 DEF OnceHeld, InjectorsTypeOK, TextIds
    <3>2. QED BY <2>2, <3>1 DEF OnceInv, Excused
  <2>3. CASE requests = <<>> /\ entered' = [n \in TextIds |-> 0]
    BY <2>1, <2>3 DEF OnceInv, OnceHeld, Once, Unasked
  <2>4. QED BY <2>1, <2>2, <2>3
<1>2. CASE (foreign = "yes" \/ Excused({"repeats"})) /\ ~Inject
  BY <1>2, ExcuseLasts, ForeignLasts DEF OnceInv
<1> SUFFICES ASSUME OnceHeld, foreign = "no", foreign' = "no", ~Inject,
                    ~Excused({"repeats"})'
             PROVE  OnceHeld'
  <2>1. foreign \in {"yes", "no"} /\ foreign' \in {"yes", "no"}
    BY InjectorsTypeStep DEF InjectorsTypeOK
  <2>2. QED BY <1>1, <1>2, <2>1 DEF OnceInv
<1>3. ASSUME UNCHANGED <<requests, entered, text>>,
             stage' \in AllAsked \/ stage \notin AllAsked
      PROVE  OnceHeld'
  BY <1>3 DEF OnceHeld
<1>4. ASSUME stage \notin AllAsked, stage' \in AllAsked,
             NEW kind \in {"insert", "paste", "type"},
             requests' = Asked(kind), UNCHANGED <<entered, text>>
      PROVE  OnceHeld'
  <2>0. text \in TextIds
    BY <1>0, <1>4 DEF AllAsked
  <2>1. PICK a \in Asks : a = <<kind, text>> /\ a[2] = text
    <3>1. <<kind, text>> \in Asks /\ <<kind, text>>[2] = text
      BY <2>0 DEF Asks
    <3>2. QED BY <3>1
  <2>2. requests' = Append(requests, a) /\ Unasked(requests, entered, a[2])
    BY <1>4, <2>1 DEF Asked, OnceHeld
  <2>3. Once(requests', entered)
    BY <1>0, <2>2, OnceAsked DEF OnceHeld
  <2>4. \A n \in TextIds : n # a[2] /\ Unasked(requests, entered, n)
          => Unasked(requests', entered, n)
    BY <1>0, <2>2, OnceAsked DEF OnceHeld
  <2>5. QED
    BY <1>4, <2>1, <2>3, <2>4 DEF OnceHeld, TextIds, InjectorsTypeOK
<1>5. CASE AppHandles
  <2>1. /\ requests # <<>> /\ requests' = Tail(requests)
        /\ UNCHANGED <<stage, text>>
    BY <1>5 DEF AppHandles
  <2>2. Head(requests)[2] \in TextIds
    BY <1>0, <2>1, OnceEntered DEF OnceHeld
  <2>3. entered' = [entered EXCEPT ![Head(requests)[2]] = @ + 1]
    <3>1. PICK what, meant :
            /\ meant = <<"text", Head(requests)[2]>>
            /\ entered' = IF what[1] = "text"
                          THEN [entered EXCEPT ![what[2]] = @ + 1]
                          ELSE entered
            /\ foreign' = IF what # meant THEN "yes" ELSE foreign
      BY <1>5 DEF AppHandles
    <3>2. what = meant
      BY <3>1
    <3>3. QED BY <3>1, <3>2
  <2>4. /\ Once(requests', entered')
        /\ \A n \in TextIds : Unasked(requests, entered, n)
             => Unasked(requests', entered', n)
    BY <1>0, <2>1, <2>3, OnceEntered DEF OnceHeld
  <2>5. stage \notin AllAsked => text \in TextIds
    BY <1>0 DEF AllAsked
  <2>6. QED BY <2>1, <2>4, <2>5 DEF OnceHeld
<1>6. CASE \/ UserCopies \/ Restore \/ GiveUp \/ MethodSucceeded \/ Confirm
           \/ UNCHANGED injectorVars
  BY <1>3, <1>6 DEF UserCopies, Restore, GiveUp, MethodSucceeded, Confirm,
                    Returned, AllAsked, injectorVars
<1>7. CASE Unconfirmed \/ AnswersLate
  BY <1>7 DEF Unconfirmed, AnswersLate, Excused
<1>8. CASE TryNext
  BY <1>3, <1>8 DEF TryNext, AllAsked
<1>9. CASE TimeOut
  <2>1. /\ stage' = "idle" /\ UNCHANGED <<entered, text>>
        /\ \/ requests' = requests
           \/ stage \notin AllAsked /\ requests' = Asked("paste")
    BY <1>9 DEF TimeOut, Returned, AllAsked
  <2>2. QED BY <1>3, <1>4, <2>1 DEF AllAsked
<1>10. CASE \E step \in {"set", "locate", "find", "read", "seqRead"} :
              Fails(step)
  BY <1>3, <1>10 DEF Fails, AfterFailure, AllAsked
<1>11. CASE AskInsert
  BY <1>4, <1>11 DEF AskInsert, AllAsked
<1>12. CASE Inserted
  <2>1. CASE requests' = requests
    BY <1>3, <1>12, <2>1 DEF Inserted, AllAsked
  <2>2. CASE /\ requests # <<>>
             /\ requests' = SubSeq(requests, 1, Len(requests) - 1)
    <3>1. requests[Len(requests)][2] = text
      BY <1>12, <2>2 DEF Inserted, LastIsInsert
    <3>2. /\ Once(requests', entered)
          /\ Unasked(requests', entered, text)
          /\ \A n \in TextIds : Unasked(requests, entered, n)
               => Unasked(requests', entered, n)
      BY <1>0, <2>2, <3>1, OnceDropped DEF OnceHeld
    <3>3. QED BY <1>12, <3>2 DEF Inserted, OnceHeld
  <2>3. QED BY <1>12, <2>1, <2>2 DEF Inserted
<1>13. CASE SetClipboard \/ FindTarget \/ Settle
  BY <1>3, <1>13 DEF SetClipboard, FindTarget, Settle, AllAsked
<1>14. ASSUME NEW from, NEW done \in AllAsked, NEW failed,
              from \notin AllAsked,
              Pastes(from, done, failed) \/ CannotPaste(from, failed)
       PROVE  OnceHeld'
  BY <1>3, <1>4, <1>14 DEF Pastes, CannotPaste, Excused
<1>15. CASE PasteAction
  BY <1>14, <1>15 DEF PasteAction, AllAsked
<1>16. CASE PasteKeys
  BY <1>14, <1>16 DEF PasteKeys, AllAsked
<1>17. CASE PressKeys
  BY <1>14, <1>17 DEF PressKeys, PerformPaste, AllAsked
<1>18. CASE EnigoPaste
  BY <1>14, <1>18 DEF EnigoPaste, AllAsked
<1>19. CASE SeqAtspiPaste
  BY <1>14, <1>19 DEF SeqAtspiPaste, AllAsked
<1>20. CASE SeqPressKeys
  BY <1>14, <1>20 DEF SeqPressKeys, AllAsked
<1>21. CASE ReadClipboard \/ SeqReadClipboard
  BY <1>3, <1>21 DEF ReadClipboard, SeqReadClipboard, BacksUp, AllAsked
<1>22. CASE WriteClipboard \/ SeqWriteClipboard \/ WriteFails \/ SeqWriteFails
  BY <1>3, <1>22 DEF WriteClipboard, SeqWriteClipboard, WriteFails,
                     SeqWriteFails, Seeds, SeedFails, AllAsked
<1>23. CASE YdotoolPaste \/ SeqYdotoolPaste
  BY <1>3, <1>4, <1>23 DEF YdotoolPaste, SeqYdotoolPaste, AllAsked
<1>24. CASE TypeText
  BY <1>3, <1>4, <1>24 DEF TypeText, Excused, AllAsked
<1>25. CASE AfterPaste
  BY <1>3, <1>25 DEF AfterPaste, AllAsked
<1>26. CASE SeqRestore \/ SeqUnpasted
  BY <1>3, <1>26 DEF SeqRestore, SeqUnpasted, AllAsked
<1>27. QED
  BY <1>5, <1>6, <1>7, <1>8, <1>9, <1>10, <1>11, <1>12, <1>13, <1>15, <1>16,
     <1>17, <1>18, <1>19, <1>20, <1>21, <1>22, <1>23, <1>24, <1>25, <1>26
  DEF InjectorsNext

\* No text enters twice, but for what EntersOnce lists; for any number of
\* texts and copies.
THEOREM TextEntersOnce == InjectorsSpec => []EntersOnce
<1>1. InjectorsTypeOK /\ LastIsInsert /\ OnceInv
        /\ [InjectorsNext]_injectorVars
        => (InjectorsTypeOK /\ LastIsInsert /\ OnceInv)'
  BY InjectorsTypeStep, InsertStep, OnceStep
<1>2. InjectorsTypeOK /\ OnceInv => EntersOnce
  BY DEF OnceInv, OnceHeld, Once, EntersOnce, InjectorsTypeOK
<1>3. QED
  BY InjectorsTypeInit, InsertInit, OnceInit, <1>1, <1>2, PTL
  DEF InjectorsSpec

(***************************************************************************)
(* A text answered with Ok, or about to be, has entered or is among the    *)
(* requests, which the application handles one after another.              *)
(***************************************************************************)
Comes(q, e, n) == e[n] > 0 \/ \E i \in 1 .. Len(q) : q[i][2] = n

\* The stages that lead to Ok, and not on to the next method.
Answering == {"insert", "ok", "pasted", "seqPasted", "confirm"}

ToldBefore ==
    \A n \in told : n \in TextIds /\ n <= text /\ (stage # "idle" => n < text)

OkHeld == /\ \A n \in told : Comes(requests, entered, n)
          /\ stage \in Answering => Comes(requests, entered, text)

OkInv == foreign = "yes" \/ Excused({"onpaper"}) \/ OkHeld

LEMMA ComesEntered ==
  ASSUME NEW q \in Seq(Asks), NEW e \in [TextIds -> Nat], q # <<>>
  PROVE  \A n \in TextIds : Comes(q, e, n) =>
           Comes(Tail(q), [e EXCEPT ![Head(q)[2]] = @ + 1], n)
<1> SUFFICES ASSUME NEW n \in TextIds, Comes(q, e, n)
             PROVE  Comes(Tail(q), [e EXCEPT ![Head(q)[2]] = @ + 1], n)
  OBVIOUS
<1> DEFINE f == [e EXCEPT ![Head(q)[2]] = @ + 1]
<1>1. f[n] >= e[n] /\ (n = Head(q)[2] => f[n] > 0) /\ e[n] \in Nat
      /\ f[n] \in Nat
  OBVIOUS
<1> HIDE DEF f
<1>2. CASE e[n] > 0
  BY <1>1, <1>2 DEF Comes
<1>3. ASSUME NEW i \in 1 .. Len(q), q[i][2] = n PROVE Comes(Tail(q), f, n)
  <2>1. CASE i = 1
    BY <1>1, <1>3, <2>1, RestOf DEF Comes
  <2>2. CASE i # 1
    <3>1. i - 1 \in 1 .. Len(Tail(q)) /\ Tail(q)[i - 1] = q[i]
      BY <2>2
    <3>2. QED BY <1>3, <3>1 DEF Comes
  <2>3. QED BY <2>1, <2>2
<1>4. QED BY <1>2, <1>3 DEF Comes, f

LEMMA ComesDropped ==
  ASSUME NEW q \in Seq(Asks), NEW e, q # <<>>
  PROVE  \A n \in TextIds : n # q[Len(q)][2] /\ Comes(q, e, n) =>
           Comes(SubSeq(q, 1, Len(q) - 1), e, n)
<1> SUFFICES ASSUME NEW n \in TextIds, n # q[Len(q)][2], Comes(q, e, n)
             PROVE  Comes(SubSeq(q, 1, Len(q) - 1), e, n)
  OBVIOUS
<1>1. PICK f \in Seq(Asks) : f = SubSeq(q, 1, Len(q) - 1)
  BY FrontOf
<1>2. Len(f) = Len(q) - 1 /\ \A i \in 1 .. Len(f) : f[i] = q[i]
  BY <1>1, FrontOf
<1>3. ASSUME NEW i \in 1 .. Len(q), q[i][2] = n PROVE Comes(f, e, n)
  <2>1. i # Len(q) /\ Len(q) \in Nat
    BY <1>3
  <2>2. i \in 1 .. Len(f) /\ f[i] = q[i]
    BY <1>2, <2>1
  <2>3. QED BY <1>3, <2>2 DEF Comes
<1>4. QED BY <1>1, <1>3 DEF Comes

LEMMA ComesAsked ==
  ASSUME NEW q \in Seq(Asks), NEW e, NEW a \in Asks
  PROVE  /\ Comes(Append(q, a), e, a[2])
         /\ \A n \in TextIds : Comes(q, e, n) => Comes(Append(q, a), e, n)
<1>1. PICK r \in Seq(Asks) : r = Append(q, a)
  BY WithLast
<1>2. /\ \A i \in 1 .. Len(q) : i \in 1 .. Len(r) /\ r[i] = q[i]
      /\ r[Len(q) + 1] = a /\ Len(q) + 1 \in 1 .. Len(r)
  BY <1>1, WithLast
<1>3. Comes(r, e, a[2])
  BY <1>2 DEF Comes
<1>4. \A n \in TextIds : Comes(q, e, n) => Comes(r, e, n)
  BY <1>2 DEF Comes
<1>5. QED BY <1>1, <1>3, <1>4

LEMMA ToldInit == InjectorsInit => ToldBefore
  BY DEF InjectorsInit, ToldBefore

LEMMA ToldStep ==
  ASSUME InjectorsTypeOK, ToldBefore, [InjectorsNext]_injectorVars
  PROVE  ToldBefore'
<1> USE DEF callVars, localVars, clipVars, outcomeVars, ToldBefore
<1>0. stage # "idle" => text \in TextIds
  BY DEF InjectorsTypeOK
<1>1. CASE Inject
  <2>1. stage = "idle" /\ text' = text + 1 /\ text \in Int
        /\ told' \subseteq told
    BY <1>1 DEF Inject, InjectorsTypeOK
  <2>2. QED BY <2>1 DEF TextIds
<1>2. CASE MethodSucceeded \/ Confirm
  <2>1. /\ text \in TextIds /\ stage # "idle" /\ text' = text
        /\ \/ told' = told
           \/ told' = told \union {text} /\ stage' = "idle"
    BY <1>0, <1>2 DEF MethodSucceeded, Confirm, Returned
  <2>2. QED BY <2>1 DEF TextIds
<1>3. CASE told' = told /\ text' = text /\ (stage = "idle" => stage' = stage)
  BY <1>3
<1>4. CASE UNCHANGED injectorVars
  BY <1>4 DEF injectorVars
<1>5. QED
  BY <1>1, <1>2, <1>3, <1>4
  DEF InjectorsNext, UserCopies, AppHandles, Restore, TryNext, GiveUp,
      Returned, Unconfirmed, TimeOut, InStage, Fails, AskInsert, Inserted,
      AnswersLate, SetClipboard, FindTarget, PasteAction, PasteKeys, Pastes,
      CannotPaste, ReadClipboard, WriteClipboard, WriteFails, Settle,
      PressKeys, YdotoolPaste, AfterPaste, EnigoPaste, TypeText,
      SeqReadClipboard, SeqWriteClipboard, SeqWriteFails, SeqAtspiPaste,
      SeqPressKeys, SeqYdotoolPaste, SeqRestore, SeqUnpasted, BacksUp, Seeds,
      SeedFails

LEMMA OkInit == InjectorsInit => OkInv
  BY DEF InjectorsInit, OkInv, OkHeld, Answering

LEMMA OkStep ==
  ASSUME InjectorsTypeOK, LastIsInsert, ToldBefore, OkInv,
         [InjectorsNext]_injectorVars
  PROVE  OkInv'
<1> USE DEF callVars, localVars, clipVars, outcomeVars
<1>0. /\ requests \in Seq(Asks) /\ entered \in [TextIds -> Nat]
      /\ stage # "idle" => text \in TextIds
      /\ told \subseteq TextIds
  BY DEF InjectorsTypeOK, ToldBefore
<1>1. CASE Inject
  <2>1. /\ stage' = "next" /\ requests' = requests
        /\ \/ UNCHANGED <<excuses, foreign, entered, told>>
           \/ told' = {}
    BY <1>1 DEF Inject
  <2>2. QED BY <2>1 DEF OkInv, OkHeld, Answering, Excused
<1>2. CASE (foreign = "yes" \/ Excused({"onpaper"})) /\ ~Inject
  BY <1>2, ExcuseLasts, ForeignLasts DEF OkInv
<1> SUFFICES ASSUME OkHeld, foreign = "no", foreign' = "no", ~Inject,
                    ~Excused({"onpaper"})'
             PROVE  OkHeld'
  <2>1. foreign \in {"yes", "no"} /\ foreign' \in {"yes", "no"}
    BY InjectorsTypeStep DEF InjectorsTypeOK
  <2>2. QED BY <1>1, <1>2, <2>1 DEF OkInv
<1>3. ASSUME UNCHANGED <<requests, entered, text, told>>,
             stage' \in Answering => stage \in Answering
      PROVE  OkHeld'
  BY <1>3 DEF OkHeld
<1>4. ASSUME stage # "idle", NEW kind \in {"insert", "paste", "type"},
             requests' = Asked(kind), UNCHANGED <<entered, text, told>>
      PROVE  OkHeld'
  <2>1. PICK a \in Asks : a = <<kind, text>> /\ a[2] = text
    <3>1. <<kind, text>> \in Asks /\ <<kind, text>>[2] = text
      BY <1>0, <1>4 DEF Asks
    <3>2. QED BY <3>1
  <2>2. requests' = Append(requests, a)
    BY <1>4, <2>1 DEF Asked
  <2>3. /\ Comes(requests', entered, text)
        /\ \A n \in TextIds : Comes(requests, entered, n)
             => Comes(requests', entered, n)
    BY <1>0, <2>1, <2>2, ComesAsked
  <2>4. QED BY <1>0, <1>4, <2>3 DEF OkHeld
<1>5. CASE AppHandles
  <2>1. /\ requests # <<>> /\ requests' = Tail(requests)
        /\ UNCHANGED <<stage, text, told>>
    BY <1>5 DEF AppHandles
  <2>2. entered' = [entered EXCEPT ![Head(requests)[2]] = @ + 1]
    <3>1. PICK what, meant :
            /\ meant = <<"text", Head(requests)[2]>>
            /\ entered' = IF what[1] = "text"
                          THEN [entered EXCEPT ![what[2]] = @ + 1]
                          ELSE entered
            /\ foreign' = IF what # meant THEN "yes" ELSE foreign
      BY <1>5 DEF AppHandles
    <3>2. what = meant
      BY <3>1
    <3>3. QED BY <3>1, <3>2
  <2>3. \A n \in TextIds : Comes(requests, entered, n)
          => Comes(requests', entered', n)
    BY <1>0, <2>1, <2>2, ComesEntered
  <2>4. stage \in Answering => text \in TextIds
    BY <1>0 DEF Answering
  <2>5. QED BY <1>0, <2>1, <2>3, <2>4 DEF OkHeld
<1>6. CASE UserCopies \/ Restore \/ GiveUp \/ UNCHANGED injectorVars
  BY <1>3, <1>6 DEF UserCopies, Restore, GiveUp, Returned, Answering,
                    injectorVars
<1>7. CASE MethodSucceeded \/ Confirm
  <2>1. /\ Comes(requests, entered, text)
        /\ UNCHANGED <<requests, entered, text>>
        /\ told' \subseteq told \union {text}
    BY <1>7 DEF MethodSucceeded, Confirm, Returned, OkHeld, Answering
  <2>2. QED BY <2>1 DEF OkHeld
<1>8. CASE Unconfirmed \/ AnswersLate
  BY <1>3, <1>8 DEF Unconfirmed, AnswersLate, Answering
<1>9. CASE TryNext
  <2>1. Head(left) \in Methods \ {"noop"}
    BY <1>9, RestOf DEF TryNext, InjectorsTypeOK, Excused
  <2>2. FirstStep(Head(left)) \notin Answering
    BY <2>1 DEF FirstStep, Clipboard, Methods, Answering
  <2>3. QED BY <1>3, <1>9, <2>2 DEF TryNext
<1>10. CASE TimeOut
  <2>1. /\ stage' = "idle" /\ stage # "idle"
        /\ UNCHANGED <<entered, text, told>>
        /\ requests' = requests \/ requests' = Asked("paste")
    BY <1>10 DEF TimeOut, Returned, InStage
  <2>2. QED BY <1>3, <1>4, <2>1 DEF Answering
<1>11. CASE \E step \in {"set", "locate", "find", "read", "seqRead"} :
              Fails(step)
  BY <1>3, <1>11 DEF Fails, AfterFailure, Answering
<1>12. CASE AskInsert
  BY <1>4, <1>12 DEF AskInsert
<1>13. CASE Inserted
  <2>1. CASE requests' = requests
    BY <1>3, <1>13, <2>1 DEF Inserted, Answering
  <2>2. CASE /\ requests # <<>> /\ stage' = "next"
             /\ requests' = SubSeq(requests, 1, Len(requests) - 1)
    <3>1. /\ requests[Len(requests)][2] = text /\ stage # "idle"
          /\ UNCHANGED <<entered, told>>
      BY <1>13, <2>2 DEF Inserted, LastIsInsert
    <3>2. \A n \in told : n # requests[Len(requests)][2]
      BY <1>0, <3>1 DEF ToldBefore, TextIds
    <3>3. \A n \in told : Comes(requests', entered, n)
      BY <1>0, <2>2, <3>2, ComesDropped DEF OkHeld
    <3>4. QED BY <2>2, <3>1, <3>3 DEF OkHeld, Answering
  <2>3. QED BY <1>13, <2>1, <2>2 DEF Inserted
<1>14. CASE SetClipboard \/ FindTarget \/ Settle
  BY <1>3, <1>14 DEF SetClipboard, FindTarget, Settle, Answering
<1>15. ASSUME NEW from, NEW done, NEW failed, failed \notin Answering,
              from # "idle",
              Pastes(from, done, failed) \/ CannotPaste(from, failed)
       PROVE  OkHeld'
  BY <1>3, <1>4, <1>15 DEF Pastes, CannotPaste
<1>16. CASE PasteAction
  BY <1>15, <1>16 DEF PasteAction, Answering
<1>17. CASE PasteKeys
  BY <1>15, <1>17 DEF PasteKeys, Answering
<1>18. CASE PressKeys
  BY <1>15, <1>18 DEF PressKeys, Answering
<1>19. CASE EnigoPaste
  BY <1>15, <1>19 DEF EnigoPaste, Answering
<1>20. CASE SeqAtspiPaste
  BY <1>15, <1>20 DEF SeqAtspiPaste, Answering
<1>21. CASE SeqPressKeys
  BY <1>15, <1>21 DEF SeqPressKeys, Answering
<1>22. CASE ReadClipboard \/ SeqReadClipboard
  BY <1>3, <1>22 DEF ReadClipboard, SeqReadClipboard, BacksUp, Answering
<1>23. CASE WriteClipboard \/ SeqWriteClipboard \/ WriteFails \/ SeqWriteFails
  BY <1>3, <1>23 DEF WriteClipboard, SeqWriteClipboard, WriteFails,
                     SeqWriteFails, Seeds, SeedFails, Answering
<1>24. CASE YdotoolPaste \/ SeqYdotoolPaste \/ TypeText
  BY <1>3, <1>4, <1>24 DEF YdotoolPaste, SeqYdotoolPaste, TypeText, Answering
<1>25. CASE AfterPaste
  BY <1>3, <1>25 DEF AfterPaste, Answering, Excused
<1>26. CASE SeqRestore \/ SeqUnpasted
  BY <1>3, <1>26 DEF SeqRestore, SeqUnpasted, Answering
<1>27. QED
  BY <1>5, <1>6, <1>7, <1>8, <1>9, <1>10, <1>11, <1>12, <1>13, <1>14, <1>16,
     <1>17, <1>18, <1>19, <1>20, <1>21, <1>22, <1>23, <1>24, <1>25, <1>26
  DEF InjectorsNext

\* A text answered with Ok is in the document once all is quiet, but for what
\* OkMeansEntered lists; for any number of texts and copies.
THEOREM OkIsEntered == InjectorsSpec => []OkMeansEntered
<1>1. InjectorsTypeOK /\ LastIsInsert /\ ToldBefore /\ OkInv
        /\ [InjectorsNext]_injectorVars
        => (InjectorsTypeOK /\ LastIsInsert /\ ToldBefore /\ OkInv)'
  BY InjectorsTypeStep, InsertStep, ToldStep, OkStep
<1>2. OkInv => OkMeansEntered
  BY DEF OkInv, OkHeld, Comes, OkMeansEntered, Busy
<1>3. QED
  BY InjectorsTypeInit, InsertInit, ToldInit, OkInit, <1>1, <1>2, PTL
  DEF InjectorsSpec
=============================================================================
