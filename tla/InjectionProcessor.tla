------------------------- MODULE InjectionProcessor -------------------------
(***************************************************************************)
(* The text-injection task: the loop of AsyncInjectionProcessor            *)
(* (crates/coldvox-text-injection/src/processor.rs) and the                *)
(* InjectionSession it owns (session.rs).                                  *)
(*                                                                         *)
(* Final transcriptions arrive through a bounded channel and are buffered. *)
(* A periodic check moves the session on, from buffering, through a pause, *)
(* to ready; a ready session is emptied, and its text handed to the        *)
(* injector.  While the injector works the loop receives nothing.          *)
(*                                                                         *)
(* A text is its number.  Partial results, errors and blank texts leave    *)
(* the session as it is and are left out; so are force_inject and clear,   *)
(* which no caller reaches once run() has consumed the processor.          *)
(***************************************************************************)
EXTENDS Naturals, Sequences

CONSTANTS
    Ids,            \* texts are numbered 1 .. Ids, over and over
    MaxBacklog,     \* bound: texts spoken and not yet settled
    ChannelCap,     \* capacity of text_injection_tx
    MaxBuffer,      \* max_buffer_size, in texts
    PauseTimeout,   \* buffer_pause_timeout_ms, in ticks
    SilenceTimeout, \* silence_timeout_ms, in ticks
    FlushesOn       \* the endings of a text that flush: punctuation or none

Endings == {"plain", "sentence"}

ASSUME ProcessorAssumption ==
    /\ Ids \in Nat \ {0} /\ MaxBacklog \in Nat
    /\ MaxBuffer \in Nat /\ MaxBuffer < MaxBacklog /\ MaxBacklog < Ids
    /\ ChannelCap \in Nat \ {0}
    /\ PauseTimeout \in Nat /\ SilenceTimeout \in Nat
    /\ FlushesOn \subseteq {"sentence"}

VARIABLES
    loop,     \* where the task is: selecting, injecting, or aborted
    inbox,    \* the numbers of the texts in the channel
    endings,  \* and how each of them ends
    state,    \* SessionState
    buffer,   \* the texts buffered, oldest first
    age,      \* ticks since the last transcription (saturating)
    batch     \* the texts being injected

\* History variables, which no action reads for its effect on the others.
VARIABLES
    spoken,   \* the number of the last text that entered the channel
    settled   \* the number of the last text injected, or failed to be

channelVars == <<inbox, endings, spoken>>
sessionVars == <<state, buffer, age>>
vars == <<loop, channelVars, sessionVars, batch, settled>>

Texts == 1 .. Ids
After(n) == (n % Ids) + 1
Longest(a, b) == IF a > b THEN a ELSE b
MaxAge == Longest(PauseTimeout, SilenceTimeout)

TypeOK ==
    /\ loop \in {"select", "inject", "aborted"}
    /\ inbox \in Seq(Texts) /\ Len(inbox) <= ChannelCap
    /\ endings \in Seq(Endings) /\ Len(endings) = Len(inbox)
    /\ state \in {"Idle", "Buffering", "WaitingForSilence", "ReadyToInject"}
    /\ buffer \in Seq(Texts) /\ batch \in Seq(Texts)
    /\ age \in 0 .. MaxAge
    /\ spoken \in Texts /\ settled \in Texts

Init ==
    /\ loop = "select"
    /\ inbox = <<>> /\ endings = <<>>
    /\ state = "Idle" /\ buffer = <<>> /\ age = 0
    /\ batch = <<>>
    /\ spoken = Ids /\ settled = Ids

-----------------------------------------------------------------------------
(* The channel and the clock                                               *)

Backlog == Len(batch) + Len(buffer) + Len(inbox)

\* The forwarder sends a final transcription; it waits while there is no room.
Arrive(e) ==
    /\ Len(inbox) < ChannelCap
    /\ Backlog < MaxBacklog
    /\ inbox' = Append(inbox, After(spoken))
    /\ endings' = Append(endings, e)
    /\ spoken' = After(spoken)
    /\ UNCHANGED <<loop, sessionVars, batch, settled>>

Tick ==
    /\ age < MaxAge
    /\ age' = age + 1
    /\ UNCHANGED <<loop, channelVars, state, buffer, batch, settled>>

-----------------------------------------------------------------------------
(* The arms of the select!                                                 *)

\* A new text ends a pause, and takes a session that was ready back to
\* buffering, unless it fills the buffer or ends a sentence itself.
TooLarge(texts) == Len(texts) > MaxBuffer

StateAfterAdding(texts, e) ==
    IF TooLarge(texts) \/ e \in FlushesOn THEN "ReadyToInject" ELSE "Buffering"

Receive ==
    LET texts == Append(buffer, Head(inbox))
    IN  /\ loop = "select"
        /\ inbox # <<>>
        /\ inbox' = Tail(inbox) /\ endings' = Tail(endings)
        /\ buffer' = texts
        /\ state' = StateAfterAdding(texts, Head(endings))
        /\ age' = 0
        /\ UNCHANGED <<loop, spoken, batch, settled>>

\* Past the bound texts keep coming, but are not told apart from the last one
\* buffered.
ReceiveMore(e) ==
    /\ loop = "select"
    /\ Len(buffer) = MaxBacklog
    /\ state' = StateAfterAdding(buffer, e)
    /\ age' = 0
    /\ UNCHANGED <<loop, channelVars, buffer, batch, settled>>

\* The check that finds a pause only notes it: the next check may inject.
NoticePause ==
    /\ loop = "select"
    /\ state = "Buffering"
    /\ age >= PauseTimeout
    /\ state' = "WaitingForSilence"
    /\ UNCHANGED <<loop, channelVars, buffer, age, batch, settled>>

OnlyAfterSilence == state = "WaitingForSilence" /\ age >= SilenceTimeout
ShouldInject ==
    \/ state = "WaitingForSilence" /\ age >= SilenceTimeout
    \/ state = "ReadyToInject"

\* What take_buffer leaves behind.
KeptInBuffer == buffer
LeftInBuffer == <<>>

\* The buffer is emptied before its text is injected.  An empty text is not
\* injected.
TakeBuffer ==
    /\ loop = "select"
    /\ ShouldInject
    /\ batch' = buffer
    /\ buffer' = LeftInBuffer
    /\ state' = "Idle"
    /\ age' = 0
    /\ loop' = IF buffer = <<>> THEN "select" ELSE "inject"
    /\ UNCHANGED <<channelVars, settled>>

\* StrategyManager::inject answers.  When it failed, the text is not kept.
InjectReturns ==
    /\ loop = "inject"
    /\ settled' = batch[Len(batch)]
    /\ batch' = <<>>
    /\ loop' = "select"
    /\ UNCHANGED <<channelVars, sessionVars>>

\* AppHandle::shutdown aborts the task wherever it waits; it never uses the
\* task's own shutdown channel, whose sender the task itself keeps.
Abort ==
    /\ loop # "aborted"
    /\ loop' = "aborted"
    /\ UNCHANGED <<channelVars, sessionVars, batch, settled>>

-----------------------------------------------------------------------------
Check == NoticePause \/ TakeBuffer

Next ==
    \/ \E e \in Endings : Arrive(e) \/ ReceiveMore(e)
    \/ Tick
    \/ Receive
    \/ Check
    \/ InjectReturns
    \/ Abort

Spec == Init /\ [][Next]_vars

\* Time passes, the interval fires, and select! leaves out no arm that stays
\* ready.  Nothing is promised of the speaker, so texts may keep coming, nor
\* of the injector, so it may never answer.
Fairness == WF_vars(Tick) /\ WF_vars(Receive) /\ WF_vars(Check)

FairSpec == Spec /\ Fairness

-----------------------------------------------------------------------------
(* Safety                                                                  *)

\* The numbers from n on, so many of them.
Chained(texts, n) ==
    /\ texts # <<>> => texts[1] = After(n)
    /\ \A i \in 1 .. Len(texts) - 1 : texts[i + 1] = After(texts[i])

Pending == batch \o buffer \o inbox

\* The texts being injected, buffered and queued are exactly those that came
\* after the last one settled, each once and in the order they were spoken:
\* the session loses, repeats and reorders nothing (add_transcription,
\* take_buffer and the run loop), up to the shutdown and after it.
NothingLost ==
    /\ Chained(Pending, settled)
    /\ spoken = IF Pending = <<>> THEN settled ELSE Pending[Len(Pending)]

=============================================================================
