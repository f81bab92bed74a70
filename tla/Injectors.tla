----------------------------- MODULE Injectors ------------------------------
(***************************************************************************)
(* What an injection does to the desktop: the AT-SPI injector              *)
(* (coldvox-text-injection/src/injectors/atspi.rs), the clipboard          *)
(* injectors (injectors/unified_clipboard.rs and injectors/clipboard.rs),  *)
(* EnigoInjector (enigo_injector.rs) and the two that call them, the       *)
(* strategy manager and StrategyOrchestrator (orchestrator.rs) with its    *)
(* confirmation (confirm.rs).                                              *)
(*                                                                         *)
(* The desktop is a clipboard, which the user writes too, and an           *)
(* application that handles what it is asked in order, when it gets to it. *)
(* TextIds are numbers.  What the clipboard holds is <<"text", n>> or the    *)
(* user's k-th copy, <<"user", k>>.  One injection runs at a time;         *)
(* StrategyManager says which methods one tries and for how long.          *)
(***************************************************************************)
EXTENDS Integers, Sequences

CONSTANTS
    Callers,    \* who injects: a subset of the four below
    MaxTexts,   \* bound: texts injected
    MaxCopies   \* bound: times the user copies something

AllCallers == {"manager", "orchestrator", "strict", "sequential"}

ASSUME InjectorsAssumption ==
    /\ Callers \subseteq AllCallers /\ Callers # {}
    /\ MaxTexts \in Nat /\ MaxCopies \in Nat

VARIABLES
    caller,     \* the strategy manager, the orchestrator, or somebody who
                \* uses one clipboard injector: the unified one in strict
                \* mode, or that of clipboard.rs
    order,      \* the registered methods, in the order they are tried
    pasteMode,  \* "yes" if AT-SPI is to paste and not to insert
    stage,      \* how far the injection has got
    left,       \* the methods it has not tried
    text,       \* the text it injects
    backup,     \* what it read from the clipboard
    base,       \* how often the text was there when confirmation began
    clip,       \* what the clipboard holds
    copies,     \* the user's last copy
    restores,   \* backups that spawned tasks are to restore
    requests    \* what the application has been asked and has not done

\* History variables, which only properties read.
VARIABLES
    entered,    \* how often each text has entered the application
    foreign,    \* "yes" if something else was pasted since all was quiet
    told,       \* texts whose injection was answered with Ok
    excuses     \* what happened since all was quiet (see below)

callVars == <<caller, order, pasteMode>>
localVars == <<left, text, backup, base>>
clipVars == <<clip, copies, restores>>
outcomeVars == <<entered, foreign, told>>
injectorVars == <<callVars, stage, localVars, clipVars, requests,
                  outcomeVars, excuses>>

TextIds == 1 .. MaxTexts
Nothing == <<"user", 0>>
Mine == <<"text", text>>
Users == <<"user", copies>>

\* InjectorRegistry::build and compute_method_order: any of the injectors
\* may be available; noop when none is.  kdotool never injects.
ManagerOrders ==
    {<<"noop">>, <<"kdotool", "clipboard">>}
      \union {a \o b \o <<"clipboard">> : a \in {<<>>, <<"atspi">>},
                                        b \in {<<>>, <<"enigo">>}}

\* get_strategy_order: Windows has no AT-SPI.
OrchestratorOrders == {<<"atspi", "clipboard">>, <<"clipboard">>}

InjectorsInit ==
    /\ caller \in Callers
    /\ order \in CASE caller = "manager" -> ManagerOrders
                   [] caller = "orchestrator" -> OrchestratorOrders
                   [] OTHER -> {<<"clipboard">>}
    /\ pasteMode \in IF order[1] = "atspi" THEN {"yes", "no"} ELSE {"no"}
    /\ stage = "idle" /\ left = <<>> /\ text = 0
    /\ backup = Nothing /\ base = 0
    /\ clip = <<"user", 0>> /\ copies = 0
    /\ restores = <<>> /\ requests = <<>>
    /\ entered = [n \in TextIds |-> 0] /\ foreign = "no"
    /\ told = {} /\ excuses = {}

-----------------------------------------------------------------------------
(* The user and the application                                            *)

Returned == stage' = "idle" /\ left' = <<>> /\ backup' = Nothing /\ base' = 0

Busy == stage # "idle" \/ restores # <<>> \/ requests # <<>>

UserCopies ==
    /\ copies < MaxCopies
    /\ copies' = copies + 1
    /\ clip' = <<"user", copies + 1>>
    /\ excuses' = IF Busy THEN excuses \union {"copied"} ELSE excuses
    /\ UNCHANGED <<callVars, stage, localVars, restores, requests,
                   outcomeVars>>

Asked(kind) == Append(requests, <<kind, text>>)

AppHandles ==
    /\ requests # <<>>
    /\ requests' = Tail(requests)
    /\ LET kind == Head(requests)[1]
           meant == <<"text", Head(requests)[2]>>
           what == IF kind = "paste" THEN clip ELSE meant
       IN  /\ entered' = IF what[1] = "text"
                         THEN [entered EXCEPT ![what[2]] = @ + 1]
                         ELSE entered
           /\ foreign' = IF what # meant THEN "yes" ELSE foreign
    /\ UNCHANGED <<callVars, stage, localVars, clipVars, told, excuses>>

\* Something overtakes a paste the application has not got to.
Overtaking == IF requests # <<>> THEN {"slow"} ELSE {}

\* An injection turns to the clipboard while a restore is still to come.
Overlap == IF restores # <<>> THEN {"overlap"} ELSE {}

\* The task of schedule_clipboard_restore, after its delay.  It restores, or
\* fails and logs that.
Restore ==
    /\ restores # <<>>
    /\ restores' = Tail(restores)
    /\ \/ /\ clip' = Head(restores)
          /\ excuses' = excuses \union Overtaking
       \/ /\ clip' = clip
          /\ excuses' = excuses \union {"unrestored"}
    /\ UNCHANGED <<callVars, stage, localVars, copies, requests, outcomeVars>>

-----------------------------------------------------------------------------
(* The callers                                                             *)

\* A call starts.  The excuses of earlier ones end when all is quiet and the
\* clipboard is the user's.
Inject ==
    /\ stage = "idle" /\ text < MaxTexts
    /\ text' = text + 1
    /\ left' = order /\ stage' = "next"
    /\ IF Busy \/ clip # Users
       THEN UNCHANGED <<outcomeVars, excuses>>
       ELSE /\ entered' = [n \in TextIds |-> 0] /\ foreign' = "no"
            /\ told' = {} /\ excuses' = {}
    /\ UNCHANGED <<callVars, backup, base, clipVars, requests>>

Unseeded == "press"
Clipboard == IF caller = "sequential" THEN "seqRead" ELSE "read"
FirstStep(method) ==
    CASE method = "atspi" -> IF pasteMode = "yes" THEN "set" ELSE "locate"
      [] method = "clipboard" -> Clipboard
      [] method = "enigo" -> "enigo"
      [] method = "kdotool" -> "next"
      [] method = "noop" -> "ok"

TryNext ==
    /\ stage = "next" /\ left # <<>>
    /\ stage' = FirstStep(Head(left))
    /\ left' = Tail(left)
    /\ UNCHANGED <<callVars, text, backup, base, clipVars, requests,
                   outcomeVars>>
    /\ excuses' = excuses \union (CASE Head(left) = "noop" -> {"onpaper"}
                                    [] Head(left) = "enigo" -> {"enigo"}
                                    [] OTHER -> {})

\* All methods failed, or the orchestrator's budget is spent.
GiveUp ==
    /\ stage = "next"
    /\ left = <<>> \/ caller = "orchestrator"
    /\ Returned
    /\ UNCHANGED <<callVars, text, clipVars, requests, outcomeVars, excuses>>

\* The manager returns the first Ok.  The orchestrator asks text_changed for
\* a confirmation, which first reads what the text field holds; a read that
\* fails counts as an empty field.
MethodSucceeded ==
    /\ stage = "ok"
    /\ IF caller = "orchestrator"
       THEN /\ stage' = "confirm" /\ base' \in {entered[text], 0}
            /\ UNCHANGED <<left, backup, told>>
       ELSE Returned /\ told' = told \union {text}
    /\ UNCHANGED <<callVars, text, clipVars, requests, entered, foreign,
                   excuses>>

\* A poll finds the text; it must have appeared after the first reading.
Appeared == entered[text] > base
Confirm ==
    /\ stage = "confirm" /\ Appeared
    /\ Returned /\ told' = told \union {text}
    /\ UNCHANGED <<callVars, text, clipVars, requests, entered, foreign,
                   excuses>>

\* Seven polls have not, or the confirmation failed: the next strategy.
Unconfirmed ==
    /\ stage = "confirm"
    /\ stage' = "next"
    /\ excuses' = excuses \union {"repeats"}
    /\ UNCHANGED <<callVars, localVars, clipVars, requests, outcomeVars>>

\* The orchestrator drops a method after 50 ms and returns.  What the method
\* had asked of another process may still be done; what it had asked of another
\* thread (spawn_blocking) is done here or not at all, never later.
InStage == stage \in {"set", "locate", "insert", "find", "act", "keys", "read",
                   "seed", "settle", "press", "ydotool"}
TimeOut ==
    /\ caller = "orchestrator" /\ InStage
    /\ Returned
    /\ clip' \in IF stage \in {"set", "seed"} THEN {clip, Mine} ELSE {clip}
    /\ excuses' = excuses \union {"unrestored"}
                     \union (IF clip' # clip THEN Overtaking ELSE {})
    /\ requests' \in IF stage \in {"act", "keys", "press", "ydotool"}
                     THEN {requests, Asked("paste")} ELSE {requests}
    /\ UNCHANGED <<callVars, text, copies, restores, outcomeVars>>

-----------------------------------------------------------------------------
(* AT-SPI                                                                  *)

\* Connection, search for the focused element, its proxies and its caret:
\* any of them may fail or take too long.
IgnoredFailure == "ok"
AfterFailure == "next"
Fails(step) ==
    /\ stage = step /\ stage' = AfterFailure
    /\ UNCHANGED <<callVars, localVars, clipVars, requests, outcomeVars,
                   excuses>>

\* insert_text: the application is asked to insert at its caret,
AskInsert ==
    /\ stage = "locate" /\ stage' = "insert"
    /\ requests' = Asked("insert")
    /\ UNCHANGED <<callVars, localVars, clipVars, outcomeVars, excuses>>

\* and answers when it has, or that it cannot,
Inserted ==
    /\ stage = "insert"
    /\ \/ requests = <<>> /\ stage' = "ok" /\ UNCHANGED requests
       \/ /\ requests # <<>> /\ stage' = "next"
          /\ requests' = SubSeq(requests, 1, Len(requests) - 1)
    /\ UNCHANGED <<callVars, localVars, clipVars, outcomeVars, excuses>>

\* or not within per_method_timeout: it may still insert the text.
AnswersLate ==
    /\ stage = "insert" /\ stage' = "next"
    /\ excuses' = excuses \union {"repeats"}
    /\ UNCHANGED <<callVars, localVars, clipVars, requests, outcomeVars>>

\* set_clipboard_content: no backup is made.
SetClipboard ==
    /\ stage = "set" /\ stage' = "find"
    /\ clip' = Mine
    /\ excuses' = excuses \union {"unrestored"}
                     \union Overtaking \union Overlap
    /\ UNCHANGED <<callVars, localVars, copies, restores, requests,
                   outcomeVars>>

\* paste_text: the focused element has a paste action, or none.
FindTarget ==
    /\ stage = "find" /\ stage' \in {"act", "keys"}
    /\ UNCHANGED <<callVars, localVars, clipVars, requests, outcomeVars,
                   excuses>>

\* A paste that is asked for and may be answered with an error all the same.
Pastes(from, done, failed) ==
    /\ stage = from
    /\ requests' = Asked("paste")
    /\ \/ stage' = done /\ UNCHANGED excuses
       \/ stage' = failed /\ excuses' = excuses \union {"repeats"}
    /\ UNCHANGED <<callVars, localVars, clipVars, outcomeVars>>

CannotPaste(from, failed) ==
    /\ stage = from /\ stage' = failed
    /\ UNCHANGED <<callVars, localVars, clipVars, requests, outcomeVars,
                   excuses>>

\* do_action: an answer after the timeout is an error.
PasteAction == Pastes("act", "ok", "next") \/ CannotPaste("act", "next")

\* trigger_paste_key_event: Ctrl pressed, v clicked, Ctrl released; the
\* first failure returns.
PasteKeys == Pastes("keys", "ok", "next") \/ CannotPaste("keys", "next")

-----------------------------------------------------------------------------
(* The unified clipboard injector, and EnigoInjector                       *)

BacksUp ==
    /\ backup' = clip
    /\ excuses' = excuses \union Overlap
    /\ UNCHANGED <<callVars, left, text, base, clipVars, requests,
                   outcomeVars>>

ReadClipboard == stage = "read" /\ stage' = "seed" /\ BacksUp

Seeds ==
    /\ clip' = Mine
    /\ excuses' = excuses \union Overtaking
    /\ UNCHANGED <<callVars, localVars, copies, restores, requests,
                   outcomeVars>>

WriteClipboard == stage = "seed" /\ stage' = "settle" /\ Seeds

\* A write that fails may have been done all the same: its process is killed
\* when it does not end in time.
SeedFails ==
    /\ \/ UNCHANGED <<clip, excuses>>
       \/ /\ clip' = Mine
          /\ excuses' = excuses \union {"unrestored"} \union Overtaking
    /\ UNCHANGED <<callVars, localVars, copies, restores, requests,
                   outcomeVars>>

WriteFails == stage = "seed" /\ stage' = "next" /\ SeedFails

\* The clipboard is given 20 ms.
Settle ==
    /\ stage = "settle" /\ stage' = "press"
    /\ UNCHANGED <<callVars, localVars, clipVars, requests, outcomeVars,
                   excuses>>

\* perform_paste tries the next way only when one has failed.
TriesBoth(done, failed) == failed
PerformPaste(done, failed) == done

PressKeys ==
    \/ Pastes("press", PerformPaste("pasted", "ydotool"), "ydotool")
    \/ CannotPaste("press", "ydotool")

YdotoolPaste ==
    /\ stage = "ydotool"
    /\ \/ requests' = Asked("paste") /\ stage' = "pasted"
       \/ requests' = requests /\ stage' = "unpasted"
    /\ UNCHANGED <<callVars, localVars, clipVars, outcomeVars, excuses>>

\* The restore is scheduled whether the paste succeeded or not.
ScheduledIfPasted ==
    IF stage = "pasted" THEN Append(restores, backup) ELSE restores
Scheduled == Append(restores, backup)

AfterPaste ==
    /\ stage \in {"pasted", "unpasted"}
    /\ restores' = Scheduled /\ backup' = Nothing
    /\ \/ stage = "pasted" /\ stage' = "ok" /\ UNCHANGED excuses
       \/ /\ stage = "unpasted" /\ caller # "strict"
          /\ stage' = "ok"
          /\ excuses' = excuses \union {"onpaper"}
       \/ /\ stage = "unpasted" /\ caller = "strict"
          /\ stage' = "next" /\ UNCHANGED excuses
    /\ UNCHANGED <<callVars, left, text, base, clip, copies, requests,
                   outcomeVars>>

\* EnigoInjector::trigger_paste pastes whatever the clipboard holds;
EnigoPaste == Pastes("enigo", "ok", "type") \/ CannotPaste("enigo", "type")

\* type_text, when that failed, may break off in the middle.
TypeText ==
    /\ stage = "type"
    /\ \/ stage' = "ok" /\ requests' = Asked("type") /\ UNCHANGED excuses
       \/ stage' = "next" /\ UNCHANGED <<requests, excuses>>
       \/ /\ stage' = "next" /\ requests' = Asked("type")
          /\ excuses' = excuses \union {"repeats"}
    /\ UNCHANGED <<callVars, localVars, clipVars, outcomeVars>>

-----------------------------------------------------------------------------
(* The injector of clipboard.rs                                            *)

SeqReadClipboard == stage = "seqRead" /\ stage' = "seqSeed" /\ BacksUp
SeqWriteClipboard == stage = "seqSeed" /\ stage' = "seqAct" /\ Seeds
SeqWriteFails == stage = "seqSeed" /\ stage' = "next" /\ SeedFails

\* perform_paste: AT-SPI, the keys, ydotool.
SeqAtspiPaste ==
    \/ Pastes("seqAct", "seqPasted", "seqKeys")
    \/ CannotPaste("seqAct", "seqKeys")
SeqPressKeys ==
    \/ Pastes("seqKeys", "seqPasted", "seqYdotool")
    \/ CannotPaste("seqKeys", "seqYdotool")
SeqYdotoolPaste ==
    /\ stage = "seqYdotool"
    /\ \/ requests' = Asked("paste") /\ stage' = "seqPasted"
       \/ requests' = requests /\ stage' = "seqUnpasted"
    /\ UNCHANGED <<callVars, localVars, clipVars, outcomeVars, excuses>>

\* The restore is awaited; a failed one is logged.
SeqRestore ==
    /\ stage = "seqPasted" /\ stage' = "ok"
    /\ \/ clip' = backup /\ excuses' = excuses \union Overtaking
       \/ clip' = clip /\ excuses' = excuses \union {"unrestored"}
    /\ UNCHANGED <<callVars, localVars, copies, restores, requests,
                   outcomeVars>>

\* A failed paste returns at once.
SeqUnpasted ==
    /\ stage = "seqUnpasted" /\ stage' = "next"
    /\ excuses' = excuses \union {"unrestored"}
    /\ UNCHANGED <<callVars, localVars, clipVars, requests, outcomeVars>>

InjectorsNext ==
    \/ UserCopies \/ AppHandles \/ Restore
    \/ Inject \/ TryNext \/ GiveUp \/ MethodSucceeded
    \/ Confirm \/ Unconfirmed \/ TimeOut
    \/ \E step \in {"set", "locate", "find", "read", "seqRead"} : Fails(step)
    \/ AskInsert \/ Inserted \/ AnswersLate
    \/ SetClipboard \/ FindTarget \/ PasteAction \/ PasteKeys
    \/ ReadClipboard \/ WriteClipboard \/ WriteFails \/ Settle
    \/ PressKeys \/ YdotoolPaste \/ AfterPaste \/ EnigoPaste \/ TypeText
    \/ SeqReadClipboard \/ SeqWriteClipboard \/ SeqWriteFails
    \/ SeqAtspiPaste \/ SeqPressKeys \/ SeqYdotoolPaste
    \/ SeqRestore \/ SeqUnpasted

InjectorsSpec == InjectorsInit /\ [][InjectorsNext]_injectorVars

-----------------------------------------------------------------------------
(* Correctness.  The excuses:                                              *)
(*   copied      the user copied something while an injection or a restore *)
(*               was under way                                             *)
(*   overlap     an injection began while a restore was still to come      *)
(*   slow        the clipboard changed before the application pasted       *)
(*   enigo       EnigoInjector was tried, which sets no clipboard          *)
(*   unrestored  AT-SPI pasted, without a backup; a write was done and     *)
(*               answered with an error; the orchestrator's 50 ms were     *)
(*               over; clipboard.rs returned before its restore; or a      *)
(*               restore failed, as each does on X11, where                *)
(*               schedule_clipboard_restore calls the Wayland library      *)
(*   repeats     a method failed although its text went in: after its      *)
(*               timeout, on releasing Ctrl, or unconfirmed                *)
(*   onpaper     noop, or the best-effort mode after a failed paste        *)

Excused(reasons) == excuses \intersect reasons # {}

\* When all is quiet the clipboard holds what the user copied last, whatever
\* failed on the way, except after what is listed here
\* (unified_clipboard.rs, inject and schedule_clipboard_restore).
ClipboardComesBack ==
    ~Busy => \/ clip = Users
             \/ Excused({"copied", "overlap", "unrestored"})

\* Nothing but the text that is being injected is pasted into the user's
\* document, except after what is listed here (perform_paste, inject).
PastesItsText ==
    foreign = "yes" =>
        Excused({"copied", "overlap", "slow", "enigo"})

\* No text enters twice, unless it was pasted for another or a method failed
\* although its text goes in: after a timeout, on releasing Ctrl, or because
\* the confirmation looks too late (orchestrator.rs, atspi.rs).
EntersOnce ==
    \A n \in TextIds : entered[n] > 1 =>
        foreign = "yes" \/ Excused({"repeats"})

\* A text whose injection was answered with Ok is in the document once all
\* is quiet, or something else was pasted for it; noop and the best-effort
\* mode answer Ok for nothing (unified_clipboard.rs, noop_injector.rs).
OkMeansEntered ==
    ~Busy => \A n \in told : \/ entered[n] > 0 \/ foreign = "yes"
                             \/ Excused({"onpaper"})

\* enigo_injector.rs, inject_text: the strategy manager sets the clipboard
\* before the injector pastes.
ClipboardIsSetForEnigo == stage = "enigo" => clip = Mine
=============================================================================
