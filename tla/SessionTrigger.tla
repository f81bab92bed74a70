--------------------------- MODULE SessionTrigger ---------------------------
(***************************************************************************)
(* What the trigger promises to those who listen to it, whether it is the  *)
(* VAD or the hotkey: of one trigger, starts and ends of speech alternate, *)
(* beginning with a start, through a channel that has room for so many     *)
(* events.  A trigger may be lost at any time, with the end it still owes. *)
(* Then there is none, or a new one, which begins with a start again.      *)
(***************************************************************************)
EXTENDS Naturals

CONSTANT Capacity   \* of the channel

VARIABLES
    trigger,    \* "quiet", in "speech", or "dead"
    waiting     \* how many events are in the channel

Init == trigger = "quiet" /\ waiting = 0

SpeechStart ==
    /\ trigger = "quiet"
    /\ waiting < Capacity
    /\ trigger' = "speech"
    /\ waiting' = waiting + 1

SpeechEnd ==
    /\ trigger = "speech"
    /\ waiting < Capacity
    /\ trigger' = "quiet"
    /\ waiting' = waiting + 1

Taken ==
    /\ waiting > 0
    /\ waiting' = waiting - 1
    /\ UNCHANGED trigger

Lost ==
    /\ trigger' \in {"quiet", "dead"}
    /\ UNCHANGED waiting

Next == SpeechStart \/ SpeechEnd \/ Taken \/ Lost

Spec == Init /\ [][Next]_<<trigger, waiting>>
=============================================================================
