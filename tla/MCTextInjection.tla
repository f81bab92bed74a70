-------------------------- MODULE MCTextInjection --------------------------
(* Small instances of TextInjection for TLC: the configurations give every *)
(* parameter its value.                                                    *)
EXTENDS TextInjection
=============================================================================
