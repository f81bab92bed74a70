---------------------------- MODULE MCInjectors -----------------------------
(* Injectors for TLC: every caller, two texts, one copy of the user's. *)
EXTENDS Injectors

CallersDef == AllCallers
=============================================================================
