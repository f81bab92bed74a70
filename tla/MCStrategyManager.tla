-------------------------- MODULE MCStrategyManager --------------------------
(* Small instances of StrategyManager for TLC: the configurations give     *)
(* every parameter its value.                                              *)
EXTENDS StrategyManager
=============================================================================
