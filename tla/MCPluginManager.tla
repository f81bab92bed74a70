-------------------------- MODULE MCPluginManager --------------------------
(* Small instances of PluginManager for TLC. *)
EXTENDS PluginManager

CONSTANTS p1, p2, p3

\* Every plugin is a fallback, the preferred one first.
AllInOrder == <<p1, p2, p3>>
TwoInOrder == <<p1, p2>>
OnlyOne    == <<p1>>

Background == {"gc task"}
Callers    == {"gc caller"}
Nobody     == {}
=============================================================================
