--------------------------- MODULE MCSttPipeline ---------------------------
(* Small instances of SttPipeline for TLC: every parameter is a number or  *)
(* a Boolean, which the configurations give.                               *)
EXTENDS SttPipeline
=============================================================================
