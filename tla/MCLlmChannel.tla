--------------------------- MODULE MCLlmChannel ---------------------------
(* Instances of LlmChannel for TLC. *)
EXTENDS LlmChannel

CONSTANTS console, spark, genesis
===========================================================================
