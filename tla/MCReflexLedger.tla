-------------------------- MODULE MCReflexLedger --------------------------
(* Instances of ReflexLedger for TLC: two reflexes. *)
EXTENDS ReflexLedger

MCPatterns == {"greet", "help"}
===========================================================================
