---------------------------- MODULE MCHumanLoop ----------------------------
(* Instances of HumanLoop for TLC; the bounds are in the .cfg files. *)
EXTENDS HumanLoop
============================================================================
