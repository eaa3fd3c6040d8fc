-------------------------- MODULE MCAcousticBridge --------------------------
(* Instances of AcousticBridge for TLC.                                      *)
EXTENDS AcousticBridge
=============================================================================
