-------------------------- MODULE MCReflexRouting --------------------------
(* Instances of ReflexRouting for TLC: a certified reflex without risk  *)
(* and one of low risk.                                                     *)
EXTENDS ReflexRouting

MCPatterns == {"greet", "math"}
MCRisk == [p \in MCPatterns |-> IF p = "greet" THEN 0 ELSE 5]
MCCertified == {"greet"}

OnePattern == {"math"}
OneRisk == [p \in OnePattern |-> 5]
NoneCertified == {}
=============================================================================
