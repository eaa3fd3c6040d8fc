-------------------------- MODULE MCSkillPipeline --------------------------
(* Instances of SkillPipeline for TLC: one proposal calls eval, and the      *)
(* operator can repair it; the other needs pypdf and replaces a shipped skill. *)
EXTENDS SkillPipeline

CONSTANTS clean, critical, older

MCCandidates == {"reader", "solver"}
MCTexts == {clean, critical, older}
MCAnswers ==
  {[candidate |-> c, fenced |-> FALSE, functions |-> 1] : c \in MCCandidates}
    \cup {[candidate |-> "solver", fenced |-> f, functions |-> n] : f \in BOOLEAN, n \in {0, 2}}
MCProposal == [c \in MCCandidates |-> IF c = "solver" THEN critical ELSE clean]
MCShipped == [c \in MCCandidates |-> IF c = "reader" THEN older ELSE "absent"]
============================================================================
