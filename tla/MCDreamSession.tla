-------------------------- MODULE MCDreamSession --------------------------
(* Instances of DreamSession for TLC: a topic with two states of evidence. *)
EXTENDS DreamSession

CONSTANT dream

MCCallers == {dream}
MCEvidence == {"quiet", "failing"}
MCAutoTopic == [e \in MCEvidence |-> "missing_pdf"]
MCLocalOptions == [e \in MCEvidence |-> IF e = "quiet" THEN {} ELSE {"timeouts"}]
MCFocusRing == <<"quorum", "hygiene">>
MCFileFoci == {}

\* The recommended nightly command, one without the LLM that rotates over its
\* foci, and one that goes back to the LLM whatever failed before.
Nightly == [llmEnabled |-> TRUE, preflight |-> TRUE, localOnlyOnFailure |-> TRUE,
            continueOnSuppress |-> FALSE, continueOnNoEvidence |-> FALSE,
            maxRepetitions |-> 3]

MCFlagChoices ==
  {Nightly,
   [Nightly EXCEPT !.llmEnabled = FALSE, !.continueOnNoEvidence = TRUE,
                   !.maxRepetitions = 2],
   [Nightly EXCEPT !.localOnlyOnFailure = FALSE, !.preflight = FALSE,
                   !.continueOnSuppress = TRUE]}
===========================================================================
