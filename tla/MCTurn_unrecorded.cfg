\* The same, for the failures that no ledger has.
CONSTANTS
  Answers <- MCAnswers
  ReflexActions <- MCReflexActions
  AllowList <- MCAllowList
SPECIFICATION TurnSpec
INVARIANT FailureRegistered
