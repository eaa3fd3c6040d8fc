\* Nine answers, two approved reflexes, two skills allowed.
CONSTANTS
  Answers <- MCAnswers
  ReflexActions <- MCReflexActions
  AllowList <- MCAllowList
SPECIFICATION TurnSpec
INVARIANTS
  TurnTypeOK
  ActsOnRecord
  EffectsAccounted
