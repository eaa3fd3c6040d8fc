\* Console turns and Spark's doubts side by side, until the user quits.
CONSTANTS
  Cooldown = 1
  DamageLimit = 3
  MaxTurns = 2
  MaxDoubts = 2
SPECIFICATION LoopSpec
INVARIANTS
  LoopTypeOK
  DialogAwaited
  FirstSignalWins
  FeedbackWasRequested
PROPERTIES
  DoubtsSpaced
  ShutdownCompletes
CHECK_DEADLOCK FALSE
