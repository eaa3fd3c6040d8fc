\* Spark has the same doubt again and again.
CONSTANTS
  Cooldown = 1
  DamageLimit = 6
  MaxTurns = 0
  MaxDoubts = 4
SPECIFICATION LoopSpec
PROPERTY FatigueSuppresses
CHECK_DEADLOCK FALSE
