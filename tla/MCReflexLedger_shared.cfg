\* Orders given while another process, which may die, compacts the file, on a
\* disk that fills.
CONSTANTS
  KeepRecent = 2
  MaxEvents = 5
  MaxCompactions = 2
  OthersWrite = TRUE
  DiskFills = TRUE
  MayCrash = TRUE
  Patterns <- MCPatterns
SPECIFICATION ReflexSpec
INVARIANTS
  LastOrderWins
  ActivationWasOrdered
PROPERTY ImplementsRegistry
CHECK_DEADLOCK FALSE
