\* Writers, a compactor that may die, a disk that fills, and a cached reader.
CONSTANTS
  KeepRecent = 2
  MaxEvents = 5
  MaxCompactions = 2
  OthersWrite = TRUE
  DiskFills = TRUE
  MayCrash = TRUE
SPECIFICATION Spec
INVARIANTS
  TypeOK
  OrderPreserved
  NothingLost
  MovedNotCopied
  CacheHitIsFresh
CHECK_DEADLOCK FALSE
