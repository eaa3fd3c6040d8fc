\* The interactive process: the console task, Spark's task and a third query, which
\* may also probe the host, behind a breaker that opens at the second failure.
CONSTANTS
  console = console
  spark = spark
  genesis = genesis
  Callers = {console, spark, genesis}
  ConfigDenied = {}
  PreflightCallers = {genesis}
  Cancellable = {spark}
  BreakerEnabled = TRUE
  MaxFailures = 2
  Cooldown = 1
  MaxRetries = 1
  FailureCap = 2
SPECIFICATION FairSpec
INVARIANTS
  TypeOK
  PermitAccounting
  QueueMatchesTasks
  RetryBudget
  BreakerConsistent
  StaleDrainBound
PROPERTIES
  ServesInOrder
  EveryCallEnds
  BreakerRecovers
