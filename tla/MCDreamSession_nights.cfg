\* Two sessions over the same ledgers, interrupted anywhere.
CONSTANTS
  dream = dream
  Dreamer = dream
  Callers <- MCCallers
  ConfigDenied = {}
  PreflightCallers <- MCCallers
  Cancellable = {}
  BreakerEnabled = TRUE
  MaxFailures = 1
  Cooldown = 0
  MaxRetries = 1
  FailureCap = 1
  Evidence <- MCEvidence
  AutoTopic <- MCAutoTopic
  LocalOptions <- MCLocalOptions
  FocusRing <- MCFocusRing
  FileFoci <- MCFileFoci
  FlagChoices <- MCFlagChoices
  MaxCycles = 3
  MaxLlmFailures = 2
  MaxRepetitions = 3
  MaxOptions = 1
  MaxDepth = 1
  KeepRecent = 3
  MaxSessions = 2
SPECIFICATION DreamSpec
INVARIANTS
  DreamTypeOK
  GivesUpOnLlm
  RepetitionLimit
  LadderClimbed
  FailedNotAskedAgain
PROPERTY SessionEnds
CHECK_DEADLOCK FALSE
