SPECIFICATION FairSpec
CONSTANTS
  MaxRetries = 2
  FallbackKey = TRUE
  MaxFaults <- EveryFault
  MaxQueued = 2
  MaxTurns = 2
CHECK_DEADLOCK FALSE
INVARIANTS
  TypeOK
  EvaluatedOnce
  FailedIsUnevaluated
PROPERTIES
  QueuedIsDecided
