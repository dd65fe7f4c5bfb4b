SPECIFICATION FairSpec
CONSTANTS
  NSections = 3
  Kind <- ShortPlan
  Allotted <- ShorterBudgets
  Total = 5
  Threshold = 1
  Grace = 3
  Rescue = 2
  MaxClock = 8
  MaxTurns = 3
  MaxFailures = 2
CHECK_DEADLOCK FALSE
INVARIANTS
  WaitsOpen
  CandidateTurnsDistinct
PROPERTIES
  ImplementsLifecycle
  ClosingIsFinal
  ClosingCompletes
