SPECIFICATION Spec
CONSTANTS
  NSections = 3
  Kind <- ShortPlan
  Allotted <- ShortBudgets
  Total = 8
  Threshold = 1
  Grace = 3
  Rescue = 2
  MaxClock = 12
  MaxTurns = 2
  MaxFailures = 2
CHECK_DEADLOCK FALSE
INVARIANTS
  CompletedAfterEvaluation
