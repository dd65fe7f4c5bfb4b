SPECIFICATION FairSpec
CONSTANTS
  NSections = 3
  Kind <- ShortPlan
  Allotted <- ShortBudgets
  Total = 8
  Threshold = 1
  Grace = 3
  Rescue = 2
  MaxClock = 12
  MaxTurns = 4
  MaxFailures = 0
CHECK_DEADLOCK FALSE
INVARIANTS
  TypeOK
  SilencePatience
  EvaluationSeesEverything
PROPERTIES
  LeftoverConserved
  WatchdogAgreement
  InterviewCompletes
