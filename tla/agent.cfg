SPECIFICATION FairSpec
CONSTANTS
  Packets = {p1}
  MaxQuestions = 1
  MaxSpeech = 2
  MaxFailures = 1
CHECK_DEADLOCK FALSE
INVARIANTS
  TypeOK
  LockMatchesRuns
  EnforcedStaysTerminated
  CompletedOnce
PROPERTIES
  TerminatedIsEvaluated
  EndedIsFinalized
