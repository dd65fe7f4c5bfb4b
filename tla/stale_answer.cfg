SPECIFICATION Spec
CONSTANTS
  Packets = {p1}
  MaxQuestions = 1
  MaxSpeech = 2
  MaxFailures = 0
CHECK_DEADLOCK FALSE
INVARIANTS
  AnswersMeetTheirQuestion
