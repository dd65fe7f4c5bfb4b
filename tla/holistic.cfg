SPECIFICATION Spec
CONSTANTS
  python = python
  sql = sql
  q1 = q1
  q2 = q2
  NoId = NoId
  none = none
  Specs <- MCSpecs
  Priority <- MCPriority
  Weight <- MCWeight
  ViolationGate = 1
  Ids <- MCIds
  SkillOf <- MCSkillOf
  Behavioural <- MCBehavioural
  LegacySkill = sql
  Judgements <- MCJudgements
  SectionScores <- MCSectionScores
  Recordable <- MCRecordable
  MaxAnswers = 2
  MaxRecords = 4
INVARIANTS AnswersPaired ScoredOncePerCategory ViolationsNeverHelp GatesHold
CHECK_DEADLOCK FALSE
