SPECIFICATION Spec
CONSTANTS
  python = python
  sql = sql
  t1 = t1
  t2 = t2
  t3 = t3
  c1 = c1
  c2 = c2
  NoSkill = NoSkill
  Skills <- MCSkills
  Plan <- MCPlan
  OnResume <- MCOnResume
  Texts <- MCTexts
  Concepts <- MCConcepts
  RoleLevel = 2
  MaxQuestions = 5
SYMMETRY TextSymmetry
INVARIANT DifficultyFloor
PROPERTIES GeneratorKeepsPlan ProbesAreSingle DifficultyAdapts NeverRepeats
CHECK_DEADLOCK FALSE
