---------------------- MODULE AdaptiveQuestionsProofs ----------------------
(***************************************************************************)
(* Proofs about AdaptiveQuestions, for every plan of sections, resume,     *)
(* role and stock of questions, and any number of questions asked.         *)
(***************************************************************************)
EXTENDS AdaptiveQuestions, TLAPS

Level == 1 .. 3
Sections == 1 .. Len(Plan)
AllTexts == Texts \union {Concepts[i] : i \in 1 .. Len(Concepts)}

Types ==
  /\ section \in 0 .. Len(Plan) /\ pending \in 0 .. Len(Plan)
  /\ stage \in {"await", "generate"}
  /\ difficulty \in 0 .. 3 /\ probe \in BOOLEAN /\ thread \in BOOLEAN
  /\ streaks \in [Skills -> [Strength -> Nat]]
  /\ evaluation \in Strength \union {"none"}
  /\ planned \in Planned /\ count \in Nat

\* What a waiting and a generating workflow have in common with their history.
Flow ==
  /\ stage = "await" => pending = 0 /\ evaluation = "none" /\ planned = NoPlan
  /\ stage = "generate" => pending # 0 \/ section # 0 \/ Plan # <<>>
  /\ pending # 0 => section < pending

\* A probe was earned by the first of the weak answers in a row: while it is
\* the last question, the next weak answer is at least the second.
ProbeEarned ==
  probe => /\ Technical(section)
           /\ stage = "await" => streaks[SkillOf(section)]["weak"] >= 1
           /\ stage = "generate" /\ evaluation = "weak"
                => streaks[SkillOf(section)]["weak"] >= 2

\* What was planned is what the generator will determine.
PlanHolds ==
  stage = "generate" /\ planned # NoPlan /\ planned.kind # "thread" =>
    /\ Technical(Target)
    /\ planned = DetermineQuestionDifficulty(SkillOf(Target), Entering(Target))

\* A prepared question that was asked is also recorded as a topic.
Recorded ==
  /\ asked \in [AllSkills -> SUBSET AllTexts]
  /\ topics \in [AllSkills -> SUBSET AllTexts]
  /\ \A k \in Skills, i \in 1 .. Len(Concepts) :
       Concepts[i] \in asked[k] => Concepts[i] \in topics[k]

IInv ==
  /\ Types /\ Flow /\ DifficultyFloor /\ ProbeEarned /\ PlanHolds /\ Recorded

-----------------------------------------------------------------------------
\* Operators.

\* The plan has a length and every section that is planned has a skill, or
\* none.
LEMMA PlanFacts ==
  /\ Len(Plan) \in Nat /\ (Plan # <<>> => Len(Plan) > 0)
  /\ \A i \in 1 .. Len(Plan) : Plan[i] \in Skills \union {NoSkill}
  /\ \A i \in 0 .. Len(Plan) : Technical(i) => SkillOf(i) \in Skills
  /\ \A i \in 0 .. Len(Plan) : SkillOf(i) \in AllSkills
<1> QED
  BY PlanAssumption DEF Technical, SkillOf, AllSkills

\* One level up or down, within the levels.
LEMMA StepFacts ==
  ASSUME NEW d \in Level
  PROVE  /\ OneStep(d, 1) \in Level /\ OneStep(d, -1) \in Level
         /\ OneStep(d, 1) = d + 1 \/ (d = 3 /\ OneStep(d, 1) = 3)
         /\ OneStep(d, -1) = d - 1 \/ (d = 1 /\ OneStep(d, -1) = 1)
<1> QED
  BY DEF OneStep, Level

\* The floor lifts the easy level of a skill on the resume, and nothing else.
LEMMA FloorFacts ==
  ASSUME NEW skill, NEW d \in Level
  PROVE  /\ Floor(skill, d) \in Level
         /\ skill \in OnResume => Floor(skill, d) # 1
         /\ (skill \notin OnResume \/ d # 1) => Floor(skill, d) = d
         /\ d = 1 => Floor(skill, d) \in {1, 2}
<1> QED
  BY DEF Floor, Level

\* What both strategies say on entering a section.
LEMMA EnteringFacts ==
  ASSUME NEW skill, NEW entering \in BOOLEAN, NEW s \in Strength,
         NEW concrete \in BOOLEAN, entering \/ difficulty = 0
  PROVE  /\ DifficultyPlan(skill, entering, concrete)[s] = Opening(skill)
         /\ DetermineQuestionDifficulty(skill, entering) = Opening(skill)
<1> QED
  BY DEF DifficultyPlan, DetermineQuestionDifficulty

\* The first question of a section is at a level, above the floor.
LEMMA OpeningFacts ==
  ASSUME NEW skill
  PROVE  /\ Opening(skill) \in Planned
         /\ Opening(skill).difficulty \in Level
         /\ Opening(skill).kind = "plain"
         /\ skill \in OnResume => Opening(skill).difficulty # 1
<1>1. RoleLevel \in Level /\ Floor(skill, RoleLevel) \in Level
        /\ (skill \in OnResume => Floor(skill, RoleLevel) # 1)
  BY PlanAssumption, FloorFacts DEF Level
<1> QED
  BY <1>1 DEF Planned, Level, Opening

\* The plan for an answer within a section.
LEMMA PlanWithin ==
  ASSUME NEW skill, difficulty \in Level, NEW concrete \in BOOLEAN,
         streaks[skill] \in [Strength -> Nat],
         NEW p, p = DifficultyPlan(skill, FALSE, concrete)
  PROVE  /\ p["weak"] =
              [difficulty |-> Floor(skill, OneStep(difficulty, -1)),
               kind |-> IF streaks[skill]["weak"] = 0 THEN "probe" ELSE "plain"]
         /\ p["adequate"] =
              [difficulty |-> Floor(skill, IF streaks[skill]["adequate"] >= 1
                                           THEN OneStep(difficulty, 1)
                                           ELSE difficulty),
               kind |-> "plain"]
         /\ p["strong"] =
              IF ~thread /\ concrete
              THEN [difficulty |-> difficulty, kind |-> "thread"]
              ELSE [difficulty |-> Floor(skill, OneStep(difficulty, 1)),
                    kind |-> "plain"]
<1>1. difficulty # 0 /\ streaks[skill]["weak"] \in Nat
        /\ streaks[skill]["adequate"] \in Nat
  BY DEF Level, Strength
<1>2. (streaks[skill].weak + 1 = 1) = (streaks[skill]["weak"] = 0)
      /\ (streaks[skill].adequate + 1 >= 2) = (streaks[skill]["adequate"] >= 1)
  BY <1>1
<1> QED
  BY <1>1, <1>2 DEF DifficultyPlan

\* What is determined within a section.
LEMMA DetermineWithin ==
  ASSUME NEW skill, difficulty \in Level, NEW p,
         p = DetermineQuestionDifficulty(skill, FALSE)
  PROVE  p = [difficulty |-> Floor(skill,
                IF evaluation = "weak" THEN OneStep(difficulty, -1)
                ELSE IF \/ evaluation = "strong"
                        \/ /\ evaluation = "adequate"
                           /\ streaks[skill]["adequate"] >= 2
                     THEN OneStep(difficulty, 1) ELSE difficulty),
              kind |-> IF evaluation = "weak" /\ streaks[skill]["weak"] = 1
                       THEN "probe" ELSE "plain"]
<1> QED
  BY DEF Level, DetermineQuestionDifficulty

\* The streaks of a skill with one more rating.
LEMMA StreakFacts ==
  ASSUME Types, NEW skill \in Skills, NEW s \in Strength,
         NEW t, t = StreaksAfter(skill, s)
  PROVE  /\ t \in [Skills -> [Strength -> Nat]]
         /\ t[skill][s] = streaks[skill][s] + 1
         /\ \A r \in Strength : r # s => t[skill][r] = 0
<1>1. streaks[skill] \in [Strength -> Nat]
  BY DEF Types
<1>2. streaks[skill][s] + 1 \in Nat
  BY <1>1
<1>3. [NoStreak EXCEPT ![s] = streaks[skill][s] + 1] \in [Strength -> Nat]
  BY <1>2 DEF NoStreak
<1> QED
  BY <1>2, <1>3 DEF Types, StreaksAfter, NoStreak

\* What is planned for a technical section that is entered or continued, where
\* the streaks counted before and after the answer are known.
LEMMA PlanIsDetermined ==
  ASSUME IInv, NEW target \in Sections, Technical(target), stage = "await",
         NEW s \in Strength, NEW concrete \in BOOLEAN,
         NEW entering \in BOOLEAN, ~entering => target = section,
         NEW next, next = DifficultyPlan(SkillOf(target), entering, concrete)[s]
  PROVE  /\ next \in Planned /\ next.difficulty \in Level
         /\ SkillOf(target) \in OnResume => next.difficulty # 1
         /\ next.kind = "thread" => ~entering /\ s = "strong"
         /\ next.kind = "probe" => ~entering /\ s = "weak"
                                   /\ streaks[SkillOf(target)]["weak"] = 0
<1>1. CASE entering
  <2>1. next = Opening(SkillOf(target))
    BY <1>1, EnteringFacts
  <2> QED
    BY <2>1, OpeningFacts
<1>2. CASE ~entering
  <2> DEFINE skill == SkillOf(target)
  <2>1. target = section /\ skill \in Skills /\ difficulty \in Level
          /\ (skill \in OnResume => difficulty # 1)
    BY <1>2, PlanFacts DEF IInv, DifficultyFloor, Level, Sections
  <2>2. streaks[skill] \in [Strength -> Nat]
    BY <2>1 DEF IInv, Types
  <2>3. /\ OneStep(difficulty, 1) \in Level /\ OneStep(difficulty, -1) \in Level
    BY <2>1, StepFacts
  <2>4. \A d \in Level : /\ Floor(skill, d) \in Level
                         /\ skill \in OnResume => Floor(skill, d) # 1
    BY FloorFacts
  <2>5. entering = FALSE
    BY <1>2
  <2>6. next = DifficultyPlan(skill, FALSE, concrete)[s]
    BY <2>5
  <2>7. CASE s = "weak"
    <3>1. next = [difficulty |-> Floor(skill, OneStep(difficulty, -1)),
                  kind |-> IF streaks[skill]["weak"] = 0 THEN "probe"
                                                         ELSE "plain"]
      BY <2>1, <2>2, <2>6, <2>7, PlanWithin
    <3> QED
      BY <1>2, <2>3, <2>4, <2>7, <3>1 DEF Planned, Level
  <2>8. CASE s = "adequate"
    <3>1. next = [difficulty |-> Floor(skill,
                    IF streaks[skill]["adequate"] >= 1
                    THEN OneStep(difficulty, 1) ELSE difficulty),
                  kind |-> "plain"]
      BY <2>1, <2>2, <2>6, <2>8, PlanWithin
    <3> QED
      BY <1>2, <2>1, <2>3, <2>4, <2>8, <3>1 DEF Planned, Level
  <2>9. CASE s = "strong"
    <3>1. next = IF ~thread /\ concrete
                 THEN [difficulty |-> difficulty, kind |-> "thread"]
                 ELSE [difficulty |-> Floor(skill, OneStep(difficulty, 1)),
                       kind |-> "plain"]
      BY <2>1, <2>2, <2>6, <2>9, PlanWithin
    <3> QED
      BY <1>2, <2>1, <2>3, <2>4, <2>9, <3>1 DEF Planned, Level
  <2> QED
    BY <2>7, <2>8, <2>9 DEF Strength
<1> QED
  BY <1>1, <1>2

\* What is determined for a technical section.
LEMMA DeterminedFacts ==
  ASSUME IInv, NEW target \in Sections, Technical(target),
         NEW entering \in BOOLEAN, ~entering => target = section,
         NEW next,
         next = DetermineQuestionDifficulty(SkillOf(target), entering)
  PROVE  /\ next \in Planned /\ next.difficulty \in Level
         /\ SkillOf(target) \in OnResume => next.difficulty # 1
         /\ next.kind # "thread"
         /\ next.kind = "probe" => ~entering /\ evaluation = "weak"
                                   /\ streaks[SkillOf(target)]["weak"] = 1
<1>1. CASE entering
  <2>1. next = Opening(SkillOf(target))
    BY <1>1, EnteringFacts DEF Strength
  <2> QED
    BY <2>1, OpeningFacts
<1>2. CASE ~entering
  <2> DEFINE skill == SkillOf(target)
  <2>1. target = section /\ difficulty \in Level
    BY <1>2 DEF IInv, DifficultyFloor, Level
  <2>2. /\ OneStep(difficulty, 1) \in Level /\ OneStep(difficulty, -1) \in Level
    BY <2>1, StepFacts
  <2>3. \A d \in Level : /\ Floor(skill, d) \in Level
                         /\ skill \in OnResume => Floor(skill, d) # 1
    BY FloorFacts
  <2>4. entering = FALSE
    BY <1>2
  <2>5. next = DetermineQuestionDifficulty(skill, FALSE)
    BY <2>4
  <2>6. PICK d \in Level :
          next = [difficulty |-> Floor(skill, d),
                  kind |-> IF evaluation = "weak" /\ streaks[skill]["weak"] = 1
                           THEN "probe" ELSE "plain"]
    BY <2>1, <2>2, <2>5, DetermineWithin
  <2> QED
    BY <1>2, <2>3, <2>6 DEF Planned, Level
<1> QED
  BY <1>1, <1>2

-----------------------------------------------------------------------------
\* How the difficulty moves within a section.
Moves(next, s) ==
  /\ next.difficulty - difficulty \in {-1, 0, 1}
  /\ next.difficulty < difficulty => s = "weak"
  /\ next.difficulty > difficulty => s \in {"strong", "adequate"}
  /\ s = "strong" => \/ next.difficulty > difficulty \/ difficulty = 3
                     \/ next.kind = "thread" /\ ~thread
  /\ next.kind = "thread" => next.difficulty = difficulty

\* The floored neighbours of a difficulty that has the floor already.
LEMMA LevelFacts ==
  ASSUME DifficultyFloor, Technical(section), NEW skill,
         skill = SkillOf(section), NEW d, NEW e, NEW f,
         d = Floor(skill, OneStep(difficulty, -1)),
         e = Floor(skill, difficulty),
         f = Floor(skill, OneStep(difficulty, 1))
  PROVE  /\ difficulty \in Level
         /\ d = difficulty \/ d = difficulty - 1
         /\ e = difficulty
         /\ f = difficulty + 1 \/ (f = difficulty /\ difficulty = 3)
<1> QED
  BY DEF DifficultyFloor, Floor, OneStep, Level

\* The plan for an answer moves the difficulty by its rating.
LEMMA PlanMoves ==
  ASSUME IInv, Technical(section), NEW s \in Strength, NEW concrete \in BOOLEAN,
         NEW entering \in BOOLEAN, ~entering,
         NEW next, next = DifficultyPlan(SkillOf(section), entering, concrete)[s]
  PROVE  Moves(next, s)
<1> DEFINE skill == SkillOf(section)
<1>0. next = DifficultyPlan(skill, FALSE, concrete)[s]
  <2>1. entering = FALSE
    OBVIOUS
  <2> QED
    BY <2>1
<1>1. PICK d, e, f : /\ d = Floor(skill, OneStep(difficulty, -1))
                     /\ e = Floor(skill, difficulty)
                     /\ f = Floor(skill, OneStep(difficulty, 1))
  OBVIOUS
<1>2. /\ difficulty \in Level
      /\ d = difficulty \/ d = difficulty - 1
      /\ e = difficulty
      /\ f = difficulty + 1 \/ (f = difficulty /\ difficulty = 3)
  BY <1>1, LevelFacts DEF IInv
<1>3. streaks[skill] \in [Strength -> Nat]
  BY PlanFacts DEF IInv, Types
<1>4. CASE s = "weak"
  <2>1. next = [difficulty |-> d,
                kind |-> IF streaks[skill]["weak"] = 0 THEN "probe"
                                                       ELSE "plain"]
    BY <1>0, <1>1, <1>2, <1>3, <1>4, PlanWithin
  <2>2. next.difficulty = d /\ next.kind # "thread"
    BY <2>1
  <2> QED
    BY <1>2, <1>4, <2>2 DEF Moves, Level
<1>5. CASE s = "adequate"
  <2>1. next = [difficulty |-> Floor(skill,
                  IF streaks[skill]["adequate"] >= 1
                  THEN OneStep(difficulty, 1) ELSE difficulty),
                kind |-> "plain"]
    BY <1>0, <1>2, <1>3, <1>5, PlanWithin
  <2>2. (next.difficulty = e \/ next.difficulty = f) /\ next.kind # "thread"
    BY <1>1, <2>1
  <2> QED
    BY <1>2, <1>5, <2>2 DEF Moves, Level
<1>6. CASE s = "strong"
  <2>1. next = IF ~thread /\ concrete
               THEN [difficulty |-> difficulty, kind |-> "thread"]
               ELSE [difficulty |-> f, kind |-> "plain"]
    BY <1>0, <1>1, <1>2, <1>3, <1>6, PlanWithin
  <2>2. \/ next.difficulty = f /\ next.kind # "thread"
        \/ next.difficulty = difficulty /\ next.kind = "thread" /\ ~thread
    BY <2>1
  <2> QED
    BY <1>2, <1>6, <2>2 DEF Moves, Level
<1> QED
  BY <1>4, <1>5, <1>6 DEF Strength

\* So does what the generator determines.
LEMMA DeterminedMoves ==
  ASSUME IInv, Technical(section), NEW next, NEW entering \in BOOLEAN, ~entering,
         next = DetermineQuestionDifficulty(SkillOf(section), entering)
  PROVE  Moves(next, evaluation)
<1> DEFINE skill == SkillOf(section)
<1>0. next = DetermineQuestionDifficulty(skill, FALSE)
  <2>1. entering = FALSE
    OBVIOUS
  <2> QED
    BY <2>1
<1>1. PICK d, e, f : /\ d = Floor(skill, OneStep(difficulty, -1))
                     /\ e = Floor(skill, difficulty)
                     /\ f = Floor(skill, OneStep(difficulty, 1))
  OBVIOUS
<1>2. /\ difficulty \in Level
      /\ d = difficulty \/ d = difficulty - 1
      /\ e = difficulty
      /\ f = difficulty + 1 \/ (f = difficulty /\ difficulty = 3)
  BY <1>1, LevelFacts DEF IInv
<1>3. next = [difficulty |-> Floor(skill,
                IF evaluation = "weak" THEN OneStep(difficulty, -1)
                ELSE IF \/ evaluation = "strong"
                        \/ /\ evaluation = "adequate"
                           /\ streaks[skill]["adequate"] >= 2
                     THEN OneStep(difficulty, 1) ELSE difficulty),
              kind |-> IF evaluation = "weak" /\ streaks[skill]["weak"] = 1
                       THEN "probe" ELSE "plain"]
  BY <1>0, <1>2, DetermineWithin
<1>4. /\ evaluation = "weak" => next.difficulty = d
      /\ evaluation = "strong" => next.difficulty = f
      /\ evaluation = "adequate" => next.difficulty = e \/ next.difficulty = f
      /\ evaluation = "none" => next.difficulty = e
      /\ next.kind # "thread"
  BY <1>1, <1>3
<1>5. evaluation \in {"weak", "adequate", "strong", "none"}
  BY DEF IInv, Types, Strength
<1> QED
  BY <1>2, <1>4, <1>5 DEF Moves, Level

-----------------------------------------------------------------------------
\* The action properties, as what a step does.
ProbeStep == Asks /\ probe' => ~probe /\ RatedAs("weak") /\ section' = section

AdaptStep ==
  Asks /\ section' = section /\ Technical(section) =>
    /\ difficulty' - difficulty \in {-1, 0, 1}
    /\ difficulty' < difficulty => RatedAs("weak")
    /\ difficulty' > difficulty => RatedAs("strong") \/ RatedAs("adequate")
    /\ RatedAs("strong") => \/ difficulty' > difficulty \/ difficulty = 3
                            \/ thread' /\ ~thread

RepeatStep ==
  Asks => \/ question'.text \notin asked[question'.skill]
          \/ \A i \in 1 .. Len(Concepts) :
               Concepts[i] \in topics[question'.skill]

\* A question within a section that moves the difficulty adapts it.
LEMMA AdaptFacts ==
  ASSUME IInv, NEW next \in Planned, NEW s \in Strength \union {"none"},
         NEW text, NEW topic, NEW entering \in BOOLEAN, ~entering,
         Moves(next, s), Technical(section),
         ApplyResolvedQuestion(Question(section, entering, text, topic), next),
         \A r \in Strength : RatedAs(r) = (r = s)
  PROVE  AdaptStep
<1>1. /\ difficulty' = IF next.kind = "thread" /\ difficulty # 0
                       THEN difficulty ELSE next.difficulty
      /\ thread' = (next.kind = "thread")
  BY DEF ApplyResolvedQuestion, Question
<1>2. /\ RatedAs("weak") = ("weak" = s)
      /\ RatedAs("strong") = ("strong" = s)
      /\ RatedAs("adequate") = ("adequate" = s)
  BY DEF Strength
<1>3. difficulty' = next.difficulty
  BY <1>1 DEF Moves
<1> QED
  BY <1>1, <1>2, <1>3 DEF AdaptStep, Moves

\* A rating that is recorded is the one that was given.
LEMMA RatedFacts ==
  ASSUME IInv, stage = "await", NEW skill \in Skills, NEW s \in Strength,
         streaks' = StreaksAfter(skill, s), NEW r \in Strength
  PROVE  RatedAs(r) = (r = s)
<1>1. /\ streaks'[skill][s] = streaks[skill][s] + 1
      /\ \A q \in Strength : q # s => streaks'[skill][q] = 0
      /\ \A k \in Skills : streaks[k] \in [Strength -> Nat]
      /\ \A k \in Skills \ {skill} : streaks'[k] = streaks[k]
  <2>1. Types
    BY DEF IInv
  <2>2. /\ streaks'[skill][s] = streaks[skill][s] + 1
        /\ \A q \in Strength : q # s => streaks'[skill][q] = 0
    BY <2>1, StreakFacts
  <2>3. \A k \in Skills : streaks[k] \in [Strength -> Nat]
    BY <2>1 DEF Types
  <2>4. \A k \in Skills \ {skill} : streaks'[k] = streaks[k]
    BY <2>1 DEF Types, StreaksAfter
  <2> QED
    BY <2>2, <2>3, <2>4
<1>2. RatedAs(r) = \E k \in Skills : streaks'[k][r] > streaks[k][r]
  BY DEF RatedAs
<1>3. CASE r = s
  <2>1. streaks'[skill][r] > streaks[skill][r]
    BY <1>1, <1>3
  <2> QED
    BY <1>2, <1>3, <2>1
<1>4. CASE r # s
  <2>1. \A k \in Skills : ~(streaks'[k][r] > streaks[k][r])
    <3>1. ASSUME NEW k \in Skills
          PROVE  ~(streaks'[k][r] > streaks[k][r])
      <4>1. streaks[k][r] \in Nat
        BY <1>1
      <4>2. CASE k = skill
        BY <1>1, <1>4, <4>1, <4>2
      <4>3. CASE k # skill
        BY <1>1, <4>1, <4>3
      <4> QED
        BY <4>2, <4>3
    <3> QED
      BY <3>1
  <2> QED
    BY <1>2, <1>4, <2>1
<1> QED
  BY <1>3, <1>4

-----------------------------------------------------------------------------
\* Steps.

\* Asking a question keeps the invariant, whichever path it came by.
LEMMA AskKeeps ==
  ASSUME IInv, NEW target \in Sections, NEW entering \in BOOLEAN,
         NEW text \in AllTexts, NEW topic \in AllTexts, NEW next \in Planned,
         ApplyResolvedQuestion(Question(target, entering, text, topic), next),
         streaks' \in [Skills -> [Strength -> Nat]],
         text \in Texts \/ text = topic,
         Technical(target) =>
           /\ next.difficulty \in Level
           /\ SkillOf(target) \in OnResume => next.difficulty # 1,
         next.kind = "thread" => target = section,
         next.kind = "probe" => /\ Technical(target) /\ target = section
                                /\ streaks'[SkillOf(target)]["weak"] >= 1
                                /\ ~probe /\ RatedAs("weak"),
         target = section /\ Technical(section) =>
           /\ ~entering
           /\ \E s \in Strength \union {"none"} :
                /\ Moves(next, s)
                /\ \A r \in Strength : RatedAs(r) = (r = s),
         \/ text \notin asked[SkillOf(target)]
         \/ \A i \in 1 .. Len(Concepts) :
              Concepts[i] \in topics[SkillOf(target)]
  PROVE  IInv' /\ ProbeStep /\ AdaptStep /\ RepeatStep
<1> DEFINE skill == SkillOf(target)
<1>1. /\ asked' = [asked EXCEPT ![skill] = asked[skill] \union {text}]
      /\ topics' = [topics EXCEPT ![skill] = topics[skill] \union {topic}]
      /\ section' = target /\ pending' = 0 /\ stage' = "await"
      /\ difficulty' = IF next.kind = "thread" /\ ~entering /\ difficulty # 0
                       THEN difficulty ELSE next.difficulty
      /\ probe' = (next.kind = "probe")
      /\ thread' = (next.kind = "thread" /\ ~entering)
      /\ evaluation' = "none" /\ planned' = NoPlan /\ count' = count + 1
  BY DEF ApplyResolvedQuestion, Question
<1>2. skill \in AllSkills
  BY PlanFacts DEF Sections
<1>3. next.difficulty \in 0 .. 3 /\ NoPlan \in Planned
  BY DEF Planned, NoPlan
<1>4. Types'
  BY <1>1, <1>3, PlanFacts DEF IInv, Types, Sections
<1>5. Flow'
  BY <1>1 DEF Flow
<1>6. DifficultyFloor'
  BY <1>1 DEF IInv, DifficultyFloor, Level, Technical, SkillOf
<1>7. ProbeEarned'
  BY <1>1 DEF ProbeEarned, Technical, SkillOf
<1>8. PlanHolds'
  BY <1>1 DEF PlanHolds
<1>9. Recorded'
  <2>1. asked' \in [AllSkills -> SUBSET AllTexts]
        /\ topics' \in [AllSkills -> SUBSET AllTexts]
    BY <1>1, <1>2 DEF IInv, Recorded
  <2>2. ASSUME NEW k \in Skills, NEW i \in 1 .. Len(Concepts),
               Concepts[i] \in asked'[k]
        PROVE  Concepts[i] \in topics'[k]
    <3>1. k \in AllSkills
      BY DEF AllSkills
    <3>2. Concepts[i] \in asked[k] => Concepts[i] \in topics'[k]
      BY <1>1, <1>2, <3>1 DEF IInv, Recorded
    <3>3. CASE Concepts[i] \notin asked[k]
      <4>1. k = skill /\ Concepts[i] = text
        BY <1>1, <1>2, <2>2, <3>1, <3>3 DEF IInv, Recorded
      <4>2. text = topic
        BY <4>1, TextAssumption
      <4> QED
        BY <1>1, <1>2, <4>1, <4>2 DEF IInv, Recorded
    <3> QED
      BY <3>2, <3>3
  <2> QED
    BY <2>1, <2>2 DEF Recorded
<1>10. ProbeStep
  BY <1>1 DEF ProbeStep
<1>11. AdaptStep
  <2>1. CASE target = section /\ Technical(section)
    BY <2>1, AdaptFacts
  <2>2. CASE ~(target = section /\ Technical(section))
    BY <1>1, <2>2 DEF AdaptStep
  <2> QED
    BY <2>1, <2>2
<1>12. RepeatStep
  <2>1. question' = [skill |-> skill, text |-> text]
    BY DEF ApplyResolvedQuestion, Question
  <2>2. question'.text = text /\ question'.skill = skill
    BY <2>1
  <2> QED
    BY <2>2 DEF RepeatStep
<1> QED
  BY <1>4, <1>5, <1>6, <1>7, <1>8, <1>9, <1>10, <1>11, <1>12 DEF IInv

\* What happens when an answer leaves the question to the generator.
LEMMA LeaveKeeps ==
  ASSUME IInv, stage = "await", NEW target \in Sections,
         section <= target, section # 0 \/ target # section,
         NEW s \in Strength \union {"none"}, NEW next \in Planned,
         LeaveToGenerator(target, s, next),
         \/ /\ s = "none" /\ streaks' = streaks /\ ~Technical(section)
         \/ /\ s \in Strength /\ Technical(section)
            /\ streaks' = StreaksAfter(SkillOf(section), s),
         next # NoPlan /\ next.kind # "thread" =>
           /\ Technical(target)
           /\ next = DetermineQuestionDifficulty(SkillOf(target),
                                                 target # section)'
  PROVE  IInv'
<1>1. /\ stage' = "generate" /\ evaluation' = s /\ planned' = next
      /\ pending' = IF target = section THEN 0 ELSE target
      /\ section' = section /\ difficulty' = difficulty /\ probe' = probe
      /\ thread' = thread /\ asked' = asked /\ topics' = topics
      /\ question' = question /\ count' = count
  BY DEF LeaveToGenerator, record
<1>2. streaks' \in [Skills -> [Strength -> Nat]]
  BY PlanFacts, StreakFacts DEF IInv, Types
<1>3. Types'
  BY <1>1, <1>2 DEF IInv, Types, Sections
<1>4. Flow'
  BY <1>1, PlanFacts DEF IInv, Types, Flow, Sections
<1>5. DifficultyFloor'
  BY <1>1 DEF IInv, DifficultyFloor, Technical, SkillOf
<1>6. ProbeEarned'
  <2>1. ASSUME probe, s = "weak"
        PROVE  streaks'[SkillOf(section)]["weak"] >= 2
    <3>1. Technical(section) /\ streaks[SkillOf(section)]["weak"] >= 1
      BY <2>1 DEF IInv, ProbeEarned
    <3>2. SkillOf(section) \in Skills
      BY <3>1, PlanFacts DEF IInv, Types
    <3>3. streaks' = StreaksAfter(SkillOf(section), "weak")
      BY <2>1
    <3>4. "weak" \in Strength
      BY DEF Strength
    <3>5. streaks'[SkillOf(section)]["weak"]
            = streaks[SkillOf(section)]["weak"] + 1
      BY <3>2, <3>3, <3>4, StreakFacts DEF IInv
    <3>6. streaks[SkillOf(section)]["weak"] \in Nat
      BY <3>2, <3>4 DEF IInv, Types
    <3> QED
      BY <3>1, <3>5, <3>6
  <2> QED
    BY <1>1, <2>1 DEF IInv, ProbeEarned, Technical, SkillOf
<1>7. PlanHolds'
  <2>1. Target' = target
    BY <1>1, PlanFacts DEF Target, Sections, IInv, Types
  <2>2. Entering(target)' = (target # section)
    BY <1>1, PlanFacts DEF Entering, Sections
  <2> QED
    BY <1>1, <2>1, <2>2 DEF PlanHolds, Entering, Technical, SkillOf,
       DetermineQuestionDifficulty
<1>8. Recorded'
  BY <1>1 DEF IInv, Recorded
<1> QED
  BY <1>3, <1>4, <1>5, <1>6, <1>7, <1>8 DEF IInv

\* The plan for a rating is what is determined once the rating is recorded.
LEMMA PlanIsKept ==
  ASSUME IInv, stage = "await", NEW target \in Sections,
         Technical(section), Technical(target), NEW s \in Strength,
         NEW concrete \in BOOLEAN, NEW next,
         next = DifficultyPlan(SkillOf(target), target # section, concrete)[s],
         streaks' = StreaksAfter(SkillOf(section), s),
         evaluation' = s, difficulty' = difficulty, section' = section,
         next.kind # "thread"
  PROVE  next = DetermineQuestionDifficulty(SkillOf(target),
                                            target # section)'
<1> DEFINE skill == SkillOf(target)
           t == StreaksAfter(skill, s)
<1>1. CASE target # section
  <2>1. next = Opening(skill)
    BY <1>1, EnteringFacts
  <2> QED
    BY <1>1, <2>1 DEF DetermineQuestionDifficulty, Opening, SkillOf, Floor
<1>2. CASE target = section
  <2>1. /\ skill \in Skills /\ difficulty \in Level
        /\ streaks[skill] \in [Strength -> Nat]
        /\ streaks[skill]["weak"] \in Nat
        /\ streaks[skill]["adequate"] \in Nat
    BY <1>2, PlanFacts
       DEF IInv, Types, DifficultyFloor, Level, Sections, Strength
  <2>2. next = DifficultyPlan(skill, FALSE, concrete)[s]
    BY <1>2
  <2>3. DetermineQuestionDifficulty(skill, FALSE)' =
          [difficulty |-> Floor(skill,
             IF s = "weak" THEN OneStep(difficulty, -1)
             ELSE IF \/ s = "strong"
                     \/ s = "adequate" /\ t[skill]["adequate"] >= 2
                  THEN OneStep(difficulty, 1) ELSE difficulty),
           kind |-> IF s = "weak" /\ t[skill]["weak"] = 1
                    THEN "probe" ELSE "plain"]
    BY <1>2, <2>1
       DEF DetermineQuestionDifficulty, SkillOf, Floor, OneStep, Level
  <2>4. t[skill][s] = streaks[skill][s] + 1
    BY <2>1, StreakFacts DEF IInv
  <2>5. CASE s = "weak"
    <3>1. next = [difficulty |-> Floor(skill, OneStep(difficulty, -1)),
                  kind |-> IF streaks[skill]["weak"] = 0 THEN "probe"
                                                         ELSE "plain"]
      BY <2>1, <2>2, <2>5, PlanWithin
    <3>2. (t[skill]["weak"] = 1) = (streaks[skill]["weak"] = 0)
      BY <2>1, <2>4, <2>5
    <3> QED
      BY <1>2, <2>3, <2>5, <3>1, <3>2
  <2>6. CASE s = "adequate"
    <3>1. next = [difficulty |-> Floor(skill,
                    IF streaks[skill]["adequate"] >= 1
                    THEN OneStep(difficulty, 1) ELSE difficulty),
                  kind |-> "plain"]
      BY <2>1, <2>2, <2>6, PlanWithin
    <3>2. (t[skill]["adequate"] >= 2) = (streaks[skill]["adequate"] >= 1)
      BY <2>1, <2>4, <2>6
    <3> QED
      BY <1>2, <2>3, <2>6, <3>1, <3>2
  <2>7. CASE s = "strong"
    <3>1. next = IF ~thread /\ concrete
                 THEN [difficulty |-> difficulty, kind |-> "thread"]
                 ELSE [difficulty |-> Floor(skill, OneStep(difficulty, 1)),
                       kind |-> "plain"]
      BY <2>1, <2>2, <2>7, PlanWithin
    <3>2. next = [difficulty |-> Floor(skill, OneStep(difficulty, 1)),
                  kind |-> "plain"]
      BY <3>1
    <3>3. next = DetermineQuestionDifficulty(skill, FALSE)'
      BY <2>3, <2>7, <3>2
    <3> QED
      BY <1>2, <3>3 DEF DetermineQuestionDifficulty
  <2> QED
    BY <2>5, <2>6, <2>7 DEF Strength
<1> QED
  BY <1>1, <1>2

\* A substantial answer, in a technical section and elsewhere.
LEMMA AnswerSteps ==
  ASSUME IInv, SubstantialAnswer
  PROVE  IInv' /\ ProbeStep /\ AdaptStep /\ RepeatStep
<1>1. PICK target \in section .. Len(Plan), concrete \in BOOLEAN :
        /\ target # 0
        /\ IF Technical(section)
           THEN \E s \in Strength :
                  LET next == IF Technical(target)
                              THEN DifficultyPlan(SkillOf(target),
                                     target # section, concrete)[s]
                              ELSE NoPlan
                  IN /\ streaks' = StreaksAfter(SkillOf(section), s)
                     /\ \/ Pregenerated(target, next)
                        \/ LeaveToGenerator(target, s, next)
           ELSE LET next == IF Technical(target)
                            THEN DifficultyPlan(SkillOf(target), TRUE,
                                                concrete).adequate
                            ELSE NoPlan
                IN /\ UNCHANGED streaks
                   /\ \/ section # 0 /\ Pregenerated(target, next)
                      \/ LeaveToGenerator(target, "none", next)
  BY DEF SubstantialAnswer
<1>2. /\ stage = "await" /\ target \in Sections /\ section <= target
      /\ target # section \/ section # 0
  BY <1>1, PlanFacts DEF SubstantialAnswer, IInv, Types, Sections
<1>3. NoPlan \in Planned /\ NoPlan.kind = "plain"
  BY DEF NoPlan, Planned
<1>4. CASE Technical(section)
  <2> DEFINE skill == SkillOf(section)
             entering == target # section
  <2>0. PICK s \in Strength :
          LET next == IF Technical(target)
                      THEN DifficultyPlan(SkillOf(target), entering,
                                          concrete)[s]
                      ELSE NoPlan
          IN /\ streaks' = StreaksAfter(skill, s)
             /\ Pregenerated(target, next) \/ LeaveToGenerator(target, s, next)
    BY <1>1, <1>4
  <2>1. PICK next :
          /\ next = IF Technical(target)
                    THEN DifficultyPlan(SkillOf(target), entering, concrete)[s]
                    ELSE NoPlan
          /\ streaks' = StreaksAfter(skill, s)
          /\ Pregenerated(target, next) \/ LeaveToGenerator(target, s, next)
    BY <2>0
  <2>2. /\ next \in Planned
        /\ Technical(target) =>
             /\ next.difficulty \in Level
             /\ SkillOf(target) \in OnResume => next.difficulty # 1
        /\ next.kind = "thread" => Technical(target) /\ ~entering
        /\ next.kind = "probe" => /\ Technical(target) /\ ~entering
                                  /\ s = "weak"
                                  /\ streaks[skill]["weak"] = 0
    <3>1. CASE Technical(target)
      <4>1. next = DifficultyPlan(SkillOf(target), entering, concrete)[s]
        BY <2>1, <3>1
      <4> QED
        BY <1>2, <3>1, <4>1, PlanIsDetermined
    <3>2. CASE ~Technical(target)
      BY <1>3, <2>1, <3>2
    <3> QED
      BY <3>1, <3>2
  <2>3. /\ skill \in Skills
        /\ streaks' \in [Skills -> [Strength -> Nat]]
        /\ streaks'[skill][s] = streaks[skill][s] + 1
    BY <1>4, <2>1, PlanFacts, StreakFacts DEF IInv, Types
  <2>4. \A r \in Strength : RatedAs(r) = (r = s)
    BY <1>2, <2>1, <2>3, RatedFacts
  <2>5. CASE Pregenerated(target, next)
    <3>1. PICK text \in Texts, topic \in Texts :
            /\ Valid(SkillOf(target), text, topic, next.kind = "probe")
            /\ ApplyResolvedQuestion(
                 Question(target, entering, text, topic), next)
      BY <2>5 DEF Pregenerated
    <3>2. text \in AllTexts /\ topic \in AllTexts
      BY DEF AllTexts
    <3>3. text \notin asked[SkillOf(target)]
      BY <3>1 DEF Valid
    <3>4. next.kind = "probe" =>
            /\ Technical(target) /\ target = section
            /\ streaks'[SkillOf(target)]["weak"] >= 1
            /\ ~probe /\ RatedAs("weak")
      <4>1. ASSUME next.kind = "probe"
            PROVE  /\ Technical(target) /\ target = section /\ s = "weak"
                   /\ streaks[skill]["weak"] = 0
        BY <2>2, <4>1
      <4>2. ASSUME next.kind = "probe"
            PROVE  ~probe /\ RatedAs("weak")
        <5>1. s = "weak" /\ streaks[SkillOf(section)]["weak"] = 0
          BY <4>1, <4>2
        <5>2. ~probe
          BY <1>2, <5>1 DEF IInv, ProbeEarned
        <5>3. RatedAs(s)
          BY <2>4
        <5> QED
          BY <5>1, <5>2, <5>3
      <4>3. ASSUME next.kind = "probe"
            PROVE  streaks'[skill]["weak"] = 1
        BY <2>3, <4>1, <4>3
      <4> QED
        BY <4>1, <4>2, <4>3
    <3>5. target = section => ~entering /\ Moves(next, s)
      BY <1>4, <2>1, PlanMoves
    <3> QED
      BY <1>2, <2>2, <2>3, <2>4, <3>1, <3>2, <3>3, <3>4, <3>5, AskKeeps
  <2>6. CASE LeaveToGenerator(target, s, next)
    <3>1. /\ evaluation' = s /\ difficulty' = difficulty /\ section' = section
          /\ count' = count
      BY <2>6 DEF LeaveToGenerator, record
    <3>2. next # NoPlan /\ next.kind # "thread" =>
            /\ Technical(target)
            /\ next = DetermineQuestionDifficulty(SkillOf(target),
                                                  target # section)'
      <4>1. ASSUME next # NoPlan, next.kind # "thread"
            PROVE  /\ Technical(target)
                   /\ next = DifficultyPlan(SkillOf(target), target # section,
                                            concrete)[s]
        BY <2>1, <4>1
      <4> QED
        BY <1>2, <1>4, <2>1, <3>1, <4>1, PlanIsKept
    <3>3. IInv'
      BY <1>2, <1>4, <2>1, <2>2, <2>6, <3>2, LeaveKeeps
    <3>4. ~Asks
      BY <3>1 DEF Asks, IInv, Types
    <3> QED
      BY <3>3, <3>4 DEF ProbeStep, AdaptStep, RepeatStep
  <2> QED
    BY <2>1, <2>5, <2>6
<1>5. CASE ~Technical(section)
  <2>1. PICK next :
          /\ next = IF Technical(target) THEN Opening(SkillOf(target))
                                         ELSE NoPlan
          /\ streaks' = streaks
          /\ \/ section # 0 /\ Pregenerated(target, next)
             \/ LeaveToGenerator(target, "none", next)
    BY <1>1, <1>5 DEF DifficultyPlan, Strength
  <2>2. /\ next \in Planned /\ next.kind = "plain"
        /\ Technical(target) =>
             /\ next.difficulty \in Level
             /\ SkillOf(target) \in OnResume => next.difficulty # 1
    BY <1>3, <2>1, OpeningFacts
  <2>3. streaks' \in [Skills -> [Strength -> Nat]]
    BY <2>1 DEF IInv, Types
  <2>4. CASE Pregenerated(target, next)
    <3> DEFINE entering == target # section
    <3>1. PICK text \in Texts, topic \in Texts :
            /\ Valid(SkillOf(target), text, topic, next.kind = "probe")
            /\ ApplyResolvedQuestion(
                 Question(target, entering, text, topic), next)
      BY <2>4 DEF Pregenerated
    <3>2. text \in AllTexts /\ topic \in AllTexts
      BY DEF AllTexts
    <3>3. text \notin asked[SkillOf(target)]
      BY <3>1 DEF Valid
    <3> QED
      BY <1>2, <1>5, <2>2, <2>3, <3>1, <3>2, <3>3, AskKeeps
  <2>5. CASE LeaveToGenerator(target, "none", next)
    <3>1. /\ section' = section /\ count' = count
      BY <2>5 DEF LeaveToGenerator, record
    <3>2. next # NoPlan =>
            /\ Technical(target)
            /\ next = DetermineQuestionDifficulty(SkillOf(target),
                                                  target # section)'
      BY <1>5, <2>1, <3>1
         DEF DetermineQuestionDifficulty, Opening, SkillOf, Floor
    <3>3. IInv'
      BY <1>2, <1>5, <2>1, <2>2, <2>5, <3>2, LeaveKeeps
    <3>4. ~Asks
      BY <3>1 DEF Asks, IInv, Types
    <3> QED
      BY <3>3, <3>4 DEF ProbeStep, AdaptStep, RepeatStep
  <2> QED
    BY <2>1, <2>4, <2>5
<1> QED
  BY <1>4, <1>5

\* A question the generator asks, of the model or prepared.
LEMMA GenerateSteps ==
  ASSUME IInv, GenerateNextQuestion
  PROVE  /\ IInv' /\ ProbeStep /\ AdaptStep /\ RepeatStep
         /\ planned # NoPlan /\ planned.kind # "thread" =>
              difficulty' = planned.difficulty /\ probe' = (planned.kind = "probe")
<1> DEFINE target == Target
           skill == SkillOf(target)
           entering == Entering(target)
<1>1. /\ stage = "generate" /\ target \in Sections
      /\ ~entering => target = section
      /\ target = section => ~entering
  <2>1. /\ stage = "generate"
        /\ pending # 0 \/ section # 0 \/ Plan # <<>>
        /\ pending # 0 => section < pending
        /\ section \in 0 .. Len(Plan) /\ pending \in 0 .. Len(Plan)
    BY DEF GenerateNextQuestion, IInv, Flow, Types
  <2>2. Target \in Sections
    BY <2>1, PlanFacts DEF Target, Sections
  <2>3. pending # 0 => Target # section
    BY <2>1, PlanFacts DEF Target
  <2>4. Entering(Target) <=> Target # section
    BY <2>3 DEF Entering
  <2> QED
    BY <2>1, <2>2, <2>4
<1>2. skill \in AllSkills /\ NoPlan \in Planned /\ NoPlan.kind = "plain"
  BY <1>1, PlanFacts DEF NoPlan, Planned, Sections
<1>3. PICK next :
        /\ next = IF Technical(target)
                  THEN DetermineQuestionDifficulty(skill, entering)
                  ELSE NoPlan
        /\ \/ \E text, topic \in Texts :
                /\ Valid(skill, text, topic, next.kind = "probe")
                /\ ApplyResolvedQuestion(
                     Question(target, entering, text, topic), next)
           \/ \E i \in FallbackChoices(skill) :
                ApplyResolvedQuestion(
                  Question(target, entering, Concepts[i], Concepts[i]), next)
        /\ streaks' = streaks
  BY DEF GenerateNextQuestion
<1>4. /\ next \in Planned /\ next.kind # "thread"
      /\ Technical(target) =>
           /\ next.difficulty \in Level
           /\ skill \in OnResume => next.difficulty # 1
      /\ next.kind = "probe" => /\ Technical(target) /\ ~entering
                                /\ evaluation = "weak"
                                /\ streaks[skill]["weak"] = 1
  <2>1. CASE Technical(target)
    <3>1. next = DetermineQuestionDifficulty(skill, entering)
      BY <1>3, <2>1
    <3>2. entering \in BOOLEAN
      BY DEF Entering
    <3> QED
      BY <1>1, <2>1, <3>1, <3>2, DeterminedFacts
  <2>2. CASE ~Technical(target)
    BY <1>2, <1>3, <2>2
  <2> QED
    BY <2>1, <2>2
<1>5. /\ streaks' \in [Skills -> [Strength -> Nat]]
      /\ evaluation \in Strength \union {"none"}
      /\ \A r \in Strength : RatedAs(r) = (r = evaluation)
  BY <1>1, <1>3 DEF IInv, Types, RatedAs
<1>6. next.kind = "probe" =>
        /\ Technical(target) /\ target = section
        /\ streaks'[skill]["weak"] >= 1 /\ ~probe /\ RatedAs("weak")
  <2>1. ASSUME next.kind = "probe"
        PROVE  /\ Technical(target) /\ target = section
               /\ evaluation = "weak" /\ streaks[skill]["weak"] = 1
    BY <1>1, <1>4, <2>1
  <2>2. ASSUME next.kind = "probe"
        PROVE  ~probe
    BY <1>1, <2>1, <2>2 DEF IInv, ProbeEarned
  <2>3. ASSUME next.kind = "probe"
        PROVE  RatedAs("weak") /\ streaks'[skill]["weak"] >= 1
    BY <1>1, <1>3, <2>1, <2>3 DEF RatedAs
  <2> QED
    BY <2>1, <2>2, <2>3
<1>7. target = section /\ Technical(section) => Moves(next, evaluation)
  BY <1>1, <1>3, DeterminedMoves DEF Entering
<1>8. ASSUME NEW text \in AllTexts, NEW topic \in AllTexts,
             ApplyResolvedQuestion(
               Question(target, entering, text, topic), next),
             text \in Texts \/ text = topic,
             \/ text \notin asked[skill]
             \/ \A i \in 1 .. Len(Concepts) : Concepts[i] \in topics[skill]
      PROVE  /\ IInv' /\ ProbeStep /\ AdaptStep /\ RepeatStep
             /\ planned # NoPlan /\ planned.kind # "thread" =>
                  /\ difficulty' = planned.difficulty
                  /\ probe' = (planned.kind = "probe")
  <2>1. entering \in BOOLEAN
    BY DEF Entering
  <2>2. IInv' /\ ProbeStep /\ AdaptStep /\ RepeatStep
    BY <1>1, <1>2, <1>4, <1>5, <1>6, <1>7, <1>8, <2>1, AskKeeps
  <2>3. /\ difficulty' = IF next.kind = "thread" /\ ~entering /\ difficulty # 0
                         THEN difficulty ELSE next.difficulty
        /\ probe' = (next.kind = "probe")
    BY <1>8 DEF ApplyResolvedQuestion, Question
  <2>4. ASSUME planned # NoPlan, planned.kind # "thread"
        PROVE  next = planned
    BY <1>1, <1>3, <2>4 DEF IInv, PlanHolds
  <2> QED
    BY <1>4, <2>2, <2>3, <2>4
<1>9. CASE \E text, topic \in Texts :
             /\ Valid(skill, text, topic, next.kind = "probe")
             /\ ApplyResolvedQuestion(
                  Question(target, entering, text, topic), next)
  <2>1. PICK text \in Texts, topic \in Texts :
          /\ Valid(skill, text, topic, next.kind = "probe")
          /\ ApplyResolvedQuestion(
               Question(target, entering, text, topic), next)
    BY <1>9
  <2>2. text \in AllTexts /\ topic \in AllTexts /\ text \notin asked[skill]
    BY <2>1 DEF AllTexts, Valid
  <2> QED
    BY <1>8, <2>1, <2>2
<1>10. CASE \E i \in FallbackChoices(skill) :
              ApplyResolvedQuestion(
                Question(target, entering, Concepts[i], Concepts[i]), next)
  <2>1. PICK i \in FallbackChoices(skill) :
          ApplyResolvedQuestion(
            Question(target, entering, Concepts[i], Concepts[i]), next)
    BY <1>10
  <2>2. /\ i \in 1 .. Len(Concepts)
        /\ \/ Concepts[i] \notin asked[skill]
           \/ \A j \in 1 .. Len(Concepts) : Concepts[j] \in topics[skill]
    BY <1>2 DEF FallbackChoices, IInv, Recorded, AllSkills
  <2>3. Concepts[i] \in AllTexts
    BY <2>2 DEF AllTexts
  <2> QED
    BY <1>8, <2>1, <2>2, <2>3
<1> QED
  BY <1>3, <1>9, <1>10

\* Going on without a rating, and opening a later section.
LEMMA InterruptKeeps ==
  ASSUME IInv, ContinueWithQuestion \/ ForceSectionTimeBargeIn
  PROVE  IInv' /\ ProbeStep /\ AdaptStep /\ RepeatStep
<1>1. /\ stage = "await" /\ stage' = "generate"
      /\ section # 0 \/ Plan # <<>>
      /\ section' = section /\ difficulty' = difficulty /\ probe' = probe
      /\ thread' = thread /\ streaks' = streaks /\ evaluation' = evaluation
      /\ asked' = asked /\ topics' = topics /\ count' = count
      /\ planned' = planned
      /\ \/ pending' = pending
         \/ pending' \in (section + 1) .. Len(Plan)
  BY DEF ContinueWithQuestion, ForceSectionTimeBargeIn, level, record
<1>2. /\ pending = 0 /\ evaluation = "none" /\ planned = NoPlan
  BY <1>1 DEF IInv, Flow
<1>3. section \in 0 .. Len(Plan) /\ Len(Plan) \in Nat
  BY PlanFacts DEF IInv, Types
<1>4. Types'
  BY <1>1, <1>2, <1>3 DEF IInv, Types
<1>5. Flow'
  BY <1>1, <1>2, <1>3 DEF Flow
<1>6. DifficultyFloor' /\ Recorded'
  BY <1>1 DEF IInv, DifficultyFloor, Recorded, Technical, SkillOf
<1>7. ProbeEarned' /\ PlanHolds'
  BY <1>1, <1>2 DEF IInv, ProbeEarned, PlanHolds, Technical, SkillOf
<1>8. ~Asks
  BY <1>1 DEF Asks, IInv, Types
<1> QED
  BY <1>4, <1>5, <1>6, <1>7, <1>8
     DEF IInv, ProbeStep, AdaptStep, RepeatStep

\* A stutter changes nothing the invariant reads.
LEMMA StutterKeeps ==
  ASSUME IInv, UNCHANGED vars
  PROVE  IInv'
<1>1. /\ section' = section /\ pending' = pending /\ stage' = stage
      /\ difficulty' = difficulty /\ probe' = probe /\ thread' = thread
      /\ streaks' = streaks /\ evaluation' = evaluation /\ asked' = asked
      /\ topics' = topics /\ count' = count /\ planned' = planned
  BY DEF vars, flow, level, record
<1>2. Types' /\ Flow' /\ DifficultyFloor' /\ Recorded'
  BY <1>1 DEF IInv, Types, Flow, DifficultyFloor, Recorded, Technical, SkillOf
<1>3. ProbeEarned' /\ PlanHolds'
  BY <1>1 DEF IInv, ProbeEarned, PlanHolds, Technical, SkillOf, Target,
     Entering, DetermineQuestionDifficulty, Opening
<1> QED
  BY <1>2, <1>3 DEF IInv

\* The introduction, before any question.
LEMMA InitHolds == Init => IInv
<1>1. ASSUME Init
      PROVE  IInv
  <2>1. Types
    <3>1. NoStreak \in [Strength -> Nat] /\ NoPlan \in Planned
      BY DEF NoStreak, NoPlan, Planned
    <3>2. streaks \in [Skills -> [Strength -> Nat]]
      BY <1>1, <3>1 DEF Init
    <3>3. /\ section \in 0 .. Len(Plan) /\ pending \in 0 .. Len(Plan)
          /\ stage \in {"await", "generate"} /\ difficulty \in 0 .. 3
          /\ evaluation \in Strength \union {"none"}
          /\ planned \in Planned /\ count \in Nat
      BY <1>1, <3>1, PlanFacts DEF Init
    <3>4. probe \in BOOLEAN /\ thread \in BOOLEAN
      BY <1>1 DEF Init
    <3> QED
      BY <3>2, <3>3, <3>4 DEF Types
  <2>2. Flow /\ ProbeEarned /\ PlanHolds
    BY <1>1 DEF Init, Flow, ProbeEarned, PlanHolds
  <2>3. DifficultyFloor
    BY <1>1 DEF Init, DifficultyFloor, Technical, SkillOf
  <2>4. Recorded
    BY <1>1 DEF Init, Recorded, AllSkills
  <2> QED
    BY <2>1, <2>2, <2>3, <2>4 DEF IInv
<1> QED
  BY <1>1

-----------------------------------------------------------------------------
\* The streaks, the flags and the plan stay consistent with the workflow.
THEOREM Invariance == Spec => []IInv
<1>1. IInv /\ [Next]_vars => IInv'
  BY AnswerSteps, GenerateSteps, InterruptKeeps, StutterKeeps DEF Next
<1> QED
  BY InitHolds, <1>1, PTL DEF Spec

\* Whatever path a question took, a technical one has a difficulty, and a skill
\* on the resume is never asked about at the easy level.
THEOREM FloorKept == Spec => []DifficultyFloor
<1>1. IInv => DifficultyFloor
  BY DEF IInv
<1> QED
  BY Invariance, <1>1, PTL

\* The code that replaces a rejected question, written separately from the
\* code that planned it, sets the same difficulty and probe.
THEOREM PlanKept == Spec => GeneratorKeepsPlan
<1>1. IInv /\ [Next]_vars =>
        [stage = "generate" /\ Asks /\ planned # NoPlan
         /\ planned.kind # "thread" =>
           /\ difficulty' = planned.difficulty
           /\ probe' = (planned.kind = "probe")]_vars
  <2>1. ASSUME IInv, Next, stage = "generate"
        PROVE  GenerateNextQuestion
    BY <2>1 DEF Next, SubstantialAnswer, ContinueWithQuestion,
       ForceSectionTimeBargeIn
  <2> QED
    BY <2>1, GenerateSteps
<1> QED
  BY Invariance, <1>1, PTL DEF Spec, GeneratorKeepsPlan

\* Every step satisfies the action properties.
LEMMA NextSteps ==
  ASSUME IInv, Next
  PROVE  ProbeStep /\ AdaptStep /\ RepeatStep
<1> QED
  BY AnswerSteps, GenerateSteps, InterruptKeeps DEF Next

\* A question probes only after a weak answer in the same section, and never
\* after another probe.
THEOREM ProbesSingle == Spec => ProbesAreSingle
<1>1. IInv /\ [Next]_vars =>
        [Asks /\ probe' => ~probe /\ RatedAs("weak") /\ section' = section]_vars
  BY NextSteps DEF ProbeStep
<1> QED
  BY Invariance, <1>1, PTL DEF Spec, ProbesAreSingle

\* Within a section the difficulty follows the ratings one level at a time.
THEOREM Adapts == Spec => DifficultyAdapts
<1>1. IInv /\ [Next]_vars =>
        [Asks /\ section' = section /\ Technical(section) =>
           /\ difficulty' - difficulty \in {-1, 0, 1}
           /\ difficulty' < difficulty => RatedAs("weak")
           /\ difficulty' > difficulty => RatedAs("strong") \/ RatedAs("adequate")
           /\ RatedAs("strong") =>
                \/ difficulty' > difficulty \/ difficulty = 3
                \/ thread' /\ ~thread]_vars
  BY NextSteps DEF AdaptStep
<1> QED
  BY Invariance, <1>1, PTL DEF Spec, DifficultyAdapts

\* No question of a skill is asked twice while the fallback has fresh concepts.
THEOREM NoRepeats == Spec => NeverRepeats
<1>1. IInv /\ [Next]_vars =>
        [Asks => \/ question'.text \notin asked[question'.skill]
                 \/ \A i \in 1 .. Len(Concepts) :
                      Concepts[i] \in topics[question'.skill]]_vars
  BY NextSteps DEF RepeatStep
<1> QED
  BY Invariance, <1>1, PTL DEF Spec, NeverRepeats
=============================================================================
