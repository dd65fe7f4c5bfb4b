------------------------- MODULE AdaptiveQuestions -------------------------
(***************************************************************************)
(* Which question comes next: its difficulty, whether it probes a weak     *)
(* answer or follows an interesting thread, and that it is a new one.      *)
(*                                                                         *)
(* The interviewer_turn node plans the difficulty for each rating the      *)
(* answer may get, before it is rated, and asks at once when the question  *)
(* that comes with the rating is valid.  Otherwise generate_next_question  *)
(* determines the difficulty from the rating and the streaks recorded      *)
(* meanwhile, in code of its own, and may fall back on prepared questions. *)
(*                                                                         *)
(* Difficulties are 1 (easy), 2 (medium) and 3 (hard); 0 is none.  Section *)
(* 0 is the introduction.  Closing ends a behaviour and is left out.       *)
(***************************************************************************)
EXTENDS Integers, Sequences

CONSTANTS
  Skills, NoSkill,  \* the skills of technical sections; of a behavioural one
  Plan,             \* Plan[i]: the skill of section i
  OnResume,         \* the skills the resume has as well
  RoleLevel,        \* ROLE_INITIAL_DIFFICULTY of the role
  Texts,            \* questions and topics the model may propose
  Concepts,         \* questions and topics of the fallback, in order
  MaxQuestions      \* bound: the questions asked

ASSUME PlanAssumption ==
  /\ NoSkill \notin Skills
  /\ Plan \in Seq(Skills \union {NoSkill})
  /\ OnResume \subseteq Skills
  /\ RoleLevel \in 1 .. 3

\* The model words no question the way a prepared one is worded.
ASSUME TextAssumption == \A i \in 1 .. Len(Concepts) : Concepts[i] \notin Texts

VARIABLES
  section, pending,  \* current_section_index, pending_section_index or 0
  stage,             \* where the workflow is: waiting, or generating
  difficulty,        \* current_question_difficulty
  probe, thread,     \* probe_deeper, thread_follow_up_used
  streaks,           \* skill_evaluation_streaks
  evaluation,        \* latest_evaluation, of a substantial answer
  asked, topics,     \* asked_questions and used_topics_by_skill of a skill
  question,          \* the last question: its skill, text and topic
  count,             \* how many were asked
  planned            \* history: the plan for the answer being followed up

flow == <<section, pending, stage>>
level == <<difficulty, probe, thread, streaks, evaluation>>
record == <<asked, topics, question, count>>
vars == <<flow, level, record, planned>>

Strength == {"weak", "adequate", "strong"}
AllSkills == Skills \union {NoSkill}
NoStreak == [s \in Strength |-> 0]
\* What is planned for a question: its difficulty, and whether it probes a weak
\* answer or follows a thread.
Planned == [difficulty : 0 .. 3, kind : {"plain", "probe", "thread"}]
NoPlan == [difficulty |-> 0, kind |-> "plain"]

SkillOf(i) == IF i = 0 THEN NoSkill ELSE Plan[i]
Technical(i) == SkillOf(i) # NoSkill

\* target_section: the pending section, else the current one; after the
\* introduction the first.
Target == IF pending # 0 THEN pending ELSE IF section = 0 THEN 1 ELSE section
Entering(target) == target # section \/ pending # 0

Init ==
  /\ section = 0 /\ pending = 0 /\ stage = "await"
  /\ difficulty = 0 /\ probe = FALSE /\ thread = FALSE
  /\ streaks = [k \in Skills |-> NoStreak]
  /\ evaluation = "none"
  /\ asked = [k \in AllSkills |-> {}]
  /\ topics = [k \in AllSkills |-> {}]
  /\ question = [skill |-> NoSkill, text |-> "none"]
  /\ count = 0
  /\ planned = NoPlan

-----------------------------------------------------------------------------
\* The difficulty strategy.

\* A level up or down where there is one.
OneStep(d, direction) == IF d + direction \in 1 .. 3 THEN d + direction ELSE d

\* A skill on the resume is never asked about at the easy level.
Floor(skill, d) == IF skill \in OnResume /\ d = 1 THEN 2 ELSE d

\* The first question of a section is at the level of the role.
Opening(skill) == [difficulty |-> Floor(skill, RoleLevel), kind |-> "plain"]

\* Mutant: the answer being rated is forgotten, the streak counted as it was.
DifficultyPlanOfPriorStreak(skill, entering, concrete) ==
  IF entering \/ difficulty = 0
  THEN [s \in Strength |-> Opening(skill)]
  ELSE [weak |-> [difficulty |-> Floor(skill, OneStep(difficulty, -1)),
                  kind |-> IF streaks[skill].weak = 0 THEN "probe" ELSE "plain"],
        adequate |-> [difficulty |-> Floor(skill,
                        IF streaks[skill].adequate >= 2
                        THEN OneStep(difficulty, 1) ELSE difficulty),
                      kind |-> "plain"],
        strong |-> IF ~thread /\ concrete
                   THEN [difficulty |-> difficulty, kind |-> "thread"]
                   ELSE [difficulty |-> Floor(skill, OneStep(difficulty, 1)),
                         kind |-> "plain"]]

\* Mutant: what the answers before have earned is forgotten.
DifficultyPlanWithoutMemory(skill, entering, concrete) ==
  IF entering \/ difficulty = 0
  THEN [s \in Strength |-> Opening(skill)]
  ELSE [weak |-> [difficulty |-> Floor(skill, OneStep(difficulty, -1)),
                  kind |-> "probe"],
        adequate |-> [difficulty |-> Floor(skill, difficulty),
                      kind |-> "plain"],
        strong |-> IF concrete
                   THEN [difficulty |-> difficulty, kind |-> "thread"]
                   ELSE [difficulty |-> Floor(skill, OneStep(difficulty, 1)),
                         kind |-> "plain"]]

\* difficulty_plan: what follows on each rating.  The first weak answer in a row
\* earns a probe, the second adequate one a harder question; a strong answer
\* with concrete detail holds the difficulty for one question about it.
DifficultyPlan(skill, entering, concrete) ==
  IF entering \/ difficulty = 0
  THEN [s \in Strength |-> Opening(skill)]
  ELSE [weak |-> [difficulty |-> Floor(skill, OneStep(difficulty, -1)),
                  kind |-> IF streaks[skill].weak + 1 = 1 THEN "probe"
                                                          ELSE "plain"],
        adequate |-> [difficulty |-> Floor(skill,
                        IF streaks[skill].adequate + 1 >= 2
                        THEN OneStep(difficulty, 1) ELSE difficulty),
                      kind |-> "plain"],
        strong |-> IF ~thread /\ concrete
                   THEN [difficulty |-> difficulty, kind |-> "thread"]
                   ELSE [difficulty |-> Floor(skill, OneStep(difficulty, 1)),
                         kind |-> "plain"]]

\* Mutant: the floor is forgotten once the section is under way.
DetermineWithoutFloor(skill, entering) ==
  IF entering \/ difficulty = 0
  THEN Opening(skill)
  ELSE [difficulty |-> IF evaluation = "weak" THEN OneStep(difficulty, -1)
                                              ELSE difficulty,
        kind |-> "plain"]

\* determine_question_difficulty: the same from the recorded evaluation, though
\* it follows no thread.
DetermineQuestionDifficulty(skill, entering) ==
  IF entering \/ difficulty = 0
  THEN Opening(skill)
  ELSE LET raise == \/ evaluation = "strong"
                    \/ evaluation = "adequate" /\ streaks[skill].adequate >= 2
       IN [difficulty |-> Floor(skill,
             IF evaluation = "weak" THEN OneStep(difficulty, -1)
             ELSE IF raise THEN OneStep(difficulty, 1) ELSE difficulty),
           kind |-> IF evaluation = "weak" /\ streaks[skill].weak = 1
                    THEN "probe" ELSE "plain"]

\* The streaks of a skill after one more rating.
StreaksAfter(skill, s) ==
  [streaks EXCEPT ![skill] = [NoStreak EXCEPT ![s] = streaks[skill][s] + 1]]

-----------------------------------------------------------------------------
\* The next question.

\* validate_generated_question: no repeated text, no used topic unless it
\* probes.  Its judgements of wording may reject any question besides.
Valid(skill, text, topic, probing) ==
  /\ text \notin asked[skill]
  /\ probing \/ topic \notin topics[skill]

\* Mutant: the topics of the fallback are not recorded.
ApplyForgettingTopics(q, next) ==
  /\ asked' = [asked EXCEPT ![q.skill] = @ \union {q.text}]
  /\ topics' = [topics EXCEPT ![q.skill] =
                  IF q.topic \in Texts THEN @ \union {q.topic} ELSE @]
  /\ question' = [skill |-> q.skill, text |-> q.text]
  /\ count' = count + 1
  /\ section' = q.section /\ pending' = 0 /\ stage' = "await"
  /\ difficulty' = next.difficulty
  /\ probe' = (next.kind = "probe")
  /\ thread' = (next.kind = "thread" /\ ~q.entering)
  /\ evaluation' = "none"
  /\ planned' = NoPlan

\* apply_resolved_question.
ApplyResolvedQuestion(q, next) ==
  /\ asked' = [asked EXCEPT ![q.skill] = @ \union {q.text}]
  /\ topics' = [topics EXCEPT ![q.skill] = @ \union {q.topic}]
  /\ question' = [skill |-> q.skill, text |-> q.text]
  /\ count' = count + 1
  /\ section' = q.section /\ pending' = 0 /\ stage' = "await"
  /\ difficulty' = IF next.kind = "thread" /\ ~q.entering /\ difficulty # 0
                   THEN difficulty ELSE next.difficulty
  /\ probe' = (next.kind = "probe")
  /\ thread' = (next.kind = "thread" /\ ~q.entering)
  /\ evaluation' = "none"
  /\ planned' = NoPlan

Question(target, entering, text, topic) ==
  [section |-> target, entering |-> entering, skill |-> SkillOf(target),
   text |-> text, topic |-> topic]

\* The question that came with the rating is asked when it is valid.
Pregenerated(target, next) ==
  \E text, topic \in Texts :
    /\ Valid(SkillOf(target), text, topic, next.kind = "probe")
    /\ ApplyResolvedQuestion(
         Question(target, target # section, text, topic), next)

\* It is missing or rejected: the graph goes on to generate_next_question.
LeaveToGenerator(target, s, next) ==
  /\ stage' = "generate"
  /\ pending' = IF target = section THEN 0 ELSE target
  /\ evaluation' = s
  /\ planned' = next
  /\ UNCHANGED <<section, difficulty, probe, thread, record>>

\* A substantial answer.  It moves on to a later section when time is up, and
\* is rated in a technical section; elsewhere the rating is null, and the plan
\* of a technical target has but one entry.
SubstantialAnswer ==
  /\ stage = "await" /\ count < MaxQuestions
  /\ \E target \in section .. Len(Plan), concrete \in BOOLEAN :
       /\ target # 0
       /\ IF Technical(section)
          THEN \E s \in Strength :
                 LET next == IF Technical(target)
                             THEN DifficultyPlan(SkillOf(target),
                                    target # section, concrete)[s]
                             ELSE NoPlan
                 IN /\ streaks' = StreaksAfter(SkillOf(section), s)
                    /\ \/ Pregenerated(target, next)
                       \/ LeaveToGenerator(target, s, next)
          ELSE LET next == IF Technical(target)
                           THEN DifficultyPlan(SkillOf(target), TRUE,
                                               concrete).adequate
                           ELSE NoPlan
               IN /\ UNCHANGED streaks
                  /\ \/ section # 0 /\ Pregenerated(target, next)
                     \/ LeaveToGenerator(target, "none", next)

\* A second skip or repeated silence, in the introduction an answer counted
\* twice: the next question, without a rating.
ContinueWithQuestion ==
  /\ stage = "await" /\ count < MaxQuestions
  /\ section # 0 \/ Plan # <<>>
  /\ stage' = "generate"
  /\ UNCHANGED <<section, pending, level, record, planned>>

\* The watchdog interrupts: a later section is opened.
ForceSectionTimeBargeIn ==
  /\ stage = "await" /\ section # 0 /\ count < MaxQuestions
  /\ \E target \in (section + 1) .. Len(Plan) : pending' = target
  /\ stage' = "generate"
  /\ UNCHANGED <<section, level, record, planned>>

\* The prepared questions that may be asked: the first concept not used yet,
\* or any when all are used; of a behavioural section one not asked yet.
FallbackChoices(skill) ==
  LET Fresh(i) == Concepts[i] \notin topics[skill]
      Open == {i \in 1 .. Len(Concepts) : Fresh(i)}
  IN IF skill = NoSkill
     THEN {i \in 1 .. Len(Concepts) : Concepts[i] \notin asked[skill]}
     ELSE IF Open = {} THEN 1 .. Len(Concepts)
                       ELSE {i \in Open : \A j \in Open : i <= j}

\* generate_next_question: a valid question of the model, else the fallback.
GenerateNextQuestion ==
  /\ stage = "generate"
  /\ LET target == Target
         skill == SkillOf(target)
         next == IF Technical(target)
                 THEN DetermineQuestionDifficulty(skill, Entering(target))
                 ELSE NoPlan
     IN \/ \E text, topic \in Texts :
             /\ Valid(skill, text, topic, next.kind = "probe")
             /\ ApplyResolvedQuestion(
                  Question(target, Entering(target), text, topic), next)
        \/ \E i \in FallbackChoices(skill) :
             ApplyResolvedQuestion(
               Question(target, Entering(target), Concepts[i], Concepts[i]),
               next)
  /\ UNCHANGED streaks

Next ==
  \/ SubstantialAnswer \/ ContinueWithQuestion
  \/ ForceSectionTimeBargeIn \/ GenerateNextQuestion

Spec == Init /\ [][Next]_vars

-----------------------------------------------------------------------------
\* Properties.

\* Whatever path a question took, a technical one has a difficulty, and not
\* the easy one when the resume has the skill.
DifficultyFloor ==
  Technical(section) =>
    /\ difficulty \in 1 .. 3
    /\ SkillOf(section) \in OnResume => difficulty # 1

Asks == count' = count + 1

\* The rating that the question being asked follows, if any.
RatedAs(s) ==
  IF stage = "generate" THEN evaluation = s
  ELSE \E k \in Skills : streaks'[k][s] > streaks[k][s]

\* The code that replaces a rejected question sets the difficulty and the
\* probe that were planned, except that it follows no thread.
GeneratorKeepsPlan ==
  [][stage = "generate" /\ Asks /\ planned # NoPlan
     /\ planned.kind # "thread" =>
       /\ difficulty' = planned.difficulty
       /\ probe' = (planned.kind = "probe")]_vars

\* A question probes only after a weak answer in the same section, and never
\* after another probe.
ProbesAreSingle ==
  [][Asks /\ probe' => ~probe /\ RatedAs("weak") /\ section' = section]_vars

\* Within a section the difficulty moves one level at most, falls only on a
\* weak answer, and after a strong one it rises unless a thread is followed,
\* which no two questions in a row do.
DifficultyAdapts ==
  [][Asks /\ section' = section /\ Technical(section) =>
       /\ difficulty' - difficulty \in {-1, 0, 1}
       /\ difficulty' < difficulty => RatedAs("weak")
       /\ difficulty' > difficulty => RatedAs("strong") \/ RatedAs("adequate")
       /\ RatedAs("strong") =>
            \/ difficulty' > difficulty \/ difficulty = 3
            \/ thread' /\ ~thread]_vars

\* No question of a skill is asked twice while the fallback has fresh concepts.
NeverRepeats ==
  [][Asks => \/ question'.text \notin asked[question'.skill]
             \/ \A i \in 1 .. Len(Concepts) :
                  Concepts[i] \in topics[question'.skill]]_vars
=============================================================================
