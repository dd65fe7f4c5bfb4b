------------------------- MODULE EvaluationScoring -------------------------
(***************************************************************************)
(* What the scores of an evaluation are made of and what they decide.      *)
(*                                                                         *)
(* A score is an integer of hundredths, 1000 for 10.0; the clamping of the *)
(* evaluator's numbers to that range is left to the sets they are drawn    *)
(* from.  An overall technical score is a fraction, because nothing rounds *)
(* it before it is compared.                                               *)
(***************************************************************************)
EXTENDS Integers, Sequences, FiniteSets, Functions

CONSTANTS
  Specs,          \* the planned technical skills
  Priority,       \* Priority[k]: priority_score of a skill
  Weight,         \* Weight[k]: its power PRIORITY_EXPONENT, on some scale
  ViolationGate   \* how many violations pass the gate: 7

ASSUME SpecAssumption ==
  /\ IsFiniteSet(Specs)
  /\ Priority \in [Specs -> 0 .. 1000]
  /\ Weight \in [Specs -> Nat]
  /\ ViolationGate \in Nat

Severities == {"low", "medium", "high", "critical"}

Score == 0 .. 1000

Relevance == {"direct_match", "close_equivalent", "transferable_similar",
              "adjacent_but_not_equivalent", "unrelated", "not_applicable"}
Difficulty == {"easy", "medium", "hard", "unknown"}

\* What the evaluator says of a question.
Judgement == [score : Score, relevance : Relevance, difficulty : Difficulty]

RelevanceCap(class) ==
  CASE class \in {"direct_match", "not_applicable"} -> 1000
    [] class = "close_equivalent" -> 800
    [] class = "transferable_similar" -> 650
    [] class = "adjacent_but_not_equivalent" -> 450
    [] class = "unrelated" -> 200

DifficultyWeight(difficulty) ==
  CASE difficulty = "medium" -> 12 [] difficulty = "hard" -> 14 [] OTHER -> 10

Rounded(n, d) == (2 * n + d) \div (2 * d)

CappedScore(e) ==
  IF e.score < RelevanceCap(e.relevance) THEN e.score
                                         ELSE RelevanceCap(e.relevance)

\* The score of a skill from the evaluations of its questions, a set of
\* question numbers; questions is never empty here.
SkillScore(evaluations, questions) ==
  LET weights == [q \in questions |->
                    DifficultyWeight(evaluations[q].difficulty)]
      weighted == [q \in questions |-> CappedScore(evaluations[q]) * weights[q]]
  IN Rounded(SumFunction(weighted), SumFunction(weights))

\* The technical score n / d of the skills that were asked about: 0 when there
\* are none or none of them has any weight.
TechnicalScore(scores) ==
  LET weights == SumFunction([k \in DOMAIN scores |-> Weight[k]])
  IN [n |-> SumFunction([k \in DOMAIN scores |-> scores[k] * Weight[k]]),
      d |-> IF weights = 0 THEN 1 ELSE weights]

TechnicalBelow(scores, limit) ==
  LET t == TechnicalScore(scores) IN t.n < limit * t.d

Penalty(counts) ==
  5 * counts["low"] + 10 * counts["medium"] + 20 * counts["high"]
  + 30 * counts["critical"]

\* Without a behavioural question the score is not held against a candidate
\* without serious violations.
BehaviouralScore(sections, counts) ==
  IF /\ ~sections.asked /\ sections.behavioural < 500
     /\ counts["high"] = 0 /\ counts["critical"] = 0
  THEN 500 ELSE sections.behavioural

Total(counts) ==
  counts["low"] + counts["medium"] + counts["high"] + counts["critical"]

\* The final score is at least limit, with weights .75, .15, .05 and .05 over
\* a common denominator.
FinalAtLeast(scores, sections, counts, limit) ==
  LET t == TechnicalScore(scores)
  IN 15 * t.n
     + (3 * BehaviouralScore(sections, counts) + sections.intro
        + sections.communication - 20 * Penalty(counts)) * t.d
     >= 20 * limit * t.d

\* Mutant: the gate of violations is met at one number only.
HardGateAtExactly(scores, counts) ==
  \/ Total(counts) = ViolationGate + 1
  \/ counts["critical"] > 0
  \/ TechnicalBelow(scores, 500)
  \/ \E k \in DOMAIN scores : Priority[k] >= 700 /\ scores[k] < 400

HardGate(scores, counts) ==
  \/ Total(counts) > ViolationGate
  \/ counts["critical"] > 0
  \/ TechnicalBelow(scores, 500)
  \/ \E k \in DOMAIN scores : Priority[k] >= 700 /\ scores[k] < 400

\* Mutant: a high final score is looked at before the gates.
RecommendationBeforeGates(scores, sections, counts) ==
  IF FinalAtLeast(scores, sections, counts, 750) THEN "hire"
  ELSE IF HardGate(scores, counts) THEN "no hire"
  ELSE IF FinalAtLeast(scores, sections, counts, 500) THEN "consider"
                                                      ELSE "no hire"

Recommendation(scores, sections, counts) ==
  IF HardGate(scores, counts) THEN "no hire"
  ELSE IF /\ ~TechnicalBelow(scores, 700)
          /\ FinalAtLeast(scores, sections, counts, 750) THEN "hire"
  ELSE IF FinalAtLeast(scores, sections, counts, 500) THEN "consider"
                                                      ELSE "no hire"
=============================================================================
