--------------------- MODULE HolisticEvaluationProofs ---------------------
(***************************************************************************)
(* Proofs about HolisticEvaluation, for transcripts, numbers of questions  *)
(* and of violations of any size: every answer is paired with the question *)
(* it belongs to, a category of violations is scored once, no violation    *)
(* helps, no better answer hurts and the gates hold.  The scores are sums  *)
(* over the questions of a skill and over the skills, and the violations   *)
(* are normalized one after the other, so that these proofs rest on        *)
(* InductionPrinciples.                                                    *)
(***************************************************************************)
EXTENDS HolisticEvaluation, SequenceTheorems, InductionPrinciples, TLAPS

-----------------------------------------------------------------------------
\* Scores.

\* A capped score is a score, and no difficulty weighs nothing.
LEMMA JudgementScores ==
  ASSUME NEW e \in Judgement
  PROVE  CappedScore(e) \in Score /\ DifficultyWeight(e.difficulty) \in 10 .. 14
<1>1. e.score \in Score /\ e.relevance \in Relevance
  BY DEF Judgement, Score
<1>2. RelevanceCap(e.relevance) \in Score
  BY <1>1 DEF RelevanceCap, Relevance, Score
<1>3. CappedScore(e) \in Score
  BY <1>1, <1>2 DEF CappedScore, Score
<1>4. DifficultyWeight(e.difficulty) \in 10 .. 14
  BY DEF DifficultyWeight
<1> QED
  BY <1>3, <1>4

\* A weighted average, rounded, lies where the scores do.
LEMMA RoundedRange ==
  ASSUME NEW n \in Nat, NEW d \in Nat \ {0}, n <= 1000 * d
  PROVE  Rounded(n, d) \in Score
<1>1. PICK a : a = 2 * n + d
  OBVIOUS
<1>2. PICK b : b = 2 * d
  OBVIOUS
<1>3. a \in Nat /\ b \in Nat \ {0} /\ a < 1001 * b
  BY <1>1, <1>2
<1>4. a \div b \in Nat /\ a \div b < 1001
  BY <1>3, Z3T(30)
<1> QED
  BY <1>1, <1>2, <1>4 DEF Rounded, Score

\* The score of a skill that was asked about is a score, from 0 to 10.0.
LEMMA SkillScoreRange ==
  ASSUME NEW questions, IsFiniteSet(questions), questions # {},
         NEW judged \in [questions -> Judgement]
  PROVE  SkillScore(judged, questions) \in Score
<1>1. PICK weights :
        weights = [q \in questions |-> DifficultyWeight(judged[q].difficulty)]
  OBVIOUS
<1>2. PICK weighted :
        weighted = [q \in questions |-> CappedScore(judged[q]) * weights[q]]
  OBVIOUS
<1>3. PICK full : full = [q \in questions |-> 1000 * weights[q]]
  OBVIOUS
<1>4. ASSUME NEW q \in questions
      PROVE  /\ weights[q] \in Nat \ {0} /\ weighted[q] \in Nat
             /\ full[q] \in Nat /\ weighted[q] <= full[q]
  <2>1. PICK s \in 0 .. 1000 : s = CappedScore(judged[q])
    BY JudgementScores DEF Score
  <2>2. weights[q] \in 10 .. 14
    BY <1>1, JudgementScores
  <2>3. weighted[q] = s * weights[q] /\ full[q] = 1000 * weights[q]
    BY <1>2, <1>3, <2>1
  <2> QED
    BY <2>1, <2>2, <2>3
<1>5. /\ weights \in [questions -> Nat \ {0}] /\ weights \in [questions -> Int]
      /\ weighted \in [questions -> Int] /\ full \in [questions -> Int]
  BY <1>1, <1>2, <1>3, <1>4
<1>6. SumFunction(weights) \in Nat \ {0}
  BY <1>5, SumPositive
<1>7. SumFunction(weighted) \in Nat
  BY <1>4, <1>5, SumType
<1>8. SumFunction(full) = 1000 * SumFunction(weights)
  BY <1>3, <1>5, SumScaled
<1>9. SumFunction(weighted) <= SumFunction(full)
  BY <1>4, <1>5, SumMonotone
<1>10. PICK n \in Nat, d \in Nat \ {0} :
         n = SumFunction(weighted) /\ d = SumFunction(weights)
  BY <1>6, <1>7
<1>11. n <= 1000 * d
  BY <1>8, <1>9, <1>10
<1>12. Rounded(n, d) \in Score
  BY <1>11, RoundedRange
<1> QED
  BY <1>1, <1>2, <1>10, <1>12 DEF SkillScore

\* Only the judgements of its questions count for a skill.
LEMMA SkillScoreOf ==
  ASSUME NEW m \in Nat, NEW judged \in [1 .. m -> Judgement],
         NEW questions \in SUBSET (1 .. m), questions # {}
  PROVE  SkillScore(judged, questions) \in Score
<1>1. IsFiniteSet(questions)
  <2>1. IsFiniteSet(1 .. m)
    BY FS_Interval
  <2> QED
    BY <2>1, FS_Subset
<1>2. PICK own : own = [q \in questions |-> judged[q]]
  OBVIOUS
<1>3. own \in [questions -> Judgement]
  BY <1>2
<1>4. SkillScore(own, questions) \in Score
  BY <1>1, <1>3, SkillScoreRange
<1>5. \A q \in questions : own[q] = judged[q]
  BY <1>2
<1>6. SkillScore(own, questions) = SkillScore(judged, questions)
  BY <1>5 DEF SkillScore
<1> QED
  BY <1>4, <1>6

\* A larger dividend has no smaller quotient.
LEMMA DivisionMonotone ==
  ASSUME NEW a \in Nat, NEW b \in Nat, a <= b, NEW d \in Nat \ {0}
  PROVE  a \div d <= b \div d
<1>1. PICK q \in Nat, r \in Nat : q = a \div d /\ a = q * d + r /\ r < d
  <2>1. a \div d \in Nat /\ a % d \in Nat /\ a % d < d
    OBVIOUS
  <2>2. a = (a \div d) * d + (a % d)
    OBVIOUS
  <2> QED
    BY <2>1, <2>2
<1>2. PICK s \in Nat, t \in Nat : s = b \div d /\ b = s * d + t /\ t < d
  <2>1. b \div d \in Nat /\ b % d \in Nat /\ b % d < d
    OBVIOUS
  <2>2. b = (b \div d) * d + (b % d)
    OBVIOUS
  <2> QED
    BY <2>1, <2>2
<1>3. ASSUME s + 1 <= q PROVE FALSE
  <2>1. (s + 1) * d <= q * d
    BY <1>3
  <2>2. (s + 1) * d = s * d + d /\ s * d \in Nat /\ q * d \in Nat
    OBVIOUS
  <2> QED
    BY <1>1, <1>2, <2>1, <2>2
<1> QED
  BY <1>1, <1>2, <1>3

\* Answers that are judged better, the questions being as difficult, never
\* lower the score of a skill.
LEMMA SkillScoreMonotone ==
  ASSUME NEW questions, IsFiniteSet(questions), questions # {},
         NEW judged \in [questions -> Judgement],
         NEW better \in [questions -> Judgement],
         \A q \in questions :
           /\ better[q].difficulty = judged[q].difficulty
           /\ CappedScore(judged[q]) <= CappedScore(better[q])
  PROVE  SkillScore(judged, questions) <= SkillScore(better, questions)
<1>1. PICK weights :
        weights = [q \in questions |-> DifficultyWeight(judged[q].difficulty)]
  OBVIOUS
<1>2. weights = [q \in questions |-> DifficultyWeight(better[q].difficulty)]
  BY <1>1
<1>3. PICK low, high :
        /\ low = [q \in questions |-> CappedScore(judged[q]) * weights[q]]
        /\ high = [q \in questions |-> CappedScore(better[q]) * weights[q]]
  OBVIOUS
<1>4. ASSUME NEW q \in questions
      PROVE  /\ weights[q] \in Nat \ {0} /\ low[q] \in Nat /\ high[q] \in Nat
             /\ low[q] <= high[q]
  <2>1. PICK s \in Nat, t \in Nat :
          s = CappedScore(judged[q]) /\ t = CappedScore(better[q]) /\ s <= t
    <3>1. judged[q] \in Judgement /\ better[q] \in Judgement
      OBVIOUS
    <3>2. CappedScore(judged[q]) \in Score /\ CappedScore(better[q]) \in Score
      BY <3>1, JudgementScores
    <3>3. CappedScore(judged[q]) <= CappedScore(better[q])
      OBVIOUS
    <3>4. Score \subseteq Nat
      BY DEF Score
    <3>5. CappedScore(judged[q]) \in Nat /\ CappedScore(better[q]) \in Nat
      BY <3>2, <3>4
    <3> QED
      BY <3>3, <3>5
  <2>2. PICK w \in Nat \ {0} : w = weights[q]
    <3>1. judged[q] \in Judgement
      OBVIOUS
    <3>2. weights[q] \in 10 .. 14
      BY <1>1, <3>1, JudgementScores
    <3> QED
      BY <3>2
  <2>3. s * w <= t * w /\ s * w \in Nat /\ t * w \in Nat
    BY <2>1, <2>2
  <2> QED
    BY <1>3, <2>1, <2>2, <2>3
<1>5. /\ weights \in [questions -> Nat \ {0}]
      /\ low \in [questions -> Int] /\ high \in [questions -> Int]
  BY <1>1, <1>3, <1>4
<1>6. SumFunction(weights) \in Nat \ {0}
  BY <1>5, SumPositive
<1>7. SumFunction(low) \in Nat /\ SumFunction(high) \in Nat
  BY <1>4, <1>5, SumType
<1>8. SumFunction(low) <= SumFunction(high)
  BY <1>4, <1>5, SumMonotone
<1>9. PICK n \in Nat, m \in Nat, d \in Nat \ {0} :
        /\ n = SumFunction(low) /\ m = SumFunction(high) /\ d = SumFunction(weights)
        /\ n <= m
  BY <1>6, <1>7, <1>8
<1>10. Rounded(n, d) <= Rounded(m, d)
  <2>1. PICK a \in Nat, b \in Nat, c \in Nat \ {0} :
          a = 2 * n + d /\ b = 2 * m + d /\ c = 2 * d /\ a <= b
    BY <1>9
  <2>2. a \div c <= b \div c
    BY <2>1, DivisionMonotone
  <2> QED
    BY <2>1, <2>2 DEF Rounded
<1>11. /\ SkillScore(judged, questions) = Rounded(n, d)
       /\ SkillScore(better, questions) = Rounded(m, d)
  BY <1>1, <1>2, <1>3, <1>9 DEF SkillScore
<1> QED
  BY <1>10, <1>11

\* The same where the judgements cover more questions than those of the skill.
LEMMA SkillScoreMonotoneOf ==
  ASSUME NEW m \in Nat, NEW judged \in [1 .. m -> Judgement],
         NEW better \in [1 .. m -> Judgement],
         NEW questions \in SUBSET (1 .. m), questions # {},
         \A q \in 1 .. m :
           /\ better[q].difficulty = judged[q].difficulty
           /\ CappedScore(judged[q]) <= CappedScore(better[q])
  PROVE  SkillScore(judged, questions) <= SkillScore(better, questions)
<1>1. IsFiniteSet(questions)
  <2>1. IsFiniteSet(1 .. m)
    BY FS_Interval
  <2> QED
    BY <2>1, FS_Subset
<1>2. PICK low, high : /\ low = [q \in questions |-> judged[q]]
                       /\ high = [q \in questions |-> better[q]]
  OBVIOUS
<1>3. low \in [questions -> Judgement] /\ high \in [questions -> Judgement]
  BY <1>2
<1>4. \A q \in questions : low[q] = judged[q] /\ high[q] = better[q]
  BY <1>2
<1>5. \A q \in questions : /\ high[q].difficulty = low[q].difficulty
                           /\ CappedScore(low[q]) <= CappedScore(high[q])
  BY <1>4
<1>6. SkillScore(low, questions) <= SkillScore(high, questions)
  BY <1>1, <1>3, <1>5, SkillScoreMonotone
<1>7. /\ SkillScore(low, questions) = SkillScore(judged, questions)
      /\ SkillScore(high, questions) = SkillScore(better, questions)
  BY <1>4 DEF SkillScore
<1> QED
  BY <1>6, <1>7

\* The technical score is a fraction.
LEMMA TechnicalType ==
  ASSUME NEW K \in SUBSET Specs, NEW scores \in [K -> Nat]
  PROVE  TechnicalScore(scores).n \in Nat /\ TechnicalScore(scores).d \in Nat \ {0}
<1>1. IsFiniteSet(K)
  BY SpecAssumption, FS_Subset
<1>2. PICK weights : weights = [k \in K |-> Weight[k]]
  OBVIOUS
<1>3. PICK weighted : weighted = [k \in K |-> scores[k] * Weight[k]]
  OBVIOUS
<1>4. \A k \in K : weights[k] \in Nat /\ weighted[k] \in Nat
  BY <1>2, <1>3, SpecAssumption
<1>5. weights \in [K -> Int] /\ weighted \in [K -> Int]
  BY <1>2, <1>3, <1>4
<1>6. SumFunction(weights) \in Nat /\ SumFunction(weighted) \in Nat
  BY <1>1, <1>4, <1>5, SumType
<1>7. DOMAIN scores = K
  OBVIOUS
<1> QED
  BY <1>2, <1>3, <1>6, <1>7 DEF TechnicalScore

\* Where every score is below a limit, so is the technical score.
LEMMA TechnicalBelowAll ==
  ASSUME NEW K \in SUBSET Specs, NEW scores \in [K -> Nat],
         NEW limit \in Nat \ {0}, \A k \in K : scores[k] < limit
  PROVE  TechnicalBelow(scores, limit)
<1>1. IsFiniteSet(K)
  BY SpecAssumption, FS_Subset
<1>2. PICK weights : weights = [k \in K |-> Weight[k]]
  OBVIOUS
<1>3. PICK weighted : weighted = [k \in K |-> scores[k] * Weight[k]]
  OBVIOUS
<1>4. PICK full : full = [k \in K |-> (limit - 1) * weights[k]]
  OBVIOUS
<1>5. ASSUME NEW k \in K
      PROVE  /\ weights[k] \in Nat /\ weighted[k] \in Nat /\ full[k] \in Int
             /\ weighted[k] <= full[k]
  <2>1. PICK w \in Nat : w = Weight[k]
    BY SpecAssumption
  <2>2. PICK s \in Nat : s = scores[k] /\ s <= limit - 1
    OBVIOUS
  <2>3. s * w <= (limit - 1) * w /\ s * w \in Nat /\ (limit - 1) * w \in Int
    BY <2>1, <2>2
  <2> QED
    BY <1>2, <1>3, <1>4, <2>1, <2>2, <2>3
<1>6. /\ weights \in [K -> Int] /\ weighted \in [K -> Int]
      /\ full \in [K -> Int]
  BY <1>2, <1>3, <1>4, <1>5
<1>7. SumFunction(weights) \in Nat /\ SumFunction(weighted) \in Nat
  BY <1>1, <1>5, <1>6, SumType
<1>8. SumFunction(full) = (limit - 1) * SumFunction(weights)
  BY <1>1, <1>4, <1>6, SumScaled
<1>9. SumFunction(weighted) <= SumFunction(full)
  BY <1>1, <1>5, <1>6, SumMonotone
<1>10. PICK n, d : n = SumFunction(weighted) /\ d = SumFunction(weights)
  OBVIOUS
<1>11. n \in Nat /\ d \in Nat /\ n <= (limit - 1) * d
  BY <1>7, <1>8, <1>9, <1>10
<1>12. n < limit * (IF d = 0 THEN 1 ELSE d)
  <2>1. CASE d = 0
    BY <1>11, <2>1
  <2>2. CASE d # 0
    <3>1. limit * d = (limit - 1) * d + d
      BY <1>11
    <3>2. (limit - 1) * d \in Int
      BY <1>11
    <3> QED
      BY <1>11, <2>2, <3>1, <3>2
  <2> QED
    BY <2>1, <2>2
<1>13. DOMAIN scores = K
  OBVIOUS
<1> QED
  BY <1>2, <1>3, <1>10, <1>12, <1>13 DEF TechnicalBelow, TechnicalScore

Sections == [asked : BOOLEAN, intro : Nat, communication : Nat, behavioural : Nat]

\* No section is scored lower in better than in sections.
NoLower(sections, better) ==
  /\ better.asked = sections.asked /\ sections.intro <= better.intro
  /\ sections.communication <= better.communication
  /\ sections.behavioural <= better.behavioural

\* What the final score adds to the technical one, times 20.
Others(sections, counts) ==
  3 * BehaviouralScore(sections, counts) + sections.intro
  + sections.communication - 20 * Penalty(counts)

\* The rest of the final score grows with the sections and shrinks with the
\* violations, the favour to a candidate without serious ones included.
LEMMA OthersMonotone ==
  ASSUME NEW sections \in Sections, NEW better \in Sections,
         NoLower(sections, better),
         NEW counts \in [Severities -> Nat], NEW fewer \in [Severities -> Nat],
         \A s \in Severities : fewer[s] <= counts[s]
  PROVE  /\ Others(sections, counts) \in Int /\ Others(better, fewer) \in Int
         /\ Others(sections, counts) <= Others(better, fewer)
<1>1. /\ fewer["low"] <= counts["low"] /\ fewer["medium"] <= counts["medium"]
      /\ fewer["high"] <= counts["high"] /\ fewer["critical"] <= counts["critical"]
      /\ counts["low"] \in Nat /\ counts["medium"] \in Nat
      /\ counts["high"] \in Nat /\ counts["critical"] \in Nat
      /\ fewer["low"] \in Nat /\ fewer["medium"] \in Nat
      /\ fewer["high"] \in Nat /\ fewer["critical"] \in Nat
  BY DEF Severities
<1>2. /\ Penalty(counts) \in Nat /\ Penalty(fewer) \in Nat
      /\ Penalty(fewer) <= Penalty(counts)
  BY <1>1 DEF Penalty
<1>3. /\ BehaviouralScore(sections, counts) \in Nat
      /\ BehaviouralScore(better, fewer) \in Nat
      /\ BehaviouralScore(sections, counts) <= BehaviouralScore(better, fewer)
  BY <1>1 DEF BehaviouralScore, Sections, NoLower
<1>4. /\ sections.intro \in Nat /\ better.intro \in Nat
      /\ sections.communication \in Nat /\ better.communication \in Nat
      /\ sections.intro <= better.intro
      /\ sections.communication <= better.communication
  BY DEF Sections, NoLower
<1> QED
  BY <1>2, <1>3, <1>4 DEF Others

\* Scores that are no lower make a technical score that is no lower.
LEMMA TechnicalMonotone ==
  ASSUME NEW K \in SUBSET Specs, NEW scores \in [K -> Nat], NEW better \in [K -> Nat],
         \A k \in K : scores[k] <= better[k]
  PROVE  /\ TechnicalScore(scores).n <= TechnicalScore(better).n
         /\ TechnicalScore(scores).d = TechnicalScore(better).d
<1>1. IsFiniteSet(K)
  BY SpecAssumption, FS_Subset
<1>2. PICK weighted : weighted = [k \in K |-> scores[k] * Weight[k]]
  OBVIOUS
<1>3. PICK improved : improved = [k \in K |-> better[k] * Weight[k]]
  OBVIOUS
<1>4. ASSUME NEW k \in K
      PROVE  /\ weighted[k] \in Int /\ improved[k] \in Int
             /\ weighted[k] <= improved[k]
  <2>1. PICK w \in Nat : w = Weight[k]
    BY SpecAssumption
  <2>2. PICK s \in Nat, t \in Nat : s = scores[k] /\ t = better[k] /\ s <= t
    OBVIOUS
  <2>3. s * w <= t * w /\ s * w \in Nat /\ t * w \in Nat
    BY <2>1, <2>2
  <2> QED
    BY <1>2, <1>3, <2>1, <2>2, <2>3
<1>5. weighted \in [K -> Int] /\ improved \in [K -> Int]
  BY <1>2, <1>3, <1>4
<1>6. SumFunction(weighted) <= SumFunction(improved)
  BY <1>1, <1>4, <1>5, SumMonotone
<1>7. DOMAIN scores = K /\ DOMAIN better = K
  OBVIOUS
<1> QED
  BY <1>2, <1>3, <1>6, <1>7 DEF TechnicalScore

\* Scores and sections that are no lower, with no more violations of any
\* severity, never lead to a worse recommendation, whatever the weights.
THEOREM RecommendationIsMonotone ==
  ASSUME NEW K \in SUBSET Specs, NEW scores \in [K -> Nat], NEW better \in [K -> Nat],
         \A k \in K : scores[k] <= better[k],
         NEW sections \in Sections, NEW others \in Sections,
         NoLower(sections, others),
         NEW counts \in [Severities -> Nat], NEW fewer \in [Severities -> Nat],
         \A s \in Severities : fewer[s] <= counts[s]
  PROVE  Rank(Recommendation(scores, sections, counts))
           <= Rank(Recommendation(better, others, fewer))
<1>1. PICK n, m, d : /\ n = TechnicalScore(scores).n /\ m = TechnicalScore(better).n
                     /\ d = TechnicalScore(scores).d
  OBVIOUS
<1>2. /\ n \in Nat /\ m \in Nat /\ d \in Nat \ {0} /\ n <= m
      /\ d = TechnicalScore(better).d
  BY <1>1, TechnicalType, TechnicalMonotone
<1>3. PICK x, y : x = Others(sections, counts) /\ y = Others(others, fewer)
  OBVIOUS
<1>4. x \in Int /\ y \in Int /\ x <= y
  BY <1>3, OthersMonotone
<1>5. x * d <= y * d /\ x * d \in Int /\ y * d \in Int
  BY <1>2, <1>4
<1>6. ASSUME NEW limit \in Nat, TechnicalBelow(better, limit)
      PROVE  TechnicalBelow(scores, limit)
  <2>1. limit * d \in Int
    BY <1>2
  <2> QED
    BY <1>1, <1>2, <1>6, <2>1 DEF TechnicalBelow
<1>7. ASSUME NEW limit \in Nat, FinalAtLeast(scores, sections, counts, limit)
      PROVE  FinalAtLeast(better, others, fewer, limit)
  <2>1. 15 * n + x * d >= 20 * limit * d
    BY <1>1, <1>3, <1>7 DEF FinalAtLeast, Others
  <2>2. 20 * limit * d \in Int
    BY <1>2
  <2>3. 15 * m + y * d >= 20 * limit * d
    BY <1>2, <1>5, <2>1, <2>2
  <2> QED
    BY <1>1, <1>2, <1>3, <2>3 DEF FinalAtLeast, Others
<1>8. ASSUME HardGate(better, fewer) PROVE HardGate(scores, counts)
  <2>1. CASE Total(fewer) > ViolationGate
    <3>1. /\ \A s \in Severities : counts[s] \in Nat /\ fewer[s] \in Nat
          /\ Severities = {"low", "medium", "high", "critical"}
      BY DEF Severities
    <3>2. Total(fewer) <= Total(counts) /\ Total(fewer) \in Nat /\ Total(counts) \in Nat
      BY <3>1 DEF Total
    <3> QED
      BY <2>1, <3>2, SpecAssumption DEF HardGate
  <2>2. CASE fewer["critical"] > 0
    <3>1. /\ counts["critical"] \in Nat /\ fewer["critical"] \in Nat
          /\ fewer["critical"] <= counts["critical"]
      BY DEF Severities
    <3> QED
      BY <2>2, <3>1 DEF HardGate
  <2>3. CASE TechnicalBelow(better, 500)
    BY <1>6, <2>3 DEF HardGate
  <2>4. CASE \E k \in DOMAIN better : Priority[k] >= 700 /\ better[k] < 400
    <3>1. PICK k \in K : Priority[k] >= 700 /\ better[k] < 400
      BY <2>4
    <3>2. scores[k] < 400
      BY <3>1
    <3> QED
      BY <3>1, <3>2 DEF HardGate
  <2> QED
    BY <1>8, <2>1, <2>2, <2>3, <2>4 DEF HardGate
<1>9. /\ FinalAtLeast(scores, sections, counts, 500)
           => FinalAtLeast(better, others, fewer, 500)
      /\ FinalAtLeast(scores, sections, counts, 750)
           => FinalAtLeast(better, others, fewer, 750)
      /\ TechnicalBelow(better, 700) => TechnicalBelow(scores, 700)
  BY <1>6, <1>7
\* A final score of 7.5 is one of 5.0.
<1>10. FinalAtLeast(better, others, fewer, 750)
         => FinalAtLeast(better, others, fewer, 500)
  <2>1. 20 * 750 * d >= 20 * 500 * d /\ 15 * m + y * d \in Int
    BY <1>2, <1>5
  <2> QED
    BY <1>1, <1>2, <1>3, <2>1 DEF FinalAtLeast, Others
<1> QED
  BY <1>8, <1>9, <1>10 DEF Recommendation, Rank

-----------------------------------------------------------------------------
\* The violations normalized.

\* The function by which NormalizeViolations is defined: what is kept of the
\* first i records.
Keeps(records, Kept) ==
  Kept = [i \in 0 .. Len(records) |->
            IF i = 0 THEN <<>>
            ELSE LET v == records[i]
                 IN CASE v.type \in Singletons
                         /\ \A j \in 1 .. (i - 1) : records[j].type # v.type ->
                           Append(Kept[i - 1], Aggregate(records, v.type))
                      [] v.type \notin Singletons /\ v.affects ->
                           Append(Kept[i - 1], v)
                      [] OTHER -> Kept[i - 1]]

\* Where the record at i is the first of its category, or counts by itself.
FirstOfCategory(records, i) ==
  /\ records[i].type \in Singletons
  /\ \A j \in 1 .. (i - 1) : records[j].type # records[i].type
Counted(records, i) == records[i].type \notin Singletons /\ records[i].affects

Indices(records, type) == {i \in 1 .. Len(records) : records[i].type = type}

\* The one record of a category is a violation, with at least one occurrence.
LEMMA AggregateType ==
  ASSUME NEW records \in Seq(Violation), NEW type \in Singletons,
         NEW i \in 1 .. Len(records), records[i].type = type
  PROVE  /\ Aggregate(records, type) \in Violation
         /\ Aggregate(records, type).occurrences >= 1
         /\ Aggregate(records, type).type = type
<1> DEFINE of == {k \in 1 .. Len(records) : records[k].type = type}
           claims == {Cardinality(of)} \union {records[k].occurrences : k \in of}
<1>1. Len(records) \in Nat /\ \A k \in 1 .. Len(records) : records[k] \in Violation
  BY LenProperties, ElementOfSeq
<1>2. IsFiniteSet(of)
  <2>1. IsFiniteSet(1 .. Len(records)) /\ of \subseteq 1 .. Len(records)
    BY <1>1, FS_Interval
  <2> HIDE DEF of
  <2> QED
    BY <2>1, FS_Subset
<1>3. Cardinality(of) \in Nat /\ Cardinality(of) >= 1
  <2>1. of # {}
    OBVIOUS
  <2> HIDE DEF of
  <2> QED
    BY <1>2, <2>1, FS_CardinalityType, FS_EmptySet
<1>4. claims \subseteq Nat
  BY <1>1, <1>3 DEF Violation
<1>5. IsFiniteSet(claims)
  <2> DEFINE f == [k \in of |-> records[k].occurrences]
             R == {records[k].occurrences : k \in of}
             C == {Cardinality(of)}
  <2>1. f \in Surjection(of, R)
    BY DEF Surjection
  <2>2. IsFiniteSet(R)
    <3> HIDE DEF f, R, of
    <3> QED
      BY <1>2, <2>1, FS_Surjection
  <2>3. IsFiniteSet(C)
    BY FS_Singleton
  <2>4. claims = C \union R
    OBVIOUS
  <2> HIDE DEF R, of, C, claims
  <2> QED
    BY <2>2, <2>3, <2>4, FS_Union
<1>6. PICK m \in claims : \A k \in claims : k <= m
  <2>1. Cardinality(of) \in claims
    OBVIOUS
  <2>2. claims \in SUBSET Int
    BY <1>4
  <2> HIDE DEF claims, of
  <2> QED
    BY <1>5, <2>1, <2>2, GreatestElement
<1>7. Max(claims) \in claims /\ \A k \in claims : Max(claims) >= k
  <2>1. \A k \in claims : m >= k
    BY <1>4, <1>6
  <2> HIDE DEF claims
  <2> QED
    BY <1>6, <2>1 DEF Max
<1>8. Max(claims) \in Nat /\ Max(claims) >= 1
  <2>1. Cardinality(of) \in claims
    OBVIOUS
  <2>2. PICK x : x = Max(claims)
    OBVIOUS
  <2>3. PICK c : c = Cardinality(of)
    OBVIOUS
  <2> HIDE DEF claims, of
  <2>4. x \in claims /\ x >= c
    BY <1>7, <2>1, <2>2, <2>3
  <2>5. x \in Nat /\ c \in Nat /\ c >= 1
    BY <1>3, <1>4, <2>3, <2>4
  <2> QED
    BY <2>2, <2>4, <2>5
<1>9. PolicySeverity(type) \in Severities
  BY DEF PolicySeverity, Severities
<1>10. Aggregate(records, type) =
         [type |-> type, affects |-> TRUE, severity |-> PolicySeverity(type),
          occurrences |-> Max(claims)]
  BY DEF Aggregate
<1> HIDE DEF claims
<1> QED
  BY <1>8, <1>9, <1>10 DEF Violation

\* What the record at i adds.
Addition(records, i) ==
  IF records[i].type \in Singletons THEN Aggregate(records, records[i].type)
                                    ELSE records[i]

KeptBy(records, K) ==
  /\ K[0] = <<>>
  /\ \A i \in 1 .. Len(records) :
       K[i] = IF FirstOfCategory(records, i) \/ Counted(records, i)
              THEN Append(K[i - 1], Addition(records, i)) ELSE K[i - 1]

\* What a record adds is a violation.
LEMMA AdditionType ==
  ASSUME NEW records \in Seq(Violation), NEW i \in 1 .. Len(records)
  PROVE  Addition(records, i) \in Violation
<1>1. records[i] \in Violation
  BY ElementOfSeq
<1>2. CASE records[i].type \in Singletons
  BY <1>2, AggregateType DEF Addition
<1> QED
  BY <1>1, <1>2 DEF Addition

\* A function that keeps the records one after the other exists.
LEMMA KeptExists ==
  ASSUME NEW records \in Seq(Violation)
  PROVE  \E K \in [0 .. Len(records) -> Seq(Violation)] : KeptBy(records, K)
<1> DEFINE V == Seq(Violation)
           step == [x \in (1 .. Len(records)) \X V |->
                      IF FirstOfCategory(records, x[1]) \/ Counted(records, x[1])
                      THEN Append(x[2], Addition(records, x[1])) ELSE x[2]]
<1>1. Len(records) \in Nat
  BY LenProperties
<1>2. ASSUME NEW x \in (1 .. Len(records)) \X V PROVE step[x] \in V
  BY AdditionType, AppendProperties
<1>3. step \in [(1 .. Len(records)) \X V -> V]
  <2>1. step = [x \in (1 .. Len(records)) \X V |-> step[x]]
    OBVIOUS
  <2> HIDE DEF step
  <2> QED
    BY <1>2, <2>1
<1>4. <<>> \in V
  BY EmptySeq
<1>5. PICK f \in [0 .. Len(records) -> V] :
        Recursive(f, Len(records), <<>>, step)
  <2> HIDE DEF step, V
  <2> QED
    BY <1>1, <1>3, <1>4, RecursionExists
<1>6. ASSUME NEW i \in 1 .. Len(records)
      PROVE  f[i] = IF FirstOfCategory(records, i) \/ Counted(records, i)
                    THEN Append(f[i - 1], Addition(records, i)) ELSE f[i - 1]
  <2>1. i - 1 \in 0 .. Len(records)
    BY <1>1
  <2>2. <<i, f[i - 1]>> \in (1 .. Len(records)) \X V
    BY <2>1
  <2>3. f[i] = step[<<i, f[i - 1]>>]
    <3> HIDE DEF step
    <3> QED
      BY <1>5 DEF Recursive
  <2> QED
    BY <2>2, <2>3
<1>7. f[0] = <<>>
  BY <1>5 DEF Recursive
<1> QED
  BY <1>5, <1>6, <1>7 DEF KeptBy

\* Normalizing is by such a function.
LEMMA NormalizedBy ==
  ASSUME NEW records \in Seq(Violation)
  PROVE  \E K : /\ KeptBy(records, K)
                /\ NormalizeViolations(records) = K[Len(records)]
<1>1. Len(records) \in Nat
  BY LenProperties
<1>2. PICK f \in [0 .. Len(records) -> Seq(Violation)] : KeptBy(records, f)
  BY KeptExists
<1>3. ASSUME NEW K, NEW i \in 1 .. Len(records)
      PROVE  (LET v == records[i]
              IN CASE v.type \in Singletons
                      /\ \A j \in 1 .. (i - 1) : records[j].type # v.type ->
                        Append(K[i - 1], Aggregate(records, v.type))
                   [] v.type \notin Singletons /\ v.affects ->
                        Append(K[i - 1], v)
                   [] OTHER -> K[i - 1])
             = IF FirstOfCategory(records, i) \/ Counted(records, i)
               THEN Append(K[i - 1], Addition(records, i)) ELSE K[i - 1]
  BY DEF FirstOfCategory, Counted, Addition
<1> DEFINE Step(K, i) ==
             LET v == records[i]
             IN CASE v.type \in Singletons
                     /\ \A j \in 1 .. (i - 1) : records[j].type # v.type ->
                       Append(K[i - 1], Aggregate(records, v.type))
                  [] v.type \notin Singletons /\ v.affects ->
                       Append(K[i - 1], v)
                  [] OTHER -> K[i - 1]
<1>4. ASSUME NEW K
      PROVE  Keeps(records, K) <=>
               K = [i \in 0 .. Len(records) |-> IF i = 0 THEN <<>> ELSE Step(K, i)]
  BY DEF Keeps
<1>5. ASSUME NEW K, Keeps(records, K) PROVE KeptBy(records, K)
  <2>1. K = [i \in 0 .. Len(records) |-> IF i = 0 THEN <<>> ELSE Step(K, i)]
    BY <1>4, <1>5
  <2> HIDE DEF Step
  <2>2. K[0] = <<>>
    BY <1>1, <2>1
  <2>3. ASSUME NEW i \in 1 .. Len(records) PROVE K[i] = Step(K, i)
    <3>1. i \in 0 .. Len(records) /\ i # 0
      BY <1>1
    <3> QED
      BY <2>1, <3>1
  <2>4. ASSUME NEW i \in 1 .. Len(records)
        PROVE  Step(K, i) =
                 IF FirstOfCategory(records, i) \/ Counted(records, i)
                 THEN Append(K[i - 1], Addition(records, i)) ELSE K[i - 1]
    BY <1>3 DEF Step
  <2> QED
    BY <2>2, <2>3, <2>4 DEF KeptBy
<1>6. Keeps(records, f)
  <2>1. \A i \in 1 .. Len(records) : f[i] = Step(f, i)
    <3>1. ASSUME NEW i \in 1 .. Len(records)
          PROVE  Step(f, i) =
                   IF FirstOfCategory(records, i) \/ Counted(records, i)
                   THEN Append(f[i - 1], Addition(records, i)) ELSE f[i - 1]
      BY <1>3
    <3> HIDE DEF Step
    <3> QED
      BY <1>2, <3>1 DEF KeptBy
  <2>2. f[0] = <<>>
    BY <1>2 DEF KeptBy
  <2>3. f = [i \in 0 .. Len(records) |-> IF i = 0 THEN <<>> ELSE Step(f, i)]
    <3> HIDE DEF Step
    <3> QED
      BY <1>1, <1>2, <2>1, <2>2
  <2> QED
    BY <1>4, <2>3
<1>7. NormalizeViolations(records) = (CHOOSE K : Keeps(records, K))[Len(records)]
  BY DEF NormalizeViolations, Keeps
<1>8. PICK K : K = CHOOSE k : Keeps(records, k)
  OBVIOUS
<1>9. Keeps(records, K)
  BY <1>6, <1>8
<1> QED
  BY <1>5, <1>7, <1>8, <1>9

\* What normalizing leaves behind: each category once, as the policy has it.
Proper(v) ==
  /\ v.affects = TRUE
  /\ v.type \in Singletons =>
       v.severity = PolicySeverity(v.type) /\ v.occurrences >= 1

Normal(m) ==
  /\ m \in Seq(Violation)
  /\ \A i \in 1 .. Len(m) : Proper(m[i])
  /\ \A i, j \in 1 .. Len(m) :
       m[i].type \in Singletons /\ m[j].type = m[i].type => i = j

Occurs(m, type, n) == \E i \in 1 .. n : m[i].type = type

\* One more record of a category not seen before, or of none.
LEMMA NormalAppended ==
  ASSUME NEW m, Normal(m), NEW v \in Violation, Proper(v),
         v.type \in Singletons => ~Occurs(m, v.type, Len(m))
  PROVE  /\ Normal(Append(m, v))
         /\ Len(m) \in Nat /\ Len(Append(m, v)) = Len(m) + 1
         /\ \A type : Occurs(Append(m, v), type, Len(Append(m, v))) <=>
                        Occurs(m, type, Len(m)) \/ type = v.type
<1>1. PICK a : a = Append(m, v)
  OBVIOUS
<1>2. PICK n : n = Len(m)
  OBVIOUS
<1>3. /\ m \in Seq(Violation) /\ n \in Nat /\ a \in Seq(Violation)
      /\ Len(a) = n + 1 /\ a[n + 1] = v
      /\ \A i \in 1 .. n : a[i] = m[i]
  BY <1>1, <1>2, LenProperties, AppendProperties DEF Normal
<1>4. \A i \in 1 .. (n + 1) : i \in 1 .. n \/ i = n + 1
  BY <1>3
<1>5. \A i \in 1 .. Len(a) : Proper(a[i])
  BY <1>2, <1>3, <1>4 DEF Normal
<1>6. ASSUME NEW i \in 1 .. Len(a), NEW j \in 1 .. Len(a),
             a[i].type \in Singletons, a[j].type = a[i].type
      PROVE  i = j
  <2>1. CASE i \in 1 .. n /\ j \in 1 .. n
    BY <1>2, <1>3, <1>6, <2>1 DEF Normal
  <2>2. CASE i = n + 1 /\ j \in 1 .. n
    BY <1>2, <1>3, <1>6, <2>2 DEF Occurs
  <2>3. CASE i \in 1 .. n /\ j = n + 1
    BY <1>2, <1>3, <1>6, <2>3 DEF Occurs
  <2>4. CASE i = n + 1 /\ j = n + 1
    BY <2>4
  <2> QED
    BY <1>3, <1>4, <2>1, <2>2, <2>3, <2>4
<1>7. ASSUME NEW type
      PROVE  Occurs(a, type, Len(a)) <=> Occurs(m, type, Len(m)) \/ type = v.type
  <2>1. n + 1 \in 1 .. (n + 1) /\ \A i \in 1 .. n : i \in 1 .. (n + 1)
    BY <1>3
  <2> QED
    BY <1>2, <1>3, <1>4, <2>1 DEF Occurs
<1>8. Normal(a)
  BY <1>3, <1>5, <1>6 DEF Normal
<1> QED
  BY <1>1, <1>2, <1>3, <1>7, <1>8

\* What is kept of the first n records.
KeptSo(records, m, n) ==
  /\ Normal(m) /\ Len(m) <= n
  /\ \A type \in Singletons : Occurs(m, type, Len(m)) <=> Occurs(records, type, n)

\* One more record leaves what is kept normal.
LEMMA KeptStep ==
  ASSUME NEW records \in Seq(Violation), NEW K, KeptBy(records, K),
         NEW n \in 0 .. (Len(records) - 1), KeptSo(records, K[n], n)
  PROVE  KeptSo(records, K[n + 1], n + 1)
<1>1. PICK i : i = n + 1
  OBVIOUS
<1>2. /\ Len(records) \in Nat /\ i \in 1 .. Len(records) /\ n \in Nat
      /\ i - 1 = n /\ records[i] \in Violation
  <2>1. Len(records) \in Nat /\ n \in Nat /\ i \in 1 .. Len(records) /\ i - 1 = n
    BY <1>1, LenProperties
  <2> QED
    BY <2>1, ElementOfSeq
<1>3. PICK m : m = K[n]
  OBVIOUS
<1>4. /\ Normal(m) /\ Len(m) <= n /\ Len(m) \in Nat
      /\ \A type \in Singletons :
           Occurs(m, type, Len(m)) <=> Occurs(records, type, n)
  BY <1>3, LenProperties DEF KeptSo, Normal
<1>5. K[i] = IF FirstOfCategory(records, i) \/ Counted(records, i)
             THEN Append(m, Addition(records, i)) ELSE m
  BY <1>2, <1>3 DEF KeptBy
<1>6. \A type : Occurs(records, type, i) <=>
                  Occurs(records, type, n) \/ type = records[i].type
  <2>1. \A j : j \in 1 .. i <=> j \in 1 .. n \/ j = i
    BY <1>1, <1>2
  <2> QED
    BY <2>1 DEF Occurs
<1>7. FirstOfCategory(records, i) <=>
        records[i].type \in Singletons /\ ~Occurs(records, records[i].type, n)
  BY <1>2 DEF FirstOfCategory, Occurs
<1>8. CASE FirstOfCategory(records, i) \/ Counted(records, i)
  <2>1. PICK v : v = Addition(records, i)
    OBVIOUS
  <2>2. v \in Violation /\ v.type = records[i].type /\ Proper(v)
    <3>1. v \in Violation
      BY <1>2, <2>1, AdditionType
    <3>2. CASE records[i].type \in Singletons
      <4>1. v = Aggregate(records, records[i].type)
        BY <2>1, <3>2 DEF Addition
      <4>2. v.occurrences >= 1 /\ v.type = records[i].type
        BY <1>2, <3>2, <4>1, AggregateType
      <4>3. v.affects = TRUE /\ v.severity = PolicySeverity(records[i].type)
        BY <4>1 DEF Aggregate
      <4> QED
        BY <3>1, <4>2, <4>3 DEF Proper
    <3>3. CASE records[i].type \notin Singletons
      <4>1. v = records[i]
        BY <2>1, <3>3 DEF Addition
      <4>2. records[i].affects = TRUE
        BY <1>2, <1>8, <3>3 DEF FirstOfCategory, Counted, Violation
      <4> QED
        BY <3>1, <3>3, <4>1, <4>2 DEF Proper
    <3> QED
      BY <3>2, <3>3
  <2>3. v.type \in Singletons => ~Occurs(m, v.type, Len(m))
    BY <1>4, <1>7, <1>8, <2>2 DEF Counted
  <2>4. /\ Normal(Append(m, v)) /\ Len(Append(m, v)) = Len(m) + 1
        /\ \A type : Occurs(Append(m, v), type, Len(Append(m, v))) <=>
                       Occurs(m, type, Len(m)) \/ type = v.type
    BY <1>4, <2>2, <2>3, NormalAppended
  <2>5. K[i] = Append(m, v)
    BY <1>5, <1>8, <2>1
  <2>6. Len(Append(m, v)) <= i
    BY <1>1, <1>2, <1>4, <2>4
  <2>7. \A type \in Singletons :
          Occurs(Append(m, v), type, Len(Append(m, v))) <=> Occurs(records, type, i)
    BY <1>4, <1>6, <2>2, <2>4
  <2> QED
    BY <1>1, <2>4, <2>5, <2>6, <2>7 DEF KeptSo
<1>9. CASE ~(FirstOfCategory(records, i) \/ Counted(records, i))
  <2>1. K[i] = m /\ Len(m) <= i
    BY <1>1, <1>2, <1>4, <1>5, <1>9
  <2>2. \A type \in Singletons :
          Occurs(m, type, Len(m)) <=> Occurs(records, type, i)
    BY <1>4, <1>6, <1>7, <1>9
  <2> QED
    BY <1>1, <1>4, <2>1, <2>2 DEF KeptSo
<1> QED
  BY <1>8, <1>9

\* Normalized violations are normal, no more than were recorded, and of the
\* same categories.
LEMMA Normalized ==
  ASSUME NEW records \in Seq(Violation)
  PROVE  KeptSo(records, NormalizeViolations(records), Len(records))
<1>1. PICK K : /\ KeptBy(records, K)
               /\ NormalizeViolations(records) = K[Len(records)]
  BY NormalizedBy
<1>2. PICK N \in Nat : N = Len(records)
  BY LenProperties
<1> DEFINE P == {n \in 0 .. N : KeptSo(records, K[n], n)}
<1>3. 0 \in P
  <2>1. K[0] = <<>> /\ <<>> \in Seq(Violation) /\ Len(<<>>) = 0
    BY <1>1, EmptySeq DEF KeptBy
  <2>2. Normal(<<>>)
    BY <2>1 DEF Normal
  <2>3. KeptSo(records, <<>>, 0)
    BY <2>1, <2>2 DEF KeptSo, Occurs
  <2> QED
    BY <2>1, <2>3
<1>4. ASSUME NEW n \in 0 .. (N - 1), n \in P PROVE n + 1 \in P
  <2>1. n + 1 \in 0 .. N
    OBVIOUS
  <2> QED
    BY <1>1, <1>2, <1>4, <2>1, KeptStep
<1>5. N \in P
  <2> HIDE DEF P
  <2> QED
    BY <1>2, <1>3, <1>4, IntervalInduction
<1> QED
  BY <1>1, <1>2, <1>5

\* A category that occurs once is its own aggregate.
LEMMA AggregateOfOne ==
  ASSUME NEW m, Normal(m), NEW i \in 1 .. Len(m), m[i].type \in Singletons
  PROVE  Aggregate(m, m[i].type) = m[i]
<1>1. PICK v : v = m[i]
  OBVIOUS
<1>2. /\ v \in Violation /\ v.type \in Singletons /\ v.affects = TRUE
      /\ v.severity = PolicySeverity(v.type) /\ v.occurrences >= 1
  BY <1>1, ElementOfSeq DEF Normal, Proper
<1>3. {k \in 1 .. Len(m) : m[k].type = v.type} = {i}
  BY <1>1, <1>2 DEF Normal
<1>4. Cardinality({i}) = 1
  BY FS_Singleton
<1>5. {m[k].occurrences : k \in {i}} = {v.occurrences}
  BY <1>1
<1> DEFINE claims == {1} \union {v.occurrences}
<1>6. Aggregate(m, v.type) =
        [type |-> v.type, affects |-> TRUE, severity |-> PolicySeverity(v.type),
         occurrences |-> Max(claims)]
  BY <1>3, <1>4, <1>5 DEF Aggregate
<1>7. Max(claims) = v.occurrences
  <2>1. v.occurrences \in Nat
    BY <1>2 DEF Violation
  <2>2. v.occurrences \in claims /\ \A k \in claims : v.occurrences >= k
    BY <1>2, <2>1
  <2>3. \A x \in claims : (\A k \in claims : x >= k) => x = v.occurrences
    BY <1>2, <2>1
  <2>4. Max(claims) \in claims /\ \A k \in claims : Max(claims) >= k
    <3> HIDE DEF claims
    <3> QED
      BY <2>2 DEF Max
  <2> HIDE DEF claims
  <2> QED
    BY <2>3, <2>4
<1>8. v = [type |-> v.type, affects |-> v.affects,
           occurrences |-> v.occurrences, severity |-> v.severity]
  BY <1>2 DEF Violation
<1> QED
  BY <1>1, <1>2, <1>6, <1>7, <1>8

\* The first n elements of m.
Prefix(m, s, n) ==
  s \in Seq(Violation) /\ Len(s) = n /\ \A j \in 1 .. n : s[j] = m[j]

\* Normal violations stay as they are when they are normalized.
LEMMA NormalizedAgain ==
  ASSUME NEW m, Normal(m)
  PROVE  NormalizeViolations(m) = m
<1>1. m \in Seq(Violation)
  BY DEF Normal
<1>2. PICK K : KeptBy(m, K) /\ NormalizeViolations(m) = K[Len(m)]
  BY <1>1, NormalizedBy
<1>3. PICK N \in Nat : N = Len(m)
  BY <1>1, LenProperties
<1> DEFINE P == {n \in 0 .. N : Prefix(m, K[n], n)}
<1>4. 0 \in P
  <2>1. K[0] = <<>> /\ <<>> \in Seq(Violation) /\ Len(<<>>) = 0
    BY <1>2, EmptySeq DEF KeptBy
  <2>2. Prefix(m, <<>>, 0)
    BY <2>1 DEF Prefix
  <2> QED
    BY <2>1, <2>2
<1>5. ASSUME NEW n \in 0 .. (N - 1), n \in P PROVE n + 1 \in P
  <2>1. PICK i : i = n + 1
    OBVIOUS
  <2>2. /\ n \in Nat /\ i \in 1 .. Len(m) /\ i \in 0 .. N /\ i - 1 = n
    BY <1>3, <2>1
  <2>3. m[i] \in Violation /\ Proper(m[i])
    BY <1>1, <2>2, ElementOfSeq DEF Normal
  <2>4. PICK s : s = K[n]
    OBVIOUS
  <2>5. s \in Seq(Violation) /\ Len(s) = n /\ \A j \in 1 .. n : s[j] = m[j]
    BY <1>5, <2>4 DEF Prefix
  <2>6. FirstOfCategory(m, i) \/ Counted(m, i)
    <3>1. CASE m[i].type \in Singletons
      <4>1. \A j \in 1 .. (i - 1) : j \in 1 .. Len(m) /\ j # i
        BY <1>3, <2>2
      <4>2. \A j \in 1 .. (i - 1) : m[j].type # m[i].type
        BY <2>2, <3>1, <4>1 DEF Normal
      <4> QED
        BY <3>1, <4>2 DEF FirstOfCategory
    <3>2. CASE m[i].type \notin Singletons
      BY <2>3, <3>2 DEF Counted, Proper
    <3> QED
      BY <3>1, <3>2
  <2>7. Addition(m, i) = m[i]
    BY <2>2, AggregateOfOne DEF Addition
  <2>8. K[i] = Append(s, m[i])
    BY <1>2, <2>2, <2>4, <2>6, <2>7 DEF KeptBy
  <2>9. Prefix(m, Append(s, m[i]), i)
    <3>1. /\ Append(s, m[i]) \in Seq(Violation) /\ Len(Append(s, m[i])) = n + 1
          /\ \A j \in 1 .. n : Append(s, m[i])[j] = s[j]
          /\ Append(s, m[i])[n + 1] = m[i]
      BY <2>3, <2>5, AppendProperties
    <3>2. \A j \in 1 .. i : j \in 1 .. n \/ j = n + 1
      BY <2>1, <2>2
    <3> QED
      BY <2>1, <2>5, <3>1, <3>2 DEF Prefix
  <2> QED
    BY <2>1, <2>2, <2>8, <2>9
<1>6. N \in P
  <2> HIDE DEF P
  <2> QED
    BY <1>4, <1>5, IntervalInduction
<1>7. Prefix(m, K[N], N)
  BY <1>6
<1>8. K[N] = m
  BY <1>1, <1>3, <1>7, SeqEqual DEF Prefix
<1> QED
  BY <1>2, <1>3, <1>8

\* A category occurs among normal violations when it occurs exactly once.
LEMMA OnceWhenAtAll ==
  ASSUME NEW m, Normal(m), NEW type \in Singletons
  PROVE  Occurs(m, type, Len(m)) <=>
           Cardinality({i \in 1 .. Len(m) : m[i].type = type}) = 1
<1> DEFINE at == {i \in 1 .. Len(m) : m[i].type = type}
<1>1. CASE Occurs(m, type, Len(m))
  <2>1. PICK i \in 1 .. Len(m) : m[i].type = type
    BY <1>1 DEF Occurs
  <2>2. at = {i}
    BY <2>1 DEF Normal
  <2>3. Cardinality({i}) = 1
    BY FS_Singleton
  <2> QED
    BY <1>1, <2>2, <2>3
<1>2. CASE ~Occurs(m, type, Len(m))
  <2>1. at = {}
    BY <1>2 DEF Occurs
  <2>2. Cardinality({}) = 0
    BY FS_EmptySet
  <2> QED
    BY <1>2, <2>1, <2>2
<1> QED
  BY <1>1, <1>2

\* What the policy demands can be met: as many violations as it asks for were
\* validated.
LEMMA MinimumAccepted ==
  ASSUME NEW m \in Seq(Violation), NEW n \in Nat, Len(m) <= n
  PROVE  \E counts \in [Severities -> 0 .. n] : Accepted(counts, m)
<1> DEFINE types == {m[i].type : i \in 1 .. Len(m)}
           L == types \cap {"tab_switch"}
           H == types \cap (Singletons \ {"tab_switch"})
<1>1. Len(m) \in Nat
  BY LenProperties
<1>2. IsFiniteSet(types) /\ Cardinality(types) <= Len(m)
  <2> DEFINE f == [i \in 1 .. Len(m) |-> m[i].type]
             I == 1 .. Len(m)
  <2>1. f \in Surjection(I, types)
    BY DEF Surjection
  <2>2. IsFiniteSet(I) /\ Cardinality(I) = Len(m)
    <3>1. PICK k \in Nat : k = Len(m)
      BY <1>1
    <3>2. /\ IsFiniteSet(1 .. k)
          /\ Cardinality(1 .. k) = IF 1 > k THEN 0 ELSE k-1+1
      BY FS_Interval, 1 \in Int, k \in Int
    <3>3. Cardinality(1 .. k) = k
      BY <3>2
    <3> QED
      BY <3>1, <3>2, <3>3
  <2> HIDE DEF f, I, types
  <2> QED
    BY <2>1, <2>2, FS_Surjection
<1>3. /\ IsFiniteSet(L) /\ IsFiniteSet(H) /\ IsFiniteSet(L \union H)
      /\ Cardinality(L) + Cardinality(H) <= Cardinality(types)
      /\ Cardinality(L) \in Nat /\ Cardinality(H) \in Nat
      /\ Cardinality(types) \in Nat
  <2>1. L \subseteq types /\ H \subseteq types /\ L \cap H = {}
    OBVIOUS
  <2> HIDE DEF L, H, types
  <2>2. IsFiniteSet(L) /\ IsFiniteSet(H)
    BY <1>2, <2>1, FS_Subset
  <2>3. /\ IsFiniteSet(L \union H)
        /\ Cardinality(L \union H) =
             Cardinality(L) + Cardinality(H) - Cardinality({})
    BY <2>1, <2>2, FS_Union
  <2>4. Cardinality(L \union H) <= Cardinality(types)
    <3>1. L \union H \subseteq types
      BY <2>1
    <3> QED
      BY <1>2, <3>1, FS_Subset
  <2>5. Cardinality({}) = 0
    BY FS_EmptySet
  <2>6. Cardinality(L) \in Nat /\ Cardinality(H) \in Nat /\ Cardinality(types) \in Nat
    BY <1>2, <2>2, FS_CardinalityType
  <2> QED
    BY <2>2, <2>3, <2>4, <2>5, <2>6
<1>4. PICK l \in Nat, h \in Nat : l = Cardinality(L) /\ h = Cardinality(H)
  BY <1>3
<1>5. l + h <= Len(m)
  BY <1>1, <1>2, <1>3, <1>4
<1>6. PICK counts : counts = MinimumCounts(m)
  OBVIOUS
<1>7. counts = [s \in Severities |->
                  CASE s = "low" -> l [] s = "high" -> h [] OTHER -> 0]
  BY <1>4, <1>6 DEF MinimumCounts
<1>8. /\ counts["low"] = l /\ counts["high"] = h
      /\ counts["medium"] = 0 /\ counts["critical"] = 0
  BY <1>7 DEF Severities
<1>9. counts \in [Severities -> 0 .. n]
  BY <1>1, <1>5, <1>7 DEF Severities
<1>10. Total(counts) <= Len(m)
  BY <1>1, <1>5, <1>8 DEF Total
<1>11. \A s \in Severities : counts[s] >= MinimumCounts(m)[s]
  BY <1>6, <1>9
<1> QED
  BY <1>9, <1>10, <1>11 DEF Accepted

\* Scored once per category, whatever violations were recorded.
LEMMA ScoredOnce ==
  ASSUME violations \in Seq(Violation)
  PROVE  ScoredOncePerCategory
<1>1. PICK m : m = NormalizeViolations(violations)
  OBVIOUS
<1>2. PICK n \in Nat : n = Len(violations)
  BY LenProperties
<1>3. Normal(m) /\ Len(m) <= n /\ m \in Seq(Violation)
  BY <1>1, <1>2, Normalized DEF KeptSo, Normal
<1>4. NormalizeViolations(m) = m
  BY <1>3, NormalizedAgain
<1>5. \A type \in Singletons :
        (\E i \in 1 .. Len(violations) : violations[i].type = type) <=>
          Cardinality({i \in 1 .. Len(m) : m[i].type = type}) = 1
  <2>1. ASSUME NEW type \in Singletons
        PROVE  Occurs(violations, type, Len(violations)) <=>
                 Cardinality({i \in 1 .. Len(m) : m[i].type = type}) = 1
    BY <1>1, <1>3, Normalized, OnceWhenAtAll DEF KeptSo
  <2> QED
    BY <2>1 DEF Occurs
<1>6. \E counts \in [Severities -> 0 .. Len(violations)] : Accepted(counts, m)
  BY <1>2, <1>3, MinimumAccepted
<1> QED
  BY <1>1, <1>4, <1>5, <1>6 DEF ScoredOncePerCategory

-----------------------------------------------------------------------------
\* The pairs of questions and answers.

Pair == [id : Ids \union {NoId} \union Nat, answers : SUBSET Nat]

Types ==
  /\ transcript \in Seq(Turn) /\ pairs \in Seq(Pair)
  /\ active \in 0 .. Len(pairs)

\* The pairs are those of the questions asked, one for each id.
AskedPairs ==
  /\ \A p, q \in 1 .. Len(pairs) : pairs[p].id = pairs[q].id => p = q
  /\ \A p \in 1 .. Len(pairs) : \E j \in Questions : pairs[p].id = IdAt(j)
  /\ \A j \in Questions : \E p \in 1 .. Len(pairs) : pairs[p].id = IdAt(j)

\* The active pair is that of the question last asked.
ActiveLast ==
  /\ active = 0 => Questions = {}
  /\ active # 0 => \E j \in Latest(Questions) : pairs[active].id = IdAt(j)

\* The question turn i belongs to has this id.
Belongs(i, id) ==
  IF Named(i) # {} THEN id = transcript[i].id
  ELSE \E j \in Latest({k \in Questions : k < i}) : id = IdAt(j)

Answered ==
  \A i \in 1 .. Len(transcript), p \in 1 .. Len(pairs) : \A id :
    id = pairs[p].id =>
      (i \in pairs[p].answers <=>
         transcript[i].speaker = "candidate" /\ Belongs(i, id))

\* Answers are numbers of turns already read.
ReadAnswers ==
  \A p \in 1 .. Len(pairs) : pairs[p].answers \subseteq 1 .. Len(transcript)

IInv == Types /\ AskedPairs /\ ActiveLast /\ Answered /\ ReadAnswers

-----------------------------------------------------------------------------
\* What one more turn does to the questions asked.
LEMMA TranscriptGrows ==
  ASSUME Types, NEW turn \in Turn, transcript' = Append(transcript, turn),
         NEW place, place = Len(transcript) + 1
  PROVE  /\ transcript' \in Seq(Turn) /\ Len(transcript) \in Nat
         /\ Len(transcript') = place /\ transcript'[place] = turn
         /\ \A i \in 1 .. Len(transcript) : transcript'[i] = transcript[i]
<1>1. transcript \in Seq(Turn) /\ Len(transcript) \in Nat
  BY LenProperties DEF Types
<1> QED
  BY <1>1, AppendProperties

\* A scored question is one more question, any other turn none.
LEMMA QuestionsGrow ==
  ASSUME Types, NEW turn \in Turn, transcript' = Append(transcript, turn),
         NEW place, place = Len(transcript) + 1
  PROVE  /\ Questions \subseteq 1 .. Len(transcript)
         /\ IsScoredQuestion(turn) => Questions' = Questions \union {place}
         /\ ~IsScoredQuestion(turn) => Questions' = Questions
         /\ \A j \in 1 .. Len(transcript) : IdAt(j)' = IdAt(j)
         /\ IdAt(place)' = QuestionId(turn, place)
<1>1. /\ Len(transcript) \in Nat /\ Len(transcript') = Len(transcript) + 1
      /\ transcript'[place] = turn
      /\ \A i \in 1 .. Len(transcript) : transcript'[i] = transcript[i]
  BY TranscriptGrows
<1>2. 1 .. Len(transcript') = 1 .. Len(transcript) \union {place}
  BY <1>1
<1>3. \A i \in 1 .. Len(transcript) :
        IsScoredQuestion(transcript'[i]) <=> IsScoredQuestion(transcript[i])
  BY <1>1
<1>4. Questions' = {i \in 1 .. Len(transcript') : IsScoredQuestion(transcript'[i])}
  BY DEF Questions, IsScoredQuestion
<1>5. /\ IsScoredQuestion(turn) => Questions' = Questions \union {place}
      /\ ~IsScoredQuestion(turn) => Questions' = Questions
  BY <1>1, <1>2, <1>3, <1>4 DEF Questions
<1>6. \A j \in 1 .. Len(transcript) : IdAt(j)' = IdAt(j)
  BY <1>1 DEF IdAt, QuestionId
<1>7. IdAt(place)' = QuestionId(turn, place)
  BY <1>1 DEF IdAt, QuestionId
<1> QED
  BY <1>5, <1>6, <1>7 DEF Questions

\* What a turn belonged to, it still belongs to.
LEMMA BelongsKept ==
  ASSUME Types, NEW turn \in Turn, transcript' = Append(transcript, turn),
         NEW i \in 1 .. Len(transcript), NEW id
  PROVE  Belongs(i, id)' <=> Belongs(i, id)
<1>1. PICK place : place = Len(transcript) + 1
  OBVIOUS
<1>2. /\ Len(transcript) \in Nat /\ transcript'[i] = transcript[i]
      /\ Questions \subseteq 1 .. Len(transcript)
      /\ Questions' = Questions \union {place} \/ Questions' = Questions
      /\ \A j \in 1 .. Len(transcript) : IdAt(j)' = IdAt(j)
  BY <1>1, TranscriptGrows, QuestionsGrow
<1>3. \A j : j \in Questions' /\ j < i <=> j \in Questions /\ j < i
  BY <1>1, <1>2
<1>4. Named(i)' = Named(i)
  BY <1>2, <1>3 DEF Named
<1>5. {k \in Questions : k < i}' = {k \in Questions : k < i}
  BY <1>3
<1>6. \A j \in Latest({k \in Questions : k < i}) : IdAt(j)' = IdAt(j)
  BY <1>2 DEF Latest
<1> QED
  BY <1>2, <1>4, <1>5, <1>6 DEF Belongs, Latest

\* A question read: its pair is made or found, and becomes the active one.
LEMMA QuestionStep ==
  ASSUME IInv, NEW turn \in Turn, transcript' = Append(transcript, turn),
         NEW place, place = Len(transcript) + 1,
         IsScoredQuestion(turn), ReadQuestion(turn, place)
  PROVE  IInv'
<1>0. Types /\ AskedPairs /\ ActiveLast /\ Answered /\ ReadAnswers
  BY DEF IInv
<1>1. PICK id : id = QuestionId(turn, place)
  OBVIOUS
<1>2. /\ Len(transcript) \in Nat /\ Len(transcript') = place
      /\ transcript' \in Seq(Turn) /\ transcript'[place] = turn
      /\ \A i \in 1 .. Len(transcript) : transcript'[i] = transcript[i]
  BY <1>0, TranscriptGrows
<1>3. /\ Questions \subseteq 1 .. Len(transcript)
      /\ Questions' = Questions \union {place}
      /\ \A j \in 1 .. Len(transcript) : IdAt(j)' = IdAt(j)
      /\ IdAt(place)' = id
  BY <1>0, <1>1, QuestionsGrow
<1>4. /\ place \in Latest(Questions)'
      /\ \A j \in Questions : j < place
  <2>1. \A j \in Questions : j < place
    BY <1>2, <1>3
  <2>2. place \in Nat /\ \A j \in Questions' : j <= place
    BY <1>2, <1>3, <2>1
  <2>3. Latest(Questions)' = {i \in Questions' : \A j \in Questions' : j <= i}
    BY DEF Latest
  <2> QED
    BY <1>3, <2>1, <2>2, <2>3
<1>5. turn.speaker # "candidate"
  BY DEF IsScoredQuestion
<1>6. Len(pairs) \in Nat /\ pairs \in Seq(Pair)
      /\ \A p \in 1 .. Len(pairs) : pairs[p] \in Pair
  BY <1>0, LenProperties, ElementOfSeq DEF Types
<1>7. CASE PairsOf(id) = {} /\ pairs' = Append(pairs, [id |-> id, answers |-> {}])
             /\ active' = Len(pairs) + 1
  <2>1. id \in Ids \union {NoId} \union Nat
    BY <1>1, <1>2 DEF QuestionId, Turn
  <2>2. [id |-> id, answers |-> {}] \in Pair
    BY <2>1 DEF Pair
  <2>3. /\ pairs' \in Seq(Pair) /\ Len(pairs') = Len(pairs) + 1
        /\ \A p \in 1 .. Len(pairs) : pairs'[p] = pairs[p]
        /\ pairs'[Len(pairs) + 1].id = id
        /\ pairs'[Len(pairs) + 1].answers = {}
    BY <1>6, <1>7, <2>2, AppendProperties
  <2>4. \A p \in 1 .. Len(pairs) : pairs[p].id # id
    BY <1>7 DEF PairsOf
  <2>5. Types'
    BY <1>2, <1>6, <1>7, <2>3 DEF Types
  <2>6. AskedPairs'
    <3>1. \A p, q \in 1 .. Len(pairs') :
            pairs'[p].id = pairs'[q].id => p = q
      <4>1. \A p, q \in 1 .. Len(pairs) : pairs[p].id = pairs[q].id => p = q
        BY <1>0 DEF AskedPairs
      <4>2. \A p \in 1 .. Len(pairs) : pairs'[p].id = pairs[p].id
        BY <2>3
      <4>3. \A p \in 1 .. Len(pairs') : p \in 1 .. Len(pairs) \/ p = Len(pairs) + 1
        BY <1>6, <2>3
      <4> QED
        BY <2>3, <2>4, <4>1, <4>2, <4>3
    <3>2. \A p \in 1 .. Len(pairs') :
            \E j \in Questions' : pairs'[p].id = IdAt(j)'
      <4>1. ASSUME NEW p \in 1 .. Len(pairs')
            PROVE  \E j \in Questions' : pairs'[p].id = IdAt(j)'
        <5>1. CASE p = Len(pairs) + 1
          BY <1>3, <2>3, <5>1
        <5>2. CASE p \in 1 .. Len(pairs)
          <6>1. PICK j \in Questions : pairs[p].id = IdAt(j)
            BY <1>0, <5>2 DEF AskedPairs
          <6> QED
            BY <1>3, <2>3, <5>2, <6>1
        <5> QED
          BY <1>6, <2>3, <5>1, <5>2
      <4> QED
        BY <4>1
    <3>3. \A j \in Questions' : \E p \in 1 .. Len(pairs') :
            pairs'[p].id = IdAt(j)'
      <4>1. ASSUME NEW j \in Questions'
            PROVE  \E p \in 1 .. Len(pairs') : pairs'[p].id = IdAt(j)'
        <5>1. CASE j = place
          BY <1>3, <1>6, <2>3, <5>1
        <5>2. CASE j \in Questions
          <6>1. PICK p \in 1 .. Len(pairs) : pairs[p].id = IdAt(j)
            BY <1>0, <5>2 DEF AskedPairs
          <6> QED
            BY <1>3, <1>6, <2>3, <5>2, <6>1
        <5> QED
          BY <1>3, <5>1, <5>2
      <4> QED
        BY <4>1
    <3> QED
      BY <3>1, <3>2, <3>3 DEF AskedPairs
  <2>7. ActiveLast'
    <3>1. active' # 0 /\ pairs'[active'].id = IdAt(place)'
      BY <1>3, <1>6, <1>7, <2>3
    <3> QED
      BY <1>4, <3>1 DEF ActiveLast
  <2>8. ASSUME NEW i \in 1 .. Len(transcript) PROVE ~Belongs(i, id)
    <3>1. \A j \in Questions : IdAt(j) # id
      BY <1>0, <2>4 DEF AskedPairs
    <3>2. Named(i) # {} => \E j \in Questions : IdAt(j) = transcript[i].id
      BY DEF Named
    <3> QED
      BY <3>1, <3>2 DEF Belongs, Latest
  <2>9. Answered'
    <3>1. ASSUME NEW i \in 1 .. Len(transcript'), NEW p \in 1 .. Len(pairs'),
                 NEW x, x = pairs'[p].id
          PROVE  i \in pairs'[p].answers <=>
                   transcript'[i].speaker = "candidate" /\ Belongs(i, x)'
      <4>1. CASE i = place
        <5>1. i \notin pairs'[p].answers
          BY <1>0, <1>2, <1>6, <2>3, <4>1 DEF ReadAnswers
        <5> QED
          BY <1>2, <1>5, <4>1, <5>1
      <4>2. CASE i \in 1 .. Len(transcript)
        <5>1. Belongs(i, x)' <=> Belongs(i, x)
          BY <1>0, <4>2, BelongsKept
        <5>2. CASE p = Len(pairs) + 1
          BY <1>2, <2>3, <2>8, <3>1, <4>2, <5>1, <5>2
        <5>3. CASE p \in 1 .. Len(pairs)
          BY <1>0, <1>2, <2>3, <3>1, <4>2, <5>1, <5>3 DEF Answered
        <5> QED
          BY <1>6, <2>3, <5>2, <5>3
      <4> QED
        BY <1>2, <4>1, <4>2
    <3> QED
      BY <3>1 DEF Answered
  <2>10. ReadAnswers'
    BY <1>0, <1>2, <1>6, <2>3 DEF ReadAnswers
  <2> QED
    BY <2>5, <2>6, <2>7, <2>9, <2>10 DEF IInv
<1>8. CASE active' \in PairsOf(id) /\ UNCHANGED pairs
  <2>1. active' \in 1 .. Len(pairs) /\ pairs[active'].id = id
    BY <1>8 DEF PairsOf
  <2>2. Types'
    BY <1>2, <1>6, <1>8, <2>1 DEF Types
  <2>3. AskedPairs'
    <3>1. \A p \in 1 .. Len(pairs) : \E j \in Questions' : pairs[p].id = IdAt(j)'
      <4>1. ASSUME NEW p \in 1 .. Len(pairs)
            PROVE  \E j \in Questions' : pairs[p].id = IdAt(j)'
        <5>1. PICK j \in Questions : pairs[p].id = IdAt(j)
          BY <1>0 DEF AskedPairs
        <5> QED
          BY <1>3, <5>1
      <4> QED
        BY <4>1
    <3>2. \A j \in Questions' : \E p \in 1 .. Len(pairs) : pairs[p].id = IdAt(j)'
      <4>1. ASSUME NEW j \in Questions'
            PROVE  \E p \in 1 .. Len(pairs) : pairs[p].id = IdAt(j)'
        <5>1. CASE j = place
          BY <1>3, <2>1, <5>1
        <5>2. CASE j \in Questions
          <6>1. PICK p \in 1 .. Len(pairs) : pairs[p].id = IdAt(j)
            BY <1>0, <5>2 DEF AskedPairs
          <6> QED
            BY <1>3, <5>2, <6>1
        <5> QED
          BY <1>3, <5>1, <5>2
      <4> QED
        BY <4>1
    <3> QED
      BY <1>0, <1>8, <3>1, <3>2 DEF AskedPairs
  <2>4. ActiveLast'
    <3>1. active' # 0 /\ pairs'[active'].id = IdAt(place)'
      BY <1>3, <1>6, <1>8, <2>1
    <3> QED
      BY <1>4, <3>1 DEF ActiveLast
  <2>5. Answered'
    <3>1. ASSUME NEW i \in 1 .. Len(transcript'), NEW p \in 1 .. Len(pairs),
                 NEW x, x = pairs[p].id
          PROVE  i \in pairs[p].answers <=>
                   transcript'[i].speaker = "candidate" /\ Belongs(i, x)'
      <4>1. CASE i = place
        BY <1>0, <1>2, <1>5, <4>1 DEF ReadAnswers
      <4>2. CASE i \in 1 .. Len(transcript)
        <5>1. Belongs(i, x)' <=> Belongs(i, x)
          BY <1>0, <4>2, BelongsKept
        <5> QED
          BY <1>0, <1>2, <3>1, <4>2, <5>1 DEF Answered
      <4> QED
        BY <1>2, <4>1, <4>2
    <3> QED
      BY <1>8, <3>1 DEF Answered
  <2>6. ReadAnswers'
    BY <1>0, <1>2, <1>8 DEF ReadAnswers
  <2> QED
    BY <2>2, <2>3, <2>4, <2>5, <2>6 DEF IInv
<1> QED
  BY <1>1, <1>7, <1>8 DEF ReadQuestion

\* A turn that asks nothing: it leaves the questions alone, and what is asked of
\* the pairs is who has its number among the answers.
LEMMA OtherStep ==
  ASSUME IInv, NEW turn \in Turn, transcript' = Append(transcript, turn),
         NEW place, place = Len(transcript) + 1,
         ~IsScoredQuestion(turn), UNCHANGED active,
         pairs' \in Seq(Pair), Len(pairs') = Len(pairs),
         \A p \in 1 .. Len(pairs) :
           /\ pairs'[p].id = pairs[p].id
           /\ pairs'[p].answers = pairs[p].answers
                \/ pairs'[p].answers = pairs[p].answers \union {place}
           /\ \A x : x = pairs[p].id =>
                (place \in pairs'[p].answers <=>
                   turn.speaker = "candidate" /\ Belongs(place, x)')
  PROVE  IInv'
<1>0. Types /\ AskedPairs /\ ActiveLast /\ Answered /\ ReadAnswers
  BY DEF IInv
<1>1. /\ Len(transcript) \in Nat /\ Len(transcript') = place
      /\ transcript' \in Seq(Turn) /\ transcript'[place] = turn
      /\ \A i \in 1 .. Len(transcript) : transcript'[i] = transcript[i]
  BY <1>0, TranscriptGrows
<1>2. /\ Questions \subseteq 1 .. Len(transcript)
      /\ Questions' = Questions
      /\ \A j \in 1 .. Len(transcript) : IdAt(j)' = IdAt(j)
  BY <1>0, QuestionsGrow
<1>3. Types'
  BY <1>0, <1>1 DEF Types
<1>4. AskedPairs'
  <2>1. \A p, q \in 1 .. Len(pairs) : pairs'[p].id = pairs'[q].id => p = q
    BY <1>0 DEF AskedPairs
  <2>2. \A p \in 1 .. Len(pairs) : \E j \in Questions : pairs'[p].id = IdAt(j)'
    <3>1. ASSUME NEW p \in 1 .. Len(pairs)
          PROVE  \E j \in Questions : pairs'[p].id = IdAt(j)'
      <4>1. PICK j \in Questions : pairs[p].id = IdAt(j)
        BY <1>0 DEF AskedPairs
      <4> QED
        BY <1>2, <4>1
    <3> QED
      BY <3>1
  <2>3. \A j \in Questions : \E p \in 1 .. Len(pairs) : pairs'[p].id = IdAt(j)'
    <3>1. ASSUME NEW j \in Questions
          PROVE  \E p \in 1 .. Len(pairs) : pairs'[p].id = IdAt(j)'
      <4>1. PICK p \in 1 .. Len(pairs) : pairs[p].id = IdAt(j)
        BY <1>0 DEF AskedPairs
      <4> QED
        BY <1>2, <4>1
    <3> QED
      BY <3>1
  <2> QED
    BY <1>2, <2>1, <2>2, <2>3 DEF AskedPairs
<1>5. ActiveLast'
  <2>1. Latest(Questions)' = Latest(Questions)
    BY <1>2 DEF Latest
  <2>2. active # 0 => active \in 1 .. Len(pairs)
    BY <1>0 DEF Types
  <2>3. active # 0 => \E j \in Latest(Questions) : pairs'[active].id = IdAt(j)'
    BY <1>0, <1>2, <2>2 DEF ActiveLast, Latest
  <2> QED
    BY <1>0, <1>2, <2>1, <2>3 DEF ActiveLast
<1>6. Answered'
  <2>1. ASSUME NEW i \in 1 .. Len(transcript'), NEW p \in 1 .. Len(pairs),
               NEW x, x = pairs[p].id
        PROVE  i \in pairs'[p].answers <=>
                 transcript'[i].speaker = "candidate" /\ Belongs(i, x)'
    <3>1. CASE i = place
      BY <1>1, <2>1, <3>1
    <3>2. CASE i \in 1 .. Len(transcript)
      <4>1. Belongs(i, x)' <=> Belongs(i, x)
        BY <1>0, <3>2, BelongsKept
      <4>2. i \in pairs'[p].answers <=> i \in pairs[p].answers
        BY <1>1, <3>2
      <4>3. i \in pairs[p].answers <=>
              transcript[i].speaker = "candidate" /\ Belongs(i, x)
        BY <1>0, <2>1, <3>2 DEF Answered
      <4> QED
        BY <1>1, <3>2, <4>1, <4>2, <4>3
    <3> QED
      BY <1>1, <3>1, <3>2
  <2> QED
    BY <2>1 DEF Answered
<1>7. ReadAnswers'
  BY <1>0, <1>1 DEF ReadAnswers
<1> QED
  BY <1>3, <1>4, <1>5, <1>6, <1>7 DEF IInv
\* An answer read: it goes to the pair of the question it belongs to.
LEMMA AnswerStep ==
  ASSUME IInv, NEW turn \in Turn, transcript' = Append(transcript, turn),
         NEW place, place = Len(transcript) + 1,
         turn.speaker = "candidate", ReadAnswer(turn, place)
  PROVE  IInv'
<1>0. Types /\ AskedPairs /\ ActiveLast /\ ReadAnswers
  BY DEF IInv
<1>1. /\ Len(transcript) \in Nat /\ Len(transcript') = place
      /\ transcript'[place] = turn
  BY <1>0, TranscriptGrows
<1>2. ~IsScoredQuestion(turn)
  BY DEF IsScoredQuestion
<1>3. /\ Questions \subseteq 1 .. Len(transcript)
      /\ Questions' = Questions
      /\ \A j \in 1 .. Len(transcript) : IdAt(j)' = IdAt(j)
  BY <1>0, <1>2, QuestionsGrow
<1>4. Len(pairs) \in Nat /\ \A p \in 1 .. Len(pairs) : pairs[p] \in Pair
  BY <1>0, LenProperties, ElementOfSeq DEF Types
<1>5. PICK named : named = IF turn.id = NoId THEN {} ELSE PairsOf(turn.id)
  OBVIOUS
<1>6. PICK target : target = IF named # {} THEN named
                             ELSE IF active # 0 THEN {active} ELSE {}
  OBVIOUS
<1>7. /\ pairs' = [p \in 1 .. Len(pairs) |->
                     IF p \in target
                     THEN [pairs[p] EXCEPT !.answers = @ \union {place}]
                     ELSE pairs[p]]
      /\ UNCHANGED active
  BY <1>5, <1>6 DEF ReadAnswer
<1>8. ASSUME NEW p \in 1 .. Len(pairs)
      PROVE  /\ pairs'[p] \in Pair /\ pairs'[p].id = pairs[p].id
             /\ p \in target
                  => pairs'[p].answers = pairs[p].answers \union {place}
             /\ p \notin target => pairs'[p].answers = pairs[p].answers
  <2>1. pairs[p] \in Pair /\ pairs[p].answers \union {place} \in SUBSET Nat
    BY <1>1, <1>4 DEF Pair
  <2>2. CASE p \in target
    <3>1. pairs'[p] = [pairs[p] EXCEPT !.answers = pairs[p].answers \union {place}]
      BY <1>7, <2>2
    <3> QED
      BY <2>1, <2>2, <3>1 DEF Pair
  <2>3. CASE p \notin target
    <3>1. pairs'[p] = pairs[p]
      BY <1>7, <2>3
    <3> QED
      BY <2>1, <2>3, <3>1
  <2> QED
    BY <2>2, <2>3
<1>9. pairs' \in Seq(Pair) /\ Len(pairs') = Len(pairs)
  <2>1. pairs' \in [1 .. Len(pairs) -> Pair]
    BY <1>7, <1>8
  <2> QED
    BY <1>4, <2>1, SeqDef, LenProperties
\* The pairs the answer goes to are those it belongs to.
<1>10. {k \in Questions : k < place}' = Questions
  BY <1>1, <1>3
<1>11. Named(place)' # {} <=> named # {}
  <2>1. \A j : j \in Named(place)' <=>
               /\ j \in Questions /\ turn.id # NoId /\ IdAt(j) = turn.id
    BY <1>1, <1>3 DEF Named
  <2>2. named # {} => \E j : j \in Named(place)'
    <3>1. SUFFICES ASSUME named # {} PROVE \E j : j \in Named(place)'
      OBVIOUS
    <3>2. PICK p \in 1 .. Len(pairs) : pairs[p].id = turn.id
      BY <1>5, <3>1 DEF PairsOf
    <3>3. PICK j \in Questions : pairs[p].id = IdAt(j)
      BY <1>0 DEF AskedPairs
    <3> QED
      BY <1>5, <2>1, <3>1, <3>2, <3>3
  <2>3. ASSUME NEW j, j \in Named(place)' PROVE named # {}
    <3>1. j \in Questions /\ turn.id # NoId /\ IdAt(j) = turn.id
      BY <2>1, <2>3
    <3>2. PICK p \in 1 .. Len(pairs) : pairs[p].id = IdAt(j)
      BY <1>0, <3>1 DEF AskedPairs
    <3> QED
      BY <1>5, <3>1, <3>2 DEF PairsOf
  <2> QED
    BY <2>2, <2>3
<1>12. ASSUME NEW p \in 1 .. Len(pairs), NEW id, id = pairs[p].id
       PROVE  Belongs(place, id)' <=> p \in target
  <2>1. CASE named # {}
    <3>1. Belongs(place, id)' <=> id = turn.id
      BY <1>1, <1>11, <2>1 DEF Belongs
    <3> QED
      BY <1>5, <1>6, <1>12, <2>1, <3>1 DEF PairsOf
  <2>2. CASE named = {}
    <3>1. Belongs(place, id)' <=> \E j \in Latest(Questions) : id = IdAt(j)
      BY <1>3, <1>10, <1>11, <2>2 DEF Belongs, Latest
    <3>2. CASE active = 0
      BY <1>0, <1>6, <2>2, <3>1, <3>2 DEF ActiveLast, Latest
    <3>3. CASE active # 0
      <4>1. PICK j \in Latest(Questions) : pairs[active].id = IdAt(j)
        BY <1>0, <3>3 DEF ActiveLast
      <4>2. \A k \in Latest(Questions) : k = j
        BY <1>1, <1>3, <4>1 DEF Latest
      <4>3. active \in 1 .. Len(pairs)
        BY <1>0, <1>4, <3>3 DEF Types
      <4>4. id = pairs[active].id <=> p = active
        BY <1>0, <1>12, <4>3 DEF AskedPairs
      <4> QED
        BY <1>6, <2>2, <3>1, <3>3, <4>1, <4>2, <4>4
    <3> QED
      BY <3>2, <3>3
  <2> QED
    BY <2>1, <2>2
<1>13. \A p \in 1 .. Len(pairs) :
         /\ pairs'[p].answers = pairs[p].answers
              \/ pairs'[p].answers = pairs[p].answers \union {place}
         /\ place \in pairs'[p].answers <=> p \in target
  BY <1>0, <1>1, <1>8 DEF ReadAnswers
<1> QED
  BY <1>2, <1>7, <1>8, <1>9, <1>12, <1>13, OtherStep

\* Before the first turn there are neither questions nor pairs.
LEMMA InvInit == Init => IInv
<1> SUFFICES ASSUME Init PROVE IInv
  OBVIOUS
<1>1. /\ transcript = <<>> /\ pairs = <<>> /\ active = 0
      /\ Len(transcript) = 0 /\ Len(pairs) = 0
      /\ transcript \in Seq(Turn) /\ pairs \in Seq(Pair)
  BY EmptySeq DEF Init
<1>2. Questions = {}
  BY <1>1 DEF Questions
<1> QED
  BY <1>1, <1>2 DEF IInv, Types, AskedPairs, ActiveLast, Answered, ReadAnswers

\* Every step keeps the pairs as they should be.
LEMMA InvStep == IInv /\ [Next]_vars => IInv'
<1> SUFFICES ASSUME IInv, [Next]_vars PROVE IInv'
  OBVIOUS
<1>1. ASSUME UNCHANGED <<transcript, pairs, active>> PROVE IInv'
  <2>1. Questions' = Questions /\ \A j : IdAt(j)' = IdAt(j)
    BY <1>1 DEF Questions, IdAt
  <2>2. \A i, id : Belongs(i, id)' <=> Belongs(i, id)
    BY <1>1, <2>1 DEF Belongs, Named, Latest
  <2>3. AskedPairs' /\ ActiveLast'
    BY <1>1, <2>1 DEF IInv, AskedPairs, ActiveLast, Latest
  <2>4. Types' /\ Answered' /\ ReadAnswers'
    BY <1>1, <2>2 DEF IInv, Types, Answered, ReadAnswers
  <2> QED
    BY <2>3, <2>4 DEF IInv
<1>2. ASSUME NEW turn \in Turn, ReadTurn(turn) PROVE IInv'
  <2>1. PICK place : place = Len(transcript) + 1
    OBVIOUS
  <2>2. transcript' = Append(transcript, turn)
    BY <1>2 DEF ReadTurn
  <2>3. CASE IsScoredQuestion(turn) /\ ReadQuestion(turn, place)
    BY <2>1, <2>2, <2>3, QuestionStep
  <2>4. CASE turn.speaker = "candidate" /\ ReadAnswer(turn, place)
    BY <2>1, <2>2, <2>4, AnswerStep
  <2>5. CASE turn.speaker = "bot" /\ ~turn.scored /\ UNCHANGED <<pairs, active>>
    <3>1. ~IsScoredQuestion(turn) /\ turn.speaker # "candidate"
      BY <2>5 DEF IsScoredQuestion
    <3>2. pairs' \in Seq(Pair) /\ Len(pairs') = Len(pairs) /\ UNCHANGED active
      BY <2>5 DEF IInv, Types
    <3>3. Len(transcript) \in Nat
      BY LenProperties DEF IInv, Types
    <3>4. \A p \in 1 .. Len(pairs) :
            pairs'[p] = pairs[p] /\ place \notin pairs'[p].answers
      BY <2>1, <2>5, <3>3 DEF IInv, ReadAnswers
    <3> QED
      BY <2>1, <2>2, <3>1, <3>2, <3>4, OtherStep
  <2> QED
    BY <1>2, <2>1, <2>3, <2>4, <2>5 DEF ReadTurn
<1>3. ASSUME NEW v \in Recordable, RecordViolation(v) PROVE IInv'
  BY <1>1, <1>3 DEF RecordViolation
<1>4. CASE Evaluate
  BY <1>1, <1>4 DEF Evaluate
<1>5. CASE UNCHANGED vars
  BY <1>1, <1>5 DEF vars
<1> QED
  BY <1>2, <1>3, <1>4, <1>5 DEF Next

-----------------------------------------------------------------------------
\* The invariant of an evaluation.

Asked == {k \in Specs : QuestionsOf(k) # {}}

\* An evaluation scores the skills asked about, and its recommendation follows
\* from what is kept with it.
EvaluationKept ==
  /\ violations \in Seq(Violation)
  /\ result.status = "evaluated" =>
       /\ result.counts \in [Severities -> Nat]
       /\ result.scores \in [Asked -> Score]
       /\ result.sections \in Sections
       /\ result.recommendation =
            Recommendation(result.scores, result.sections, result.counts)

\* Scores are natural numbers.
LEMMA NaturalScores ==
  ASSUME NEW K, NEW scores \in [K -> Score]
  PROVE  scores \in [K -> Nat]
  BY DEF Score

\* The sections of an evaluation, from what the evaluator says of them.
LEMMA SectionsFrom ==
  ASSUME NEW asked \in BOOLEAN, NEW given \in SectionScore
  PROVE  [asked |-> asked, intro |-> given.intro,
          communication |-> given.communication,
          behavioural |-> given.behavioural] \in Sections
<1>1. /\ given.intro \in Score /\ given.communication \in Score
      /\ given.behavioural \in Score
  BY DEF SectionScore
<1>2. Score \subseteq Nat
  BY DEF Score
<1> QED
  BY <1>1, <1>2 DEF Sections

\* The skills asked about each have a score.
LEMMA AskedScores ==
  ASSUME pairs \in Seq(Pair), NEW judged \in [1 .. Len(pairs) -> Judgement]
  PROVE  Scores(judged) \in [Asked -> Score]
<1>1. Len(pairs) \in Nat
  BY LenProperties
<1>2. ASSUME NEW k \in Asked PROVE SkillScore(judged, QuestionsOf(k)) \in Score
  <2>1. QuestionsOf(k) \subseteq 1 .. Len(pairs) /\ QuestionsOf(k) # {}
    BY <1>2 DEF Asked, QuestionsOf
  <2>2. PICK m \in Nat : m = Len(pairs)
    BY <1>1
  <2>3. QuestionsOf(k) \in SUBSET (1 .. m) /\ judged \in [1 .. m -> Judgement]
    BY <2>1, <2>2
  <2> QED
    BY <2>1, <2>3, SkillScoreOf
<1> QED
  BY <1>2 DEF Scores, Asked

\* Better judged answers to questions as difficult, sections that are scored no
\* lower and fewer violations never lead to a worse recommendation, for any
\* number of questions and skills.
THEOREM BetterAnswersNeverHurt ==
  ASSUME pairs \in Seq(Pair),
         NEW judged \in [1 .. Len(pairs) -> Judgement],
         NEW better \in [1 .. Len(pairs) -> Judgement],
         \A q \in 1 .. Len(pairs) :
           /\ better[q].difficulty = judged[q].difficulty
           /\ CappedScore(judged[q]) <= CappedScore(better[q]),
         NEW sections \in Sections, NEW others \in Sections,
         NoLower(sections, others),
         NEW counts \in [Severities -> Nat], NEW fewer \in [Severities -> Nat],
         \A s \in Severities : fewer[s] <= counts[s]
  PROVE  Rank(Recommendation(Scores(judged), sections, counts))
           <= Rank(Recommendation(Scores(better), others, fewer))
<1>1. Scores(judged) \in [Asked -> Score] /\ Scores(better) \in [Asked -> Score]
  BY AskedScores
<1>2. Scores(judged) \in [Asked -> Nat] /\ Scores(better) \in [Asked -> Nat]
  BY <1>1, NaturalScores
<1>3. PICK m \in Nat : m = Len(pairs)
  BY LenProperties
<1>4. ASSUME NEW k \in Asked PROVE Scores(judged)[k] <= Scores(better)[k]
  <2>1. QuestionsOf(k) \in SUBSET (1 .. m) /\ QuestionsOf(k) # {}
    BY <1>3, <1>4 DEF Asked, QuestionsOf
  <2>2. judged \in [1 .. m -> Judgement] /\ better \in [1 .. m -> Judgement]
    BY <1>3
  <2>3. \A q \in 1 .. m : /\ better[q].difficulty = judged[q].difficulty
                         /\ CappedScore(judged[q]) <= CappedScore(better[q])
    BY <1>3
  <2>4. SkillScore(judged, QuestionsOf(k)) <= SkillScore(better, QuestionsOf(k))
    BY <2>1, <2>2, <2>3, SkillScoreMonotoneOf
  <2> QED
    BY <1>4, <2>4 DEF Scores, Asked
<1>5. Asked \in SUBSET Specs
  BY DEF Asked
<1> QED
  BY <1>2, <1>4, <1>5, RecommendationIsMonotone

\* Nothing is recorded or evaluated at first.
LEMMA EvaluationInit == Init => EvaluationKept
<1> SUFFICES ASSUME Init PROVE EvaluationKept
  OBVIOUS
<1>1. violations \in Seq(Violation)
  BY EmptySeq DEF Init
<1>2. result.status = "none"
  BY DEF Init, Nothing
<1> QED
  BY <1>1, <1>2 DEF EvaluationKept

\* A violation recorded is one more violation, and only an evaluation makes a
\* result: from counts, scores and sections, with the recommendation they lead to.
LEMMA EvaluationStep == Types /\ EvaluationKept /\ [Next]_vars => EvaluationKept'
<1> SUFFICES ASSUME Types, EvaluationKept, [Next]_vars PROVE EvaluationKept'
  OBVIOUS
<1>1. ASSUME NEW turn \in Turn, ReadTurn(turn) PROVE EvaluationKept'
  <2>1. UNCHANGED <<violations, result>> /\ result.status # "evaluated"
    BY <1>1 DEF ReadTurn, Nothing
  <2> QED
    BY <2>1 DEF EvaluationKept
<1>2. ASSUME NEW v \in Recordable, RecordViolation(v) PROVE EvaluationKept'
  <2>1. violations' = Append(violations, v) /\ result' = result
        /\ result.status # "evaluated"
    BY <1>2 DEF RecordViolation, Nothing
  <2>2. violations' \in Seq(Violation)
    BY <2>1, AppendProperties, EvaluationAssumption DEF EvaluationKept
  <2> QED
    BY <2>1, <2>2 DEF EvaluationKept
<1>3. ASSUME Evaluate PROVE EvaluationKept'
  <2>1. UNCHANGED <<pairs, violations>>
    BY <1>3 DEF Evaluate
  <2>2. CASE result' = Failed
    <3>1. result'.status # "evaluated"
      BY <2>2 DEF Failed
    <3> QED
      BY <2>1, <3>1 DEF EvaluationKept
  <2>3. CASE result' # Failed
    <3>1. PICK judged \in [1 .. Len(pairs) -> Judgements],
               sections \in SectionScores,
               counts \in [Severities -> 0 .. Len(violations)] :
            LET s == [asked |-> BehaviouralAsked, intro |-> sections.intro,
                      communication |-> sections.communication,
                      behavioural |-> sections.behavioural]
            IN result' = [status |-> "evaluated", counts |-> counts,
                          scores |-> Scores(judged), sections |-> s,
                          recommendation |->
                            Recommendation(Scores(judged), s, counts)]
      BY <1>3, <2>3 DEF Evaluate
    <3> DEFINE s == [asked |-> BehaviouralAsked, intro |-> sections.intro,
                     communication |-> sections.communication,
                     behavioural |-> sections.behavioural]
    <3>2. counts \in [Severities -> Nat]
      <4>1. Len(violations) \in Nat
        BY LenProperties DEF EvaluationKept
      <4> QED
        BY <4>1
    <3>3. Scores(judged) \in [Asked -> Score]
      <4>1. judged \in [1 .. Len(pairs) -> Judgement]
        BY EvaluationAssumption
      <4> QED
        BY <4>1, AskedScores DEF Types
    <3>4. s \in Sections
      <4>1. sections \in SectionScore
        BY EvaluationAssumption
      <4>2. PICK b \in BOOLEAN : b = BehaviouralAsked
        BY DEF BehaviouralAsked
      <4> QED
        BY <4>1, <4>2, SectionsFrom
    <3>5. Asked' = Asked
      BY <2>1 DEF Asked, QuestionsOf
    <3>6. /\ result'.counts = counts /\ result'.scores = Scores(judged)
          /\ result'.sections = s
          /\ result'.recommendation = Recommendation(Scores(judged), s, counts)
      BY <3>1
    <3> HIDE DEF s
    <3> QED
      BY <2>1, <3>2, <3>3, <3>4, <3>5, <3>6 DEF EvaluationKept
  <2> QED
    BY <2>2, <2>3
<1>4. CASE UNCHANGED vars
  <2>1. UNCHANGED <<pairs, violations, result>>
    BY <1>4 DEF vars
  <2>2. Asked' = Asked
    BY <2>1 DEF Asked, QuestionsOf
  <2> QED
    BY <2>1, <2>2 DEF EvaluationKept
<1> QED
  BY <1>1, <1>2, <1>3, <1>4 DEF Next

\* One more violation of any severity never helps.
LEMMA NeverHelp == EvaluationKept => ViolationsNeverHelp
<1> SUFFICES ASSUME EvaluationKept, result.status = "evaluated",
                    NEW s \in Severities
             PROVE  Rank(Recommendation(result.scores, result.sections,
                                        [result.counts EXCEPT ![s] = @ + 1]))
                      <= Rank(result.recommendation)
  BY DEF ViolationsNeverHelp
<1>1. PICK more : more = [result.counts EXCEPT ![s] = @ + 1]
  OBVIOUS
<1>2. /\ result.counts \in [Severities -> Nat]
      /\ result.scores \in [Asked -> Nat] /\ result.sections \in Sections
      /\ result.recommendation =
           Recommendation(result.scores, result.sections, result.counts)
  <2>1. \A r : r \in [Asked -> Score] => r \in [Asked -> Nat]
    BY NaturalScores
  <2> QED
    BY <2>1 DEF EvaluationKept
<1>3. /\ more \in [Severities -> Nat]
      /\ \A t \in Severities : result.counts[t] <= more[t]
  BY <1>1, <1>2
<1>4. NoLower(result.sections, result.sections)
  BY <1>2 DEF NoLower, Sections
<1>5. Asked \in SUBSET Specs /\ \A k \in Asked : result.scores[k] <= result.scores[k]
  BY <1>2 DEF Asked
<1>6. Rank(Recommendation(result.scores, result.sections, more))
        <= Rank(Recommendation(result.scores, result.sections, result.counts))
  BY <1>2, <1>3, <1>4, <1>5, RecommendationIsMonotone
<1> QED
  BY <1>1, <1>2, <1>6

\* What no gate stops has passed them all.
Passed(K, scores, counts) ==
  /\ counts["critical"] = 0 /\ Total(counts) <= ViolationGate
  /\ \A k \in K : Priority[k] >= 700 => scores[k] >= 400
  /\ \E k \in K : scores[k] >= 500

\* Where no gate closes, every limit is kept.
LEMMA Ungated ==
  ASSUME NEW K \in SUBSET Specs, NEW scores \in [K -> Nat],
         NEW counts \in [Severities -> Nat], ~HardGate(scores, counts)
  PROVE  Passed(K, scores, counts)
<1>1. /\ counts["critical"] \in Nat /\ counts["low"] \in Nat
      /\ counts["medium"] \in Nat /\ counts["high"] \in Nat
  BY DEF Severities
<1>2. Total(counts) \in Nat
  BY <1>1 DEF Total
<1>3. counts["critical"] = 0 /\ Total(counts) <= ViolationGate
  BY <1>1, <1>2, SpecAssumption DEF HardGate
<1>4. \A k \in K : Priority[k] >= 700 => scores[k] >= 400
  BY DEF HardGate
<1>5. ~\A k \in K : scores[k] < 500
  BY TechnicalBelowAll DEF HardGate
<1>6. \E k \in K : scores[k] >= 500
  BY <1>5
<1> QED
  BY <1>3, <1>4, <1>6 DEF Passed

\* What is recommended has passed every gate.
LEMMA Gated == EvaluationKept => GatesHold
<1> SUFFICES ASSUME EvaluationKept, result.status = "evaluated",
                    result.recommendation # "no hire"
             PROVE  Passed(Asked, result.scores, result.counts)
  BY DEF GatesHold, Passed, Asked
<1>1. PICK scores, counts : scores = result.scores /\ counts = result.counts
  OBVIOUS
<1>2. counts \in [Severities -> Nat] /\ scores \in [Asked -> Nat]
  BY <1>1, NaturalScores DEF EvaluationKept
<1>3. ~HardGate(scores, counts)
  BY <1>1 DEF EvaluationKept, Recommendation
<1>4. Asked \in SUBSET Specs
  BY DEF Asked
<1>5. Passed(Asked, scores, counts)
  BY <1>2, <1>3, <1>4, Ungated
<1> QED
  BY <1>1, <1>5

-----------------------------------------------------------------------------
\* Theorems.

\* Pairs and evaluation together.
Inv == IInv /\ EvaluationKept

\* The joint invariant holds initially.
LEMMA JointInit == Init => Inv
  BY InvInit, EvaluationInit DEF Inv

\* Every step keeps the joint invariant.
LEMMA JointStep == Inv /\ [Next]_vars => Inv'
  BY InvStep, EvaluationStep DEF Inv, IInv

\* Every answer is paired with the question it names or else with the last one
\* asked, for transcripts of any length and any mixture of ids.
THEOREM AnswersArePaired == Spec => []AnswersPaired
<1>1. IInv => AnswersPaired
  <2> SUFFICES ASSUME IInv PROVE AnswersPaired
    OBVIOUS
  <2>1. \A p, q \in 1 .. Len(pairs) : pairs[p].id = pairs[q].id => p = q
    BY DEF IInv, AskedPairs
  <2>2. \A i \in 1 .. Len(transcript), p \in 1 .. Len(pairs) :
          i \in pairs[p].answers <=>
            transcript[i].speaker = "candidate" /\ Belongs(i, pairs[p].id)
    BY DEF IInv, Answered
  <2> QED
    BY <2>1, <2>2 DEF AnswersPaired, Belongs
<1> QED
  BY InvInit, InvStep, <1>1, PTL DEF Spec

\* However often a category of violations was recorded it is scored once,
\* normalizing again changes nothing, and the least counts the policy demands
\* are within the number of violations the evaluator may validate; for any
\* number of violations in any order.
THEOREM CategoriesScoredOnce == Spec => []ScoredOncePerCategory
<1>1. Inv => ScoredOncePerCategory
  BY ScoredOnce DEF Inv, EvaluationKept
<1> QED
  BY JointInit, JointStep, <1>1, PTL DEF Spec

\* One more validated violation, of any severity, never helps a candidate; for
\* any planned skills, weights, priorities and scores.
THEOREM MoreViolationsNeverHelp == Spec => []ViolationsNeverHelp
<1>1. Inv => ViolationsNeverHelp
  BY NeverHelp DEF Inv
<1> QED
  BY JointInit, JointStep, <1>1, PTL DEF Spec

\* A recommendation other than "no hire" has passed every gate; for any planned
\* skills, weights, priorities and scores.
THEOREM GatesAreHeld == Spec => []GatesHold
<1>1. Inv => GatesHold
  BY Gated DEF Inv
<1> QED
  BY JointInit, JointStep, <1>1, PTL DEF Spec
=============================================================================
