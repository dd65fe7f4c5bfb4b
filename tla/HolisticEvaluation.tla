------------------------ MODULE HolisticEvaluation ------------------------
(***************************************************************************)
(* From the transcript and the violations of an interview to a hiring      *)
(* recommendation: the pairing of questions and answers, the policy that   *)
(* scores a category of proctoring violations once, the contract an output *)
(* of the evaluator is held to, and the scores computed from it.           *)
(*                                                                         *)
(* The transcript is read one turn at a time, as build_question_answer_    *)
(* pairs does.  What the evaluator judges is arbitrary.                    *)
(***************************************************************************)
EXTENDS EvaluationScoring, FiniteSetsExt

CONSTANTS
  Ids, NoId,       \* question ids of turns; a turn without one
  SkillOf,         \* SkillOf[id]: the planned skill that matches a question's
  Behavioural,     \* the ids of questions in the behavioural section
  LegacySkill,     \* the skill of questions without an id
  Judgements,      \* what the evaluator may say of a question
  SectionScores,   \* what it may say of the sections without a skill
  Recordable,      \* bound: the violations that are recorded
  MaxAnswers,      \* answers a question may have: 24
  MaxRecords       \* bound: turns and violations

VARIABLES
  transcript,   \* the turns read so far
  pairs,        \* pair_data; answers are numbers of turns
  active,       \* active_index, or 0
  violations,   \* the violations as recorded
  result        \* the evaluation, when there is one

vars == <<transcript, pairs, active, violations, result>>

Turn == [speaker : {"bot"}, scored : BOOLEAN, id : Ids \union {NoId}]
        \union [speaker : {"candidate"}, id : Ids \union {NoId}]

Singletons == {"tab_switch", "face_absent", "multiple_faces"}
Violation == [type : Singletons \union {"other"}, affects : BOOLEAN,
              occurrences : Nat, severity : Severities]

\* The sections without a skill are scored like the questions.
SectionScore == [intro : Score, communication : Score, behavioural : Score]

ASSUME EvaluationAssumption ==
  /\ Judgements \subseteq Judgement /\ SectionScores \subseteq SectionScore
  /\ Recordable \subseteq Violation

Nothing == [status |-> "none"]
Failed == [status |-> "failed"]

Init ==
  /\ transcript = <<>> /\ pairs = <<>> /\ active = 0
  /\ violations = <<>>
  /\ result = Nothing

-----------------------------------------------------------------------------
\* Questions and answers.

IsScoredQuestion(turn) == turn.speaker = "bot" /\ turn.scored

\* A question without an id has one of its place in the transcript.
QuestionId(turn, place) == IF turn.id = NoId THEN place ELSE turn.id

PairsOf(id) == {p \in 1 .. Len(pairs) : pairs[p].id = id}

\* A new question becomes the active one; a known one becomes so again.
ReadQuestion(turn, place) ==
  LET id == QuestionId(turn, place)
  IN \/ /\ PairsOf(id) = {}
        /\ pairs' = Append(pairs, [id |-> id, answers |-> {}])
        /\ active' = Len(pairs) + 1
     \/ /\ active' \in PairsOf(id)
        /\ UNCHANGED pairs

\* Mutant: an answer always belongs to the active question.
ReadAnswerAsActive(turn, place) ==
  /\ pairs' = IF active = 0 THEN pairs
              ELSE [pairs EXCEPT ![active].answers = @ \union {place}]
  /\ UNCHANGED active

\* An answer belongs to the question it names, or else to the active one; it
\* does not change which that is.
ReadAnswer(turn, place) ==
  LET named == IF turn.id = NoId THEN {} ELSE PairsOf(turn.id)
      target == IF named # {} THEN named
                ELSE IF active # 0 THEN {active} ELSE {}
  IN /\ pairs' = [p \in 1 .. Len(pairs) |->
                    IF p \in target
                    THEN [pairs[p] EXCEPT !.answers = @ \union {place}]
                    ELSE pairs[p]]
     /\ UNCHANGED active

ReadTurn(turn) ==
  LET place == Len(transcript) + 1
  IN /\ result = Nothing
     /\ place + Len(violations) <= MaxRecords
     /\ transcript' = Append(transcript, turn)
     /\ \/ IsScoredQuestion(turn) /\ ReadQuestion(turn, place)
        \/ turn.speaker = "candidate" /\ ReadAnswer(turn, place)
        \/ /\ turn.speaker = "bot" /\ ~turn.scored
           /\ UNCHANGED <<pairs, active>>
     /\ UNCHANGED <<violations, result>>

SkillOfPair(pair) == IF pair.id \in Ids THEN SkillOf[pair.id] ELSE LegacySkill
QuestionsOf(skill) == {p \in 1 .. Len(pairs) : SkillOfPair(pairs[p]) = skill}

-----------------------------------------------------------------------------
\* The violation policy.

RecordViolation(v) ==
  /\ result = Nothing
  /\ Len(transcript) + Len(violations) < MaxRecords
  /\ violations' = Append(violations, v)
  /\ UNCHANGED <<transcript, pairs, active, result>>

PolicySeverity(type) == IF type = "tab_switch" THEN "low" ELSE "high"

\* All the records of a category in one, with the greatest number of
\* occurrences any of them claims, and at least their own number.
Aggregate(records, type) ==
  LET of == {i \in 1 .. Len(records) : records[i].type = type}
  IN [type |-> type, affects |-> TRUE, severity |-> PolicySeverity(type),
      occurrences |->
        Max({Cardinality(of)} \union {records[i].occurrences : i \in of})]

\* Mutant: each record of a category is kept.
NormalizeEach(records) ==
  LET Kept[i \in 0 .. Len(records)] ==
        IF i = 0 THEN <<>>
        ELSE LET v == records[i]
             IN IF v.type \in Singletons
                THEN Append(Kept[i - 1], Aggregate(records, v.type))
                ELSE IF v.affects THEN Append(Kept[i - 1], v) ELSE Kept[i - 1]
  IN Kept[Len(records)]

\* normalize_evaluation_violations: a category once, at its first record and
\* whatever an old record says of its effect; others when they have an effect.
NormalizeViolations(records) ==
  LET Kept[i \in 0 .. Len(records)] ==
        IF i = 0 THEN <<>>
        ELSE LET v == records[i]
             IN CASE v.type \in Singletons
                     /\ \A j \in 1 .. (i - 1) : records[j].type # v.type ->
                       Append(Kept[i - 1], Aggregate(records, v.type))
                  [] v.type \notin Singletons /\ v.affects ->
                       Append(Kept[i - 1], v)
                  [] OTHER -> Kept[i - 1]
  IN Kept[Len(records)]

\* singleton_policy_minimum_counts.
MinimumCounts(records) ==
  LET types == {records[i].type : i \in 1 .. Len(records)}
  IN [s \in Severities |->
        CASE s = "low" -> Cardinality(types \cap {"tab_switch"})
          [] s = "high" -> Cardinality(types \cap (Singletons \ {"tab_switch"}))
          [] OTHER -> 0]

\* _semantic_errors, as far as it is about violations; the number of validated
\* violations is the sum of the counts.
Accepted(counts, records) ==
  /\ Total(counts) <= Len(records)
  /\ \A s \in Severities : counts[s] >= MinimumCounts(records)[s]

-----------------------------------------------------------------------------
\* The evaluation.

BehaviouralAsked == \E p \in 1 .. Len(pairs) : pairs[p].id \in Behavioural

\* Only skills that were asked about count.
Scores(judged) ==
  [k \in {s \in Specs : QuestionsOf(s) # {}} |->
     SkillScore(judged, QuestionsOf(k))]

\* run_holistic_evaluation on what has been read: without a question, or with
\* more answers to one than its record may hold, there is nothing to evaluate.
\* An output the contract refuses is repaired or fails as well; how the task
\* goes on is another module's.
Evaluate ==
  /\ result = Nothing
  /\ IF pairs = <<>> \/ \E p \in 1 .. Len(pairs) :
                          Cardinality(pairs[p].answers) > MaxAnswers
     THEN result' = Failed
     ELSE \E judged \in [1 .. Len(pairs) -> Judgements],
             sections \in SectionScores,
             counts \in [Severities -> 0 .. Len(violations)] :
            /\ Accepted(counts, NormalizeViolations(violations))
            /\ LET s == [asked |-> BehaviouralAsked, intro |-> sections.intro,
                         communication |-> sections.communication,
                         behavioural |-> sections.behavioural]
               IN result' = [status |-> "evaluated", counts |-> counts,
                             scores |-> Scores(judged), sections |-> s,
                             recommendation |->
                               Recommendation(Scores(judged), s, counts)]
  /\ UNCHANGED <<transcript, pairs, active, violations>>

Next ==
  \/ \E turn \in Turn : ReadTurn(turn)
  \/ \E v \in Recordable : RecordViolation(v)
  \/ Evaluate

Spec == Init /\ [][Next]_vars

-----------------------------------------------------------------------------
\* Properties.

Questions == {i \in 1 .. Len(transcript) : IsScoredQuestion(transcript[i])}
IdAt(i) == QuestionId(transcript[i], i)

\* The questions asked before turn i that it names.
Named(i) == {j \in Questions : /\ j < i /\ transcript[i].id # NoId
                               /\ IdAt(j) = transcript[i].id}

Latest(S) == {i \in S : \A j \in S : j <= i}

\* Every answer is with the question it names or, if that was not asked
\* before, with the last one asked, and with no other; a question asked again
\* is not split in two.
AnswersPaired ==
  /\ \A p, q \in 1 .. Len(pairs) : pairs[p].id = pairs[q].id => p = q
  /\ \A i \in 1 .. Len(transcript), p \in 1 .. Len(pairs) :
       i \in pairs[p].answers <=>
         /\ transcript[i].speaker = "candidate"
         /\ IF Named(i) # {} THEN pairs[p].id = transcript[i].id
            ELSE \E j \in Latest({k \in Questions : k < i}) :
                   pairs[p].id = IdAt(j)

\* However often a category was recorded it is scored once, normalizing again
\* changes nothing, and what the policy demands of the evaluator can be met:
\* the number of violations it may validate allows for the counts it must
\* report.
ScoredOncePerCategory ==
  LET normal == NormalizeViolations(violations)
  IN /\ NormalizeViolations(normal) = normal
     /\ \A type \in Singletons :
          (\E i \in 1 .. Len(violations) : violations[i].type = type) <=>
            Cardinality({i \in 1 .. Len(normal) : normal[i].type = type}) = 1
     /\ \E counts \in [Severities -> 0 .. Len(violations)] :
          Accepted(counts, normal)

Rank(recommendation) ==
  CASE recommendation = "hire" -> 2 [] recommendation = "consider" -> 1
    [] OTHER -> 0

\* One more validated violation, of any severity, never helps a candidate.
ViolationsNeverHelp ==
  result.status = "evaluated" =>
    \A s \in Severities :
      Rank(Recommendation(result.scores, result.sections,
                          [result.counts EXCEPT ![s] = @ + 1]))
        <= Rank(result.recommendation)

\* Nobody is hired past a gate, or with a score below it in a skill that
\* matters most, or for a skill that was never asked about.
GatesHold ==
  result.status = "evaluated" /\ result.recommendation # "no hire" =>
    /\ result.counts["critical"] = 0 /\ Total(result.counts) <= ViolationGate
    /\ \A k \in Specs : Priority[k] >= 700 /\ QuestionsOf(k) # {} =>
         result.scores[k] >= 400
    /\ \E k \in Specs : QuestionsOf(k) # {} /\ result.scores[k] >= 500
=============================================================================
