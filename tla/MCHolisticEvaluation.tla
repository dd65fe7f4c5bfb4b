----------------------- MODULE MCHolisticEvaluation -----------------------
\* A skill of high priority and one of low, and a behavioural question; four
\* turns and violations in any order.
EXTENDS HolisticEvaluation

CONSTANTS python, sql, q1, q2, none

MCSpecs == {python, sql}
MCPriority == [k \in MCSpecs |-> IF k = python THEN 900 ELSE 300]
MCWeight == [k \in MCSpecs |-> IF k = python THEN 9 ELSE 2]
MCIds == {q1, q2}
MCSkillOf == [id \in MCIds |-> IF id = q1 THEN python ELSE none]
MCBehavioural == {q2}

MCJudgements ==
  {[score |-> 1000, relevance |-> "direct_match", difficulty |-> "medium"],
   [score |-> 900, relevance |-> "transferable_similar", difficulty |-> "hard"],
   [score |-> 390, relevance |-> "direct_match", difficulty |-> "easy"]}

MCSectionScores ==
  {[intro |-> x, communication |-> x, behavioural |-> x] :
     x \in {300, 1000}}

MCRecordable ==
  {[type |-> "tab_switch", affects |-> TRUE, occurrences |-> 3,
    severity |-> "low"],
   [type |-> "face_absent", affects |-> FALSE, occurrences |-> 0,
    severity |-> "medium"],
   [type |-> "other", affects |-> TRUE, occurrences |-> 0,
    severity |-> "critical"],
   [type |-> "other", affects |-> FALSE, occurrences |-> 0,
    severity |-> "low"]}
=============================================================================
