---------------------------- MODULE SectionTiming ----------------------------
(***************************************************************************)
(* The timing rules of the interview: which section follows, when a        *)
(* section or the interview must end, and how the time left over from the  *)
(* self-introduction is shared.  The same arithmetic is written three      *)
(* times in the program: at an answer boundary (decide_time_action), in    *)
(* the barge-in node (force_section_time_barge_in) and in the LiveKit      *)
(* bridge's watchdog (seconds_until_section_barge_in).  All operators are  *)
(* constant level: they take the place p of the interview in its plan, a   *)
(* record of the five state fields that the timing rules read and write,   *)
(* and an elapsed time e.                                                  *)
(***************************************************************************)
EXTENDS Integers, FiniteSets

CONSTANTS
  NSections,   \* number of runtime sections
  Kind,        \* section -> its section_kind
  Allotted,    \* section -> its budget when the interview starts
  Total,       \* total_duration_secs
  Threshold,   \* SECTION_TRANSITION_THRESHOLD_SECS
  Grace,       \* SECTION_BARGE_IN_GRACE_SECS
  Rescue       \* FORCE_BEHAVIOURAL_REMAINING_SECS

Section == 0 .. NSections - 1
NoSection == -1
SectionKind == {"self_intro", "technical", "behavioural_cultural"}

ASSUME PlanAssumption ==
  /\ NSections \in Nat \ {0}
  /\ Kind \in [Section -> SectionKind]
  /\ Allotted \in [Section -> Nat \ {0}]
  /\ Total \in Nat \ {0}
  /\ Threshold \in Nat
  /\ Grace \in Nat
  /\ Rescue \in Nat

\* Where the interview is in its plan.  intro is current_section_kind =
\* "self_intro"; started is current_section_started_elapsed_secs.
Place == [section : Section, intro : BOOLEAN, started : Nat,
          budgets : [Section -> Nat \ {0}], redistributed : BOOLEAN]

AtLeast0(x) == IF x >= 0 THEN x ELSE 0
Lesser(x, y) == IF x <= y THEN x ELSE y
Earliest(S) == CHOOSE i \in S : \A j \in S : i <= j

-----------------------------------------------------------------------------
\* The sections that may still be reached.

After(s) == {i \in Section :
               i > s /\ Kind[i] \in {"technical", "behavioural_cultural"}}
Later(p) == After(p.section)
LaterBehavioural(p) == {i \in Later(p) : Kind[i] = "behavioural_cultural"}

\* The section of the next question: the one a timing decision chose, else
\* the first section after the self-introduction, else the current one.
TargetSection(p, pending) ==
  IF pending # NoSection THEN pending
  ELSE IF p.intro /\ Later(p) # {} THEN Earliest(Later(p))
  ELSE p.section

-----------------------------------------------------------------------------
\* Budgets and deadlines.

\* Time reserved for the sections after the current one: the sum of their
\* budgets, counted as the number of (section, second) slots.
Slots(b, S) == UNION {{i} \X (1 .. b[i]) : i \in S}
Reserved(p) == Cardinality(Slots(p.budgets, Later(p)))

Deadline(p, grace) ==
  AtLeast0(Lesser(p.started + p.budgets[p.section] + grace,
                  Total - Reserved(p) + grace))

Remaining(e) == AtLeast0(Total - e)
SectionElapsed(p, e) == AtLeast0(e - p.started)
\* Mutant: overrun time counts as negative.
SectionRemainingUnclamped(p, e) ==
  Lesser(p.budgets[p.section] - SectionElapsed(p, e), Deadline(p, 0) - e)
SectionRemaining(p, e) ==
  Lesser(AtLeast0(p.budgets[p.section] - SectionElapsed(p, e)),
         AtLeast0(Deadline(p, 0) - e))

-----------------------------------------------------------------------------
\* The decision after a substantial answer.

NeedsRescue(p, e) == LaterBehavioural(p) # {} /\ Remaining(e) <= Rescue

SectionTimeLow(p, e) ==
  \/ SectionElapsed(p, e) >= p.budgets[p.section]
  \/ SectionRemaining(p, e) <= Threshold

AnswerCloses(p, e) ==
  \/ Remaining(e) = 0
  \/ /\ Later(p) = {}
     /\ p.intro \/ Remaining(e) <= Threshold \/ SectionTimeLow(p, e)

AnswerMoves(p, e) ==
  /\ ~AnswerCloses(p, e)
  /\ Later(p) # {}
  /\ NeedsRescue(p, e) \/ p.intro \/ SectionTimeLow(p, e)

\* The section a transition leads to, and pending_section_index after it.
NextSection(p, e) ==
  IF NeedsRescue(p, e) THEN Earliest(LaterBehavioural(p)) ELSE Earliest(Later(p))
AnswerTarget(p, e) == IF AnswerMoves(p, e) THEN NextSection(p, e) ELSE NoSection

-----------------------------------------------------------------------------
\* The barge-in node's decision, and the bridge's own opinion of when one is
\* due.  Anything that neither closes nor moves goes back to waiting.

Overrun(p, e) == e >= Deadline(p, Grace)

BargeCloses(p, e) ==
  \/ Remaining(e) = 0
  \/ ~p.intro /\ Overrun(p, e) /\ Later(p) = {}

BargeMoves(p, e) ==
  /\ Remaining(e) > 0
  /\ ~p.intro
  /\ \/ NeedsRescue(p, e)
     \/ Overrun(p, e) /\ Later(p) # {}

\* Mutants: the watchdog forgets the grace; it forgets the overtime cap.
BoundariesWithoutGrace(p) ==
  {Total + Grace} \cup {d \in {Deadline(p, 0)} : ~p.intro}
BoundariesWithoutCap(p) == {d \in {Deadline(p, Grace)} : ~p.intro}
WatchdogBoundaries(p) ==
  {Total + Grace}
    \cup {d \in {Deadline(p, Grace)} : ~p.intro}
    \cup {d \in {Total - Rescue} : ~p.intro /\ LaterBehavioural(p) # {}}
WatchdogDue(p, c) == \E d \in WatchdogBoundaries(p) : d <= c

-----------------------------------------------------------------------------
\* Asking a question: the move to its section.

\* Mutant: the remainder of the division is lost.
BonusWithoutRemainder(p, e, i) == SectionRemaining(p, e) \div Cardinality(Later(p))

\* The self-introduction's unused time, shared evenly over the later
\* sections; the remainder goes one second each to the earliest of them.
Bonus(p, e, i) ==
  LET n    == Cardinality(Later(p))
      left == SectionRemaining(p, e)
      rank == Cardinality({j \in Later(p) : j < i})
  IN (left \div n) + (IF rank < left % n THEN 1 ELSE 0)

BudgetsWithLeftover(p, e) ==
  [i \in Section |-> IF i \in Later(p) THEN p.budgets[i] + Bonus(p, e, i)
                                       ELSE p.budgets[i]]

Ask(p, pending, e) ==
  LET to       == TargetSection(p, pending)
      entering == to # p.section \/ pending # NoSection
      shares   == entering /\ p.intro /\ ~p.redistributed
  IN [section       |-> to,
      intro         |-> Kind[to] = "self_intro",
      started       |-> IF entering THEN e ELSE p.started,
      budgets       |-> IF shares THEN BudgetsWithLeftover(p, e) ELSE p.budgets,
      redistributed |-> p.redistributed \/ shares]

\* The place in the plan of an interview that has not begun: the first
\* self-introduction section, or section 0 treated as one.
InitialSection ==
  LET intros == {i \in Section : Kind[i] = "self_intro"}
  IN IF intros = {} THEN 0 ELSE Earliest(intros)

InitialPlace ==
  [section |-> InitialSection, intro |-> TRUE, started |-> 0,
   budgets |-> Allotted, redistributed |-> FALSE]
=============================================================================
