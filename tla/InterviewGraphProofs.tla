------------------------ MODULE InterviewGraphProofs ------------------------
(***************************************************************************)
(* Proofs about the timing rules, the workflow and its bridge, for every   *)
(* plan of sections and every number of turns and failures.                *)
(***************************************************************************)
EXTENDS InterviewGraph, InductionPrinciples, TLAPS

-----------------------------------------------------------------------------
\* The timing rules.

\* A non-empty set of naturals has a least element, which Earliest returns.
LEMMA EarliestExists ==
  ASSUME NEW S \in SUBSET Nat, S # {}
  PROVE  Earliest(S) \in S /\ \A j \in S : Earliest(S) <= j
  BY LeastNatural DEF Earliest

\* The sections after another one are sections with a larger index that are
\* not self-introductions.
LEMMA AfterIsLater ==
  ASSUME NEW s \in Section
  PROVE  /\ After(s) \in SUBSET Section
         /\ \A i \in After(s) : i > s /\ Kind[i] # "self_intro"
  BY DEF After, Section

\* Targets of a transition are sections that lie ahead.
LEMMA EarliestLater ==
  ASSUME NEW p \in Place, NEW S \in SUBSET Later(p), S # {}
  PROVE  Earliest(S) \in Later(p)
<1>1. S \in SUBSET Nat
  BY AfterIsLater DEF Later, Place, Section
<1> QED BY <1>1, EarliestExists

\* The section that is entered next lies ahead.
LEMMA NextSectionLater ==
  ASSUME NEW p \in Place, NEW e \in Nat, Later(p) # {}
  PROVE  NextSection(p, e) \in Later(p)
<1>1. LaterBehavioural(p) \in SUBSET Later(p)
  BY DEF LaterBehavioural
<1>2. CASE NeedsRescue(p, e)
  BY <1>1, <1>2, EarliestLater DEF NextSection, NeedsRescue
<1>3. CASE ~NeedsRescue(p, e)
  BY <1>3, EarliestLater DEF NextSection
<1> QED BY <1>2, <1>3

-----------------------------------------------------------------------------
\* Budgets stay what they are: numbers of seconds, at least one.

\* Finitely many sections lie ahead.
LEMMA LaterFinite ==
  ASSUME NEW p \in Place
  PROVE  /\ IsFiniteSet(Later(p))
         /\ Cardinality(Later(p)) \in Nat
         /\ Later(p) # {} => Cardinality(Later(p)) > 0
<1>1. IsFiniteSet(Section)
  BY PlanAssumption, FS_Interval DEF Section
<1>2. Later(p) \in SUBSET Section
  BY AfterIsLater DEF Later, Place
<1>3. IsFiniteSet(Later(p)) /\ Cardinality(Later(p)) \in Nat
  BY <1>1, <1>2, FS_Subset, FS_CardinalityType
<1> QED BY <1>3, FS_EmptySet

\* The time reserved for later sections is a natural number: the slots it
\* counts are finitely many.
LEMMA ReservedType ==
  ASSUME NEW p \in Place
  PROVE  Reserved(p) \in Nat
<1> DEFINE S == Later(p)
           f == [i \in S |-> {i} \X (1 .. p.budgets[i])]
           T == {{i} \X (1 .. p.budgets[i]) : i \in S}
<1>1. IsFiniteSet(S) /\ S \in SUBSET Section
  BY LaterFinite, AfterIsLater DEF Later, Place
<1>2. f \in Surjection(S, T)
  BY DEF Surjection
<1>3. IsFiniteSet(T)
  BY <1>1, <1>2, FS_Surjection
<1>4. \A t \in T : IsFiniteSet(t)
  <2>1. SUFFICES ASSUME NEW i \in S PROVE IsFiniteSet({i} \X (1 .. p.budgets[i]))
    OBVIOUS
  <2>2. p.budgets[i] \in Nat
    BY <1>1 DEF Place
  <2>3. IsFiniteSet({i})
    BY FS_Singleton
  <2>4. IsFiniteSet(1 .. p.budgets[i])
    <3>1. 1 \in Int /\ p.budgets[i] \in Int
      BY <2>2
    <3> QED BY ONLY <3>1, FS_Interval
  <2> QED BY <2>3, <2>4, FS_Product
<1>5. IsFiniteSet(UNION T)
  BY <1>3, <1>4, FS_UNION
<1> QED BY <1>5, FS_CardinalityType DEF Reserved, Slots

\* The deadline of a section is a number of seconds.
LEMMA DeadlineType ==
  ASSUME NEW p \in Place, NEW g \in Nat
  PROVE  Deadline(p, g) \in Nat
  BY ReservedType, PlanAssumption DEF Deadline, Place, AtLeast0, Lesser

\* So is what remains of a section.
LEMMA SectionRemainingType ==
  ASSUME NEW p \in Place, NEW e \in Nat
  PROVE  SectionRemaining(p, e) \in Nat
  BY DeadlineType, PlanAssumption
  DEF SectionRemaining, SectionElapsed, Place, AtLeast0, Lesser

\* So is the share of a later section.
LEMMA BonusType ==
  ASSUME NEW p \in Place, NEW e \in Nat, NEW i \in Later(p)
  PROVE  Bonus(p, e, i) \in Nat
<1> DEFINE n == Cardinality(Later(p))
           left == SectionRemaining(p, e)
<1>1. n \in Nat /\ n > 0
  BY LaterFinite
<1>2. left \in Nat
  BY SectionRemainingType
<1>3. left \div n \in Nat
  BY <1>1, <1>2
<1> HIDE DEF n, left
<1>4. (left \div n) + (IF Cardinality({j \in Later(p) : j < i}) < left % n
                       THEN 1 ELSE 0) \in Nat
  BY <1>3
<1> QED BY <1>4 DEF Bonus, n, left

\* The section of the next question, whether or not a transition is pending.
LEMMA TargetSectionType ==
  ASSUME NEW p \in Place, NEW target \in Section \cup {NoSection}
  PROVE  TargetSection(p, target) \in Section
<1>1. Later(p) \in SUBSET Section
  BY AfterIsLater DEF Later, Place
<1>2. Later(p) # {} => Earliest(Later(p)) \in Section
  BY <1>1, EarliestLater
<1> QED BY <1>2 DEF TargetSection, Place

\* Asking a question leaves the interview at a place of its plan.
LEMMA AskType ==
  ASSUME NEW p \in Place, NEW target \in Section \cup {NoSection}, NEW e \in Nat
  PROVE  Ask(p, target, e) \in Place
<1>1. TargetSection(p, target) \in Section
  BY TargetSectionType
<1>2. BudgetsWithLeftover(p, e) \in [Section -> Nat \ {0}]
  <2>1. SUFFICES ASSUME NEW i \in Section
                 PROVE  (IF i \in Later(p) THEN p.budgets[i] + Bonus(p, e, i)
                                           ELSE p.budgets[i]) \in Nat \ {0}
    BY DEF BudgetsWithLeftover
  <2>2. p.budgets[i] \in Nat \ {0}
    BY DEF Place
  <2> QED BY <2>2, BonusType
<1>3. p.started \in Nat /\ p.budgets \in [Section -> Nat \ {0}]
        /\ p.redistributed \in BOOLEAN /\ p.intro \in BOOLEAN
  BY DEF Place
<1> QED BY <1>1, <1>2, <1>3 DEF Ask, Place

\* The interview starts at a place of its plan.
LEMMA InitialPlaceType == InitialPlace \in Place
<1> DEFINE intros == {i \in Section : Kind[i] = "self_intro"}
<1>1. intros \in SUBSET Nat
  BY DEF Section
<1>2. intros # {} => Earliest(intros) \in intros
  BY <1>1, EarliestExists
<1>3. 0 \in Section
  BY PlanAssumption DEF Section
<1>4. InitialSection \in Section
  BY <1>2, <1>3 DEF InitialSection
<1> QED BY <1>4, PlanAssumption DEF InitialPlace, Place

-----------------------------------------------------------------------------
\* What is left over is shared to the second.

\* The seconds of a section are as many as its budget, and not those of others.
LEMMA SlotsOfSection ==
  ASSUME NEW i, NEW m \in Nat
  PROVE  IsFiniteSet({i} \X (1 .. m)) /\ Cardinality({i} \X (1 .. m)) = m
<1>1. IsFiniteSet({i}) /\ Cardinality({i}) = 1
  BY FS_Singleton
<1>2. IsFiniteSet(1 .. m) /\ Cardinality(1 .. m) = m
  <2>1. 1 \in Int /\ m \in Int
    OBVIOUS
  <2>2. /\ IsFiniteSet(1 .. m)
        /\ Cardinality(1 .. m) = IF 1 > m THEN 0 ELSE m-1+1
    BY ONLY <2>1, FS_Interval
  <2>3. (IF 1 > m THEN 0 ELSE m-1+1) = m
    OBVIOUS
  <2> QED
    BY <2>2, <2>3
<1> DEFINE I == 1 .. m
<1> HIDE DEF I
<1>3. IsFiniteSet({i} \X I) /\ Cardinality({i} \X I) = Cardinality({i}) * Cardinality(I)
  BY <1>1, <1>2, FS_Product DEF I
<1>4. Cardinality({i}) * Cardinality(I) = m
  BY <1>1, <1>2 DEF I
<1> QED
  BY <1>3, <1>4 DEF I

\* One more section adds its budget to what is reserved.
LEMMA SlotsAdded ==
  ASSUME NEW b, NEW S, NEW i, i \notin S, b[i] \in Nat, IsFiniteSet(Slots(b, S))
  PROVE  /\ IsFiniteSet(Slots(b, S \union {i}))
         /\ Cardinality(Slots(b, S \union {i})) = Cardinality(Slots(b, S)) + b[i]
<1>1. PICK X, Y, m : X = {i} \X (1 .. b[i]) /\ Y = Slots(b, S) /\ m = b[i]
  OBVIOUS
<1>2. IsFiniteSet(X) /\ Cardinality(X) = m
  BY <1>1, SlotsOfSection
<1>3. Slots(b, S \union {i}) = Y \union X
  BY <1>1 DEF Slots
<1>4. Y \cap X = {}
  BY <1>1 DEF Slots
<1>5. /\ IsFiniteSet(Y \union X)
      /\ Cardinality(Y \union X) = Cardinality(Y) + Cardinality(X) - Cardinality({})
  <2>1. IsFiniteSet(Y) /\ IsFiniteSet(X)
    BY <1>1, <1>2
  <2> QED
    BY ONLY <1>4, <2>1, FS_Union
<1>6. PICK y \in Nat : y = Cardinality(Y)
  BY <1>1, FS_CardinalityType
<1>7. Cardinality(Y \union X) = y + m
  <2>1. Cardinality({}) = 0
    BY FS_EmptySet
  <2>2. m \in Nat
    BY <1>1
  <2> QED
    BY <1>2, <1>5, <1>6, <2>1, <2>2
<1> QED
  BY <1>1, <1>3, <1>5, <1>6, <1>7

\* The budgets to with which every section of S has quota more than with the
\* budgets from, and the first rest of them one second more.
Shared(S, from, to, quota, rest) ==
  \A i \in S : /\ from[i] \in Nat
               /\ to[i] = from[i] + quota
                    + (IF Cardinality({j \in S : j < i}) < rest THEN 1 ELSE 0)

\* What the sections of S before k have got.
SharedUpTo(S, from, to, quota, rest, k) ==
  LET before == {j \in S : j < k}
      c == Cardinality(before)
  IN /\ IsFiniteSet(Slots(from, before)) /\ IsFiniteSet(Slots(to, before))
     /\ Cardinality(Slots(to, before)) =
          Cardinality(Slots(from, before)) + quota * c + Lesser(c, rest)

\* The next section gets its share.
LEMMA SharedStep ==
  ASSUME NEW S \in SUBSET Nat, IsFiniteSet(S), NEW from, NEW to,
         NEW quota \in Nat, NEW rest \in Nat, Shared(S, from, to, quota, rest),
         NEW k \in Nat, SharedUpTo(S, from, to, quota, rest, k)
  PROVE  SharedUpTo(S, from, to, quota, rest, k + 1)
<1> DEFINE Before(n) == {j \in S : j < n}
<1>1. PICK c : c = Cardinality(Before(k))
  OBVIOUS
<1>2. IsFiniteSet(Before(k)) /\ c \in Nat
  <2>1. Before(k) \subseteq S
    OBVIOUS
  <2> HIDE DEF Before
  <2> QED
    BY <1>1, <2>1, FS_Subset, FS_CardinalityType
<1>3. /\ IsFiniteSet(Slots(from, Before(k))) /\ IsFiniteSet(Slots(to, Before(k)))
      /\ Cardinality(Slots(to, Before(k))) =
           Cardinality(Slots(from, Before(k))) + quota * c + Lesser(c, rest)
  BY <1>1 DEF SharedUpTo
<1>4. CASE k \notin S
  <2>1. Before(k + 1) = Before(k)
    <3>1. \A j \in S : j \in Nat /\ j # k
      BY <1>4
    <3>2. \A j \in S : j < k + 1 <=> j < k
      BY <3>1
    <3> QED
      BY <3>2
  <2> QED
    BY <2>1 DEF SharedUpTo
<1>5. CASE k \in S
  <2>1. Before(k + 1) = Before(k) \union {k} /\ k \notin Before(k)
    <3>1. \A j \in S : j \in Nat
      OBVIOUS
    <3>2. \A j \in S : j < k + 1 <=> j < k \/ j = k
      BY <3>1
    <3>3. ~(k < k)
      OBVIOUS
    <3> QED
      BY <1>5, <3>2, <3>3
  <2>2. PICK B : B = Before(k)
    OBVIOUS
  <2>3. Cardinality(B \union {k}) = c + 1
    BY <1>1, <1>2, <2>1, <2>2, FS_AddElement
  <2>4. from[k] \in Nat /\ to[k] = from[k] + quota + (IF c < rest THEN 1 ELSE 0)
    BY <1>1, <1>5 DEF Shared
  <2>5. /\ to[k] \in Nat /\ quota * (c + 1) = quota * c + quota
        /\ quota * c \in Nat
        /\ Lesser(c + 1, rest) = Lesser(c, rest) + (IF c < rest THEN 1 ELSE 0)
        /\ Lesser(c, rest) \in Nat
    BY <1>2, <2>4 DEF Lesser
  <2>6. /\ IsFiniteSet(Slots(from, B \union {k}))
        /\ Cardinality(Slots(from, B \union {k})) = Cardinality(Slots(from, B)) + from[k]
        /\ IsFiniteSet(Slots(to, B \union {k}))
        /\ Cardinality(Slots(to, B \union {k})) = Cardinality(Slots(to, B)) + to[k]
    BY <1>3, <2>1, <2>2, <2>4, <2>5, SlotsAdded
  <2>7. PICK x, y : /\ x \in Nat /\ x = Cardinality(Slots(from, B))
                   /\ y = Cardinality(Slots(to, B))
    BY <1>3, <2>2, FS_CardinalityType
  <2>8. y = x + quota * c + Lesser(c, rest)
    BY <1>3, <2>2, <2>7
  <2>9. y + to[k] = (x + from[k]) + quota * (c + 1) + Lesser(c + 1, rest)
    BY <2>4, <2>5, <2>7, <2>8
  <2>10. Cardinality(Slots(to, B \union {k})) =
           Cardinality(Slots(from, B \union {k})) + quota * (c + 1) + Lesser(c + 1, rest)
    BY <2>6, <2>7, <2>9
  <2> QED
    BY <2>1, <2>2, <2>3, <2>6, <2>10 DEF SharedUpTo
<1> QED
  BY <1>4, <1>5

\* Together they get what there is to share.
LEMMA SharedOut ==
  ASSUME NEW S \in SUBSET Section, NEW from, NEW to,
         NEW quota \in Nat, NEW rest \in Nat, Shared(S, from, to, quota, rest),
         rest <= Cardinality(S)
  PROVE  Cardinality(Slots(to, S)) =
           Cardinality(Slots(from, S)) + quota * Cardinality(S) + rest
<1>0. PICK N \in Nat : N = NSections
  BY PlanAssumption
<1>1. IsFiniteSet(S) /\ Cardinality(S) \in Nat /\ S \in SUBSET Nat
  <2>1. IsFiniteSet(0 .. (N - 1))
    <3>1. 0 \in Int /\ N - 1 \in Int
      OBVIOUS
    <3> QED
      BY ONLY <3>1, FS_Interval
  <2>2. S \in SUBSET Nat /\ S \in SUBSET (0 .. (N - 1))
    BY <1>0 DEF Section
  <2> QED
    BY <2>1, <2>2, FS_Subset, FS_CardinalityType
<1> DEFINE P == {k \in 0 .. N : SharedUpTo(S, from, to, quota, rest, k)}
<1>2. 0 \in P
  <2>1. {j \in S : j < 0} = {}
    <3>1. \A j \in S : j \in Nat
      BY <1>1
    <3>2. \A j \in S : ~(j < 0)
      BY <3>1
    <3> QED
      BY <3>2
  <2>2. Slots(from, {}) = {} /\ Slots(to, {}) = {}
    BY DEF Slots
  <2>3. IsFiniteSet({}) /\ Cardinality({}) = 0
    BY FS_EmptySet
  <2>4. Lesser(0, rest) = 0 /\ quota * 0 = 0 /\ 0 \in 0 .. N
    BY DEF Lesser
  <2>5. SharedUpTo(S, from, to, quota, rest, 0)
    <3>1. PICK z : z = {j \in S : j < 0}
      OBVIOUS
    <3>2. z = {} /\ Slots(from, z) = {} /\ Slots(to, z) = {} /\ Cardinality(z) = 0
      BY <2>1, <2>2, <2>3, <3>1
    <3>3. 0 = 0 + quota * Cardinality(z) + Lesser(Cardinality(z), rest)
      BY <2>4, <3>2
    <3>4. Cardinality(Slots(to, z)) = Cardinality(Slots(from, z))
             + quota * Cardinality(z) + Lesser(Cardinality(z), rest)
      BY <2>3, <3>2, <3>3
    <3> QED
      BY <2>3, <3>1, <3>2, <3>4 DEF SharedUpTo
  <2> QED
    BY <2>4, <2>5
<1>3. ASSUME NEW k \in 0 .. (N - 1), k \in P PROVE k + 1 \in P
  <2>1. k \in Nat /\ k + 1 \in 0 .. N
    OBVIOUS
  <2> QED
    BY <1>1, <1>3, <2>1, SharedStep
<1>4. N \in P
  <2> HIDE DEF P
  <2> QED
    BY <1>2, <1>3, IntervalInduction
<1>5. {j \in S : j < N} = S
  <2>1. \A j \in S : j < N
    BY <1>0 DEF Section
  <2> QED
    BY <2>1
<1>6. Lesser(Cardinality(S), rest) = rest
  BY <1>1 DEF Lesser
<1> QED
  BY <1>4, <1>5, <1>6 DEF SharedUpTo

\* Quotient and remainder.
LEMMA Division ==
  ASSUME NEW a \in Nat, NEW d \in Nat, d > 0
  PROVE  /\ a \div d \in Nat /\ a % d \in Nat /\ a % d < d
         /\ a = (a \div d) * d + (a % d)
<1>1. a \div d \in Nat
  OBVIOUS
<1>2. a % d \in Nat /\ a % d < d
  OBVIOUS
<1>3. a = (a \div d) * d + (a % d)
  OBVIOUS
<1> QED
  BY <1>1, <1>2, <1>3

\* The introduction's time left over is handed out to the second.
LEMMA LeftoverShared ==
  ASSUME NEW p \in Place, NEW e \in Nat, Later(p) # {}
  PROVE  Cardinality(Slots(BudgetsWithLeftover(p, e), Later(p)))
           = Reserved(p) + SectionRemaining(p, e)
<1>1. PICK n \in Nat, left \in Nat :
        /\ n = Cardinality(Later(p)) /\ n > 0
        /\ left = SectionRemaining(p, e)
  BY LaterFinite, SectionRemainingType
<1>2. PICK quota, rest : quota = left \div n /\ rest = left % n
  OBVIOUS
<1>3. quota \in Nat /\ rest \in Nat /\ rest < n /\ left = quota * n + rest
  BY <1>1, <1>2, Division
<1>4. PICK S : S = Later(p)
  OBVIOUS
<1>5. S \in SUBSET Section
  BY <1>4, AfterIsLater DEF Later, Place
<1>6. Shared(S, p.budgets, BudgetsWithLeftover(p, e), quota, rest)
  <2>1. ASSUME NEW i \in S
        PROVE  /\ p.budgets[i] \in Nat
               /\ BudgetsWithLeftover(p, e)[i] = p.budgets[i] + quota
                    + (IF Cardinality({j \in S : j < i}) < rest THEN 1 ELSE 0)
    <3>1. i \in Section /\ i \in Later(p)
      BY <1>4, <1>5
    <3>2. p.budgets[i] \in Nat
      BY <3>1 DEF Place
    <3>3. BudgetsWithLeftover(p, e)[i] = p.budgets[i] + Bonus(p, e, i)
      BY <3>1 DEF BudgetsWithLeftover
    <3>4. Bonus(p, e, i) =
            quota + (IF Cardinality({j \in S : j < i}) < rest THEN 1 ELSE 0)
      BY <1>1, <1>2, <1>4 DEF Bonus
    <3> QED
      BY <1>3, <3>2, <3>3, <3>4
  <2> QED
    BY <2>1 DEF Shared
<1>7. Cardinality(Slots(BudgetsWithLeftover(p, e), S)) =
        Cardinality(Slots(p.budgets, S)) + quota * Cardinality(S) + rest
  <2>1. rest <= Cardinality(S)
    BY <1>1, <1>3, <1>4
  <2>2. quota \in Nat /\ rest \in Nat
    BY <1>3
  <2> QED
    BY <1>5, <1>6, <2>1, <2>2, SharedOut
<1>8. Cardinality(Slots(p.budgets, S)) \in Nat
  BY <1>4, ReservedType DEF Reserved
<1>9. Cardinality(S) = n
  BY <1>1, <1>4
<1> QED
  BY <1>1, <1>3, <1>4, <1>7, <1>8, <1>9 DEF Reserved

\* Sharing out what the introduction left over promises no more time than the
\* interview has: what was still possible when the introduction ended remains
\* so with the longer budgets.
THEOREM SharingFits ==
  ASSUME NEW p \in Place, NEW e \in Nat, Later(p) # {}, e + Reserved(p) <= Total
  PROVE  e + Cardinality(Slots(BudgetsWithLeftover(p, e), Later(p))) <= Total
<1>1. PICK reserved \in Nat, left \in Nat, total \in Nat :
        /\ reserved = Reserved(p) /\ left = SectionRemaining(p, e) /\ total = Total
  BY ReservedType, SectionRemainingType, PlanAssumption
<1>2. PICK deadline \in Nat : deadline = Deadline(p, 0)
  BY DeadlineType
<1>3. deadline <= total - reserved
  BY <1>1, <1>2 DEF Deadline, AtLeast0, Lesser, Place
<1>4. left <= AtLeast0(deadline - e)
  BY <1>1, <1>2 DEF SectionRemaining, SectionElapsed, AtLeast0, Lesser, Place
<1>5. e + reserved + left <= total
  BY <1>1, <1>3, <1>4 DEF AtLeast0
<1>6. Cardinality(Slots(BudgetsWithLeftover(p, e), Later(p))) = reserved + left
  BY <1>1, LeftoverShared
<1> QED
  BY <1>1, <1>5, <1>6

-----------------------------------------------------------------------------
\* Decisions.

\* Asking a question either stays in the section or enters one that lies
\* ahead, and what lies ahead is never a self-introduction.
LEMMA AskMovesForward ==
  ASSUME NEW p \in Place, NEW target \in Later(p) \cup {NoSection}, NEW e \in Nat
  PROVE  LET q == Ask(p, target, e)
         IN  q.section = p.section \/ (q.section \in Later(p) /\ ~q.intro)
<1>1. target # NoSection => target \in Later(p)
  OBVIOUS
<1>2. Later(p) # {} => Earliest(Later(p)) \in Later(p)
  BY EarliestLater
<1>3. TargetSection(p, target) = p.section \/ TargetSection(p, target) \in Later(p)
  BY <1>1, <1>2 DEF TargetSection
<1>4. \A i \in Later(p) : Kind[i] # "self_intro"
  BY AfterIsLater DEF Later, Place
<1> QED BY <1>3, <1>4 DEF Ask

\* An answer that moves on names a section ahead.
LEMMA AnswerTargetLater ==
  ASSUME NEW p \in Place, NEW e \in Nat
  PROVE  AnswerTarget(p, e) \in Later(p) \cup {NoSection}
  BY NextSectionLater DEF AnswerTarget, AnswerMoves

\* A barge-in that moves has a section to move to.
LEMMA BargeMovesHasTarget ==
  ASSUME NEW p \in Place, NEW e \in Nat, BargeMoves(p, e)
  PROVE  NextSection(p, e) \in Later(p)
<1>1. Later(p) # {}
  BY DEF BargeMoves, NeedsRescue, LaterBehavioural
<1> QED BY <1>1, NextSectionLater

\* Whenever the bridge's watchdog holds that a boundary has been reached
\* (seconds_until_section_barge_in), the graph's barge-in node, computing from
\* the same section and time, closes the interview or moves on: the two copies
\* of the arithmetic never disagree about a barge-in being due.
THEOREM DueBargeInActs ==
  ASSUME NEW p \in Place, NEW e \in Nat, WatchdogDue(p, e)
  PROVE  BargeCloses(p, e) \/ BargeMoves(p, e)
<1>1. CASE Total + Grace <= e
  BY <1>1, PlanAssumption DEF BargeCloses, Remaining, AtLeast0
<1>2. CASE ~p.intro /\ Deadline(p, Grace) <= e
  <2>1. Overrun(p, e)
    BY <1>2, DeadlineType, PlanAssumption DEF Overrun
  <2>2. Remaining(e) \in Nat
    BY PlanAssumption DEF Remaining, AtLeast0
  <2> QED BY <1>2, <2>1, <2>2 DEF BargeCloses, BargeMoves
<1>3. CASE ~p.intro /\ LaterBehavioural(p) # {} /\ Total - Rescue <= e
  <2>1. Remaining(e) \in Nat /\ Remaining(e) <= Rescue
    BY <1>3, PlanAssumption DEF Remaining, AtLeast0
  <2> QED BY <1>3, <2>1 DEF BargeCloses, BargeMoves, NeedsRescue
<1> QED BY <1>1, <1>2, <1>3 DEF WatchdogDue, WatchdogBoundaries

-----------------------------------------------------------------------------
USE DEF RouteAfterBotPersistence, RouteAfterCandidatePersistence,
        RouteAfterTimeBargeIn

-----------------------------------------------------------------------------
\* The strengthening that makes the properties inductive, by subject.

\* Once closing is decided only the nodes that lead to the end remain, and no
\* question is staged; the end is reached no other way.
ClosingNode == {"persist_candidate_output", "generate_closing_message",
                "persist_bot_output", "final_evaluation", "end"}
ClosingControl ==
  /\ shouldClose => node \in ClosingNode /\ reply # "question"
  /\ closingDone => shouldClose
  /\ shouldClose /\ node = "persist_candidate_output" => reply = "none"
  /\ node \in {"interviewer_turn", "force_section_time_barge_in"} => reply = "none"
  /\ nextAction = "end" => shouldClose
  /\ node \in {"final_evaluation", "end"} => shouldClose

\* A chosen section is on its way to generate_next_question, and lies ahead; the
\* elapsed time is still that of the event it was chosen for.
PendingControl ==
  pending # NoSection =>
    /\ pending \in Later(place)
    /\ elapsed = event.at
    /\ node \in {"persist_candidate_output", "generate_next_question"}
    /\ node = "persist_candidate_output" =>
         reply = "none" /\ ~shouldClose /\ nextAction = "generate_next_question"

\* The introduction is left for good.
IntroControl == ~place.intro => Kind[place.section] # "self_intro"

\* A bot turn is on its way to persist_bot_output.
BotTurnControl ==
  /\ botTurn.speaker = "bot"
  /\ botTurn # NoTurn =>
       \/ node = "persist_bot_output"
       \/ node = "persist_candidate_output" /\ reply # "none"

\* The bridge believes the interview closed only after a run that closed it,
\* and then starts no other run.
BridgeControl ==
  /\ Closed => shouldClose /\ ~running
  /\ session = "COMPLETED" => Closed

\* Without failures the bridge's view of the section is current between runs,
\* and a barge-in under way was due.
ViewControl ==
  failures = 0 =>
    /\ ~running => mirror.place = place
    /\ node = "force_section_time_barge_in" => WatchdogDue(place, event.at)

\* A candidate turn already handed over has an earlier number, unless the node
\* that handed it over failed and will hand it over again.
HandedOverAgain ==
  \/ node = "persist_candidate_output"
  \/ /\ node = "force_section_time_barge_in"
     /\ BargeCloses(place, event.at) \/ BargeMoves(place, event.at)
CandidateTurnControl ==
  /\ candTurn # NoTurn => candTurn.speaker = "candidate" /\ candTurn.number = turn
  /\ \A t \in transcript :
       t.speaker = "candidate" =>
         t.number < turn \/ (t = candTurn /\ HandedOverAgain)

IInv ==
  /\ TypeOK
  /\ ClosingControl
  /\ PendingControl
  /\ IntroControl
  /\ BotTurnControl
  /\ BridgeControl
  /\ ViewControl
  /\ CandidateTurnControl
  /\ CandidateTurnsDistinct

-----------------------------------------------------------------------------
\* Type correctness.

\* The types of the records the actions build.
LEMMA TurnTypes ==
  ASSUME TypeOK
  PROVE  /\ BotTurn \in Turn /\ CandidateTurn \in Turn /\ NoTurn \in Turn
         /\ CurrentView \in View
         /\ HandOver(botTurn) \in SUBSET Turn
         /\ HandOver(candTurn) \in SUBSET Turn
<1>1. BotTurn \in Turn /\ CandidateTurn \in Turn /\ NoTurn \in Turn
  BY DEF TypeOK, BotTurn, CandidateTurn, NoTurn, Turn, Speaker
<1>2. CurrentView \in View
  BY DEF TypeOK, CurrentView, View
<1> QED BY <1>1, <1>2 DEF HandOver, TypeOK

\* The first state has the types.
LEMMA TypeInit == Init => TypeOK
<1> SUFFICES ASSUME Init PROVE TypeOK
  OBVIOUS
<1>1. NoTurn \in Turn
  BY DEF NoTurn, Turn, Speaker
<1>2. place \in Place
  BY InitialPlaceType DEF Init
<1>3. mirror \in View
  BY <1>2 DEF Init, CurrentView, View, Reply
<1>4. /\ node \in Node /\ response \in Response /\ stage \in Stage
      /\ nextAction \in Action /\ reply \in Reply /\ session \in Session
      /\ timer \in Timer
  BY DEF Init, Node, Response, Stage, Action, Reply, Session, Timer
<1>5. event \in [type : EventType, at : Nat]
  BY DEF Init, EventType
<1>6. /\ pending \in Section \cup {NoSection}
      /\ elapsed \in Nat /\ accumulated \in 0 .. 2 /\ skips \in 0 .. 2 /\ turn \in Nat /\ clock \in Nat
      /\ failures \in Nat /\ enqueued \in Nat /\ uttered \in Nat /\ quiet \in Nat
      /\ transcript \in SUBSET Turn
  BY DEF Init
<1>7. /\ shouldClose \in BOOLEAN /\ closingDone \in BOOLEAN
      /\ task \in BOOLEAN /\ running \in BOOLEAN
      /\ botTurn \in Turn /\ candTurn \in Turn
  BY <1>1 DEF Init
<1> QED BY <1>2, <1>3, <1>4, <1>5, <1>6, <1>7 DEF TypeOK

\* Every answer, however classified, keeps the types.
LEMMA InterviewerTurnType ==
  ASSUME TypeOK, InterviewerTurn
  PROVE  TypeOK'
<1>1. event.at \in Nat
  BY DEF TypeOK
<1>2. BotTurn \in Turn
  BY TurnTypes
<1>3. AnswerTarget(place, event.at) \in Section \cup {NoSection}
  BY <1>1, AnswerTargetLater, AfterIsLater DEF TypeOK, Later, Place
<1>4. Ask(place, AnswerTarget(place, event.at), event.at) \in Place
  BY <1>1, <1>3, AskType DEF TypeOK
<1>5. accumulated' \in 0 .. 2
  BY DEF TypeOK, InterviewerTurn, Accumulate, Lesser
<1>6. CASE SubstantialAnswer
  <2>1. /\ place' \in Place /\ pending' \in Section \cup {NoSection}
        /\ botTurn' \in Turn /\ shouldClose' \in BOOLEAN
        /\ uttered' \in Nat /\ skips' \in 0 .. 2
    <3>1. CASE AnswerEndsInterview
      BY <3>1 DEF TypeOK, AnswerEndsInterview
    <3>2. CASE AnswerStagesQuestion
      <4>1. place' \in Place /\ botTurn' \in Turn
        BY <3>2, <1>2, <1>4 DEF AnswerStagesQuestion
      <4>2. pending' \in Section \cup {NoSection} /\ shouldClose' \in BOOLEAN
        BY <3>2 DEF AnswerStagesQuestion
      <4>3. uttered' \in Nat /\ skips' \in 0 .. 2
        BY <3>2 DEF TypeOK, AnswerStagesQuestion
      <4> QED BY <4>1, <4>2, <4>3
    <3>3. CASE AnswerNeedsQuestion
      BY <3>3, <1>3 DEF TypeOK, AnswerNeedsQuestion
    <3> QED BY <1>6, <3>1, <3>2, <3>3 DEF SubstantialAnswer
  <2>2. nextAction' \in Action /\ reply' \in Reply
    BY <1>6 DEF TypeOK, SubstantialAnswer, AnswerEndsInterview,
                AnswerStagesQuestion, AnswerNeedsQuestion, Action, Reply
  <2>3. response' \in Response /\ stage' \in Stage /\ elapsed' \in Nat
    BY <1>1, <1>6 DEF SubstantialAnswer, Response, Stage
  <2>4. node' \in Node /\ quiet' \in Nat
    BY DEF TypeOK, InterviewerTurn, Node
  <2> QED BY <1>5, <2>1, <2>2, <2>3, <2>4 DEF TypeOK, InterviewerTurn, UnchangedByNodes
<1>7. CASE \E class \in StaticClass : ClassifiedAs(class)
  <2>1. PICK class \in StaticClass : ClassifiedAs(class)
    BY <1>7
  <2>2. class \in Response
    BY <2>1 DEF StaticClass, Response
  <2> QED BY <1>5, <2>1, <2>2
      DEF TypeOK, InterviewerTurn, Runs, UnchangedByNodes, ClassifiedAs, Node,
          Stage, Action
<1> QED BY <1>6, <1>7 DEF InterviewerTurn

\* A submitted event starts a run from well-typed state.
LEMMA ResumeGraphType ==
  ASSUME TypeOK, NEW type \in EventType, NEW speech \in BOOLEAN,
         ResumeGraph(type, speech)
  PROVE  TypeOK'
<1>1. CASE Take(type, speech)
  BY <1>1, TurnTypes DEF TypeOK, ResumeGraph, Take, outside, Node, Action, Reply
<1>2. CASE ResumeFailedRun
  BY <1>2 DEF TypeOK, ResumeGraph, ResumeFailedRun, checkpoint, outside
<1> QED BY <1>1, <1>2 DEF ResumeGraph

\* Every node, run and outside step keeps the types.
LEMMA TypeStep == TypeOK /\ [Next]_vars => TypeOK'
<1> SUFFICES ASSUME TypeOK, [Next]_vars PROVE TypeOK'
  OBVIOUS
<1> USE DEF TypeOK
<1>1. CASE DeliverOpening
  BY <1>1, TurnTypes DEF DeliverOpening, Runs, UnchangedByNodes, Node, Action, Reply
<1>2. CASE PersistBotOutput
  BY <1>2, TurnTypes DEF PersistBotOutput, Runs, UnchangedByNodes, Node
<1>3. CASE Suspend
  BY <1>3, TurnTypes DEF Suspend, Runs, checkpoint, outside, TimerAfterSpeaking, Timer
<1>4. CASE InterviewerTurn
  BY <1>4, InterviewerTurnType
<1>5. CASE PersistCandidateOutput
  BY <1>5, TurnTypes DEF PersistCandidateOutput, Runs, UnchangedByNodes, Node
<1>6. CASE GenerateBotResponse
  BY <1>6, TurnTypes
  DEF GenerateBotResponse, Runs, UnchangedByNodes, AnswerSilence, AnswerSkip,
      StaticReply, ContinueWithQuestion, Lesser, Node, Action, Reply, Stage
<1>7. CASE GenerateNextQuestion
  <2>1. Ask(place, pending, elapsed) \in Place
    BY AskType
  <2> QED BY <1>7, <2>1, TurnTypes
      DEF GenerateNextQuestion, Runs, UnchangedByNodes, Node, Action, Reply, Stage
<1>8. CASE ForceSectionTimeBargeIn
  <2>1. BargeMoves(place, event.at) => NextSection(place, event.at) \in Section
    BY BargeMovesHasTarget, AfterIsLater DEF Later, Place
  <2>2. /\ transcript' \in SUBSET Turn /\ candTurn' \in Turn /\ turn' \in Nat
        /\ shouldClose' \in BOOLEAN /\ pending' \in Section \cup {NoSection}
    <3>1. CASE BargeInCloses
      BY <3>1, TurnTypes DEF BargeInCloses, PersistInterruptedTurn
    <3>2. CASE BargeInMoves
      <4>1. pending' \in Section /\ shouldClose' \in BOOLEAN
        BY <3>2, <2>1 DEF BargeInMoves
      <4>2. transcript' \in SUBSET Turn /\ candTurn' \in Turn /\ turn' \in Nat
        BY <3>2, TurnTypes DEF BargeInMoves, PersistInterruptedTurn
      <4> QED BY <4>1, <4>2
    <3>3. CASE BargeInIgnored
      BY <3>3, TurnTypes DEF BargeInIgnored
    <3> QED BY <1>8, <3>1, <3>2, <3>3 DEF ForceSectionTimeBargeIn
  <2>3. node' \in Node /\ nextAction' \in Action /\ elapsed' \in Nat
    BY <1>8 DEF ForceSectionTimeBargeIn, BargeInCloses, BargeInMoves,
                BargeInIgnored, Node, Action
  <2> QED BY <1>8, <2>2, <2>3 DEF ForceSectionTimeBargeIn, UnchangedByNodes
<1>9. CASE GenerateClosingMessage
  BY <1>9, TurnTypes
  DEF GenerateClosingMessage, Runs, UnchangedByNodes, Node, Action, Reply
<1>10. CASE FinalEvaluation
  <2>1. task' \in BOOLEAN
    BY <1>10 DEF FinalEvaluation
  <2>2. enqueued' \in Nat
    BY <1>10 DEF FinalEvaluation
  <2>3. node' \in Node /\ nextAction' \in Action
    BY <1>10 DEF FinalEvaluation, Node, Action
  <2> QED BY <1>10, <2>1, <2>2, <2>3 DEF FinalEvaluation, UnchangedByNodes
<1>11. CASE Return
  BY <1>11, TurnTypes DEF Return, Runs, checkpoint, outside
<1>12. CASE SubmitCandidateTurn
  BY <1>12, ResumeGraphType DEF SubmitCandidateTurn, EventType
<1>13. CASE SubmitSilence
  BY <1>13, ResumeGraphType DEF SubmitSilence, EventType
<1>14. CASE SubmitSectionTimeBargeIn
  BY <1>14, ResumeGraphType DEF SubmitSectionTimeBargeIn, EventType
<1>15. CASE FailRun
  <2>1. transcript' \in SUBSET Turn /\ enqueued' \in Nat
    BY <1>15, TurnTypes DEF FailRun
  <2>2. failures' \in Nat
    BY <1>15 DEF FailRun
  <2>3. running' \in BOOLEAN
    BY <1>15 DEF FailRun
  <2>4. UNCHANGED <<checkpoint, mirror, clock, timer, session, uttered, quiet>>
    BY <1>15 DEF FailRun
  <2> QED BY <2>1, <2>2, <2>3, <2>4 DEF checkpoint
<1>16. CASE Reconnect
  BY <1>16, TurnTypes DEF Reconnect, checkpoint, outside, TimerAfterSpeaking, Timer
<1>17. CASE StartTimer
  BY <1>17 DEF StartTimer, checkpoint, outside, Timer
<1>18. CASE FinalizeClosing
  BY <1>18 DEF FinalizeClosing, checkpoint, View, Session
<1>19. CASE Tick
  BY <1>19 DEF Tick, checkpoint, outside
<1>20. CASE UNCHANGED vars
  BY <1>20 DEF vars, checkpoint, outside
<1> QED
  BY <1>1, <1>2, <1>3, <1>4, <1>5, <1>6, <1>7, <1>8, <1>9, <1>10, <1>11, <1>12,
     <1>13, <1>14, <1>15, <1>16, <1>17, <1>18, <1>19, <1>20
  DEF Next, RunStep

\* Every variable always has its type, for every plan and every bound.
THEOREM TypeCorrect == Spec => []TypeOK
  BY TypeInit, TypeStep, PTL DEF Spec

-----------------------------------------------------------------------------
\* What the checkpoint's control fields promise.

\* The steps that change the checkpoint: a node, or a submitted event.
LEMMA CheckpointSteps ==
  ASSUME [Next]_vars
  PROVE  \/ DeliverOpening \/ PersistBotOutput \/ InterviewerTurn
         \/ PersistCandidateOutput \/ GenerateBotResponse \/ GenerateNextQuestion
         \/ ForceSectionTimeBargeIn \/ GenerateClosingMessage \/ FinalEvaluation
         \/ /\ \E type \in EventType, speech \in BOOLEAN : Take(type, speech)
            /\ UNCHANGED transcript
         \/ UNCHANGED checkpoint /\ (FailRun \/ UNCHANGED transcript)
<1> DEFINE Taken == /\ \E type \in EventType, speech \in BOOLEAN : Take(type, speech)
                    /\ UNCHANGED transcript
           Kept == UNCHANGED checkpoint /\ (FailRun \/ UNCHANGED transcript)
<1>1. ASSUME NEW type \in EventType, NEW speech \in BOOLEAN, ResumeGraph(type, speech)
      PROVE  Taken \/ Kept
  BY <1>1 DEF ResumeGraph, ResumeFailedRun, outside
<1>2. SubmitCandidateTurn \/ SubmitSilence \/ SubmitSectionTimeBargeIn
        => Taken \/ Kept
  <2>1. SubmitCandidateTurn => Taken \/ Kept
    BY <1>1 DEF SubmitCandidateTurn, EventType
  <2>2. SubmitSilence => Taken \/ Kept
    BY <1>1 DEF SubmitSilence, EventType
  <2>3. SubmitSectionTimeBargeIn => Taken \/ Kept
    BY <1>1 DEF SubmitSectionTimeBargeIn, EventType
  <2> QED BY <2>1, <2>2, <2>3
<1>3. Suspend \/ Return \/ FailRun \/ Reconnect \/ StartTimer \/ FinalizeClosing
        \/ Tick => Kept
  BY DEF Suspend, Return, FailRun, Reconnect, StartTimer, FinalizeClosing, Tick, outside
<1>4. UNCHANGED vars => Kept
  BY DEF vars, outside
<1> QED BY <1>2, <1>3, <1>4 DEF Next, RunStep

\* Every step keeps what a closing checkpoint promises.
LEMMA ClosingControlStep ==
  ASSUME TypeOK, ClosingControl, [Next]_vars
  PROVE  ClosingControl'
<1> USE DEF ClosingControl, ClosingNode
<1>1. CASE DeliverOpening
  BY <1>1 DEF DeliverOpening, Runs
<1>2. CASE PersistBotOutput
  BY <1>2 DEF PersistBotOutput, Runs
<1>3. CASE InterviewerTurn
  <2>1. ~shouldClose /\ reply = "none" /\ ~closingDone
    BY <1>3 DEF InterviewerTurn, Runs
  <2>2. CASE SubstantialAnswer
    BY <1>3, <2>1, <2>2
    DEF InterviewerTurn, SubstantialAnswer, AnswerEndsInterview,
        AnswerStagesQuestion, AnswerNeedsQuestion
  <2>3. CASE \E class \in StaticClass : ClassifiedAs(class)
    BY <1>3, <2>1, <2>3 DEF InterviewerTurn, ClassifiedAs
  <2> QED BY <1>3, <2>2, <2>3 DEF InterviewerTurn
<1>4. CASE PersistCandidateOutput
  BY <1>4 DEF PersistCandidateOutput, Runs
<1>5. CASE GenerateBotResponse
  BY <1>5 DEF GenerateBotResponse, Runs, AnswerSilence, AnswerSkip, StaticReply,
              ContinueWithQuestion
<1>6. CASE GenerateNextQuestion
  BY <1>6 DEF GenerateNextQuestion, Runs
<1>7. CASE ForceSectionTimeBargeIn
  BY <1>7 DEF ForceSectionTimeBargeIn, Runs, BargeInCloses, BargeInMoves,
              BargeInIgnored
<1>8. CASE GenerateClosingMessage
  BY <1>8 DEF GenerateClosingMessage
<1>9. CASE FinalEvaluation
  BY <1>9 DEF FinalEvaluation, Runs
<1>10. CASE \E type \in EventType, speech \in BOOLEAN : Take(type, speech)
  BY <1>10 DEF Take
<1>11. CASE UNCHANGED checkpoint
  BY <1>11 DEF checkpoint
<1> QED BY <1>1, <1>2, <1>3, <1>4, <1>5, <1>6, <1>7, <1>8, <1>9, <1>10, <1>11,
           CheckpointSteps

\* Every step keeps what a pending section promises.
LEMMA PendingControlStep ==
  ASSUME TypeOK, ClosingControl, PendingControl, [Next]_vars
  PROVE  PendingControl'
<1> USE DEF PendingControl
<1>1. CASE DeliverOpening
  BY <1>1 DEF DeliverOpening, Runs
<1>2. CASE PersistBotOutput
  BY <1>2 DEF PersistBotOutput, Runs
<1>3. CASE InterviewerTurn
  <2>1. pending = NoSection /\ reply = "none"
    BY <1>3 DEF InterviewerTurn, Runs, ClosingControl
  <2>2. CASE SubstantialAnswer
    <3>1. CASE AnswerEndsInterview
      BY <3>1 DEF AnswerEndsInterview
    <3>2. CASE AnswerStagesQuestion
      BY <3>2 DEF AnswerStagesQuestion
    <3>3. CASE AnswerNeedsQuestion
      <4>1. event.at \in Nat
        BY DEF TypeOK
      <4>2. pending' # NoSection => pending' \in Later(place)
        BY <3>3, <4>1, AnswerTargetLater DEF AnswerNeedsQuestion, TypeOK
      <4>3. place' = place /\ Later(place') = Later(place)
        BY <3>3 DEF AnswerNeedsQuestion
      <4>4. elapsed' = event'.at
        BY <1>3, <2>2 DEF InterviewerTurn, SubstantialAnswer
      <4> QED BY <1>3, <2>1, <3>3, <4>2, <4>3, <4>4
          DEF InterviewerTurn, AnswerNeedsQuestion, Later
    <3> QED BY <2>2, <3>1, <3>2, <3>3 DEF SubstantialAnswer
  <2>3. CASE \E class \in StaticClass : ClassifiedAs(class)
    BY <2>1, <2>3 DEF ClassifiedAs
  <2> QED BY <1>3, <2>2, <2>3 DEF InterviewerTurn
<1>4. CASE PersistCandidateOutput
  <2>1. pending' = pending /\ Later(place)' = Later(place)
    BY <1>4 DEF PersistCandidateOutput, Later
  <2> QED BY <1>4, <2>1 DEF PersistCandidateOutput, Runs
<1>5. CASE GenerateBotResponse
  BY <1>5 DEF GenerateBotResponse, Runs
<1>6. CASE GenerateNextQuestion
  BY <1>6 DEF GenerateNextQuestion
<1>7. CASE ForceSectionTimeBargeIn
  <2>1. event.at \in Nat /\ Later(place)' = Later(place)
    BY <1>7 DEF TypeOK, ForceSectionTimeBargeIn, Later
  <2>2. BargeMoves(place, event.at) => NextSection(place, event.at) \in Later(place)
    BY <2>1, BargeMovesHasTarget DEF TypeOK
  <2> QED BY <1>7, <2>1, <2>2
      DEF ForceSectionTimeBargeIn, Runs, BargeInCloses, BargeInMoves, BargeInIgnored
<1>8. CASE GenerateClosingMessage
  BY <1>8 DEF GenerateClosingMessage, Runs
<1>9. CASE FinalEvaluation
  BY <1>9 DEF FinalEvaluation, Runs
<1>10. CASE \E type \in EventType, speech \in BOOLEAN : Take(type, speech)
  BY <1>10 DEF Take
<1>11. CASE UNCHANGED checkpoint
  BY <1>11 DEF checkpoint, Later
<1> QED BY <1>1, <1>2, <1>3, <1>4, <1>5, <1>6, <1>7, <1>8, <1>9, <1>10, <1>11,
           CheckpointSteps

\* Every step keeps what is promised of the introduction.
LEMMA IntroControlStep ==
  ASSUME TypeOK, IntroControl, [Next]_vars
  PROVE  IntroControl'
<1> USE DEF IntroControl
<1>1. ASSUME NEW target, NEW e, place' = Ask(place, target, e)
      PROVE  ~place'.intro => Kind[place'.section] # "self_intro"
  BY <1>1 DEF Ask
<1>2. CASE DeliverOpening
  BY <1>2 DEF DeliverOpening
<1>3. CASE PersistBotOutput
  BY <1>3 DEF PersistBotOutput
<1>4. CASE InterviewerTurn
  <2>1. CASE AnswerStagesQuestion
    BY <1>1, <2>1 DEF AnswerStagesQuestion
  <2>2. CASE AnswerEndsInterview \/ AnswerNeedsQuestion
    BY <2>2 DEF AnswerEndsInterview, AnswerNeedsQuestion
  <2>3. CASE \E class \in StaticClass : ClassifiedAs(class)
    BY <2>3 DEF ClassifiedAs
  <2> QED BY <1>4, <2>1, <2>2, <2>3 DEF InterviewerTurn, SubstantialAnswer
<1>5. CASE PersistCandidateOutput
  BY <1>5 DEF PersistCandidateOutput
<1>6. CASE GenerateBotResponse
  BY <1>6 DEF GenerateBotResponse
<1>7. CASE GenerateNextQuestion
  BY <1>1, <1>7 DEF GenerateNextQuestion
<1>8. CASE ForceSectionTimeBargeIn
  BY <1>8 DEF ForceSectionTimeBargeIn
<1>9. CASE GenerateClosingMessage
  BY <1>9 DEF GenerateClosingMessage
<1>10. CASE FinalEvaluation
  BY <1>10 DEF FinalEvaluation
<1>11. CASE \E type \in EventType, speech \in BOOLEAN : Take(type, speech)
  BY <1>11 DEF Take
<1>12. CASE UNCHANGED checkpoint
  BY <1>12 DEF checkpoint
<1> QED BY <1>2, <1>3, <1>4, <1>5, <1>6, <1>7, <1>8, <1>9, <1>10, <1>11, <1>12,
           CheckpointSteps

\* Every step keeps what a bot turn not yet handed over promises.
LEMMA BotTurnControlStep ==
  ASSUME TypeOK, BotTurnControl, ClosingControl, [Next]_vars
  PROVE  BotTurnControl'
<1> USE DEF BotTurnControl
<1> BotTurn.speaker = "bot" /\ NoTurn.speaker = "bot"
  BY DEF BotTurn, NoTurn
<1>1. CASE DeliverOpening
  BY <1>1 DEF DeliverOpening
<1>2. CASE PersistBotOutput
  BY <1>2 DEF PersistBotOutput
<1>3. CASE InterviewerTurn
  <2>1. botTurn = NoTurn
    BY <1>3 DEF InterviewerTurn, Runs
  <2>2. botTurn' = NoTurn \/ (botTurn' = BotTurn /\ reply' # "none")
    BY <1>3, <2>1 DEF InterviewerTurn, SubstantialAnswer, AnswerEndsInterview,
       AnswerStagesQuestion, AnswerNeedsQuestion, ClassifiedAs
  <2> QED BY <1>3, <2>2 DEF InterviewerTurn
<1>4. CASE PersistCandidateOutput
  BY <1>4 DEF PersistCandidateOutput, Runs
<1>5. CASE GenerateBotResponse
  BY <1>5 DEF GenerateBotResponse, AnswerSilence, AnswerSkip, StaticReply,
              ContinueWithQuestion
<1>6. CASE GenerateNextQuestion
  BY <1>6 DEF GenerateNextQuestion
<1>7. CASE ForceSectionTimeBargeIn
  BY <1>7 DEF ForceSectionTimeBargeIn, Runs
<1>8. CASE GenerateClosingMessage
  BY <1>8 DEF GenerateClosingMessage
<1>9. CASE FinalEvaluation
  BY <1>9 DEF FinalEvaluation, Runs
<1>10. CASE \E type \in EventType, speech \in BOOLEAN : Take(type, speech)
  BY <1>10 DEF Take
<1>11. CASE UNCHANGED checkpoint
  BY <1>11 DEF checkpoint
<1> QED BY <1>1, <1>2, <1>3, <1>4, <1>5, <1>6, <1>7, <1>8, <1>9, <1>10, <1>11,
           CheckpointSteps

-----------------------------------------------------------------------------
\* What the bridge's view promises.

\* The nodes run inside a run and leave the process's own state alone.
LEMMA NodeSteps ==
  ASSUME \/ DeliverOpening \/ PersistBotOutput \/ InterviewerTurn
         \/ PersistCandidateOutput \/ GenerateBotResponse \/ GenerateNextQuestion
         \/ ForceSectionTimeBargeIn \/ GenerateClosingMessage \/ FinalEvaluation
  PROVE  running /\ UnchangedByNodes /\ node' # "force_section_time_barge_in"
  BY DEF DeliverOpening, PersistBotOutput, InterviewerTurn, PersistCandidateOutput,
         GenerateBotResponse, GenerateNextQuestion, ForceSectionTimeBargeIn,
         GenerateClosingMessage, FinalEvaluation, Runs, AnswerSilence, AnswerSkip,
         StaticReply, ContinueWithQuestion, BargeInCloses, BargeInMoves,
         BargeInIgnored

\* Every step keeps the bridge open until a run has closed the interview.
LEMMA BridgeControlStep ==
  ASSUME TypeOK, ClosingControl, BridgeControl, [Next]_vars
  PROVE  BridgeControl'
<1> USE DEF BridgeControl, Closed
<1> DEFINE NodeStep ==
             \/ DeliverOpening \/ PersistBotOutput \/ InterviewerTurn
             \/ PersistCandidateOutput \/ GenerateBotResponse
             \/ GenerateNextQuestion \/ ForceSectionTimeBargeIn
             \/ GenerateClosingMessage \/ FinalEvaluation
<1>1. CASE NodeStep
  <2>1. running /\ UNCHANGED <<running, mirror, session>>
    BY <1>1, NodeSteps DEF UnchangedByNodes
  <2> QED BY <2>1
<1>2. CASE Suspend \/ Return
  <2>1. running /\ running' = FALSE /\ mirror' = CurrentView
    BY <1>2 DEF Suspend, Return, Runs
  <2>2. UNCHANGED <<session, shouldClose>>
    BY <1>2 DEF Suspend, Return, checkpoint, outside
  <2> QED BY <2>1, <2>2 DEF CurrentView, ClosingControl
<1>3. CASE SubmitCandidateTurn \/ SubmitSilence \/ SubmitSectionTimeBargeIn
  <2>1. ~Closed /\ UNCHANGED <<mirror, session>>
    BY <1>3 DEF SubmitCandidateTurn, SubmitSilence, SubmitSectionTimeBargeIn,
                ResumeGraph, outside
  <2> QED BY <2>1
<1>4. CASE FailRun
  BY <1>4 DEF FailRun
<1>5. CASE Reconnect
  <2>1. session' = "IN_PROGRESS" /\ mirror' = CurrentView
    BY <1>5 DEF Reconnect, outside
  <2>2. running' = running /\ ~running /\ shouldClose' = shouldClose
    BY <1>5 DEF Reconnect, checkpoint
  <2> QED BY <2>1, <2>2 DEF CurrentView, ClosingControl
<1>6. CASE FinalizeClosing
  BY <1>6 DEF FinalizeClosing, checkpoint, TypeOK, View
<1>7. CASE StartTimer \/ Tick \/ UNCHANGED vars
  BY <1>7 DEF StartTimer, Tick, vars, checkpoint, outside
<1> QED BY <1>1, <1>2, <1>3, <1>4, <1>5, <1>6, <1>7 DEF Next, RunStep

\* Every step keeps the view that is watched that of the checkpoint, while no
\* run failed.
LEMMA ViewControlStep ==
  ASSUME TypeOK, ViewControl, [Next]_vars
  PROVE  ViewControl'
<1> USE DEF ViewControl
<1> SUFFICES ASSUME failures' = 0
             PROVE  /\ ~running' => mirror'.place = place'
                    /\ node' = "force_section_time_barge_in"
                         => WatchdogDue(place', event'.at)
  OBVIOUS
<1> DEFINE NodeStep ==
             \/ DeliverOpening \/ PersistBotOutput \/ InterviewerTurn
             \/ PersistCandidateOutput \/ GenerateBotResponse
             \/ GenerateNextQuestion \/ ForceSectionTimeBargeIn
             \/ GenerateClosingMessage \/ FinalEvaluation
<1>1. CASE NodeStep
  <2>1. running' = running /\ running /\ node' # "force_section_time_barge_in"
    BY <1>1, NodeSteps DEF UnchangedByNodes
  <2> QED BY <2>1
<1>2. CASE Suspend \/ Return
  <2>1. node' = node /\ node # "force_section_time_barge_in"
    BY <1>2 DEF Suspend, Return, Runs, checkpoint
  <2>2. mirror' = CurrentView /\ place' = place
    BY <1>2 DEF Suspend, Return, checkpoint
  <2> QED BY <2>1, <2>2 DEF CurrentView
<1>3. CASE SubmitCandidateTurn \/ SubmitSilence \/ SubmitSectionTimeBargeIn
  <2>1. ~running /\ running' /\ failures = 0
    BY <1>3 DEF SubmitCandidateTurn, SubmitSilence, SubmitSectionTimeBargeIn,
                ResumeGraph
  <2>2. CASE UNCHANGED checkpoint
    BY <2>1, <2>2 DEF checkpoint
  <2>3. ASSUME NEW type, NEW speech, Take(type, speech), type # "section_time_barge_in"
        PROVE  node' # "force_section_time_barge_in"
    BY <2>3 DEF Take
  <2>4. ASSUME NEW speech, Take("section_time_barge_in", speech),
               WatchdogDue(mirror.place, clock)
        PROVE  WatchdogDue(place', event'.at)
    BY <2>1, <2>4 DEF Take
  <2> QED BY <1>3, <2>1, <2>2, <2>3, <2>4
      DEF SubmitCandidateTurn, SubmitSilence, SubmitSectionTimeBargeIn,
          ResumeGraph, ResumeFailedRun
<1>4. CASE FailRun \/ Reconnect
  BY <1>4 DEF FailRun, Reconnect, TypeOK
<1>5. CASE StartTimer
  BY <1>5 DEF StartTimer, checkpoint, TypeOK
<1>6. CASE FinalizeClosing
  BY <1>6 DEF FinalizeClosing, checkpoint, TypeOK, View
<1>7. CASE Tick \/ UNCHANGED vars
  BY <1>7 DEF Tick, vars, checkpoint
<1> QED BY <1>1, <1>2, <1>3, <1>4, <1>5, <1>6, <1>7 DEF Next, RunStep

-----------------------------------------------------------------------------
\* What the transcript promises.

\* Handing over the pending candidate turn keeps the ids apart.
LEMMA HandOverCandidate ==
  ASSUME TypeOK, CandidateTurnControl, CandidateTurnsDistinct
  PROVE  /\ \A t, u \in HandOver(candTurn) :
              t.speaker = "candidate" /\ u.speaker = "candidate"
                /\ t.number = u.number => t.said = u.said
         /\ \A t \in HandOver(candTurn) :
              t.speaker = "candidate" => t.number < turn \/ t = candTurn
<1>1. \A t \in transcript :
        t.speaker = "candidate" => t.number < turn \/ t = candTurn
  BY DEF CandidateTurnControl
<1>2. candTurn # NoTurn => candTurn.number = turn
  BY DEF CandidateTurnControl
<1>3. turn \in Nat /\ \A t \in transcript : t.number \in Nat
  BY DEF TypeOK, Turn
<1> QED BY <1>1, <1>2, <1>3 DEF HandOver, CandidateTurnsDistinct

\* Every step keeps candidate turns apart, except a failed run that hands one
\* over again.
LEMMA CandidateTurnStep ==
  ASSUME TypeOK, BotTurnControl, CandidateTurnControl, CandidateTurnsDistinct,
         [Next]_vars
  PROVE  CandidateTurnControl' /\ CandidateTurnsDistinct'
<1> USE DEF CandidateTurnControl, CandidateTurnsDistinct
<1>1. turn \in Nat /\ \A t \in transcript : t.number \in Nat
  BY DEF TypeOK, Turn
\* Steps that leave turns alone, from a node that hands nothing over.
<1>2. ASSUME ~HandedOverAgain, UNCHANGED <<transcript, candTurn, turn>>
      PROVE  CandidateTurnControl' /\ CandidateTurnsDistinct'
  BY <1>2
\* Steps that hand over a bot turn.
<1>3. ASSUME transcript' = HandOver(botTurn), UNCHANGED <<candTurn, turn>>,
             ~HandedOverAgain
      PROVE  CandidateTurnControl' /\ CandidateTurnsDistinct'
  <2>1. botTurn.speaker # "candidate"
    BY DEF BotTurnControl
  <2> QED BY <1>3, <2>1 DEF HandOver
\* Steps that hand over the candidate turn and go to the next number.
<1>4. ASSUME transcript' = HandOver(candTurn), candTurn' = NoTurn, turn' = turn + 1
      PROVE  CandidateTurnControl' /\ CandidateTurnsDistinct'
  <2>1. \A t \in transcript' : t.speaker = "candidate" => t.number < turn'
    <3>1. \A t \in transcript' :
            t.speaker = "candidate" => t.number < turn \/ t = candTurn
      BY <1>4, HandOverCandidate
    <3>2. \A t \in transcript' : t = candTurn => candTurn # NoTurn \/ t \in transcript
      BY <1>4 DEF HandOver
    <3>3. NoTurn.speaker = "bot"
      BY DEF NoTurn
    <3>4. \A t \in transcript' : t.number \in Nat
      BY <1>1, <1>4 DEF HandOver, TypeOK, Turn
    <3> QED BY <1>1, <1>4, <3>1, <3>2, <3>3, <3>4
  <2> QED BY <1>4, <2>1, HandOverCandidate
<1>5. CASE DeliverOpening
  BY <1>2, <1>5 DEF DeliverOpening, Runs, HandedOverAgain
<1>6. CASE PersistBotOutput
  BY <1>3, <1>6 DEF PersistBotOutput, Runs, HandedOverAgain
<1>7. CASE InterviewerTurn
  BY <1>2, <1>7 DEF InterviewerTurn, Runs, HandedOverAgain
<1>8. CASE PersistCandidateOutput
  BY <1>4, <1>8 DEF PersistCandidateOutput
<1>9. CASE GenerateBotResponse
  BY <1>2, <1>9 DEF GenerateBotResponse, Runs, HandedOverAgain
<1>10. CASE GenerateNextQuestion
  BY <1>2, <1>10 DEF GenerateNextQuestion, Runs, HandedOverAgain
<1>11. CASE ForceSectionTimeBargeIn
  <2>1. CASE BargeInCloses \/ BargeInMoves
    BY <1>4, <2>1 DEF BargeInCloses, BargeInMoves, PersistInterruptedTurn
  <2>2. CASE BargeInIgnored
    <3>1. ~HandedOverAgain
      BY <1>11, <2>2 DEF HandedOverAgain, ForceSectionTimeBargeIn, Runs, BargeInIgnored
    <3>2. UNCHANGED <<transcript, turn>> /\ candTurn' \in {candTurn, NoTurn}
      BY <2>2 DEF BargeInIgnored
    <3> QED BY <3>1, <3>2
  <2> QED BY <1>11, <2>1, <2>2 DEF ForceSectionTimeBargeIn
<1>12. CASE GenerateClosingMessage
  BY <1>2, <1>12 DEF GenerateClosingMessage, Runs, HandedOverAgain
<1>13. CASE FinalEvaluation
  BY <1>2, <1>13 DEF FinalEvaluation, Runs, HandedOverAgain
<1>14. CASE /\ \E type \in EventType, speech \in BOOLEAN : Take(type, speech)
            /\ UNCHANGED transcript
  <2>1. ~HandedOverAgain /\ turn' = turn
    BY <1>14 DEF Take, HandedOverAgain
  <2>2. candTurn' \in {NoTurn, CandidateTurn}
    BY <1>14 DEF Take
  <2>3. CandidateTurn.speaker = "candidate" /\ CandidateTurn.number = turn
    BY DEF CandidateTurn
  <2> QED BY <1>14, <2>1, <2>2, <2>3
<1>15. CASE FailRun
  <2>1. UNCHANGED <<candTurn, turn, node, place, event>>
    BY <1>15 DEF FailRun, checkpoint
  <2>2. HandedOverAgain' <=> HandedOverAgain
    BY <2>1 DEF HandedOverAgain
  <2>3. CASE transcript' = transcript
    BY <2>1, <2>2, <2>3
  <2>4. CASE node = "persist_bot_output" /\ transcript' = HandOver(botTurn)
    BY <1>3, <2>1, <2>4 DEF HandedOverAgain
  <2>5. CASE HandedOverAgain /\ transcript' = HandOver(candTurn)
    BY <2>1, <2>2, <2>5, HandOverCandidate
  <2> QED BY <1>15, <2>3, <2>4, <2>5 DEF FailRun, HandedOverAgain
<1>16. CASE UNCHANGED checkpoint /\ UNCHANGED transcript
  BY <1>16 DEF checkpoint, HandedOverAgain
<1> QED
  BY <1>5, <1>6, <1>7, <1>8, <1>9, <1>10, <1>11, <1>12, <1>13, <1>14, <1>15,
     <1>16, CheckpointSteps

-----------------------------------------------------------------------------
\* The inductive invariant.

\* The first state satisfies the invariant.
LEMMA InvariantInit == Init => IInv
<1> SUFFICES ASSUME Init PROVE IInv
  OBVIOUS
<1>1. TypeOK
  BY TypeInit
<1>2. ClosingControl /\ PendingControl /\ BotTurnControl
  BY DEF Init, ClosingControl, PendingControl, BotTurnControl, NoTurn
<1>6. IntroControl
  BY DEF Init, IntroControl, InitialPlace
<1>3. BridgeControl
  BY DEF Init, BridgeControl, Closed, CurrentView
<1>4. ViewControl
  BY DEF Init, ViewControl
<1>5. CandidateTurnControl /\ CandidateTurnsDistinct
  BY DEF Init, CandidateTurnControl, CandidateTurnsDistinct
<1> QED BY <1>1, <1>2, <1>3, <1>4, <1>5, <1>6 DEF IInv

\* Every step preserves the invariant.
LEMMA InvariantStep == IInv /\ [Next]_vars => IInv'
  BY TypeStep, ClosingControlStep, PendingControlStep, IntroControlStep,
     BotTurnControlStep, BridgeControlStep, ViewControlStep,
     CandidateTurnStep DEF IInv

\* What the later theorems rest on holds in every reachable state, failed runs
\* and reconnections included.
THEOREM Invariance == Spec => []IInv
  BY InvariantInit, InvariantStep, PTL DEF Spec

-----------------------------------------------------------------------------
\* Consequences.

\* Whatever was routed, and whichever run failed, the interview waits for the
\* candidate only when it is open and nothing is half done.
THEOREM WaitsOpenAlways == Spec => []WaitsOpen
<1>1. IInv => WaitsOpen
  BY DEF IInv, WaitsOpen, Suspended, ClosingControl, ClosingNode, PendingControl,
         BotTurnControl
<1> QED BY <1>1, Invariance, PTL

\* Two candidate utterances never share a turn id, over failures and retries.
THEOREM CandidateTurnsNeverCollide == Spec => []CandidateTurnsDistinct
<1>1. IInv => CandidateTurnsDistinct
  BY DEF IInv
<1> QED BY <1>1, Invariance, PTL

\* While closing is decided no step asks a question or revokes the decision.
LEMMA ClosingStep ==
  ASSUME IInv, [Next]_vars, shouldClose
  PROVE  shouldClose' /\ place' = place /\ reply' # "question"
<1> USE DEF IInv, ClosingControl, ClosingNode
<1>1. node \in ClosingNode /\ reply # "question"
  OBVIOUS
<1>2. CASE DeliverOpening \/ GenerateBotResponse \/ GenerateNextQuestion
             \/ InterviewerTurn \/ ForceSectionTimeBargeIn
  BY <1>1, <1>2 DEF DeliverOpening, GenerateBotResponse, GenerateNextQuestion,
                    InterviewerTurn, ForceSectionTimeBargeIn, Runs
<1>3. CASE PersistBotOutput
  BY <1>1, <1>3 DEF PersistBotOutput
<1>4. CASE PersistCandidateOutput
  BY <1>1, <1>4 DEF PersistCandidateOutput
<1>5. CASE GenerateClosingMessage
  BY <1>1, <1>5 DEF GenerateClosingMessage
<1>6. CASE FinalEvaluation
  BY <1>1, <1>6 DEF FinalEvaluation
<1>7. CASE \E type \in EventType, speech \in BOOLEAN : Take(type, speech)
  BY <1>1, <1>7 DEF Take
<1>8. CASE UNCHANGED checkpoint
  BY <1>1, <1>8 DEF checkpoint
<1> QED BY <1>2, <1>3, <1>4, <1>5, <1>6, <1>7, <1>8, CheckpointSteps

\* A decision to close is final.
THEOREM ClosingNeverRevoked == Spec => ClosingIsFinal
<1>1. IInv /\ [Next]_vars
        => [shouldClose => shouldClose' /\ place' = place /\ reply' # "question"]_vars
  BY ClosingStep
<1> QED BY <1>1, Invariance, PTL DEF Spec, ClosingIsFinal

\* As long as no run has failed, a barge-in moves on or closes.
THEOREM BargeInsAct == Spec => WatchdogAgreement
<1>1. IInv /\ [Next]_vars
        => [ForceSectionTimeBargeIn /\ failures = 0
              => node' # "await_candidate_response"]_vars
  <2>1. SUFFICES ASSUME IInv, ForceSectionTimeBargeIn, failures = 0
                 PROVE  node' # "await_candidate_response"
    OBVIOUS
  <2>2. place \in Place /\ event.at \in Nat
    BY <2>1 DEF IInv, TypeOK
  <2>3. WatchdogDue(place, event.at)
    BY <2>1 DEF IInv, ViewControl, ForceSectionTimeBargeIn, Runs
  <2>4. BargeCloses(place, event.at) \/ BargeMoves(place, event.at)
    BY <2>2, <2>3, DueBargeInActs
  <2> QED BY <2>1, <2>4 DEF ForceSectionTimeBargeIn, BargeInCloses, BargeInMoves,
                            BargeInIgnored
<1> QED BY <1>1, Invariance, PTL DEF Spec, WatchdogAgreement

-----------------------------------------------------------------------------
\* The time left over.

\* What is left over is shared once, on leaving the introduction.
SharedOnLeaving == place.intro => ~place.redistributed

\* The place changes only by asking a question; in the introduction, at the
\* time of the answer that completed it or, when none did, the last recorded.
LEMMA PlaceSteps ==
  ASSUME IInv, [Next]_vars
  PROVE  \/ UNCHANGED place
         \/ \E target \in Later(place) \cup {NoSection}, e \in Nat :
              place' = Ask(place, target, e) /\ (place.intro => e = LeftAt)
<1>1. CASE InterviewerTurn
  <2>1. CASE AnswerStagesQuestion
    <3>1. place \in Place /\ event.at \in Nat
      BY DEF IInv, TypeOK
    <3>2. AnswerTarget(place, event.at) \in Later(place) \cup {NoSection}
      BY <3>1, AnswerTargetLater
    <3> QED
      BY <2>1, <3>1, <3>2 DEF AnswerStagesQuestion
  <2>2. CASE AnswerEndsInterview
    BY <2>2 DEF AnswerEndsInterview
  <2>3. CASE AnswerNeedsQuestion
    BY <2>3 DEF AnswerNeedsQuestion
  <2>4. CASE \E class \in StaticClass : ClassifiedAs(class)
    BY <2>4 DEF ClassifiedAs
  <2> QED
    BY <1>1, <2>1, <2>2, <2>3, <2>4 DEF InterviewerTurn, SubstantialAnswer
<1>2. CASE GenerateNextQuestion
  <2>1. pending \in Later(place) \cup {NoSection} /\ elapsed \in Nat
    BY DEF IInv, PendingControl, TypeOK
  <2>2. elapsed = LeftAt
    BY DEF IInv, PendingControl, LeftAt
  <2> QED
    BY <1>2, <2>1, <2>2 DEF GenerateNextQuestion
<1>3. CASE DeliverOpening \/ PersistBotOutput \/ PersistCandidateOutput
             \/ GenerateBotResponse \/ GenerateClosingMessage
             \/ ForceSectionTimeBargeIn \/ FinalEvaluation
  BY <1>3 DEF DeliverOpening, PersistBotOutput, PersistCandidateOutput,
     GenerateBotResponse, GenerateClosingMessage, ForceSectionTimeBargeIn,
     FinalEvaluation, UnchangedByNodes
<1>4. CASE SubmitCandidateTurn \/ SubmitSilence \/ SubmitSectionTimeBargeIn
  BY <1>4 DEF SubmitCandidateTurn, SubmitSilence, SubmitSectionTimeBargeIn,
     ResumeGraph, Take, ResumeFailedRun, checkpoint, outside
<1>5. CASE FailRun \/ FinalizeClosing
  BY <1>5 DEF FailRun, FinalizeClosing, checkpoint
<1>6. CASE Suspend \/ Return \/ Reconnect \/ StartTimer \/ Tick \/ UNCHANGED vars
  BY <1>6 DEF Suspend, Return, Reconnect, StartTimer, Tick, vars, checkpoint, outside
<1> QED
  BY <1>1, <1>2, <1>3, <1>4, <1>5, <1>6 DEF Next, RunStep

\* Asking leaves the introduction, if it was in it, and shares what is left
\* over then, unless no section follows; it changes the budgets at no other
\* time.
LEMMA AskShares ==
  ASSUME NEW p \in Place, NEW target \in Later(p) \cup {NoSection}, NEW e \in Nat,
         p.intro => ~p.redistributed,
         ~p.intro => Kind[p.section] # "self_intro"
  PROVE  IF p.intro /\ Later(p) # {}
         THEN /\ Ask(p, target, e).section # p.section
              /\ ~Ask(p, target, e).intro
              /\ Ask(p, target, e).budgets = BudgetsWithLeftover(p, e)
         ELSE /\ p.intro => Ask(p, target, e).section = p.section
              /\ Ask(p, target, e).intro => p.intro
              /\ Ask(p, target, e).budgets = p.budgets
              /\ Ask(p, target, e).redistributed = p.redistributed
<1>1. \A i \in Later(p) : Kind[i] # "self_intro" /\ i # p.section /\ i # NoSection
  BY AfterIsLater DEF Later, Place, Section, NoSection
<1>2. CASE p.intro /\ Later(p) # {}
  <2>1. TargetSection(p, target) \in Later(p)
    BY <1>2, EarliestLater DEF TargetSection
  <2> QED
    BY <1>1, <1>2, <2>1 DEF Ask
<1>3. CASE p.intro /\ Later(p) = {}
  <2>1. target = NoSection /\ TargetSection(p, target) = p.section
    BY <1>3 DEF TargetSection
  <2> QED
    BY <1>3, <2>1 DEF Ask, Place
<1>4. CASE ~p.intro
  <2>1. TargetSection(p, target) = p.section \/ TargetSection(p, target) \in Later(p)
    BY <1>4 DEF TargetSection
  <2> QED
    BY <1>1, <1>4, <2>1 DEF Ask, Place
<1> QED
  BY <1>2, <1>3, <1>4

\* Every step shares what is left over as it should.
LEMMA LeftoverStep ==
  ASSUME IInv, SharedOnLeaving, [Next]_vars
  PROVE  /\ SharedOnLeaving'
         /\ IF place.intro /\ place'.section # place.section
            THEN Cardinality(Slots(place'.budgets, Later(place)))
                   = Reserved(place) + SectionRemaining(place, LeftAt)
            ELSE place'.budgets = place.budgets
<1>1. CASE UNCHANGED place
  BY <1>1 DEF SharedOnLeaving
<1>2. ASSUME NEW target \in Later(place) \cup {NoSection}, NEW e \in Nat,
             place' = Ask(place, target, e), place.intro => e = LeftAt
      PROVE  /\ SharedOnLeaving'
             /\ IF place.intro /\ place'.section # place.section
                THEN Cardinality(Slots(place'.budgets, Later(place)))
                       = Reserved(place) + SectionRemaining(place, LeftAt)
                ELSE place'.budgets = place.budgets
  <2>1. place \in Place /\ (~place.intro => Kind[place.section] # "self_intro")
    BY DEF IInv, TypeOK, IntroControl
  <2>2. IF place.intro /\ Later(place) # {}
        THEN /\ place'.section # place.section
             /\ ~place'.intro
             /\ place'.budgets = BudgetsWithLeftover(place, e)
        ELSE /\ place.intro => place'.section = place.section
             /\ place'.intro => place.intro
             /\ place'.budgets = place.budgets
             /\ place'.redistributed = place.redistributed
    BY <1>2, <2>1, AskShares DEF SharedOnLeaving
  <2>3. CASE place.intro /\ Later(place) # {}
    BY <1>2, <2>1, <2>2, <2>3, LeftoverShared DEF SharedOnLeaving
  <2>4. CASE ~(place.intro /\ Later(place) # {})
    BY <2>2, <2>4 DEF SharedOnLeaving
  <2> QED
    BY <2>3, <2>4
<1> QED
  BY <1>1, <1>2, PlaceSteps

\* Leaving the introduction hands out, to the second, what was left of it when
\* the answer that completed it was given, or, when an answer counted twice ends
\* it, at the last timing decision; no other step changes a budget.  For any
\* number of sections, any budgets and any failures.
THEOREM LeftoverHandedOut == Spec => LeftoverConserved
<1>1. Init => SharedOnLeaving
  BY DEF Init, InitialPlace, SharedOnLeaving
<1>2. IInv /\ SharedOnLeaving /\ [Next]_vars => SharedOnLeaving'
  BY LeftoverStep
<1>3. IInv /\ SharedOnLeaving /\ [Next]_vars
        => [IF place.intro /\ place'.section # place.section
            THEN Cardinality(Slots(place'.budgets, Later(place)))
                   = Reserved(place) + SectionRemaining(place, LeftAt)
            ELSE place'.budgets = place.budgets]_vars
  BY LeftoverStep
<1> QED
  BY <1>1, <1>2, <1>3, Invariance, PTL DEF Spec, LeftoverConserved

-----------------------------------------------------------------------------
\* The workflow implements the lifecycle.

\* The lifecycle counts the same sections.
LEMMA SameSections ==
  /\ Lifecycle!InitialSection = InitialSection
  /\ \A t : Lifecycle!After(t) = After(t)
  BY DEF Lifecycle!InitialSection, InitialSection, Lifecycle!Earliest, Earliest,
         Lifecycle!After, After, Lifecycle!Section, Section

\* The first state of the workflow is that of the lifecycle.
LEMMA LifecycleInit == Init => Lifecycle!Init
  BY SameSections DEF Init, Lifecycle!Init, InitialPlace

\* Asking a question is an EnterSection or leaves the lifecycle as it is.
LEMMA AskSimulates ==
  ASSUME IInv, NEW target \in Later(place) \cup {NoSection}, NEW e \in Nat,
         place' = Ask(place, target, e), ~shouldClose,
         UNCHANGED <<session, enqueued>>, ~shouldClose', session # "COMPLETED"
  PROVE  [Lifecycle!Next]_(Lifecycle!lifecycle)
<1>1. place \in Place
  BY DEF IInv, TypeOK
<1>2. \/ place'.section = place.section /\ place'.intro = place.intro
      \/ /\ place'.section \in Later(place) \cup {t \in {place.section} : Later(place) = {}}
         /\ place'.intro = (Kind[place'.section] = "self_intro")
  <2>1. place'.section = TargetSection(place, target)
        /\ place'.intro = (Kind[place'.section] = "self_intro")
    BY DEF Ask
  <2>2. CASE TargetSection(place, target) \in Later(place)
    BY <2>1, <2>2
  <2>3. CASE place.intro /\ Later(place) = {}
    BY <2>1, <2>3 DEF TargetSection
  <2>4. CASE ~place.intro /\ target = NoSection
    BY <1>1, <2>1, <2>4 DEF TargetSection, IInv, IntroControl, Place
  <2>5. CASE place.intro /\ Later(place) # {}
    BY <1>1, <2>2, <2>5, EarliestLater DEF TargetSection
  <2>6. CASE target # NoSection
    BY <2>2, <2>6 DEF TargetSection
  <2> QED BY <2>3, <2>4, <2>5, <2>6
<1> QED BY <1>1, <1>2, SameSections
    DEF Lifecycle!Next, Lifecycle!EnterSection, Lifecycle!lifecycle, Later

\* A step that leaves the section, the session and the evaluations alone and
\* does not revoke closing is a DecideToClose or leaves the lifecycle as it is.
LEMMA CloseSimulates ==
  ASSUME IInv, UNCHANGED <<place, session, enqueued>>, shouldClose => shouldClose',
         shouldClose' \in BOOLEAN
  PROVE  [Lifecycle!Next]_(Lifecycle!lifecycle)
  BY DEF IInv, TypeOK, Session, Lifecycle!Next, Lifecycle!DecideToClose,
         Lifecycle!lifecycle

\* Queueing the evaluation of a closing interview.
LEMMA QueueSimulates ==
  ASSUME IInv, UNCHANGED <<place, session, shouldClose>>, shouldClose,
         session # "COMPLETED", enqueued' \in {enqueued, enqueued + 1}
  PROVE  [Lifecycle!Next]_(Lifecycle!lifecycle)
  BY DEF Lifecycle!Next, Lifecycle!QueueEvaluation, Lifecycle!lifecycle

\* Every step is one of the lifecycle or changes nothing that it knows.
LEMMA LifecycleStep ==
  ASSUME IInv, IInv', [Next]_vars
  PROVE  [Lifecycle!Next]_(Lifecycle!lifecycle)
<1> DEFINE Goal == [Lifecycle!Next]_(Lifecycle!lifecycle)
<1> SUFFICES Goal
  OBVIOUS
<1>1. shouldClose' \in BOOLEAN
  BY DEF IInv, TypeOK
<1>2. ASSUME UNCHANGED <<place, session, enqueued>>, shouldClose => shouldClose'
      PROVE  Goal
  BY <1>1, <1>2, CloseSimulates
<1>3. running => session # "COMPLETED"
  BY DEF IInv, BridgeControl
<1> HIDE DEF Goal
<1>4. CASE DeliverOpening \/ PersistBotOutput \/ PersistCandidateOutput
             \/ GenerateBotResponse \/ GenerateClosingMessage
  BY <1>2, <1>4 DEF DeliverOpening, PersistBotOutput, PersistCandidateOutput,
     GenerateBotResponse, GenerateClosingMessage, UnchangedByNodes
<1>5. CASE InterviewerTurn
  <2>1. running /\ ~shouldClose /\ UNCHANGED <<session, enqueued>>
    BY <1>5 DEF InterviewerTurn, Runs, UnchangedByNodes, IInv, ClosingControl,
                ClosingNode
  <2>2. CASE AnswerEndsInterview
    BY <1>2, <2>1, <2>2 DEF AnswerEndsInterview
  <2>3. CASE AnswerStagesQuestion
    <3>1. place \in Place /\ event.at \in Nat
      BY DEF IInv, TypeOK
    <3>2. AnswerTarget(place, event.at) \in Later(place) \cup {NoSection}
      BY <3>1, AnswerTargetLater
    <3>3. ~shouldClose'
      BY <2>3 DEF AnswerStagesQuestion
    <3>4. place' = Ask(place, AnswerTarget(place, event.at), event.at)
      BY <2>3 DEF AnswerStagesQuestion
    <3> QED BY <1>3, <2>1, <3>1, <3>2, <3>3, <3>4, AskSimulates DEF Goal
  <2>4. CASE AnswerNeedsQuestion
    BY <1>2, <2>1, <2>4 DEF AnswerNeedsQuestion
  <2>5. CASE \E class \in StaticClass : ClassifiedAs(class)
    BY <1>2, <2>1, <2>5 DEF ClassifiedAs
  <2> QED BY <1>5, <2>2, <2>3, <2>4, <2>5 DEF InterviewerTurn, SubstantialAnswer
<1>6. CASE GenerateNextQuestion
  <2>1. /\ running /\ ~shouldClose /\ ~shouldClose'
        /\ UNCHANGED <<session, enqueued>>
        /\ place' = Ask(place, pending, elapsed)
    BY <1>6 DEF GenerateNextQuestion, Runs, UnchangedByNodes, IInv,
                ClosingControl, ClosingNode
  <2>2. pending \in Later(place) \cup {NoSection} /\ elapsed \in Nat
    BY DEF IInv, PendingControl, TypeOK
  <2> QED BY <1>3, <2>1, <2>2, AskSimulates DEF Goal
<1>7. CASE ForceSectionTimeBargeIn
  <2>1. ~shouldClose
    BY <1>7 DEF ForceSectionTimeBargeIn, Runs, IInv, ClosingControl, ClosingNode
  <2> QED BY <1>2, <1>7, <2>1 DEF ForceSectionTimeBargeIn, UnchangedByNodes
<1>8. CASE FinalEvaluation
  <2>1. running /\ shouldClose /\ UNCHANGED <<place, session, shouldClose>>
    BY <1>8 DEF FinalEvaluation, Runs, UnchangedByNodes, IInv, ClosingControl
  <2>2. enqueued' \in {enqueued, enqueued + 1}
    BY <1>8 DEF FinalEvaluation
  <2> QED BY <1>3, <2>1, <2>2, QueueSimulates DEF Goal
<1>9. CASE FailRun
  <2>1. running /\ UNCHANGED <<place, session, shouldClose>>
    BY <1>9 DEF FailRun, checkpoint
  <2>2. CASE enqueued' = enqueued
    BY <1>2, <2>1, <2>2
  <2>3. CASE node = "final_evaluation" /\ enqueued' = enqueued + 1
    BY <1>3, <2>1, <2>3, QueueSimulates DEF Goal, IInv, ClosingControl
  <2> QED BY <1>9, <2>2, <2>3 DEF FailRun
<1>10. CASE SubmitCandidateTurn \/ SubmitSilence \/ SubmitSectionTimeBargeIn
  BY <1>2, <1>10 DEF SubmitCandidateTurn, SubmitSilence, SubmitSectionTimeBargeIn,
     ResumeGraph, Take, ResumeFailedRun, checkpoint, outside
<1>11. CASE FinalizeClosing
  <2>1. shouldClose /\ UNCHANGED <<place, shouldClose, enqueued>>
    BY <1>11 DEF FinalizeClosing, IInv, BridgeControl, checkpoint
  <2>2. session = "IN_PROGRESS" /\ session' = "COMPLETED"
    BY <1>11 DEF FinalizeClosing
  <2> QED BY <2>1, <2>2
      DEF Goal, Lifecycle!Next, Lifecycle!Complete, Lifecycle!lifecycle
<1>12. CASE Suspend \/ Return \/ Reconnect \/ StartTimer \/ Tick \/ UNCHANGED vars
  BY <1>2, <1>12 DEF Suspend, Return, Reconnect, StartTimer, Tick, vars,
                     checkpoint, outside
<1> QED BY <1>4, <1>5, <1>6, <1>7, <1>8, <1>9, <1>10, <1>11, <1>12
        DEF Next, RunStep, Goal

\* Over every failure and reconnect the workflow and its bridge implement the
\* lifecycle: sections only forward, closing irrevocable, evaluation and
\* completion only of a closing interview.
THEOREM LifecycleImplemented == Spec => ImplementsLifecycle
<1>1. IInv /\ IInv' /\ [Next]_vars => [Lifecycle!Next]_(Lifecycle!lifecycle)
  BY LifecycleStep
<1> QED BY <1>1, LifecycleInit, Invariance, PTL
        DEF Spec, ImplementsLifecycle, Lifecycle!Spec
-----------------------------------------------------------------------------
\* Silence, and what the evaluation gets to see.

Offered == stage \in {"awaiting_think_confirmation", "nudged"}
\* After a silence: the second one in a row finds the offer made.
Silenced == quiet = 1 \/ (quiet = 2 /\ Offered)

\* How often the candidate has been silent since the question, at each node.
SilenceControl ==
  ~place.intro =>
    /\ node \in {"await_candidate_response", "persist_bot_output"}
         => quiet = 0 \/ (quiet = 1 /\ Offered)
    /\ node = "interviewer_turn"
         => quiet = 0 \/ (event.type = "silence_timeout" /\ Silenced)
    /\ node = "persist_candidate_output"
         => \/ quiet = 0
            \/ /\ reply = "none" /\ ~shouldClose /\ response = "silence"
               /\ nextAction = "generate_bot_response" /\ Silenced
    /\ node = "generate_bot_response"
         => quiet = 0 \/ (response = "silence" /\ Silenced)
    /\ node \in {"deliver_opening", "force_section_time_barge_in",
                 "generate_closing_message"}
         => quiet = 0

\* The steps that change the checkpoint or the history, and those that do not;
\* while no run has failed the latter leave the outside alone too.
LEMMA HistorySteps ==
  ASSUME TypeOK, [Next]_vars
  PROVE  \/ DeliverOpening \/ PersistBotOutput \/ InterviewerTurn
         \/ PersistCandidateOutput \/ GenerateBotResponse \/ GenerateNextQuestion
         \/ ForceSectionTimeBargeIn \/ GenerateClosingMessage \/ FinalEvaluation
         \/ /\ \E type \in EventType, speech \in BOOLEAN : Take(type, speech)
            /\ UNCHANGED <<transcript, enqueued, failures>>
         \/ /\ UNCHANGED <<checkpoint, uttered, quiet>>
            /\ failures' # 0 \/ UNCHANGED <<transcript, enqueued, failures>>
<1> DEFINE Taken == /\ \E type \in EventType, speech \in BOOLEAN : Take(type, speech)
                    /\ UNCHANGED <<transcript, enqueued, failures>>
           Kept == /\ UNCHANGED <<checkpoint, uttered, quiet>>
                   /\ \/ failures' # 0
                      \/ UNCHANGED <<transcript, enqueued, failures>>
<1>1. ASSUME NEW type \in EventType, NEW speech \in BOOLEAN, ResumeGraph(type, speech)
      PROVE  Taken \/ Kept
  BY <1>1 DEF ResumeGraph, ResumeFailedRun, outside
<1>2. SubmitCandidateTurn \/ SubmitSilence \/ SubmitSectionTimeBargeIn
        => Taken \/ Kept
  <2>1. SubmitCandidateTurn => Taken \/ Kept
    BY <1>1 DEF SubmitCandidateTurn, EventType
  <2>2. SubmitSilence => Taken \/ Kept
    BY <1>1 DEF SubmitSilence, EventType
  <2>3. SubmitSectionTimeBargeIn => Taken \/ Kept
    BY <1>1 DEF SubmitSectionTimeBargeIn, EventType
  <2> QED BY <2>1, <2>2, <2>3
<1>3. Suspend \/ Return \/ FinalizeClosing \/ Tick => Kept
  BY DEF Suspend, Return, FinalizeClosing, Tick, checkpoint, outside
<1>4. Reconnect \/ StartTimer => Kept
  BY DEF Reconnect, StartTimer, outside, TypeOK
<1>5. FailRun => Kept
  BY DEF FailRun, TypeOK
<1>6. UNCHANGED vars => Kept
  BY DEF vars, outside
<1> QED BY <1>2, <1>3, <1>4, <1>5, <1>6 DEF Next, RunStep

\* Every step keeps the rounds of silence within what the workflow allows.
LEMMA SilenceStep ==
  ASSUME IInv, SilenceControl, [Next]_vars
  PROVE  SilenceControl'
<1> USE DEF SilenceControl, Offered, Silenced
<1>0. TypeOK /\ ClosingControl /\ quiet \in Nat
  BY DEF IInv, TypeOK
<1>1. CASE DeliverOpening
  BY <1>1 DEF DeliverOpening, Runs
<1>2. CASE PersistBotOutput
  BY <1>2 DEF PersistBotOutput, Runs
<1>3. CASE InterviewerTurn
  <2>1. CASE SubstantialAnswer
    <3>1. event.type = "candidate_answer" /\ node = "interviewer_turn"
          /\ node' = "persist_candidate_output"
          /\ (quiet' = quiet \/ quiet' = 0)
      BY <1>3, <2>1 DEF SubstantialAnswer, InterviewerTurn, Runs
    <3>2. place' # place => quiet' = 0
      BY <1>3, <2>1 DEF SubstantialAnswer, InterviewerTurn, AnswerEndsInterview,
         AnswerStagesQuestion, AnswerNeedsQuestion
    <3> QED BY <3>1, <3>2
  <2>2. CASE \E class \in StaticClass : ClassifiedAs(class)
    <3>1. PICK class \in StaticClass : ClassifiedAs(class)
      BY <2>2
    <3>2. /\ node = "interviewer_turn" /\ node' = "persist_candidate_output"
          /\ UNCHANGED <<place, event, quiet, shouldClose, reply>>
          /\ reply = "none" /\ ~shouldClose
      BY <1>0, <1>3, <3>1
      DEF InterviewerTurn, Runs, ClassifiedAs, ClosingControl, ClosingNode
    <3>3. /\ nextAction' = "generate_bot_response" /\ response' = class
          /\ event.type = "silence_timeout" => class = "silence"
          /\ class = "silence" => stage' = stage
      BY <3>1 DEF ClassifiedAs, StaticClass
    <3> QED BY <3>2, <3>3
  <2> QED BY <1>3, <2>1, <2>2 DEF InterviewerTurn
<1>4. CASE PersistCandidateOutput
  BY <1>4 DEF PersistCandidateOutput, Runs
<1>5. CASE GenerateBotResponse
  BY <1>0, <1>5
  DEF GenerateBotResponse, Runs, AnswerSilence, AnswerSkip, StaticReply,
      ContinueWithQuestion
<1>6. CASE GenerateNextQuestion
  BY <1>6 DEF GenerateNextQuestion, Runs
<1>7. CASE ForceSectionTimeBargeIn
  BY <1>7 DEF ForceSectionTimeBargeIn, Runs
<1>8. CASE GenerateClosingMessage
  BY <1>8 DEF GenerateClosingMessage, Runs
<1>9. CASE FinalEvaluation
  BY <1>9 DEF FinalEvaluation
<1>10. CASE \E type \in EventType, speech \in BOOLEAN : Take(type, speech)
  <2>1. PICK type \in EventType, speech \in BOOLEAN : Take(type, speech)
    BY <1>10
  <2>2. /\ node = "await_candidate_response" /\ event'.type = type
        /\ quiet' = IF type = "silence_timeout" THEN quiet + 1 ELSE 0
        /\ node' = IF type = "section_time_barge_in"
                   THEN "force_section_time_barge_in" ELSE "interviewer_turn"
        /\ UNCHANGED <<place, stage>>
    BY <2>1 DEF Take
  <2> QED BY <1>0, <2>2
<1>11. CASE UNCHANGED <<checkpoint, uttered, quiet>>
  BY <1>11 DEF checkpoint
<1> QED BY <1>0, <1>1, <1>2, <1>3, <1>4, <1>5, <1>6, <1>7, <1>8, <1>9, <1>10,
           <1>11, HistorySteps

\* A candidate who stays silent is asked at most once more before the interview
\* moves on, whichever runs fail.
THEOREM SilenceIsPatient == Spec => []SilencePatience
<1>1. Init => SilenceControl
  BY DEF Init, SilenceControl
<1>2. IInv /\ SilenceControl /\ [Next]_vars => SilenceControl'
  BY SilenceStep
<1>3. SilenceControl => SilencePatience
  BY DEF SilenceControl, SilencePatience, Suspended
<1> QED BY <1>1, <1>2, <1>3, Invariance, PTL DEF Spec

\* Everything said is in the transcript or on its way to it, and the closing
\* message comes before the end.
Heard == {t.said : t \in transcript} \cup ({botTurn.said, candTurn.said} \ {0})
SpokenControl ==
  failures = 0 =>
    /\ Heard = 1 .. uttered
    /\ botTurn # NoTurn => botTurn.said # 0
    /\ candTurn # NoTurn =>
         /\ candTurn.said # 0
         /\ node \in {"interviewer_turn", "persist_candidate_output",
                      "force_section_time_barge_in"}
    /\ node \in {"final_evaluation", "end"} => closingDone
    /\ node = "persist_bot_output" /\ shouldClose => closingDone
    /\ enqueued > 0 => node = "end"

\* A turn that is built is the next thing said.
LEMMA SaysNext ==
  ASSUME TypeOK, Heard = 1 .. uttered, uttered' = uttered + 1,
         UNCHANGED transcript,
         \/ botTurn = NoTurn /\ botTurn' = BotTurn /\ UNCHANGED candTurn
         \/ candTurn = NoTurn /\ candTurn' = CandidateTurn /\ UNCHANGED botTurn
  PROVE  Heard' = 1 .. uttered'
<1>1. uttered \in Nat
  BY DEF TypeOK
<1>2. BotTurn.said = uttered + 1 /\ CandidateTurn.said = uttered + 1
      /\ NoTurn.said = 0
  BY DEF BotTurn, CandidateTurn, NoTurn
<1>3. Heard' = Heard \cup {uttered + 1}
  BY <1>1, <1>2 DEF Heard
<1> QED BY <1>1, <1>3

\* Handing a turn over keeps it heard.
LEMMA HandsOver ==
  ASSUME \/ transcript' = HandOver(botTurn) /\ botTurn' = NoTurn
              /\ UNCHANGED candTurn
         \/ transcript' = HandOver(candTurn) /\ candTurn' = NoTurn
              /\ UNCHANGED botTurn,
         botTurn # NoTurn => botTurn.said # 0,
         candTurn # NoTurn => candTurn.said # 0
  PROVE  Heard' = Heard
<1>1. NoTurn.said = 0
  BY DEF NoTurn
<1> QED BY <1>1 DEF Heard, HandOver

\* Every step keeps what was said in the transcript, once, while no run
\* failed.
LEMMA SpokenStep ==
  ASSUME IInv, SpokenControl, [Next]_vars
  PROVE  SpokenControl'
<1> SUFFICES ASSUME failures' = 0
             PROVE  /\ Heard' = 1 .. uttered'
                    /\ botTurn' # NoTurn => botTurn'.said # 0
                    /\ candTurn' # NoTurn =>
                         /\ candTurn'.said # 0
                         /\ node' \in {"interviewer_turn",
                                       "persist_candidate_output",
                                       "force_section_time_barge_in"}
                    /\ node' \in {"final_evaluation", "end"} => closingDone'
                    /\ node' = "persist_bot_output" /\ shouldClose' => closingDone'
                    /\ enqueued' > 0 => node' = "end"
  BY DEF SpokenControl
<1>0. /\ TypeOK /\ ClosingControl /\ BotTurnControl /\ ViewControl
      /\ uttered \in Nat /\ enqueued \in Nat
  BY DEF IInv, TypeOK
<1>a. failures = 0
  BY <1>0, NodeSteps, HistorySteps DEF TypeOK, UnchangedByNodes
<1>b. /\ Heard = 1 .. uttered
      /\ botTurn # NoTurn => botTurn.said # 0
      /\ candTurn # NoTurn =>
           /\ candTurn.said # 0
           /\ node \in {"interviewer_turn", "persist_candidate_output",
                        "force_section_time_barge_in"}
      /\ node \in {"final_evaluation", "end"} => closingDone
      /\ node = "persist_bot_output" /\ shouldClose => closingDone
      /\ enqueued > 0 => node = "end"
  BY <1>a DEF SpokenControl
<1>c. /\ shouldClose => node \in ClosingNode
      /\ nextAction = "end" => shouldClose
      /\ shouldClose /\ node = "persist_candidate_output" => reply = "none"
      /\ node \in {"interviewer_turn", "force_section_time_barge_in"}
           => reply = "none"
  BY <1>0 DEF ClosingControl
<1>d. BotTurn.said # 0 /\ CandidateTurn.said # 0
  BY <1>0 DEF BotTurn, CandidateTurn
<1>e. botTurn # NoTurn =>
        \/ node = "persist_bot_output"
        \/ node = "persist_candidate_output" /\ reply # "none"
  BY <1>0 DEF BotTurnControl
<1> USE DEF ClosingNode
<1>1. CASE DeliverOpening
  <2>1. botTurn = NoTurn /\ candTurn = NoTurn
    BY <1>1, <1>b, <1>e DEF DeliverOpening, Runs
  <2>2. Heard' = 1 .. uttered'
    BY <1>0, <1>1, <1>b, <2>1, SaysNext DEF DeliverOpening
  <2> QED BY <1>1, <1>b, <1>c, <1>d, <2>1, <2>2
      DEF DeliverOpening, Runs, UnchangedByNodes
<1>2. CASE PersistBotOutput
  <2>1. candTurn = NoTurn
    BY <1>2, <1>b DEF PersistBotOutput, Runs
  <2>2. Heard' = 1 .. uttered'
    BY <1>2, <1>b, HandsOver DEF PersistBotOutput
  <2> QED BY <1>2, <1>b, <1>c, <2>1, <2>2 DEF PersistBotOutput, Runs
<1>3. CASE InterviewerTurn
  <2>1. botTurn = NoTurn /\ ~shouldClose /\ enqueued = 0
    BY <1>0, <1>3, <1>b, <1>c, <1>e DEF InterviewerTurn, Runs
  <2>2. /\ node' = "persist_candidate_output"
        /\ UNCHANGED <<candTurn, transcript, enqueued>>
        /\ candTurn # NoTurn => candTurn.said # 0
    BY <1>3, <1>b DEF InterviewerTurn
  <2>3. \/ UNCHANGED <<botTurn, uttered>>
        \/ botTurn' = BotTurn /\ uttered' = uttered + 1
    BY <1>3 DEF InterviewerTurn, SubstantialAnswer, AnswerEndsInterview,
       AnswerStagesQuestion, AnswerNeedsQuestion, ClassifiedAs
  <2>4. Heard' = 1 .. uttered'
    <3>1. CASE UNCHANGED <<botTurn, uttered>>
      BY <1>b, <2>2, <3>1 DEF Heard
    <3>2. CASE botTurn' = BotTurn /\ uttered' = uttered + 1
      BY <1>0, <1>b, <2>1, <2>2, <3>2, SaysNext
    <3> QED BY <2>3, <3>1, <3>2
  <2> QED BY <1>d, <2>1, <2>2, <2>3, <2>4
<1>4. CASE PersistCandidateOutput
  <2>1. Heard' = 1 .. uttered'
    BY <1>4, <1>b, HandsOver DEF PersistCandidateOutput
  <2>2. /\ candTurn' = NoTurn /\ enqueued' = enqueued /\ enqueued = 0
        /\ UNCHANGED <<botTurn, shouldClose>>
        /\ node' \notin {"final_evaluation", "end"}
        /\ node' = "persist_bot_output" => ~shouldClose
    BY <1>0, <1>4, <1>b, <1>c DEF PersistCandidateOutput, Runs
  <2> QED BY <1>b, <2>1, <2>2
<1>5. CASE GenerateBotResponse
  <2>1. /\ botTurn = NoTurn /\ candTurn = NoTurn /\ ~shouldClose /\ enqueued = 0
    BY <1>0, <1>5, <1>b, <1>c, <1>e DEF GenerateBotResponse, Runs
  <2>2. /\ UNCHANGED <<candTurn, transcript, enqueued, shouldClose>>
        /\ node' \in {"persist_bot_output", "generate_next_question"}
        /\ \/ botTurn' = BotTurn /\ uttered' = uttered + 1
           \/ botTurn' = NoTurn /\ UNCHANGED uttered
    BY <1>5 DEF GenerateBotResponse, AnswerSilence, AnswerSkip, StaticReply,
       ContinueWithQuestion
  <2>3. Heard' = 1 .. uttered'
    <3>1. CASE botTurn' = NoTurn /\ UNCHANGED uttered
      BY <1>b, <2>1, <2>2, <3>1 DEF Heard
    <3>2. CASE botTurn' = BotTurn /\ uttered' = uttered + 1
      BY <1>0, <1>b, <2>1, <2>2, <3>2, SaysNext
    <3> QED BY <2>2, <3>1, <3>2
  <2> QED BY <1>d, <2>1, <2>2, <2>3
<1>6. CASE GenerateNextQuestion
  <2>1. botTurn = NoTurn /\ candTurn = NoTurn /\ ~shouldClose /\ enqueued = 0
    BY <1>0, <1>6, <1>b, <1>c, <1>e DEF GenerateNextQuestion, Runs
  <2>2. Heard' = 1 .. uttered'
    BY <1>0, <1>6, <1>b, <2>1, SaysNext DEF GenerateNextQuestion
  <2> QED BY <1>6, <1>d, <2>1, <2>2 DEF GenerateNextQuestion
<1>7. CASE ForceSectionTimeBargeIn
  <2>1. botTurn = NoTurn /\ enqueued = 0 /\ UNCHANGED <<botTurn, uttered, enqueued>>
    BY <1>0, <1>7, <1>b, <1>e DEF ForceSectionTimeBargeIn, Runs
  <2>2. place \in Place /\ event.at \in Nat /\ WatchdogDue(place, event.at)
    BY <1>0, <1>7, <1>a DEF TypeOK, ViewControl, ForceSectionTimeBargeIn, Runs
  <2>3. BargeInCloses \/ BargeInMoves
    BY <1>7, <2>2, DueBargeInActs DEF ForceSectionTimeBargeIn, BargeInIgnored
  <2>4. /\ PersistInterruptedTurn
        /\ node' \in {"generate_closing_message", "generate_next_question"}
    BY <1>7, <2>3 DEF ForceSectionTimeBargeIn, BargeInCloses, BargeInMoves
  <2>5. Heard' = 1 .. uttered'
    BY <1>b, <2>1, <2>4, HandsOver DEF PersistInterruptedTurn
  <2> QED BY <2>1, <2>4, <2>5 DEF PersistInterruptedTurn
<1>8. CASE GenerateClosingMessage
  <2>1. botTurn = NoTurn /\ candTurn = NoTurn /\ enqueued = 0
    BY <1>0, <1>8, <1>b, <1>e DEF GenerateClosingMessage, Runs
  <2>2. Heard' = 1 .. uttered'
    BY <1>0, <1>8, <1>b, <2>1, SaysNext DEF GenerateClosingMessage
  <2> QED BY <1>8, <1>d, <2>1, <2>2 DEF GenerateClosingMessage
<1>9. CASE FinalEvaluation
  <2>1. node = "final_evaluation" /\ node' = "end" /\ closingDone' = closingDone
    BY <1>9 DEF FinalEvaluation, Runs
  <2>2. UNCHANGED <<botTurn, candTurn, transcript, uttered>>
    BY <1>9 DEF FinalEvaluation
  <2>3. Heard' = Heard
    BY <2>2 DEF Heard
  <2> QED BY <1>b, <2>1, <2>2, <2>3
<1>10. CASE /\ \E type \in EventType, speech \in BOOLEAN : Take(type, speech)
            /\ UNCHANGED <<transcript, enqueued, failures>>
  <2>1. PICK type \in EventType, speech \in BOOLEAN : Take(type, speech)
    BY <1>10
  <2>2. botTurn = NoTurn /\ candTurn = NoTurn /\ enqueued = 0
    BY <1>0, <1>b, <1>e, <2>1 DEF Take
  <2>3. /\ node' \in {"interviewer_turn", "force_section_time_barge_in"}
        /\ \/ candTurn' = NoTurn /\ uttered' = uttered
           \/ candTurn' = CandidateTurn /\ uttered' = uttered + 1
        /\ UNCHANGED botTurn
    BY <1>d, <2>1 DEF Take, NoTurn, CandidateTurn
  <2>4. Heard' = 1 .. uttered'
    <3>1. CASE candTurn' = NoTurn /\ uttered' = uttered
      BY <1>10, <1>b, <2>2, <2>3, <3>1 DEF Heard
    <3>2. CASE candTurn' = CandidateTurn /\ uttered' = uttered + 1
      BY <1>0, <1>10, <1>b, <2>2, <2>3, <3>2, SaysNext
    <3> QED BY <2>3, <3>1, <3>2
  <2> QED BY <1>10, <1>d, <2>2, <2>3, <2>4
<1>11. CASE UNCHANGED <<checkpoint, uttered, quiet>>
            /\ UNCHANGED <<transcript, enqueued, failures>>
  <2>1. Heard' = Heard
    BY <1>11 DEF Heard, checkpoint
  <2> QED BY <1>11, <1>b, <2>1 DEF checkpoint
<1> QED BY <1>0, <1>1, <1>2, <1>3, <1>4, <1>5, <1>6, <1>7, <1>8, <1>9, <1>10,
           <1>11, HistorySteps

\* As long as no run has failed, the evaluation is queued after everything said
\* has been handed to persistence, the closing message included.
THEOREM EvaluationSees == Spec => [](failures = 0 => EvaluationSeesEverything)
<1>1. Init => SpokenControl
  BY DEF Init, SpokenControl, Heard, NoTurn
<1>2. IInv /\ SpokenControl /\ [Next]_vars => SpokenControl'
  BY SpokenStep
<1>3. IInv /\ SpokenControl => (failures = 0 => EvaluationSeesEverything)
  <2> SUFFICES ASSUME IInv, SpokenControl, failures = 0, enqueued > 0
               PROVE  closingDone /\ {t.said : t \in transcript} = 1 .. uttered
    BY DEF EvaluationSeesEverything
  <2>1. node = "end" /\ closingDone /\ Heard = 1 .. uttered /\ candTurn = NoTurn
    BY DEF SpokenControl
  <2>2. botTurn = NoTurn
    BY <2>1 DEF IInv, BotTurnControl
  <2>3. Heard = {t.said : t \in transcript}
    BY <2>1, <2>2 DEF Heard, NoTurn
  <2> QED BY <2>1, <2>3
<1> QED BY <1>1, <1>2, <1>3, Invariance, PTL DEF Spec
=============================================================================
