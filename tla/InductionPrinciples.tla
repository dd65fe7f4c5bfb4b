------------------------ MODULE InductionPrinciples ------------------------
(***************************************************************************)
(* Induction over numbers and finite sets, and what follows from it about  *)
(* functions defined by recursion: that they exist, and that sums over     *)
(* finite domains behave as sums do.                                       *)
(*                                                                         *)
(* A property to be proved by induction is given as the set of what has    *)
(* it, so that every fact here is about sets and functions only.  All of   *)
(* it rests on one fact of the library: the finite subsets of a set are    *)
(* well-founded under strict inclusion.                                    *)
(***************************************************************************)
EXTENDS Integers, FiniteSets, Functions, FiniteSetTheorems, TLAPS

-----------------------------------------------------------------------------
\* Induction.

\* A non-empty set of naturals has a least element: a minimal one among the
\* intervals that end in them.
LEMMA LeastNatural ==
  ASSUME NEW T \in SUBSET Nat, T # {}
  PROVE  \E m \in T : \A k \in T : m <= k
<1> DEFINE Initial == {1 .. n : n \in T}
<1>1. Initial \subseteq FiniteSubsetsOf(Nat) /\ Initial # {}
  <2>1. ASSUME NEW n \in T PROVE 1 .. n \in FiniteSubsetsOf(Nat)
    <3>1. IsFiniteSet(1 .. n)
      BY FS_Interval
    <3>2. 1 .. n \subseteq Nat
      OBVIOUS
    <3> QED
      BY <3>1, <3>2 DEF FiniteSubsetsOf
  <2> QED
    BY <2>1
<1>2. PICK A \in Initial :
        \A B \in Initial : <<B, A>> \notin StrictSubsetOrdering(Nat)
  <2> HIDE DEF Initial
  <2> QED
    BY <1>1, FS_StrictSubsetOrderingWellFounded, WFMin
<1>3. PICK m \in T : A = 1 .. m
  OBVIOUS
<1>4. ASSUME NEW k \in T, k < m PROVE FALSE
  <2>1. 1 .. k \subseteq 1 .. m /\ m \in 1 .. m /\ m \notin 1 .. k
    BY <1>4
  <2>2. 1 .. k \subseteq Nat /\ 1 .. m \subseteq Nat
    OBVIOUS
  <2>3. <<1 .. k, A>> \in StrictSubsetOrdering(Nat)
    BY <1>3, <2>1, <2>2 DEF StrictSubsetOrdering
  <2> QED
    BY <1>2, <2>3
<1> QED
  BY <1>4

\* A set that holds 0 and, up to m, with every number the next holds them all.
LEMMA IntervalInduction ==
  ASSUME NEW m \in Nat, NEW P, 0 \in P,
         \A n \in 0 .. (m - 1) : n \in P => n + 1 \in P
  PROVE  \A n \in 0 .. m : n \in P
<1> SUFFICES ASSUME NEW n \in 0 .. m, n \notin P PROVE FALSE
  OBVIOUS
<1> DEFINE T == {k \in 0 .. m : k \notin P}
<1>1. T \in SUBSET Nat /\ T # {}
  OBVIOUS
<1>2. PICK k \in T : \A j \in T : k <= j
  <2> HIDE DEF T
  <2> QED
    BY <1>1, LeastNatural
<1>3. k \in 0 .. m /\ k # 0 /\ k - 1 \in 0 .. (m - 1) /\ k - 1 \notin T
  BY <1>2
<1>4. k - 1 \in P
  BY <1>3
<1> QED
  BY <1>2, <1>3, <1>4

\* Among some subsets of a finite set there is one that has no other below it.
LEMMA SmallestSubset ==
  ASSUME NEW S, IsFiniteSet(S), NEW T \in SUBSET (SUBSET S), T # {}
  PROVE  \E A \in T : \A B \in T : B \subseteq A => B = A
<1>1. T \subseteq FiniteSubsetsOf(S)
  BY FS_FiniteSubsetsOfFinite
<1>2. PICK A \in T : \A B \in T : <<B, A>> \notin StrictSubsetOrdering(S)
  BY <1>1, FS_StrictSubsetOrderingWellFounded, WFMin
<1> QED
  BY <1>2 DEF StrictSubsetOrdering

\* A finite set has a maximal element in a strict order: one with the fewest
\* above it.
LEMMA MaximalElement ==
  ASSUME NEW S, IsFiniteSet(S), S # {}, NEW R,
         \A x \in S : <<x, x>> \notin R,
         \A x, y, z \in S : <<x, y>> \in R /\ <<y, z>> \in R => <<x, z>> \in R
  PROVE  \E m \in S : \A k \in S : <<m, k>> \notin R
<1> DEFINE Above(x) == {y \in S : <<x, y>> \in R}
           T == {Above(x) : x \in S}
<1>1. PICK A \in T : \A B \in T : B \subseteq A => B = A
  <2>1. T \in SUBSET (SUBSET S)
    OBVIOUS
  <2>2. T # {}
    <3>1. PICK x \in S : TRUE
      OBVIOUS
    <3>2. Above(x) \in T
      BY <3>1
    <3> HIDE DEF T
    <3> QED
      BY <3>2
  <2> HIDE DEF T
  <2> QED
    BY <2>1, <2>2, SmallestSubset
<1>2. PICK m \in S : A = Above(m)
  BY <1>1
<1>3. ASSUME NEW k \in S, <<m, k>> \in R PROVE FALSE
  <2>1. Above(k) \subseteq Above(m) /\ k \in Above(m) /\ k \notin Above(k)
    BY <1>3
  <2>2. Above(k) \in T
    OBVIOUS
  <2> HIDE DEF Above
  <2> QED
    BY <1>1, <1>2, <2>1, <2>2
<1> QED
  BY <1>3

\* A finite set of numbers has a greatest one.
LEMMA GreatestElement ==
  ASSUME NEW S \in SUBSET Int, IsFiniteSet(S), S # {}
  PROVE  \E m \in S : \A k \in S : k <= m
<1> DEFINE R == {r \in Int \X Int : r[1] < r[2]}
<1>1. \A x \in S : <<x, x>> \notin R
  OBVIOUS
<1>2. \A x, y, z \in S :
        <<x, y>> \in R /\ <<y, z>> \in R => <<x, z>> \in R
  OBVIOUS
<1>3. PICK m \in S : \A k \in S : <<m, k>> \notin R
  <2> HIDE DEF R
  <2> QED
    BY <1>1, <1>2, MaximalElement
<1>4. ASSUME NEW k \in S PROVE k <= m
  <2>1. m \in Int /\ k \in Int
    OBVIOUS
  <2>2. ~(m < k)
    BY <1>3, <2>1
  <2> QED
    BY <2>1, <2>2
<1> QED
  BY <1>4

-----------------------------------------------------------------------------
\* Recursion.

\* f starts from base and up to n makes every value from the one before.
Recursive(f, n, base, step) ==
  f[0] = base /\ \A i \in 1 .. n : f[i] = step[<<i, f[i - 1]>>]

\* Whatever the step is, there is such a function.
LEMMA RecursionExists ==
  ASSUME NEW m \in Nat, NEW V, NEW base \in V, NEW step \in [(1 .. m) \X V -> V]
  PROVE  \E f \in [0 .. m -> V] : Recursive(f, m, base, step)
<1> DEFINE Follows(f, n) ==
             f[0] = base /\ \A i \in 1 .. n : f[i] = step[<<i, f[i - 1]>>]
           P == {n \in 0 .. m : \E f \in [0 .. m -> V] : Follows(f, n)}
<1>1. 0 \in P
  <2>1. [i \in 0 .. m |-> base] \in [0 .. m -> V]
    OBVIOUS
  <2>2. Follows([i \in 0 .. m |-> base], 0)
    OBVIOUS
  <2>3. 0 \in 0 .. m
    OBVIOUS
  <2> HIDE DEF Follows
  <2> QED
    BY <2>1, <2>2, <2>3
<1>2. ASSUME NEW n \in 0 .. (m - 1), n \in P PROVE n + 1 \in P
  <2>1. PICK f \in [0 .. m -> V] : Follows(f, n)
    BY <1>2
  <2> DEFINE g == [i \in 0 .. m |-> IF i = n + 1 THEN step[<<i, f[n]>>] ELSE f[i]]
  <2>2. g \in [0 .. m -> V]
    BY <1>2, <2>1
  <2>3. Follows(g, n + 1)
    <3>1. g[0] = base
      BY <1>2, <2>1
    <3>2. ASSUME NEW i \in 1 .. (n + 1) PROVE g[i] = step[<<i, g[i - 1]>>]
      BY <1>2, <2>1
    <3> HIDE DEF g
    <3> QED
      BY <3>1, <3>2
  <2> HIDE DEF g
  <2> QED
    BY <1>2, <2>2, <2>3
<1>3. m \in P
  <2> HIDE DEF P
  <2> QED
    BY <1>1, <1>2, IntervalInduction
<1> QED
  BY <1>3 DEF Recursive

-----------------------------------------------------------------------------
\* Sums.

\* The equation by which SumFunction defines the sums g over all subsets.
Sums(f, S, g) ==
  g = [s \in SUBSET S |->
         IF s = {} THEN 0
         ELSE LET x == CHOOSE y \in s : TRUE IN f[x] + g[s \ {x}]]

\* The function by which SumFunction is defined exists.
LEMMA SumsExist ==
  ASSUME NEW S, IsFiniteSet(S), NEW f \in [S -> Int]
  PROVE  \E g \in [SUBSET S -> Int] : Sums(f, S, g)
<1> DEFINE Next(g, s) == IF s = {} THEN 0
                         ELSE LET x == CHOOSE y \in s : TRUE
                              IN f[x] + g[s \ {x}]
           Correct(g, n) == \A s \in SUBSET S :
                              Cardinality(s) <= n => g[s] = Next(g, s)
           P == {n \in 0 .. Cardinality(S) :
                   \E g \in [SUBSET S -> Int] : Correct(g, n)}
<1>1. ASSUME NEW s \in SUBSET S
      PROVE  /\ IsFiniteSet(s) /\ Cardinality(s) \in Nat
             /\ Cardinality(s) <= Cardinality(S)
             /\ Cardinality(s) <= 0 => s = {}
  BY FS_Subset, FS_CardinalityType, FS_EmptySet
<1>2. ASSUME NEW s \in SUBSET S, s # {}, NEW x, x = CHOOSE y \in s : TRUE
      PROVE  /\ x \in S /\ s \ {x} \in SUBSET S
             /\ Cardinality(s \ {x}) = Cardinality(s) - 1
  BY <1>1, <1>2, FS_RemoveElement
<1>3. ASSUME NEW g \in [SUBSET S -> Int], NEW s \in SUBSET S
      PROVE  Next(g, s) \in Int
  BY <1>2
<1>4. 0 \in P
  <2> DEFINE g == [s \in SUBSET S |-> 0]
  <2>1. g \in [SUBSET S -> Int]
    OBVIOUS
  <2>2. Correct(g, 0)
    BY <1>1
  <2>3. 0 \in 0 .. Cardinality(S)
    BY <1>1
  <2> HIDE DEF Correct, g
  <2> QED
    BY <2>1, <2>2, <2>3
<1>5. ASSUME NEW n \in 0 .. (Cardinality(S) - 1), n \in P PROVE n + 1 \in P
  <2>1. PICK g \in [SUBSET S -> Int] : Correct(g, n)
    BY <1>5
  <2> DEFINE h == [s \in SUBSET S |-> Next(g, s)]
  <2>2. h \in [SUBSET S -> Int]
    <3> HIDE DEF Next
    <3> QED
      BY <1>3, <2>1
  <2>3. ASSUME NEW s \in SUBSET S, Cardinality(s) <= n + 1
        PROVE  h[s] = Next(h, s)
    <3>1. CASE s = {}
      BY <3>1
    <3>2. CASE s # {}
      <4>1. PICK x : x = CHOOSE y \in s : TRUE
        OBVIOUS
      <4>2. s \ {x} \in SUBSET S /\ Cardinality(s \ {x}) <= n
        <5>1. /\ s \ {x} \in SUBSET S
              /\ Cardinality(s \ {x}) = Cardinality(s) - 1
          BY <1>2, <3>2, <4>1
        <5>2. Cardinality(s) \in Nat /\ n \in Int
          BY <1>1, <1>5
        <5> QED
          BY <2>3, <5>1, <5>2
      <4>3. h[s \ {x}] = g[s \ {x}]
        <5> HIDE DEF Next
        <5> QED
          BY <2>1, <4>2
      <4> QED
        BY <3>2, <4>1, <4>3
    <3> QED
      BY <3>1, <3>2
  <2>4. n + 1 \in 0 .. Cardinality(S)
    BY <1>1, <1>5
  <2> HIDE DEF Next, h
  <2> QED
    BY <2>2, <2>3, <2>4
<1>6. Cardinality(S) \in P
  <2>1. Cardinality(S) \in Nat
    BY <1>1
  <2> HIDE DEF P
  <2> QED
    BY <1>4, <1>5, <2>1, IntervalInduction
<1>7. PICK g \in [SUBSET S -> Int] : Correct(g, Cardinality(S))
  BY <1>6
<1>8. \A s \in SUBSET S : g[s] = Next(g, s)
  BY <1>1, <1>7
<1>9. g = [s \in SUBSET S |-> Next(g, s)]
  <2> HIDE DEF Next
  <2> QED
    BY <1>8
<1>10. Sums(f, S, g)
  BY <1>9 DEF Sums
<1> QED
  BY <1>10

\* The element that the definition of SumFunction takes out of a set.
Chosen(s) == CHOOSE x \in s : TRUE

\* A sum, and the sums g over all subsets, by their defining equation.
SumsOf(f, S, g) ==
  /\ g \in [SUBSET S -> Int]
  /\ SumFunction(f) = g[S] /\ g[{}] = 0
  /\ \A s \in SUBSET S :
       s # {} => g[s] = f[Chosen(s)] + g[s \ {Chosen(s)}]

\* Every sum over a finite domain has its sums over the subsets.
LEMMA SumEquation ==
  ASSUME NEW S, IsFiniteSet(S), NEW f \in [S -> Int]
  PROVE  \E g : SumsOf(f, S, g)
<1>1. PICK h \in [SUBSET S -> Int] : Sums(f, S, h)
  BY SumsExist
<1>2. DOMAIN f = S
  OBVIOUS
<1>3. SumFunction(f) = (CHOOSE g : Sums(f, S, g))[S]
  BY <1>2
  DEF SumFunction, SumFunctionOnSet, FoldFunctionOnSet, MapThenFoldSet, Sums
<1>4. PICK g : g = CHOOSE k : Sums(f, S, k)
  OBVIOUS
<1>5. g = [s \in SUBSET S |->
             IF s = {} THEN 0
             ELSE LET x == CHOOSE y \in s : TRUE IN f[x] + g[s \ {x}]]
  <2>1. Sums(f, S, g)
    BY <1>1, <1>4
  <2> QED
    BY <2>1 DEF Sums
<1>6. g \in [SUBSET S -> Int]
  <2>1. g = [s \in SUBSET S |-> g[s]]
    BY <1>5
  <2>2. ASSUME NEW s \in SUBSET S, g[s] \notin Int PROVE FALSE
    <3> DEFINE T == {t \in SUBSET S : g[t] \notin Int}
    <3>1. T \in SUBSET (SUBSET S) /\ T # {}
      BY <2>2
    <3>2. PICK t \in T : \A u \in T : u \subseteq t => u = t
      <4> HIDE DEF T
      <4> QED
        BY <3>1, SmallestSubset
    <3>3. t # {}
      BY <1>5, <3>2
    <3>4. PICK x : x = CHOOSE y \in t : TRUE
      OBVIOUS
    <3>5. x \in t /\ t \ {x} \in SUBSET S /\ g[t] = f[x] + g[t \ {x}]
      BY <1>5, <3>2, <3>3, <3>4
    <3>6. g[t \ {x}] \in Int
      BY <3>2, <3>5
    <3> QED
      BY <3>2, <3>5, <3>6
  <2> QED
    BY <2>1, <2>2
<1>7. /\ g[{}] = 0
      /\ \A s \in SUBSET S :
           s # {} => g[s] = f[Chosen(s)] + g[s \ {Chosen(s)}]
  BY <1>5 DEF Chosen
<1> QED
  BY <1>3, <1>4, <1>6, <1>7 DEF SumsOf

\* R relates nothing to nothing, and is kept by adding on both sides what two
\* functions say of one element.
Additive(R, f, g, S) ==
  /\ <<0, 0>> \in R
  /\ \A x \in S : \A a, b \in Int :
       <<a, b>> \in R => <<f[x] + a, g[x] + b>> \in R

\* Such a relation holds between their sums over every subset.
LEMMA AllSumsRelated ==
  ASSUME NEW S, IsFiniteSet(S), NEW f \in [S -> Int], NEW g \in [S -> Int],
         NEW F, SumsOf(f, S, F), NEW G, SumsOf(g, S, G),
         NEW R, Additive(R, f, g, S)
  PROVE  \A s \in SUBSET S : <<F[s], G[s]>> \in R
<1> DEFINE T == {s \in SUBSET S : <<F[s], G[s]>> \notin R}
<1>1. ASSUME T # {} PROVE FALSE
  <2>1. PICK s \in T : \A t \in T : t \subseteq s => t = s
    <3>1. T \in SUBSET (SUBSET S)
      OBVIOUS
    <3> HIDE DEF T
    <3> QED
      BY <1>1, <3>1, SmallestSubset
  <2>2. s # {}
    BY <2>1 DEF SumsOf, Additive
  <2>3. PICK x : x = Chosen(s)
    OBVIOUS
  <2>4. /\ x \in S /\ s \ {x} \in SUBSET S
        /\ s \ {x} \subseteq s /\ s \ {x} # s
    BY <2>1, <2>2, <2>3 DEF Chosen
  <2>5. F[s] = f[x] + F[s \ {x}] /\ G[s] = g[x] + G[s \ {x}]
    BY <2>1, <2>2, <2>3 DEF SumsOf
  <2>6. <<F[s \ {x}], G[s \ {x}]>> \in R
    BY <2>1, <2>4
  <2>7. F[s \ {x}] \in Int /\ G[s \ {x}] \in Int
    BY <2>4 DEF SumsOf
  <2>8. <<F[s], G[s]>> \in R
    BY <2>4, <2>5, <2>6, <2>7 DEF Additive
  <2> QED
    BY <2>1, <2>8
<1> QED
  BY <1>1

\* So it holds between the sums over the whole domain.
LEMMA SumsRelated ==
  ASSUME NEW S, IsFiniteSet(S), NEW f \in [S -> Int], NEW g \in [S -> Int],
         NEW R, Additive(R, f, g, S)
  PROVE  <<SumFunction(f), SumFunction(g)>> \in R
<1>1. PICK F : SumsOf(f, S, F)
  BY SumEquation
<1>2. PICK G : SumsOf(g, S, G)
  BY SumEquation
<1>3. \A s \in SUBSET S : <<F[s], G[s]>> \in R
  BY <1>1, <1>2, AllSumsRelated
<1>4. <<F[S], G[S]>> \in R
  BY <1>3
<1> QED
  BY <1>1, <1>2, <1>4 DEF SumsOf

\* A sum of integers is an integer, and one of naturals a natural.
LEMMA SumType ==
  ASSUME NEW S, IsFiniteSet(S), NEW f \in [S -> Int]
  PROVE  /\ SumFunction(f) \in Int
         /\ (\A x \in S : f[x] \in Nat) => SumFunction(f) \in Nat
<1>1. SumFunction(f) \in Int
  <2>1. PICK g : SumsOf(f, S, g)
    BY SumEquation
  <2>2. S \in SUBSET S
    OBVIOUS
  <2> QED
    BY <2>1, <2>2 DEF SumsOf
<1>2. ASSUME \A x \in S : f[x] \in Nat PROVE SumFunction(f) \in Nat
  <2> DEFINE R == Nat \X Nat
  <2>1. Additive(R, f, f, S)
    BY <1>2 DEF Additive
  <2>2. <<SumFunction(f), SumFunction(f)>> \in R
    <3> HIDE DEF R
    <3> QED
      BY <2>1, SumsRelated
  <2> QED
    BY <2>2
<1> QED
  BY <1>1, <1>2

\* A sum of something is positive when every summand is.
LEMMA SumPositive ==
  ASSUME NEW S, IsFiniteSet(S), S # {}, NEW f \in [S -> Nat \ {0}]
  PROVE  SumFunction(f) \in Nat \ {0}
<1> DEFINE R == Nat \X Nat
<1>1. PICK F : SumsOf(f, S, F)
  BY SumEquation
<1>2. \A s \in SUBSET S : <<F[s], F[s]>> \in R
  <2>1. Additive(R, f, f, S)
    BY DEF Additive
  <2>2. f \in [S -> Int]
    OBVIOUS
  <2> HIDE DEF R
  <2> QED
    BY <1>1, <2>1, <2>2, AllSumsRelated
<1>3. PICK x : x = Chosen(S)
  OBVIOUS
<1>4. x \in S /\ S \ {x} \in SUBSET S
  BY <1>3 DEF Chosen
<1>5. F[S] = f[x] + F[S \ {x}] /\ F[S \ {x}] \in Nat
  BY <1>1, <1>2, <1>3, <1>4 DEF SumsOf
<1> QED
  BY <1>1, <1>4, <1>5 DEF SumsOf

\* A sum of summands that are no greater is no greater.
LEMMA SumMonotone ==
  ASSUME NEW S, IsFiniteSet(S), NEW f \in [S -> Int], NEW g \in [S -> Int],
         \A x \in S : f[x] <= g[x]
  PROVE  SumFunction(f) <= SumFunction(g)
<1> DEFINE R == {r \in Int \X Int : r[1] <= r[2]}
<1>1. <<0, 0>> \in R
  OBVIOUS
<1>2. ASSUME NEW x \in S, NEW a \in Int, NEW b \in Int, <<a, b>> \in R
      PROVE  <<f[x] + a, g[x] + b>> \in R
  <2>1. f[x] \in Int /\ g[x] \in Int /\ f[x] <= g[x] /\ a <= b
    BY <1>2
  <2> QED
    BY <2>1
<1>3. <<SumFunction(f), SumFunction(g)>> \in R
  <2>1. Additive(R, f, g, S)
    BY <1>1, <1>2 DEF Additive
  <2> HIDE DEF R
  <2> QED
    BY <2>1, SumsRelated
<1> QED
  BY <1>3

\* A constant factor of every summand is one of the sum.
LEMMA SumScaled ==
  ASSUME NEW S, IsFiniteSet(S), NEW f \in [S -> Int], NEW g \in [S -> Int],
         NEW c \in Int, \A x \in S : g[x] = c * f[x]
  PROVE  SumFunction(g) = c * SumFunction(f)
<1> DEFINE R == {r \in Int \X Int : r[2] = c * r[1]}
<1>1. <<0, 0>> \in R
  OBVIOUS
<1>2. ASSUME NEW x \in S, NEW a \in Int, NEW b \in Int, <<a, b>> \in R
      PROVE  <<f[x] + a, g[x] + b>> \in R
  <2>1. f[x] \in Int /\ g[x] = c * f[x] /\ b = c * a
    BY <1>2
  <2>2. c * f[x] + c * a = c * (f[x] + a)
    BY <2>1
  <2> QED
    BY <2>1, <2>2
<1>3. <<SumFunction(f), SumFunction(g)>> \in R
  <2>1. Additive(R, f, g, S)
    BY <1>1, <1>2 DEF Additive
  <2> HIDE DEF R
  <2> QED
    BY <2>1, SumsRelated
<1> QED
  BY <1>3
=============================================================================
