--------------------------- MODULE KeyPoolProofs ---------------------------
(***************************************************************************)
(* Proofs about KeyPool, for every pool, every number of callers and every *)
(* cooldown.                                                               *)
(***************************************************************************)
EXTENDS KeyPool, SequenceTheorems, InductionPrinciples, TLAPS

-----------------------------------------------------------------------------
\* The configuration of the pool.

\* What the environment may hold for a key.
Setting == Keys \union {NoKey}

\* A setting that names a key, for the first time.
Fresh(settings, i) ==
  /\ settings[i] # NoKey
  /\ \A j \in 1 .. (i - 1) : settings[j] # settings[i]

\* The function by which DistinctKeys is defined.
KeptKeys(settings, K) ==
  /\ K[0] = <<>>
  /\ \A i \in 1 .. Len(settings) :
       K[i] = IF Fresh(settings, i) THEN Append(K[i - 1], settings[i]) ELSE K[i - 1]

KeepsKeys(settings, Kept) ==
  Kept = [i \in 0 .. Len(settings) |->
            IF i = 0 THEN <<>>
            ELSE IF \/ settings[i] = NoKey
                    \/ \E j \in 1 .. (i - 1) : settings[j] = settings[i]
                 THEN Kept[i - 1]
                 ELSE Append(Kept[i - 1], settings[i])]

\* It exists.
LEMMA KeptKeysExist ==
  ASSUME NEW settings \in Seq(Setting)
  PROVE  \E K \in [0 .. Len(settings) -> Seq(Setting)] : KeptKeys(settings, K)
<1> DEFINE V == Seq(Setting)
           step == [x \in (1 .. Len(settings)) \X V |->
                      IF Fresh(settings, x[1]) THEN Append(x[2], settings[x[1]])
                                               ELSE x[2]]
<1>1. Len(settings) \in Nat
  BY LenProperties
<1>2. ASSUME NEW x \in (1 .. Len(settings)) \X V PROVE step[x] \in V
  <2>1. settings[x[1]] \in Setting
    BY ElementOfSeq
  <2> QED
    BY <2>1, AppendProperties
<1>3. step \in [(1 .. Len(settings)) \X V -> V]
  <2>1. step = [x \in (1 .. Len(settings)) \X V |-> step[x]]
    OBVIOUS
  <2> HIDE DEF step
  <2> QED
    BY <1>2, <2>1
<1>4. <<>> \in V
  BY EmptySeq
<1>5. PICK f \in [0 .. Len(settings) -> V] :
        Recursive(f, Len(settings), <<>>, step)
  <2> HIDE DEF step, V
  <2> QED
    BY <1>1, <1>3, <1>4, RecursionExists
<1>6. ASSUME NEW i \in 1 .. Len(settings)
      PROVE  f[i] = IF Fresh(settings, i) THEN Append(f[i - 1], settings[i])
                                          ELSE f[i - 1]
  <2>1. i - 1 \in 0 .. Len(settings)
    BY <1>1
  <2>2. <<i, f[i - 1]>> \in (1 .. Len(settings)) \X V
    BY <2>1
  <2>3. f[i] = step[<<i, f[i - 1]>>]
    <3> HIDE DEF step
    <3> QED
      BY <1>5 DEF Recursive
  <2> QED
    BY <2>2, <2>3
<1>7. f[0] = <<>>
  BY <1>5 DEF Recursive
<1> QED
  BY <1>5, <1>6, <1>7 DEF KeptKeys

\* DistinctKeys is by such a function.
LEMMA DistinctKeysBy ==
  ASSUME NEW settings \in Seq(Setting)
  PROVE  \E K : KeptKeys(settings, K) /\ DistinctKeys(settings) = K[Len(settings)]
<1>1. Len(settings) \in Nat
  BY LenProperties
<1>2. PICK f \in [0 .. Len(settings) -> Seq(Setting)] : KeptKeys(settings, f)
  BY KeptKeysExist
<1> DEFINE Step(K, i) ==
             IF \/ settings[i] = NoKey
                \/ \E j \in 1 .. (i - 1) : settings[j] = settings[i]
             THEN K[i - 1] ELSE Append(K[i - 1], settings[i])
<1>3. ASSUME NEW K, NEW i
      PROVE  Step(K, i) = IF Fresh(settings, i) THEN Append(K[i - 1], settings[i])
                                                ELSE K[i - 1]
  BY DEF Fresh
<1>4. ASSUME NEW K
      PROVE  KeepsKeys(settings, K) <=>
               K = [i \in 0 .. Len(settings) |-> IF i = 0 THEN <<>> ELSE Step(K, i)]
  BY DEF KeepsKeys
<1>5. DistinctKeys(settings) = (CHOOSE K : KeepsKeys(settings, K))[Len(settings)]
  BY DEF DistinctKeys, KeepsKeys
<1> HIDE DEF Step
<1>6. ASSUME NEW K, KeepsKeys(settings, K) PROVE KeptKeys(settings, K)
  <2>1. K = [i \in 0 .. Len(settings) |-> IF i = 0 THEN <<>> ELSE Step(K, i)]
    BY <1>4, <1>6
  <2>2. K[0] = <<>>
    BY <1>1, <2>1
  <2>3. ASSUME NEW i \in 1 .. Len(settings) PROVE K[i] = Step(K, i)
    <3>1. i \in 0 .. Len(settings) /\ i # 0
      BY <1>1
    <3> QED
      BY <2>1, <3>1
  <2> QED
    BY <1>3, <2>2, <2>3 DEF KeptKeys
<1>7. KeepsKeys(settings, f)
  <2>1. f[0] = <<>> /\ \A i \in 1 .. Len(settings) : f[i] = Step(f, i)
    BY <1>2, <1>3 DEF KeptKeys
  <2>2. f = [i \in 0 .. Len(settings) |-> IF i = 0 THEN <<>> ELSE Step(f, i)]
    BY <1>1, <1>2, <2>1
  <2> QED
    BY <1>4, <2>2
<1>8. PICK K : K = CHOOSE k : KeepsKeys(settings, k)
  OBVIOUS
<1>9. KeepsKeys(settings, K)
  BY <1>7, <1>8
<1> QED
  BY <1>5, <1>6, <1>8, <1>9

\* One of the first n settings is k.
Names(settings, k, n) == \E i \in 1 .. n : settings[i] = k

\* pool holds the keys that the first n settings name, each once and in the
\* order of their first places.
PoolOf(pool, settings, n) ==
  /\ pool \in Seq(Keys)
  /\ \A i, j \in 1 .. Len(pool) : pool[i] = pool[j] => i = j
  /\ \A k : Names(pool, k, Len(pool)) <=> k # NoKey /\ Names(settings, k, n)
  /\ \A i, j \in 1 .. Len(pool) :
       i < j => \E m \in 1 .. n : /\ settings[m] = pool[i]
                                  /\ \A l \in 1 .. n : settings[l] = pool[j] => m < l

\* One more setting adds its key when it is a fresh one.
LEMMA PoolGrows ==
  ASSUME NEW settings \in Seq(Setting), NEW n \in 0 .. (Len(settings) - 1),
         NEW pool, PoolOf(pool, settings, n)
  PROVE  PoolOf(IF Fresh(settings, n + 1) THEN Append(pool, settings[n + 1]) ELSE pool,
                settings, n + 1)
<1>1. /\ Len(settings) \in Nat /\ n \in Nat /\ n + 1 \in 1 .. Len(settings)
      /\ settings[n + 1] \in Setting
  <2>1. Len(settings) \in Nat /\ n \in Nat /\ n + 1 \in 1 .. Len(settings)
    BY LenProperties
  <2> QED
    BY <2>1, ElementOfSeq
<1>2. PICK e : e = settings[n + 1]
  OBVIOUS
<1>3. \A i : i \in 1 .. (n + 1) <=> i \in 1 .. n \/ i = n + 1
  BY <1>1
<1>4. \A k : Names(settings, k, n + 1) <=> Names(settings, k, n) \/ k = e
  BY <1>2, <1>3 DEF Names
<1>5. Fresh(settings, n + 1) <=> e # NoKey /\ ~Names(settings, e, n)
  BY <1>1, <1>2 DEF Fresh, Names
<1>6. pool \in Seq(Keys) /\ Len(pool) \in Nat
  BY LenProperties DEF PoolOf
<1>7. ASSUME NEW i \in 1 .. Len(pool), NEW j \in 1 .. Len(pool), i < j
      PROVE  \E m \in 1 .. (n + 1) :
               /\ settings[m] = pool[i]
               /\ \A l \in 1 .. (n + 1) : settings[l] = pool[j] => m < l
  <2>1. PICK m \in 1 .. n : /\ settings[m] = pool[i]
                            /\ \A l \in 1 .. n : settings[l] = pool[j] => m < l
    BY <1>7 DEF PoolOf
  <2>2. m < n + 1
    BY <1>1
  <2> QED
    BY <1>3, <2>1, <2>2
<1>8. CASE ~Fresh(settings, n + 1)
  <2>1. \A k : Names(pool, k, Len(pool)) <=> k # NoKey /\ Names(settings, k, n + 1)
    BY <1>4, <1>5, <1>8 DEF PoolOf
  <2> QED
    BY <1>7, <1>8, <2>1 DEF PoolOf
<1>9. CASE Fresh(settings, n + 1)
  <2>1. e \in Keys /\ e # NoKey /\ ~Names(settings, e, n)
    BY <1>1, <1>2, <1>5, <1>9 DEF Setting
  <2>2. PICK p : p = Append(pool, e)
    OBVIOUS
  <2>3. PICK N1 \in Nat : N1 = Len(pool)
    BY <1>6
  <2>4. /\ p \in Seq(Keys) /\ Len(p) = N1 + 1 /\ p[N1 + 1] = e
        /\ \A i \in 1 .. N1 : p[i] = pool[i]
    BY <1>6, <2>1, <2>2, <2>3, AppendProperties
  <2>5. \A i : i \in 1 .. (N1 + 1) <=> i \in 1 .. N1 \/ i = N1 + 1
    OBVIOUS
  <2>6. \A i \in 1 .. N1 : pool[i] # e
    BY <2>1, <2>3 DEF PoolOf, Names
  <2>7. \A i, j \in 1 .. Len(p) : p[i] = p[j] => i = j
    BY <2>3, <2>4, <2>5, <2>6 DEF PoolOf
  <2>8. \A k : Names(p, k, Len(p)) <=> k # NoKey /\ Names(settings, k, n + 1)
    <3>1. \A k : Names(p, k, Len(p)) <=> Names(pool, k, N1) \/ k = e
      BY <2>4, <2>5 DEF Names
    <3> QED
      BY <1>4, <2>1, <2>3, <3>1 DEF PoolOf
  <2>9. ASSUME NEW i \in 1 .. Len(p), NEW j \in 1 .. Len(p), i < j
        PROVE  \E m \in 1 .. (n + 1) :
                 /\ settings[m] = p[i]
                 /\ \A l \in 1 .. (n + 1) : settings[l] = p[j] => m < l
    <3>1. i \in 1 .. N1
      BY <2>4, <2>9
    <3>2. CASE j \in 1 .. N1
      <4>1. p[i] = pool[i] /\ p[j] = pool[j]
        BY <2>4, <3>1, <3>2
      <4>2. i \in 1 .. Len(pool) /\ j \in 1 .. Len(pool)
        BY <2>3, <3>1, <3>2
      <4> QED
        BY <1>7, <2>9, <4>1, <4>2
    <3>3. CASE j = N1 + 1
      <4>1. Names(settings, pool[i], n)
        BY <2>3, <3>1 DEF PoolOf, Names
      <4>2. PICK m \in 1 .. n : settings[m] = p[i]
        BY <2>4, <3>1, <4>1 DEF Names
      <4>3. \A l \in 1 .. n : settings[l] # e
        BY <2>1 DEF Names
      <4>4. m < n + 1
        BY <1>1
      <4> QED
        BY <1>3, <2>4, <3>3, <4>2, <4>3, <4>4
    <3> QED
      BY <2>4, <2>5, <3>2, <3>3
  <2>10. PoolOf(p, settings, n + 1)
    BY <2>4, <2>7, <2>8, <2>9 DEF PoolOf
  <2> QED
    BY <1>2, <1>9, <2>2, <2>10
<1> QED
  BY <1>8, <1>9

\* The keys among any settings, each once.
LEMMA DistinctPool ==
  ASSUME NEW settings \in Seq(Setting)
  PROVE  PoolOf(DistinctKeys(settings), settings, Len(settings))
<1>1. PICK K : KeptKeys(settings, K) /\ DistinctKeys(settings) = K[Len(settings)]
  BY DistinctKeysBy
<1>2. PICK m \in Nat : m = Len(settings)
  BY LenProperties
<1> DEFINE P == {n \in 0 .. m : PoolOf(K[n], settings, n)}
<1>3. 0 \in P
  <2>1. K[0] = <<>> /\ <<>> \in Seq(Keys) /\ Len(<<>>) = 0
    BY <1>1, EmptySeq DEF KeptKeys
  <2>2. PoolOf(<<>>, settings, 0)
    BY <2>1 DEF PoolOf, Names
  <2> QED
    BY <2>1, <2>2
<1>4. ASSUME NEW n \in 0 .. (m - 1), n \in P PROVE n + 1 \in P
  <2>1. PICK i : i = n + 1
    OBVIOUS
  <2>2. i \in 0 .. m /\ i \in 1 .. Len(settings) /\ i - 1 = n
    BY <1>2, <2>1
  <2>3. K[i] = IF Fresh(settings, i) THEN Append(K[n], settings[i]) ELSE K[n]
    BY <1>1, <2>2 DEF KeptKeys
  <2>4. PoolOf(K[i], settings, i)
    BY <1>2, <1>4, <2>1, <2>3, PoolGrows
  <2> QED
    BY <2>1, <2>2, <2>4
<1>5. m \in P
  <2> HIDE DEF P
  <2> QED
    BY <1>2, <1>3, <1>4, IntervalInduction
<1> QED
  BY <1>1, <1>2, <1>5

\* Whatever is configured, the pool holds the keys of the settings for
\* interviews, or of the others when those name none, each once and in the
\* order of their first places: what KeyPool assumes of its pool, but for its
\* not being empty, which raises an error where it is used.
THEOREM PoolIsDistinct ==
  ASSUME NEW configured \in Seq(Setting), NEW source \in Seq(Setting),
         NEW pool, pool = ApiKeyPool(configured, source)
  PROVE  IF \E k \in Keys \ {NoKey} : Names(configured, k, Len(configured))
         THEN PoolOf(pool, configured, Len(configured)) /\ Len(pool) > 0
         ELSE PoolOf(pool, source, Len(source))
<1>1. PICK own : own = DistinctKeys(configured)
  OBVIOUS
<1>2. PoolOf(own, configured, Len(configured)) /\ own \in Seq(Keys) /\ Len(own) \in Nat
  <2>1. PoolOf(own, configured, Len(configured))
    BY <1>1, DistinctPool
  <2>2. own \in Seq(Keys)
    BY <2>1 DEF PoolOf
  <2> QED
    BY <2>1, <2>2, LenProperties
<1>3. CASE own # <<>>
  <2>1. 1 \in 1 .. Len(own) /\ Len(own) > 0
    BY <1>2, <1>3, EmptySeq
  <2>2. own[1] \in Keys /\ Names(own, own[1], Len(own))
    BY <1>2, <2>1, ElementOfSeq DEF Names
  <2>3. own[1] # NoKey /\ Names(configured, own[1], Len(configured))
    BY <1>2, <2>2 DEF PoolOf
  <2>4. pool = own
    BY <1>1, <1>3 DEF ApiKeyPool
  <2> QED
    BY <1>2, <2>1, <2>2, <2>3, <2>4
<1>4. CASE own = <<>>
  <2>1. \A k : ~Names(own, k, Len(own))
    BY <1>4 DEF Names
  <2>2. \A k \in Keys \ {NoKey} : ~Names(configured, k, Len(configured))
    BY <1>2, <2>1 DEF PoolOf
  <2>3. pool = DistinctKeys(source)
    BY <1>1, <1>4 DEF ApiKeyPool
  <2> QED
    BY <2>2, <2>3, DistinctPool
<1> QED
  BY <1>3, <1>4

-----------------------------------------------------------------------------
\* The invariant of the calls.

\* Every offset is still to be asked, is being asked, or its key is spent.
Accounted(t) ==
  \A o \in Offsets :
    \/ o \in t.left
    \/ o = t.at
    \/ KeyAt(t.slot, o) \in t.unusable \union t.failed

\* Candidates were usable at the start, and lie beyond the one asked.
CandidatesAhead(t) ==
  /\ \A o \in t.left : t.at < o
  /\ \A o \in t.left \union {t.at} : KeyAt(t.slot, o) \notin t.unusable

\* The keys that failed lie behind the one asked.
FailedBehind(t) ==
  \A k \in t.failed : \E o \in Offsets : o < t.at /\ k = KeyAt(t.slot, o)

Rotating(t) ==
  /\ Accounted(t)
  /\ CandidatesAhead(t)
  /\ FailedBehind(t)
  /\ t.outcome = "over"

IInv ==
  /\ TypeOK
  /\ \A c \in Callers : call[c].stage = "asking" => Rotating(call[c])
  /\ rejected \subseteq disabled

-----------------------------------------------------------------------------
\* The rotation of the pool.

\* The pool has a key at every place.
LEMMA PoolFacts == N \in Nat /\ N > 0 /\ \A i \in 1 .. N : Pool[i] \in Keys
<1> QED
  BY PoolAssumption DEF N

\* The rotation stays in the pool.
LEMMA PlaceIsInPool ==
  ASSUME NEW slot \in Offsets, NEW o \in Offsets
  PROVE  Place(slot, o) \in 1 .. N
<1> QED
  BY PoolFacts DEF Place, Offsets

\* It meets keys only.
LEMMA KeyAtIsKey ==
  ASSUME NEW slot \in Offsets, NEW o \in Offsets
  PROVE  KeyAt(slot, o) \in Keys
<1> QED
  BY PlaceIsInPool, PoolFacts DEF KeyAt

\* No key is met twice on the way round.
LEMMA RotationInjective ==
  ASSUME NEW slot \in Offsets, NEW o \in Offsets, NEW p \in Offsets,
         KeyAt(slot, o) = KeyAt(slot, p)
  PROVE  o = p
<1>1. Place(slot, o) = Place(slot, p)
  BY PlaceIsInPool, PoolAssumption DEF KeyAt
<1> QED
  BY <1>1, PoolFacts DEF Place, Offsets

\* Every key is met on the way round.
LEMMA RotationComplete ==
  ASSUME NEW slot \in Offsets, NEW i \in 1 .. N
  PROVE  \E o \in Offsets : KeyAt(slot, o) = Pool[i]
<1> DEFINE o == IF slot < i THEN i - 1 - slot ELSE i - 1 - slot + N
<1>1. o \in Offsets /\ Place(slot, o) = i
  BY PoolFacts DEF Place, Offsets
<1> QED
  BY <1>1 DEF KeyAt

\* A call that ended is a call.
LEMMA EndedIsCall ==
  ASSUME NEW outcome \in Outcome
  PROVE  Ended(outcome) \in Call /\ Ended(outcome).stage = "idle"
           /\ Ended(outcome).outcome = outcome
<1>1. 0 \in Offsets
  BY PoolFacts DEF Offsets
<1> QED
  BY <1>1 DEF Ended, Call

-----------------------------------------------------------------------------
\* The first state satisfies the invariant.
LEMMA InitInv == Init => IInv
<1> SUFFICES ASSUME Init PROVE IInv
  OBVIOUS
<1>1. \A c \in Callers : call[c] \in Call /\ call[c].stage = "idle"
  BY EndedIsCall DEF Init, Outcome
<1>2. TypeOK
  BY <1>1 DEF Init, TypeOK
<1> QED
  BY <1>1, <1>2 DEF Init, IInv

\* What is known when a call asks the next of its candidates.
Askable(slot, candidates, unusable, failed) ==
  /\ \A o \in Offsets : \/ o \in candidates
                        \/ KeyAt(slot, o) \in unusable \union failed
  /\ \A o \in candidates : KeyAt(slot, o) \notin unusable
  /\ \A k \in failed : \E o \in Offsets :
       k = KeyAt(slot, o) /\ \A p \in candidates : o < p

\* A call that asks its next candidate.
LEMMA AskKeepsRotating ==
  ASSUME TypeOK, NEW c \in Callers, NEW slot \in Offsets,
         NEW candidates \in SUBSET Offsets, NEW unusable \in SUBSET Keys,
         NEW failed \in SUBSET Keys,
         Ask(c, slot, candidates, unusable, failed),
         Askable(slot, candidates, unusable, failed)
  PROVE  call' \in [Callers -> Call]
           /\ call'[c].stage = "asking" /\ Rotating(call'[c])
           /\ \A d \in Callers : d # c => call'[d] = call[d]
<1>1. PICK first \in First(candidates) :
        call' = [call EXCEPT ![c] =
                   [stage |-> "asking", slot |-> slot, at |-> first,
                    left |-> candidates \ {first}, unusable |-> unusable,
                    failed |-> failed, outcome |-> "over"]]
  BY DEF Ask
<1>2. first \in candidates /\ first \in Offsets
        /\ \A p \in candidates : first <= p
  BY <1>1 DEF First
<1> DEFINE t == [stage |-> "asking", slot |-> slot, at |-> first,
                 left |-> candidates \ {first}, unusable |-> unusable,
                 failed |-> failed, outcome |-> "over"]
<1>3. t \in Call
  BY <1>2 DEF Call, Outcome
<1>4. call'[c] = t /\ call' \in [Callers -> Call]
        /\ \A d \in Callers : d # c => call'[d] = call[d]
  BY <1>1, <1>3 DEF TypeOK
<1>5. Accounted(t)
  BY <1>2 DEF Accounted, Askable
<1>6. CandidatesAhead(t)
  <2>1. \A o \in candidates \ {first} : first < o
    BY <1>2, PoolFacts DEF Offsets
  <2> QED
    BY <2>1, <1>2 DEF CandidatesAhead, Askable
<1>7. FailedBehind(t)
  BY <1>2 DEF FailedBehind, Askable
<1>8. Rotating(t)
  BY <1>5, <1>6, <1>7 DEF Rotating
<1> QED
  BY <1>4, <1>8

\* The end of a call is no concern of the others.
LEMMA EndKeepsOthers ==
  ASSUME TypeOK, NEW c \in Callers, NEW outcome \in Outcome, End(c, outcome)
  PROVE  call' \in [Callers -> Call]
           /\ call'[c].stage = "idle" /\ call'[c].outcome = outcome
           /\ \A d \in Callers : d # c => call'[d] = call[d]
<1> QED
  BY EndedIsCall DEF End, TypeOK

\* A call that begins.
LEMMA BeginInv ==
  ASSUME IInv, NEW c \in Callers, Begin(c)
  PROVE  /\ call' \in [Callers -> Call]
         /\ call'[c].stage = "asking" => Rotating(call'[c])
         /\ \A d \in Callers : d # c => call'[d] = call[d]
<1>1. TypeOK
  BY DEF IInv
<1>2. PICK slot \in Offsets :
        \/ Candidates(slot) = {} /\ End(c, "no_key")
        \/ Ask(c, slot, Candidates(slot), {k \in Keys : ~Usable(k)}, {})
  BY DEF Begin
<1>3. CASE End(c, "no_key")
  BY <1>1, <1>3, EndKeepsOthers DEF Outcome
<1>4. CASE Ask(c, slot, Candidates(slot), {k \in Keys : ~Usable(k)}, {})
  <2>1. Candidates(slot) \subseteq Offsets
    BY DEF Candidates
  <2>2. \A o \in Offsets :
           \/ o \in Candidates(slot)
           \/ KeyAt(slot, o) \in {k \in Keys : ~Usable(k)} \union {}
    BY KeyAtIsKey DEF Candidates
  <2>3. \A o \in Candidates(slot) :
           KeyAt(slot, o) \notin {k \in Keys : ~Usable(k)}
    BY DEF Candidates
  <2> QED
    BY <1>1, <1>4, <2>1, <2>2, <2>3, AskKeepsRotating DEF Askable
<1> QED
  BY <1>2, <1>3, <1>4

\* A call that moves on from a key that has failed.
LEMMA RotateInv ==
  ASSUME IInv, NEW c \in Callers, call[c].stage = "asking", Rotate(c)
  PROVE  /\ call' \in [Callers -> Call]
         /\ call'[c].stage = "asking" => Rotating(call'[c])
         /\ \A d \in Callers : d # c => call'[d] = call[d]
         /\ call'[c].outcome = "exhausted" => call[c].left = {}
<1> DEFINE t == call[c]
<1>1. TypeOK /\ Rotating(t) /\ t \in Call
  BY DEF IInv, TypeOK
<1>2. t.slot \in Offsets /\ t.at \in Offsets /\ t.left \subseteq Offsets
        /\ t.unusable \subseteq Keys /\ t.failed \subseteq Keys
  BY <1>1 DEF Call
<1>3. CASE t.left = {} /\ End(c, "exhausted")
  BY <1>1, <1>3, EndKeepsOthers DEF Outcome
<1>4. CASE Ask(c, t.slot, t.left, t.unusable, t.failed \union {Asked(c)})
  <2>1. Asked(c) = KeyAt(t.slot, t.at) /\ Asked(c) \in Keys
    BY <1>2, KeyAtIsKey DEF Asked
  <2>2. t.failed \union {Asked(c)} \in SUBSET Keys
    BY <1>2, <2>1
  <2>3. \A o \in Offsets :
           \/ o \in t.left
           \/ KeyAt(t.slot, o) \in t.unusable \union (t.failed \union {Asked(c)})
    BY <1>1, <2>1 DEF Rotating, Accounted
  <2>4. \A o \in t.left : KeyAt(t.slot, o) \notin t.unusable
    BY <1>1 DEF Rotating, CandidatesAhead
  <2>5. \A k \in t.failed \union {Asked(c)} : \E o \in Offsets :
           k = KeyAt(t.slot, o) /\ \A p \in t.left : o < p
    <3>1. \A p \in t.left : t.at < p
      BY <1>1 DEF Rotating, CandidatesAhead
    <3>2. ASSUME NEW k \in t.failed
          PROVE  \E o \in Offsets :
                   k = KeyAt(t.slot, o) /\ \A p \in t.left : o < p
      <4>1. PICK o \in Offsets : o < t.at /\ k = KeyAt(t.slot, o)
        BY <1>1 DEF Rotating, FailedBehind
      <4>2. \A p \in t.left : o < p
        BY <1>2, <3>1, <4>1, PoolFacts DEF Offsets
      <4> QED
        BY <4>1, <4>2
    <3> QED
      BY <1>2, <2>1, <3>1, <3>2
  <2>6. call' \in [Callers -> Call] /\ call'[c].stage = "asking"
          /\ Rotating(call'[c])
          /\ \A d \in Callers : d # c => call'[d] = call[d]
    <3>1. t.left \in SUBSET Offsets /\ t.unusable \in SUBSET Keys
      BY <1>2
    <3>2. Askable(t.slot, t.left, t.unusable, t.failed \union {Asked(c)})
      BY <2>3, <2>4, <2>5 DEF Askable
    <3> HIDE DEF t
    <3> QED
      BY <1>1, <1>2, <1>4, <2>2, <3>1, <3>2, AskKeepsRotating
  <2> QED
    BY <2>6 DEF Rotating
<1> QED
  BY <1>3, <1>4 DEF Rotate
-----------------------------------------------------------------------------
\* Every step preserves the invariant.

\* A step of one call preserves the invariant when that call still rotates as
\* it should.
LEMMA CallsInv ==
  ASSUME IInv, NEW c \in Callers, cooling' \in [Keys -> Nat],
         disabled' \subseteq Keys, rejected' \subseteq disabled',
         call' \in [Callers -> Call],
         call'[c].stage = "asking" => Rotating(call'[c]),
         \A d \in Callers : d # c => call'[d] = call[d]
  PROVE  IInv'
<1>1. TypeOK'
  BY DEF TypeOK
<1>2. \A d \in Callers : call'[d].stage = "asking" => Rotating(call'[d])
  <2> SUFFICES ASSUME NEW d \in Callers, call'[d].stage = "asking"
               PROVE  Rotating(call'[d])
    OBVIOUS
  <2> QED
    BY DEF IInv
<1>3. (\A d \in Callers : call[d].stage = "asking" => Rotating(call[d]))'
  BY <1>2 DEF Rotating, Accounted, CandidatesAhead, FailedBehind
<1> QED
  BY <1>1, <1>3 DEF IInv

\* A key cools down for a time.
LEMMA CooldownType == Cooldowns \subseteq Nat
<1> QED
  BY PoolAssumption DEF Cooldowns

\* A call asks with a key.
LEMMA AskedType ==
  ASSUME TypeOK, NEW c \in Callers
  PROVE  Asked(c) \in Keys
<1> QED
  BY KeyAtIsKey DEF TypeOK, Call, Asked

\* Every step preserves the invariant.
LEMMA NextInv == IInv /\ [Next]_vars => IInv'
<1> SUFFICES ASSUME IInv, [Next]_vars PROVE IInv'
  OBVIOUS
<1> TypeOK /\ rejected \subseteq disabled
  BY DEF IInv
<1>1. CASE UNCHANGED vars
  BY <1>1 DEF vars, IInv, TypeOK, Rotating, Accounted, CandidatesAhead,
              FailedBehind
<1>2. CASE Tick
  <2>1. cooling' \in [Keys -> Nat]
    BY <1>2 DEF Tick, TypeOK
  <2> QED
    BY <1>2, <2>1 DEF Tick, IInv, TypeOK, Rotating, Accounted,
                      CandidatesAhead, FailedBehind
<1>3. ASSUME NEW c \in Callers, Begin(c) PROVE IInv'
  BY <1>3, BeginInv, CallsInv DEF Begin, TypeOK
<1>4. ASSUME NEW c \in Callers, Answer(c) PROVE IInv'
  <2>1. cooling' \in [Keys -> Nat]
    BY <1>4 DEF Answer, TypeOK
  <2> QED
    BY <1>4, <2>1, EndKeepsOthers, CallsInv DEF Answer, TypeOK, Outcome
<1>5. ASSUME NEW c \in Callers, FailTransiently(c) PROVE IInv'
  <2>1. cooling' \in [Keys -> Nat]
    BY <1>5, CooldownType DEF FailTransiently, TypeOK
  <2> QED
    BY <1>5, <2>1, RotateInv, CallsInv DEF FailTransiently, TypeOK
<1>6. ASSUME NEW c \in Callers, Reject(c) PROVE IInv'
  <2>1. cooling' \in [Keys -> Nat] /\ disabled' \subseteq Keys
          /\ rejected' \subseteq disabled'
    BY <1>6, AskedType DEF Reject, TypeOK
  <2> QED
    BY <1>6, <2>1, RotateInv, CallsInv DEF Reject
<1>7. ASSUME NEW c \in Callers, Raise(c) PROVE IInv'
  BY <1>7, EndKeepsOthers, CallsInv DEF Raise, TypeOK, Outcome
<1> QED
  BY <1>1, <1>2, <1>3, <1>4, <1>5, <1>6, <1>7 DEF Next, Respond

\* The inductive invariant: while a call runs, every key of the pool is still
\* a candidate, is being asked, or is spent.
THEOREM Invariance == Spec => []IInv
<1> QED
  BY InitInv, NextInv, PTL DEF Spec

-----------------------------------------------------------------------------
\* The theorems.

\* Cooldowns are never negative and calls keep to the pool.
THEOREM TypeCorrect == Spec => []TypeOK
<1>1. IInv => TypeOK
  BY DEF IInv
<1> QED
  BY <1>1, Invariance, PTL

\* In every pool and for any number of callers, a call asks the usable keys in
\* the order of the rotation and none of them twice.
THEOREM OrderKept == Spec => []FallbackInOrder
<1>1. IInv => FallbackInOrder
  <2> SUFFICES ASSUME IInv, NEW c \in Callers, call[c].stage = "asking"
               PROVE  /\ Asked(c) \notin call[c].unusable \union call[c].failed
                      /\ \A o \in Offsets : o < call[c].at =>
                            KeyAt(call[c].slot, o)
                              \in call[c].unusable \union call[c].failed
    BY DEF FallbackInOrder
  <2>1. Rotating(call[c]) /\ call[c] \in Call
    BY DEF IInv, TypeOK
  <2>2. call[c].slot \in Offsets /\ call[c].at \in Offsets
          /\ call[c].left \subseteq Offsets
    BY <2>1 DEF Call
  <2>3. Asked(c) \notin call[c].failed
    <3> SUFFICES ASSUME Asked(c) \in call[c].failed PROVE FALSE
      OBVIOUS
    <3>1. PICK o \in Offsets :
            o < call[c].at /\ Asked(c) = KeyAt(call[c].slot, o)
      BY <2>1 DEF Rotating, FailedBehind
    <3>2. o = call[c].at
      BY <2>2, <3>1, RotationInjective DEF Asked
    <3> QED
      BY <2>2, <3>1, <3>2, PoolFacts DEF Offsets
  <2>4. Asked(c) \notin call[c].unusable
    BY <2>1 DEF Rotating, CandidatesAhead, Asked
  <2>5. ASSUME NEW o \in Offsets, o < call[c].at
        PROVE  KeyAt(call[c].slot, o) \in call[c].unusable \union call[c].failed
    <3>1. o \notin call[c].left
      BY <2>1, <2>2, <2>5, PoolFacts DEF Rotating, CandidatesAhead, Offsets
    <3>2. o # call[c].at
      BY <2>2, <2>5, PoolFacts DEF Offsets
    <3> QED
      BY <2>1, <3>1, <3>2 DEF Rotating, Accounted
  <2> QED
    BY <2>3, <2>4, <2>5
<1> QED
  BY <1>1, Invariance, PTL

\* A call that gives up has been through all the keys it could use.
LEMMA ExhaustedHasNoneLeft ==
  ASSUME IInv, [Next]_vars, NEW c \in Callers, call[c].stage = "asking",
         call'[c].outcome = "exhausted"
  PROVE  call[c].left = {}
<1> TypeOK /\ call[c].outcome = "over"
  BY DEF IInv, Rotating
<1>1. call'[c] # call[c]
  OBVIOUS
<1>2. ~UNCHANGED vars /\ ~Tick
  BY <1>1 DEF vars, Tick
<1>3. ASSUME NEW d \in Callers, Begin(d) PROVE FALSE
  <2>1. d # c
    BY <1>3 DEF Begin
  <2> QED
    BY <1>1, <1>3, <2>1, BeginInv
<1>4. ASSUME NEW d \in Callers, Answer(d) \/ Raise(d) PROVE FALSE
  <2>1. End(d, "over")
    BY <1>4 DEF Answer, Raise
  <2> QED
    BY <1>1, <2>1, EndKeepsOthers DEF Outcome
<1>5. ASSUME NEW d \in Callers, FailTransiently(d) \/ Reject(d)
      PROVE  call[c].left = {}
  <2>1. Rotate(d) /\ call[d].stage = "asking"
    BY <1>5 DEF FailTransiently, Reject
  <2>2. d = c
    BY <1>1, <2>1, RotateInv
  <2> QED
    BY <2>1, <2>2, RotateInv
<1> QED
  BY <1>2, <1>3, <1>4, <1>5 DEF Next, Respond

\* A call gives up for want of a key only with the whole pool spent.
THEOREM PoolExhausted == Spec => FailsOnlyWhenExhausted
<1>1. IInv /\ [Next]_vars =>
        [\A c \in Callers :
           call[c].stage = "asking" /\ call'[c].outcome = "exhausted" =>
             \A i \in 1 .. N :
               Pool[i] \in call[c].unusable \union call[c].failed
                             \union {Asked(c)}]_vars
  <2> SUFFICES ASSUME IInv, [Next]_vars, NEW c \in Callers,
                      call[c].stage = "asking",
                      call'[c].outcome = "exhausted", NEW i \in 1 .. N
               PROVE  Pool[i] \in call[c].unusable \union call[c].failed
                                    \union {Asked(c)}
    OBVIOUS
  <2>1. call[c].left = {}
    BY ExhaustedHasNoneLeft
  <2>2. Rotating(call[c]) /\ call[c].slot \in Offsets
    BY DEF IInv, TypeOK, Call
  <2>3. PICK o \in Offsets : KeyAt(call[c].slot, o) = Pool[i]
    BY <2>2, RotationComplete
  <2> QED
    BY <2>1, <2>2, <2>3 DEF Rotating, Accounted, Asked
<1> QED
  BY <1>1, Invariance, PTL DEF Spec, FailsOnlyWhenExhausted

\* A key the provider has rejected is no candidate of a later call.
THEOREM RejectedForGood == Spec => RejectedStayOut
<1>1. IInv /\ [Next]_vars =>
        [\A c \in Callers :
           call[c].stage = "idle" /\ call'[c].stage = "asking" =>
             \A o \in call'[c].left \union {call'[c].at} :
               KeyAt(call'[c].slot, o) \notin rejected]_vars
  <2> SUFFICES ASSUME IInv, [Next]_vars, NEW c \in Callers,
                      call[c].stage = "idle", call'[c].stage = "asking",
                      NEW o \in call'[c].left \union {call'[c].at}
               PROVE  KeyAt(call'[c].slot, o) \notin rejected
    OBVIOUS
  <2> TypeOK
    BY DEF IInv
  <2>1. call'[c] # call[c]
    OBVIOUS
  <2>2. ASSUME NEW d \in Callers, Respond(d) PROVE FALSE
    <3>1. call[d].stage = "asking"
      BY <2>2 DEF Respond, Answer, FailTransiently, Reject, Raise
    <3>2. Rotate(d) \/ End(d, "over")
      BY <2>2 DEF Respond, Answer, FailTransiently, Reject, Raise
    <3> QED
      BY <2>1, <3>1, <3>2, RotateInv, EndKeepsOthers DEF Outcome
  <2>3. ~UNCHANGED vars /\ ~Tick
    BY <2>1 DEF vars, Tick
  <2>4. PICK d \in Callers : Begin(d)
    BY <2>2, <2>3 DEF Next
  <2>5. d = c
    BY <2>1, <2>4, BeginInv
  <2>6. PICK slot \in Offsets :
          \/ Candidates(slot) = {} /\ End(c, "no_key")
          \/ Ask(c, slot, Candidates(slot), {k \in Keys : ~Usable(k)}, {})
    BY <2>4, <2>5 DEF Begin
  <2>7. ~End(c, "no_key")
    BY EndKeepsOthers DEF Outcome
  <2>8. PICK first \in First(Candidates(slot)) :
          call' = [call EXCEPT ![c] =
            [stage |-> "asking", slot |-> slot, at |-> first,
             left |-> Candidates(slot) \ {first},
             unusable |-> {k \in Keys : ~Usable(k)},
             failed |-> {}, outcome |-> "over"]]
    BY <2>6, <2>7 DEF Ask
  <2>9. call'[c].slot = slot /\ call'[c].left \union {call'[c].at}
                                   \subseteq Candidates(slot)
    BY <2>8 DEF First, TypeOK
  <2> QED
    BY <2>9 DEF Candidates, Usable, IInv
<1> QED
  BY <1>1, Invariance, PTL DEF Spec, RejectedStayOut
=============================================================================
