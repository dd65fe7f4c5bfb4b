-------------------- MODULE BackgroundPersistenceProofs --------------------
(***************************************************************************)
(* Proofs about BackgroundPersistence, for any number of sessions, writes  *)
(* and drains.                                                             *)
(***************************************************************************)
EXTENDS BackgroundPersistence, TLAPS

Queued == {"waiting", "writing"}
Past == {"writing", "returned", "gone"}

\* Tasks are numbered without a gap.
Numbered(s) == \A n \in Items : phase[s][n] = "unborn" <=> scheduled[s] < n

\* All that hold a lock or wait for one do so with the lock in the table.
OneLock(s) ==
  \A n \in Items :
    phase[s][n] \in Queued => table[s] # 0 /\ lockOf[s][n] = table[s]

\* The writes sent are the first ones.
SentFirst(s) == \A n \in Items : n <= sent[s] <=> phase[s][n] \in Past

\* Nothing has begun behind a task that has not.
BegunInOrder(s) ==
  \A m, n \in Items :
    m < n /\ phase[s][m] = "created" => phase[s][n] \in {"unborn", "created"}

OneWriter(s) ==
  \A m, n \in Items :
    phase[s][m] = "writing" /\ phase[s][n] = "writing" => m = n

LockUsed(s) == Active(s) = {} => table[s] = 0

SInv(s) ==
  /\ Numbered(s)
  /\ OneLock(s)
  /\ SentFirst(s)
  /\ BegunInOrder(s)
  /\ OneWriter(s)
  /\ LockUsed(s)

\* What was scheduled before a drain began has ended or is awaited.
Awaited(d) ==
  drain[d].stage = "waiting" =>
    \A s \in Sessions :
      /\ drain[d].upto[s] <= scheduled[s]
      /\ \A n \in Items : n <= drain[d].upto[s] =>
           <<s, n>> \in drain[d].tasks \/ phase[s][n] = "gone"

IInv ==
  /\ TypeOK
  /\ \A s \in Sessions : SInv(s)
  /\ \A d \in Drainers : Awaited(d)

-----------------------------------------------------------------------------
\* Before anything is scheduled the invariant holds.
LEMMA InitInv == Init => IInv
<1> SUFFICES ASSUME Init PROVE IInv
  OBVIOUS
<1>1. TypeOK
  BY PersistenceAssumption DEF Init, TypeOK, Phase, Drain, Items
<1>2. \A s \in Sessions : SInv(s)
  <2> SUFFICES ASSUME NEW s \in Sessions PROVE SInv(s)
    OBVIOUS
  <2>1. /\ \A n \in Items : phase[s][n] = "unborn"
        /\ scheduled[s] = 0 /\ sent[s] = 0 /\ table[s] = 0
    BY DEF Init
  <2> QED
    BY <2>1, PersistenceAssumption
       DEF SInv, Numbered, OneLock, SentFirst, BegunInOrder, OneWriter,
           LockUsed, Items, Past, Queued
<1>3. \A d \in Drainers : Awaited(d)
  BY DEF Init, Awaited
<1> QED
  BY <1>1, <1>2, <1>3 DEF IInv

\* A step of one session does not concern another.
LEMMA OtherSession ==
  ASSUME NEW s \in Sessions, SInv(s), phase'[s] = phase[s],
         scheduled'[s] = scheduled[s], lockOf'[s] = lockOf[s],
         table'[s] = table[s], sent'[s] = sent[s]
  PROVE  SInv(s)'
<1> QED
  BY DEF SInv, Numbered, OneLock, SentFirst, BegunInOrder, OneWriter,
         LockUsed, Active

\* How a task moves to another phase.
LEMMA MoveFacts ==
  ASSUME TypeOK, NEW s \in Sessions, NEW n \in Items, NEW to \in Phase,
         Move(s, n, to)
  PROVE  /\ phase' \in [Sessions -> [Items -> Phase]]
         /\ phase'[s][n] = to
         /\ \A m \in Items : m # n => phase'[s][m] = phase[s][m]
         /\ \A u \in Sessions : u # s => phase'[u] = phase[u]
<1> QED
  BY DEF TypeOK, Move

\* A drain waits for tasks that a step may end but not take back.
LEMMA AwaitedKept ==
  ASSUME TypeOK, NEW s \in Sessions, NEW n \in Items, NEW to \in Phase,
         phase[s][n] # "gone", Move(s, n, to),
         \A u \in Sessions : scheduled[u] <= scheduled'[u],
         scheduled' \in [Sessions -> 0 .. MaxItems],
         UNCHANGED drain, NEW d \in Drainers, Awaited(d)
  PROVE  Awaited(d)'
<1>1. \A u \in Sessions, m \in Items :
        phase[u][m] = "gone" => phase'[u][m] = "gone"
  BY MoveFacts
<1>2. drain[d].upto \in [Sessions -> 0 .. MaxItems]
  BY DEF TypeOK, Drain
<1> SUFFICES ASSUME drain[d].stage = "waiting", NEW u \in Sessions
             PROVE  /\ drain[d].upto[u] <= scheduled'[u]
                    /\ \A m \in Items : m <= drain[d].upto[u] =>
                         <<u, m>> \in drain[d].tasks \/ phase'[u][m] = "gone"
  BY DEF Awaited
<1>3. drain[d].upto[u] <= scheduled'[u]
  <2>1. /\ drain[d].upto[u] \in Int /\ scheduled[u] \in Int
        /\ scheduled'[u] \in Int
    BY <1>2, PersistenceAssumption DEF TypeOK
  <2> QED
    BY <2>1 DEF Awaited
<1> QED
  BY <1>1, <1>3 DEF Awaited

\* A task that goes on, or a new one, loses no task a drain awaits.
LEMMA MoveKeepsAwaited ==
  ASSUME IInv, NEW s \in Sessions, NEW n \in Items, NEW to \in Phase,
         phase[s][n] # "gone", Move(s, n, to),
         UNCHANGED <<scheduled, drain>>, NEW d \in Drainers
  PROVE  Awaited(d)'
<1>1. TypeOK /\ Awaited(d)
  BY DEF IInv
<1>2. \A u \in Sessions : scheduled[u] <= scheduled'[u]
  BY <1>1, PersistenceAssumption DEF TypeOK
<1> QED
  BY <1>1, <1>2, AwaitedKept DEF TypeOK

-----------------------------------------------------------------------------
\* One step per action.

\* schedule: the new task is the last one of its session and not yet begun.
LEMMA ScheduleInv ==
  ASSUME IInv, NEW s \in Sessions, Schedule(s)
  PROVE  IInv'
<1> DEFINE n == scheduled[s] + 1
<1> TypeOK
  BY DEF IInv
<1>1. n \in Items /\ scheduled[s] \in 0 .. MaxItems /\ sent[s] \in Nat
  BY PersistenceAssumption DEF Schedule, TypeOK, Items
<1>2. Move(s, n, "created") /\ "created" \in Phase /\ phase[s][n] = "unborn"
  BY <1>1, PersistenceAssumption DEF Schedule, Phase, IInv, SInv, Numbered, Items
<1>3. /\ phase' \in [Sessions -> [Items -> Phase]]
      /\ phase'[s][n] = "created"
      /\ \A m \in Items : m # n => phase'[s][m] = phase[s][m]
      /\ \A u \in Sessions : u # s => phase'[u] = phase[u]
  BY <1>1, <1>2, MoveFacts
<1>4. /\ scheduled' \in [Sessions -> 0 .. MaxItems]
      /\ scheduled'[s] = n
      /\ \A u \in Sessions : u # s => scheduled'[u] = scheduled[u]
  <2>1. scheduled' = [scheduled EXCEPT ![s] = n]
    BY DEF Schedule
  <2>2. n \in 0 .. MaxItems
    BY <1>1, PersistenceAssumption DEF Items
  <2> QED
    BY <2>1, <2>2 DEF TypeOK
<1>5. TypeOK'
  BY <1>3, <1>4 DEF Schedule, TypeOK, locks
<1>6. ASSUME NEW u \in Sessions PROVE SInv(u)'
  <2>1. CASE u # s
    BY <1>3, <1>4, <2>1, OtherSession DEF IInv, Schedule, locks
  <2>2. CASE u = s
    <3> SInv(s)
      BY DEF IInv
    <3>0. ASSUME NEW m \in Items
          PROVE  phase'[s][m] = "unborn" <=> scheduled'[s] < m
      <4>1. phase[s][m] = "unborn" <=> scheduled[s] < m
        BY DEF SInv, Numbered
      <4>2. m \in Int /\ scheduled[s] \in Int
        BY <1>1 DEF Items
      <4>3. scheduled'[s] = scheduled[s] + 1
        BY <1>4
      <4>4. m # n => phase'[s][m] = phase[s][m]
        BY <1>3
      <4> QED
        BY <1>3, <4>1, <4>2, <4>3, <4>4
    <3>1. Numbered(s)'
      BY <3>0 DEF Numbered
    <3>2. OneLock(s)'
      BY <1>1, <1>3 DEF SInv, OneLock, Schedule, locks, Queued
    <3>3. SentFirst(s)'
      BY <1>1, <1>2, <1>3 DEF SInv, SentFirst, Schedule, Past
    <3>4. BegunInOrder(s)'
      <4> SUFFICES ASSUME NEW m \in Items, NEW k \in Items, m < k,
                          phase'[s][m] = "created"
                   PROVE  phase'[s][k] \in {"unborn", "created"}
        BY DEF BegunInOrder
      <4>1. CASE m = n
        <5>1. scheduled'[s] < k
          BY <1>4, <4>1
        <5> QED
          BY <3>0, <5>1
      <4>2. CASE m # n
        BY <1>3, <4>2 DEF SInv, BegunInOrder
      <4> QED
        BY <4>1, <4>2
    <3>5. OneWriter(s)'
      BY <1>1, <1>3 DEF SInv, OneWriter
    <3>6. LockUsed(s)'
      BY <1>1, <1>3 DEF LockUsed, Active, Tracked
    <3> QED
      BY <2>2, <3>1, <3>2, <3>3, <3>4, <3>5, <3>6 DEF SInv
  <2> QED
    BY <2>1, <2>2
<1>7. ASSUME NEW d \in Drainers PROVE Awaited(d)'
  <2>1. \A u \in Sessions : scheduled[u] <= scheduled'[u]
    BY <1>1, <1>4, PersistenceAssumption DEF TypeOK
  <2> QED
    BY <1>1, <1>2, <1>4, <2>1, AwaitedKept DEF IInv, Schedule
<1> QED
  BY <1>5, <1>6, <1>7 DEF IInv

\* What holds of the lock a task asks for: with nobody holding or wanting it,
\* no task of the session does.
LEMMA FreeLock ==
  ASSUME TypeOK, NEW s \in Sessions, OneLock(s),
         ~Held(s, SessionLock(s)), ~Wanted(s, SessionLock(s))
  PROVE  \A m \in Items : phase[s][m] \notin Queued
<1> SUFFICES ASSUME NEW m \in Items, phase[s][m] \in Queued PROVE FALSE
  OBVIOUS
<1>1. table[s] # 0 /\ lockOf[s][m] = table[s]
  BY DEF OneLock
<1>2. SessionLock(s) = table[s]
  BY <1>1 DEF SessionLock
<1> QED
  BY <1>1, <1>2 DEF Held, Wanted, Queued

\* The next write to be sent is that of the first task not past.
LEMMA NextIsFirst ==
  ASSUME IInv, NEW s \in Sessions, NEW n \in Items, phase[s][n] \notin Past,
         \A m \in Items : m < n => phase[s][m] \in Past
  PROVE  sent[s] + 1 = n
<1>1. sent[s] \in Nat /\ sent[s] <= MaxItems /\ MaxItems \in Nat
        /\ n \in 1 .. MaxItems
  BY PersistenceAssumption DEF IInv, TypeOK, Items
<1>2. ~(n <= sent[s])
  BY DEF IInv, SInv, SentFirst
<1>3. sent[s] + 1 < n => FALSE
  <2> SUFFICES ASSUME sent[s] + 1 < n PROVE FALSE
    OBVIOUS
  <2>1. sent[s] + 1 \in Items
    BY <1>1 DEF Items
  <2>2. phase[s][sent[s] + 1] \in Past
    BY <2>1
  <2>3. sent[s] + 1 <= sent[s]
    BY <2>1, <2>2 DEF IInv, SInv, SentFirst
  <2> QED
    BY <1>1, <2>3
<1> QED
  BY <1>1, <1>2, <1>3

\* A task that sends its write.
LEMMA WriteInv ==
  ASSUME IInv, NEW s \in Sessions, NEW n \in Items,
         phase[s][n] \in {"created", "waiting"}, Write(s, n),
         \A m \in Items : m < n => phase[s][m] \in Past,
         \A m \in Items : phase[s][m] # "writing"
  PROVE  /\ sent' \in [Sessions -> 0 .. MaxItems] /\ sent'[s] = n
         /\ sent[s] + 1 = n
         /\ \A u \in Sessions : u # s => sent'[u] = sent[u]
         /\ SentFirst(s)' /\ BegunInOrder(s)' /\ OneWriter(s)'
<1> TypeOK
  BY DEF IInv
<1>0. sent[s] + 1 = n
  BY NextIsFirst DEF Past
<1>1. /\ phase'[s][n] = "writing"
      /\ \A m \in Items : m # n => phase'[s][m] = phase[s][m]
  BY MoveFacts DEF Write, Phase
<1>2. /\ sent' \in [Sessions -> 0 .. MaxItems] /\ sent'[s] = n
      /\ \A u \in Sessions : u # s => sent'[u] = sent[u]
  <2>1. sent' = [sent EXCEPT ![s] = n]
    BY <1>0 DEF Write
  <2>2. n \in 0 .. MaxItems
    BY PersistenceAssumption DEF Items
  <2> QED
    BY <2>1, <2>2 DEF TypeOK
<1>3. ASSUME NEW m \in Items PROVE m <= sent'[s] <=> phase'[s][m] \in Past
  <2>1. m <= sent[s] <=> phase[s][m] \in Past
    BY DEF IInv, SInv, SentFirst
  <2>2. m \in Int /\ n \in Int /\ sent[s] \in Int
    BY PersistenceAssumption DEF Items, TypeOK
  <2>3. CASE m = n
    BY <1>1, <1>2, <2>2, <2>3 DEF Past
  <2>4. CASE m # n
    BY <1>0, <1>1, <1>2, <2>1, <2>2, <2>4
  <2> QED
    BY <2>3, <2>4
<1>4. SentFirst(s)'
  BY <1>3 DEF SentFirst
<1>5. BegunInOrder(s)'
  <2> SUFFICES ASSUME NEW m \in Items, NEW k \in Items, m < k,
                      phase'[s][m] = "created"
               PROVE  phase'[s][k] \in {"unborn", "created"}
    BY DEF BegunInOrder
  <2>1. m # n /\ phase[s][m] = "created"
    BY <1>1
  <2>2. ~(m < n)
    BY <2>1 DEF Past
  <2>3. k # n
    BY <2>2
  <2> QED
    BY <1>1, <2>1, <2>3 DEF IInv, SInv, BegunInOrder
<1>6. OneWriter(s)'
  BY <1>1 DEF OneWriter
<1> QED
  BY <1>0, <1>2, <1>4, <1>5, <1>6

\* A task that begins takes the lock at once when it is free and unwanted, and
\* waits otherwise.
LEMMA StartInv ==
  ASSUME IInv, NEW s \in Sessions, NEW n \in Items, Start(s, n)
  PROVE  IInv'
<1> TypeOK /\ SInv(s)
  BY DEF IInv
<1>1. /\ phase[s][n] = "created" /\ table' = [table EXCEPT ![s] = SessionLock(s)]
      /\ lockOf' = [lockOf EXCEPT ![s][n] = SessionLock(s)]
      /\ UNCHANGED <<scheduled, drain>>
  BY DEF Start
<1>2. SessionLock(s) \in Nat /\ SessionLock(s) # 0
  BY DEF SessionLock, TypeOK
<1>3. PICK to \in {"waiting", "writing"} : Move(s, n, to)
  BY DEF Start, Write
<1>4. /\ phase' \in [Sessions -> [Items -> Phase]]
      /\ phase'[s][n] = to
      /\ \A m \in Items : m # n => phase'[s][m] = phase[s][m]
      /\ \A u \in Sessions : u # s => phase'[u] = phase[u]
  BY <1>3, MoveFacts DEF Phase
<1>5. /\ table' \in [Sessions -> Nat] /\ table'[s] = SessionLock(s)
      /\ \A u \in Sessions : u # s => table'[u] = table[u]
  BY <1>1, <1>2 DEF TypeOK
<1>6. /\ lockOf' \in [Sessions -> [Items -> Nat]]
      /\ lockOf'[s][n] = SessionLock(s)
      /\ \A m \in Items : m # n => lockOf'[s][m] = lockOf[s][m]
      /\ \A u \in Sessions : u # s => lockOf'[u] = lockOf[u]
  BY <1>1, <1>2 DEF TypeOK
<1>7. made' \in [Sessions -> Nat]
  BY DEF Start, TypeOK
<1>8. OneLock(s)'
  <2> SUFFICES ASSUME NEW m \in Items, phase'[s][m] \in Queued
               PROVE  table'[s] # 0 /\ lockOf'[s][m] = table'[s]
    BY DEF OneLock
  <2>1. CASE m = n
    BY <1>2, <1>5, <1>6, <2>1
  <2>2. CASE m # n
    <3>1. table[s] # 0 /\ lockOf[s][m] = table[s]
      BY <1>4, <2>2 DEF SInv, OneLock
    <3> QED
      BY <1>5, <1>6, <2>2, <3>1 DEF SessionLock
  <2> QED
    BY <2>1, <2>2
<1>9. Numbered(s)'
  BY <1>1, <1>4 DEF SInv, Numbered
<1>10. LockUsed(s)'
  BY <1>3, <1>4 DEF LockUsed, Active, Tracked
<1>11. /\ sent' \in [Sessions -> 0 .. MaxItems]
       /\ \A u \in Sessions : u # s => sent'[u] = sent[u]
       /\ SentFirst(s)' /\ BegunInOrder(s)' /\ OneWriter(s)'
  <2>1. CASE Move(s, n, "waiting") /\ UNCHANGED sent
    <3>1. phase'[s][n] = "waiting"
      BY <2>1, MoveFacts DEF Phase
    <3>2. SentFirst(s)'
      BY <1>1, <1>4, <2>1, <3>1 DEF SInv, SentFirst, Past
    <3>3. BegunInOrder(s)'
      BY <1>1, <1>4, <3>1 DEF SInv, BegunInOrder, Start
    <3>4. OneWriter(s)'
      BY <1>4, <3>1 DEF SInv, OneWriter
    <3> QED
      BY <2>1, <3>2, <3>3, <3>4 DEF TypeOK
  <2>2. CASE /\ ~Held(s, SessionLock(s)) /\ ~Wanted(s, SessionLock(s))
             /\ Write(s, n)
    <3>1. \A m \in Items : phase[s][m] \notin Queued
      BY <2>2, FreeLock DEF SInv
    <3>2. \A m \in Items : m < n => phase[s][m] \in Past
      <4> SUFFICES ASSUME NEW m \in Items, m < n PROVE phase[s][m] \in Past
        OBVIOUS
      <4>1. phase[s][m] # "created"
        BY DEF Start
      <4>2. phase[s][m] # "unborn"
        <5>1. ~(scheduled[s] < n)
          BY <1>1 DEF SInv, Numbered
        <5>2. ~(scheduled[s] < m)
          BY <5>1, PersistenceAssumption DEF TypeOK, Items
        <5> QED
          BY <5>2 DEF SInv, Numbered
      <4>3. phase[s][m] \in Phase
        BY DEF TypeOK
      <4> QED
        BY <3>1, <4>1, <4>2, <4>3 DEF Phase, Past, Queued
    <3> QED
      BY <1>1, <2>2, <3>1, <3>2, WriteInv DEF Queued
  <2> QED
    BY <2>1, <2>2 DEF Start
<1>12. TypeOK'
  BY <1>1, <1>4, <1>5, <1>6, <1>7, <1>11 DEF TypeOK
<1>13. ASSUME NEW u \in Sessions PROVE SInv(u)'
  <2>1. CASE u # s
    BY <1>1, <1>4, <1>5, <1>6, <1>11, <2>1, OtherSession DEF IInv
  <2>2. CASE u = s
    BY <1>8, <1>9, <1>10, <1>11, <2>2 DEF SInv
  <2> QED
    BY <2>1, <2>2
<1>14. ASSUME NEW d \in Drainers PROVE Awaited(d)'
  BY <1>1, <1>3, MoveKeepsAwaited DEF Phase
<1> QED
  BY <1>12, <1>13, <1>14 DEF IInv

\* The oldest task that waits gets the free lock: nobody else writes.
LEMMA AcquireInv ==
  ASSUME IInv, NEW s \in Sessions, NEW n \in Items, Acquire(s, n)
  PROVE  /\ IInv'
         /\ sent[s] + 1 = n /\ sent'[s] = n
         /\ \A m \in Items : phase[s][m] # "writing"
<1> TypeOK /\ SInv(s)
  BY DEF IInv
<1>1. /\ phase[s][n] = "waiting" /\ Write(s, n)
      /\ UNCHANGED <<scheduled, lockOf, table, made, drain>>
  BY DEF Acquire, locks
<1>2. lockOf[s][n] = table[s]
  BY <1>1 DEF SInv, OneLock, Queued
<1>3. \A m \in Items : phase[s][m] # "writing"
  BY <1>2 DEF Acquire, Held, SInv, OneLock, Queued
<1>4. \A m \in Items : m < n => phase[s][m] \in Past
  <2> SUFFICES ASSUME NEW m \in Items, m < n PROVE phase[s][m] \in Past
    OBVIOUS
  <2>1. phase[s][m] # "created"
    BY <1>1 DEF SInv, BegunInOrder
  <2>2. phase[s][m] # "waiting"
    BY <1>2 DEF Acquire, SInv, OneLock, Queued
  <2>3. phase[s][m] # "unborn"
    <3>1. ~(scheduled[s] < n)
      BY <1>1 DEF SInv, Numbered
    <3>2. ~(scheduled[s] < m)
      BY <3>1, PersistenceAssumption DEF TypeOK, Items
    <3> QED
      BY <3>2 DEF SInv, Numbered
  <2>4. phase[s][m] \in Phase
    BY DEF TypeOK
  <2> QED
    BY <2>1, <2>2, <2>3, <2>4 DEF Phase, Past
<1>5. /\ sent' \in [Sessions -> 0 .. MaxItems] /\ sent'[s] = n
      /\ sent[s] + 1 = n
      /\ \A u \in Sessions : u # s => sent'[u] = sent[u]
      /\ SentFirst(s)' /\ BegunInOrder(s)' /\ OneWriter(s)'
  BY <1>1, <1>3, <1>4, WriteInv
<1>6. /\ phase' \in [Sessions -> [Items -> Phase]]
      /\ phase'[s][n] = "writing"
      /\ \A m \in Items : m # n => phase'[s][m] = phase[s][m]
      /\ \A u \in Sessions : u # s => phase'[u] = phase[u]
  BY <1>1, MoveFacts DEF Phase, Write
<1>7. TypeOK'
  BY <1>1, <1>5, <1>6 DEF TypeOK
<1>8. Numbered(s)' /\ OneLock(s)' /\ LockUsed(s)'
  <2>1. Numbered(s)'
    BY <1>1, <1>6 DEF SInv, Numbered
  <2>2. OneLock(s)'
    BY <1>1, <1>6 DEF SInv, OneLock, Queued
  <2>3. LockUsed(s)'
    BY <1>6 DEF LockUsed, Active, Tracked
  <2> QED
    BY <2>1, <2>2, <2>3
<1>9. ASSUME NEW u \in Sessions PROVE SInv(u)'
  <2>1. CASE u # s
    BY <1>1, <1>5, <1>6, <2>1, OtherSession DEF IInv
  <2>2. CASE u = s
    BY <1>5, <1>8, <2>2 DEF SInv
  <2> QED
    BY <2>1, <2>2
<1>10. ASSUME NEW d \in Drainers PROVE Awaited(d)'
  BY <1>1, MoveKeepsAwaited DEF Phase, Write
<1> QED
  BY <1>3, <1>5, <1>7, <1>9, <1>10 DEF IInv

\* A write that returns releases the lock of its task.
LEMMA ReturnInv ==
  ASSUME IInv, NEW s \in Sessions, NEW n \in Items, Return(s, n)
  PROVE  IInv'
<1> TypeOK /\ SInv(s)
  BY DEF IInv
<1>1. /\ phase[s][n] = "writing" /\ Move(s, n, "returned")
      /\ UNCHANGED <<scheduled, lockOf, table, made, sent, drain>>
  BY DEF Return, locks
<1>2. /\ phase' \in [Sessions -> [Items -> Phase]]
      /\ phase'[s][n] = "returned"
      /\ \A m \in Items : m # n => phase'[s][m] = phase[s][m]
      /\ \A u \in Sessions : u # s => phase'[u] = phase[u]
  BY <1>1, MoveFacts DEF Phase
<1>3. TypeOK'
  BY <1>1, <1>2 DEF TypeOK
<1>4. SInv(s)'
  <2>1. Numbered(s)'
    BY <1>1, <1>2 DEF SInv, Numbered
  <2>2. OneLock(s)'
    BY <1>1, <1>2 DEF SInv, OneLock, Queued
  <2>3. SentFirst(s)'
    BY <1>1, <1>2 DEF SInv, SentFirst, Past
  <2>4. BegunInOrder(s)'
    BY <1>1, <1>2 DEF SInv, BegunInOrder
  <2>5. OneWriter(s)'
    BY <1>1, <1>2 DEF SInv, OneWriter
  <2>6. LockUsed(s)'
    BY <1>2 DEF LockUsed, Active, Tracked
  <2> QED
    BY <2>1, <2>2, <2>3, <2>4, <2>5, <2>6 DEF SInv
<1>5. ASSUME NEW u \in Sessions PROVE SInv(u)'
  BY <1>1, <1>2, <1>4, OtherSession DEF IInv
<1>6. ASSUME NEW d \in Drainers PROVE Awaited(d)'
  BY <1>1, MoveKeepsAwaited DEF Phase
<1> QED
  BY <1>3, <1>5, <1>6 DEF IInv

\* A finished task is forgotten, and with the last one the lock of the
\* session.
LEMMA TaskFinishedInv ==
  ASSUME IInv, NEW s \in Sessions, NEW n \in Items, TaskFinished(s, n)
  PROVE  IInv'
<1> TypeOK /\ SInv(s)
  BY DEF IInv
<1>1. /\ phase[s][n] = "returned" /\ Move(s, n, "gone")
      /\ table' = [table EXCEPT ![s] = IF DropLock(s, n) THEN 0 ELSE @]
      /\ UNCHANGED <<scheduled, lockOf, made, sent, drain>>
  BY DEF TaskFinished
<1>2. /\ phase' \in [Sessions -> [Items -> Phase]]
      /\ phase'[s][n] = "gone"
      /\ \A m \in Items : m # n => phase'[s][m] = phase[s][m]
      /\ \A u \in Sessions : u # s => phase'[u] = phase[u]
  BY <1>1, MoveFacts DEF Phase
<1>3. /\ table' \in [Sessions -> Nat]
      /\ table'[s] = IF DropLock(s, n) THEN 0 ELSE table[s]
      /\ \A u \in Sessions : u # s => table'[u] = table[u]
  BY <1>1 DEF TypeOK
<1>4. TypeOK'
  BY <1>1, <1>2, <1>3 DEF TypeOK
<1>5. SInv(s)'
  <2>1. Numbered(s)'
    BY <1>1, <1>2 DEF SInv, Numbered
  <2>2. OneLock(s)'
    <3> SUFFICES ASSUME NEW m \in Items, phase'[s][m] \in Queued
                 PROVE  table'[s] # 0 /\ lockOf'[s][m] = table'[s]
      BY DEF OneLock
    <3>1. m # n /\ phase[s][m] \in Queued
      BY <1>2 DEF Queued
    <3>2. m \in Active(s)
      BY <3>1 DEF Active, Queued, Tracked
    <3>3. ~DropLock(s, n)
      BY <3>1, <3>2 DEF DropLock
    <3> QED
      BY <1>1, <1>3, <3>1, <3>3 DEF SInv, OneLock
  <2>3. SentFirst(s)'
    BY <1>1, <1>2 DEF SInv, SentFirst, Past
  <2>4. BegunInOrder(s)'
    BY <1>1, <1>2 DEF SInv, BegunInOrder
  <2>5. OneWriter(s)'
    BY <1>1, <1>2 DEF SInv, OneWriter
  <2>6. LockUsed(s)'
    <3> SUFFICES ASSUME Active(s)' = {} PROVE table'[s] = 0
      BY DEF LockUsed
    <3>1. \A m \in Items : m # n => phase[s][m] \notin Tracked
      BY <1>2 DEF Active
    <3>2. Active(s) = {n}
      BY <1>1, <3>1 DEF Active, Tracked
    <3>3. ~Held(s, table[s])
      BY <1>1, <3>1 DEF Held, Tracked
    <3> QED
      BY <1>3, <3>2, <3>3 DEF DropLock
  <2> QED
    BY <2>1, <2>2, <2>3, <2>4, <2>5, <2>6 DEF SInv
<1>6. ASSUME NEW u \in Sessions PROVE SInv(u)'
  BY <1>1, <1>2, <1>3, <1>5, OtherSession DEF IInv
<1>7. ASSUME NEW d \in Drainers PROVE Awaited(d)'
  BY <1>1, MoveKeepsAwaited DEF Phase
<1> QED
  BY <1>4, <1>6, <1>7 DEF IInv

\* A drain awaits all that is not gone, and ends when all of it is.
LEMMA DrainInv ==
  ASSUME IInv, NEW d \in Drainers,
         EndDrain(d) \/ \E S \in Drainable : StartDrain(d, S)
  PROVE  IInv'
<1> TypeOK
  BY DEF IInv
<1>1. UNCHANGED <<scheduled, phase, lockOf, table, made, sent>>
  BY DEF EndDrain, StartDrain, tasks, locks
<1>2. \A s \in Sessions : SInv(s)'
  BY <1>1, OtherSession DEF IInv
<1>3. CASE EndDrain(d)
  <2>1. drain' = [drain EXCEPT ![d] = [drain[d] EXCEPT !.stage = "over"]]
    BY <1>3 DEF EndDrain
  <2>2. [drain[d] EXCEPT !.stage = "over"] \in Drain
    BY DEF TypeOK, Drain
  <2>3. drain' \in [Drainers -> Drain]
    BY <2>1, <2>2 DEF TypeOK
  <2>4. drain'[d].stage = "over"
          /\ \A e \in Drainers : e # d => drain'[e] = drain[e]
    BY <2>1, <2>2 DEF TypeOK
  <2>5. \A e \in Drainers : Awaited(e)'
    BY <1>1, <2>4 DEF IInv, Awaited
  <2> QED
    BY <1>1, <1>2, <2>3, <2>5 DEF IInv, TypeOK
<1>4. ASSUME NEW S \in Drainable, StartDrain(d, S) PROVE IInv'
  <2> DEFINE new == [stage |-> "waiting", tasks |-> Gather(S),
                     upto |-> [s \in Sessions |->
                                 IF s \in S THEN scheduled[s] ELSE 0]]
  <2>1. S \subseteq Sessions
    BY DEF Drainable
  <2>2. Gather(S) \in SUBSET (Sessions \X Items)
    BY <2>1 DEF Gather
  <2>3. new.upto \in [Sessions -> 0 .. MaxItems]
    BY PersistenceAssumption DEF TypeOK
  <2>4. new \in Drain
    BY <2>2, <2>3 DEF Drain
  <2>5. drain' \in [Drainers -> Drain] /\ drain'[d] = new
          /\ \A e \in Drainers : e # d => drain'[e] = drain[e]
    BY <1>4, <2>4 DEF StartDrain, TypeOK
  <2>6. Awaited(d)'
    <3> SUFFICES ASSUME NEW s \in Sessions
                 PROVE  /\ new.upto[s] <= scheduled[s]
                        /\ \A n \in Items : n <= new.upto[s] =>
                             <<s, n>> \in Gather(S) \/ phase[s][n] = "gone"
      BY <1>1, <2>5 DEF Awaited
    <3>1. scheduled[s] \in Nat
      BY DEF TypeOK
    <3>2. CASE s \notin S
      BY <3>1, <3>2 DEF Items
    <3>3. CASE s \in S
      <4>1. new.upto[s] = scheduled[s]
        BY <3>3
      <4> SUFFICES ASSUME NEW n \in Items, n <= scheduled[s]
                   PROVE  <<s, n>> \in Gather(S) \/ phase[s][n] = "gone"
        BY <3>1, <4>1
      <4>2. phase[s][n] # "unborn"
        <5>1. ~(scheduled[s] < n)
          BY <3>1 DEF Items
        <5> QED
          BY <5>1 DEF IInv, SInv, Numbered
      <4>3. phase[s][n] \in Phase
        BY DEF TypeOK
      <4>4. n \in Active(s) \/ phase[s][n] = "gone"
        BY <4>2, <4>3 DEF Active, Phase, Tracked
      <4> QED
        BY <3>3, <4>4 DEF Gather
    <3> QED
      BY <3>2, <3>3
  <2>7. \A e \in Drainers : Awaited(e)'
    BY <1>1, <2>5, <2>6 DEF IInv, Awaited
  <2> QED
    BY <1>1, <1>2, <2>5, <2>7 DEF IInv, TypeOK
<1> QED
  BY <1>3, <1>4

\* Every step preserves the invariant.
LEMMA NextInv == IInv /\ [Next]_vars => IInv'
<1> SUFFICES ASSUME IInv, [Next]_vars PROVE IInv'
  OBVIOUS
<1>1. CASE UNCHANGED vars
  <2>1. UNCHANGED <<scheduled, phase, lockOf, table, made, sent, drain>>
    BY <1>1 DEF vars, tasks, locks
  <2>2. \A s \in Sessions : SInv(s)'
    BY <2>1, OtherSession DEF IInv
  <2> QED
    BY <2>1, <2>2 DEF IInv, TypeOK, Awaited
<1> QED
  BY <1>1, ScheduleInv, StartInv, AcquireInv, ReturnInv, TaskFinishedInv,
     DrainInv DEF Next, TaskStep

\* The inductive invariant: one lock per session however often it is made
\* anew, and tasks that begin, take it and end in the order of their numbers.
THEOREM Invariance == Spec => []IInv
<1> QED
  BY InitInv, NextInv, PTL DEF Spec
-----------------------------------------------------------------------------
\* The theorems.

\* Tasks, locks and drains keep their types.
THEOREM TypeCorrect == Spec => []TypeOK
<1>1. IInv => TypeOK
  BY DEF IInv
<1> QED
  BY <1>1, Invariance, PTL

\* However turns and their callbacks interleave, a session that has nothing
\* pending has no entry in the table of locks.
THEOREM LocksAreDropped == Spec => []NoLockLeftBehind
<1>1. IInv => NoLockLeftBehind
  BY DEF IInv, SInv, LockUsed, NoLockLeftBehind
<1> QED
  BY <1>1, Invariance, PTL

\* A drain that returns has flushed what was scheduled before it.
THEOREM DrainsFlush == Spec => DrainFlushes
<1>1. IInv /\ [Next]_vars =>
        [\A d \in Drainers, s \in Sessions :
           drain[d].stage = "waiting" /\ drain'[d].stage = "over" =>
             /\ drain[d].upto[s] <= sent[s]
             /\ \A n \in 1 .. drain[d].upto[s] : phase[s][n] # "writing"]_vars
  <2> SUFFICES ASSUME IInv, [Next]_vars, NEW d \in Drainers,
                      NEW s \in Sessions, drain[d].stage = "waiting",
                      drain'[d].stage = "over"
               PROVE  /\ drain[d].upto[s] <= sent[s]
                      /\ \A n \in 1 .. drain[d].upto[s] :
                           phase[s][n] # "writing"
    OBVIOUS
  <2> TypeOK
    BY DEF IInv
  <2>1. drain' # drain
    OBVIOUS
  <2>2. PICK e \in Drainers :
          EndDrain(e) \/ \E S \in Drainable : StartDrain(e, S)
    BY <2>1 DEF Next, TaskStep, Schedule, Start, Acquire, Return,
                TaskFinished, vars
  <2>3. e = d /\ EndDrain(d)
    BY <2>2 DEF EndDrain, StartDrain, TypeOK
  <2>4. drain[d].upto[s] \in 0 .. MaxItems
    BY DEF TypeOK, Drain
  <2>5. \A n \in Items : n <= drain[d].upto[s] => phase[s][n] = "gone"
    BY <2>3 DEF EndDrain, IInv, Awaited
  <2>6. 1 .. drain[d].upto[s] \subseteq Items
    BY <2>4, PersistenceAssumption DEF Items
  <2>7. \A n \in 1 .. drain[d].upto[s] : phase[s][n] = "gone"
    BY <2>4, <2>5, <2>6
  <2>8. drain[d].upto[s] <= sent[s]
    <3>1. sent[s] \in Nat
      BY DEF TypeOK
    <3>2. CASE drain[d].upto[s] = 0
      BY <3>1, <3>2
    <3>3. CASE drain[d].upto[s] # 0
      <4>1. drain[d].upto[s] \in 1 .. drain[d].upto[s]
        BY <2>4, <3>3
      <4> QED
        BY <2>6, <2>7, <4>1 DEF IInv, SInv, SentFirst, Past
    <3> QED
      BY <3>2, <3>3
  <2> QED
    BY <2>7, <2>8
<1> QED
  BY <1>1, Invariance, PTL DEF Spec, DrainFlushes

Busy == [s \in Sessions |-> \E n \in Items : phase[s][n] = "writing"]

\* A write that is sent is the next one of its session, and the only one.
LEMMA SendIsNext ==
  ASSUME IInv, NEW s \in Sessions, NEW n \in Items,
         Start(s, n) \/ Acquire(s, n), Write(s, n)
  PROVE  /\ \A m \in Items : phase[s][m] # "writing"
         /\ sent[s] + 1 = n
<1> TypeOK /\ SInv(s)
  BY DEF IInv
<1>1. CASE Acquire(s, n)
  BY <1>1, AcquireInv
<1>2. CASE Start(s, n)
  <2>1. phase'[s][n] = "writing"
    BY MoveFacts DEF Write, Phase
  <2>2. ~Move(s, n, "waiting")
    BY <2>1, MoveFacts DEF Phase
  <2>3. ~Held(s, SessionLock(s)) /\ ~Wanted(s, SessionLock(s))
    BY <1>2, <2>2 DEF Start
  <2>4. \A m \in Items : phase[s][m] \notin Queued
    BY <2>3, FreeLock DEF SInv
  <2>5. IInv'
    BY <1>2, StartInv
  <2>6. \A m \in Items : m < n => phase[s][m] \in Past
    <3> SUFFICES ASSUME NEW m \in Items, m < n PROVE phase[s][m] \in Past
      OBVIOUS
    <3>1. sent'[s] = sent[s] + 1 /\ sent[s] \in Nat
      BY DEF Write, TypeOK
    <3>2. n <= sent'[s]
      BY <2>1, <2>5 DEF IInv, SInv, SentFirst, Past
    <3>3. m <= sent[s]
      BY <3>1, <3>2, PersistenceAssumption DEF Items
    <3> QED
      BY <3>3 DEF SInv, SentFirst
  <2>7. phase[s][n] \notin Past
    BY <1>2 DEF Start, Past
  <2> QED
    BY <2>4, <2>6, <2>7, NextIsFirst DEF Queued
<1> QED
  BY <1>1, <1>2

\* The refinement: Schedule, the sending of a write and its answer are the
\* steps of TurnDelivery, everything about locks and drains is a stutter.
THEOREM DeliveryImplemented == Spec => ImplementsDelivery
<1>1. Init => Delivery!Init
  BY DEF Init, Delivery!Init
<1>2. IInv /\ [Next]_vars => [Delivery!Next]_(Delivery!vars)
  <2> SUFFICES ASSUME IInv, [Next]_vars
               PROVE  [Delivery!Next]_(Delivery!vars)
    OBVIOUS
  <2> TypeOK
    BY DEF IInv
  <2>1. ASSUME UNCHANGED <<scheduled, phase, sent>>
        PROVE  UNCHANGED Delivery!vars
    BY <2>1 DEF Delivery!vars
  <2>2. CASE UNCHANGED vars \/ \E d \in Drainers : EndDrain(d)
                 \/ \E S \in Drainable : StartDrain(d, S)
    BY <2>1, <2>2 DEF vars, tasks, EndDrain, StartDrain
  <2>3. ASSUME NEW s \in Sessions, NEW n \in Items, NEW to \in Phase,
               to # "writing", phase[s][n] # "writing", Move(s, n, to)
        PROVE  Busy' = Busy
    <3>1. \A u \in Sessions, m \in Items :
            phase'[u][m] = "writing" <=> phase[u][m] = "writing"
      BY <2>3, MoveFacts
    <3> QED
      BY <3>1 DEF Busy
  <2>4. ASSUME NEW s \in Sessions, Schedule(s)
        PROVE  Delivery!Schedule(s)
    <3>1. scheduled[s] + 1 \in Items /\ "created" \in Phase
      BY <2>4, PersistenceAssumption DEF Schedule, TypeOK, Items, Phase
    <3>2. phase[s][scheduled[s] + 1] = "unborn"
      BY <2>4, <3>1, PersistenceAssumption
         DEF IInv, SInv, Numbered, TypeOK, Items
    <3>3. Busy' = Busy
      BY <2>3, <2>4, <3>1, <3>2 DEF Schedule
    <3> QED
      BY <2>4, <3>3 DEF Schedule, Delivery!Schedule, Busy
  <2>5. ASSUME NEW s \in Sessions, NEW n \in Items,
               Start(s, n) \/ Acquire(s, n), Write(s, n)
        PROVE  Delivery!Send(s)
    <3>1. /\ \A m \in Items : phase[s][m] # "writing"
          /\ sent[s] + 1 = n
      BY <2>5, SendIsNext
    <3>2. sent[s] < scheduled[s]
      <4>1. ~(scheduled[s] < n)
        BY <2>5 DEF IInv, SInv, Numbered, Start, Acquire
      <4> QED
        BY <3>1, <4>1, PersistenceAssumption DEF TypeOK, Items
    <3>3. /\ phase'[s][n] = "writing"
          /\ \A u \in Sessions : u # s => phase'[u] = phase[u]
      BY <2>5, MoveFacts DEF Write, Phase
    <3>4. Busy' = [Busy EXCEPT ![s] = TRUE]
      BY <3>3 DEF Busy
    <3>5. ~Busy[s]
      BY <3>1 DEF Busy
    <3>6. UNCHANGED scheduled /\ sent' = [sent EXCEPT ![s] = @ + 1]
      BY <2>5 DEF Start, Acquire, Write
    <3> QED
      BY <3>2, <3>4, <3>5, <3>6 DEF Delivery!Send, Busy
  <2>6. ASSUME NEW s \in Sessions, NEW n \in Items, Start(s, n)
        PROVE  [Delivery!Next]_(Delivery!vars)
    <3>1. CASE Move(s, n, "waiting") /\ UNCHANGED sent
      <4>1. Busy' = Busy
        BY <2>3, <2>6, <3>1 DEF Start, Phase
      <4> QED
        BY <2>6, <3>1, <4>1 DEF Start, Delivery!vars, Busy
    <3>2. CASE Write(s, n)
      BY <2>5, <2>6, <3>2 DEF Delivery!Next
    <3> QED
      BY <2>6, <3>1, <3>2 DEF Start
  <2>7. ASSUME NEW s \in Sessions, NEW n \in Items, Acquire(s, n)
        PROVE  [Delivery!Next]_(Delivery!vars)
    BY <2>5, <2>7 DEF Acquire, Delivery!Next
  <2>8. ASSUME NEW s \in Sessions, NEW n \in Items, Return(s, n)
        PROVE  Delivery!Answer(s)
    <3>1. phase[s][n] = "writing" /\ Move(s, n, "returned")
            /\ UNCHANGED <<scheduled, sent>>
      BY <2>8 DEF Return
    <3>2. /\ phase'[s][n] = "returned"
          /\ \A m \in Items : m # n => phase'[s][m] = phase[s][m]
          /\ \A u \in Sessions : u # s => phase'[u] = phase[u]
      BY <3>1, MoveFacts DEF Phase
    <3>3. \A m \in Items : phase'[s][m] # "writing"
      BY <3>1, <3>2 DEF IInv, SInv, OneWriter
    <3>4. Busy[s] /\ Busy' = [Busy EXCEPT ![s] = FALSE]
      BY <3>1, <3>2, <3>3 DEF Busy
    <3> QED
      BY <3>1, <3>4 DEF Delivery!Answer, Busy
  <2>9. ASSUME NEW s \in Sessions, NEW n \in Items, TaskFinished(s, n)
        PROVE  [Delivery!Next]_(Delivery!vars)
    <3>1. Busy' = Busy
      BY <2>3, <2>9 DEF TaskFinished, Phase
    <3> QED
      BY <2>9, <3>1 DEF TaskFinished, Delivery!vars, Busy
  <2> QED
    BY <2>2, <2>4, <2>6, <2>7, <2>8, <2>9 DEF Next, TaskStep, Delivery!Next
<1> QED
  BY <1>1, <1>2, Invariance, PTL DEF Spec, ImplementsDelivery, Delivery!Spec
=============================================================================
