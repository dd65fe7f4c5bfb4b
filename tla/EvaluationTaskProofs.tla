------------------------ MODULE EvaluationTaskProofs ------------------------
(***************************************************************************)
(* Proofs about EvaluationTask, for every number of retries, turns,        *)
(* messages and faults.                                                    *)
(***************************************************************************)
EXTENDS EvaluationTask, TLAPS

\* Past the check, and up to the save.
Evaluating == worker.stage \in {"asking", "repairing", "saving"}

\* Only versions that have been persisted, and are not empty, are evaluated.
SavesBehind == \A v \in Versions : saves[v] > 0 => 0 < v /\ v <= transcript

LoadedBehind == worker.version <= transcript

\* The version at work is not evaluated yet, nor is any later one.
VersionFresh ==
  /\ Evaluating => \A v \in Versions : worker.version <= v => saves[v] = 0
  /\ worker.stage = "checking"
       => \A v \in Versions : worker.version < v => saves[v] = 0

\* A session in progress is not evaluated.
EvaluatedAfterward ==
  session = "IN_PROGRESS" => \A v \in Versions : saves[v] = 0

\* Why FailedIsUnevaluated holds: a failure is met before anything is saved.
FailingUnevaluated ==
  faults["call"] = 0 /\ worker.stage = "failing" => saves[transcript] = 0

IInv ==
  /\ TypeOK
  /\ SavesBehind
  /\ LoadedBehind
  /\ VersionFresh
  /\ EvaluatedAfterward
  /\ EvaluatedOnce
  /\ FailingUnevaluated
  /\ FailedIsUnevaluated

USE DEF Attempts, Versions, Ready, Stage, Key, Error, Worker, Resting

-----------------------------------------------------------------------------
\* The first state satisfies the invariant.
LEMMA InitInv == Init => IInv
<1> SUFFICES ASSUME Init PROVE IInv
  OBVIOUS
<1>1. TypeOK
  <2>1. worker \in Worker /\ worker.stage = "idle"
    BY TaskAssumption DEF Init
  <2>2. saves \in [Versions -> Nat] /\ queue \in [Attempts -> Nat]
    BY DEF Init
  <2>3. transcript \in Versions /\ queued \in 0 .. MaxQueued
          /\ faults \in [FaultKind -> Nat]
    BY TaskAssumption DEF Init
  <2> QED
    BY <2>1, <2>2, <2>3 DEF Init, TypeOK
<1>2. \A v \in Versions : saves[v] = 0
  BY DEF Init
<1>3. worker.stage = "idle" /\ worker.version = 0 /\ transcript = 0
        /\ session = "IN_PROGRESS"
  BY DEF Init
<1>4. SavesBehind /\ LoadedBehind /\ VersionFresh
  BY <1>2, <1>3 DEF SavesBehind, LoadedBehind, VersionFresh, Evaluating
<1>5. EvaluatedAfterward /\ EvaluatedOnce
  BY <1>2 DEF EvaluatedAfterward, EvaluatedOnce
<1>6. FailingUnevaluated /\ FailedIsUnevaluated
  BY <1>3 DEF FailingUnevaluated, FailedIsUnevaluated
<1> QED
  BY <1>1, <1>4, <1>5, <1>6 DEF IInv

\* A fault is counted.
LEMMA FaultTypes ==
  ASSUME faults \in [FaultKind -> Nat], NEW kind \in FaultKind, Fault(kind)
  PROVE  faults' \in [FaultKind -> Nat]
<1>1. faults' = [faults EXCEPT ![kind] = faults[kind] + 1]
  BY DEF Fault
<1>2. faults[kind] + 1 \in Nat
  OBVIOUS
<1> QED
  BY <1>1, <1>2

\* Every step keeps the types.
LEMMA TypeStep == TypeOK /\ [Next]_vars => TypeOK'
<1> SUFFICES ASSUME TypeOK, [Next]_vars PROVE TypeOK'
  OBVIOUS
<1> DEFINE Loaded(w) == w.stage \in {"checking", "asking", "repairing", "saving"}
                          => w.version > 0
<1>a. /\ session \in Ready \cup {"IN_PROGRESS"} /\ finished \in BOOLEAN
      /\ transcript \in Versions /\ lost \in BOOLEAN
  BY DEF TypeOK
<1>b. saves \in [Versions -> Nat] /\ queue \in [Attempts -> Nat]
  BY DEF TypeOK
<1>c. worker \in Worker /\ Loaded(worker)
  BY DEF TypeOK
<1>d. queued \in 0 .. MaxQueued /\ faults \in [FaultKind -> Nat]
  BY DEF TypeOK
<1>e. SUFFICES /\ session' \in Ready \cup {"IN_PROGRESS"} /\ finished' \in BOOLEAN
               /\ transcript' \in Versions /\ lost' \in BOOLEAN
               /\ saves' \in [Versions -> Nat] /\ queue' \in [Attempts -> Nat]
               /\ worker' \in Worker /\ Loaded(worker')
               /\ queued' \in 0 .. MaxQueued /\ faults' \in [FaultKind -> Nat]
  BY DEF TypeOK
<1> USE <1>a, <1>b, <1>c, <1>d, TaskAssumption DEF coreApi, broker
<1>1. CASE PersistTurn
  BY <1>1 DEF PersistTurn
<1>2. CASE FinishSession
  BY <1>2 DEF FinishSession
<1>3. CASE EnqueueFinalEvaluation
  BY <1>3 DEF EnqueueFinalEvaluation
<1>4. CASE \E r \in Attempts : TakeMessage(r)
  <2> PICK r \in Attempts : TakeMessage(r)
    BY <1>4
  <2>1. queue' \in [Attempts -> Nat]
    <3>1. queue[r] \in Nat /\ queue[r] > 0
      BY DEF TakeMessage
    <3>2. queue[r] - 1 \in Nat
      BY <3>1
    <3>3. queue' = [queue EXCEPT ![r] = queue[r] - 1]
      BY DEF TakeMessage
    <3> QED
      BY <3>2, <3>3
  <2>2. worker' = [stage |-> "loading", retries |-> r, version |-> 0,
                   key |-> "primary", error |-> "none"]
    BY DEF TakeMessage
  <2>3. worker' \in Worker /\ Loaded(worker')
    BY <2>2
  <2> QED
    BY <2>1, <2>3 DEF TakeMessage
<1>5. CASE LoadSource
  BY <1>5 DEF LoadSource, RetryOrFail, Fail
<1>6. CASE CheckEvaluated
  BY <1>6 DEF CheckEvaluated
<1>7. CASE AskModel
  BY <1>7 DEF AskModel, InvalidOutput, RateLimited, RetryOrFail, Fail
<1>8. CASE SaveEvaluation
  <2>1. saves[worker.version] + 1 \in Nat
    OBVIOUS
  <2>2. saves' = [saves EXCEPT ![worker.version] = saves[worker.version] + 1]
    BY <1>8 DEF SaveEvaluation, Saved
  <2>3. saves' \in [Versions -> Nat]
    BY <2>1, <2>2
  <2>4. worker' \in Worker /\ Loaded(worker')
    BY <1>8 DEF SaveEvaluation
  <2> QED
    BY <1>8, <2>3, <2>4 DEF SaveEvaluation, Saved
<1>9. CASE Retry
  <2> DEFINE n == worker.retries + 1
  <2>1. queue' \in [Attempts -> Nat]
    <3>1. queue' = [queue EXCEPT ![n] = queue[n] + 1]
      BY <1>9 DEF Retry
    <3>2. n \in Attempts => queue[n] + 1 \in Nat
      OBVIOUS
    <3> HIDE DEF n
    <3> QED
      BY <3>1, <3>2
  <2>2. worker' \in Worker /\ Loaded(worker')
    BY <1>9 DEF Retry
  <2> QED
    BY <1>9, <2>1, <2>2 DEF Retry
<1>10. CASE PersistFailure
  BY <1>10 DEF PersistFailure
<1>11. CASE Acknowledge
  BY <1>11 DEF Acknowledge
<1>12. CASE Crash
  <2>1. faults' \in [FaultKind -> Nat]
    BY <1>12, FaultTypes DEF Crash, FaultKind
  <2>2. queue' \in [Attempts -> Nat]
    <3>1. queue' = [queue EXCEPT ![worker.retries] = queue[worker.retries] + 1]
      BY <1>12 DEF Crash
    <3>2. queue[worker.retries] + 1 \in Nat
      OBVIOUS
    <3> QED
      BY <3>1, <3>2
  <2> QED
    BY <1>12, <2>1, <2>2 DEF Crash
<1>13. CASE LoseChild
  <2>1. faults' \in [FaultKind -> Nat]
    BY <1>13, FaultTypes DEF LoseChild, FaultKind
  <2> QED
    BY <1>13, <2>1 DEF LoseChild
<1>14. CASE CallFails
  <2>1. worker' \in Worker /\ Loaded(worker')
    BY <1>14 DEF CallFails, Fail
  <2>2. faults' \in [FaultKind -> Nat]
    BY <1>14, FaultTypes DEF CallFails, FaultKind
  <2>3. lost' \in BOOLEAN
    BY <1>14 DEF CallFails
  <2>4. saves' \in [Versions -> Nat]
          /\ session' \in Ready \cup {"IN_PROGRESS"}
    <3>1. CASE UNCHANGED <<session, saves>>
      BY <3>1
    <3>2. CASE Saved
      <4>1. saves[worker.version] + 1 \in Nat
        OBVIOUS
      <4>2. saves' = [saves EXCEPT ![worker.version] = saves[worker.version] + 1]
              /\ session' = "EVALUATED"
        BY <3>2 DEF Saved
      <4> QED
        BY <4>1, <4>2
    <3> QED
      BY <1>14, <3>1, <3>2 DEF CallFails
  <2> QED
    BY <1>14, <2>1, <2>2, <2>3, <2>4 DEF CallFails
<1>15. CASE UNCHANGED vars
  BY <1>15 DEF vars
<1> QED
  BY <1>1, <1>2, <1>3, <1>4, <1>5, <1>6, <1>7, <1>8, <1>9, <1>10, <1>11,
     <1>12, <1>13, <1>14, <1>15 DEF Next, TaskStep

\* Saving a version that is not evaluated yet.
LEMMA SavedOnce ==
  ASSUME TypeOK, Saved, saves[worker.version] = 0
  PROVE  \A v \in Versions :
           saves'[v] = IF v = worker.version THEN 1 ELSE saves[v]
<1>1. worker.version \in Versions /\ saves \in [Versions -> Nat]
  BY DEF TypeOK
<1>2. saves' = [saves EXCEPT ![worker.version] = 1]
  BY <1>1 DEF Saved
<1> QED
  BY <1>1, <1>2

\* A failed call is not forgotten.
LEMMA FaultsRemembered ==
  ASSUME TypeOK, [Next]_vars
  PROVE  faults'["call"] = 0 => faults["call"] = 0
<1>1. faults \in [FaultKind -> Nat]
  BY DEF TypeOK
<1>2. CASE CallFails
  BY <1>1, <1>2 DEF CallFails, Fault, FaultKind
<1>3. CASE Crash \/ LoseChild
  BY <1>1, <1>3 DEF Crash, LoseChild, Fault, FaultKind
<1>4. CASE PersistTurn \/ FinishSession \/ EnqueueFinalEvaluation \/ TaskStep
             \/ UNCHANGED vars
  BY <1>4
  DEF PersistTurn, FinishSession, EnqueueFinalEvaluation, TaskStep, vars,
      TakeMessage, LoadSource, CheckEvaluated, AskModel, SaveEvaluation, Retry,
      PersistFailure, Acknowledge
<1> QED
  BY <1>2, <1>3, <1>4 DEF Next

\* Every step keeps the invariant.
LEMMA InvStep == IInv /\ [Next]_vars => IInv'
<1> SUFFICES ASSUME IInv, [Next]_vars PROVE IInv'
  OBVIOUS
<1>a. TypeOK /\ TypeOK'
  BY TypeStep DEF IInv
<1>b. /\ saves \in [Versions -> Nat] /\ transcript \in Versions
      /\ worker \in Worker
  BY <1>a DEF TypeOK
<1>c. /\ SavesBehind /\ LoadedBehind /\ VersionFresh
      /\ EvaluatedAfterward /\ EvaluatedOnce
      /\ FailingUnevaluated /\ FailedIsUnevaluated
  BY DEF IInv
<1>d. SUFFICES /\ SavesBehind' /\ LoadedBehind' /\ VersionFresh'
               /\ EvaluatedAfterward' /\ EvaluatedOnce'
               /\ FailingUnevaluated' /\ FailedIsUnevaluated'
  BY <1>a DEF IInv
<1> USE TaskAssumption DEF coreApi, broker
<1>e. faults'["call"] = 0 => faults["call"] = 0
  BY <1>a, FaultsRemembered
\* A step of the worker alone.
<1>w. ASSUME UNCHANGED coreApi, worker'.version <= transcript,
             Evaluating' => \A v \in Versions :
                              worker'.version <= v => saves[v] = 0,
             worker'.stage = "checking"
               => \A v \in Versions : worker'.version < v => saves[v] = 0,
             faults["call"] = 0 /\ worker'.stage = "failing"
               => saves[transcript] = 0
      PROVE  /\ SavesBehind' /\ LoadedBehind' /\ VersionFresh'
             /\ EvaluatedAfterward' /\ EvaluatedOnce'
             /\ FailingUnevaluated' /\ FailedIsUnevaluated'
  <2>1. SavesBehind' /\ EvaluatedAfterward' /\ EvaluatedOnce'
    BY <1>c, <1>w DEF SavesBehind, EvaluatedAfterward, EvaluatedOnce
  <2>2. LoadedBehind' /\ VersionFresh'
    BY <1>w DEF LoadedBehind, VersionFresh
  <2>3. FailingUnevaluated' /\ FailedIsUnevaluated'
    BY <1>c, <1>e, <1>w DEF FailingUnevaluated, FailedIsUnevaluated
  <2> QED
    BY <2>1, <2>2, <2>3
\* The transcript at hand is not evaluated once its check has passed.
<1>f. Evaluating => saves[transcript] = 0 /\ saves[worker.version] = 0
  BY <1>b, <1>c DEF VersionFresh, LoadedBehind
<1>1. CASE PersistTurn
  <2>1. transcript' = transcript + 1 /\ transcript' \in Versions
    BY <1>1, <1>b DEF PersistTurn
  <2>2. UNCHANGED <<session, saves, worker>>
    BY <1>1 DEF PersistTurn
  <2>3. saves[transcript'] = 0
    BY <1>b, <1>c, <2>1 DEF SavesBehind
  <2>4. SavesBehind' /\ EvaluatedAfterward' /\ EvaluatedOnce'
    BY <1>b, <1>c, <2>1, <2>2 DEF SavesBehind, EvaluatedAfterward, EvaluatedOnce
  <2>5. LoadedBehind' /\ VersionFresh'
    BY <1>b, <1>c, <2>1, <2>2 DEF LoadedBehind, VersionFresh, Evaluating
  <2>6. FailingUnevaluated' /\ FailedIsUnevaluated'
    BY <2>2, <2>3 DEF FailingUnevaluated, FailedIsUnevaluated
  <2> QED
    BY <2>4, <2>5, <2>6
<1>2. CASE FinishSession
  <2>1. UNCHANGED <<transcript, saves, worker>>
          /\ session' \in {"COMPLETED", "TERMINATED"}
    BY <1>2 DEF FinishSession
  <2> QED
    BY <1>c, <1>e, <2>1
    DEF SavesBehind, LoadedBehind, VersionFresh, Evaluating, EvaluatedAfterward,
        EvaluatedOnce, FailingUnevaluated, FailedIsUnevaluated
<1>3. CASE EnqueueFinalEvaluation
  <2>1. UNCHANGED <<coreApi, worker>>
    BY <1>3 DEF EnqueueFinalEvaluation
  <2> QED
    BY <1>c, <1>w, <2>1
    DEF LoadedBehind, VersionFresh, Evaluating, FailingUnevaluated
<1>4. CASE \E r \in Attempts : TakeMessage(r)
  <2>1. worker'.version = 0 /\ worker'.stage = "loading" /\ UNCHANGED coreApi
    BY <1>4 DEF TakeMessage
  <2> QED
    BY <1>b, <1>w, <2>1 DEF Evaluating
<1>5. CASE LoadSource
  <2>0. UNCHANGED coreApi
    BY <1>5 DEF LoadSource
  <2>1. CASE session \notin Ready
    <3>1. session = "IN_PROGRESS"
      BY <2>1, <1>a DEF TypeOK
    <3>2. worker'.stage \in {"retrying", "failing"}
            /\ worker'.version = worker.version
      BY <2>1, <1>5, <1>b DEF LoadSource, RetryOrFail, Fail
    <3>3. saves[transcript] = 0
      BY <3>1, <1>b, <1>c DEF EvaluatedAfterward
    <3> QED
      BY <2>0, <3>2, <3>3, <1>c, <1>w DEF Evaluating, LoadedBehind
  <2>2. CASE session \in Ready /\ transcript = 0
    <3>0. Fail("permanent")
      BY <2>2, <1>5 DEF LoadSource
    <3>1. worker'.stage = "failing" /\ worker'.version = worker.version
      BY <3>0, <1>b DEF Fail
    <3>2. saves[transcript] = 0
      BY <2>2, <1>b, <1>c DEF SavesBehind
    <3> QED
      BY <2>0, <3>1, <3>2, <1>c, <1>w DEF Evaluating, LoadedBehind
  <2>3. CASE session \in Ready /\ transcript > 0
    <3>1. worker' = [worker EXCEPT !.stage = "checking", !.version = transcript]
      BY <2>3, <1>5 DEF LoadSource
    <3>2. worker'.stage = "checking" /\ worker'.version = transcript
      BY <3>1, <1>b
    <3>3. \A v \in Versions : transcript < v => saves[v] = 0
      BY <1>b, <1>c DEF SavesBehind
    <3> QED
      BY <2>0, <3>2, <3>3, <1>b, <1>w DEF Evaluating
  <2> QED
    BY <2>1, <2>2, <2>3, <1>b
<1>6. CASE CheckEvaluated
  <2>1. worker'.version = worker.version /\ UNCHANGED coreApi
    BY <1>6, <1>b DEF CheckEvaluated
  <2>2. worker'.stage = IF saves[worker.version] > 0 THEN "ending" ELSE "asking"
    BY <1>6, <1>b DEF CheckEvaluated
  <2>3. ASSUME Evaluating', NEW v \in Versions, worker.version <= v
        PROVE  saves[v] = 0
    <3>1. worker.version \in Versions /\ saves[worker.version] = 0
            /\ worker.stage = "checking"
      BY <2>2, <2>3, <1>6, <1>b DEF Evaluating, CheckEvaluated
    <3>2. CASE v = worker.version
      BY <3>1, <3>2
    <3>3. CASE v # worker.version
      BY <3>1, <3>3, <2>3, <1>b, <1>c DEF VersionFresh
    <3> QED
      BY <3>2, <3>3
  <2> QED
    BY <2>1, <2>2, <2>3, <1>c, <1>w DEF LoadedBehind
<1>7. CASE AskModel
  <2>1. worker'.version = worker.version /\ UNCHANGED coreApi
    BY <1>7, <1>b DEF AskModel, InvalidOutput, RateLimited, RetryOrFail, Fail
  <2>2. Evaluating
    BY <1>7 DEF AskModel, Evaluating
  <2>3. worker'.stage # "checking"
    BY <1>7, <1>b DEF AskModel, InvalidOutput, RateLimited, RetryOrFail, Fail
  <2> QED
    BY <2>1, <2>2, <2>3, <1>c, <1>f, <1>w DEF LoadedBehind, VersionFresh
<1>8. CASE SaveEvaluation
  <2>1. worker'.version = worker.version /\ worker'.stage = "ending"
    BY <1>8, <1>b DEF SaveEvaluation
  <2>2. session' = "EVALUATED" /\ transcript' = transcript
    BY <1>8 DEF SaveEvaluation, Saved
  <2>3. Evaluating /\ 0 < worker.version /\ Saved
    BY <1>8, <1>a DEF SaveEvaluation, Evaluating, TypeOK
  <2>4. \A v \in Versions :
          saves'[v] = IF v = worker.version THEN 1 ELSE saves[v]
    BY <2>3, <1>a, <1>f, SavedOnce
  <2>5. SavesBehind' /\ LoadedBehind' /\ EvaluatedOnce'
    BY <2>1, <2>2, <2>3, <2>4, <1>c DEF SavesBehind, LoadedBehind, EvaluatedOnce
  <2> QED
    BY <2>1, <2>2, <2>5
    DEF VersionFresh, Evaluating, EvaluatedAfterward, FailingUnevaluated,
        FailedIsUnevaluated
<1>9. CASE Retry
  <2>1. worker'.version = worker.version /\ worker'.stage = "ending"
          /\ UNCHANGED coreApi
    BY <1>9, <1>b DEF Retry
  <2> QED
    BY <2>1, <1>c, <1>w DEF Evaluating, LoadedBehind
<1>10. CASE PersistFailure
  <2>1. worker'.version = worker.version /\ worker'.stage = "ending"
          /\ session' = "EVALUATION_FAILED" /\ UNCHANGED <<transcript, saves>>
    BY <1>10, <1>b DEF PersistFailure
  <2>2. faults["call"] = 0 => saves[transcript] = 0
    BY <1>10, <1>c DEF PersistFailure, FailingUnevaluated
  <2> QED
    BY <2>1, <2>2, <1>c, <1>e
    DEF SavesBehind, LoadedBehind, VersionFresh, Evaluating, EvaluatedAfterward,
        EvaluatedOnce, FailingUnevaluated, FailedIsUnevaluated
<1>11. CASE Acknowledge \/ Crash \/ LoseChild
  <2>1. worker'.version = 0 /\ worker'.stage = "idle" /\ UNCHANGED coreApi
    BY <1>11 DEF Acknowledge, Crash, LoseChild
  <2> QED
    BY <2>1, <1>b, <1>w DEF Evaluating
<1>12. CASE CallFails
  <2>1. faults'["call"] # 0 /\ transcript' = transcript
    BY <1>12, <1>a DEF CallFails, Fault, FaultKind, TypeOK
  <2>2. worker'.version = worker.version
          /\ worker'.stage \in {"failing", "ending"}
    BY <1>12, <1>b DEF CallFails, Fail
  <2>3. CASE UNCHANGED <<session, saves>>
    BY <2>1, <2>2, <2>3, <1>c
    DEF SavesBehind, LoadedBehind, VersionFresh, Evaluating, EvaluatedAfterward,
        EvaluatedOnce, FailingUnevaluated, FailedIsUnevaluated
  <2>4. CASE worker.stage = "saving" /\ Saved
    <3>1. Evaluating /\ 0 < worker.version /\ session' = "EVALUATED"
      BY <2>4, <1>a DEF Saved, Evaluating, TypeOK
    <3>2. \A v \in Versions :
            saves'[v] = IF v = worker.version THEN 1 ELSE saves[v]
      BY <2>4, <3>1, <1>a, <1>f, SavedOnce
    <3>3. SavesBehind' /\ LoadedBehind' /\ EvaluatedOnce'
      BY <2>1, <2>2, <3>1, <3>2, <1>c
      DEF SavesBehind, LoadedBehind, EvaluatedOnce
    <3> QED
      BY <2>1, <2>2, <3>1, <3>3
      DEF VersionFresh, Evaluating, EvaluatedAfterward, FailingUnevaluated,
          FailedIsUnevaluated
  <2> QED
    BY <1>12, <2>3, <2>4 DEF CallFails
<1>13. CASE UNCHANGED vars
  <2>1. UNCHANGED <<coreApi, worker>>
    BY <1>13 DEF vars
  <2> QED
    BY <2>1, <1>c, <1>w
    DEF LoadedBehind, VersionFresh, Evaluating, FailingUnevaluated
<1> QED
  BY <1>1, <1>2, <1>3, <1>4, <1>5, <1>6, <1>7, <1>8, <1>9, <1>10, <1>11,
     <1>12, <1>13 DEF Next, TaskStep

-----------------------------------------------------------------------------
\* The inductive invariant of the evaluation task.
THEOREM Invariance == Spec => []IInv
  BY InitInv, InvStep, PTL DEF Spec

\* Type correctness, and that an empty transcript is never evaluated.
THEOREM TypeCorrect == Spec => []TypeOK
<1>1. IInv => TypeOK
  BY DEF IInv
<1> QED
  BY Invariance, <1>1, PTL

\* No transcript is evaluated twice, for any number of messages and faults of
\* every kind.
THEOREM NeverEvaluatedTwice == Spec => []EvaluatedOnce
<1>1. IInv => EvaluatedOnce
  BY DEF IInv
<1> QED
  BY Invariance, <1>1, PTL

\* As long as the Core API answers, a session marked failed is not evaluated,
\* wherever the worker or its process dies.
THEOREM FailuresAreReal == Spec => []FailedIsUnevaluated
<1>1. IInv => FailedIsUnevaluated
  BY DEF IInv
<1> QED
  BY Invariance, <1>1, PTL
=============================================================================
