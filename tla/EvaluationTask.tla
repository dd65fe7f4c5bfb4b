--------------------------- MODULE EvaluationTask ---------------------------
(***************************************************************************)
(* The final evaluation of one interview: a Celery task that the broker    *)
(* delivers at least once, run by one worker with one process.  It loads   *)
(* the session, skips a transcript that is evaluated already, asks the     *)
(* model, saves the result, and retries, or records a failure.             *)
(*                                                                         *)
(* A transcript and its violations stand for their hash: a version number, *)
(* 0 as long as no question can be scored.  Any turn, or any violation,    *)
(* makes another version.                                                  *)
(* Delays are arbitrary: neither the countdowns nor the visibility timeout *)
(* of the broker are counted.                                              *)
(***************************************************************************)
EXTENDS Integers

CONSTANTS
  MaxRetries,   \* max_retries of the task
  FallbackKey,  \* a fallback NVIDIA key is configured
  MaxFaults,    \* bound: faults of each kind, see Crash, LoseChild, CallFails
  MaxQueued,    \* bound: times the evaluation is enqueued
  MaxTurns      \* bound: turns persisted

FaultKind == {"crash", "child", "call"}

ASSUME TaskAssumption ==
  /\ MaxRetries \in Nat /\ FallbackKey \in BOOLEAN
  /\ MaxFaults \in [FaultKind -> Nat]
  /\ MaxQueued \in Nat /\ MaxTurns \in Nat

VARIABLES
  \* The Core API.
  session,     \* the session's status
  finished,    \* the engine has completed it, or policy has terminated it
  transcript,  \* the version persisted
  saves,       \* saves[v]: evaluations saved of version v
  \* The broker and the worker.
  queue,       \* queue[r]: messages with r retries behind them
  worker,      \* the task at work; its message is acknowledged when it ends
  lost,        \* a task has ended with nothing recorded
  \* Bounds used up.
  queued,
  faults       \* faults[k]: faults of kind k so far

coreApi == <<session, finished, transcript, saves>>
broker == <<queue, queued>>
vars == <<coreApi, broker, worker, lost, faults>>

Attempts == 0 .. MaxRetries
Versions == 0 .. MaxTurns
Ready == {"COMPLETED", "EVALUATED", "EVALUATION_FAILED", "TERMINATED"}
Stage == {"idle", "loading", "checking", "asking", "repairing", "saving",
          "retrying", "failing", "ending"}
\* The key NVIDIA is asked with, and the error caught.
Key == {"primary", "fallback"}
Error == {"none", "permanent", "transient", "unexpected"}
Worker == [stage : Stage, retries : Attempts, version : Versions, key : Key,
           error : Error]

Resting == [stage |-> "idle", retries |-> 0, version |-> 0, key |-> "primary",
            error |-> "none"]

Init ==
  /\ session = "IN_PROGRESS"
  /\ finished = FALSE
  /\ transcript = 0
  /\ saves = [v \in Versions |-> 0]
  /\ queue = [r \in Attempts |-> 0]
  /\ worker = Resting
  /\ lost = FALSE
  /\ queued = 0
  /\ faults = [k \in FaultKind |-> 0]

-----------------------------------------------------------------------------
\* The engine and the Core API.

\* Turns reach the Core API in the background; those of a terminated session
\* are flushed after its termination.
PersistTurn ==
  /\ transcript < MaxTurns
  /\ ~finished \/ session = "TERMINATED"
  /\ transcript' = transcript + 1
  /\ UNCHANGED <<session, finished, saves, broker, worker, lost, faults>>

FinishSession ==
  /\ ~finished
  /\ finished' = TRUE
  /\ session' \in {"COMPLETED", "TERMINATED"}
  /\ UNCHANGED <<transcript, saves, broker, worker, lost, faults>>

\* The workflow enqueues the evaluation before the session is completed, and
\* may do so again when a run fails before the task's id is checkpointed.
EnqueueFinalEvaluation ==
  /\ queued < MaxQueued
  /\ queued' = queued + 1
  /\ queue' = [queue EXCEPT ![0] = @ + 1]
  /\ UNCHANGED <<coreApi, worker, lost, faults>>

-----------------------------------------------------------------------------
\* Steps of the task: each ends with a call of the Core API, the model or the
\* broker.

TakeMessage(r) ==
  /\ worker.stage = "idle"
  /\ queue[r] > 0
  /\ queue' = [queue EXCEPT ![r] = @ - 1]
  /\ worker' = [Resting EXCEPT !.stage = "loading", !.retries = r]
  /\ UNCHANGED <<coreApi, queued, lost, faults>>

\* The error handlers of process_final_evaluation_task.
Fail(error) ==
  worker' = [worker EXCEPT !.stage = "failing", !.error = error]

\* Mutant: exhausted retries are not recorded.
FailSilently ==
  worker' = IF worker.retries < MaxRetries
            THEN [worker EXCEPT !.stage = "retrying", !.error = "transient"]
            ELSE [worker EXCEPT !.stage = "ending", !.error = "transient"]

RetryOrFail ==
  \/ /\ worker.retries < MaxRetries
     /\ worker' = [worker EXCEPT !.stage = "retrying", !.error = "transient"]
  \/ /\ worker.retries >= MaxRetries
     /\ Fail("transient")

\* Mutant: an empty transcript is evaluated.
LoadAnything ==
  /\ worker.stage = "loading"
  /\ \/ session \notin Ready /\ RetryOrFail
     \/ /\ session \in Ready
        /\ worker' = [worker EXCEPT !.stage = "checking",
                                    !.version = transcript]
  /\ UNCHANGED <<coreApi, broker, lost, faults>>

\* load_evaluation_source and build_evaluation_context.
LoadSource ==
  /\ worker.stage = "loading"
  /\ \/ session \notin Ready /\ RetryOrFail
     \/ session \in Ready /\ transcript = 0 /\ Fail("permanent")
     \/ /\ session \in Ready /\ transcript > 0
        /\ worker' = [worker EXCEPT !.stage = "checking",
                                    !.version = transcript]
  /\ UNCHANGED <<coreApi, broker, lost, faults>>

\* Mutant: a transcript evaluated already is evaluated again.
CheckNothing ==
  /\ worker.stage = "checking"
  /\ worker' = [worker EXCEPT !.stage = "asking"]
  /\ UNCHANGED <<coreApi, broker, lost, faults>>

\* evaluation_exists_for_hash
CheckEvaluated ==
  /\ worker.stage = "checking"
  /\ worker' = [worker EXCEPT
       !.stage = IF saves[worker.version] > 0 THEN "ending" ELSE "asking"]
  /\ UNCHANGED <<coreApi, broker, lost, faults>>

\* _complete: a rate limit is tried again with the fallback key, once per call.
RateLimited ==
  \/ /\ FallbackKey /\ worker.key = "primary"
     /\ worker' = [worker EXCEPT !.key = "fallback"]
  \/ ~(FallbackKey /\ worker.key = "primary") /\ RetryOrFail

\* Output that fails the contract is repaired once, in a second call.
InvalidOutput ==
  \/ /\ worker.stage = "asking"
     /\ worker' = [worker EXCEPT !.stage = "repairing", !.key = "primary"]
  \/ worker.stage = "repairing" /\ Fail("permanent")

\* run_nvidia_holistic_evaluation: the call is answered, rejected for good, or
\* fails for now.
AskModel ==
  /\ worker.stage \in {"asking", "repairing"}
  /\ \/ worker' = [worker EXCEPT !.stage = "saving"]
     \/ InvalidOutput
     \/ RateLimited
     \/ RetryOrFail
     \/ Fail("permanent")
  /\ UNCHANGED <<coreApi, broker, lost, faults>>

\* What save_final_evaluation does in the Core API.
Saved ==
  /\ saves' = [saves EXCEPT ![worker.version] = @ + 1]
  /\ session' = "EVALUATED"

\* The recruiter's event is published on a best effort.
SaveEvaluation ==
  /\ worker.stage = "saving"
  /\ Saved
  /\ worker' = [worker EXCEPT !.stage = "ending"]
  /\ UNCHANGED <<finished, transcript, broker, lost, faults>>

\* self.retry publishes another message before this one is acknowledged.
Retry ==
  /\ worker.stage = "retrying"
  /\ queue' = [queue EXCEPT ![worker.retries + 1] = @ + 1]
  /\ worker' = [worker EXCEPT !.stage = "ending"]
  /\ UNCHANGED <<coreApi, queued, lost, faults>>

\* mark_holistic_evaluation_failed
PersistFailure ==
  /\ worker.stage = "failing"
  /\ session' = "EVALUATION_FAILED"
  /\ worker' = [worker EXCEPT !.stage = "ending"]
  /\ UNCHANGED <<finished, transcript, saves, broker, lost, faults>>

Acknowledge ==
  /\ worker.stage = "ending"
  /\ worker' = Resting
  /\ UNCHANGED <<coreApi, broker, lost, faults>>

-----------------------------------------------------------------------------
\* Faults.

Fault(kind) ==
  /\ faults[kind] < MaxFaults[kind]
  /\ faults' = [faults EXCEPT ![kind] = @ + 1]

\* The worker stops and the broker delivers the message again.
Crash ==
  /\ Fault("crash")
  /\ worker.stage # "idle"
  /\ queue' = [queue EXCEPT ![worker.retries] = @ + 1]
  /\ worker' = Resting
  /\ UNCHANGED <<coreApi, queued, lost>>

\* Only the process that runs the task dies: task_reject_on_worker_lost is not
\* set, so the worker acknowledges the message.
LoseChild ==
  /\ Fault("child")
  /\ worker.stage # "idle"
  /\ worker' = Resting
  /\ lost' = TRUE
  /\ UNCHANGED <<coreApi, broker>>

\* A call of the Core API fails, a save perhaps after it was committed.  No such
\* error is a TransientEvaluationError; one while recording the failure is
\* swallowed.
CallFails ==
  /\ Fault("call")
  /\ \/ /\ worker.stage \in {"loading", "checking", "saving"}
        /\ Fail("unexpected")
        /\ UNCHANGED <<session, saves, lost>>
     \/ /\ worker.stage = "saving"
        /\ Fail("unexpected")
        /\ Saved
        /\ UNCHANGED lost
     \/ /\ worker.stage = "failing"
        /\ worker' = [worker EXCEPT !.stage = "ending"]
        /\ lost' = TRUE
        /\ UNCHANGED <<session, saves>>
  /\ UNCHANGED <<finished, transcript, broker>>

-----------------------------------------------------------------------------
TaskStep ==
  \/ \E r \in Attempts : TakeMessage(r)
  \/ LoadSource \/ CheckEvaluated \/ AskModel \/ SaveEvaluation
  \/ Retry \/ PersistFailure \/ Acknowledge

Next ==
  \/ PersistTurn \/ FinishSession \/ EnqueueFinalEvaluation
  \/ TaskStep
  \/ Crash \/ LoseChild \/ CallFails

Spec == Init /\ [][Next]_vars

\* A worker is running and goes on with its task; neither the session's end nor
\* an answer in the task's favour is assumed.
FairSpec == Spec /\ WF_vars(TaskStep)

-----------------------------------------------------------------------------
\* Properties.

TypeOK ==
  /\ session \in Ready \cup {"IN_PROGRESS"}
  /\ finished \in BOOLEAN
  /\ transcript \in Versions
  /\ saves \in [Versions -> Nat]
  /\ queue \in [Attempts -> Nat]
  /\ worker \in Worker
  /\ worker.stage \in {"checking", "asking", "repairing", "saving"}
       => worker.version > 0
  /\ lost \in BOOLEAN
  /\ queued \in 0 .. MaxQueued
  /\ faults \in [FaultKind -> Nat]

\* No transcript is evaluated twice, however often its task is enqueued, retried
\* or delivered again, and wherever the worker or a call fails.
EvaluatedOnce == \A v \in Versions : saves[v] <= 1

\* A session is not marked failed while the transcript it has is evaluated, as
\* long as the Core API answers: a second task finds the first one's result.
FailedIsUnevaluated ==
  faults["call"] = 0 /\ session = "EVALUATION_FAILED" => saves[transcript] = 0

\* A queued evaluation ends with a result or a recorded failure, whatever the
\* model answers and wherever the worker crashes, unless a fault has swallowed
\* it.
QueuedIsDecided ==
  (\E r \in Attempts : queue[r] > 0)
    ~> (session = "EVALUATION_FAILED" \/ (\E v \in Versions : saves[v] > 0) \/ lost)
=============================================================================
