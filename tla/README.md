# Formal models of the iBot interview engine

The interview engine runs a spoken interview: a LangGraph workflow decides what
the bot says, a LiveKit agent turns speech into events and replies into speech,
and background work persists the transcript, records sessions in the Core API
and evaluates the finished interview. This directory holds TLA+ models of that
code, the TLC configurations that check them and the TLAPS proofs about them.
Paths below are relative to `src/src/`.

## Inventory

| Component | State it keeps | Operations | Interacts with |
|---|---|---|---|
| Interview graph (`control/agents/graphs`, `control/agents/nodes`) | `InterviewState`, checkpointed after every node | eleven nodes and their conditional edges | bridge (resumed by `Command(resume=...)`), background persistence (turns), Celery (evaluation) |
| Section timing (`control/agents/utils/time_manager.py`, `nodes/time_manager.py`, `utils/apply_question.py`, `livekit_graph_bridge.seconds_until_section_barge_in`) | none; reads and writes the section fields of the state | decision at an answer boundary, barge-in decision, watchdog boundary, move to a section with redistribution | called by nodes and by the bridge |
| Graph bridge (`core/services/livekit_graph_bridge.py`) | a mirror of the state, the clock | start or resume, start timer, submit turn / silence / barge-in, finalize closing, finalize policy termination, record disconnect and proctoring events | graph, Core API, event log |
| LiveKit agent (`control/agents/livekit_agent.py`) | turn lock, closed / barge / discard flags, speech buffers, silence and watchdog timers | callbacks of LiveKit: turn completed, user away, agent and user state, transcription, data packets, session close | bridge, LiveKit session |
| Classification and routing of speech (`control/agents/utils/classify_response.py`, `utils/interviewer_turn.py`) | none | deterministic rules, then a model call, then fallbacks | Groq key pool |
| Question generation (`utils/generate_question.py`, `question_strategy.py`, `question_diversity.py`) | asked questions, topics, streaks per skill | difficulty, target section, validation | Groq key pool |
| Background persistence (`control/agents/utils/persist_turn.py`) | locks and pending tasks per session | schedule turn / elapsed, drain | Core API |
| Groq key pool (`utils/llm_service_helpers.py`, `control/agents/key_routing.py`) | cooldowns and disabled keys, per process | rotate, call with fallback, mark failed | Groq |
| Evaluation task (`handlers/celery_tasks/evaluation_tasks.py`, `core/services/evaluation_service.py`) | none of its own; Celery redelivers | run, retry, mark failed | Core API, LLM |
| Evaluation algorithms (`utils/evaluation_*.py`, `core/services/evaluation_*`) | none | pairing, canonical transcript and hash, violation policy, scoring | evaluation service |
| Token service (`core/services/livekit_token_service.py`) | none | dispatch an agent once per room, create tokens | LiveKit API, Core API |
| Core API client, session facade, Celery and Redis clients, event log, settings, prompts, schemas, REST application, demo agent | connection handles, text | I/O | everything |

What is hard here: the workflow is checkpointed node by node and may fail
between any two of them; the bridge decides from a mirror of that state and on a
clock of its own; silence, speech, the section watchdog and proctoring packets
arrive as concurrent tasks of one event loop; turns are persisted behind the
interview's back under locks that come and go; concurrent calls share cooldowns
they read before an await and write after it; the evaluation is delivered at
least once and its effects are several remote calls. `PROJECT.json` lists the
hazards, each at its line.

What makes each component correct: the graph waits for the candidate only while
the interview is open, never revokes a decision to close, and hands every
utterance to persistence once under an id of its own before the evaluation is
queued; the three copies of the timing arithmetic agree and the plan's total is
kept; the next question follows from the ratings the same way whichever of the
two strategies chose it, and is a new one; a terminated session is evaluated and
its enforcement is not undone; what is scheduled for persistence goes out in
order and is flushed by a drain; a call for the model fails only when no key is
left; every answer counts for its question and no violation ever helps; an
evaluation is saved once for the transcript it evaluated, and every queued one
ends evaluated or failed.

## Modules

The live interview:

* `SectionTiming` - the timing rules as constant-level operators on a `Place`
  (current section, introduction flag, start, budgets). `Deadline` is
  `section_transition_deadline_elapsed`, `Answer*` is `decide_time_action`,
  `Barge*` is `force_section_time_barge_in`, `Watchdog*` is
  `seconds_until_section_barge_in`, `Ask` is the section part of
  `apply_resolved_question`.
* `InterviewGraph` - the workflow and its bridge: one action per node, the
  routes as operators with the source's names, one action per operation of the
  bridge. `node` is the node the thread executes next; a node action is the
  whole node with the checkpoint after it. `FailRun` is an exception between two
  checkpoints (the node's call to the outside may have happened), `Reconnect` is
  a new bridge that reads the checkpoint. `mirror` is `bridge.state`, `clock`
  is `elapsed_secs()`. What the candidate says is reduced to the class the
  `interviewer_turn` node gives it, what the bot says to the kind of reply. Words
  are not counted: of the text accumulated in the introduction only the number of
  answers in it is kept (`accumulated`), which is what decides whether one of them
  can be counted twice (`CountedTwice`).
* `InterviewLifecycle` - what the interview promises, without nodes, clocks or
  failures; `InterviewGraph` implements it.
* `AdaptiveQuestions` - which question comes next. `DifficultyPlan` is
  `difficulty_plan`, from which the `interviewer_turn` node asks at once;
  `DetermineQuestionDifficulty` is the code of `generate_next_question` that
  decides again, from the recorded streaks, when the question that came with the
  rating is rejected. Streaks, probes, threads, the record of questions and
  topics and the prepared questions are the state; the rating of an answer and
  the model's proposals are arbitrary. It abstracts the workflow of
  `InterviewGraph` to waiting and generating.
* `InterviewAgent` - the LiveKit agent: the tasks of its event loop, each cut
  where it awaits. `turn` is a completed user turn through
  `on_user_turn_completed`, `llm_node` and `_run_candidate_turn`; `watch` is
  `handle_section_time_barge_in`; `away` is `handle_user_away`; `packet[p]` is
  `handle_proctoring_packet` through `_enforce_policy_termination`; `finalizer`
  is `_finalize_after_closing`. They share the turn lock, a FIFO with waiters,
  the flags `_interview_closed`, `_closing_finalize_requested` and
  `_barge_in_active`, the mirror, and the queue of replies LiveKit plays.
  `finalize_closing` works on the state it found (`kept`),
  `finalize_policy_termination` on a copy (`copied`), both across their awaits.
  A run of the workflow is reduced to its effect: the question stands, another
  is asked, or the interview ends and its evaluation is queued. What the Core
  API answers to a packet is nondeterministic; the call may also fail, before or
  after it had its effect, and the browser sends the packet again.

What runs beside it:

* `BackgroundPersistence` - the tasks that write turns: creation, the wait for
  the session's lock, the write, and the callback that forgets the task and drops
  the lock; `drain` waits for a snapshot of the tasks. Locks are numbered so that
  one that was dropped differs from the one made in its place. Elapsed-time
  writes take the same path and are not told apart.
* `TurnDelivery` - what persistence promises: the writes of a session go out one
  by one, in the order they were scheduled. `BackgroundPersistence` implements it.
* `KeyPool` - the pool of Groq keys: the slot of a turn rotates it, a call takes
  the usable keys as its candidates and asks one after the other, and failures
  let keys cool down or disable them while other calls are waiting for answers.
  With a process per LiveKit job, the default, a process has one caller; jobs
  run as threads share the pool.

After it:

* `EvaluationTask` - the final evaluation: the broker's messages (`queue[r]`
  has `r` retries behind them), the one process of the one worker that the
  repository's README starts (`worker`), and what the Core API keeps of the
  interview. A step of the task ends with a call of the Core API, the model or
  the broker, in the order of `run_holistic_evaluation` and
  `process_final_evaluation_task`. The transcript's hash is a version number
  that every new turn or violation changes. `Crash` delivers the message again;
  `LoseChild` is the loss of the child process alone, which Celery acknowledges;
  `CallFails` is an error of the Core API, or of the score calculation, which is
  unexpected in the same way. What the Core API does on a save or a recorded
  failure is taken from how the code relies on it.
* `HolisticEvaluation` - what the task computes, from the transcript and the
  violations to the recommendation: the pairing of questions and answers, read
  turn by turn as the loop of `build_question_answer_pairs` does, the violation
  policy and the contract an output of the evaluator is held to. What the
  evaluator judges is arbitrary within that contract.
* `EvaluationScoring` - the arithmetic of the scores as constant-level operators:
  relevance caps, weighted averages in hundredths, penalties, gates and the
  recommendation.

`MC*` are the instances for TLC, `*Proofs` the proofs about the module they are
named after; `InterviewGraphProofs` also has those about `SectionTiming` and
`HolisticEvaluationProofs` those about `EvaluationScoring`. `InductionPrinciples`
holds no model: it proves what the others need of least numbers, finite sets,
recursive functions and sums.

The modules meet where the parts of the program do. `InterviewGraph` and
`InterviewAgent` see the same workflow, once in detail and once from its event
loop. A turn that joins the `transcript` of
the graph is a `Schedule` of `BackgroundPersistence`, whose drain is what `finalize_closing` and `finalize_policy_termination` wait for.
`final_evaluation` of the graph and `QueueTerminalEvaluation` of the agent are
where `EnqueueFinalEvaluation` of the task comes from, the finalizers are its
`FinishSession`: the task assumes nothing about their order. What it then asks
and computes between `LoadSource` and the save is `HolisticEvaluation`.

## What the runs check

The runs of the graph use a plan of a self-introduction, one technical and one
behavioural section; in units of ten seconds the threshold of 10 s, the grace of
30 s and the rescue of 20 s are 1, 3 and 2. In `graph_undisturbed` and
`lost_evaluation` the budgets are 2, 3, 3, the total 8, and the clock stops at 12,
one unit after the watchdog's last boundary (total + grace); in `graph_failures`
they are 1, 2, 2 and 5, and the clock stops at that boundary, 8. Every boundary, its
miss by one and the overtime happen in both. `MaxTurns` is the turn number from
which the candidate takes no more turns; the first is number 1. Deadlock is
not an error: a completed interview stops.

* `graph_undisturbed` (`MaxTurns` 4: three candidate turns or silences, besides
  barge-ins; no failures): the type invariant; a silent candidate is asked once
  before the interview moves on (`SilencePatience`); the evaluation is queued only
  when everything said has been handed over (`EvaluationSeesEverything`); leaving the
  introduction hands out, to the second, what was left of it when the answer that
  completed it was given, or at the last timing decision when an answer counted
  twice ends it (`LeftoverConserved`); a barge-in the watchdog sends is never
  ignored (`WatchdogAgreement`); every interview completes (`InterviewCompletes`).
  Three turns are enough for a request to think, the nudge and moving on, for both
  skips, and for an introduction left by its second answer with a turn after it.
* `graph_failures` (`MaxTurns` 3: two turns; two failures: failed runs, failed timer
  starts, failed enqueues and reconnects at every point): the interview waits only
  while it is open and nothing is half done (`WaitsOpen`), candidate ids do not collide
  (`CandidateTurnsDistinct`), a decision to close is final (`ClosingIsFinal`),
  the lifecycle is implemented (`ImplementsLifecycle`), and once the clock runs the
  agent carries a decision to close through to the completed session, with the one
  exception the property names, an interview stranded by a reconnect
  (`ClosingCompletes`): the run that decided may fail and its bridge not know of it, or
  the resumed run fail in turn. Two failures allow a failure of the resumed run as
  well as of the first, or a failed run and a reconnect. The smaller plan makes room
  for liveness over failures.
* `agent` (one packet that may fail once and is retried, one more question, two
  replies waiting for LiveKit): the turn lock is held and queued for by exactly
  the tasks whose runs are in progress or waiting, cancelled ones included
  (`LockMatchesRuns`); once the agent enforces a termination no closing in flight
  completes the session (`EnforcedStaysTerminated`); the session is completed at
  most once (`CompletedOnce`); a terminated session gets its evaluation queued
  (`TerminatedIsEvaluated`) and an interview that ended is finalized
  (`EndedIsFinalized`). The second reply is the one that matters: it is handed over
  while the first still plays. `MaxSpeech` is not in the code.
* `adaptive` (five questions; two technical sections, one of a skill on the
  resume, around a behavioural one; three texts the model may propose, two prepared
  concepts; a medium role): difficulty and probes follow the ratings
  (`DifficultyFloor`, `ProbesAreSingle`, `DifficultyAdapts`), the generator agrees
  with the plan it replaces (`GeneratorKeepsPlan`), and nothing is asked twice
  while there is something new to ask (`NeverRepeats`). Five questions hold a
  streak, a thread, a fallback and a second probe in one section, and a return to
  the behaviour of an earlier section after another. The texts are symmetric.
* `key_pool` (two callers, three keys, cooldowns of 2 and 1, a retry-after of up
  to 1): fallback keeps the order of the rotation (`FallbackInOrder`), a call
  fails only for want of any key (`FailsOnlyWhenExhausted`), rejected keys stay
  out of later calls (`RejectedStayOut`), and keys recover (`KeysRecover`). Two
  callers are what it takes for one to change the keys the other has listed;
  with three keys a call has a key behind it, at it and before it.
* `persistence` (two sessions with three writes each, one drain at a time):
  writes go out in order, one at a time, although locks are dropped and made again
  (`ImplementsDelivery`); no lock stays behind (`NoLockLeftBehind`); a drain
  flushes what was scheduled before it (`DrainFlushes`); everything is sent
  (`EverythingSent`). Three writes are one that ends, one that waits and one
  scheduled in between; two sessions tell a session's drain from the global one.
* `evaluation` (the code's two retries, two enqueued tasks, two more versions of
  the transcript, a fallback key; two crashes, one lost process and two failing
  calls): no transcript is evaluated twice (`EvaluatedOnce`); as long as the Core
  API has answered, a session marked failed has no evaluation of its transcript
  (`FailedIsUnevaluated`); what was queued ends evaluated or failed, unless a
  fault nothing recovers from has swallowed it (`QueuedIsDecided`). The faults are
  enough for a crash after a save, a crash between a retry's publication and the
  acknowledgement of the attempt before, and a fault in the recovery of another. A
  queue may stop empty, so deadlock is not an error.
* `holistic` (every order of up to four turns and violations; a skill that
  matters and one that hardly does; judgements just above and below each
  threshold): answers are paired with their question (`AnswersPaired`), a category
  of violations counts once and the contract can be met (`ScoredOncePerCategory`),
  one more violation never helps (`ViolationsNeverHelp`), and no score lifts a
  candidate past a gate (`GatesHold`). The gate of seven violations is set to one
  and the limit of 24 answers to two, so that four records reach and pass both.

Four runs show where the code does not do what its text says:

* `lost_evaluation`: a failure after the closing message and a reconnect
  complete the session without an evaluation ever being attempted.
* `overwritten_termination`: a termination recorded while a closing is under way
  is overwritten with COMPLETED.
* `early_completion`: the end of the reply before the closing message completes
  the session before the closing is spoken.
* `stale_answer`: a turn that was waiting when the watchdog moved the section on
  is classified against the next section's question.

### Observed while modelling

What follows the models have, or left out, for what the code does; no run is
about it.

* A staged question gets the id of an earlier bot turn, because it is numbered
  before the candidate turn advances `turn_number`
  (`control/agents/utils/interviewer_turn.py:699`).
* A failure between the decision to close and the closing message, then a
  reconnect, leave an interview that neither takes events nor is completed
  (`core/services/livekit_graph_bridge.py:140`). `ClosingCompletes` excepts it
  (`Stranded`); without the reconnect the watchdog carries the closing through.
* `generate_bot_response` tests whether the introduction is long enough after
  `interviewer_turn` has added the answer to it
  (`control/agents/nodes/generate_bot_response.py:137-140`), so that the second and
  later answers count twice: six words, then seven, are too few for the one and enough
  for the other. The introduction is then left without a timing decision. The elapsed
  time is the one recorded last, in most interviews zero: the next section starts
  at that time and is given what was left of the introduction then, time already used
  included, and neither the end of the interview's time nor the rescue of the
  behavioural section is noticed before the next complete answer or the watchdog.
* After a failed run and a reconnect the mirror may be ahead of or behind the
  checkpoint; a barge-in the node then ignores drops the interrupted candidate turn,
  or the next one overwrites it. `EvaluationSeesEverything` is proved as long as
  no run has failed.
* A failing Core API is recorded as a terminal failure of the evaluation at the
  first attempt (`core/services/evaluation_service.py:103`), and may be recorded of an
  evaluated session when the save was committed; `FailedIsUnevaluated` excludes
  failing calls.
* A question with more than 24 answers fails validation on every retry
  (`core/services/evaluation_context_builder.py:142`).
* Thresholds of the recommendation compare scores before they are rounded, the
  stored score is rounded (`utils/evaluation_scoring.py:209`).
* Plan and generator differ in one case, a strong answer that may be followed by a
  thread: the plan holds the difficulty and the generator raises it.
  `GeneratorKeepsPlan` excludes it.
* The fallback of a behavioural section raises once its prepared questions are
  used up; that of a technical one repeats itself after its last concept
  (`NeverRepeats` says so).
* `record_disconnect` drains nothing (`control/agents/livekit_agent.py:1238`): what
  is pending when the process exits is lost unless a finalizer ran.
* `finalize_policy_termination` writes the final elapsed time outside the
  session's lock (`core/services/livekit_graph_bridge.py:441`).
* The speech buffers, which are not modelled, have orders of their own: a
  turn that completes while a barge-in waits for the lock clears the transcript
  the barge-in was about to submit (`control/agents/livekit_agent.py:1083`), and
  speech recovered by `handle_user_away` is suppressed when its turn completes
  late, unless the candidate has begun to speak again in between (`:998`).

## Fairness

`FairSpec` of the graph assumes weak fairness of the steps of a run (the event loop
executes an `ainvoke` it has started), of the timer start, of the clock and of the
finalizer that runs after the closing playout; strong fairness of a due
barge-in, because the watchdog re-arms itself and must win the turn lock from
the candidate's turns. It re-arms itself after a run that failed as well (the
`finally` of `handle_section_time_barge_in`) and is armed again by a reconnect, so
the same holds in `graph_failures`. Failures are bounded there: a run that fails
for ever completes nothing. A call of the finalizer that fails is not modelled.
Nothing is assumed of the candidate: no turn, silence or reconnect is fair. With the bound on turns the candidate runs out of turns, so
strong fairness is only lightly exercised.

`FairSpec` of the agent assumes that the event loop runs every task it has and
that LiveKit plays what it was given; strong fairness for the turn and the
watchdog, whose hand-over of a reply `MaxSpeech` may block and unblock. The
candidate and the watchdog's timer need not act. That the browser sends an
unacknowledged packet again is an assumption about code outside the repository,
stated in a comment of `handle_proctoring_packet`.

`FairSpec` of the key pool assumes that time passes and that every request ends:
the clients have a timeout and no retries of their own. Nobody has to call.

`FairSpec` of persistence assumes that the event loop runs what is ready and that
the Core API's client has a timeout; nobody has to schedule or to drain.

`FairSpec` of the evaluation assumes only that a worker runs and goes on with its
task (weak fairness of `TaskStep`). Neither the end of the session nor any
answer of the model is assumed.

## What is proved

All theorems hold for every value of the constants the named assumptions allow.
An invariant is proved from an inductive one, `IInv`, whose conjuncts are what
the property silently relies on; none of the properties below is inductive by
itself unless it says so.

* Workflow, for every plan, budgets, thresholds and bounds (`PlanAssumption`,
  `BoundAssumption`): types, `WaitsOpen`, `CandidateTurnsDistinct`,
  `ClosingIsFinal`, `WatchdogAgreement`, `SilencePatience`,
  `EvaluationSeesEverything` while no run has failed, and the refinement
  `ImplementsLifecycle`. Of the timing rules: whenever the watchdog is due, the
  node acts (`DueBargeInActs`); what was left of the introduction is handed out to
  the second (`LeftoverConserved`), because the shares of the later sections,
  counted section by section, are their number times the quotient and one for
  each of the first, as many as the remainder; and the longer budgets promise no
  more time than there is at the time they are computed for (`SharingFits`; after
  an answer counted twice that is the time last recorded). The invariant says which nodes remain once closing is decided (`ClosingControl`), where a
  chosen section may be pending, that it lies ahead and that the elapsed time is
  still that of the event it was chosen for (`PendingControl`), that
  the introduction is left for good (`IntroControl`), where a bot turn may be
  pending (`BotTurnControl`), that the bridge believes the interview closed only
  after a run that closed it (`BridgeControl`), that without failures the mirror's
  section is current (`ViewControl`), and that a turn already handed over has an
  earlier number unless its node failed and will hand it over again
  (`CandidateTurnControl`). `SilenceControl` ties the history of silences to the
  silence stage and to where the run stands, `SpokenControl` says which of the
  utterances so far is the one not yet handed over.
* Agent, for every set of packets and every bound (`AgentAssumption`): types,
  `LockMatchesRuns`, `CompletedOnce` and `EnforcedStaysTerminated`. The last two
  rest on who may still be about to complete the session: `Closing` says that the
  agent takes an interview for closed only when its workflow has ended or a
  termination has suppressed the closing, `ClosingTasks` that only an ended
  workflow leads to the finalizer, `Completing` that the session is completed by
  the one finalizer there is, and `Enforcing` that no finalizer runs beside an
  enforcement, nor can one start. `closed` alone would not do, because a turn in
  flight may overwrite it. `LockMatchesRuns` needs that a task stands in the
  queue once (`QueuedOnce`), or a cancelled turn would leave a second entry;
  the bound on evaluations in `TypeOK` needs a count of the packets that have
  still to queue one (`Counting`).
* Next question, for every plan, resume, role and number of questions
  (`PlanAssumption`, `TextAssumption`): all five properties of the run. The
  invariant says that a probe was earned by the first weak answer in a row
  (`ProbeEarned`), that what was planned for the rating is what is determined
  from the streaks once the rating is recorded (`PlanHolds`: the two copies of
  the rules agree), and that what was asked is on record (`Recorded`).
* Key pool, for every pool without repetitions, any number of callers and any
  cooldowns (`PoolAssumption`): types, `FallbackInOrder`, `FailsOnlyWhenExhausted`,
  `RejectedStayOut`. `PoolIsDistinct` shows that the pool the code builds from its
  settings is one without repetitions, in the order of the settings, so that of
  `PoolAssumption` only the pool's not being empty is assumed. The invariant describes a call in flight: what it has left
  lies behind what it asks and is neither spent nor unusable at its start.
* Persistence, for any number of sessions, writes and drains: types,
  `NoLockLeftBehind`, `DrainFlushes` and the refinement of `TurnDelivery`. The
  invariant says that all tracked tasks of a session ask for one lock, the one in
  the table, that one of them at most holds it, and that they were created in the
  order in which they wait.
* Evaluation task, for every number of retries, tasks, turns and faults: types,
  `EvaluatedOnce`, `FailedIsUnevaluated`. The invariant relates what the
  worker remembers to what is stored: only versions up to the present one are
  saved (`SavesBehind`, `LoadedBehind`), a version past the check is not saved
  (`VersionFresh`: with one worker nobody saves between the check and the save), a
  session in progress is not evaluated (`EvaluatedAfterward`), and a failure is met
  before the transcript is evaluated (`FailingUnevaluated`).
* Evaluation, for transcripts of any length, any mixture of ids and any number of
  questions, skills and violations (`SpecAssumption`, `EvaluationAssumption`):
  `AnswersPaired`, `ScoredOncePerCategory`, `ViolationsNeverHelp`, `GatesHold`. The
  invariant names the pairs after the questions asked so far (`AskedPairs`) and
  the active one after the last of them (`ActiveLast`), and says what a result is:
  a score for every skill with a question and the recommendation that follows
  from it (`EvaluationKept`). `ScoredOncePerCategory` needs only that there
  are records: what normalizing keeps of the first ones has at most one record of
  a category, with the severity of the policy (`Normal`), and one where there was
  any. `ViolationsNeverHelp` is an
  instance of `RecommendationIsMonotone`: nothing scored lower and no more
  violations, never a worse recommendation. Its premises on the skills are met
  where the answers are judged no worse (`BetterAnswersNeverHurt`), through caps,
  weights, division and rounding.

The library's theorems on induction cannot be used here, because they take the
predicate as an operator parameter. `InductionPrinciples` goes another way: strict
inclusion of the finite subsets of a set is well-founded, so that a set of numbers
that is not empty has a least one and a set of finite sets a smallest one
(`LeastNatural`, `SmallestSubset`), and a set of counterexamples, when it is not
empty, has one whose predecessor is none. From these follow that the recursive functions of the models have the values their equations
give (`Recursive`) and that a sum over a finite set is what adding its members one
by one gives, grows with its summands and may be multiplied out.

Only model-checked, being out of the prover's reach, is what holds under fairness:
`InterviewCompletes`, `ClosingCompletes`, `TerminatedIsEvaluated`,
`EndedIsFinalized`, `KeysRecover`, `EverythingSent`, `QueuedIsDecided`. So is all of
the four runs that show a disagreement, whose property does not hold.

## Not modelled

* Speech buffers, the joining of a split turn by the agent, the discard and guard
  flags, the microphone and the acknowledgement fillers of the agent: what they do
  depends on when LiveKit completes, cuts off and repeats a turn, which is
  neither in the repository nor settled by how it is used. For the same reason a
  user turn completes in `InterviewAgent` only after the reply to the one before.
* The token service and room dispatch: the service keeps no state, and what two
  concurrent requests do to the list of dispatches is LiveKit's behaviour.
* Text: prompts, templates, regular expressions of the classification, similarity
  of questions, matching of skill names, model output. Class, rating, question and
  judgement are nondeterministic choices within what the code accepts.
* I/O without control of the interview: HTTP, Redis and Celery clients, event
  log, settings, schemas, the REST application, the demo agent.
* An assessment without a context or a plan, whose evaluation fails for good at
  its first attempt (`build_evaluation_context`): only its failure for want of a
  transcript is modelled.
* The exit of a process with tasks pending, and an empty key pool, which fails
  every call and is excluded by `PoolAssumption`.
