--------------------------- MODULE InterviewAgent ---------------------------
(***************************************************************************)
(* The LiveKit agent: the tasks of one event loop that run the workflow,   *)
(* speak its replies, finalize a closed interview and enforce a proctoring *)
(* termination.  A task is cut where it awaits, so everything between two  *)
(* awaits is one action.                                                   *)
(*                                                                         *)
(* A run of the workflow is reduced to what it tells the agent: the same   *)
(* question stands, another one is asked, or the interview closes.  Runs   *)
(* do not fail here; InterviewGraph has them in detail and fails them.  Of *)
(* the calls of the Core API, those that record a proctoring event may     *)
(* fail.  The first state is the one after on_enter, when the opening has  *)
(* been played.                                                            *)
(***************************************************************************)
EXTENDS Integers, Sequences, FiniteSets

CONSTANTS
  Packets,       \* proctoring packets the candidate's browser sends
  MaxQuestions,  \* bound: questions asked
  MaxSpeech,     \* bound: replies LiveKit has not played yet
  MaxFailures    \* bound: failing calls of the Core API

ASSUME AgentAssumption ==
  /\ MaxQuestions \in Nat /\ MaxSpeech \in Nat /\ MaxFailures \in Nat
  /\ IsFiniteSet(Packets)

VARIABLES
  \* The workflow and the bridge.
  question,      \* number of the question the checkpoint stands at
  ended,         \* the workflow has generated its closing message
  mirror,        \* bridge.state
  \* Flags of the agent.
  closed,             \* _interview_closed
  finalizeRequested,  \* _closing_finalize_requested
  bargeActive,        \* _barge_in_active
  lock,               \* who holds _turn_lock
  waiters,            \* the tasks queued for it, in order
  \* Tasks.
  turn,          \* a completed user turn, through llm_node
  answered,      \* the question that turn's speech was heard after
  watch,         \* handle_section_time_barge_in
  away,          \* handle_user_away, with silence or recovered speech
  packet,        \* handle_proctoring_packet, for each packet
  finalizer,     \* _finalize_after_closing past its guard
  scheduled,     \* a _finalize_after_closing task is created but not run yet
  kept,          \* bridge.state as finalize_closing read it
  copied,        \* bridge.state as finalize_policy_termination copied it
  \* The room, the Core API and Celery.
  speech,        \* replies handed to LiveKit, played one after the other
  playing,       \* the first of them is being played
  open,          \* the session has not been shut down
  durable,       \* the session's status in the Core API
  enqueued,      \* final evaluations queued
  \* History, read by properties only, except for the bound.
  completions,   \* calls of complete_session
  heard,         \* the closing message has been played
  failures       \* calls of the Core API that have failed

workflow == <<question, ended>>
flags == <<closed, finalizeRequested>>
locking == <<lock, waiters>>
userTurn == <<turn, answered>>
proctoring == <<packet, copied>>
closing == <<finalizer, scheduled, kept>>
room == <<speech, playing, open>>
services == <<durable, enqueued>>
history == <<completions, heard, failures>>
vars == <<workflow, mirror, flags, bargeActive, locking, userTurn, watch, away,
          proctoring, closing, room, services, history>>

Status == {"IN_PROGRESS", "CLOSING", "TERMINATED", "COMPLETED"}
Owner == {"turn", "watch", "away"}
\* closing: should_close or closing_done; complete: phase_complete;
\* task: holistic_evaluation_task_id is recorded.
View == [question : 0 .. MaxQuestions, closing : BOOLEAN, complete : BOOLEAN,
         task : BOOLEAN, status : Status]
Speech == [owner : Owner, closing : BOOLEAN]

Init ==
  /\ question = 0
  /\ ended = FALSE
  /\ mirror = [question |-> 0, closing |-> FALSE, complete |-> FALSE,
               task |-> FALSE, status |-> "IN_PROGRESS"]
  /\ closed = FALSE
  /\ finalizeRequested = FALSE
  /\ bargeActive = FALSE
  /\ lock = "free"
  /\ waiters = <<>>
  /\ turn = "idle"
  /\ answered = 0
  /\ watch = "idle"
  /\ away = "idle"
  /\ packet = [p \in Packets |-> "unsent"]
  /\ finalizer = "idle"
  /\ scheduled = FALSE
  /\ kept = mirror
  /\ copied = [p \in Packets |-> mirror]
  /\ speech = <<>>
  /\ playing = FALSE
  /\ open = TRUE
  /\ durable = "IN_PROGRESS"
  /\ enqueued = 0
  /\ completions = 0
  /\ heard = FALSE
  /\ failures = 0

-----------------------------------------------------------------------------
\* _turn_lock, an asyncio.Lock: granted in the order it was asked for.
LockIsFree == lock = "free" /\ waiters = <<>>

Granted(owner) ==
  /\ lock = "free"
  /\ \/ waiters = <<>> /\ UNCHANGED waiters
     \/ waiters # <<>> /\ Head(waiters) = owner /\ waiters' = Tail(waiters)

-----------------------------------------------------------------------------
\* One run of the workflow under the lock, up to _mark_closed_from_state.

\* What the run does to the checkpoint: nothing at the end of the workflow, and a
\* closing run also queues the evaluation before it returns.
Advance ==
  \/ UNCHANGED <<question, ended, enqueued>>
  \/ /\ ~ended /\ question < MaxQuestions
     /\ question' = question + 1
     /\ UNCHANGED <<ended, enqueued>>
  \/ /\ ~ended
     /\ ended' = TRUE
     /\ enqueued' = enqueued + 1
     /\ UNCHANGED question

\* _merge_result replaces the mirror, whatever was written to it meanwhile.
Merge ==
  mirror' = [question |-> question', closing |-> ended', complete |-> ended',
             task |-> ended',
             status |-> IF ended' THEN "CLOSING" ELSE "IN_PROGRESS"]

MarkClosed == closed' = mirror'.closing

FinishRun ==
  /\ Advance
  /\ Merge
  /\ MarkClosed
  /\ lock' = "free"
  /\ UNCHANGED waiters

\* A reply is handed to LiveKit.
Say(owner, isClosing) ==
  /\ Len(speech) < MaxSpeech
  /\ speech' = Append(speech, [owner |-> owner, closing |-> isClosing])

\* _say_graph_reply: said at once, unless it is the closing message, which the
\* candidate's browser is told of first.
SayReply(owner) == IF ended' THEN UNCHANGED speech ELSE Say(owner, FALSE)
ReplyStage == IF ended' THEN "announcing" ELSE "speaking"

\* say(...).wait_for_playout(): LiveKit has played everything this task said.
Played(owner) == \A i \in DOMAIN speech : speech[i].owner # owner

-----------------------------------------------------------------------------
\* A completed user turn: on_user_turn_completed, then llm_node.

OnUserTurnCompleted ==
  /\ open /\ turn = "idle"
  /\ ~closed /\ ~bargeActive
  /\ turn' = "pending"
  /\ answered' = mirror.question
  /\ UNCHANGED <<workflow, mirror, flags, bargeActive, locking, watch, away,
                 proctoring, closing, room, services, history>>

\* The run is a task of its own, created here and started by the event loop.
LlmNode ==
  /\ turn = "pending"
  /\ turn' = IF closed THEN "idle" ELSE "created"
  /\ UNCHANGED <<workflow, mirror, flags, bargeActive, locking, answered, watch,
                 away, proctoring, closing, room, services, history>>

AwaitTurnLock ==
  /\ turn = "created" /\ ~LockIsFree
  /\ turn' = "waiting"
  /\ waiters' = Append(waiters, "turn")
  /\ UNCHANGED <<workflow, mirror, flags, bargeActive, lock, answered, watch,
                 away, proctoring, closing, room, services, history>>

\* submit_candidate_turn returns at once when the phase is complete or the
\* session is over; the agent then has nothing to say.
TakesNoTurn == mirror.complete \/ mirror.status \in {"TERMINATED", "COMPLETED"}

StartTurnRun ==
  /\ turn \in {"created", "waiting"} /\ Granted("turn")
  /\ IF TakesNoTurn
     THEN turn' = "idle" /\ closed' = mirror.closing /\ UNCHANGED lock
     ELSE turn' = "running" /\ lock' = "turn" /\ UNCHANGED closed
  /\ UNCHANGED <<workflow, mirror, finalizeRequested, bargeActive, answered,
                 watch, away, proctoring, closing, room, services, history>>

FinishTurnRun ==
  /\ turn = "running"
  /\ FinishRun
  /\ turn' = IF ended' THEN "announcing" ELSE "replying"
  /\ UNCHANGED <<finalizeRequested, bargeActive, answered, watch, away,
                 proctoring, closing, room, durable, history>>

\* The reply's chunks go to the speech pipeline one by one.
YieldReply ==
  /\ turn \in {"replying", "announcing"}
  /\ Say("turn", turn = "announcing")
  /\ turn' = "yielding"
  /\ UNCHANGED <<workflow, mirror, flags, bargeActive, locking, answered, watch,
                 away, proctoring, closing, playing, open, services, history>>

EndLlmNode ==
  /\ turn = "yielding"
  /\ turn' = "idle"
  /\ UNCHANGED <<workflow, mirror, flags, bargeActive, locking, answered, watch,
                 away, proctoring, closing, room, services, history>>

\* _closing_playout_pending
ClosingPlayoutPending ==
  turn = "yielding"
    /\ \E i \in DOMAIN speech : speech[i] = [owner |-> "turn", closing |-> TRUE]

-----------------------------------------------------------------------------
\* _finalize_after_closing

\* Mutant: the closing is finalized on every call.
FinalizeAgain ==
  /\ finalizeRequested' = TRUE
  /\ finalizer' = "draining"
  /\ kept' = mirror

\* The guard and everything up to the drain in finalize_closing, which keeps a
\* reference to the state it found.
FinalizeAfterClosing ==
  \/ finalizeRequested /\ UNCHANGED <<finalizeRequested, finalizer, kept>>
  \/ /\ ~finalizeRequested
     /\ finalizeRequested' = TRUE
     /\ finalizer' = "draining"
     /\ kept' = mirror

RunScheduledFinalizer ==
  /\ scheduled
  /\ scheduled' = FALSE
  /\ FinalizeAfterClosing
  /\ UNCHANGED <<workflow, mirror, closed, bargeActive, locking, userTurn,
                 watch, away, proctoring, room, services, history>>

CompleteSession ==
  /\ finalizer = "draining"
  /\ finalizer' = "completing"
  /\ durable' = "COMPLETED"
  /\ completions' = completions + 1
  /\ UNCHANGED <<workflow, mirror, flags, bargeActive, locking, userTurn, watch,
                 away, proctoring, scheduled, kept, room, enqueued, heard,
                 failures>>

EndFinalizer ==
  /\ finalizer = "completing"
  /\ finalizer' = "done"
  /\ mirror' = [kept EXCEPT !.closing = TRUE, !.status = "COMPLETED"]
  /\ open' = FALSE
  /\ UNCHANGED <<workflow, flags, bargeActive, locking, userTurn, watch, away,
                 proctoring, scheduled, kept, speech, playing, services,
                 history>>

-----------------------------------------------------------------------------
\* The section watchdog: handle_section_time_barge_in.

\* seconds_until_section_barge_in is not None; whether it is due is left open.
MayBarge == ~mirror.closing /\ mirror.status \notin {"TERMINATED", "COMPLETED"}

WatchdogFires ==
  /\ open /\ watch = "idle"
  /\ ~closed /\ ~bargeActive /\ ~playing /\ MayBarge
  /\ bargeActive' = TRUE
  /\ IF LockIsFree
     THEN watch' = "running" /\ lock' = "watch" /\ UNCHANGED waiters
     ELSE /\ watch' = "waiting"
          /\ waiters' = Append(waiters, "watch")
          /\ UNCHANGED lock
  /\ UNCHANGED <<workflow, mirror, flags, userTurn, away, proctoring, closing,
                 room, services, history>>

\* Under a lock it had to wait for, the boundary is checked again.
StartBargeIn ==
  /\ watch = "waiting" /\ Granted("watch")
  /\ \/ /\ MayBarge
        /\ watch' = "running"
        /\ lock' = "watch"
        /\ UNCHANGED bargeActive
     \/ /\ watch' = "idle"
        /\ bargeActive' = FALSE
        /\ UNCHANGED lock
  /\ UNCHANGED <<workflow, mirror, flags, userTurn, away, proctoring, closing,
                 room, services, history>>

\* A barge-in that is ignored has no reply.
FinishBargeIn ==
  /\ watch = "running"
  /\ FinishRun
  /\ IF question' = question /\ ~ended'
     THEN watch' = "idle" /\ bargeActive' = FALSE /\ UNCHANGED speech
     ELSE watch' = ReplyStage /\ SayReply("watch") /\ UNCHANGED bargeActive
  /\ UNCHANGED <<finalizeRequested, userTurn, away, proctoring, closing,
                 playing, open, durable, history>>

SayBargeInClosing ==
  /\ watch = "announcing"
  /\ Say("watch", TRUE)
  /\ watch' = "closing"
  /\ UNCHANGED <<workflow, mirror, flags, bargeActive, locking, userTurn, away,
                 proctoring, closing, playing, open, services, history>>

EndBargeIn ==
  /\ watch \in {"speaking", "closing"} /\ Played("watch")
  /\ watch' = "idle"
  /\ bargeActive' = FALSE
  /\ IF watch = "closing" THEN FinalizeAfterClosing
                          ELSE UNCHANGED <<finalizeRequested, finalizer, kept>>
  /\ UNCHANGED <<workflow, mirror, closed, locking, userTurn, away, proctoring,
                 scheduled, room, services, history>>

-----------------------------------------------------------------------------
\* A candidate who is away: handle_user_away takes the lock only when nobody
\* else is at work, and submits the speech it has buffered or else a silence,
\* which never closes the interview.  LiveKit reports nobody away while the
\* agent speaks, and speaking cancels the agent's own delayed check.

\* Mutant: the lock is not looked at, and waited for.
WaitForTurnLock ==
  /\ open /\ away = "idle"
  /\ ~closed /\ ~mirror.complete
  /\ speech = <<>>
  /\ waiters' = Append(waiters, "away")
  /\ UNCHANGED <<workflow, mirror, flags, bargeActive, lock, userTurn, watch,
                 away, proctoring, closing, room, services, history>>

HandleUserAway ==
  /\ open /\ away = "idle"
  /\ ~closed /\ ~mirror.complete
  /\ speech = <<>>
  /\ LockIsFree /\ turn \notin {"pending", "created"}
  /\ \/ /\ away' \in {"silence", "recovering"}
        /\ away' = "recovering" => ~TakesNoTurn
        /\ lock' = "away"
        /\ UNCHANGED closed
     \/ /\ TakesNoTurn
        /\ closed' = mirror.closing
        /\ UNCHANGED <<away, lock>>
  /\ UNCHANGED <<workflow, mirror, finalizeRequested, bargeActive, waiters,
                 userTurn, watch, proctoring, closing, room, services, history>>

FinishAway ==
  /\ away \in {"silence", "recovering"}
  /\ FinishRun
  /\ away = "silence" => ended' = ended
  /\ away' = ReplyStage
  /\ SayReply("away")
  /\ UNCHANGED <<finalizeRequested, bargeActive, userTurn, watch, proctoring,
                 closing, playing, open, durable, history>>

SayAwayClosing ==
  /\ away = "announcing"
  /\ Say("away", TRUE)
  /\ away' = "closing"
  /\ UNCHANGED <<workflow, mirror, flags, bargeActive, locking, userTurn, watch,
                 proctoring, closing, playing, open, services, history>>

EndAway ==
  /\ away \in {"speaking", "closing"} /\ Played("away")
  /\ away' = "idle"
  /\ IF away = "closing" THEN FinalizeAfterClosing
                         ELSE UNCHANGED <<finalizeRequested, finalizer, kept>>
  /\ UNCHANGED <<workflow, mirror, closed, bargeActive, locking, userTurn,
                 watch, proctoring, scheduled, room, services, history>>

-----------------------------------------------------------------------------
\* LiveKit plays the first reply to its end; track_agent_state sees the agent
\* start and stop speaking.

\* Starting to speak cancels a watchdog that has not fired (see WatchdogFires).
PlayoutStarts ==
  /\ speech # <<>> /\ ~playing
  /\ playing' = TRUE
  /\ UNCHANGED <<workflow, mirror, flags, bargeActive, locking, userTurn, watch,
                 away, proctoring, closing, speech, open, services, history>>

\* Mutant: only the tasks that call say finalize.
NeverScheduled == UNCHANGED scheduled

TrackAgentStopped ==
  scheduled' = \/ scheduled
               \/ closed /\ ~finalizeRequested /\ ~ClosingPlayoutPending

PlayoutEnds ==
  /\ playing
  /\ Head(speech).owner = "turn" => turn # "yielding" \/ Len(speech) > 1
  /\ speech' = Tail(speech)
  /\ playing' = FALSE
  /\ heard' = (heard \/ Head(speech).closing)
  /\ TrackAgentStopped
  /\ UNCHANGED <<workflow, mirror, flags, bargeActive, locking, userTurn, watch,
                 away, proctoring, finalizer, kept, open, services,
                 completions, failures>>

-----------------------------------------------------------------------------
\* Proctoring packets: handle_proctoring_packet, for tab switches and faces.

\* The browser sends an event, and again when it got no acknowledgement.
PacketArrives(p) ==
  /\ open /\ packet[p] \in {"unsent", "retained"}
  /\ ~closed
  /\ packet' = [packet EXCEPT ![p] = "recording"]
  /\ UNCHANGED <<workflow, mirror, flags, bargeActive, locking, userTurn, watch,
                 away, copied, closing, room, services, history>>

\* The Core API counts it and may terminate a session in progress; of a
\* terminated one it says so again.
CoreApiRecords(p) ==
  /\ packet[p] = "recording"
  /\ \/ /\ durable # "COMPLETED"
        /\ durable' = "TERMINATED"
        /\ packet' = [packet EXCEPT ![p] = "terminated"]
     \/ /\ durable # "TERMINATED"
        /\ packet' = [packet EXCEPT ![p] = "done"]
        /\ UNCHANGED durable
  /\ UNCHANGED <<workflow, mirror, flags, bargeActive, locking, userTurn, watch,
                 away, copied, closing, room, enqueued, history>>

\* The call of the Core API fails, before or after it has recorded the event:
\* the packet's task ends and the browser gets no acknowledgement.
RecordFails(p) ==
  /\ failures < MaxFailures
  /\ packet[p] \in {"recording", "terminated"}
  /\ packet' = [packet EXCEPT ![p] = "retained"]
  /\ failures' = failures + 1
  /\ UNCHANGED <<workflow, mirror, flags, bargeActive, locking, userTurn, watch,
                 away, copied, closing, room, services, completions, heard>>

\* record_tab_switch and record_proctoring_event return; the acknowledgement
\* is published.
RecordReturns(p) ==
  /\ packet[p] = "terminated"
  /\ packet' = [packet EXCEPT ![p] = "enforcing"]
  /\ mirror' = [mirror EXCEPT !.status = "TERMINATED"]
  /\ UNCHANGED <<workflow, flags, bargeActive, locking, userTurn, watch, away,
                 copied, closing, room, services, history>>

\* Mutant: the closing finalizer is not suppressed.
OnlyMarkClosed ==
  /\ closed' = TRUE
  /\ UNCHANGED finalizeRequested

SuppressClosing ==
  /\ closed' = TRUE
  /\ finalizeRequested' = TRUE

\* _enforce_policy_termination: nothing when the interview is closed already.
EnforcePolicyTermination(p) ==
  /\ packet[p] = "enforcing"
  /\ IF closed
     THEN /\ packet' = [packet EXCEPT ![p] = "done"]
          /\ UNCHANGED flags
     ELSE /\ packet' = [packet EXCEPT ![p] = "interrupting"]
          /\ SuppressClosing
  /\ UNCHANGED <<workflow, mirror, bargeActive, locking, userTurn, watch, away,
                 copied, closing, room, services, history>>

\* Mutant: a cancelled run keeps the lock.
CancelHoldingLock ==
  /\ turn \notin {"idle", "pending"}
  /\ turn' = "idle"
  /\ UNCHANGED <<locking>>

CancelTurn ==
  /\ turn \notin {"idle", "pending"}
  /\ turn' = "idle"
  /\ lock' = IF lock = "turn" THEN "free" ELSE lock
  /\ IF turn = "waiting"
     THEN \E i \in DOMAIN waiters :
            /\ waiters[i] = "turn"
            /\ waiters' = SubSeq(waiters, 1, i - 1)
                          \o SubSeq(waiters, i + 1, Len(waiters))
     ELSE UNCHANGED waiters

\* Everything LiveKit was saying is cut off, and with it an llm_node that is
\* still at work, unless its run returns first.  finalize_policy_termination
\* then copies the state and waits for the drain.
InterruptSession(p) ==
  /\ packet[p] = "interrupting"
  /\ packet' = [packet EXCEPT ![p] = "flushing"]
  /\ copied' = [copied EXCEPT ![p] = mirror]
  /\ speech' = <<>>
  /\ playing' = FALSE
  /\ UNCHANGED <<locking, turn>> \/ CancelTurn
  /\ UNCHANGED <<workflow, mirror, flags, bargeActive, answered, watch, away,
                 closing, open, services, history>>

\* Mutant: the evaluation of a terminated interview is not queued.
FlushOnly(p) ==
  /\ mirror' = [copied[p] EXCEPT !.closing = TRUE, !.status = "TERMINATED"]
  /\ UNCHANGED enqueued

\* Queue the evaluation unless the copy of the state names a task, and put the
\* copy back.
QueueTerminalEvaluation(p) ==
  /\ enqueued' = IF copied[p].task THEN enqueued ELSE enqueued + 1
  /\ mirror' = [copied[p] EXCEPT !.closing = TRUE, !.task = TRUE,
                                 !.status = "TERMINATED"]

EndTermination(p) ==
  /\ packet[p] = "flushing"
  /\ packet' = [packet EXCEPT ![p] = "enforced"]
  /\ QueueTerminalEvaluation(p)
  /\ open' = FALSE
  /\ UNCHANGED <<workflow, flags, bargeActive, locking, userTurn, watch, away,
                 copied, closing, speech, playing, durable, history>>

-----------------------------------------------------------------------------
TurnStep ==
  \/ LlmNode \/ AwaitTurnLock \/ StartTurnRun \/ FinishTurnRun \/ YieldReply
  \/ EndLlmNode
BargeInStep == StartBargeIn \/ FinishBargeIn \/ SayBargeInClosing \/ EndBargeIn
AwayStep == FinishAway \/ SayAwayClosing \/ EndAway
PlayoutStep == PlayoutStarts \/ PlayoutEnds
FinalizerStep == RunScheduledFinalizer \/ CompleteSession \/ EndFinalizer
PacketStep(p) ==
  \/ CoreApiRecords(p) \/ RecordReturns(p) \/ EnforcePolicyTermination(p)
  \/ InterruptSession(p) \/ EndTermination(p)

Next ==
  \/ OnUserTurnCompleted \/ WatchdogFires \/ HandleUserAway
  \/ TurnStep \/ BargeInStep \/ AwayStep \/ FinalizerStep \/ PlayoutStep
  \/ \E p \in Packets : PacketArrives(p) \/ RecordFails(p) \/ PacketStep(p)

Spec == Init /\ [][Next]_vars

\* The event loop runs every task it has and LiveKit plays what it was given.
\* Fairness is strong where a task hands over a reply, because MaxSpeech, which
\* is not in the code, may hold it up.  The candidate and the watchdog need not do
\* anything; the browser sends an unacknowledged event again
\* (handle_proctoring_packet: "The browser retains unacknowledged events and
\* retries them.").
FairSpec ==
  /\ Spec
  /\ SF_vars(TurnStep) /\ SF_vars(BargeInStep)
  /\ WF_vars(AwayStep) /\ WF_vars(FinalizerStep) /\ WF_vars(PlayoutStep)
  /\ \A p \in Packets : /\ WF_vars(PacketStep(p))
                       /\ WF_vars(packet[p] = "retained" /\ PacketArrives(p))

-----------------------------------------------------------------------------
\* Properties.

TypeOK ==
  /\ question \in 0 .. MaxQuestions
  /\ ended \in BOOLEAN
  /\ mirror \in View
  /\ closed \in BOOLEAN
  /\ finalizeRequested \in BOOLEAN
  /\ bargeActive \in BOOLEAN
  /\ lock \in Owner \cup {"free"}
  /\ waiters \in Seq({"turn", "watch"})
  /\ turn \in {"idle", "pending", "created", "waiting", "running", "replying",
               "announcing", "yielding"}
  /\ answered \in 0 .. MaxQuestions
  /\ watch \in {"idle", "waiting", "running", "announcing", "speaking",
                "closing"}
  /\ away \in {"idle", "silence", "recovering", "announcing", "speaking",
               "closing"}
  /\ packet \in [Packets -> {"unsent", "recording", "retained", "terminated",
                             "enforcing", "interrupting", "flushing",
                             "enforced", "done"}]
  /\ finalizer \in {"idle", "draining", "completing", "done"}
  /\ scheduled \in BOOLEAN
  /\ kept \in View
  /\ copied \in [Packets -> View]
  /\ speech \in Seq(Speech)
  /\ playing \in BOOLEAN
  /\ open \in BOOLEAN
  /\ durable \in Status
  /\ enqueued \in 0 .. Cardinality(Packets) + 1
  /\ completions \in Nat
  /\ heard \in BOOLEAN
  /\ failures \in 0 .. MaxFailures

\* The lock is held by exactly the task whose run is in progress, and queued for
\* by exactly those that wait: a turn that is cut off leaves neither behind.
LockMatchesRuns ==
  /\ lock = "turn" <=> turn = "running"
  /\ lock = "watch" <=> watch = "running"
  /\ lock = "away" <=> away \in {"silence", "recovering"}
  /\ (\E i \in DOMAIN waiters : waiters[i] = "turn") <=> turn = "waiting"
  /\ (\E i \in DOMAIN waiters : waiters[i] = "watch") <=> watch = "waiting"

\* Once the agent enforces a termination, no closing in flight at that moment
\* completes the session, before or after.
EnforcedStaysTerminated ==
  (\E p \in Packets : packet[p] \in {"interrupting", "flushing", "enforced"})
    => durable = "TERMINATED"

\* However many tasks see the closing played, the session is completed once.
CompletedOnce == completions <= 1

\* A session the Core API has terminated stays terminated (livekit_agent.py:
\* "Policy termination must never enter the normal closing finalizer, which
\* would overwrite the durable TERMINATED status with COMPLETED.").
TerminationSticks == [][durable = "TERMINATED" => durable' = "TERMINATED"]_vars

\* The session is completed after its closing message has been played
\* (finalize_closing: "Complete durable lifecycle after closing audio has
\* finished.").
CompletedAfterClosingSpeech == durable = "COMPLETED" => heard

\* An answer is submitted while the question it was spoken to still stands
\* (track_user_state: "instead of classifying it against the next section's
\* question").
AnswersMeetTheirQuestion == turn = "running" => answered = question

\* A terminated session is evaluated, whether the agent enforced the
\* termination, found the interview closing, or was not told at first because
\* its call failed.
TerminatedIsEvaluated == durable = "TERMINATED" ~> enqueued > 0

\* An interview whose workflow has ended is finalized in the Core API.
EndedIsFinalized == ended ~> durable # "IN_PROGRESS"
=============================================================================
