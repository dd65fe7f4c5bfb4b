--------------------------- MODULE InterviewGraph ---------------------------
(***************************************************************************)
(* The checkpointed interview workflow and the bridge that resumes it.     *)
(*                                                                         *)
(* One action per graph node.  A run (one ainvoke call) executes nodes one *)
(* after the other, checkpointing after each, until it suspends at the     *)
(* interrupt of await_candidate_response or reaches the end; the bridge    *)
(* then copies the resulting values into its mirror.  A run may fail       *)
(* between two nodes: the exception leaves the mirror as it was, and the   *)
(* next event resumes the thread at the node that did not finish.  A       *)
(* reconnect builds a new bridge from the checkpoint.                      *)
(*                                                                         *)
(* What the candidate says is abstracted to the class the interviewer_turn *)
(* node gives it; what the bot says, to the kind of reply.                 *)
(***************************************************************************)
EXTENDS SectionTiming

CONSTANTS
  MaxClock,      \* bound: the clock stops here
  MaxTurns,      \* bound: turn_number from which the candidate takes no turn
  MaxFailures    \* bound: failed runs and reconnects

ASSUME BoundAssumption ==
  /\ MaxClock \in Nat
  /\ MaxTurns \in Nat
  /\ MaxFailures \in Nat

VARIABLES
  \* The checkpointed state.
  node,          \* the node the thread executes next
  place,         \* current section, its start and the budgets
  pending,       \* pending_section_index
  elapsed,       \* elapsed_secs
  event,         \* candidate_event
  response,      \* last_response_type, with clarification_type folded in
  accumulated,   \* answers in self_intro_accumulated_response; 2 is two or more
  stage,         \* silence_stage
  skips,         \* skip_attempts_for_current_question
  nextAction,    \* next_action
  reply,         \* bot_reply_type; "none" when bot_reply_text is empty
  shouldClose,   \* should_close
  closingDone,   \* closing_done, phase_complete and status CLOSING
  turn,          \* turn_number
  botTurn,       \* pending_bot_turn
  candTurn,      \* pending_candidate_turn
  task,          \* holistic_evaluation_task_id is recorded
  \* The process and its environment.
  running,       \* an ainvoke of the thread is in progress
  mirror,        \* bridge.state: what the bridge read last
  clock,         \* bridge.elapsed_secs()
  timer,         \* whether the official clock has been started
  failures,      \* failed runs and reconnects so far
  \* What left the process.
  transcript,    \* turns handed to background persistence
  enqueued,      \* evaluation tasks handed to Celery
  session,       \* durable session status in the Core API
  \* History, read by properties only.
  uttered,       \* utterances so far; numbers each one
  quiet          \* silences since the last question or candidate speech

checkpoint == <<node, place, pending, elapsed, event, response, accumulated,
                stage, skips, nextAction, reply, shouldClose, closingDone, turn, botTurn,
                candTurn, task>>
outside == <<transcript, enqueued, session>>
vars == <<checkpoint, running, mirror, clock, timer, failures, outside, uttered,
          quiet>>

Node == {"deliver_opening", "await_candidate_response", "interviewer_turn",
         "persist_candidate_output", "force_section_time_barge_in",
         "generate_bot_response", "generate_next_question",
         "generate_closing_message", "persist_bot_output", "final_evaluation",
         "end"}
EventType == {"none", "candidate_answer", "silence_timeout",
              "section_time_barge_in"}
Stage == {"none", "awaiting_think_confirmation", "thinking", "nudged"}
\* redirect: irrelevant, integrity_violation, interview_meta;
\* clarify: repeat_question, rephrase_question, question_doubt.
Response == {"none", "substantial", "thin", "silence", "redirect", "clarify",
             "time_to_think", "decline_think_time", "skip_question"}
Action == {"await_candidate_response", "interviewer_turn",
           "force_section_time_barge_in", "generate_bot_response",
           "generate_next_question", "generate_question", "generate_closing",
           "end"}
Reply == {"none", "opening", "question", "static", "closing"}
Speaker == {"bot", "candidate"}
Session == {"IN_PROGRESS", "COMPLETED"}
Timer == {"off", "requested", "running", "lost"}

\* A transcript item: its deterministic id is (speaker, number), its content
\* the utterance said.
Turn == [speaker : Speaker, number : Nat, said : Nat]
NoTurn == [speaker |-> "bot", number |-> 0, said |-> 0]

\* build_bot_turn and build_candidate_turn: numbered with the current turn.
BotTurn == [speaker |-> "bot", number |-> turn, said |-> uttered + 1]
CandidateTurn == [speaker |-> "candidate", number |-> turn, said |-> uttered + 1]
HandOver(t) == transcript \cup ({t} \ {NoTurn})

\* bridge.state as far as the bridge and the agent's watchdog consult it.
View == [place : Place, shouldClose : BOOLEAN, closingDone : BOOLEAN, reply : Reply]
CurrentView == [place |-> place, shouldClose |-> shouldClose,
                closingDone |-> closingDone, reply |-> reply]

\* The agent takes no more events once the mirror says closing.
Closed == mirror.shouldClose \/ mirror.closingDone

Init ==
  /\ node = "deliver_opening"
  /\ place = InitialPlace
  /\ pending = NoSection
  /\ elapsed = 0
  /\ event = [type |-> "none", at |-> 0]
  /\ response = "none"
  /\ accumulated = 0
  /\ stage = "none"
  /\ skips = 0
  /\ nextAction = "await_candidate_response"
  /\ reply = "none"
  /\ shouldClose = FALSE
  /\ closingDone = FALSE
  /\ turn = 1
  /\ botTurn = NoTurn
  /\ candTurn = NoTurn
  /\ task = FALSE
  /\ running = TRUE
  /\ mirror = CurrentView
  /\ clock = 0
  /\ timer = "off"
  /\ failures = 0
  /\ transcript = {}
  /\ enqueued = 0
  /\ session = "IN_PROGRESS"
  /\ uttered = 0
  /\ quiet = 0

\* A node of the thread executes.
Runs(n) == running /\ node = n
UnchangedByNodes == UNCHANGED <<running, mirror, clock, timer, failures, session>>

-----------------------------------------------------------------------------
\* deliver_opening
DeliverOpening ==
  /\ Runs("deliver_opening")
  /\ reply' = "opening"
  /\ botTurn' = BotTurn
  /\ uttered' = uttered + 1
  /\ nextAction' = "await_candidate_response"
  /\ node' = "persist_bot_output"
  /\ UnchangedByNodes
  /\ UNCHANGED <<place, pending, elapsed, event, response, accumulated, stage,
                 skips, shouldClose, closingDone, turn, candTurn, task,
                 transcript, enqueued, quiet>>

\* Mutant: a closing interview goes back to waiting.
RouteAlwaysToAwait == "await_candidate_response"

RouteAfterBotPersistence ==
  IF shouldClose \/ nextAction = "end"
  THEN "final_evaluation" ELSE "await_candidate_response"

\* persist_bot_output
PersistBotOutput ==
  /\ Runs("persist_bot_output")
  /\ transcript' = HandOver(botTurn)
  /\ botTurn' = NoTurn
  /\ node' = RouteAfterBotPersistence
  /\ UnchangedByNodes
  /\ UNCHANGED <<place, pending, elapsed, event, response, accumulated, stage,
                 skips, nextAction, reply, shouldClose, closingDone, turn,
                 candTurn, task, enqueued, uttered, quiet>>

\* The agent asks for the official clock when the opening begins to play.
TimerAfterSpeaking == IF reply = "opening" THEN "requested" ELSE "off"

\* The interrupt of await_candidate_response: ainvoke returns, the bridge
\* merges the result and the agent speaks the reply.
Suspend ==
  /\ Runs("await_candidate_response")
  /\ running' = FALSE
  /\ mirror' = CurrentView
  /\ timer' = IF timer = "off" THEN TimerAfterSpeaking ELSE timer
  /\ UNCHANGED <<checkpoint, clock, failures, outside, uttered, quiet>>

-----------------------------------------------------------------------------
\* The bridge submits an event: the awaiting node takes it, or, when the last
\* run failed elsewhere, the thread resumes there and the event is dropped.

Take(type, speech) ==
  /\ node = "await_candidate_response"
  /\ event' = [type |-> type, at |-> clock]
  /\ candTurn' = IF type = "section_time_barge_in" /\ ~speech
                 THEN NoTurn ELSE CandidateTurn
  /\ uttered' = IF candTurn' = NoTurn THEN uttered ELSE uttered + 1
  /\ reply' = "none"
  /\ nextAction' = IF type = "section_time_barge_in"
                   THEN "force_section_time_barge_in" ELSE "interviewer_turn"
  /\ node' = nextAction'
  /\ quiet' = IF type = "silence_timeout" THEN quiet + 1 ELSE 0
  /\ UNCHANGED <<place, pending, elapsed, response, accumulated, stage, skips,
                 shouldClose, closingDone, turn, botTurn, task>>

ResumeFailedRun ==
  /\ node \notin {"await_candidate_response", "end"}
  /\ UNCHANGED <<checkpoint, uttered, quiet>>

\* Mutant: a closed interview still takes events.
ResumeGraphWhenClosed(type, speech) ==
  /\ ~running
  /\ Take(type, speech) \/ ResumeFailedRun
  /\ running' = TRUE
  /\ UNCHANGED <<mirror, clock, timer, failures, outside>>

\* _resume_graph, under the agent's turn lock.  A turn that waited for the lock
\* while another one closed the interview finds phase_complete and does nothing.
ResumeGraph(type, speech) ==
  /\ ~running
  /\ ~Closed
  /\ Take(type, speech) \/ ResumeFailedRun
  /\ running' = TRUE
  /\ UNCHANGED <<mirror, clock, timer, failures, outside>>

SubmitCandidateTurn == turn < MaxTurns /\ ResumeGraph("candidate_answer", TRUE)

SubmitSilence == turn < MaxTurns /\ ResumeGraph("silence_timeout", FALSE)

\* handle_section_time_barge_in: a boundary of the mirrored section is reached,
\* which it checks again once it holds the lock.
SubmitSectionTimeBargeIn ==
  /\ WatchdogDue(mirror.place, clock)
  /\ \E speech \in BOOLEAN : ResumeGraph("section_time_barge_in", speech)

-----------------------------------------------------------------------------
\* interviewer_turn

\* A classification that generate_bot_response will answer.
ClassifiedAs(class) ==
  /\ response' = class
  /\ stage' = IF class \in {"silence", "time_to_think", "decline_think_time"}
              THEN stage ELSE "none"
  /\ nextAction' = "generate_bot_response"
  /\ UNCHANGED <<place, pending, elapsed, skips, reply, shouldClose, botTurn, uttered>>

\* Of the classes, the self-introduction knows only the deterministic ones.
StaticClass ==
  IF event.type = "silence_timeout" THEN {"silence"}
  ELSE IF place.intro
       THEN {"thin", "redirect", "clarify", "time_to_think", "skip_question"}
              \cup {c \in {"decline_think_time"} :
                      stage = "awaiting_think_confirmation"}
       ELSE {"thin", "redirect", "clarify", "time_to_think", "skip_question",
             "decline_think_time"}

AnswerEndsInterview ==
  /\ AnswerCloses(place, event.at)
  /\ shouldClose' = TRUE
  /\ pending' = NoSection
  /\ nextAction' = "generate_closing"
  /\ UNCHANGED <<place, reply, skips, botTurn, uttered>>

\* The second model call produced a usable question: it is asked at once.
AnswerStagesQuestion ==
  /\ ~AnswerCloses(place, event.at)
  /\ ~place.intro
  /\ place' = Ask(place, AnswerTarget(place, event.at), event.at)
  /\ pending' = NoSection
  /\ reply' = "question"
  /\ botTurn' = BotTurn
  /\ uttered' = uttered + 1
  /\ skips' = 0
  /\ shouldClose' = FALSE
  /\ nextAction' = "await_candidate_response"

AnswerNeedsQuestion ==
  /\ ~AnswerCloses(place, event.at)
  /\ pending' = AnswerTarget(place, event.at)
  /\ shouldClose' = FALSE
  /\ nextAction' = "generate_next_question"
  /\ UNCHANGED <<place, reply, skips, botTurn, uttered>>

SubstantialAnswer ==
  /\ event.type = "candidate_answer"
  /\ response' = "substantial"
  /\ elapsed' = event.at
  /\ stage' = "none"
  /\ AnswerEndsInterview \/ AnswerStagesQuestion \/ AnswerNeedsQuestion

\* An answer in the introduction, thin or not, is added to what was said there;
\* a question asked starts anew.
Accumulate ==
  IF reply' = "question" THEN 0
  ELSE IF place.intro /\ response' \in {"thin", "substantial"}
       THEN Lesser(accumulated + 1, 2)
       ELSE accumulated

InterviewerTurn ==
  /\ Runs("interviewer_turn")
  /\ \/ SubstantialAnswer
     \/ \E class \in StaticClass : ClassifiedAs(class)
  /\ node' = "persist_candidate_output"
  /\ accumulated' = Accumulate
  /\ quiet' = IF reply' = "question" THEN 0 ELSE quiet
  /\ UnchangedByNodes
  /\ UNCHANGED <<event, closingDone, turn, candTurn, task, transcript, enqueued>>

RouteAfterCandidatePersistence ==
  IF reply # "none" THEN "persist_bot_output"
  ELSE IF shouldClose \/ nextAction = "generate_closing" THEN "generate_closing_message"
  ELSE IF nextAction = "generate_next_question" THEN "generate_next_question"
  ELSE "generate_bot_response"

\* persist_candidate_output
PersistCandidateOutput ==
  /\ Runs("persist_candidate_output")
  /\ transcript' = HandOver(candTurn)
  /\ candTurn' = NoTurn
  /\ turn' = turn + 1
  /\ node' = RouteAfterCandidatePersistence
  /\ UnchangedByNodes
  /\ UNCHANGED <<place, pending, elapsed, event, response, accumulated, stage,
                 skips, nextAction, reply, shouldClose, closingDone, botTurn,
                 task, enqueued, uttered, quiet>>

-----------------------------------------------------------------------------
\* generate_bot_response, then _route_after_static_response

StaticReply(newStage, newSkips) ==
  /\ reply' = "static"
  /\ botTurn' = BotTurn
  /\ uttered' = uttered + 1
  /\ stage' = newStage
  /\ skips' = newSkips
  /\ nextAction' = "await_candidate_response"
  /\ node' = "persist_bot_output"

ContinueWithQuestion(newSkips) ==
  /\ reply' = "none"
  /\ botTurn' = NoTurn
  /\ stage' = "none"
  /\ skips' = newSkips
  /\ nextAction' = "generate_question"
  /\ node' = "generate_next_question"
  /\ UNCHANGED uttered

\* Mutant: the candidate is asked again instead of moving on.
AnswerSilenceAgain ==
  StaticReply(IF stage = "none" THEN "awaiting_think_confirmation" ELSE "none", skips)

\* Silence: offer time to think, then move on; a candidate who asked to think
\* is nudged once first.  The introduction is never skipped by silence.
AnswerSilence ==
  \/ stage = "none" /\ StaticReply("awaiting_think_confirmation", skips)
  \/ stage = "thinking" /\ StaticReply("nudged", skips)
  \/ /\ stage \in {"awaiting_think_confirmation", "nudged"}
     /\ IF place.intro THEN StaticReply("none", skips)
                       ELSE ContinueWithQuestion(skips)

\* A skip: ask once for a partial attempt, then move on.  Attempts beyond the
\* second are not told apart.
AnswerSkip ==
  LET attempts == Lesser(skips + 1, 2)
  IN IF attempts = 1 \/ place.intro THEN StaticReply("none", attempts)
                                    ELSE ContinueWithQuestion(attempts)

\* The introduction is tested again for being long enough, after the answer was
\* added to what was said there: unless it was the first, it counts twice, and
\* a thin one may pass.  Words are not counted, so either may happen.  (The
\* same test after a silence, which adds nothing, repeats the one before it.)
CountedTwice == response = "thin" /\ place.intro /\ accumulated = 2

GenerateBotResponse ==
  /\ Runs("generate_bot_response")
  /\ \/ response = "silence" /\ AnswerSilence
     \/ response = "skip_question" /\ AnswerSkip
     \/ response = "time_to_think" /\ StaticReply("thinking", skips)
     \/ /\ response \in {"thin", "redirect", "clarify", "decline_think_time"}
        /\ StaticReply("none", skips)
     \/ CountedTwice /\ ContinueWithQuestion(skips)
  /\ UnchangedByNodes
  /\ UNCHANGED <<place, pending, elapsed, event, response, accumulated,
                 shouldClose, closingDone, turn, candTurn, task, transcript,
                 enqueued, quiet>>

\* generate_next_question
GenerateNextQuestion ==
  /\ Runs("generate_next_question")
  /\ place' = Ask(place, pending, elapsed)
  /\ pending' = NoSection
  /\ reply' = "question"
  /\ botTurn' = BotTurn
  /\ uttered' = uttered + 1
  /\ skips' = 0
  /\ stage' = "none"
  /\ accumulated' = 0
  /\ nextAction' = "await_candidate_response"
  /\ node' = "persist_bot_output"
  /\ quiet' = 0
  /\ UnchangedByNodes
  /\ UNCHANGED <<elapsed, event, response, shouldClose, closingDone, turn,
                 candTurn, task, transcript, enqueued>>

-----------------------------------------------------------------------------
\* force_section_time_barge_in

\* Mutant: the closing route is missing.
RouteWithoutClosing(action) ==
  IF action = "await_candidate_response" THEN "await_candidate_response"
                                         ELSE "generate_next_question"

RouteAfterTimeBargeIn(action) ==
  CASE action = "generate_closing" -> "generate_closing_message"
    [] action = "await_candidate_response" -> "await_candidate_response"
    [] OTHER -> "generate_next_question"

\* Mutants: the interrupted speech is dropped; its number is used again.
DropInterruptedTurn ==
  /\ UNCHANGED transcript
  /\ candTurn' = NoTurn
  /\ turn' = turn + 1
KeepTurnNumber ==
  /\ transcript' = HandOver(candTurn)
  /\ candTurn' = NoTurn
  /\ UNCHANGED turn

\* The barge-in persists the interrupted candidate turn itself.
PersistInterruptedTurn ==
  /\ transcript' = HandOver(candTurn)
  /\ candTurn' = NoTurn
  /\ turn' = turn + 1

BargeInCloses ==
  /\ BargeCloses(place, event.at)
  /\ PersistInterruptedTurn
  /\ shouldClose' = TRUE
  /\ pending' = NoSection
  /\ nextAction' = "generate_closing"

BargeInMoves ==
  /\ BargeMoves(place, event.at)
  /\ PersistInterruptedTurn
  /\ shouldClose' = FALSE
  /\ pending' = NextSection(place, event.at)
  /\ nextAction' = "generate_question"

\* Not due after all: wait again.  The introduction drops the interrupted
\* turn; elsewhere it stays pending until the next event overwrites it.
BargeInIgnored ==
  /\ ~BargeCloses(place, event.at)
  /\ ~BargeMoves(place, event.at)
  /\ candTurn' = IF place.intro THEN NoTurn ELSE candTurn
  /\ nextAction' = "await_candidate_response"
  /\ UNCHANGED <<transcript, turn, shouldClose, pending>>

ForceSectionTimeBargeIn ==
  /\ Runs("force_section_time_barge_in")
  /\ elapsed' = event.at
  /\ BargeInCloses \/ BargeInMoves \/ BargeInIgnored
  /\ node' = RouteAfterTimeBargeIn(nextAction')
  /\ UnchangedByNodes
  /\ UNCHANGED <<place, event, response, accumulated, stage, skips, reply,
                 closingDone, botTurn, task, enqueued, uttered, quiet>>

-----------------------------------------------------------------------------
\* generate_closing_message
GenerateClosingMessage ==
  /\ Runs("generate_closing_message")
  /\ reply' = "closing"
  /\ botTurn' = BotTurn
  /\ uttered' = uttered + 1
  /\ shouldClose' = TRUE
  /\ closingDone' = TRUE
  /\ nextAction' = "end"
  /\ node' = "persist_bot_output"
  /\ UnchangedByNodes
  /\ UNCHANGED <<place, pending, elapsed, event, response, accumulated, stage,
                 skips, turn, candTurn, task, transcript, enqueued, quiet>>

\* trigger_final_evaluation: enqueue unless a task id is recorded; a broker
\* error is swallowed.
FinalEvaluation ==
  /\ Runs("final_evaluation")
  /\ \/ task' = TRUE /\ enqueued' = IF task THEN enqueued ELSE enqueued + 1
     \/ ~task /\ failures < MaxFailures /\ UNCHANGED <<task, enqueued>>
  /\ nextAction' = "end"
  /\ node' = "end"
  /\ UnchangedByNodes
  /\ UNCHANGED <<place, pending, elapsed, event, response, accumulated, stage,
                 skips, reply, shouldClose, closingDone, turn, botTurn, candTurn,
                 transcript, uttered, quiet>>

\* Mutant: the bridge does not merge the last result.
ReturnUnmerged ==
  /\ Runs("end")
  /\ running' = FALSE
  /\ UNCHANGED <<checkpoint, mirror, clock, timer, failures, outside, uttered, quiet>>

\* The graph ends: ainvoke returns and the bridge merges the result.
Return ==
  /\ Runs("end")
  /\ running' = FALSE
  /\ mirror' = CurrentView
  /\ UNCHANGED <<checkpoint, clock, timer, failures, outside, uttered, quiet>>

-----------------------------------------------------------------------------
\* The environment.

\* A run fails at a node, before or after the node's call to the outside but
\* in any case before its checkpoint: the bridge keeps its old mirror.
FailRun ==
  /\ running /\ node # "end"
  /\ failures < MaxFailures
  /\ failures' = failures + 1
  /\ running' = FALSE
  /\ \/ UNCHANGED <<transcript, enqueued>>
     \/ /\ node = "persist_bot_output"
        /\ transcript' = HandOver(botTurn)
        /\ UNCHANGED enqueued
     \/ /\ \/ node = "persist_candidate_output"
           \/ /\ node = "force_section_time_barge_in"
              /\ BargeCloses(place, event.at) \/ BargeMoves(place, event.at)
        /\ transcript' = HandOver(candTurn)
        /\ UNCHANGED enqueued
     \/ /\ node = "final_evaluation"
        /\ ~task
        /\ enqueued' = enqueued + 1
        /\ UNCHANGED transcript
  /\ UNCHANGED <<checkpoint, mirror, clock, timer, session, uttered, quiet>>

\* The candidate reconnects: a new bridge reads the checkpoint, and its clock
\* restarts from the elapsed time the Core API has stored, which may lag.
Reconnect ==
  /\ ~running
  /\ session = "IN_PROGRESS"
  /\ failures < MaxFailures
  /\ failures' = failures + 1
  /\ mirror' = CurrentView
  /\ clock' \in 0 .. clock
  /\ timer' = IF timer = "running" THEN timer ELSE TimerAfterSpeaking
  /\ UNCHANGED <<checkpoint, running, outside, uttered, quiet>>

\* start_timer.  The agent requests it once: a failed call is not repeated.
StartTimer ==
  /\ timer = "requested"
  /\ \/ timer' = "running" /\ UNCHANGED failures
     \/ timer' = "lost" /\ failures < MaxFailures /\ failures' = failures + 1
  /\ UNCHANGED <<checkpoint, running, mirror, clock, outside, uttered, quiet>>

\* finalize_closing, after a closing reply has been played.
FinalizeClosing ==
  /\ ~running
  /\ Closed
  /\ mirror.reply # "none"
  /\ session = "IN_PROGRESS"
  /\ session' = "COMPLETED"
  /\ mirror' = [mirror EXCEPT !.closingDone = TRUE]
  /\ UNCHANGED <<checkpoint, running, clock, timer, failures, transcript,
                 enqueued, uttered, quiet>>

Tick ==
  /\ timer = "running"
  /\ clock < MaxClock
  /\ clock' = clock + 1
  /\ UNCHANGED <<checkpoint, running, mirror, timer, failures, outside, uttered,
                 quiet>>

RunStep ==
  \/ DeliverOpening \/ PersistBotOutput \/ Suspend \/ InterviewerTurn
  \/ PersistCandidateOutput \/ GenerateBotResponse \/ GenerateNextQuestion
  \/ ForceSectionTimeBargeIn \/ GenerateClosingMessage \/ FinalEvaluation
  \/ Return

Next ==
  \/ RunStep
  \/ SubmitCandidateTurn \/ SubmitSilence \/ SubmitSectionTimeBargeIn
  \/ FailRun \/ Reconnect \/ StartTimer \/ FinalizeClosing \/ Tick

Spec == Init /\ [][Next]_vars

\* The process runs what it has started, the clock advances and the agent acts
\* on a due boundary; the candidate need not say anything.  The watchdog must
\* win the turn lock from the candidate, hence strong fairness; it is armed again
\* after a run that failed and by a reconnect.
FairSpec ==
  /\ Spec
  /\ WF_vars(RunStep)
  /\ WF_vars(StartTimer)
  /\ WF_vars(Tick)
  /\ WF_vars(FinalizeClosing)
  /\ SF_vars(SubmitSectionTimeBargeIn)

-----------------------------------------------------------------------------
\* Properties.

TypeOK ==
  /\ node \in Node
  /\ place \in Place
  /\ pending \in Section \cup {NoSection}
  /\ elapsed \in Nat
  /\ event \in [type : EventType, at : Nat]
  /\ response \in Response
  /\ accumulated \in 0 .. 2
  /\ stage \in Stage
  /\ skips \in 0 .. 2
  /\ nextAction \in Action
  /\ reply \in Reply
  /\ shouldClose \in BOOLEAN
  /\ closingDone \in BOOLEAN
  /\ turn \in Nat
  /\ botTurn \in Turn
  /\ candTurn \in Turn
  /\ task \in BOOLEAN
  /\ running \in BOOLEAN
  /\ mirror \in View
  /\ clock \in Nat
  /\ timer \in Timer
  /\ failures \in Nat
  /\ transcript \in SUBSET Turn
  /\ enqueued \in Nat
  /\ session \in Session
  /\ uttered \in Nat
  /\ quiet \in Nat

Suspended == ~running /\ node = "await_candidate_response"

\* While the interview waits for the candidate it is open and nothing is half
\* done: no closing decided, no section chosen but not entered, no bot turn
\* built but not persisted.  However the run before it was routed or failed.
WaitsOpen ==
  Suspended => /\ ~shouldClose
               /\ ~closingDone
               /\ pending = NoSection
               /\ botTurn = NoTurn

\* A silent candidate is asked at most once before the interview moves to
\* another question, and nudged at most once after asking for time to think;
\* only the self-introduction keeps waiting.
SilencePatience == Suspended /\ ~place.intro => quiet <= 1

\* Two different candidate utterances never get the same deterministic turn
\* id, which would make the second overwrite the first.
CandidateTurnsDistinct ==
  \A t, u \in transcript :
    t.speaker = "candidate" /\ u.speaker = "candidate" /\ t.number = u.number
      => t.said = u.said

\* When the evaluation is queued, everything said has been handed to
\* persistence, the closing message included.
EvaluationSeesEverything ==
  enqueued > 0 => closingDone /\ {t.said : t \in transcript} = 1 .. uttered

\* A session is completed only after the graph has run to its end, where it
\* queues the evaluation or records that it could not (finalize_closing:
\* "Interview completed; holistic evaluation is queued").
CompletedAfterEvaluation == session = "COMPLETED" => node = "end"

\* Once closing is decided it is carried out: no question is asked and the
\* decision is not revoked, whatever was routed or failed in between.
ClosingIsFinal ==
  [][shouldClose => shouldClose' /\ place' = place /\ reply' # "question"]_vars

\* The barge-in node agrees with the watchdog that sent the barge-in: as long
\* as no run has failed, so that the bridge's view is current, it moves on or
\* closes and never leaves the watchdog to fire again.
WatchdogAgreement ==
  [][ForceSectionTimeBargeIn /\ failures = 0
       => node' # "await_candidate_response"]_vars

\* When the introduction is left: at the answer that completes it, or, by an
\* answer counted twice, which decides no timing, at the time last recorded.
LeftAt == IF pending # NoSection THEN event.at ELSE elapsed

\* Leaving the introduction hands out to the later sections, to the second, what
\* was left of it when the answer that completed it was given, however often
\* the run failed in between; an answer counted twice hands out what was left at
\* the last timing decision, time used since then included.  No other step
\* changes a budget.
LeftoverConserved ==
  [][IF place.intro /\ place'.section # place.section
     THEN Cardinality(Slots(place'.budgets, Later(place)))
            = Reserved(place) + SectionRemaining(place, LeftAt)
     ELSE place'.budgets = place.budgets]_vars

\* The workflow and its bridge implement the lifecycle: sections only forward,
\* closing irrevocable, evaluation and completion only of a closing interview,
\* whichever runs fail and whenever the candidate reconnects.
Lifecycle == INSTANCE InterviewLifecycle WITH
  section <- place.section,
  intro <- place.intro,
  phase <- IF session = "COMPLETED" THEN "completed"
           ELSE IF shouldClose THEN "closing" ELSE "open",
  evaluations <- enqueued
ImplementsLifecycle == Lifecycle!Spec

\* Every interview whose clock runs is completed, even if the candidate never
\* speaks.
InterviewCompletes == <>(session = "COMPLETED")

\* The mirror of a reconnect between the decision and the closing message: the
\* agent takes no more events and has no closing to play.
Stranded == Closed /\ mirror.reply = "none"

\* Once the clock runs, a decision to close is carried through to the completed
\* session by the agent alone, whichever runs fail, unless a reconnect between
\* the decision and the closing message strands it.
ClosingCompletes ==
  shouldClose /\ timer = "running" ~> session = "COMPLETED" \/ Stranded
=============================================================================
