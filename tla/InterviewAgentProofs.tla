------------------------ MODULE InterviewAgentProofs ------------------------
(***************************************************************************)
(* Proofs about InterviewAgent, for any number of packets, questions and   *)
(* replies: types, a session is completed once, one whose termination the  *)
(* agent enforces stays terminated, the turn lock is with those that run.  *)
(***************************************************************************)
EXTENDS InterviewAgent, FiniteSetTheorems, SequenceTheorems, TLAPS

PacketState == {"unsent", "recording", "retained", "terminated", "enforcing",
                "interrupting", "flushing", "enforced", "done"}
\* Past the guard of _enforce_policy_termination.
Enforced == {"interrupting", "flushing", "enforced"}
\* Told by the Core API that the session is terminated, not enforced yet.
Told == {"terminated", "enforcing"}

\* The types the argument needs.
Types ==
  /\ question \in 0 .. MaxQuestions /\ ended \in BOOLEAN
  /\ mirror \in View /\ kept \in View /\ copied \in [Packets -> View]
  /\ packet \in [Packets -> PacketState]
  /\ closed \in BOOLEAN /\ finalizeRequested \in BOOLEAN
  /\ scheduled \in BOOLEAN
  /\ durable \in Status
  /\ finalizer \in {"idle", "draining", "completing", "done"}

\* An ended workflow is known to the bridge and to the agent, and they believe
\* no other interview closed, except one whose finalizer is suppressed.
Closing ==
  /\ ended => mirror.closing /\ closed
  /\ mirror.closing \/ closed => ended \/ finalizeRequested

\* Only an ended workflow leads to the closing finalizer.
ClosingTasks ==
  /\ scheduled => ended
  /\ watch \in {"announcing", "closing"} => ended
  /\ away \in {"announcing", "closing"} => ended
  /\ finalizer # "idle" => ended /\ finalizeRequested

\* The session is completed by the one finalizer there is.
Completing ==
  /\ completions = IF finalizer \in {"idle", "draining"} THEN 0 ELSE 1
  /\ durable = "COMPLETED" => finalizer \in {"completing", "done"}

\* No finalizer runs beside an enforcement, nor can one start.
Enforcing ==
  \A p \in Packets :
    /\ packet[p] \in Enforced
         => finalizeRequested /\ finalizer = "idle" /\ durable = "TERMINATED"
    /\ packet[p] \in Told
         => durable = "TERMINATED" \/ finalizer \in {"completing", "done"}

IInv == Types /\ Closing /\ ClosingTasks /\ Completing /\ Enforcing

USE DEF PacketState, Enforced, Told, Status

-----------------------------------------------------------------------------
\* The first state satisfies the invariant.
LEMMA InitInv == Init => IInv
<1> SUFFICES ASSUME Init PROVE IInv
  OBVIOUS
<1> USE DEF Init
<1>1. mirror \in View /\ ~mirror.closing
  BY AgentAssumption DEF View
<1>2. Types
  <2>1. question \in 0 .. MaxQuestions
    BY AgentAssumption
  <2>2. copied \in [Packets -> View]
    BY <1>1
  <2>3. packet \in [Packets -> PacketState]
    OBVIOUS
  <2> QED
    BY <1>1, <2>1, <2>2, <2>3 DEF Types
<1>3. Closing /\ ClosingTasks /\ Completing /\ Enforcing
  BY <1>1 DEF Closing, ClosingTasks, Completing, Enforcing
<1> QED
  BY <1>2, <1>3 DEF IInv

\* What a run leaves behind.
LEMMA RunTypes ==
  ASSUME Types, FinishRun
  PROVE  /\ question' \in 0 .. MaxQuestions /\ ended' \in BOOLEAN
         /\ mirror' \in View /\ closed' \in BOOLEAN
         /\ mirror'.closing = ended' /\ closed' = ended'
         /\ ended => ended'
<1>1. /\ question' \in 0 .. MaxQuestions /\ ended' \in BOOLEAN
      /\ ended => ended'
  <2>1. question \in 0 .. MaxQuestions /\ MaxQuestions \in Nat
          /\ ended \in BOOLEAN
    BY AgentAssumption DEF Types
  <2>2. CASE UNCHANGED <<question, ended>>
    BY <2>1, <2>2
  <2>3. CASE question < MaxQuestions /\ question' = question + 1
               /\ UNCHANGED ended
    BY <2>1, <2>3
  <2>4. CASE ended' = TRUE /\ UNCHANGED question
    BY <2>1, <2>4
  <2> QED
    BY <2>2, <2>3, <2>4 DEF FinishRun, Advance
<1>2. mirror' = [question |-> question', closing |-> ended',
                 complete |-> ended', task |-> ended',
                 status |-> IF ended' THEN "CLOSING" ELSE "IN_PROGRESS"]
  BY DEF FinishRun, Merge
<1>3. mirror' \in View
  BY <1>1, <1>2 DEF View
<1>4. mirror'.closing = ended' /\ closed' = mirror'.closing
  BY <1>2 DEF FinishRun, MarkClosed
<1> QED
  BY <1>1, <1>3, <1>4

\* A run keeps the invariant, whichever task it is that goes on to speak.
LEMMA RunInv ==
  ASSUME IInv, FinishRun,
         watch' = watch \/ (watch' = "announcing" => ended'),
         watch' # "closing" \/ watch' = watch,
         away' = away \/ (away' = "announcing" => ended'),
         away' # "closing" \/ away' = away,
         UNCHANGED <<finalizeRequested, packet, copied, finalizer, scheduled,
                     kept, durable, completions>>
  PROVE  IInv'
<1>1. Types'
  BY RunTypes DEF IInv, Types
<1>2. Closing'
  BY RunTypes DEF IInv, Closing
<1>3. ClosingTasks'
  BY RunTypes DEF IInv, ClosingTasks
<1>4. Completing' /\ Enforcing'
  BY DEF IInv, Completing, Enforcing
<1> QED
  BY <1>1, <1>2, <1>3, <1>4 DEF IInv

\* So does a step that leaves alone what the invariant is about; the tasks may
\* go on as long as none begins a closing.
LEMMA AsideInv ==
  ASSUME IInv,
         watch' = watch \/ watch' \notin {"announcing", "closing"}
           \/ (watch = "announcing" /\ watch' = "closing"),
         away' = away \/ away' \notin {"announcing", "closing"}
           \/ (away = "announcing" /\ away' = "closing"),
         closed' = closed \/ closed' = mirror.closing,
         UNCHANGED <<question, ended, mirror, finalizeRequested, packet, copied,
                     finalizer, scheduled, kept, durable, completions>>
  PROVE  IInv'
<1>0. mirror.closing \in BOOLEAN
  BY DEF IInv, Types, View
<1>1. Types'
  BY <1>0 DEF IInv, Types
<1>2. Closing'
  BY <1>0 DEF IInv, Closing, Types
<1>3. ClosingTasks'
  BY DEF IInv, ClosingTasks
<1>4. Completing' /\ Enforcing'
  BY DEF IInv, Completing, Enforcing
<1> QED
  BY <1>1, <1>2, <1>3, <1>4 DEF IInv

\* And so does a finalizer that starts when the workflow has ended.
LEMMA FinalizerInv ==
  ASSUME IInv, ended, FinalizeAfterClosing,
         watch' = watch \/ watch' = "idle",
         away' = away \/ away' = "idle",
         scheduled' = scheduled \/ scheduled' = FALSE,
         UNCHANGED <<question, ended, mirror, closed, packet, copied, durable,
                     completions>>
  PROVE  IInv'
<1>1. CASE UNCHANGED <<finalizeRequested, finalizer, kept>>
  BY <1>1 DEF IInv, Types, Closing, ClosingTasks, Completing, Enforcing
<1>2. CASE /\ ~finalizeRequested /\ finalizeRequested'
           /\ finalizer' = "draining" /\ kept' = mirror
  <2>1. finalizer = "idle"
    BY <1>2 DEF IInv, ClosingTasks
  <2>2. Types'
    BY <1>2 DEF IInv, Types
  <2>3. Closing' /\ ClosingTasks'
    BY <1>2 DEF IInv, Closing, ClosingTasks
  <2>4. Completing' /\ Enforcing'
    BY <1>2, <2>1 DEF IInv, Completing, Enforcing
  <2> QED
    BY <2>2, <2>3, <2>4 DEF IInv
<1>3. finalizeRequested' = TRUE => finalizeRequested'
  OBVIOUS
<1> QED
  BY <1>1, <1>2, <1>3 DEF FinalizeAfterClosing

-----------------------------------------------------------------------------
\* The steps, group by group.

\* The candidate turn, from the end of the speech to the end of the reply.
LEMMA TurnInv == ASSUME IInv, TurnStep \/ OnUserTurnCompleted PROVE IInv'
<1> USE DEF flags, workflow, userTurn, proctoring, closing, services, history,
            locking, room
<1>1. CASE OnUserTurnCompleted \/ LlmNode \/ AwaitTurnLock \/ YieldReply
             \/ EndLlmNode
  <2>1. UNCHANGED <<watch, away, closed>>
          /\ UNCHANGED <<question, ended, mirror, finalizeRequested, packet,
                         copied, finalizer, scheduled, kept, durable,
                         completions>>
    BY <1>1 DEF OnUserTurnCompleted, LlmNode, AwaitTurnLock, YieldReply,
                EndLlmNode
  <2> QED
    BY <2>1, AsideInv
<1>2. CASE StartTurnRun
  <2>1. (closed' = closed \/ closed' = mirror.closing)
          /\ UNCHANGED <<watch, away>>
          /\ UNCHANGED <<question, ended, mirror, finalizeRequested, packet,
                         copied, finalizer, scheduled, kept, durable,
                         completions>>
    BY <1>2 DEF StartTurnRun
  <2> QED
    BY <2>1, AsideInv
<1>3. CASE FinishTurnRun
  <2>1. FinishRun /\ UNCHANGED <<watch, away>>
          /\ UNCHANGED <<finalizeRequested, packet, copied, finalizer,
                         scheduled, kept, durable, completions>>
    BY <1>3 DEF FinishTurnRun
  <2> QED
    BY <2>1, RunInv
<1> QED
  BY <1>1, <1>2, <1>3 DEF TurnStep

\* The section watchdog and its barge-in.
LEMMA BargeInInv == ASSUME IInv, BargeInStep \/ WatchdogFires PROVE IInv'
<1> USE DEF flags, workflow, userTurn, proctoring, closing, services, history,
            locking, room
<1>1. CASE WatchdogFires \/ StartBargeIn \/ SayBargeInClosing
  <2>1. (watch' \in {"idle", "running", "waiting"}
           \/ (watch = "announcing" /\ watch' = "closing"))
          /\ UNCHANGED <<away, closed>>
          /\ UNCHANGED <<question, ended, mirror, finalizeRequested, packet,
                         copied, finalizer, scheduled, kept, durable,
                         completions>>
    BY <1>1 DEF WatchdogFires, StartBargeIn, SayBargeInClosing
  <2> QED
    BY <2>1, AsideInv
<1>2. CASE FinishBargeIn
  <2>1. FinishRun /\ UNCHANGED away
          /\ UNCHANGED <<finalizeRequested, packet, copied, finalizer,
                         scheduled, kept, durable, completions>>
    BY <1>2 DEF FinishBargeIn
  <2>2. watch' # "closing" /\ (watch' = "announcing" => ended')
    BY <1>2 DEF FinishBargeIn, ReplyStage
  <2> QED
    BY <2>1, <2>2, RunInv
<1>3. CASE EndBargeIn
  <2>1. watch' = "idle"
          /\ UNCHANGED <<away, scheduled, question, ended, mirror, closed,
                         packet, copied, durable, completions>>
    BY <1>3 DEF EndBargeIn
  <2>2. CASE watch = "closing"
    <3>1. ended /\ FinalizeAfterClosing
      BY <2>2, <1>3 DEF EndBargeIn, IInv, ClosingTasks
    <3> QED
      BY <2>1, <3>1, FinalizerInv
  <2>3. CASE watch # "closing"
    <3>1. UNCHANGED <<finalizeRequested, finalizer, kept>>
      BY <2>3, <1>3 DEF EndBargeIn
    <3> QED
      BY <2>1, <3>1, AsideInv
  <2> QED
    BY <2>2, <2>3
<1> QED
  BY <1>1, <1>2, <1>3 DEF BargeInStep

\* The handler of a silent candidate and its recovery.
LEMMA AwayInv == ASSUME IInv, AwayStep \/ HandleUserAway PROVE IInv'
<1> USE DEF flags, workflow, userTurn, proctoring, closing, services, history,
            locking, room
<1>1. CASE HandleUserAway \/ SayAwayClosing
  <2>1. (away' = away \/ away' \in {"silence", "recovering"}
           \/ (away = "announcing" /\ away' = "closing"))
          /\ (closed' = closed \/ closed' = mirror.closing)
          /\ UNCHANGED watch
          /\ UNCHANGED <<question, ended, mirror, finalizeRequested, packet,
                         copied, finalizer, scheduled, kept, durable,
                         completions>>
    BY <1>1 DEF HandleUserAway, SayAwayClosing
  <2> QED
    BY <2>1, AsideInv
<1>2. CASE FinishAway
  <2>1. FinishRun /\ UNCHANGED watch
          /\ UNCHANGED <<finalizeRequested, packet, copied, finalizer,
                         scheduled, kept, durable, completions>>
    BY <1>2 DEF FinishAway
  <2>2. away' # "closing" /\ (away' = "announcing" => ended')
    BY <1>2 DEF FinishAway, ReplyStage
  <2> QED
    BY <2>1, <2>2, RunInv
<1>3. CASE EndAway
  <2>1. away' = "idle"
          /\ UNCHANGED <<watch, scheduled, question, ended, mirror, closed,
                         packet, copied, durable, completions>>
    BY <1>3 DEF EndAway
  <2>2. CASE away = "closing"
    <3>1. ended /\ FinalizeAfterClosing
      BY <2>2, <1>3 DEF EndAway, IInv, ClosingTasks
    <3> QED
      BY <2>1, <3>1, FinalizerInv
  <2>3. CASE away # "closing"
    <3>1. UNCHANGED <<finalizeRequested, finalizer, kept>>
      BY <2>3, <1>3 DEF EndAway
    <3> QED
      BY <2>1, <3>1, AsideInv
  <2> QED
    BY <2>2, <2>3
<1> QED
  BY <1>1, <1>2, <1>3 DEF AwayStep

\* The playout of what the agent says.
LEMMA PlayoutInv == ASSUME IInv, PlayoutStep PROVE IInv'
<1> USE DEF flags, workflow, userTurn, proctoring, closing, services, history,
            locking, room
<1>1. CASE PlayoutStarts
  <2>1. UNCHANGED <<watch, away, closed>>
          /\ UNCHANGED <<question, ended, mirror, finalizeRequested, packet,
                         copied, finalizer, scheduled, kept, durable,
                         completions>>
    BY <1>1 DEF PlayoutStarts
  <2> QED
    BY <2>1, AsideInv
<1>2. CASE PlayoutEnds
  <2>1. /\ scheduled' = (scheduled \/ (closed /\ ~finalizeRequested
                                         /\ ~ClosingPlayoutPending))
        /\ UNCHANGED <<watch, away, closed, question, ended, mirror,
                       finalizeRequested, packet, copied, finalizer, kept,
                       durable, completions>>
    BY <1>2 DEF PlayoutEnds, TrackAgentStopped
  <2>2. scheduled' \in BOOLEAN /\ (scheduled' => ended)
    BY <2>1 DEF IInv, Closing, ClosingTasks
  <2>3. Types' /\ Closing'
    BY <2>1, <2>2 DEF IInv, Types, Closing
  <2>4. ClosingTasks' /\ Completing' /\ Enforcing'
    BY <2>1, <2>2 DEF IInv, ClosingTasks, Completing, Enforcing
  <2> QED
    BY <2>3, <2>4 DEF IInv
<1> QED
  BY <1>1, <1>2 DEF PlayoutStep

\* The closing finalizer: it completes the session once, and leaves a
\* terminated one.
LEMMA FinalizerStepInv == ASSUME IInv, FinalizerStep PROVE IInv'
<1> USE DEF flags, workflow, userTurn, proctoring, closing, services, history,
            locking, room
<1>1. CASE RunScheduledFinalizer
  <2>1. ended
    BY <1>1 DEF RunScheduledFinalizer, IInv, ClosingTasks
  <2>2. FinalizeAfterClosing /\ scheduled' = FALSE
          /\ UNCHANGED <<watch, away, question, ended, mirror, closed, packet,
                         copied, durable, completions>>
    BY <1>1 DEF RunScheduledFinalizer
  <2> QED
    BY <2>1, <2>2, FinalizerInv
<1>2. CASE CompleteSession
  <2>1. /\ finalizer = "draining" /\ finalizer' = "completing"
        /\ durable' = "COMPLETED" /\ completions' = completions + 1
        /\ UNCHANGED <<watch, away, closed, question, ended, mirror, scheduled,
                       finalizeRequested, packet, copied, kept>>
    BY <1>2 DEF CompleteSession
  <2>2. Types'
    BY <2>1 DEF IInv, Types
  <2>3. Closing' /\ ClosingTasks' /\ Completing'
    BY <2>1 DEF IInv, Closing, ClosingTasks, Completing
  <2>4. Enforcing'
    BY <2>1 DEF IInv, Enforcing
  <2> QED
    BY <2>2, <2>3, <2>4 DEF IInv
<1>3. CASE EndFinalizer
  <2>1. /\ finalizer = "completing" /\ finalizer' = "done"
        /\ mirror' = [kept EXCEPT !.closing = TRUE, !.status = "COMPLETED"]
        /\ UNCHANGED <<watch, away, closed, question, ended, durable, scheduled,
                       finalizeRequested, packet, copied, kept, completions>>
    BY <1>3 DEF EndFinalizer
  <2>2. mirror' \in View /\ mirror'.closing
    BY <2>1 DEF IInv, Types, View
  <2>3. Types'
    BY <2>1, <2>2 DEF IInv, Types
  <2>4. Closing' /\ ClosingTasks'
    BY <2>1, <2>2 DEF IInv, Closing, ClosingTasks
  <2>5. Completing' /\ Enforcing'
    BY <2>1 DEF IInv, Completing, Enforcing
  <2> QED
    BY <2>3, <2>4, <2>5 DEF IInv
<1> QED
  BY <1>1, <1>2, <1>3 DEF FinalizerStep

\* A proctoring packet, from its arrival to the enforcement of a termination.
LEMMA PacketInv ==
  ASSUME IInv, NEW p \in Packets,
         PacketArrives(p) \/ RecordFails(p) \/ PacketStep(p)
  PROVE  IInv'
<1> USE DEF flags, workflow, userTurn, proctoring, closing, services, history,
            locking, room
<1>1. CASE PacketArrives(p)
  <2>1. /\ packet' = [packet EXCEPT ![p] = "recording"]
        /\ UNCHANGED <<watch, away, closed, question, ended, mirror, durable,
                       scheduled, finalizeRequested, finalizer, copied, kept,
                       completions>>
    BY <1>1 DEF PacketArrives
  <2> QED
    BY <2>1 DEF IInv, Types, Closing, ClosingTasks, Completing, Enforcing
<1>2. CASE CoreApiRecords(p)
  <2>1. UNCHANGED <<watch, away, closed, question, ended, mirror, scheduled,
                    finalizeRequested, finalizer, copied, kept, completions>>
    BY <1>2 DEF CoreApiRecords
  <2>2. \/ /\ durable # "COMPLETED" /\ durable' = "TERMINATED"
           /\ packet' = [packet EXCEPT ![p] = "terminated"]
        \/ packet' = [packet EXCEPT ![p] = "done"] /\ durable' = durable
    BY <1>2 DEF CoreApiRecords
  <2>3. Types'
    BY <2>1, <2>2 DEF IInv, Types
  <2>4. Closing' /\ ClosingTasks' /\ Completing'
    BY <2>1, <2>2 DEF IInv, Closing, ClosingTasks, Completing
  <2>5. Enforcing'
    BY <2>1, <2>2 DEF IInv, Types, Enforcing
  <2> QED
    BY <2>3, <2>4, <2>5 DEF IInv
<1>3. CASE RecordReturns(p)
  <2>1. /\ packet[p] = "terminated"
        /\ packet' = [packet EXCEPT ![p] = "enforcing"]
        /\ mirror' = [mirror EXCEPT !.status = "TERMINATED"]
        /\ UNCHANGED <<watch, away, closed, question, ended, durable, scheduled,
                       finalizeRequested, finalizer, copied, kept, completions>>
    BY <1>3 DEF RecordReturns
  <2>2. mirror' \in View /\ mirror'.closing = mirror.closing
    BY <2>1 DEF IInv, Types, View
  <2>3. Types'
    BY <2>1, <2>2 DEF IInv, Types
  <2>4. Closing' /\ ClosingTasks' /\ Completing'
    BY <2>1, <2>2 DEF IInv, Closing, ClosingTasks, Completing
  <2>5. Enforcing'
    BY <2>1 DEF IInv, Types, Enforcing
  <2> QED
    BY <2>3, <2>4, <2>5 DEF IInv
<1>4. CASE EnforcePolicyTermination(p)
  <2>1. /\ packet[p] = "enforcing"
        /\ UNCHANGED <<watch, away, question, ended, mirror, durable, scheduled,
                       finalizer, copied, kept, completions>>
    BY <1>4 DEF EnforcePolicyTermination
  <2>2. CASE closed
    <3>1. packet' = [packet EXCEPT ![p] = "done"]
            /\ UNCHANGED <<closed, finalizeRequested>>
      BY <2>2, <1>4 DEF EnforcePolicyTermination
    <3> QED
      BY <2>1, <3>1
      DEF IInv, Types, Closing, ClosingTasks, Completing, Enforcing
  <2>3. CASE ~closed
    <3>1. packet' = [packet EXCEPT ![p] = "interrupting"]
            /\ closed' = TRUE /\ finalizeRequested' = TRUE
      BY <2>3, <1>4 DEF EnforcePolicyTermination, SuppressClosing
    <3>2. finalizer = "idle" /\ durable = "TERMINATED"
      BY <2>1, <2>3 DEF IInv, Closing, ClosingTasks, Enforcing
    <3>3. Types'
      BY <2>1, <3>1 DEF IInv, Types
    <3>4. Closing' /\ ClosingTasks' /\ Completing'
      BY <2>1, <3>1 DEF IInv, Closing, ClosingTasks, Completing
    <3>5. Enforcing'
      BY <2>1, <3>1, <3>2 DEF IInv, Types, Enforcing
    <3> QED
      BY <3>3, <3>4, <3>5 DEF IInv
  <2> QED
    BY <2>2, <2>3
<1>5. CASE InterruptSession(p)
  <2>1. /\ packet[p] = "interrupting"
        /\ packet' = [packet EXCEPT ![p] = "flushing"]
        /\ copied' = [copied EXCEPT ![p] = mirror]
        /\ UNCHANGED <<watch, away, closed, question, ended, mirror, durable,
                       scheduled, finalizeRequested, finalizer, kept,
                       completions>>
    BY <1>5 DEF InterruptSession
  <2>2. Types'
    BY <2>1 DEF IInv, Types
  <2>3. Closing' /\ ClosingTasks' /\ Completing'
    BY <2>1 DEF IInv, Closing, ClosingTasks, Completing
  <2>4. Enforcing'
    BY <2>1 DEF IInv, Types, Enforcing
  <2> QED
    BY <2>2, <2>3, <2>4 DEF IInv
<1>6. CASE EndTermination(p)
  <2>1. /\ packet[p] = "flushing"
        /\ packet' = [packet EXCEPT ![p] = "enforced"]
        /\ mirror' = [copied[p] EXCEPT !.closing = TRUE, !.task = TRUE,
                                       !.status = "TERMINATED"]
        /\ UNCHANGED <<watch, away, closed, question, ended, durable, scheduled,
                       finalizeRequested, finalizer, copied, kept, completions>>
    BY <1>6 DEF EndTermination, QueueTerminalEvaluation
  <2>2. copied[p] \in View
    BY DEF IInv, Types
  <2>3. mirror' \in View /\ mirror'.closing
    BY <2>1, <2>2 DEF View
  <2>4. finalizeRequested
    BY <2>1 DEF IInv, Enforcing
  <2>5. Types'
    BY <2>1, <2>3 DEF IInv, Types
  <2>6. Closing' /\ ClosingTasks' /\ Completing'
    BY <2>1, <2>3, <2>4 DEF IInv, Closing, ClosingTasks, Completing
  <2>7. Enforcing'
    BY <2>1 DEF IInv, Types, Enforcing
  <2> QED
    BY <2>5, <2>6, <2>7 DEF IInv
<1>7. CASE RecordFails(p)
  <2>1. /\ packet' = [packet EXCEPT ![p] = "retained"]
        /\ UNCHANGED <<watch, away, closed, question, ended, mirror, durable,
                       scheduled, finalizeRequested, finalizer, copied, kept,
                       completions>>
    BY <1>7 DEF RecordFails
  <2> QED
    BY <2>1 DEF IInv, Types, Closing, ClosingTasks, Completing, Enforcing
<1> QED
  BY <1>1, <1>2, <1>3, <1>4, <1>5, <1>6, <1>7 DEF PacketStep

\* Every step keeps the invariant.
LEMMA InvStep == IInv /\ [Next]_vars => IInv'
<1> SUFFICES ASSUME IInv, [Next]_vars PROVE IInv'
  OBVIOUS
<1>1. CASE UNCHANGED vars
  <2>1. UNCHANGED <<watch, away, closed>>
          /\ UNCHANGED <<question, ended, mirror, finalizeRequested, packet,
                         copied, finalizer, scheduled, kept, durable,
                         completions>>
    BY <1>1 DEF vars, flags, workflow, userTurn, proctoring, closing, services,
                history, locking, room
  <2> QED
    BY <2>1, AsideInv
<1>2. CASE Next
  BY <1>2, TurnInv, BargeInInv, AwayInv, PlayoutInv, FinalizerStepInv, PacketInv
  DEF Next
<1> QED
  BY <1>1, <1>2

-----------------------------------------------------------------------------
\* The inductive invariant of the agent's closing and terminating tasks.
THEOREM Invariance == Spec => []IInv
  BY InitInv, InvStep, PTL DEF Spec

\* However the end of playout, the tasks that say a closing and terminations
\* interleave, the session is completed at most once.
THEOREM CompletedAtMostOnce == Spec => []CompletedOnce
<1>1. IInv => CompletedOnce
  BY DEF IInv, Completing, CompletedOnce
<1> QED
  BY Invariance, <1>1, PTL

\* A termination the agent enforces is never overwritten, before or after.
THEOREM EnforcementHolds == Spec => []EnforcedStaysTerminated
<1>1. IInv => EnforcedStaysTerminated
  BY DEF IInv, Enforcing, EnforcedStaysTerminated
<1> QED
  BY Invariance, <1>1, PTL

-----------------------------------------------------------------------------
\* The turn lock.  A task waits for it at most once, so that a grant or a
\* cancellation takes it out of the queue for good.
Waiting(o) == \E i \in 1 .. Len(waiters) : waiters[i] = o

TurnStage == {"idle", "pending", "created", "waiting", "running", "replying",
              "announcing", "yielding"}
WatchStage == {"idle", "waiting", "running", "announcing", "speaking",
               "closing"}
AwayStage == {"idle", "silence", "recovering", "announcing", "speaking",
              "closing"}

LockTypes ==
  /\ lock \in Owner \cup {"free"}
  /\ waiters \in Seq({"turn", "watch"})
  /\ turn \in TurnStage /\ watch \in WatchStage /\ away \in AwayStage

QueuedOnce ==
  \A i, j \in 1 .. Len(waiters) : waiters[i] = waiters[j] => i = j

Holding ==
  /\ lock = "turn" <=> turn = "running"
  /\ lock = "watch" <=> watch = "running"
  /\ lock = "away" <=> away \in {"silence", "recovering"}

Queueing ==
  /\ Waiting("turn") <=> turn = "waiting"
  /\ Waiting("watch") <=> watch = "waiting"

LockInv == LockTypes /\ QueuedOnce /\ Holding /\ Queueing

\* The queue after one more task has come to wait.
LEMMA QueueGrows ==
  ASSUME LockTypes, QueuedOnce, NEW o \in {"turn", "watch"}, ~Waiting(o),
         waiters' = Append(waiters, o)
  PROVE  /\ waiters' \in Seq({"turn", "watch"}) /\ QueuedOnce'
         /\ \A q : Waiting(q)' <=> Waiting(q) \/ q = o
<1>1. /\ waiters \in Seq({"turn", "watch"}) /\ Len(waiters) \in Nat
      /\ waiters' \in Seq({"turn", "watch"}) /\ Len(waiters') = Len(waiters) + 1
      /\ \A i \in 1 .. Len(waiters) : waiters'[i] = waiters[i]
      /\ waiters'[Len(waiters) + 1] = o
  BY AppendProperties, LenProperties DEF LockTypes
<1>2. QueuedOnce'
  BY <1>1 DEF QueuedOnce, Waiting
<1>3. \A q : Waiting(q)' <=> Waiting(q) \/ q = o
  BY <1>1 DEF Waiting
<1> QED
  BY <1>1, <1>2, <1>3

\* The queue after the task at a place has left it.
LEMMA QueueShrinks ==
  ASSUME LockTypes, QueuedOnce, NEW k \in 1 .. Len(waiters),
         waiters' \in Seq({"turn", "watch"}),
         Len(waiters') = Len(waiters) - 1,
         \A i \in 1 .. Len(waiters') :
           waiters'[i] = IF i < k THEN waiters[i] ELSE waiters[i + 1]
  PROVE  QueuedOnce' /\ \A q : Waiting(q)' <=> Waiting(q) /\ q # waiters[k]
<1>1. Len(waiters) \in Nat /\ Len(waiters') \in Nat
  BY LenProperties DEF LockTypes
<1>2. QueuedOnce'
  BY <1>1 DEF QueuedOnce
<1>3. ASSUME NEW q
      PROVE  Waiting(q)' <=> Waiting(q) /\ q # waiters[k]
  <2>1. ASSUME Waiting(q)'
        PROVE  Waiting(q) /\ q # waiters[k]
    <3>1. PICK i \in 1 .. Len(waiters') : waiters'[i] = q
      BY <2>1 DEF Waiting
    <3>2. CASE i < k
      BY <1>1, <3>1, <3>2 DEF Waiting, QueuedOnce
    <3>3. CASE ~(i < k)
      BY <1>1, <3>1, <3>3 DEF Waiting, QueuedOnce
    <3> QED
      BY <3>2, <3>3
  <2>2. ASSUME Waiting(q), q # waiters[k]
        PROVE  Waiting(q)'
    <3>1. PICK i \in 1 .. Len(waiters) : waiters[i] = q
      BY <2>2 DEF Waiting
    <3>2. CASE i < k
      BY <1>1, <3>1, <3>2 DEF Waiting
    <3>3. CASE i > k
      <4>1. i - 1 \in 1 .. Len(waiters') /\ waiters'[i - 1] = q
        BY <1>1, <3>1, <3>3
      <4> QED
        BY <4>1 DEF Waiting
    <3> QED
      BY <1>1, <2>2, <3>1, <3>2, <3>3
  <2> QED
    BY <2>1, <2>2
<1> QED
  BY <1>2, <1>3

\* A grant takes the owner out of the queue, where it was first, if at all.
LEMMA GrantQueue ==
  ASSUME LockInv, NEW o \in {"turn", "watch"}, Granted(o)
  PROVE  /\ waiters' \in Seq({"turn", "watch"}) /\ QueuedOnce'
         /\ lock = "free"
         /\ \A q : Waiting(q)' <=> Waiting(q) /\ q # o
<1>1. /\ waiters \in Seq({"turn", "watch"}) /\ LockTypes /\ QueuedOnce
      /\ lock = "free"
  BY DEF LockInv, LockTypes, Granted
<1>2. CASE waiters = <<>> /\ UNCHANGED waiters
  <2>1. Len(waiters) = 0
    BY <1>2
  <2> QED
    BY <1>1, <1>2, <2>1 DEF Waiting, QueuedOnce
<1>3. CASE waiters # <<>> /\ Head(waiters) = o /\ waiters' = Tail(waiters)
  <2>1. /\ waiters' \in Seq({"turn", "watch"})
        /\ Len(waiters') = Len(waiters) - 1 /\ Len(waiters) \in Nat \ {0}
        /\ \A i \in 1 .. Len(waiters') : waiters'[i] = waiters[i + 1]
        /\ waiters[1] = o
    BY <1>1, <1>3, HeadTailProperties, EmptySeq
  <2>2. 1 \in 1 .. Len(waiters)
    BY <2>1
  <2>3. \A i \in 1 .. Len(waiters') :
          waiters'[i] = IF i < 1 THEN waiters[i] ELSE waiters[i + 1]
    BY <2>1
  <2> QED
    BY <1>1, <2>1, <2>2, <2>3, QueueShrinks
<1> QED
  BY <1>2, <1>3 DEF Granted

USE DEF Owner, TurnStage, WatchStage, AwayStage

\* A step of a task that neither takes, leaves nor waits for the lock.
LEMMA LockAside ==
  ASSUME LockInv, UNCHANGED locking,
         turn' \in TurnStage, watch' \in WatchStage, away' \in AwayStage,
         turn' = "running" <=> turn = "running",
         turn' = "waiting" <=> turn = "waiting",
         watch' = "running" <=> watch = "running",
         watch' = "waiting" <=> watch = "waiting",
         away' \in {"silence", "recovering"} <=>
           away \in {"silence", "recovering"}
  PROVE  LockInv'
<1>1. UNCHANGED <<lock, waiters>>
  BY DEF locking
<1>2. LockTypes' /\ QueuedOnce'
  BY <1>1 DEF LockInv, LockTypes, QueuedOnce
<1>3. Holding'
  BY <1>1 DEF LockInv, Holding
<1>4. Queueing'
  BY <1>1 DEF LockInv, Queueing, Waiting
<1> QED
  BY <1>2, <1>3, <1>4 DEF LockInv

\* The end of a run frees the lock.
LEMMA LockFreed ==
  ASSUME LockInv, lock' = "free", UNCHANGED waiters,
         turn' \in TurnStage, watch' \in WatchStage, away' \in AwayStage,
         turn' # "running", turn' = "waiting" <=> turn = "waiting",
         watch' # "running", watch' = "waiting" <=> watch = "waiting",
         away' \notin {"silence", "recovering"}
  PROVE  LockInv'
<1>1. LockTypes' /\ QueuedOnce'
  BY DEF LockInv, LockTypes, QueuedOnce
<1>2. Holding'
  BY DEF Holding
<1>3. Queueing'
  BY DEF LockInv, Queueing, Waiting
<1> QED
  BY <1>1, <1>2, <1>3 DEF LockInv

\* The candidate turn waits for the lock, takes it and leaves it.
LEMMA TurnLock ==
  ASSUME LockInv, TurnStep \/ OnUserTurnCompleted
  PROVE  LockInv'
<1> USE DEF userTurn, locking
<1>0. LockTypes /\ QueuedOnce /\ Holding /\ Queueing
  BY DEF LockInv
<1>1. CASE OnUserTurnCompleted \/ LlmNode \/ YieldReply \/ EndLlmNode
  <2>1. /\ UNCHANGED <<locking, watch, away>> /\ turn' \in TurnStage
        /\ turn \notin {"running", "waiting"}
        /\ turn' \notin {"running", "waiting"}
    BY <1>1 DEF OnUserTurnCompleted, LlmNode, YieldReply, EndLlmNode
  <2>2. watch' \in WatchStage /\ away' \in AwayStage
    BY <1>0, <2>1 DEF LockTypes
  <2> QED
    BY <2>1, <2>2, LockAside
<1>2. CASE AwaitTurnLock
  <2>1. /\ turn = "created" /\ turn' = "waiting"
        /\ waiters' = Append(waiters, "turn")
        /\ UNCHANGED <<lock, watch, away>>
    BY <1>2 DEF AwaitTurnLock
  <2>2. ~Waiting("turn")
    BY <1>0, <2>1 DEF Queueing
  <2>3. /\ waiters' \in Seq({"turn", "watch"}) /\ QueuedOnce'
        /\ \A q : Waiting(q)' <=> Waiting(q) \/ q = "turn"
    BY <1>0, <2>1, <2>2, QueueGrows
  <2>4. LockTypes' /\ Holding'
    BY <1>0, <2>1, <2>3 DEF LockTypes, Holding
  <2>5. Queueing'
    BY <1>0, <2>1, <2>3 DEF Queueing
  <2> QED
    BY <2>3, <2>4, <2>5 DEF LockInv
<1>3. CASE StartTurnRun
  <2>1. /\ turn \in {"created", "waiting"} /\ Granted("turn")
        /\ \/ turn' = "idle" /\ lock' = lock
           \/ turn' = "running" /\ lock' = "turn"
        /\ UNCHANGED <<watch, away>>
    BY <1>3 DEF StartTurnRun
  <2>2. /\ waiters' \in Seq({"turn", "watch"}) /\ QueuedOnce' /\ lock = "free"
        /\ \A q : Waiting(q)' <=> Waiting(q) /\ q # "turn"
    BY <2>1, GrantQueue
  <2>3. LockTypes' /\ Holding'
    BY <1>0, <2>1, <2>2 DEF LockTypes, Holding
  <2>4. Queueing'
    BY <1>0, <2>1, <2>2 DEF Queueing
  <2> QED
    BY <2>2, <2>3, <2>4 DEF LockInv
<1>4. CASE FinishTurnRun
  <2>1. /\ turn = "running" /\ turn' \in {"announcing", "replying"}
        /\ lock' = "free" /\ UNCHANGED <<waiters, watch, away>>
    BY <1>4 DEF FinishTurnRun, FinishRun
  <2>2. lock = "turn" /\ watch \in WatchStage /\ away \in AwayStage
    BY <1>0, <2>1 DEF Holding, LockTypes
  <2>3. watch # "running" /\ away \notin {"silence", "recovering"}
    BY <1>0, <2>2 DEF Holding
  <2> QED
    BY <2>1, <2>2, <2>3, LockFreed
<1> QED
  BY <1>1, <1>2, <1>3, <1>4 DEF TurnStep

\* So does the barge-in of the watchdog.
LEMMA BargeInLock ==
  ASSUME LockInv, BargeInStep \/ WatchdogFires
  PROVE  LockInv'
<1> USE DEF userTurn, locking
<1>0. LockTypes /\ QueuedOnce /\ Holding /\ Queueing
  BY DEF LockInv
<1>1. CASE SayBargeInClosing \/ EndBargeIn
  <2>1. /\ UNCHANGED <<locking, turn, away>> /\ watch' \in {"closing", "idle"}
        /\ watch \in {"announcing", "speaking", "closing"}
    BY <1>1 DEF SayBargeInClosing, EndBargeIn
  <2>2. turn' \in TurnStage /\ away' \in AwayStage
    BY <1>0, <2>1 DEF LockTypes
  <2> QED
    BY <2>1, <2>2, LockAside
<1>2. CASE WatchdogFires
  <2>1. watch = "idle" /\ UNCHANGED <<turn, away>>
    BY <1>2 DEF WatchdogFires
  <2>2. CASE LockIsFree
    <3>1. /\ lock = "free" /\ watch' = "running" /\ lock' = "watch"
          /\ waiters' = waiters
      BY <1>2, <2>2 DEF WatchdogFires, LockIsFree
    <3>2. LockTypes' /\ QueuedOnce' /\ Holding'
      BY <1>0, <2>1, <3>1 DEF LockTypes, QueuedOnce, Holding
    <3>3. Queueing'
      BY <1>0, <2>1, <3>1 DEF Queueing, Waiting
    <3> QED
      BY <3>2, <3>3 DEF LockInv
  <2>3. CASE ~LockIsFree
    <3>1. /\ watch' = "waiting" /\ waiters' = Append(waiters, "watch")
          /\ lock' = lock
      BY <1>2, <2>3 DEF WatchdogFires
    <3>2. ~Waiting("watch")
      BY <1>0, <2>1 DEF Queueing
    <3>3. /\ waiters' \in Seq({"turn", "watch"}) /\ QueuedOnce'
          /\ \A q : Waiting(q)' <=> Waiting(q) \/ q = "watch"
      BY <1>0, <3>1, <3>2, QueueGrows
    <3>4. LockTypes' /\ Holding'
      BY <1>0, <2>1, <3>1, <3>3 DEF LockTypes, Holding
    <3>5. Queueing'
      BY <1>0, <2>1, <3>1, <3>3 DEF Queueing
    <3> QED
      BY <3>3, <3>4, <3>5 DEF LockInv
  <2> QED
    BY <2>2, <2>3
<1>3. CASE StartBargeIn
  <2>1. /\ watch = "waiting" /\ Granted("watch")
        /\ \/ watch' = "running" /\ lock' = "watch"
           \/ watch' = "idle" /\ lock' = lock
        /\ UNCHANGED <<turn, away>>
    BY <1>3 DEF StartBargeIn
  <2>2. /\ waiters' \in Seq({"turn", "watch"}) /\ QueuedOnce' /\ lock = "free"
        /\ \A q : Waiting(q)' <=> Waiting(q) /\ q # "watch"
    BY <2>1, GrantQueue
  <2>3. LockTypes' /\ Holding'
    BY <1>0, <2>1, <2>2 DEF LockTypes, Holding
  <2>4. Queueing'
    BY <1>0, <2>1, <2>2 DEF Queueing
  <2> QED
    BY <2>2, <2>3, <2>4 DEF LockInv
<1>4. CASE FinishBargeIn
  <2>1. /\ watch = "running" /\ watch' \in {"idle", "announcing", "speaking"}
        /\ lock' = "free" /\ UNCHANGED <<waiters, turn, away>>
    BY <1>4 DEF FinishBargeIn, FinishRun, ReplyStage
  <2>2. lock = "watch" /\ turn \in TurnStage /\ away \in AwayStage
    BY <1>0, <2>1 DEF Holding, LockTypes
  <2>3. turn # "running" /\ away \notin {"silence", "recovering"}
    BY <1>0, <2>2 DEF Holding
  <2> QED
    BY <2>1, <2>2, <2>3, LockFreed
<1> QED
  BY <1>1, <1>2, <1>3, <1>4 DEF BargeInStep

\* A silent candidate is recovered only where the lock is free at once.
LEMMA AwayLock ==
  ASSUME LockInv, AwayStep \/ HandleUserAway
  PROVE  LockInv'
<1> USE DEF userTurn, locking
<1>0. LockTypes /\ QueuedOnce /\ Holding /\ Queueing
  BY DEF LockInv
<1>1. CASE SayAwayClosing \/ EndAway
  <2>1. /\ UNCHANGED <<locking, turn, watch>> /\ away' \in {"closing", "idle"}
        /\ away \in {"announcing", "speaking", "closing"}
    BY <1>1 DEF SayAwayClosing, EndAway
  <2>2. turn' \in TurnStage /\ watch' \in WatchStage
    BY <1>0, <2>1 DEF LockTypes
  <2> QED
    BY <2>1, <2>2, LockAside
<1>2. CASE HandleUserAway
  <2>1. /\ away = "idle" /\ lock = "free" /\ UNCHANGED <<waiters, turn, watch>>
        /\ \/ away' \in {"silence", "recovering"} /\ lock' = "away"
           \/ away' = away /\ lock' = lock
    BY <1>2 DEF HandleUserAway, LockIsFree
  <2>2. LockTypes' /\ QueuedOnce' /\ Holding'
    BY <1>0, <2>1 DEF LockTypes, QueuedOnce, Holding
  <2>3. Queueing'
    BY <1>0, <2>1 DEF Queueing, Waiting
  <2> QED
    BY <2>2, <2>3 DEF LockInv
<1>3. CASE FinishAway
  <2>1. /\ away \in {"silence", "recovering"}
        /\ away' \in {"announcing", "speaking"}
        /\ lock' = "free" /\ UNCHANGED <<waiters, turn, watch>>
    BY <1>3 DEF FinishAway, FinishRun, ReplyStage
  <2>2. lock = "away" /\ turn \in TurnStage /\ watch \in WatchStage
    BY <1>0, <2>1 DEF Holding, LockTypes
  <2>3. turn # "running" /\ watch # "running"
    BY <1>0, <2>2 DEF Holding
  <2> QED
    BY <2>1, <2>2, <2>3, LockFreed
<1> QED
  BY <1>1, <1>2, <1>3 DEF AwayStep

\* A turn that is cut off leaves the lock and the queue.
LEMMA InterruptLock ==
  ASSUME LockInv, NEW p \in Packets, InterruptSession(p)
  PROVE  LockInv'
<1> USE DEF userTurn, locking
<1>0. LockTypes /\ QueuedOnce /\ Holding /\ Queueing
  BY DEF LockInv
<1>1. UNCHANGED <<watch, away>>
  BY DEF InterruptSession
<1>2. CASE UNCHANGED <<locking, turn>>
  BY <1>0, <1>1, <1>2, LockAside DEF LockTypes
<1>3. CASE CancelTurn
  <2>1. /\ turn \notin {"idle", "pending"} /\ turn' = "idle"
        /\ lock' = IF lock = "turn" THEN "free" ELSE lock
    BY <1>3 DEF CancelTurn
  <2>2. /\ waiters' \in Seq({"turn", "watch"}) /\ QueuedOnce'
        /\ \A q : Waiting(q)' <=> Waiting(q) /\ q # "turn"
    <3>1. CASE turn = "waiting"
      <4>1. PICK k \in 1 .. Len(waiters) :
              /\ waiters[k] = "turn"
              /\ waiters' = SubSeq(waiters, 1, k - 1)
                            \o SubSeq(waiters, k + 1, Len(waiters))
        BY <1>0, <1>3, <3>1, LenProperties DEF CancelTurn, LockTypes
      <4>2. /\ waiters \in Seq({"turn", "watch"}) /\ Len(waiters) \in Nat
            /\ \A i \in 1 .. Len(waiters) : waiters[i] \in {"turn", "watch"}
        BY <1>0, LenProperties, ElementOfSeq DEF LockTypes
      <4>3. PICK before : before = SubSeq(waiters, 1, k - 1)
        OBVIOUS
      <4>4. PICK after : after = SubSeq(waiters, k + 1, Len(waiters))
        OBVIOUS
      <4>5. /\ before \in Seq({"turn", "watch"}) /\ Len(before) = k - 1
            /\ \A i \in 1 .. k - 1 : before[i] = waiters[i]
        BY <4>2, <4>3, SubSeqProperties
      <4>6. /\ after \in Seq({"turn", "watch"}) /\ Len(after) = Len(waiters) - k
            /\ \A i \in 1 .. Len(waiters) - k : after[i] = waiters[k + i]
        BY <4>2, <4>4, SubSeqProperties
      <4>7. waiters' = before \o after
        BY <4>1, <4>3, <4>4
      <4>8. /\ before \o after \in Seq({"turn", "watch"})
            /\ Len(before \o after) = Len(before) + Len(after)
            /\ \A i \in 1 .. Len(before) + Len(after) :
                 (before \o after)[i] = IF i <= Len(before)
                                         THEN before[i]
                                         ELSE after[i - Len(before)]
        BY <4>5, <4>6, ConcatProperties
      <4>9. /\ waiters' \in Seq({"turn", "watch"})
            /\ Len(waiters') = Len(waiters) - 1
        BY <4>2, <4>5, <4>6, <4>7, <4>8
      <4>10. ASSUME NEW i \in 1 .. Len(waiters')
             PROVE  waiters'[i] = IF i < k THEN waiters[i] ELSE waiters[i + 1]
        <5>1. waiters'[i] = IF i <= k - 1 THEN before[i] ELSE after[i - (k - 1)]
          BY <4>2, <4>5, <4>6, <4>7, <4>8, <4>9
        <5>2. CASE i < k
          BY <4>2, <4>5, <4>9, <5>1, <5>2
        <5>3. CASE ~(i < k)
          <6>1. /\ i - (k - 1) \in 1 .. Len(waiters) - k
                /\ k + (i - (k - 1)) = i + 1
            BY <4>2, <4>9, <5>3
          <6>2. waiters'[i] = after[i - (k - 1)]
            BY <4>2, <5>1, <5>3
          <6> QED
            BY <4>6, <5>3, <6>1, <6>2
        <5> QED
          BY <5>2, <5>3
      <4> QED
        BY <1>0, <4>1, <4>9, <4>10, QueueShrinks
    <3>2. CASE turn # "waiting"
      <4>1. waiters' = waiters
        BY <1>3, <3>2 DEF CancelTurn
      <4>2. ~Waiting("turn")
        BY <1>0, <3>2 DEF Queueing
      <4> QED
        BY <1>0, <4>1, <4>2 DEF LockTypes, QueuedOnce, Waiting
    <3> QED
      BY <3>1, <3>2
  <2>3. LockTypes' /\ Holding'
    BY <1>0, <1>1, <2>1, <2>2 DEF LockTypes, Holding
  <2>4. Queueing'
    BY <1>0, <1>1, <2>1, <2>2 DEF Queueing
  <2> QED
    BY <2>2, <2>3, <2>4 DEF LockInv
<1> QED
  BY <1>2, <1>3 DEF InterruptSession

\* The rest leaves the lock alone.
LEMMA LockStep == LockInv /\ [Next]_vars => LockInv'
<1> SUFFICES ASSUME LockInv, [Next]_vars PROVE LockInv'
  OBVIOUS
<1>1. ASSUME UNCHANGED <<locking, turn, watch, away>>
      PROVE  LockInv'
  BY <1>1, LockAside DEF LockInv, LockTypes
<1>2. CASE UNCHANGED vars
  BY <1>1, <1>2 DEF vars, userTurn, locking
<1>3. CASE PlayoutStep \/ FinalizerStep
  <2>1. UNCHANGED <<locking, turn, watch, away>>
    BY <1>3 DEF PlayoutStep, FinalizerStep, PlayoutStarts, PlayoutEnds,
       RunScheduledFinalizer, CompleteSession, EndFinalizer, userTurn, locking
  <2> QED
    BY <1>1, <2>1
<1>4. ASSUME NEW p \in Packets,
             PacketArrives(p) \/ RecordFails(p) \/ PacketStep(p)
      PROVE  LockInv'
  <2>1. CASE InterruptSession(p)
    BY <2>1, InterruptLock
  <2>2. CASE ~InterruptSession(p)
    <3>1. UNCHANGED <<locking, turn, watch, away>>
      BY <1>4, <2>2 DEF PacketArrives, RecordFails, PacketStep, CoreApiRecords,
         RecordReturns, EnforcePolicyTermination, EndTermination, userTurn,
         locking
    <3> QED
      BY <1>1, <3>1
  <2> QED
    BY <2>1, <2>2
<1> QED
  BY <1>2, <1>3, <1>4, TurnLock, BargeInLock, AwayLock DEF Next

\* The lock is free at first and nobody waits.
LEMMA LockInit == Init => LockInv
<1> SUFFICES ASSUME Init PROVE LockInv
  OBVIOUS
<1>1. waiters \in Seq({"turn", "watch"}) /\ Len(waiters) = 0
  BY EmptySeq DEF Init
<1>2. LockTypes /\ Holding
  BY <1>1 DEF Init, LockTypes, Holding
<1>3. QueuedOnce /\ Queueing
  BY <1>1 DEF Init, QueuedOnce, Queueing, Waiting
<1> QED
  BY <1>2, <1>3 DEF LockInv

\* The lock is held by the task whose run is in progress and queued for by those
\* that wait, whatever is cut off, for any number of packets and replies.
THEOREM LocksMatch == Spec => []LockMatchesRuns
<1>1. LockInv => LockMatchesRuns
  <2> SUFFICES ASSUME LockInv PROVE LockMatchesRuns
    OBVIOUS
  <2>1. DOMAIN waiters = 1 .. Len(waiters)
    BY LenProperties DEF LockInv, LockTypes
  <2>2. \A q : Waiting(q) <=> \E i \in DOMAIN waiters : waiters[i] = q
    BY <2>1 DEF Waiting
  <2> QED
    BY <2>2 DEF LockInv, Holding, Queueing, LockMatchesRuns
<1> QED
  BY LockInit, LockStep, <1>1, PTL DEF Spec
-----------------------------------------------------------------------------
\* The types of what is left, and the number of evaluations: one for the end of
\* the workflow and one for every enforced termination.
SpeechTypes ==
  /\ speech \in Seq(Speech) /\ playing \in BOOLEAN /\ heard \in BOOLEAN
  /\ playing => speech # <<>>

FlagTypes ==
  /\ answered \in 0 .. MaxQuestions /\ bargeActive \in BOOLEAN
  /\ open \in BOOLEAN /\ failures \in 0 .. MaxFailures

Terminations == {p \in Packets : packet[p] = "enforced"}

Counting ==
  /\ enqueued \in Nat
  /\ enqueued <= (IF ended THEN 1 ELSE 0) + Cardinality(Terminations)

\* One more reply keeps the types of the speech.
LEMMA SpeechGrows ==
  ASSUME SpeechTypes, NEW r \in Speech, speech' = Append(speech, r),
         UNCHANGED <<playing, heard>>
  PROVE  SpeechTypes'
<1>1. /\ speech' \in Seq(Speech) /\ Len(speech') = Len(speech) + 1
      /\ Len(speech) \in Nat
  BY AppendProperties, LenProperties DEF SpeechTypes
<1>2. speech' # <<>>
  BY <1>1, EmptySeq
<1> QED
  BY <1>1, <1>2 DEF SpeechTypes

\* What a task says is a reply of its own.
LEMMA SaysSpeech ==
  ASSUME SpeechTypes, NEW owner \in Owner, NEW isClosing \in BOOLEAN,
         Say(owner, isClosing), UNCHANGED <<playing, heard>>
  PROVE  SpeechTypes'
<1>1. [owner |-> owner, closing |-> isClosing] \in Speech
  BY DEF Speech
<1> QED
  BY <1>1, SpeechGrows DEF Say

\* A reply of the workflow is said, unless there is none.
LEMMA RepliesSpeech ==
  ASSUME SpeechTypes, NEW owner \in Owner, SayReply(owner),
         UNCHANGED <<playing, heard>>
  PROVE  SpeechTypes'
<1>1. CASE ended'
  BY <1>1 DEF SayReply, SpeechTypes
<1>2. CASE ~ended'
  <2>1. PICK c \in BOOLEAN : ~c
    OBVIOUS
  <2>2. FALSE = c
    BY <2>1, Zenon
  <2>3. Say(owner, c)
    BY <1>2, <2>2, Zenon DEF SayReply
  <2> QED
    BY <2>3, SaysSpeech
<1> QED
  BY <1>1, <1>2

\* No step leaves the types of the speech; what plays is the head of the
\* queue.
LEMMA SpeechStep ==
  ASSUME SpeechTypes, [Next]_vars
  PROVE  SpeechTypes'
<1> USE DEF room, history
<1>1. ASSUME UNCHANGED <<speech, playing, heard>> PROVE SpeechTypes'
  BY <1>1 DEF SpeechTypes
<1>2. CASE YieldReply
  <2>1. speech' = Append(speech, [owner |-> "turn",
                                  closing |-> turn = "announcing"])
        /\ UNCHANGED <<playing, heard>>
    BY <1>2 DEF YieldReply, Say
  <2>2. [owner |-> "turn", closing |-> turn = "announcing"] \in Speech
    BY DEF Speech, Owner
  <2> QED
    BY <2>1, <2>2, SpeechGrows
<1>3. ASSUME NEW owner \in Owner, Say(owner, TRUE), UNCHANGED <<playing, heard>>
      PROVE  SpeechTypes'
  <2>1. PICK c \in BOOLEAN : c
    OBVIOUS
  <2>2. TRUE = c
    BY <2>1, Zenon
  <2>3. Say(owner, c)
    BY <1>3, <2>2, Zenon
  <2> QED
    BY <1>3, <2>3, SaysSpeech
<1>4. CASE SayBargeInClosing
  BY <1>3, <1>4 DEF SayBargeInClosing, Owner
<1>5. CASE SayAwayClosing
  BY <1>3, <1>5 DEF SayAwayClosing, Owner
<1>6. CASE FinishBargeIn
  <2>1. UNCHANGED <<playing, heard>> /\ (UNCHANGED speech \/ SayReply("watch"))
    BY <1>6 DEF FinishBargeIn
  <2> QED
    BY <1>1, <2>1, RepliesSpeech DEF Owner
<1>7. CASE FinishAway
  <2>1. UNCHANGED <<playing, heard>> /\ SayReply("away")
    BY <1>7 DEF FinishAway
  <2> QED
    BY <2>1, RepliesSpeech DEF Owner
<1>8. CASE PlayoutStarts
  BY <1>8 DEF PlayoutStarts, SpeechTypes
<1>9. CASE PlayoutEnds
  <2>1. /\ speech \in Seq(Speech) /\ speech # <<>>
        /\ speech' = Tail(speech) /\ playing' = FALSE
        /\ heard' = (heard \/ Head(speech).closing)
    BY <1>9 DEF PlayoutEnds, SpeechTypes
  <2>2. speech' \in Seq(Speech) /\ Head(speech) \in Speech
    BY <2>1, HeadTailProperties
  <2>3. heard' \in BOOLEAN
    BY <2>1, Zenon
  <2> QED
    BY <2>1, <2>2, <2>3 DEF SpeechTypes
<1>10. ASSUME NEW p \in Packets, InterruptSession(p) PROVE SpeechTypes'
  <2>1. speech' = <<>> /\ playing' = FALSE /\ UNCHANGED heard
    BY <1>10 DEF InterruptSession
  <2>2. speech' \in Seq(Speech)
    BY <2>1, EmptySeq
  <2> QED
    BY <2>1, <2>2 DEF SpeechTypes
<1>11. CASE UNCHANGED vars
  BY <1>1, <1>11 DEF vars
<1>12. CASE OnUserTurnCompleted \/ WatchdogFires \/ HandleUserAway
  BY <1>1, <1>12 DEF OnUserTurnCompleted, WatchdogFires, HandleUserAway
<1>13. CASE TurnStep /\ ~YieldReply
  BY <1>1, <1>13 DEF TurnStep, LlmNode, AwaitTurnLock, StartTurnRun,
     FinishTurnRun, EndLlmNode
<1>14. CASE StartBargeIn \/ EndBargeIn \/ EndAway
  BY <1>1, <1>14 DEF StartBargeIn, EndBargeIn, EndAway
<1>15. CASE FinalizerStep
  BY <1>1, <1>15 DEF FinalizerStep, RunScheduledFinalizer, CompleteSession,
     EndFinalizer
<1>16. ASSUME NEW p \in Packets,
              PacketArrives(p) \/ RecordFails(p)
                \/ (PacketStep(p) /\ ~InterruptSession(p))
       PROVE  SpeechTypes'
  BY <1>1, <1>16 DEF PacketArrives, RecordFails, PacketStep, CoreApiRecords,
     RecordReturns, EnforcePolicyTermination, EndTermination
<1> QED
  BY <1>2, <1>4, <1>5, <1>6, <1>7, <1>8, <1>9, <1>10, <1>11, <1>12, <1>13, <1>14,
     <1>15, <1>16 DEF Next, BargeInStep, AwayStep, PlayoutStep

\* No step leaves the types of the flags.
LEMMA FlagStep ==
  ASSUME IInv, FlagTypes, [Next]_vars
  PROVE  FlagTypes'
<1> USE DEF room, history, userTurn
<1>1. ASSUME UNCHANGED <<answered, bargeActive, open, failures>>
      PROVE  FlagTypes'
  BY <1>1 DEF FlagTypes
<1>2. CASE OnUserTurnCompleted
  <2>1. answered' = mirror.question /\ UNCHANGED <<bargeActive, open, failures>>
    BY <1>2 DEF OnUserTurnCompleted
  <2>2. mirror.question \in 0 .. MaxQuestions
    BY DEF IInv, Types, View
  <2> QED
    BY <2>1, <2>2 DEF FlagTypes
<1>3. CASE WatchdogFires \/ BargeInStep
  <2>1. /\ UNCHANGED <<answered, open, failures>>
        /\ UNCHANGED bargeActive \/ bargeActive' = TRUE \/ bargeActive' = FALSE
    BY <1>3 DEF WatchdogFires, BargeInStep, StartBargeIn, FinishBargeIn,
       SayBargeInClosing, EndBargeIn
  <2> QED
    BY <2>1 DEF FlagTypes
<1>4. CASE FinalizerStep
  <2>1. /\ UNCHANGED <<answered, bargeActive, failures>>
        /\ UNCHANGED open \/ open' = FALSE
    BY <1>4 DEF FinalizerStep, RunScheduledFinalizer, CompleteSession,
       EndFinalizer
  <2> QED
    BY <2>1 DEF FlagTypes
<1>5. ASSUME NEW p \in Packets, RecordFails(p) PROVE FlagTypes'
  <2>1. /\ UNCHANGED <<answered, bargeActive, open>>
        /\ failures < MaxFailures /\ failures' = failures + 1
    BY <1>5 DEF RecordFails
  <2> QED
    BY <2>1, AgentAssumption DEF FlagTypes
<1>6. ASSUME NEW p \in Packets, EndTermination(p) PROVE FlagTypes'
  BY <1>6 DEF EndTermination, FlagTypes
<1>7. CASE UNCHANGED vars
  BY <1>1, <1>7 DEF vars
<1>8. CASE HandleUserAway \/ TurnStep \/ AwayStep \/ PlayoutStep
  BY <1>1, <1>8 DEF HandleUserAway, TurnStep, LlmNode, AwaitTurnLock,
     StartTurnRun, FinishTurnRun, YieldReply, EndLlmNode, AwayStep, FinishAway,
     SayAwayClosing, EndAway, PlayoutStep, PlayoutStarts, PlayoutEnds
<1>9. ASSUME NEW p \in Packets,
             PacketArrives(p) \/ (PacketStep(p) /\ ~EndTermination(p))
      PROVE  FlagTypes'
  BY <1>1, <1>9 DEF PacketArrives, PacketStep, CoreApiRecords, RecordReturns,
     EnforcePolicyTermination, InterruptSession
<1> QED
  BY <1>2, <1>3, <1>4, <1>5, <1>6, <1>7, <1>8, <1>9 DEF Next

\* What a step does to the evaluations queued and to the packets enforced.
LEMMA TerminationsFinite ==
  /\ IsFiniteSet(Terminations) /\ Cardinality(Terminations) \in Nat
  /\ Cardinality(Terminations) <= Cardinality(Packets)
  /\ Cardinality(Packets) \in Nat
<1>1. Terminations \subseteq Packets
  BY DEF Terminations
<1> QED
  BY <1>1, AgentAssumption, FS_Subset, FS_CardinalityType

\* The end of the workflow accounts for one evaluation.
LEMMA CountKept ==
  ASSUME Counting, Terminations' = Terminations,
         \/ UNCHANGED <<ended, enqueued>>
         \/ ~ended /\ ended' /\ enqueued' = enqueued + 1
  PROVE  Counting'
<1>1. PICK n \in Nat : Cardinality(Terminations) = n /\ Cardinality(Terminations)' = n
  BY TerminationsFinite
<1>2. CASE UNCHANGED <<ended, enqueued>>
  BY <1>1, <1>2 DEF Counting
<1>3. CASE ~ended /\ ended' /\ enqueued' = enqueued + 1
  BY <1>1, <1>3 DEF Counting
<1> QED
  BY <1>2, <1>3

\* Every evaluation queued is accounted for, by the end of the workflow or by
\* a packet.
LEMMA CountStep ==
  ASSUME IInv, Counting, [Next]_vars
  PROVE  Counting'
<1> USE DEF workflow, services, proctoring
<1>1. ASSUME UNCHANGED packet, FinishRun PROVE Counting'
  <2>1. Terminations' = Terminations
    BY <1>1 DEF Terminations
  <2>2. \/ UNCHANGED <<ended, enqueued>>
        \/ ~ended /\ ended' /\ enqueued' = enqueued + 1
    BY <1>1 DEF FinishRun, Advance
  <2> QED
    BY <2>1, <2>2, CountKept
<1>2. ASSUME UNCHANGED <<ended, enqueued>>, Terminations' = Terminations
      PROVE  Counting'
  BY <1>2, CountKept
<1>3. ASSUME UNCHANGED <<ended, enqueued, packet>> PROVE Counting'
  <2>1. Terminations' = Terminations
    BY <1>3 DEF Terminations
  <2> QED
    BY <1>2, <1>3, <2>1
<1>4. CASE FinishTurnRun \/ FinishBargeIn \/ FinishAway
  BY <1>1, <1>4 DEF FinishTurnRun, FinishBargeIn, FinishAway
<1>5. CASE UNCHANGED vars
  BY <1>3, <1>5 DEF vars
<1>6. CASE OnUserTurnCompleted \/ WatchdogFires \/ HandleUserAway
  BY <1>3, <1>6 DEF OnUserTurnCompleted, WatchdogFires, HandleUserAway
<1>7. CASE TurnStep /\ ~FinishTurnRun
  BY <1>3, <1>7 DEF TurnStep, LlmNode, AwaitTurnLock, StartTurnRun, YieldReply,
     EndLlmNode
<1>8. CASE (BargeInStep /\ ~FinishBargeIn) \/ (AwayStep /\ ~FinishAway)
  BY <1>3, <1>8 DEF BargeInStep, StartBargeIn, SayBargeInClosing, EndBargeIn,
     AwayStep, SayAwayClosing, EndAway
<1>9. CASE PlayoutStep \/ FinalizerStep
  BY <1>3, <1>9 DEF PlayoutStep, PlayoutStarts, PlayoutEnds, FinalizerStep,
     RunScheduledFinalizer, CompleteSession, EndFinalizer
<1>10. ASSUME NEW p \in Packets,
              PacketArrives(p) \/ RecordFails(p)
                \/ (PacketStep(p) /\ ~EndTermination(p))
       PROVE  Counting'
  <2>1. /\ UNCHANGED <<ended, enqueued>> /\ packet[p] # "enforced"
        /\ \E s \in PacketState \ {"enforced"} :
             packet' = [packet EXCEPT ![p] = s]
    BY <1>10 DEF PacketArrives, RecordFails, PacketStep, CoreApiRecords,
       RecordReturns, EnforcePolicyTermination, InterruptSession
  <2>2. Terminations' = Terminations
    BY <2>1 DEF Terminations, IInv, Types
  <2> QED
    BY <1>2, <2>1, <2>2
<1>11. ASSUME NEW p \in Packets, EndTermination(p) PROVE Counting'
  <2>1. /\ packet[p] = "flushing" /\ UNCHANGED ended
        /\ packet' = [packet EXCEPT ![p] = "enforced"]
        /\ enqueued' = enqueued \/ enqueued' = enqueued + 1
    BY <1>11 DEF EndTermination, QueueTerminalEvaluation
  <2>2. p \notin Terminations /\ Terminations' = Terminations \cup {p}
    BY <2>1 DEF Terminations, IInv, Types
  <2>3. Cardinality(Terminations)' = Cardinality(Terminations) + 1
    BY <2>2, TerminationsFinite, FS_AddElement
  <2> QED
    BY <2>1, <2>3, TerminationsFinite DEF Counting
<1> QED
  BY <1>4, <1>5, <1>6, <1>7, <1>8, <1>9, <1>10, <1>11 DEF Next

\* All of it holds at first.
LEMMA RestInit == Init => SpeechTypes /\ FlagTypes /\ Counting
<1> SUFFICES ASSUME Init PROVE SpeechTypes /\ FlagTypes /\ Counting
  OBVIOUS
<1>1. SpeechTypes
  BY EmptySeq DEF Init, SpeechTypes
<1>2. FlagTypes
  <2>1. answered = 0 /\ failures = 0 /\ bargeActive = FALSE /\ open = TRUE
    BY DEF Init
  <2>2. 0 \in 0 .. MaxQuestions /\ 0 \in 0 .. MaxFailures
    BY AgentAssumption
  <2> QED
    BY <2>1, <2>2 DEF FlagTypes
<1>3. enqueued = 0
  BY DEF Init
<1> QED
  BY <1>1, <1>2, <1>3, TerminationsFinite DEF Counting

\* The types, and no more evaluations than one for the end of the workflow and
\* one for every packet.
THEOREM TypesHold == Spec => []TypeOK
<1>1. IInv /\ LockInv /\ SpeechTypes /\ FlagTypes /\ Counting => TypeOK
  <2> SUFFICES ASSUME IInv, LockInv, SpeechTypes, FlagTypes, Counting
               PROVE  TypeOK
    OBVIOUS
  <2>1. enqueued \in 0 .. Cardinality(Packets) + 1
    BY TerminationsFinite DEF Counting
  <2>2. completions \in Nat
    BY DEF IInv, Completing
  <2>3. /\ lock \in Owner \cup {"free"} /\ waiters \in Seq({"turn", "watch"})
        /\ turn \in TurnStage /\ watch \in WatchStage /\ away \in AwayStage
    BY DEF LockInv, LockTypes, Owner
  <2> QED
    BY <2>1, <2>2, <2>3
    DEF TypeOK, IInv, Types, SpeechTypes, FlagTypes, TurnStage, WatchStage,
        AwayStage
<1>2. Spec => []SpeechTypes
  BY RestInit, SpeechStep, PTL DEF Spec
<1>3. Spec => []FlagTypes
  BY Invariance, RestInit, FlagStep, PTL DEF Spec
<1>4. Spec => []Counting
  BY Invariance, RestInit, CountStep, PTL DEF Spec
<1>5. Spec => []LockInv
  BY LockInit, LockStep, PTL DEF Spec
<1> QED
  BY Invariance, <1>1, <1>2, <1>3, <1>4, <1>5, PTL
=============================================================================
