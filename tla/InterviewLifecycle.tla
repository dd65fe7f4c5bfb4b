------------------------- MODULE InterviewLifecycle -------------------------
(***************************************************************************)
(* What the interview promises, without nodes, clocks or processes: it     *)
(* leaves the self-introduction and goes through its sections in order     *)
(* while it is open, a decision to close is final, evaluations are queued  *)
(* only for a closing interview, and only a closing interview is           *)
(* completed.                                                              *)
(***************************************************************************)
EXTENDS SectionTiming

VARIABLES
  section,      \* the section the interview is in
  intro,        \* it is still in the self-introduction
  phase,        \* "open", "closing" or "completed"
  evaluations   \* evaluations queued

lifecycle == <<section, intro, phase, evaluations>>

Init ==
  /\ section = InitialSection
  /\ intro = TRUE
  /\ phase = "open"
  /\ evaluations = 0

\* On to a later section; in a plan with none, out of the introduction where it
\* stands in for another kind of section.
EnterSection ==
  /\ phase = "open"
  /\ section' \in After(section) \cup {s \in {section} : After(s) = {}}
  /\ intro' = (Kind[section'] = "self_intro")
  /\ UNCHANGED <<phase, evaluations>>

DecideToClose ==
  /\ phase = "open"
  /\ phase' = "closing"
  /\ UNCHANGED <<section, intro, evaluations>>

QueueEvaluation ==
  /\ phase = "closing"
  /\ evaluations' = evaluations + 1
  /\ UNCHANGED <<section, intro, phase>>

Complete ==
  /\ phase = "closing"
  /\ phase' = "completed"
  /\ UNCHANGED <<section, intro, evaluations>>

Next == EnterSection \/ DecideToClose \/ QueueEvaluation \/ Complete

Spec == Init /\ [][Next]_lifecycle
=============================================================================
