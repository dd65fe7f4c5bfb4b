-------------------------- MODULE MCInterviewGraph --------------------------
(***************************************************************************)
(* Instances of InterviewGraph for TLC.  One unit of time is ten seconds:  *)
(* the 10 s threshold, 30 s grace and 20 s rescue are 1, 3 and 2.          *)
(***************************************************************************)
EXTENDS InterviewGraph, TLC

\* self-introduction, one technical and one behavioural section
ShortPlan == 0 :> "self_intro" @@ 1 :> "technical" @@ 2 :> "behavioural_cultural"
ShortBudgets == 0 :> 2 @@ 1 :> 3 @@ 2 :> 3
ShorterBudgets == 0 :> 1 @@ 1 :> 2 @@ 2 :> 2
=============================================================================
