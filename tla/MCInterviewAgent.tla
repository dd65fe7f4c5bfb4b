-------------------------- MODULE MCInterviewAgent --------------------------
(***************************************************************************)
(* Instances of InterviewAgent for TLC.                                    *)
(***************************************************************************)
EXTENDS InterviewAgent, TLC
=============================================================================
