-------------------------- MODULE MCEvaluationTask --------------------------
(***************************************************************************)
(* Instances of EvaluationTask for TLC.                                    *)
(***************************************************************************)
EXTENDS EvaluationTask, TLC

\* two crashes of the worker, a lost process and two failing calls
EveryFault == "crash" :> 2 @@ "child" :> 1 @@ "call" :> 2
=============================================================================
