---------------------------- MODULE MCEvaluator ----------------------------
(* Evaluator with bounds for TLC. *)
EXTENDS Evaluator, TLC
=============================================================================
