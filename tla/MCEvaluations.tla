---------------------------- MODULE MCEvaluations -----------------------------
(***************************************************************************)
(* One build of one account and one evaluation, without the issuing script. *)
(***************************************************************************)
EXTENDS Evaluations

CONSTANTS a, b1, e1, x
=============================================================================
