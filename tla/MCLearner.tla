----------------------------- MODULE MCLearner -----------------------------
(***************************************************************************)
(* Learner with two requests, for TLC.                                   *)
(***************************************************************************)
EXTENDS Learner

CONSTANTS q1, q2, e0

=============================================================================
