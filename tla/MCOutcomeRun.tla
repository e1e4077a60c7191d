---------------------------- MODULE MCOutcomeRun ----------------------------
(***************************************************************************)
(* OutcomeRun with a few workers, for TLC.                                 *)
(***************************************************************************)
EXTENDS OutcomeRun

=============================================================================
