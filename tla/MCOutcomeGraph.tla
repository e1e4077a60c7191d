--------------------------- MODULE MCOutcomeGraph ---------------------------
(***************************************************************************)
(* OutcomeGraph with the budgets of the code, for TLC.                     *)
(***************************************************************************)
EXTENDS OutcomeGraph

=============================================================================
