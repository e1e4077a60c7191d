----------------------------- MODULE MCVersions -----------------------------
(***************************************************************************)
(* Versions with three courses of a family and one learner, for TLC.       *)
(***************************************************************************)
EXTENDS Versions

CONSTANTS c1, c2, c3, l1

=============================================================================
