----------------------------- MODULE MCWorkflow -----------------------------
(***************************************************************************)
(* Workflow with three requests and one run of before, for TLC.            *)
(***************************************************************************)
EXTENDS Workflow, TLC

CONSTANTS q1, q2, q3, r0

\* Requests differ only in name: which one creates what is all the same.
Symmetric == Permutations(Requests)

=============================================================================
