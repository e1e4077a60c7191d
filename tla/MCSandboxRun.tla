---------------------------- MODULE MCSandboxRun ----------------------------
(***************************************************************************)
(* SandboxRun with two executions, for TLC.                                *)
(***************************************************************************)
EXTENDS SandboxRun

CONSTANTS r1, r2

=============================================================================
