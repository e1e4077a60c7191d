------------------------- MODULE MCSandboxLlmProxy -------------------------
(***************************************************************************)
(* SandboxLlmProxy with a few requests, for TLC.                           *)
(***************************************************************************)
EXTENDS SandboxLlmProxy, TLC

CONSTANTS r1, r2, r3

\* The requests are alike.
Symmetric == Permutations(Requests)

=============================================================================
