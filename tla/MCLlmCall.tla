----------------------------- MODULE MCLlmCall -----------------------------
(***************************************************************************)
(* LlmCall with two callers of any kinds, for TLC.                         *)
(***************************************************************************)
EXTENDS LlmCall

CONSTANTS c1, c2

=============================================================================
