--------------------------- MODULE MCLabLlmProxy ---------------------------
(***************************************************************************)
(* LabLlmProxy with a few submissions and proxy threads, for TLC.          *)
(***************************************************************************)
EXTENDS LabLlmProxy

=============================================================================
