---------------------------- MODULE MCLLMClient ----------------------------
(***************************************************************************)
(* Instances of LLMClient for TLC.                                         *)
(***************************************************************************)
EXTENDS LLMClient, TLC

CONSTANTS c1, c2
=============================================================================
