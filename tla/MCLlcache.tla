----------------------------- MODULE MCLlcache -----------------------------
(* The LLP cache: one sector, two writes.                                   *)
EXTENDS Llcache

Spec == LlInit /\ [][LlpNext]_llVars
=============================================================================
