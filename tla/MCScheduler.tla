---------------------------- MODULE MCScheduler ----------------------------
(* Scheduler with few events.                                              *)
EXTENDS Scheduler
=============================================================================
