------------------------------- MODULE MCVbd -------------------------------
(* Vbd with one request of two iovs.                                        *)
EXTENDS Vbd
=============================================================================
