----------------------------- MODULE MCBlkRing -----------------------------
(* BlkRing on a ring of two entries.                                        *)
EXTENDS BlkRing
=============================================================================
