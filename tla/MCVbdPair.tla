----------------------------- MODULE MCVbdPair -----------------------------
(* Vbd with two requests at once, which are interchangeable, of one sector  *)
(* each.  A behaviour is of a vbd without a secondary, whose constants the  *)
(* configuration gives, or of a mirrored one, whose leaf may run out of     *)
(* space; part says which.                                                  *)
EXTENDS Vbd, TLC

VARIABLE part

Mirror == INSTANCE Vbd WITH
    Ops <- {"write", "beyond"}, Results <- {"none", "EIO", "ENOSPC"},
    OpenFlags <- {{"SECONDARY"}}

PairInit == Init /\ part \in {"queues", "mirror"}

PairNext ==
    /\ UNCHANGED part
    /\ \/ part = "queues" /\ Next
       \/ part = "mirror" /\ Mirror!Next

PairSpec == PairInit /\ [][PairNext]_<<part, vars>>

Symmetry == Permutations(Reqs)
=============================================================================
