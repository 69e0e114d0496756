---------------------------- MODULE BlockDevice ----------------------------
(* What a vbd promises its guest and its toolstack, whatever the images do  *)
(* and however requests are cut, mirrored, forwarded and retried: each      *)
(* request is answered once, with success only for an attempt that moved    *)
(* all of its sectors; and nothing is attempted while the queue is quiet.   *)
CONSTANTS Reqs, Sectors

VARIABLES
    phase,       \* of each request: idle, waiting, working, answered
    moved,       \* the sectors the attempt under way, or answered with
                 \* success, has moved
    succeeded,   \* requests answered with success
    quiet        \* the queue is quiesced

In(p)    == {r \in Reqs : phase[r] = p}
To(R, p) == phase' = [r \in Reqs |-> IF r \in R THEN p ELSE phase[r]]

Init ==
    /\ phase = [r \in Reqs |-> "idle"] /\ moved = [r \in Reqs |-> {}]
    /\ succeeded = {} /\ quiet = FALSE

Submit(r) ==
    /\ phase[r] = "idle" /\ To({r}, "waiting")
    /\ UNCHANGED <<moved, succeeded, quiet>>

Begin(r) ==
    /\ phase[r] = "waiting" /\ ~quiet /\ To({r}, "working")
    /\ UNCHANGED <<moved, succeeded, quiet>>

Move(r) ==
    /\ phase[r] = "working"
    /\ \E S \in SUBSET Sectors : moved' = [moved EXCEPT ![r] = @ \cup S]
    /\ UNCHANGED <<phase, succeeded, quiet>>

Succeed(r) ==
    /\ phase[r] = "working" /\ To({r}, "answered")
    /\ moved' = [moved EXCEPT ![r] = Sectors]
    /\ succeeded' = succeeded \cup {r}
    /\ UNCHANGED quiet

\* it is tried again, from the start, or answered with an error
Fail(r) ==
    /\ phase[r] = "working" /\ (To({r}, "waiting") \/ To({r}, "answered"))
    /\ moved' = [moved EXCEPT ![r] = {}]
    /\ UNCHANGED <<succeeded, quiet>>

Refuse(R) ==
    /\ R # {} /\ R \subseteq In("waiting") /\ To(R, "answered")
    /\ UNCHANGED <<moved, succeeded, quiet>>

Return(R) ==
    /\ R # {} /\ R \subseteq In("answered") /\ To(R, "idle")
    /\ moved' = [r \in Reqs |-> IF r \in R THEN {} ELSE moved[r]]
    /\ succeeded' = succeeded \ R
    /\ UNCHANGED quiet

Quiesce ==
    /\ In("working") = {} /\ quiet' = TRUE
    /\ UNCHANGED <<phase, moved, succeeded>>

Unquiesce == quiet' = FALSE /\ UNCHANGED <<phase, moved, succeeded>>

Next ==
    \/ \E r \in Reqs : Submit(r) \/ Begin(r) \/ Move(r) \/ Succeed(r) \/ Fail(r)
    \/ \E R \in SUBSET Reqs : Refuse(R) \/ Return(R)
    \/ Quiesce \/ Unquiesce

Spec == Init /\ [][Next]_<<phase, moved, succeeded, quiet>>
=============================================================================
