------------------------------ MODULE Llcache ------------------------------
(* The two local leaf caches of drivers/block-llcache.c.  Both keep a leaf  *)
(* in LOCAL storage, which may run out of space, and one in SHARED storage: *)
(* LLP writes to both and reads LOCAL, LLE writes and reads LOCAL until it  *)
(* is full and SHARED, which masks LOCAL, from then on.                     *)
(*                                                                          *)
(* The issuer has one write at a time under way on a sector.  The data of a *)
(* write is its number, 0 what the parent holds.  A request slot keeps its  *)
(* error when it is freed: memset(req, 0, sizeof(req)) clears the size of a *)
(* pointer, the error is further on.                                        *)
EXTENDS Naturals, FiniteSets

CONSTANTS
    Sectors,    \* the sectors written
    Extents,    \* the sets of sectors a write may have
    Slots,      \* reqv
    MaxWrites   \* writes in all

ASSUME LlcacheAssumption ==
    /\ Extents \subseteq SUBSET Sectors \ {{}}
    /\ MaxWrites \in Nat

Targets == {"LOCAL", "SHARED"}
Errors  == {"none", "EIO", "ENOSPC"}

VARIABLES
    mode,     \* s->mode: LOCAL (or both, for LLP) or SHARED
    slot,     \* reqv: the write, what is pending of it, the error
    sent,     \* LLE: writes passed to SHARED without a slot
    local,    \* per sector, the write the LOCAL leaf holds, 0 for none
    shared,   \* the same for the SHARED leaf
    good,     \* per sector, the last write answered, 0, or Lost after an error
    writes,   \* writes issued
    torn,     \* history, LLE: writes that a leaf has refused a piece of
    panic     \* BUG was reached

llVars == <<mode, slot, sent, local, shared, good, writes, torn, panic>>

Lost    == MaxWrites + 1
FreeReq(error) == [n |-> 0, secs |-> {}, pending |-> {}, error |-> error]
Busy    == {i \in Slots : slot[i].n # 0}
Active  == UNION ({slot[i].secs : i \in Busy} \cup {w.secs : w \in sent})

LlInit ==
    /\ mode = "LOCAL"
    /\ slot = [i \in Slots |-> FreeReq("none")]
    /\ sent = {}
    /\ local = [s \in Sectors |-> 0]
    /\ shared = [s \in Sectors |-> 0]
    /\ good = [s \in Sectors |-> 0]
    /\ writes = 0
    /\ torn = {}
    /\ panic = FALSE

(****************************** common ***********************************)
ll_write_error(curr, error) ==
    IF error # "none" /\ curr \in {"none", "ENOSPC"} THEN error ELSE "none"

\* td_complete_request: what the issuer is told of write n on secs
Answer(n, secs, error) ==
    good' = [s \in Sectors |-> IF s \notin secs THEN good[s]
                               ELSE IF error = "none" THEN n ELSE Lost]

Write(leaf, n, secs) == [s \in Sectors |-> IF s \in secs THEN n ELSE leaf[s]]

Free(i, error) == [slot EXCEPT ![i] = FreeReq(error)]
Take(i, secs, pending) ==
    [slot EXCEPT ![i] = [n |-> writes + 1, secs |-> secs, pending |-> pending, error |-> @.error]]

\* The issuer's next write; with no slot free it is told EBUSY.
Issue(secs) ==
    /\ ~panic /\ writes < MaxWrites /\ secs \cap Active = {}
    /\ writes' = writes + 1
    /\ UNCHANGED <<mode, local, shared, torn, panic>>

Refused(secs) ==
    /\ Busy = Slots
    /\ Answer(writes + 1, secs, "EBUSY")
    /\ UNCHANGED <<slot, sent>>

(****************************** LLP **************************************)
\* Reissued through the vbd as two clones, one per target.
llpcache_fork_write(secs) ==
    /\ Issue(secs)
    /\ \/ Refused(secs)
       \/ \E i \in Slots \ Busy :
              slot' = Take(i, secs, Targets) /\ UNCHANGED <<sent, good>>

\* A clone comes back from its target, where it was written or was not.
llpcache_forward_write(i, target, error) ==
    /\ target \in slot[i].pending /\ ~panic
    /\ LET w == slot[i]
           done(leaf) == IF error = "none" THEN Write(leaf, w.n, w.secs) ELSE leaf
       IN  IF target = "LOCAL" THEN local' = done(local) /\ UNCHANGED shared
                               ELSE shared' = done(shared) /\ UNCHANGED local

llpcache_write_cb(i, target, error) ==
    LET full == target = "LOCAL" /\ error = "ENOSPC"
        e    == ll_write_error(slot[i].error, IF full THEN "none" ELSE error)
        left == slot[i].pending \ {target}
    IN  /\ mode' = IF full THEN "SHARED" ELSE mode
        /\ IF left # {}
             THEN /\ slot' = [slot EXCEPT ![i].pending = left, ![i].error = e]
                  /\ UNCHANGED good
             ELSE /\ Answer(slot[i].n, slot[i].secs, e)
                  /\ slot' = Free(i, e)
        /\ UNCHANGED <<sent, writes, torn, panic>>

\* In LLP_SHARED the read is forwarded and the case falls through to BUG.
llpcache_queue_read ==
    /\ ~panic
    /\ panic' = (mode = "SHARED")
    /\ UNCHANGED <<mode, slot, sent, local, shared, good, writes, torn>>

LlpNext ==
    \/ \E secs \in Extents : llpcache_fork_write(secs)
    \/ \E i \in Busy, target \in Targets, error \in Errors :
           /\ llpcache_forward_write(i, target, error)
           /\ llpcache_write_cb(i, target, error)
    \/ llpcache_queue_read

(****************************** LLE **************************************)
llecache_queue_write(secs) ==
    /\ Issue(secs)
    /\ CASE mode = "SHARED" ->
                /\ sent' = sent \cup {[n |-> writes + 1, secs |-> secs]}
                /\ UNCHANGED <<slot, good>>
         [] OTHER ->
                \/ Refused(secs)
                \/ \E i \in Slots \ Busy :
                       slot' = Take(i, secs, secs) /\ UNCHANGED <<sent, good>>

\* LOCAL is done with a piece of the write in slot i.
llecache_write_cb(i, piece, error) ==
    LET w    == slot[i]
        e    == ll_write_error(w.error, error)
        left == w.pending \ piece
    IN  /\ piece # {} /\ piece \subseteq w.pending
        /\ local' = IF error = "none" THEN Write(local, w.n, piece) ELSE local
        /\ torn' = IF error = "none" THEN torn ELSE torn \cup {w.n}
        /\ CASE left # {} ->
                    /\ slot' = [slot EXCEPT ![i].pending = left, ![i].error = e]
                    /\ UNCHANGED <<mode, sent, good>>
             [] left = {} /\ e = "ENOSPC" ->
                    /\ mode' = "SHARED"
                    /\ sent' = sent \cup {[n |-> w.n, secs |-> w.secs]}
                    /\ slot' = Free(i, e)
                    /\ UNCHANGED good
             [] OTHER ->
                    /\ Answer(w.n, w.secs, error)
                    /\ slot' = Free(i, e)
                    /\ UNCHANGED <<mode, sent>>
        /\ UNCHANGED <<shared, writes, panic>>

\* SHARED is given the whole write and answers the issuer itself.
SharedDone(w, error) ==
    /\ shared' = IF error = "none" THEN Write(shared, w.n, w.secs) ELSE shared
    /\ torn' = IF error = "none" THEN torn \ {w.n} ELSE torn
    /\ Answer(w.n, w.secs, error)
    /\ sent' = sent \ {w}
    /\ UNCHANGED <<mode, slot, local, writes, panic>>

LleNext ==
    \/ \E secs \in Extents : llecache_queue_write(secs)
    \/ \E i \in Busy, piece \in SUBSET Sectors, error \in Errors :
           llecache_write_cb(i, piece, error)
    \/ \E w \in sent, error \in {"none", "EIO"} : SharedDone(w, error)

\* mutant: reads stay with LOCAL
Seen_local(s) == local[s]

\* llecache_queue_read: SHARED masks LOCAL, and LOCAL is its parent
Seen(s) == IF mode = "SHARED" /\ shared[s] # 0 THEN shared[s] ELSE local[s]

LleSpec == LlInit /\ [][LleNext]_llVars

(****************************** properties *******************************)
(* LLE: a sector no write is under way on reads as the last write of it the *)
(* issuer was told had succeeded, through LOCAL running full in the middle  *)
(* of writes of other sectors or of the same write, the switch to SHARED,   *)
(* and the writes to LOCAL that complete after it.  But a write whose last  *)
(* piece succeeded is answered with success whatever became of the others   *)
(* (ll_write_error forgets): of those that lost a piece nothing is said.    *)
LleReadsAcked ==
    \A s \in Sectors \ Active : good[s] \notin torn \cup {Lost} => Seen(s) = good[s]

(* LLP: "Failure to write SHARED is irrecoverable, and signaled to the      *)
(* original issuer" (block-llcache.c:105): a write that was answered with   *)
(* success is in SHARED.                                                    *)
LlpSharedHolds ==
    \A s \in Sectors \ Active : good[s] # Lost => shared[s] = good[s]
=============================================================================
