------------------------------ MODULE BlkRing ------------------------------
(***************************************************************************)
(* The Xen block ring between a guest and tapdisk: tapdisk-xenblkif.c and  *)
(* xenio-blkif.c on the backend's side, the ring macros and the frontend   *)
(* of the guest (not in this repository) on the other.                     *)
(*                                                                         *)
(* Guest and backend run at the same time: each step here touches shared   *)
(* memory once.  Ring indices are free-running and wrap at IdxMod (2^32 in *)
(* the code, a small multiple of the size here).  A request is its id.    *)
(***************************************************************************)
EXTENDS Integers, FiniteSets

CONSTANTS
    RingSize,      \* xenio_blkif_ring_size
    IdxMod,        \* ring indices are taken modulo this
    FailBatch      \* a request may fail to be parsed or mapped in a batch
                   \* of at most so many (0: none ever fails)

ASSUME RingAssumption ==
    /\ RingSize \in Nat \ {0}
    /\ IdxMod \in Nat
    /\ IdxMod >= 2 * RingSize + 2
    /\ IdxMod % RingSize = 0
    /\ FailBatch \in 0 .. RingSize

Ids   == 1 .. RingSize         \* the guest has one id per ring entry
Slots == 1 .. RingSize         \* blkif->reqs
Idx   == 0 .. (IdxMod - 1)
Cells == 0 .. (RingSize - 1)
NoId  == 0

VARIABLES
    (* shared with the guest *)
    ring, req_prod, req_event, rsp_prod, rsp_event,
    evt_back, evt_front,       \* event channel pending, in each direction
    (* the guest *)
    free_ids, req_prod_pvt, rsp_cons, gpc, gold,
    (* the backend *)
    connected,
    req_cons, rsp_prod_pvt,    \* blkif->rings
    reqs_free, n_reqs_free,    \* stack of free slots, growing downwards
    msg,                       \* the id in each slot
    vbd,                       \* slots queued on the vbd
    bpc, final, n, start, i, errors, todo, old, ret

shared == <<ring, req_prod, req_event, rsp_prod, rsp_event, evt_back, evt_front>>
guest  == <<free_ids, req_prod_pvt, rsp_cons, gpc, gold>>
slots  == <<req_cons, rsp_prod_pvt, reqs_free, n_reqs_free, msg, vbd>>
back   == <<bpc, final, n, start, i, errors, todo, old, ret>>
vars   == <<shared, guest, connected, slots, back>>

Plus(a, k)  == (a + k) % IdxMod
Minus(a, b) == (a - b) % IdxMod          \* unsigned difference
Cell(a)     == a % RingSize
IdxRange(a, b) == {Plus(a, k) : k \in 0 .. (Minus(b, a) - 1)}   \* a, a+1 ... b-1

(* a connected ring nobody used yet: BACK_RING_INIT, reqs_init             *)
Init ==
    /\ connected = TRUE
    /\ ring = [c \in Cells |-> NoId]
    /\ req_prod = 0 /\ rsp_prod = 0 /\ req_event = 1 /\ rsp_event = 1
    /\ evt_back = FALSE /\ evt_front = FALSE
    /\ free_ids = Ids /\ req_prod_pvt = 0 /\ rsp_cons = 0 /\ gpc = "run" /\ gold = 0
    /\ req_cons = 0 /\ rsp_prod_pvt = 0
    /\ reqs_free = [p \in Cells |-> RingSize - p]
    /\ n_reqs_free = RingSize
    /\ msg = [s \in Slots |-> NoId]
    /\ vbd = {}
    /\ bpc = "idle" /\ final = FALSE /\ n = 0 /\ start = 0 /\ i = 0
    /\ errors = FALSE /\ todo = {} /\ old = 0 /\ ret = "idle"

-----------------------------------------------------------------------------
(* The guest.                                                               *)

guest_put(id) ==
    /\ connected /\ gpc = "run"
    /\ id \in free_ids
    /\ Minus(req_prod_pvt, rsp_cons) < RingSize
    /\ ring' = [ring EXCEPT ![Cell(req_prod_pvt)] = id]
    /\ free_ids' = free_ids \ {id}
    /\ req_prod_pvt' = Plus(req_prod_pvt, 1)
    /\ UNCHANGED <<req_prod, req_event, rsp_prod, rsp_event, evt_back, evt_front,
                   rsp_cons, gpc, gold, connected, slots, back>>

guest_push ==
    /\ connected /\ gpc = "run"
    /\ req_prod_pvt # req_prod
    /\ req_prod' = req_prod_pvt /\ gold' = req_prod
    /\ gpc' = "pushed"
    /\ UNCHANGED <<ring, req_event, rsp_prod, rsp_event, evt_back, evt_front,
                   free_ids, req_prod_pvt, rsp_cons, connected, slots, back>>

guest_notify ==
    /\ connected /\ gpc = "pushed"
    /\ evt_back' = (evt_back \/ Minus(req_prod, req_event) < Minus(req_prod, gold))
    /\ gpc' = "run" /\ gold' = 0
    /\ UNCHANGED <<ring, req_prod, req_event, rsp_prod, rsp_event, evt_front,
                   free_ids, req_prod_pvt, rsp_cons, connected, slots, back>>

guest_irq ==
    /\ connected /\ gpc = "run" /\ evt_front
    /\ evt_front' = FALSE /\ gpc' = "irq"
    /\ UNCHANGED <<ring, req_prod, req_event, rsp_prod, rsp_event, evt_back,
                   free_ids, req_prod_pvt, rsp_cons, gold, connected, slots, back>>

guest_consume ==
    /\ connected /\ gpc = "irq"
    /\ rsp_cons # rsp_prod
    /\ free_ids' = free_ids \cup {ring[Cell(rsp_cons)]}
    /\ rsp_cons' = Plus(rsp_cons, 1)
    /\ ring' = [ring EXCEPT ![Cell(rsp_cons)] = NoId]     \* nobody reads it again
    /\ UNCHANGED <<req_prod, req_event, rsp_prod, rsp_event, evt_back, evt_front,
                   req_prod_pvt, gpc, gold, connected, slots, back>>

guest_final ==
    /\ connected /\ gpc = "irq"
    /\ rsp_cons = rsp_prod
    /\ rsp_event' = Plus(rsp_cons, 1)
    /\ gpc' = "recheck"
    /\ UNCHANGED <<ring, req_prod, req_event, rsp_prod, evt_back, evt_front,
                   free_ids, req_prod_pvt, rsp_cons, gold, connected, slots, back>>

guest_recheck ==
    /\ connected /\ gpc = "recheck"
    /\ gpc' = IF rsp_cons # rsp_prod THEN "irq" ELSE "run"
    /\ UNCHANGED <<shared, free_ids, req_prod_pvt, rsp_cons, gold, connected, slots, back>>

Guest ==
    \/ guest_push \/ guest_notify \/ guest_irq
    \/ guest_consume \/ guest_final \/ guest_recheck

-----------------------------------------------------------------------------
(* The backend reads requests.                                              *)

(* xenio_pending_blkif and the start of tapdisk_xenblkif_ring_event         *)
ring_event ==
    /\ connected /\ bpc = "idle" /\ evt_back
    /\ evt_back' = FALSE
    /\ start' = n_reqs_free /\ final' = FALSE /\ n' = 0
    /\ bpc' = "get"
    /\ UNCHANGED <<ring, req_prod, req_event, rsp_prod, rsp_event, evt_front,
                   guest, connected, slots, i, errors, todo, old, ret>>

RING_HAS_UNCONSUMED_REQUESTS ==
    LET req == Minus(req_prod, req_cons)
        rsp == RingSize - Minus(req_cons, rsp_prod_pvt)
    IN  IF req < rsp THEN req > 0 ELSE rsp > 0

(* work to do, and room for it: read on; otherwise return                   *)
ReadOrReturn(work) == IF work /\ n < n_reqs_free THEN "copy" ELSE "got"

(* xenio_blkif_get_requests; with final, RING_FINAL_CHECK_FOR_REQUESTS      *)
(* enables notifications and looks once more                                *)
get_requests ==
    /\ bpc = "get"
    /\ bpc' = IF final /\ ~RING_HAS_UNCONSUMED_REQUESTS THEN "enable"
              ELSE ReadOrReturn(RING_HAS_UNCONSUMED_REQUESTS)
    /\ UNCHANGED <<shared, guest, connected, slots, final, n, start, i, errors,
                   todo, old, ret>>

(* mutant: notifications are enabled again without looking once more        *)
enable_events_no_recheck ==
    /\ bpc = "enable"
    /\ req_event' = Plus(req_cons, 1)
    /\ bpc' = "got"
    /\ UNCHANGED <<ring, req_prod, rsp_prod, rsp_event, evt_back, evt_front, guest,
                   connected, slots, final, n, start, i, errors, todo, old, ret>>

enable_events ==
    /\ bpc = "enable"
    /\ req_event' = Plus(req_cons, 1)
    /\ bpc' = "recheck"
    /\ UNCHANGED <<ring, req_prod, rsp_prod, rsp_event, evt_back, evt_front, guest,
                   connected, slots, final, n, start, i, errors, todo, old, ret>>

final_check ==
    /\ bpc = "recheck"
    /\ bpc' = ReadOrReturn(RING_HAS_UNCONSUMED_REQUESTS)
    /\ UNCHANGED <<shared, guest, connected, slots, final, n, start, i, errors,
                   todo, old, ret>>

(* __xenio_blkif_get_requests copies the requests up to req_prod into the   *)
(* free slots; it returns one more than it read when there were more than   *)
(* count                                                                    *)
copy_requests ==
    /\ bpc = "copy"
    /\ LET base  == RingSize - n_reqs_free + n
           count == n_reqs_free - n
           avail == Minus(req_prod, req_cons)
           read  == IF avail > count THEN count ELSE avail
       IN  /\ msg' = [s \in Slots |->
                        IF \E k \in 0 .. (read - 1) : reqs_free[base + k] = s
                        THEN LET k == CHOOSE k \in 0 .. (read - 1) : reqs_free[base + k] = s
                             IN  ring[Cell(Plus(req_cons, k))]
                        ELSE msg[s]]
           /\ req_cons' = Plus(req_cons, read)
           /\ n' = n + (IF avail > count THEN count + 1 ELSE avail)
    /\ bpc' = "get"
    /\ UNCHANGED <<shared, guest, connected, rsp_prod_pvt, reqs_free, n_reqs_free, vbd,
                   final, start, i, errors, todo, old, ret>>

(* the loop of tapdisk_xenblkif_ring_event: read until nothing is left,     *)
(* then queue what was read                                                 *)
got_requests ==
    /\ bpc = "got"
    /\ IF n > 0
       THEN /\ n_reqs_free' = n_reqs_free - n
            /\ final' = TRUE /\ n' = 0 /\ bpc' = "get"
            /\ UNCHANGED <<start, i>>
       ELSE /\ bpc' = IF start = n_reqs_free THEN "idle" ELSE "queue"
            /\ n' = start - n_reqs_free
            /\ start' = IF start = n_reqs_free THEN 0 ELSE start
            /\ i' = 0 /\ final' = FALSE
            /\ UNCHANGED n_reqs_free
    /\ UNCHANGED <<shared, guest, connected, req_cons, rsp_prod_pvt, reqs_free, msg, vbd,
                   errors, todo, old, ret>>

-----------------------------------------------------------------------------
(* The backend answers.                                                     *)

(* mutant: a completed slot is counted twice                                *)
free_request_twice(s) ==
    /\ n_reqs_free' = n_reqs_free + 2
    /\ reqs_free' = [reqs_free EXCEPT ![RingSize - n_reqs_free - 1] = s]

(* mutant: the slot is written over another free one                        *)
free_request_top(s) ==
    /\ n_reqs_free' = n_reqs_free + 1
    /\ reqs_free' = [reqs_free EXCEPT ![RingSize - 1] = s]

(* tapdisk_xenblkif_free_request                                            *)
free_request(s) ==
    /\ n_reqs_free' = n_reqs_free + 1
    /\ reqs_free' = [reqs_free EXCEPT ![RingSize - n_reqs_free - 1] = s]

(* mutant: only the final response advances the index                       *)
put_response_lagging(s, fin) ==
    /\ ring' = [ring EXCEPT ![Cell(rsp_prod_pvt)] = msg[s]]
    /\ IF fin THEN /\ rsp_prod_pvt' = Plus(rsp_prod_pvt, 1)
                   /\ rsp_prod' = rsp_prod_pvt' /\ old' = rsp_prod
       ELSE UNCHANGED <<rsp_prod, old, rsp_prod_pvt>>

(* xenio_blkif_put_responses of one response; fin publishes all             *)
put_response(s, fin) ==
    /\ ring' = [ring EXCEPT ![Cell(rsp_prod_pvt)] = msg[s]]
    /\ rsp_prod_pvt' = Plus(rsp_prod_pvt, 1)
    /\ IF fin THEN rsp_prod' = rsp_prod_pvt' /\ old' = rsp_prod
       ELSE UNCHANGED <<rsp_prod, old>>

(* RING_PUSH_RESPONSES_AND_CHECK_NOTIFY reads rsp_event after publishing    *)
notify ==
    /\ bpc = "notify"
    /\ evt_front' = (evt_front \/ Minus(rsp_prod, rsp_event) < Minus(rsp_prod, old))
    /\ bpc' = ret /\ ret' = "idle" /\ old' = 0
    /\ UNCHANGED <<ring, req_prod, req_event, rsp_prod, rsp_event, evt_back, guest,
                   connected, slots, final, n, start, i, errors, todo>>

BatchSlot(k) == reqs_free[RingSize - start + k]

(* tapdisk_xenblkif_queue_requests, one request: queued on the vbd, or      *)
(* answered with an error when it cannot be parsed or mapped                *)
queue_request ==
    /\ bpc = "queue" /\ i < n
    /\ vbd' = vbd \cup {BatchSlot(i)}
    /\ i' = i + 1
    /\ UNCHANGED <<shared, guest, connected, req_cons, rsp_prod_pvt, reqs_free,
                   n_reqs_free, msg, bpc, final, n, start, errors, todo, old, ret>>

fail_request ==
    /\ n <= FailBatch
    /\ bpc = "queue" /\ i < n
    /\ put_response(BatchSlot(i), TRUE)
    /\ free_request(BatchSlot(i))
    /\ i' = i + 1 /\ errors' = TRUE
    /\ bpc' = "notify" /\ ret' = "queue"
    /\ UNCHANGED <<req_prod, req_event, rsp_event, evt_back, evt_front, guest,
                   connected, req_cons, msg, vbd, final, n, start, todo>>

(* after errors the responses are pushed once more                          *)
queue_requests_end ==
    /\ bpc = "queue" /\ i = n
    /\ IF errors
       THEN /\ rsp_prod' = rsp_prod_pvt /\ old' = rsp_prod
            /\ bpc' = "notify" /\ ret' = "idle"
       ELSE bpc' = "idle" /\ UNCHANGED <<rsp_prod, old, ret>>
    /\ errors' = FALSE /\ n' = 0 /\ i' = 0 /\ start' = 0
    /\ UNCHANGED <<ring, req_prod, req_event, rsp_event, evt_back, evt_front, guest,
                   connected, slots, final, todo>>

(* tapdisk_vbd_kick of the requests C the vbd completed: the callback of    *)
(* the last one is final                                                    *)
kick(C) ==
    /\ connected /\ bpc = "idle"
    /\ C # {} /\ C \subseteq vbd
    /\ todo' = C /\ bpc' = "kick"
    /\ UNCHANGED <<shared, guest, connected, slots, final, n, start, i, errors, old, ret>>

(* __tapdisk_xenblkif_request_cb, tapdisk_xenblkif_complete_request         *)
request_cb(s) ==
    /\ bpc = "kick" /\ s \in todo
    /\ put_response(s, todo = {s})
    /\ free_request(s)
    /\ vbd' = vbd \ {s}
    /\ todo' = todo \ {s}
    /\ bpc' = IF todo = {s} THEN "notify" ELSE "kick"
    /\ ret' = "idle"
    /\ UNCHANGED <<req_prod, req_event, rsp_event, evt_back, evt_front, guest,
                   connected, req_cons, msg, final, n, start, i, errors>>

(* mutant: disconnect does not look at the slots                            *)
disconnect_busy ==
    /\ connected /\ bpc = "idle"
    /\ connected' = FALSE
    /\ UNCHANGED <<shared, guest, slots, back>>

(* tapdisk_xenblkif_disconnect, refused with EBUSY while slots are in use   *)
disconnect ==
    /\ connected /\ bpc = "idle"
    /\ n_reqs_free = RingSize
    /\ connected' = FALSE
    /\ UNCHANGED <<shared, guest, slots, back>>

(* tapdisk_xenblkif_connect                                                 *)
connect ==
    /\ ~connected
    /\ connected' = TRUE
    /\ ring' = [c \in Cells |-> NoId]
    /\ req_prod' = 0 /\ rsp_prod' = 0 /\ req_event' = 1 /\ rsp_event' = 1
    /\ evt_back' = FALSE /\ evt_front' = FALSE
    /\ free_ids' = Ids /\ req_prod_pvt' = 0 /\ rsp_cons' = 0 /\ gpc' = "run" /\ gold' = 0
    /\ req_cons' = 0 /\ rsp_prod_pvt' = 0
    /\ reqs_free' = [p \in Cells |-> RingSize - p]
    /\ n_reqs_free' = RingSize
    /\ msg' = [s \in Slots |-> NoId]
    /\ vbd' = {}
    /\ bpc' = "idle" /\ final' = FALSE /\ n' = 0 /\ start' = 0 /\ i' = 0
    /\ errors' = FALSE /\ todo' = {} /\ old' = 0 /\ ret' = "idle"

-----------------------------------------------------------------------------

Backend ==
    \/ get_requests \/ enable_events \/ final_check \/ copy_requests \/ got_requests
    \/ queue_request \/ fail_request \/ queue_requests_end \/ notify
    \/ \E s \in Slots : request_cb(s)

Next ==
    \/ \E id \in Ids : guest_put(id)
    \/ Guest
    \/ ring_event
    \/ Backend
    \/ \E C \in SUBSET Slots : kick(C)
    \/ disconnect
    \/ connect

Spec == Init /\ [][Next]_vars

(* The guest's driver and the backend's functions run to their ends; the    *)
(* event loop serves the ring event and each completed request again and    *)
(* again though other events may come first.                                *)
Fairness ==
    /\ WF_vars(Guest)
    /\ WF_vars(Backend)
    /\ SF_vars(guest_push) /\ SF_vars(guest_irq)
    /\ SF_vars(ring_event)
    /\ \A s \in Slots : SF_vars(\E C \in SUBSET Slots : s \in C /\ kick(C))

FairSpec == Spec /\ Fairness

-----------------------------------------------------------------------------
(* Properties                                                               *)

TypeOK ==
    /\ ring \in [Cells -> Ids \cup {NoId}]
    /\ {req_prod, req_event, rsp_prod, rsp_event, req_prod_pvt, rsp_cons, gold,
        req_cons, rsp_prod_pvt, old} \subseteq Idx
    /\ {evt_back, evt_front, connected, final, errors} \subseteq BOOLEAN
    /\ free_ids \subseteq Ids
    /\ gpc \in {"run", "pushed", "irq", "recheck"}
    /\ reqs_free \in [Cells -> Slots]
    /\ {n_reqs_free, start} \subseteq 0 .. RingSize
    /\ msg \in [Slots -> Ids \cup {NoId}]
    /\ vbd \subseteq Slots /\ todo \subseteq vbd
    /\ bpc \in {"idle", "get", "enable", "recheck", "copy", "got", "queue", "notify", "kick"}
    /\ {n, i} \subseteq 0 .. RingSize
    /\ ret \in {"idle", "queue"}

(* where the backend is in a batch it has read but not yet queued           *)
Reading == bpc \in {"get", "enable", "recheck", "copy", "got"}
BatchEnd == IF Reading THEN (start - n_reqs_free) + n ELSE n
BatchFrom == IF Reading THEN 0 ELSE i
Batch == IF Reading \/ bpc = "queue" \/ (bpc = "notify" /\ ret = "queue")
         THEN {BatchSlot(k) : k \in BatchFrom .. (BatchEnd - 1)} ELSE {}
FreeSlots == {reqs_free[p] : p \in (RingSize - n_reqs_free + (IF Reading THEN n ELSE 0))
                                     .. (RingSize - 1)}

(* Every id the guest has in flight is in exactly one place: in the ring as *)
(* a request not yet read, in a slot of the backend, or in the ring as a    *)
(* response not yet consumed.  So every request is answered at most once,   *)
(* none is lost, and no response overwrites a request that was not read.    *)
AnsweredOnce ==
    connected => \A id \in Ids :
        LET requests  == {a \in IdxRange(req_cons, req_prod_pvt) : ring[Cell(a)] = id}
            held      == {s \in Batch \cup vbd : msg[s] = id}
            responses == {a \in IdxRange(rsp_cons, rsp_prod_pvt) : ring[Cell(a)] = id}
        IN  Cardinality(requests) + Cardinality(held) + Cardinality(responses)
              = (IF id \in free_ids THEN 0 ELSE 1)

(* The slots are partitioned: free ones on the stack, once each, and the    *)
(* ones of the batch and of the vbd.  BUG_ON(n_reqs_free > ring_size) and   *)
(* BUG_ON(n_reqs < 0) cannot fire.                                          *)
SlotsAccounted ==
    /\ FreeSlots \cap (Batch \cup vbd) = {} /\ Batch \cap vbd = {}
    /\ FreeSlots \cup Batch \cup vbd = Slots
    /\ Cardinality(FreeSlots) = n_reqs_free - (IF Reading THEN n ELSE 0)

(* Every request of the guest is in exactly one place and every slot of the *)
(* backend in one list, whatever the two sides do at once.                  *)
RingSound == TypeOK /\ SlotsAccounted /\ AnsweredOnce

(* A block interface is taken down only when the vbd holds none of its      *)
(* requests.                                                                *)
DisconnectsQuiet == [][connected /\ ~connected' => vbd = {} /\ Batch = {}]_vars

(* No wakeup is lost in either direction, wherever the two sides are when   *)
(* the other one publishes: every request is answered, unless the interface *)
(* is disconnected.                                                         *)
Answered == \A id \in Ids : id \notin free_ids ~> (id \in free_ids \/ ~connected)
=============================================================================
