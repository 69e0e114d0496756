------------------------------ MODULE TdQueue ------------------------------
(***************************************************************************)
(* The aio queue of tapdisk: tapdisk-queue.c on libaio (the driver that    *)
(* tapdisk-server.c chooses), with the merging of io-optimize.c.           *)
(*                                                                         *)
(* Drivers hand tiocbs to the queue and get each back by its callback,     *)
(* which may queue more.  tiocbs are linked by their next pointers: those  *)
(* on the queue, for cancel_tiocbs, and those deferred while the queue is  *)
(* full.  All tiocbs are one unit long; pos stands for file, direction,    *)
(* offset and buffer: tiocbs at successive positions are contiguous.       *)
(***************************************************************************)
EXTENDS Integers, FiniteSets, SequencesExt

CONSTANTS
    Tiocbs,
    Size,          \* TAPDISK_TIOCBS: entries of the queue, of the aio context
    Positions,     \* where tiocbs go
    MayFail,       \* may io_submit fail, or submit less than it is given?
    Reuse,         \* may a callback queue its own tiocb again (block-vhd.c
                   \* does so with the tiocb of a bitmap)?
    NULL

ASSUME TdQueueAssumption ==
    /\ IsFiniteSet(Tiocbs) /\ NULL \notin Tiocbs
    /\ Size \in Nat \ {0}
    /\ Positions \subseteq Nat
    /\ MayFail \in BOOLEAN /\ Reuse \in BOOLEAN

VARIABLES
    next, pos, nbytes,               \* of the tiocbs
    owner,                           \* who has a tiocb: a driver or the queue
    iocbs,                           \* queue->iocbs, up to queue->queued
    head, tail,                      \* queue->deferred
    iocbs_pending, tiocbs_pending,
    flying,                          \* groups of merged tiocbs in the kernel
    landed,                          \* io_events io_getevents would return
    events,                          \* what is left of lio->aio_events
    pc,
    cur,                             \* the tiocb whose callback runs, or the
                                     \* next one to cancel
    err,                             \* what its callback is told: 0 or not
    cancelled,                       \* queued, in cancel_tiocbs
    full                             \* tiocbs transferred to their positions, as
                                     \* all of their group

lists  == <<next, iocbs, head, tail>>
kernel == <<flying, landed, full>>
loop   == <<events, pc, cur, err, cancelled>>
vars   == <<lists, pos, nbytes, owner, iocbs_pending, tiocbs_pending, kernel, loop>>

Ptr == Tiocbs \cup {NULL}

(* tapdisk_init_queue                                                      *)
Init ==
    /\ next = [t \in Tiocbs |-> NULL] /\ pos \in [Tiocbs -> {0}]
    /\ nbytes = [t \in Tiocbs |-> 1] /\ owner = [t \in Tiocbs |-> "driver"]
    /\ iocbs = <<>> /\ head = NULL /\ tail = NULL
    /\ iocbs_pending = 0 /\ tiocbs_pending = 0
    /\ flying = {} /\ landed = <<>> /\ full = {}
    /\ events = <<>> /\ pc = "idle" /\ cur = NULL /\ err = 0 /\ cancelled = 0

(* the tiocbs reached from a pointer along nxt                             *)
ChainOf(nxt, p) ==
    LET at[k \in 0 .. Cardinality(Tiocbs)] ==
            IF k = 0 THEN p ELSE IF at[k - 1] = NULL THEN NULL ELSE nxt[at[k - 1]]
        len == Cardinality({k \in 1 .. Cardinality(Tiocbs) : at[k - 1] # NULL})
    IN  [k \in 1 .. len |-> at[k - 1]]

Chain(p) == ChainOf(next, p)

(* mutant: the queue takes one tiocb more than fits                        *)
queue_full_late == tiocbs_pending + Len(iocbs) > Size

queue_full == tiocbs_pending + Len(iocbs) >= Size
-----------------------------------------------------------------------------
(* Queueing, by a driver or from a callback                                *)

CallbackRuns == pc \in {"event_cb", "cancel_cb"}

(* queue_tiocb, as a new value of next                                     *)
Linked(nxt, t) == IF iocbs = <<>> THEN nxt ELSE [nxt EXCEPT ![Last(iocbs)] = t]

defer_tiocb(nxt, t) ==
    /\ next' = IF head = NULL THEN nxt ELSE [nxt EXCEPT ![tail] = t]
    /\ head' = IF head = NULL THEN t ELSE head
    /\ tail' = t

(* td_prep_read or td_prep_write, then tapdisk_queue_tiocb                 *)
queue_tiocb(t, p) ==
    /\ pc = "idle" \/ CallbackRuns
    /\ owner[t] = "driver"
    /\ CallbackRuns /\ t = cur => Reuse
    /\ pos' = [pos EXCEPT ![t] = p]
    /\ nbytes' = [nbytes EXCEPT ![t] = 1]
    /\ owner' = [owner EXCEPT ![t] = "queue"]
    /\ LET prepared == [next EXCEPT ![t] = NULL] IN
        \/ /\ ~queue_full
           /\ next' = Linked(prepared, t)
           /\ iocbs' = Append(iocbs, t)
           /\ UNCHANGED <<head, tail>>
        \/ /\ queue_full
           /\ defer_tiocb(prepared, t)
           /\ UNCHANGED iocbs
    /\ UNCHANGED <<iocbs_pending, tiocbs_pending, kernel, loop>>

callback_returns ==
    /\ CallbackRuns
    /\ pc' = IF pc = "event_cb" THEN "event" ELSE "cancel"
    /\ cur' = IF pc = "event_cb" THEN NULL ELSE next[cur]
    /\ UNCHANGED <<lists, pos, nbytes, owner, iocbs_pending, tiocbs_pending, kernel, events, err, cancelled>>
-----------------------------------------------------------------------------
(* Submitting: io_merge and tapdisk_lio_submit                             *)

(* mutant: a tiocb that overlaps the one before it is merged too           *)
contiguous_overlap(l, r) == pos[r] \in pos[l] .. pos[l] + 1

contiguous(l, r) == pos[l] + 1 = pos[r]

(* each tiocb in turn joins the merged iocb that ends with the one before  *)
(* it or is the first of another                                           *)
heads(q) == {i \in 1 .. Len(q) : i = 1 \/ ~contiguous(q[i - 1], q[i])}

(* the merged iocbs, by the places of their first and their last tiocb     *)
io_merge(q) ==
    {r \in heads(q) \X (1 .. Len(q)) :
        /\ r[1] <= r[2] /\ (r[1] + 1 .. r[2]) \cap heads(q) = {}
        /\ r[2] + 1 \in heads(q) \cup {Len(q) + 1}}

(* the first iocb's length covers all                                      *)
merge(q) ==
    [t \in Tiocbs |-> IF \E r \in io_merge(q) : q[r[1]] = t
                      THEN LET r == CHOOSE r \in io_merge(q) : q[r[1]] = t IN r[2] - r[1] + 1
                      ELSE nbytes[t]]

(* iocbs that are no longer merged have their own length                   *)
restore_iocbs(lengths, ts) == [t \in Tiocbs |-> IF t \in ts THEN 1 ELSE lengths[t]]

(* mutant: tiocbs that failed stay counted as pending                      *)
cancel_ends_counted ==
    /\ pc = "cancel" /\ cur = NULL
    /\ pc' = "idle" /\ cancelled' = 0
    /\ UNCHANGED <<tiocbs_pending, lists, pos, nbytes, owner, iocbs_pending, kernel, events, cur, err>>

(* the kernel accepts the merged iocbs before rest; the others are split,  *)
(* taken off the queue and cancelled one by one along next                 *)
lio_submit(rest) ==
    /\ pc = "idle" /\ iocbs # <<>>
    /\ rest \in heads(iocbs) \cup {Len(iocbs) + 1}
    /\ rest <= Len(iocbs) => MayFail
    /\ LET submitted == {r \in io_merge(iocbs) : r[2] < rest}
           failed    == SubSeq(iocbs, rest, Len(iocbs))
       IN
        /\ flying' = flying \cup {SubSeq(iocbs, r[1], r[2]) : r \in submitted}
        /\ nbytes' = restore_iocbs(merge(iocbs), Range(failed))
        /\ iocbs_pending' = iocbs_pending + Cardinality(submitted)
        /\ tiocbs_pending' = tiocbs_pending + Len(iocbs)
        /\ iocbs' = <<>>
        /\ full' = full \ Range(iocbs)
        /\ \/ failed = <<>> /\ UNCHANGED loop
           \/ /\ failed # <<>>
              /\ pc' = "cancel" /\ cur' = failed[1] /\ cancelled' = Len(failed)
              /\ UNCHANGED <<events, err>>
    /\ UNCHANGED <<next, head, tail, pos, owner, landed>>

cancel_tiocb ==
    /\ pc = "cancel" /\ cur # NULL
    /\ owner' = [owner EXCEPT ![cur] = "driver"]
    /\ pc' = "cancel_cb" /\ err' = 1
    /\ UNCHANGED <<lists, pos, nbytes, iocbs_pending, tiocbs_pending, kernel, events, cur, cancelled>>

cancel_ends ==
    /\ pc = "cancel" /\ cur = NULL
    /\ tiocbs_pending' = tiocbs_pending - cancelled
    /\ pc' = "idle" /\ cancelled' = 0
    /\ UNCHANGED <<lists, pos, nbytes, owner, iocbs_pending, kernel, events, cur, err>>
-----------------------------------------------------------------------------
(* The kernel (external): a group is transferred to successive positions,  *)
(* entirely, in part or not at all                                         *)
lands(group, res) ==
    /\ group \in flying
    /\ res \in -1 .. nbytes[group[1]]
    /\ flying' = flying \ {group}
    /\ landed' = Append(landed, [group |-> group, res |-> res])
    /\ full' = full \cup {group[i] : i \in {j \in 1 .. Len(group) :
                            res = nbytes[group[1]] /\ pos[group[j]] = pos[group[1]] + j - 1}}
    /\ UNCHANGED <<lists, pos, nbytes, owner, iocbs_pending, tiocbs_pending, loop>>

(* Completions: io_split and tapdisk_lio_event                             *)

(* mutant: a short transfer is taken for a complete one                    *)
expand_event_short(e) == [group |-> e.group, res |-> IF e.res >= 0 THEN 1 ELSE -1]

(* each of the group gets its own length, or the error of all              *)
expand_event(e) ==
    [group |-> e.group, res |-> IF e.res = nbytes[e.group[1]] THEN 1 ELSE -1]

(* the tiocbs of a set of groups, of a sequence of landed groups or events *)
Grouped(gs) == UNION {Range(g) : g \in gs}
Members(es) == UNION {Range(es[i].group) : i \in DOMAIN es}

(* their places: what they count when they are split                       *)
split(es) == UNION {{i} \X DOMAIN es[i].group : i \in DOMAIN es}

lio_event ==
    /\ pc = "idle" /\ landed # <<>>
    /\ events' = [i \in DOMAIN landed |-> expand_event(landed[i])]
    /\ iocbs_pending' = iocbs_pending - Len(landed)
    /\ tiocbs_pending' = tiocbs_pending - Cardinality(split(landed))
    /\ nbytes' = restore_iocbs(nbytes, Members(landed))
    /\ landed' = <<>> /\ pc' = "event"
    /\ UNCHANGED <<lists, pos, owner, flying, full, cur, err, cancelled>>

(* the first tiocb of the first group that is left                         *)
complete_tiocb ==
    /\ pc = "event" /\ events # <<>>
    /\ LET e == Head(events) IN
        /\ cur' = Head(e.group)
        /\ owner' = [owner EXCEPT ![cur'] = "driver"]
        /\ err' = IF e.res = nbytes[cur'] THEN 0 ELSE 1
        /\ events' = (IF Len(e.group) = 1 THEN <<>> ELSE <<[e EXCEPT !.group = Tail(@)]>>)
                     \o Tail(events)
    /\ pc' = "event_cb"
    /\ UNCHANGED <<lists, pos, nbytes, iocbs_pending, tiocbs_pending, kernel, cancelled>>

(* mutant: the last place of the queue is left free                        *)
queue_deferred_tiocbs_early ==
    LET deferred == Chain(head)
        room     == Size - (tiocbs_pending + Len(iocbs)) - 1
    IN  SubSeq(deferred, 1, IF room < Len(deferred) THEN room ELSE Len(deferred))

(* the deferred tiocbs that fit into the queue now                         *)
queue_deferred_tiocbs ==
    LET deferred == Chain(head)
        room     == Size - (tiocbs_pending + Len(iocbs))
        n        == IF room <= 0 THEN 0 ELSE IF room < Len(deferred) THEN room ELSE Len(deferred)
    IN  SubSeq(deferred, 1, n)

(* they are linked to the queue; next of the last one is left alone        *)
lio_event_ends ==
    /\ pc = "event" /\ events = <<>>
    /\ LET moved == queue_deferred_tiocbs IN
        \/ moved = <<>> /\ UNCHANGED lists
        \/ /\ moved # <<>>
           /\ next' = Linked(next, moved[1])
           /\ iocbs' = iocbs \o moved
           /\ head' = next[Last(moved)]
           /\ tail' = IF head' = NULL THEN NULL ELSE tail
    /\ pc' = "idle"
    /\ UNCHANGED <<pos, nbytes, owner, iocbs_pending, tiocbs_pending, kernel, events, cur, err, cancelled>>
-----------------------------------------------------------------------------
submit == \E rest \in 1 .. Len(iocbs) + 1 : lio_submit(rest)
land   == \E group \in flying, res \in -1 .. Cardinality(Tiocbs) : lands(group, res)

Next ==
    \/ \E t \in Tiocbs, p \in Positions : queue_tiocb(t, p)
    \/ callback_returns
    \/ submit
    \/ cancel_tiocb
    \/ cancel_ends
    \/ land
    \/ lio_event
    \/ complete_tiocb
    \/ lio_event_ends

Spec == Init /\ [][Next]_vars

(* callbacks return, the server submits what is queued and takes the       *)
(* events, and the kernel completes what was submitted                     *)
Fairness ==
    /\ WF_vars(callback_returns)
    /\ SF_vars(submit) /\ WF_vars(cancel_tiocb) /\ WF_vars(cancel_ends)
    /\ \A t \in Tiocbs : WF_vars(\E group \in flying, res \in -1 .. Cardinality(Tiocbs) :
                                    group[1] = t /\ lands(group, res))
    /\ SF_vars(lio_event) /\ WF_vars(complete_tiocb) /\ WF_vars(lio_event_ends)

FairSpec == Spec /\ Fairness
-----------------------------------------------------------------------------
(* where the queue has tiocbs                                              *)
Deferred == Chain(head)
Cancelling ==
    CASE pc = "cancel"    -> Chain(cur)
      [] pc = "cancel_cb" -> Chain(next[cur])
      [] OTHER            -> <<>>

TypeOK ==
    /\ next \in [Tiocbs -> Ptr] /\ pos \in [Tiocbs -> Nat]
    /\ nbytes \in [Tiocbs -> 1 .. Cardinality(Tiocbs)]
    /\ owner \in [Tiocbs -> {"driver", "queue"}]
    /\ iocbs \in Seq(Tiocbs) /\ head \in Ptr /\ tail \in Ptr
    /\ iocbs_pending \in Nat /\ tiocbs_pending \in Nat
    /\ flying \subseteq Seq(Tiocbs) /\ full \subseteq Tiocbs
    /\ landed \in Seq([group : Seq(Tiocbs), res : Int])
    /\ events \in Seq([group : Seq(Tiocbs), res : Int])
    /\ pc \in {"idle", "event", "event_cb", "cancel", "cancel_cb"}
    /\ cur \in Ptr /\ err \in {0, 1} /\ cancelled \in Nat

Occurs(t, seq) == Cardinality({i \in 1 .. Len(seq) : seq[i] = t})
Times(t) ==
      Occurs(t, iocbs) + Occurs(t, Deferred) + Occurs(t, Cancelling)
    + Cardinality({g \in flying : t \in Range(g)})
    + Cardinality({i \in DOMAIN landed : t \in Range(landed[i].group)})
    + Cardinality({i \in DOMAIN events : t \in Range(events[i].group)})

(* Every tiocb a driver handed over is in exactly one place of the queue,  *)
(* and none is that the driver has back: each callback is called exactly   *)
(* once, whatever callbacks queue while others are cancelled or completed  *)
(* (a private linked list keeps track of the tiocbs we're cancelling).     *)
OnePlace == \A t \in Tiocbs : Times(t) = IF owner[t] = "queue" THEN 1 ELSE 0

(* The counters that decide whether the queue is full count what the       *)
(* kernel has and what is cancelled, merged iocbs and their tiocbs apart.  *)
CountersExact ==
    /\ tiocbs_pending = Cardinality(Grouped(flying)) + Cardinality(split(landed)) + cancelled
    /\ iocbs_pending = Cardinality(flying) + Len(landed)

(* The arrays of Size entries never overflow: what is queued, what the     *)
(* kernel has, and the events of one call of io_getevents after splitting. *)
NoOverflow ==
    /\ tiocbs_pending + Len(iocbs) <= Size
    /\ Cardinality(Members(events)) <= Size

(* Every tiocb a driver handed over is in one place of the queue and called*)
(* back once, and the counters that say whether the queue is full count    *)
(* what the kernel has, so that nothing overflows.                         *)
OnceAndCounted == TypeOK /\ OnePlace /\ CountersExact /\ NoOverflow

(* A driver is told of success exactly when the kernel transferred all of  *)
(* its tiocb and of those it was merged with.                              *)
ResultHonest == CallbackRuns => (err = 0 <=> cur \in full)

(* "tapdisk_queue_complete will ensure deferred iocbs are queued as slots  *)
(* become available": every tiocb comes back to its driver, whatever other *)
(* tiocbs drivers go on queueing.                                          *)
Completed == \A t \in Tiocbs : owner[t] = "queue" ~> owner[t] = "driver"

(* Once drivers queue no more, every tiocb comes back to its driver: none  *)
(* stays deferred, nothing waits for an event that will not come.          *)
NothingQueued == \A t \in Tiocbs : owner'[t] = "queue" => owner[t] = "queue"
Drained ==
    <>[][NothingQueued]_vars => []<>(\A t \in Tiocbs : owner[t] = "driver")
=============================================================================
