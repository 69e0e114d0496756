---- MODULE VhdDriver ----
(***************************************************************************)
(* block-vhd.c: the asynchronous driver of dynamic and differencing vhds.  *)
(*                                                                         *)
(* A write that needs a new block or new bits in a bitmap is answered only *)
(* when the data, the BAT and the bitmap are on disk: data writes to one   *)
(* block form a transaction, which ends with the write of the block's      *)
(* bitmap; writes that come once it is closed queue for the next one.  One *)
(* block at a time is allocated, under the lock of the BAT.  The bitmaps   *)
(* are kept in a cache of CacheSize; a request to a block whose bitmap is  *)
(* not there waits until it is read.                                       *)
(*                                                                         *)
(* mem is what the driver keeps, disk the file.  Every aio that is under   *)
(* way may end at any time, in any order, well or with an error, and the   *)
(* process may be killed at any time, with any of them on disk or not.  A  *)
(* write of metadata that fails has changed nothing, one of data may have. *)
(* Places in the file are numbered: a place is a block with its bitmap.    *)
(***************************************************************************)
EXTENDS Integers, FiniteSets, Sequences, SequencesExt

CONSTANTS
  Blocks,     \* the number of blocks
  Spb,        \* sectors per block
  CacheSize,  \* VHD_CACHE_SIZE
  VReqs,      \* VHD_REQS_DATA
  Disks,      \* the files it may be, and whether they are on storage that is preallocated
  Shapes,     \* the requests: <<first sector, number of sectors>>
  Reqs,       \* how many requests are made
  Faults      \* how many I/Os fail, and how often the process is killed or the vhd is closed

VARIABLES
  mem,        \* struct vhd_state
  disk,       \* the file
  want,       \* history: for every sector the writes a read of it may show
  open,       \* history: the requests that are not answered yet
  lied,       \* history: a read was answered with something else
  stray,      \* history: sectors of blocks allocated where a failed block's writes still go
  reqs, faults

vars == <<mem, disk, want, open, lied, stray, reqs, faults>>

Blks == 0 .. Blocks - 1
Offs == 0 .. Spb - 1
Sectors == 0 .. Blocks * Spb - 1
Blk(sec) == sec \div Spb
Off(sec) == sec % Spb
UNUSED == 0
Places == 1 .. Blocks

\* What a sector shows: the write with that number, what was there when the vhd
\* was opened first, what the parent has, or whatever the file held before.
Old == 0
Parent == -1
Junk == -2

Least(a, b) == IF a < b THEN a ELSE b
\* The sectors of a request from lo on that are in the block of lo.
InBlock(lo, n) == Least(n, Spb - Off(lo))
Span(lo, n) == {Off(lo + i) : i \in 0 .. n - 1}

----------------------------------------------------------------------------
\* struct vhd_bitmap with its transaction.  map is what is known to be on disk,
\* shadow what the next write of the bitmap writes.  Requests are named by
\* <<request, first sector>>, Meta is zero_req or the request of the BAT.
Meta == <<0, 0>>

init_tx == [err |-> FALSE, closed |-> FALSE, started |-> 0, finished |-> 0,
            live |-> FALSE, upd |-> FALSE, requests |-> {}]
init_vhd_bitmap == [map |-> {}, shadow |-> {}, locked |-> FALSE, reading |-> FALSE,
                    writing |-> FALSE, tx |-> init_tx, queue |-> {}, waiting |-> <<>>]
init_bat == [held |-> FALSE, started |-> FALSE, blk |-> 0, place |-> 0, err |-> FALSE, tx |-> FALSE]

bitmap_in_use(bm) ==
  bm.reading \/ bm.writing \/ bm.tx.upd \/ bm.waiting # <<>> \/ bm.tx.requests # {} \/ bm.queue # {}

transaction_completed(tx) == tx.started = tx.finished

\* ASSERT calls td_panic.
ASSERT(m, p) == [m EXCEPT !.panic = @ \/ ~p]

cached(m, b) == b \in DOMAIN m.cache
vreqs_used(m) == Cardinality(DOMAIN m.reqs) + Cardinality({i \in m.io : i.op = "rbm"})
alloc_vhd_request(m) == vreqs_used(m) < VReqs

unlocked(m, b) == IF cached(m, b) THEN [m EXCEPT !.cache[b].locked = bitmap_in_use(m.cache[b]) /\ @] ELSE m

add_to_transaction(m, b, k) ==
  [ASSERT(m, ~m.cache[b].tx.closed) EXCEPT
     !.cache[b].tx.started = @ + 1, !.cache[b].tx.requests = @ \cup {k}, !.cache[b].tx.live = TRUE]

\* touch_bitmap: lru has the cached blocks in the order of their seqno, which
\* ends with None when the bitmap touched last has left the cache.
None == -1
touch_bitmap(m, b) == [m EXCEPT !.lru = Append(SelectSeq(@, LAMBDA x : x \notin {b, None}), b)]

\* Mutant: a locked bitmap is evicted too.
Evictable_locked(m) == 1 .. Len(m.lru) - 1

\* remove_lru_bitmap looks for a seqno below the last one given out.
Evictable(m) == {i \in 1 .. Len(m.lru) - 1 : ~m.cache[m.lru[i]].locked}

remove_lru_bitmap(m) ==
  LET b == m.lru[CHOOSE i \in Evictable(m) : \A j \in Evictable(m) : i <= j]
  IN  [ASSERT(m, ~bitmap_in_use(m.cache[b])) EXCEPT
         !.cache = [x \in DOMAIN @ \ {b} |-> @[x]], !.lru = SelectSeq(@, LAMBDA x : x # b)]

Room(m) == Cardinality(DOMAIN m.cache) < CacheSize
alloc_vhd_bitmap(m) == Room(m) \/ Evictable(m) # {}

install_bitmap(m, b) ==
  LET m1 == IF Room(m) THEN m ELSE remove_lru_bitmap(m)
  IN  touch_bitmap([m1 EXCEPT !.cache = [x \in DOMAIN @ \cup {b} |-> IF x = b THEN init_vhd_bitmap ELSE @[x]]], b)

free_vhd_bitmap(m, b) ==
  [ASSERT(m, ~m.cache[b].locked /\ ~bitmap_in_use(m.cache[b])) EXCEPT
     !.cache = [x \in DOMAIN @ \ {b} |-> @[x]],
     !.lru = SelectSeq(@, LAMBDA x : x # b) \o (IF Last(@) = b THEN <<None>> ELSE <<>>)]

\* Whether the sector is in the vhd, as far as the driver knows.  A bit counts
\* only once it is on disk.  A cached bitmap that is looked at is touched.
bats_first(m, b, op) ==
  IF m.bat[b] = UNUSED
    THEN IF op = "write" /\ m.lock.blk # b /\ m.lock.held THEN "bat_locked" ELSE "bat_clear"
  ELSE IF b \in m.batmap THEN "bit_set"
  ELSE IF cached(m, b) THEN "cached" ELSE "not_cached"

\* Mutant: the bits of a bitmap that is still being read are taken for its bits.
read_bitmap_cache_early(m, sec, op) ==
  LET b == Blk(sec)  first == bats_first(m, b, op)
  IN  IF first # "cached" THEN first
      ELSE IF Off(sec) \in m.cache[b].map THEN "bit_set" ELSE "bit_clear"

read_bitmap_cache(m, sec, op) ==
  LET b == Blk(sec)  first == bats_first(m, b, op)
  IN  IF first # "cached" THEN first
      ELSE IF m.cache[b].reading THEN "read_pending"
      ELSE IF Off(sec) \in m.cache[b].map THEN "bit_set" ELSE "bit_clear"

Touched(m, sec, op) ==
  IF bats_first(m, Blk(sec), op) = "cached" THEN touch_bitmap(m, Blk(sec)) ELSE m

\* read_bitmap_cache_span: how many of the n sectors from lo on are as lo is.
read_bitmap_cache_span(m, lo, n) ==
  LET b == Blk(lo)  k == InBlock(lo, n)
      same(i) == (Off(lo + i) \in m.cache[b].map) = (Off(lo) \in m.cache[b].map)
  IN  IF b \in m.batmap THEN k
      ELSE CHOOSE i \in 1 .. k : (i = k \/ ~same(i)) /\ \A j \in 0 .. i - 1 : same(j)

----------------------------------------------------------------------------
\* Allocating a block.  What a step does to the file at once is in m.sync.
Io(m, op, b, k, x) == [m EXCEPT !.io = @ \cup {[op |-> op, blk |-> b, key |-> k, x |-> x]}]

\* schedule_bat_write: the sector of the BAT with the new entry in it.
schedule_bat_write(m) ==
  LET x == [m.bat EXCEPT ![m.lock.blk] = m.lock.place]
  IN  [Io(ASSERT(m, m.lock.held), "bat", m.lock.blk, Meta, x) EXCEPT
         !.lock.err = FALSE, !.lock.tx = FALSE, !.lock.started = TRUE]

reserve_new_block(m, b) ==
  [ASSERT(m, ~m.lock.started) EXCEPT !.lock.blk = b, !.lock.place = m.next]

schedule_zero_bm_write(m, b) ==
  Io(add_to_transaction([m EXCEPT !.cache[b].locked = TRUE], b, Meta), "zero", b, Meta, m.lock.place)

\* Every operation that may fail says so in m.fail.
Fail(m) == [m EXCEPT !.fail = TRUE]

update_bat(m, b) ==
  IF m.lock.held THEN ASSERT(m, m.lock.blk = b)
  ELSE IF ~cached(m, b) /\ ~alloc_vhd_bitmap(m) THEN Fail(m)
  ELSE LET m1 == IF cached(m, b) THEN m ELSE install_bitmap(m, b)
           m2 == schedule_zero_bm_write(reserve_new_block([m1 EXCEPT !.lock.held = TRUE], b), b)
       IN  [m2 EXCEPT !.cache[b].tx.upd = TRUE]

\* With PREALLOCATE the block is filled with zeros before anything else; bad
\* says that this write fails.
allocate_block(m, b, bad) ==
  IF m.lock.held THEN LET m1 == ASSERT(m, m.lock.blk = b) IN IF m.lock.err THEN Fail(m1) ELSE m1
  ELSE LET m1 == [m EXCEPT !.lock.blk = b, !.lock.place = m.next]
           m2 == [m1 EXCEPT !.sync = {m.next}]
           m3 == IF cached(m, b) THEN m2 ELSE install_bitmap(m2, b)
       IN  IF bad THEN Fail(m1)
           ELSE IF ~cached(m, b) /\ ~alloc_vhd_bitmap(m) THEN Fail(m2)
           ELSE add_to_transaction(schedule_bat_write([m3 EXCEPT !.lock.held = TRUE, !.cache[b].locked = TRUE]), b, Meta)

----------------------------------------------------------------------------
\* Scheduling.
Request(m, id, op, lo, n) ==
  [m EXCEPT !.reqs = [k \in DOMAIN @ \cup {<<id, lo>>} |->
      IF k = <<id, lo>> THEN [op |-> op, n |-> n, queued |-> FALSE, finished |-> FALSE, err |-> FALSE, tx |-> FALSE]
      ELSE @[k]]]
Freed(m, ks) == [m EXCEPT !.reqs = [k \in DOMAIN @ \ ks |-> @[k]]]

schedule_data_read(m, id, lo, n) ==
  LET b == Blk(lo)
      m1 == ASSERT(m, m.bat[b] # UNUSED /\ (b \in m.batmap \/ (cached(m, b) /\ ~m.cache[b].reading)))
  IN  IF ~alloc_vhd_request(m1) THEN Fail(m1)
      ELSE Io(Request(m1, id, "read", lo, n), "read", b, <<id, lo>>, m.bat[b])

\* A block that is full is written with its bitmap again, to write in sequence;
\* not the first one in the file.
schedule_redundant_bm_write(m, b, k) ==
  IF ~alloc_vhd_request(m) THEN m ELSE Io(m, "rbm", b, k, m.bat[b])

\* Writes to a block whose transaction is closed queue for the next one.
transact(m, b, k) ==
  IF m.cache[b].tx.closed
    THEN [m EXCEPT !.cache[b].locked = TRUE, !.cache[b].queue = @ \cup {k}, !.reqs[k].queued = TRUE]
    ELSE [add_to_transaction(m, b, k) EXCEPT !.cache[b].locked = TRUE, !.reqs[k].tx = TRUE]

\* The data itself goes to where the block is, or will be, at once.
write_data(m, id, lo, n, updbat, updbm) ==
  LET b == Blk(lo)  k == <<id, lo>>
      m1 == Request(m, id, "write", lo, n)
      m2 == IF updbm THEN transact(ASSERT(m1, cached(m, b) /\ ~m.cache[b].reading), b, k)
            ELSE IF Off(lo) = 0 /\ m.bat[b] # 1 /\ b \in m.batmap THEN schedule_redundant_bm_write(m1, b, k)
            ELSE m1
  IN  IF m.fail THEN m
      ELSE IF ~alloc_vhd_request(m) THEN Fail(m)
      ELSE Io(m2, "data", b, k, IF updbat THEN m.lock.place ELSE m.bat[b])

schedule_data_write(m, id, lo, n, updbat, updbm, bad) ==
  write_data(IF ~updbat THEN m
             ELSE IF m.prealloc THEN allocate_block(m, Blk(lo), bad) ELSE update_bat(m, Blk(lo)),
             id, lo, n, updbat, updbm)

schedule_bitmap_read(m, b) ==
  IF ~alloc_vhd_bitmap(m) THEN Fail(m)
  ELSE LET m1 == install_bitmap(ASSERT(m, m.bat[b] # UNUSED /\ ~cached(m, b)), b)
       IN  Io([m1 EXCEPT !.cache[b].locked = TRUE, !.cache[b].reading = TRUE], "bm_read", b, Meta, m.bat[b])

\* Until the BAT has the block its bitmap is where it will be.
schedule_bitmap_write(m, b) ==
  LET bm == m.cache[b]
      ok == ~bm.reading /\ ~bm.writing /\ (m.bat[b] = UNUSED => m.lock.held /\ m.lock.blk = b)
      place == IF m.bat[b] = UNUSED THEN m.lock.place ELSE m.bat[b]
  IN  touch_bitmap([Io(ASSERT(m, ok), "bm_write", b, Meta, [place |-> place, bits |-> bm.shadow]) EXCEPT
                      !.cache[b].locked = TRUE, !.cache[b].writing = TRUE], b)

\* __vhd_queue_request
wait_for_bitmap(m, id, op, lo, n) ==
  LET b == Blk(lo)
      m1 == ASSERT(m, cached(m, b) /\ m.cache[b].reading)
  IN  IF m.fail THEN m
      ELSE IF ~alloc_vhd_request(m1) THEN Fail(m1)
      ELSE [Request(m1, id, op, lo, n) EXCEPT !.cache[b].waiting = Append(@, <<id, lo>>), !.cache[b].locked = TRUE]

\* td_complete_request and td_forward_request: answers for n sectors from lo on;
\* from says where the data of a read comes from.
Answer(m, id, lo, n, err, from) ==
  [m EXCEPT !.out = @ \cup {[id |-> id, lo |-> lo, n |-> n, err |-> err, from |-> from]}]

Whole(is) == is \in {"bat_clear", "not_cached", "read_pending"}
Extent(m, is, lo, n) == IF Whole(is) THEN InBlock(lo, n) ELSE read_bitmap_cache_span(m, lo, n)

\* The wait for a bitmap, which is read first unless it is being read already.
await_bitmap(m, id, op, lo, k, is) ==
  wait_for_bitmap(IF is = "not_cached" THEN schedule_bitmap_read(m, Blk(lo)) ELSE m, id, op, lo, k)

start_read(m, id, lo, k, is) ==
  CASE is \in {"bat_clear", "bit_clear"} -> Answer(m, id, lo, k, FALSE, UNUSED)
    [] is = "bit_set" -> schedule_data_read(m, id, lo, k)
    [] is \in {"not_cached", "read_pending"} -> await_bitmap(m, id, "read", lo, k, is)

\* What is left of a request that could not go on is answered with the error.
RECURSIVE vhd_queue_read(_, _, _, _)
read_rest(m, id, lo, n, k) ==
  IF m.fail THEN Answer([m EXCEPT !.fail = FALSE], id, lo, n, TRUE, UNUSED)
  ELSE vhd_queue_read(m, id, lo + k, n - k)
read_part(m, id, lo, n, is, k) == read_rest(start_read(Touched(m, lo, "read"), id, lo, k, is), id, lo, n, k)
vhd_queue_read(m, id, lo, n) ==
  LET is == read_bitmap_cache(m, lo, "read")
  IN  IF n = 0 THEN m ELSE read_part(m, id, lo, n, is, Extent(m, is, lo, n))

start_write(m, id, lo, k, is, bad) ==
  IF is \in {"not_cached", "read_pending"} THEN await_bitmap(m, id, "write", lo, k, is)
  ELSE schedule_data_write(m, id, lo, k, is = "bat_clear", is # "bit_set", bad)

RECURSIVE vhd_queue_write(_, _, _, _, _)
write_rest(m, id, lo, n, k, bad) ==
  IF m.fail THEN Answer([m EXCEPT !.fail = FALSE], id, lo, n, TRUE, UNUSED)
  ELSE vhd_queue_write(m, id, lo + k, n - k, bad)
write_part(m, id, lo, n, is, k, bad) ==
  write_rest(start_write(Touched(m, lo, "write"), id, lo, k, is, bad), id, lo, n, k, bad)
vhd_queue_write(m, id, lo, n, bad) ==
  LET is == read_bitmap_cache(m, lo, "write")
  IN  IF n = 0 THEN m
      ELSE IF is = "bat_locked" THEN Answer(m, id, lo, n, TRUE, UNUSED)
      ELSE write_part(m, id, lo, n, is, Extent(m, is, lo, n), bad)

----------------------------------------------------------------------------
\* Completions.
signal_completion(m, ks, err) ==
  [Freed(ASSERT(m, Meta \notin ks), ks) EXCEPT
     !.out = @ \cup {[id |-> k[1], lo |-> k[2], n |-> m.reqs[k].n, err |-> err \/ m.reqs[k].err, from |-> UNUSED] :
                     k \in ks \ {Meta}}]

Written(m, ks) == UNION {Span(k[2], m.reqs[k].n) : k \in {x \in ks : ~m.reqs[x].err}}

\* finish_bat_transaction: after a failed write of the BAT the lock is kept until
\* all writes to the block that was to be allocated have ended.
finish_bat_transaction(m, b) ==
  IF ~m.lock.held \/ m.lock.blk # b THEN m
  ELSE IF m.lock.err /\ m.cache[b].tx.live THEN [m EXCEPT !.cache[b].tx.closed = TRUE]
  ELSE [m EXCEPT !.lock = init_bat]

RECURSIVE finish_data_transaction(_, _)
\* What has queued becomes the next transaction.
start_new_bitmap_transaction(m, b) ==
  LET q == m.cache[b].queue
      done == {k \in q : m.reqs[k].finished}
      m1 == [m EXCEPT !.cache[b].queue = {}, !.cache[b].tx.err = @ \/ m.bat[b] = UNUSED,
                      !.cache[b].tx.started = @ + Cardinality(q), !.cache[b].tx.finished = @ + Cardinality(done),
                      !.cache[b].tx.live = TRUE, !.cache[b].tx.requests = @ \cup q,
                      !.cache[b].shadow = @ \cup Written(m, done),
                      !.reqs = [k \in DOMAIN @ |-> IF k \in q THEN [@[k] EXCEPT !.queued = FALSE, !.tx = TRUE] ELSE @[k]]]
  IN  IF q = {} THEN m
      ELSE IF transaction_completed(m1.cache[b].tx) THEN finish_data_transaction(m1, b) ELSE m1

\* Mutant: the transaction ends without waiting for the BAT.
finish_bitmap_transaction_early(m0, b, error) ==
  LET m == [m0 EXCEPT !.cache[b].tx.err = @ \/ error]
      bm == m.cache[b]  tx == bm.tx
      m1 == IF tx.err THEN [m EXCEPT !.cache[b].shadow = bm.map]
            ELSE [m EXCEPT !.cache[b].map = bm.shadow]
      m2 == [signal_completion(m1, tx.requests, tx.err) EXCEPT !.cache[b].tx = init_tx]
  IN  finish_bat_transaction(unlocked(start_new_bitmap_transaction(m2, b), b), b)

\* The bitmap is written, or the transaction has failed before: without
\* PREALLOCATE the write of the BAT may still be under way.
finish_bitmap_transaction(m0, b, error) ==
  LET m == [m0 EXCEPT !.cache[b].tx.err = @ \/ error]
      bm == m.cache[b]  tx == bm.tx
      m1 == IF tx.err THEN [m EXCEPT !.cache[b].shadow = bm.map]
            ELSE [m EXCEPT !.cache[b].map = bm.shadow,
                           !.batmap = IF m.has /\ bm.shadow = Offs THEN @ \cup {b} ELSE @]
      m2 == [signal_completion(m1, tx.requests, tx.err) EXCEPT !.cache[b].tx = init_tx]
  IN  IF ~m.prealloc /\ tx.upd THEN [ASSERT(m, m.lock.blk = b /\ m.lock.started) EXCEPT !.lock.tx = TRUE]
      ELSE finish_bat_transaction(unlocked(start_new_bitmap_transaction(m2, b), b), b)

finish_data_transaction(m0, b) ==
  LET m == [m0 EXCEPT !.cache[b].tx.closed = TRUE]
  IN  IF m.cache[b].tx.err THEN finish_bitmap_transaction(m, b, FALSE) ELSE schedule_bitmap_write(m, b)

Completed(m, b) == IF transaction_completed(m.cache[b].tx) THEN finish_data_transaction(m, b) ELSE m

finish_bat_write(m, b, err) ==
  LET m1 == [ASSERT(m, m.lock.held /\ m.lock.started /\ m.cache[b].tx.live) EXCEPT !.lock.err = err]
      m2 == IF err THEN [m1 EXCEPT !.cache[b].tx.err = TRUE]
            ELSE [m1 EXCEPT !.bat[b] = m.lock.place, !.next = m.lock.place + 1]
      m3 == IF m.prealloc
              THEN Completed([m2 EXCEPT !.cache[b].tx.finished = @ + 1, !.cache[b].tx.requests = @ \ {Meta}], b)
              ELSE LET m4 == [m2 EXCEPT !.cache[b].tx.upd = FALSE]
                   IN  IF m.lock.tx THEN finish_bitmap_transaction(m4, b, err) ELSE m4
  IN  finish_bat_transaction(m3, b)

\* Mutant: the transaction still waits for the BAT after the zeros failed.
finish_zero_bm_write_waits(m, b, err) ==
  LET m1 == [m EXCEPT !.cache[b].tx.finished = @ + 1, !.cache[b].tx.requests = @ \ {Meta}]
      m2 == IF err THEN [m1 EXCEPT !.lock = init_bat, !.cache[b].tx.err = TRUE] ELSE schedule_bat_write(m1)
  IN  Completed(m2, b)

finish_zero_bm_write(m, b, err) ==
  LET m1 == [ASSERT(m, m.lock.held /\ m.lock.blk = b /\ m.cache[b].locked) EXCEPT
               !.cache[b].tx.finished = @ + 1, !.cache[b].tx.requests = @ \ {Meta}]
      m2 == IF err THEN [m1 EXCEPT !.lock = init_bat, !.cache[b].tx.err = TRUE, !.cache[b].tx.upd = FALSE]
            ELSE schedule_bat_write(m1)
  IN  Completed(m2, b)

RECURSIVE requeue(_, _, _)
requeue(m, ks, rs) ==
  IF ks = <<>> THEN m
  ELSE LET k == Head(ks)  r == rs[k]  m1 == Freed(m, {k})
       IN  requeue(IF r.op = "read" THEN vhd_queue_read(m1, k[1], k[2], r.n)
                   ELSE vhd_queue_write(m1, k[1], k[2], r.n, FALSE), Tail(ks), rs)

finish_bitmap_read(m, b, err, bits) ==
  LET ks == m.cache[b].waiting
      m1 == [m EXCEPT !.cache[b].waiting = <<>>, !.cache[b].reading = FALSE]
      m2 == requeue([m1 EXCEPT !.cache[b].map = bits, !.cache[b].shadow = bits], ks, m.reqs)
  IN  IF err THEN signal_completion(free_vhd_bitmap([m1 EXCEPT !.cache[b].locked = FALSE], b), ToSet(ks), TRUE)
      ELSE unlocked(m2, b)

finish_bitmap_write(m, b, err) ==
  finish_bitmap_transaction([ASSERT(m, m.cache[b].tx.closed /\ m.cache[b].writing) EXCEPT !.cache[b].writing = FALSE],
                            b, err)

finish_data_read(m, k, place) ==
  LET r == m.reqs[k]
  IN  Answer(Freed(m, {k}), k[1], k[2], r.n, r.err, place)

finish_data_write(m, b, k) ==
  LET m1 == [m EXCEPT !.reqs[k].finished = TRUE]
      m2 == [ASSERT(m1, cached(m, b) /\ ~m.cache[b].reading /\ m.cache[b].locked) EXCEPT
               !.cache[b].tx.finished = @ + 1, !.cache[b].shadow = @ \cup Written(m, {k})]
  IN  IF m.reqs[k].tx THEN Completed(m2, b)
      ELSE IF ~m.reqs[k].queued THEN signal_completion(m1, {k}, FALSE) ELSE m1

\* vhd_complete
vhd_complete(m0, i, err) ==
  LET m == [m0 EXCEPT !.io = @ \ {i}]  e == [m EXCEPT !.reqs[i.key].err = err]
  IN  CASE i.op = "read" -> finish_data_read(e, i.key, i.x)
        [] i.op = "data" -> finish_data_write(e, i.blk, i.key)
        [] i.op = "bm_read" -> finish_bitmap_read(m, i.blk, err, disk.bits[i.x])
        [] i.op = "bm_write" -> finish_bitmap_write(m, i.blk, err)
        [] i.op = "zero" -> finish_zero_bm_write(m, i.blk, err)
        [] i.op = "rbm" -> m
        [] i.op = "bat" -> finish_bat_write(m, i.blk, err)

----------------------------------------------------------------------------
\* The file.
Landed(d, m, i) ==
  CASE i.op = "data" -> [d EXCEPT !.data[i.x] = [o \in Offs |-> IF o \in Span(i.key[2], m.reqs[i.key].n) THEN i.key[1] ELSE @[o]]]
    [] i.op = "bm_write" -> [d EXCEPT !.bits[i.x.place] = i.x.bits]
    [] i.op = "zero" -> [d EXCEPT !.bits[i.x] = {}]
    [] i.op = "rbm" -> [d EXCEPT !.bits[i.x] = Offs]
    [] i.op = "bat" -> [d EXCEPT !.bat = i.x]
    [] OTHER -> d

Zeroed(d, ps) == [d EXCEPT !.bits = [p \in Places |-> IF p \in ps THEN {} ELSE @[p]],
                           !.data = [p \in Places |-> IF p \in ps THEN [o \in Offs |-> Junk] ELSE @[p]]]

\* What a sector shows to whoever opens the file.
Shown(d, sec) ==
  LET p == d.bat[Blk(sec)]
  IN  IF p # UNUSED /\ (Blk(sec) \in d.batmap \/ Off(sec) \in d.bits[p]) THEN d.data[p][Off(sec)] ELSE Parent

\* find_next_free_block
find_next_free_block(bat) ==
  CHOOSE p \in 1 .. Blocks + 1 : (\A b \in Blks : bat[b] < p) /\ (p = 1 \/ \E b \in Blks : bat[b] = p - 1)

\* __vhd_open: the BAT and the batmap are read, the cache is empty.
vhd_initialize_bat(d) == [bat |-> d.bat, batmap |-> d.batmap, has |-> d.has, lock |-> init_bat]
vhd_initialize_bitmap_cache == [cache |-> [b \in {} |-> init_vhd_bitmap], lru |-> <<None>>]
vhd_initialize_dynamic_disk(d) ==
  vhd_initialize_bat(d) @@ vhd_initialize_bitmap_cache @@ [next |-> find_next_free_block(d.bat)]
opened(d, prealloc) ==
  vhd_initialize_dynamic_disk(d) @@
  [prealloc |-> prealloc, reqs |-> [k \in {} |-> 0], writes |-> FALSE,
   io |-> {}, out |-> {}, sync |-> {}, fail |-> FALSE, panic |-> FALSE]

\* _vhd_close writes the batmap if anything was written.
closed(m, d) == IF m.has /\ m.writes THEN [d EXCEPT !.batmap = m.batmap] ELSE d

----------------------------------------------------------------------------
\* History.  A write that is answered well takes away, sector by sector, what
\* was settled before it was made.
Settled(sec) == {v \in want[sec] : ~\E r \in open : r.id = v /\ sec \in r.left}

Secs(a) == a.lo .. a.lo + a.n - 1
Value(d, a, sec) == IF a.from = UNUSED THEN Parent ELSE d.data[a.from][Off(sec)]

UnderWay(m) == {i \in m.io : i.op \notin {"read", "bm_read"}}

Noted(m, d, o) ==
  /\ mem' = [m EXCEPT !.out = {}, !.sync = {}, !.writes = @ \/ UnderWay(m) # {}]
  /\ want' = [sec \in Sectors |->
       (want[sec] \cup {r.id : r \in {x \in o : x.write /\ x.id > reqs /\ sec \in x.all}})
         \ UNION {r.before[sec] : r \in {x \in o : x.write /\ \E a \in m.out : a.id = x.id /\ ~a.err /\ sec \in Secs(a)}}]
  /\ open' = {r \in {[x EXCEPT !.left = @ \ UNION {Secs(a) : a \in {y \in m.out : y.id = x.id}}] : x \in o} : r.left # {}}
  /\ stray' = stray \cup UNION {{m.lock.blk * Spb + s : s \in Span(i.key[2], m.reqs[i.key].n)} :
       i \in {j \in m.io : m.lock.held /\ j.op = "data" /\ j.x = m.lock.place /\ j.blk # m.lock.blk}}
  /\ lied' = (lied \/ \E a \in m.out, r \in o : a.id = r.id /\ ~r.write /\ ~a.err
                        /\ \E sec \in Secs(a) \ stray' : Value(d, a, sec) \notin r.before[sec] \cup (r.id .. Reqs))
  /\ disk' = Zeroed(d, m.sync)

Made(write, lo, n) ==
  LET secs == lo .. lo + n - 1
  IN  [id |-> reqs + 1, write |-> write, all |-> secs, left |-> secs,
       before |-> [sec \in secs |-> IF write THEN Settled(sec) ELSE want[sec]]]

queue_read ==
  /\ reqs < Reqs /\ reqs' = reqs + 1
  /\ \E x \in Shapes : Noted(vhd_queue_read(mem, reqs + 1, x[1], x[2]), disk, open \cup {Made(FALSE, x[1], x[2])})
  /\ UNCHANGED faults

queue_write ==
  /\ reqs < Reqs /\ reqs' = reqs + 1
  /\ \E x \in Shapes, bad \in BOOLEAN :
       /\ bad => mem.prealloc /\ faults < Faults
       /\ faults' = IF bad THEN faults + 1 ELSE faults
       /\ Noted(vhd_queue_write(mem, reqs + 1, x[1], x[2], bad), disk, open \cup {Made(TRUE, x[1], x[2])})

complete ==
  \E i \in mem.io :
     /\ Noted(vhd_complete(mem, i, FALSE), Landed(disk, mem, i), open)
     /\ UNCHANGED <<reqs, faults>>

complete_error ==
  /\ faults < Faults /\ faults' = faults + 1
  /\ \E i \in mem.io :
       \E d \in {disk} \cup (IF i.op = "data" THEN {Landed(disk, mem, i)} ELSE {}) :
         Noted(vhd_complete(mem, i, TRUE), d, open)
  /\ UNCHANGED reqs

\* The writes under way when the process is killed have landed or not.  Only when
\* more requests are to come is the file opened again: Survives is about the rest.
AllLanded(W) == FoldSet(LAMBDA i, d : Landed(d, mem, i), disk, W)

killed ==
  /\ reqs < Reqs /\ faults < Faults /\ faults' = faults + 1
  /\ \E W \in SUBSET UnderWay(mem) :
       LET d == AllLanded(W)
       IN  disk' = d /\ mem' = opened(d, mem.prealloc)
  /\ open' = {}
  /\ UNCHANGED <<want, lied, stray, reqs>>

close_and_open ==
  /\ reqs < Reqs /\ faults < Faults /\ faults' = faults + 1
  /\ open = {} /\ mem.io = {}
  /\ disk' = closed(mem, disk) /\ mem' = opened(disk', mem.prealloc)
  /\ UNCHANGED <<want, open, lied, stray, reqs>>

Init ==
  /\ \E x \in Disks : disk = x.file /\ mem = opened(x.file, x.prealloc)
  /\ want = [sec \in Sectors |-> {Shown(disk, sec)}]
  /\ open = {} /\ lied = FALSE /\ stray = {}
  /\ reqs = 0 /\ faults = 0

Next == queue_read \/ queue_write \/ complete \/ complete_error \/ killed \/ close_and_open

Spec == Init /\ [][Next]_vars

----------------------------------------------------------------------------
\* No ASSERT of block-vhd.c fails, whatever the order in which aios end.
NoPanic == ~mem.panic

\* A write that was answered is there for whoever opens the file after a crash,
\* whichever of the writes under way have reached it, and no sector shows what
\* was never written to it.  A write of the zero bitmap that fails gives up the
\* lock of the BAT while data is still written to the block: not said of the
\* sectors that get it, in the block that is allocated there next (stray).
Survives ==
  \A W \in SUBSET UnderWay(mem) :
     LET d == AllLanded(W) IN \A sec \in Sectors \ stray : Shown(d, sec) \in want[sec]

\* A read is answered with a write that may be the last one, never with junk and
\* never with what a write answered before it has replaced.
ReadsHonest == ~lied

\* When no aio is under way every request has been answered and nothing is held:
\* no lock of the BAT or of a bitmap, no transaction, no request.
IdleIsClean ==
  mem.io = {} => /\ open = {} /\ DOMAIN mem.reqs = {}
                 /\ ~mem.lock.held
                 /\ \A b \in DOMAIN mem.cache :
                      ~mem.cache[b].locked /\ mem.cache[b].tx = init_tx /\ mem.cache[b].map = mem.cache[b].shadow
====
