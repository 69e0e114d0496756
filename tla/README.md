# blktap3: a verification project

TLA+ models of blktap3, the user-space block backend for Xen in `src/`, with
TLC runs on small instances and TLAPS proofs for all instances.

* `<Component>.tla` models one component, translated from the C code.
* `MC<Component>.tla` and `MC<Component>_<run>.cfg` instantiate it for TLC. Some
  MC modules hold several instances that never touch each other's state; a
  variable `part` then says which of them a behaviour is about, and the others
  stay where they begin.
* `BlockDevice.tla` and `AtomicResize.tla` are the abstract specifications that
  `Vbd` and `VhdJournal` implement; `Tailq.tla` has the pointers of the BSD tail queues.
* `<Component>Proofs.tla` holds the theorems about it.
* `PROJECT.json` lists the components, runs, mutants, the map from definitions
  to source lines, findings, hazards and theorems.

Conventions. A definition keeps the name of the C function it models without the
common prefix (`tapdisk_vbd_issue_request` is `issue_request` and its parts). A
definition whose name ends in a description of a fault (`quiesce_queue_at_once`)
and whose comment starts with "mutant" is a plausible bug used to show that a
property can fail; no specification refers to it.

## 1. Inventory of the system

One `tapdisk` process serves several virtual block devices (vbds). It is single
threaded: `tapdisk_server_iterate` asks every vbd for its state, waits in
`select` for events, runs their callbacks, submits the queued aio, and answers
completed requests. A toolstack drives it with messages over a socket.

| Component (source) | State | Operations | Hard part |
|---|---|---|---|
| **vbd** (`drivers/tapdisk-vbd.c`, `tapdisk-interface.c`, `tapdisk-image.c`) | state flags, the lists new/pending/failed/completed, per request `error`, `secs_pending`, `submitting`; image chain, secondary image and its mode | queue, issue, complete, forward, retry, time out, kick; open, close, pause, resume, quiesce, kill, shutdown | completions before the submitting call returns; pieces answered in any order; mirroring given up half way through a request; draining before the images are closed |
| **request lists** (`tapdisk-vbd.h`, BSD `TAILQ`) | links, list tails, `vreq->list_head` | insert, remove, move, walk with a saved successor | a back pointer used as the head to remove from; removal during a walk |
| **scheduler** (`drivers/scheduler.c`) | events (id, mode, fd sets, timeout, deadline, `pending`, `dead`, `masked`), depth, uuid counter | register, unregister, mask, set timeout, wait for events, run events, collect dead ones | callbacks that register, unregister or mask events, or wait for events again; id wrap-around |
| **aio queue** (`drivers/tapdisk-queue.c`, `io-optimize.c`, `tapdisk-filter.c`) | queued, pending and deferred tiocbs, the iocb array, free list, merged iocbs | queue, submit, merge, split, complete, cancel, debug | callbacks that queue more; short submissions; merging and splitting; the queue limit |
| **control** (`drivers/tapdisk-control.c`) | connection pool, per connection fd, buffers, busy flags | accept, receive, dispatch, answer, close | handlers that iterate the server while the connection may be closed and its slot reused |
| **server** (`drivers/tapdisk-server.c`) | list of vbds, run flag | iterate, signals | signals at any point |
| **block interfaces** (`drivers/tapdisk-xenblkif.c`, `xenio/xenio-blkif.c`, `tapdisk-blktap.c`) | request slots, shared ring indices, grant mappings | get requests, queue, complete, put responses, kick, connect, disconnect | shared-ring protocol with the guest: lost notifications, wrap-around; slots at their limit |
| **xenio** (`xenio/xenio.c`, `xenio-ctx.c`) | xenstore state of each device | bind, watch, connect, close | two-sided state handshake |
| **vhd driver** (`drivers/block-vhd.c`) | BAT, bitmap cache, allocation in progress, transactions, requests | read, write, allocate block, update BAT and bitmap, flush | concurrent allocation, bitmap transactions, failures in between |
| **libvhd** (`vhd/lib/libvhd.c`, `libvhd-index.c`, `libvhdio.c`) | footer, header, BAT, bitmaps, parent locators | read, write, create, snapshot | on-disk layout, endianness, crash consistency |
| **vhd journal** (`vhd/lib/libvhd-journal.c`, `vhd-util-resize.c`, `vhd-util-revert.c`) | journal header, footer, metadata copies | create, add block, commit, revert | crash at any point between two writes |
| **vhd tools** (`vhd/lib/vhd-util-*.c`, `vhd/vhd-index.c`, `vhd-update.c`) | files | coalesce, snapshot, resize, check, scan... | coalescing order |
| **caches and filters** (`block-cache.c`, `block-lcache.c`, `block-llcache.c`, `block-log.c`, `block-vindex.c`) | cached sectors, dirty log | read through, write, promote | completion of split requests |
| **rate limiting** (`td-rated.c`, `block-valve.c`) | tokens, waiting requests, connection | request, grant, dispatch, clear | credit conservation, lost connection |
| **locks** (`drivers/lock.c`) | lock files | acquire, renew, release | two hosts racing over NFS |
| **control library** (`control/tap-ctl*.c`) | none | one message each | timeouts, multi-step commands |
| **stream, diff** (`tapdisk-stream.c`, `tapdisk-diff.c`) | requests in flight, next sector | read all sectors | ordered output of unordered completions |
| **logging** (`tapdisk-syslog.c`, `tapdisk-logfile.c`, `tapdisk-loglimit.c`, `tapdisk-stats.c`) | ring buffer of messages | log, flush, limit | overflow of the buffer |
| **utilities** (`relative-path.c`, `lvm/`, `part/`, `td.c`, `img2qcow` and others) | none | pure functions, command line | path edge cases |

How they interact. The control component calls vbd operations; vbds hand
`td_request_t`s to image drivers, which queue tiocbs; the aio queue calls back
the driver, which calls back the vbd, which calls back the block interface. The
scheduler runs everything; the signal handler and the nested
`tapdisk_server_iterate` of some control handlers re-enter it.


## 2. Plan

In the order of importance for the data of the guest:

1. `Vbd`, `BlockDevice`, `VbdProofs`: the request life cycle and the chain of
   images. Done.
2. The mechanisms around it: `BlkRing`, `Scheduler` with `SchedulerProofs`,
   `TdQueue`, `Control`, with `BlkRingProofs`, `TdQueueProofs` and
   `ControlProofs`. Done.
3. The vhd format: `VhdDriver` (the driver under a guest), `VhdChain` (libvhd's
   I/O on chains and the tools that change them), `VhdJournal` with
   `AtomicResize` (resize and revert with a crash between any two writes), `VhdIo`
   (the preloaded library). Done, but for other proofs.
4. The parts around tapdisk: `Ratelimit`, `BlockCache`, `Llcache`, `Xenio`,
   `Syslog`, `TapCtl`; `PartsProofs` with the proofs about `VhdIo`, `Llcache`,
   `TapCtl` and `Xenio`, `CacheProofs`, `SyslogProofs`. Done.
5. Left: fixed vhds and the footer's `kill` in `block-vhd.c`, `vhd-util scan`,
   `check` and `repair`, the index files (`block-vindex.c`, `libvhd-index.c`), the
   driver reference counts, statistics; relative paths and the segments of ring
   requests as pure operators.

Composition: `Vbd` with `BlkRing` at the slots (request fields that survive the
reuse of a slot); `Xenio` with `Control` at the messages of connect and
disconnect.

Abstract specifications: `BlockDevice`, requests each answered once, which the vbd
implements, and `AtomicResize`, which the journal implements, are there. Worth
stating: the same promise of the ring towards the guest, and the aio queue as a bag of operations each completed
once (implemented by queue, merge and split).

Theorems worth proving next: the driver's bitmap cache (`VhdDriver`), and that the
journal implements `AtomicResize` for every size.
## 3. `Vbd`: the virtual block device

**State.** `where[r]` is the list request `r` is on, `secs_pending`, `error`
and `op` are the fields of `td_vbd_request_t`; `io[r]` is what the image
drivers hold of it: pieces of one sector, tagged with the image and with the
role (the request itself or its mirror copy). `state`, `oflags`, `images`,
`secmode`, `secondary`, `retired` are the fields of `td_vbd_t`. `served` and
`asked` are history variables: the sectors really transferred, and the flags the
toolstack asked for.

**Control.** `tapdisk_vbd_check_state` is cut at the places where something
else can happen: `check_queue_state` (timeouts, then kill, skip or start the
loops), one step per request of the loop (`reissue_failed_request`,
`complete_failed_request`, `skip_failed_request`, `issue_new_request`), one per
iov (`queue_iov`), `issue_end`, `loop_end`, `check_state_tail`. A driver's
answer (`complete_td_request`) or forwarding (`forward_request`) can come
between any two steps of the issue of its own request, since td_queue_read and
td_queue_write may call back at once, and otherwise between events.

**Environment.** The guest queues reads, writes and requests past the end; the
drivers answer pieces in any order with any result of `Results`; the toolstack
opens, pauses, resumes, closes and detaches, in its documented order if
`Orderly`; SIGINT and SIGXFSZ come between events.

**Abstractions.** The order within the four lists, statistics, logging, the
watchdog. That a retry interval has passed is a free choice. The pointer level
of the lists is not part of this module, which takes `tapdisk_vbd_move_request`
at its documented word.

| Run | Instance | Shows |
|---|---|---|
| `vbd_pair` | 2 requests, 1 iov of 1 sector, all control messages and signals; without a secondary, or mirrored writes and requests past the end with ENOSPC | quiescing waits for the drivers; images stay open under them, and a read-only vbd read-only (`ImagesKept`); the failover loses no acknowledged write |
| `vbd_iovs` | 1 request of 2 iovs of 2 sectors, parent shorter than the child, reopening may fail, fairness | exact accounting, no buffer handed back early, nobody stuck, no false success; the vbd implements `BlockDevice`; every request answered, every pause completes |
| `vbd_mirror_iovs` | 2 iovs, mirror, ENOSPC | violation: the second iov goes only to the retired leaf |

**Refinement.** `BlockDevice` is what guest and toolstack may rely on, without
lists, images, iovs or drivers: a request is submitted, begins, moves sectors, and
either succeeds having moved them all in one attempt, or fails, to be tried again
from the start or answered with an error; an answer stays until its slot is
returned; nothing begins while the queue is quiet, and it becomes quiet under
nobody. `Phase`, `Moved` and `Succeeded` map a request to it (new and failed wait,
pending works, completed is answered), `IsBlockDevice` is the specification so
mapped. What it says beyond the invariants is about steps: an answered request is
never taken up again, a retry forgets what the last attempt moved, and the loop
asks for each request whether the queue is still ready.

**Bounds.** Two requests suffice for the queue properties because a request
interacts with another only through the vbd's state and lists; two iovs of two
sectors give every split of a request into pieces, across an iov boundary and
across the parent's end (`BaseSize` 3 cuts an iov in two). `EBUSY` and `EIO` are
both retried, so one of them stands for both where a run leaves one out. No
vbd changes between mirrored and not (section 13).

**Fairness.** Weak fairness of the loop's own steps (a function that runs
returns), strong fairness of the state check and of the kick (each iteration of
the server runs them, though events may come in between), of the drivers'
answers (the kernel completes aio) and of time. No fairness on the guest, the
toolstack or signals.

**Proved** (`VbdProofs`, for every number of requests, iovs and sectors, every
set of results and every message order): `TypeOK`, `SecsPendingExact`,
`BufferSafe`, `NoneStuck`, `QuiescedIsQuiet`. None is inductive alone. The
invariant `IInv` adds that a sector is held once per role (`OnePiece`; without
it moving a forwarded piece could merge two and the count would be off), that
`issue_request` has handed out only iovs before `seg` (`Issuing`), that the loops
walk requests still on the list they walk (`Walking`), and that mirror and
standby modes have a secondary (`HasSecondary`). Assumptions: `NIov` and
`IovSecs` are positive naturals, results and flags are among those the code
knows.

**Proved** (`VbdProofs`, second half, for every number of requests, iovs and sectors):
`ImagesOpen`, `ImagesKept`, `AnswersHonest`. These hold only under conditions,
which the theorems state and section 13 shows to be needed: `Orderly` (the
toolstack closes nothing busy), `~ReopenMayFail`, and an `OpenFlags` in which either
no vbd has a secondary (`Plain`), all mirror to one (`Mirroring`) or all have a
standby (`Standing`). Without a secondary, `ImagesOpen` needs
`Orderly` alone, and `AnswersHonest` no condition at all. For `Mirroring` vbds
`AnswersHonest` is proved for requests of one iov; `vbd_mirror_iovs` refutes it for
two, and a standby loses a write (section 13). The invariant `CInv` lists the three shapes of the chain
(`ChainShape`: closed, as opened, after the failover), that the leaf and secondary
the loop still uses are among them (`OnOpenImage`), and that a paused or closed
chain has no request with a driver (`ClosedQuiet`); `HInv` says for each request
how a sector got where it is: transferred, in flight, or to be issued by the iovs
left. The liveness properties stay with TLC.

**Proved: the refinement** (`VbdProofs`, `VbdIsBlockDevice`, under the same
condition as `AnswersAreHonest`, `Single`). The initial states map to the initial
state; for a step, `OneRequest`, `RefusedStep`, `KickStep`, `WorkStep` and
`StateStep` say which changes of a request, of several, or of the state are steps
of `BlockDevice`, and one lemma per operation says which of them it makes. It uses
`IInv` (a request whose pieces are answered is pending; a queue is quiesced only
when none is), `HInv` (a failed request has an error, so one that is timed out is
not answered with success) and `AnswersHonest` in the next state (a success moved
every sector).

## 4. `BlkRing`: the ring between guest and backend

**State.** The shared ring: entries, `req_prod`, `req_event`, `rsp_prod`,
`rsp_event` and the two event channels. The backend's private `req_cons` and
`rsp_prod_pvt`, and the slots of `td_xenblkif`: the array `reqs_free` with
`n_reqs_free`, which is at once the stack of free slots and, above it, the batch
being queued. The guest's side and the ring macros are external: they follow the
protocol of the macros the backend uses.

**Actions.** Both sides run at the same time, so an action touches shared memory
once: `get_requests`, `enable_events`, `final_check` are the three looks of
`xenio_blkif_get_requests`; `copy_requests`, `got_requests`, `queue_request`,
`fail_request` follow the batch; `kick` answers completed requests, `put_response`
and `notify` publish. `disconnect` and `connect` come from the toolstack.

| Run | Instance | Shows |
|---|---|---|
| `ring` | ring of 2, indices modulo 6, requests may fail in a batch of one | a request is in one place between the guest's put and its read of the answer (`AnsweredOnce`) and slots and ring entries agree (`SlotsAccounted`), together `RingSound`; no slot is in use at disconnect (`DisconnectsQuiet`); no lost wake-up (`Answered`) |
| `ring_fail` | ring of 2, requests may fail in any batch | violation: an error in a batch answers one request twice and another never |

**Bounds.** Indices wrap after four or fewer rounds, so full, empty and wrapped
rings all occur; the modulus must be a multiple of the size, as 2^32 is.
**Fairness.** Both sides' running code goes on; the guest's interrupt and the
backend's event are delivered when pending; requests handed to the vbd complete
(`Vbd`'s `Answered`).

**Proved** (`BlkRingProofs`, for every ring size and every multiple of it as the
modulus): `RingSound` and `DisconnectsQuiet`. The assumption `FailBatch <= 1` says
that a request that cannot be parsed or mapped is alone in its batch; larger
batches lose slots, as `ring_fail` shows, and `FailBatch = 0` is the program in
which none fails. The invariant `IInv` tells an index by its distance from
`rsp_cons`, the oldest entry the guest may look at: the distances are ordered
(`Order`), and `Count` ties them to the stack, as many requests being read but not
answered as slots are in use. That is why `copy_requests` never finds more
requests than free slots, and why its result of `count + 1` never occurs. `Stack`
places every slot at one position of `reqs_free` from `Lo` on or with the vbd,
and `Placed` every id at one distance or in one slot. Neither `SlotsAccounted` nor
`AnsweredOnce` is inductive: both speak of sets without saying how many requests
the indices leave to be read. The lemmas on remainders and on free-running
indices (`Distances`, `CellsDiffer`) are what the wrap at 2^32 rests on: cells
agree across it only because the modulus is a multiple of the size. `Answered`
stays with TLC.

## 5. `Scheduler`: the event loop

**State.** `events` and `ev` are the list and its events (source or timer,
`pending`, `masked`, `dead`, time-out, what is left of the deadline);
`sleep` and `fds` are what `select` is given; `stack` has a frame for each
invocation of `scheduler_wait_for_events`, its length is `s->depth`.

**Actions.** One per operation: `register_event`, `unregister_event`,
`mask_event`, `set_max_timeout`; `wait_for_events`, which runs what is pending or
prepares `select`; `select_returns` and `select_fails`; `run_event`, one step of
the loop over the events, which starts a callback; `callback_returns`,
`nested_run_ends`, `run_ends` with the collection of dead events. While a
callback runs, all client operations and a nested `wait_for_events` are enabled.
Time passes in `tick`, only during `select`.

| Run | Instance | Shows |
|---|---|---|
| `sched_events` | 2 events, nesting of 3, fairness | loops never stand at freed events, readiness is delivered once, no panic, no oversleeping; timers fire although descriptors are ready all the time |

**Bounds.** Two events give a loop one event before or behind the one whose callback
acts, and the safety properties are proved for any number; three levels give a callback within a nested loop within a
loop. **Fairness.** The server iterates, callbacks return, time passes and not
every `select` is interrupted.

**Proved** (`SchedulerProofs`, for any number of events, sources, time-outs and
depth): `TypeOK`, `CursorOnList`, `NothingLeftBehind`, `NeverOversleeps`, and
`NoPanic` provided clients mask no timers. The inductive invariant `IInv` adds
to these: what is on the list is allocated (`Listed`); live events have distinct
sources (`DistinctSources`), without which readiness is ambiguous; only the
outermost invocation selects and all others run (`Nested`), which is why
collecting dead events at depth one is safe; during `select` nothing is pending
(`Selecting`); masked events are not pending (`MaskedIdle`), the fact that
masking timers breaks. Liveness is model-checked only.

## 6. `TdQueue`: the aio queue

**State.** `iocbs` is the array `queue->iocbs`, `head` and `tail` the deferred
list, `next` the pointers that link both; `iocbs_pending` and `tiocbs_pending`
decide whether the queue is full. A tiocb is one unit at a position; `flying`
holds the merged groups in the kernel, `landed` their results. `owner` says who
may touch a tiocb; `full` is a history variable: what the kernel transferred.

**Actions.** `queue_tiocb` (prepare, then queue or defer), from a driver or from
a callback; `lio_submit` (merge, submit, split and take off the queue what was
not accepted), `cancel_tiocb` and `cancel_ends`; `lio_event` (split the results),
`complete_tiocb`, `lio_event_ends` (queue deferred tiocbs). A callback is a state
of its own (`event_cb`, `cancel_cb`) in which `queue_tiocb` is enabled, until
`callback_returns`. That opios never run out follows from `CountersExact`:
each merged tiocb is pending, so `alloc_opio` always succeeds and is left out.

| Run | Instance | Shows |
|---|---|---|
| `queue`, "defer" | 3 tiocbs, queue of 2, merging, callbacks that queue their own tiocb again | each tiocb in one place and counters exact (`OnceAndCounted`), results honest |
| "cancel" | 3 tiocbs, queue of 3, `io_submit` fails in part | the same on the error path |
| "live" | 3 tiocbs, queue of 1, fairness | the same, and all tiocbs come back once drivers stop (`DeferredDrained`) |

**Bounds.** Two tiocbs are the least that merge, a third is then deferred; with
room for one, two are deferred and the list has an inner link. The error-path
instance keeps the queue as large as the number of tiocbs because failures with
deferred tiocbs break the properties (section 13). **Fairness.** The server submits and takes events, callbacks return, the
kernel completes what it accepted; none on drivers. `Drained` asks nothing of
drivers but that they stop.

**Proved** (`TdQueueProofs`, for any number of tiocbs, any size and any
positions): `OnceAndCounted` and `ResultHonest`, from the inductive invariant
`IInv`. `TypeOK`, `CountersExact` and `NoOverflow` are parts of it; the others
say why they last:

* `Linking`: the deferred list, the cancelled list and, where `io_submit` may
  fail, the queue are what `Walk` says: a sequence without repetitions, linked by
  `next` and ended by NULL. `ChainIs` shows that `Chain` then yields that
  sequence, `WalkConcat`, `WalkFrom` and `WalkRest` what linking and cutting do.
* `Apart`: the tiocbs the queue has are those in one of its six places.
* `Grouping`: groups are not empty, repeat no tiocb and share none; so a group
  counts as many tiocbs as it splits into (`CountedEvents`).
* `Results`: the first iocb of a group has the length of all of it until its
  event is split, its tiocbs are at successive positions, and the result tells
  whether they were transferred.
* `Places`: events are left only while they are handled, `cancelled` counts only
  while tiocbs are cancelled.

`IoMerge` and `Submitting` show what merging does for every queue: it cuts it
into intervals, each place in one, none across the beginning of another, so that
what `io_submit` did not take is the end of the queue. The theorems assume
`SafeToFail`: where `io_submit` can fail, no callback queues its own tiocb and
nothing is deferred. Without failures callbacks may do both. Each half of it is
needed: section 13 gives an instance for each in which `OnePlace` is violated.
What stays with TLC is liveness (`Drained`).

## 7. `Control`: control connections

**State.** `td_control` is the struct of that name: the connections with their
descriptor, output buffer, flags, the array `order` whose first `n_conn` entries
are in use, the exclusion flag, the mask of the accept event. `frames` are the
handlers that wait, `phase` says where the innermost `tapdisk_server_iterate` is:
the accept event is first on the scheduler's list, so within an iteration no
connection is accepted after another one was closed. The loops rely on it: a
connection closed during an iteration is still unused when `conn->fd` is tested.

**Actions.** `accept`, `conn_send_event`, `handle_request` with its ways out
(`read_fails`, `reject`), the loops of PAUSE and CLOSE (`wait`, `done_waiting`,
`gives_up`), `drain` and `closed` after the last vbd is gone. Operations on
connections are functions of the struct (`conn_close`, `conn_release` and so on),
composed as the code calls them. Clients connect, send, send again and hang up at
any time. Output is a sequence of messages, each tagged with the client whose
request it answers.

| Run | Instance | Shows |
|---|---|---|
| `control_pool` | 2 connections, 3 clients, 1 vbd, all requests | pool and masks exact (`PoolSound`), answers reach their askers, waiting handlers keep their vbd, nobody who sent a complete request is dropped without an answer |
| `control_live` | 2 connections, 2 clients, fairness | every complete request of a client that stays is answered |

**Bounds.** Two connections and three clients fill the pool with one client left
to take over a connection. Deadlock is not checked: tapdisk exits, or dies in
`crash`. **Fairness.** The server iterates and takes ready events; what a handler
waits for happens (for PAUSE, `Vbd`'s `PauseCompletes`); none on clients.

**Proved** (`ControlProofs`, for every number of connections, clients and vbds):
`PoolSound`, `HandlersKeepVbds`, `NoSilentClose` and, where the ioctl of the device
is implemented (`~Enotty`), `RepliesReachAsker`. The invariant ties four pieces of
state together: the connections in use are the first `n_conn` of `order`, each
once, and the accept event is masked when they are all; one with output pending is
no longer read (so that sending it may close it without leaving an event on a
closed descriptor); at most one handler waits, and `td_control.busy` and
`conn->busy` are its marks; and while it waits its connection is the asker's, or is
free and the handler looks at it before the next accept (`AskerOrNone`). The last
part is what `RepliesReachAsker` needs and what fails with `Enotty`. `Answered`
stays with TLC.

## 8. `VhdDriver`: the vhd driver

**State.** `mem` is `struct vhd_state`: the BAT with the lock of the block being
allocated, the cache of bitmaps (each with `map`, `shadow`, its queue of waiting
requests and its transaction), the requests, and `io`, the aios under way. `disk`
is the file: BAT, bitmaps and data by place, a place being a block with its
bitmap. History: `want`, the writes a read of a sector may show, `open`, `lied`.

**Actions.** `queue_read` and `queue_write` split a request at blocks and go
through `read_bitmap_cache` as the code does; `complete` and `complete_error` end
any aio under way and run the whole completion (`finish_data_transaction`,
`finish_bitmap_transaction`, `finish_bat_write`, `finish_zero_bm_write` and what
they start); `killed` ends the process with any subset of the aios on disk;
`close_and_open` is a close when idle. A metadata write that fails has changed
nothing, a data write may have.

**Properties** (run `vhd`, part "driver": three blocks of two sectors, a cache of
two bitmaps, three requests across block and sector boundaries, one failure or
kill; a disk with room to allocate, preallocated or not, and one full of partly
set bitmaps). `Survives`: whichever aios have reached the disk when the process
dies, what was acknowledged is there and no sector shows what was never written
to it. `ReadsHonest`: reads show what a concurrent order of the writes allows.
`IdleIsClean`: with no aio under way nothing is locked, queued or unanswered.
`NoPanic`: no assertion fails, so no bitmap in use is evicted.

**Bounds.** Three blocks are one more than the cache holds, two sectors the least
for a bitmap that is neither empty nor full, three requests the least for one
that joins a transaction behind one that allocates while a third needs the
evicted bitmap. Excluded are the sectors in `stray`, see section 13.

## 9. `VhdChain`: chains of vhds and the tools on them

**State.** `disk` maps names to files (BAT, bitmaps, batmap, data, parent), `tool`
is the one tool that runs with the writes still to come, `user` someone who has a
leaf open through libvhd with the BATs of the chain cached. History: `want`, what
each leaf must hold, `merged`, the vhds that were coalesced.

**Actions.** A function that writes computes its writes in the order of the code;
they are then done one per step, and tool or user can be killed in between:
`snapshot`, `coalesce_parent`, `coalesce_ancestor`, `coalesce_out` with
`coalesce_onto`, `clear_bitmaps`, `coalesce_block_out`; `fill`, `change_parent`,
`write_bytes` and so on. A sector has two halves, since a write of bytes rewrites
whole sectors. The storage manager, which is not in the repository, is taken to
coalesce only onto vhds without another child and to delete only what was
coalesced.

**Properties** (run `vhd`, part "chain": a chain of four vhds and one of two vhds
on a raw file, two blocks of two sectors, two tools, one write of the user to a
block its leaf does not have or that the write makes full).
`LeafReads`: no byte of a leaf changes, read afresh or through cached BATs.
`CoalesceSound`: after a coalesce the parent holds all the vhd held, through the
vhds in between, and no batmap calls a block full that is not.

**Bounds.** Four vhds give an ancestor that is not the parent with one vhd in
between; two jobs give each tool another one before it, which may have been
killed half way.

## 10. `VhdJournal` and `AtomicResize`: resize and revert

**State.** `vhd` and `jnl` are the two files as sequences of cells, `jsync` the
part of the journal a power failure leaves, `ctx` and `jh` what the tool has in
memory, `todo` the writes its current function has still to do, `pc` the function
that runs next. History: `old`, `disk`, and `unmapped`, that a write of the batmap
failed, which `vhd_write_batmap` does not tell the tool.

**Actions.** One per function of the tools that writes (`dynamic_resize`,
`move_block`, `shift_metadata`, `add_bat_entries`, `commit`, `remove`, `revert`,
`revert_data`, `journal_open`, `disable_vhd`), which appends its writes to
`todo`; `write_done` performs them one by one, `write_failed` takes the error
path, `killed` and `power_fails` come between any two.

**Refinement.** `AtomicResize` has two variables, what a user of the vhd finds and
what was there when the resize began, and says that a vhd that can be used holds
all or nothing of a resize; in between it is `Undo`. `ResizeIsAtomic` is its
specification under the mapping `saved <- old` and the view of the two files that
`View` defines: a vhd that opens and whose journal would not put back `old`.
`Recoverable` adds that a disabled vhd is not lost.

**Bounds** (run `parts`, part "journal"). Five layouts: with and without batmap and
locators, with blocks in the way of the growing BAT, and with none; three tools
are started, so a revert can be killed and repeated. A sector holds two BAT or
four batmap entries, so growth by one block may or may not need a sector; a byte
of the batmap holds two, so that a size may leave a byte of it half used, which is
then neither read nor written (`FullMapSecs`). A batmap that cannot be read, which
`block-vhd.c` refuses to open, is no content of a vhd unless `unmapped`.
A power failure takes back all of the journal that was not synced; `Recoverable`
then finds the vhd disabled and unchanged. Excluded from it are vhds with a BAT
longer than their size needs (section 13).

## 11. The other parts

The run `parts` has one instance of each of the following and the journal; a
behaviour is about one of them.

| Module | Code | State and steps | Property, and what it shows | Instance |
|---|---|---|---|---|
| `BlockCache` | `block-cache.c` | the radix tree with its pages, the links that own them and the ages of the links; reads that hit, miss and complete; filling a sector at a time, with allocation that fails half way; pruning a link at a time | `CacheKept`: no link leads to a freed page, no page or node is unreachable, the size stays below its limit but for the requests of the pool | fan 2, 3 sectors (the last node half beyond the disk), pages of 2, 2 requests |
| `Llcache` | `block-llcache.c` | the two leaves, the mode, the slots with their errors; clones of a write end in any order with any error | `LleReadsAcked`: through the switch to SHARED a sector reads as the last acknowledged write, unless a piece of it failed | 2 sectors, 2 slots, 4 writes of one sector or both, completed in one piece or two |
| `Xenio` | `xenio/xenio.c`, `tap-ctl-xen.c` | xenstore as the daemon sees it, queued watch events, the daemon's devices, the ring each tapdisk is connected to; one step per event handled, with its transaction | `XenioSound`: a guest that reads Connected is served on its own ring, the daemon fails no assertion | 1 device, 3 rings, 3 creations, 2 restarts, repeated transactions of frontend events |
| `Ratelimit`, `Tailq` | `td-rated.c`, `block-valve.c` | bridge, bucket or meminfo, valves with the pointers of their queues, messages in both directions, a clock | `RateSound`: no more than the rate is granted, a debt is paid and credit comes back at the rate; the bridge never sleeps on a request it could grant; neither side refuses the other's messages; each write is forwarded once | 2 valves, one connection, 2 writes, the bridge stopped once |
| `Syslog` | `tapdisk-syslog.c`, `tapdisk-loglimit.c`, `tapdisk-driver.c` | the byte ring with its wrapping offsets, the socket, the rate limit | `LogSound`: whole messages in order, gaps reported where they are, bursts limited | ring of 7 bytes, offsets that wrap at 14: a long message and a short one fit, two long ones do not |
| `TapCtl` | `control/tap-ctl-*.c` | tools half way through create, destroy and list, tapdisks that start, exit and are killed, stale sockets | `ToolsSound`: create and destroy leave all or nothing, a list is true of its time | 2 tools, 2 tapdisks, 1 kill |
| `VhdIo` | `vhd/lib/libvhdio.c` | descriptors of the kernel, `_vhd_map`, contexts, vhd objects with their counts and the metadata each keeps; open, fopen, stat, dup, reads and writes, and `fclose`, which the library does not see | `IoSound`: a context lives as long as the entries of the map that lead to it (or were overwritten), an object as long as its contexts; all objects hold what their files hold, which were written only where path and rights allow | 3 descriptors, 2 contexts, a disk and its partition, a plain file of another device with the disk's inode number, a vhd that may not be written, one on a read-only file system; one stream and one overwritten entry left behind at a time (`MaxStale`) |

`llcache` is the LLP mode of `Llcache`, alone because it expects a violation: the
clone that completes second clears the error kept of the first. In TLC's trace
LOCAL fails first, SHARED fails last, and the write is answered with success though
neither leaf has it.

**Bounds.** Each instance is the smallest in which the limit the code guards is
met: the pool and the size of the cache, the slots, the ring, the connections of
the bridge; three descriptors are a program's two and libvhd's own. Assumptions,
without which the properties fail (section 13): `Orderly` toolstacks and no
conflicting transactions on backend events for `Xenio`, offsets of the log's ring that wrap where the ring
does or not at all for `Syslog`. The
valves are interchangeable, which the run uses as a symmetry; no liveness is
checked in it.


**Proved** (`CacheProofs`, for every fan-out, image, page, pool, idle time and
size of the cache): `CacheKept`. The model is as fine as the code where it matters:
`radix_tree_add_leaf` is one step per sector and `radix_tree_prune_branch` one per
link, with the stack of its calls (`low`, `at`, `kept`) in `run`, so that the
proof is about the states in the middle of both. The invariant `CacheInv` has five
parts. `TreeOK`: every node hangs from one above it, up to the root, which is what
makes the recursive deletion of a branch, `IsUnder`, delete all that only it leads
to. `LeavesOK` and `PagesOK`: leaves and owners name each other, and the owners of
a page are those of its sectors that have been filled. `RunOK`: in every node that
pruning is in, the links before the one it is at, and this one too once it has been
seen, lead nowhere unless the node is one of `kept` (`Passed`); that is why a node
found empty can be freed. `SizeOK`: what is there, with the nodes the page being
filled may still need and what the requests under way may add, is below the bound;
a page lies below two nodes of a height at most (`WayFinite`), which counts an
injection of its nodes into pairs of a height and 0 or 1. `above`, the division by
powers of the fan-out, is a recursive function: that it is what its definition says
is proved by `Minimum`, the least number principle, and from there its monotony and
that the height of the tree suffices (`HeightFits`).

**Proved** (`PartsProofs`, for every set of sectors and of extents, number of slots
and of writes, where LOCAL completes a write in pieces of any kind):
`LleReadsAcked`. The invariant says that the writes under way, in slots and with
SHARED, never share a sector (`Exclusive`); that what LOCAL is done with of a write
of which no piece failed is in LOCAL (`Pieces`); and that SHARED holds nothing
before the switch, and never a sector that LOCAL has yet to complete (`Switched`):
that is what keeps a late completion of LOCAL from being masked by older data.
`Numbered` says that writes under way and the last ones answered have numbers of
their own, so that what becomes of one says nothing of another.
Exempt are the writes in `torn`, of which a leaf has refused a piece and SHARED has
not taken the whole: one of them may be answered with success (section 13).

**Proved** (`PartsProofs`, for any number of descriptors, contexts, files, inode
numbers and paths): `IoSound`, which is said of the code as it is, with streams
that are closed behind the library's back. The invariant is one count on each
level: a context is used by the entries of the map that lead to it and by those
that were overwritten (`lost`), whether the descriptor is still open or not; an
object is held by its contexts and by the open that is under way (`Held`, whose
parameter is the object of that open, so that the same fact holds between
`get_vhd` and the `put_vhd` of an open that fails later). A descriptor that the
kernel has as /dev/null has a context, and libvhd's own have none, which is what
`Astray` guards: an open whose number has one never gets to be an object. One
object per inode number (`Coherent`) makes what the objects hold what the files
hold, and makes a free object always to be found: there is one more than there are
numbers. The model takes the least free descriptor, as the kernel does; that one
exists (`Minimum`) is proved by the pigeonhole principle, since a set of numbers
with no least element would be closed under subtracting one.

**Proved** (`PartsProofs`, for any number of tools, tapdisks, kills and minors):
`ToolsSound`. The invariant `ToolsIInv` is, but for the types, a statement about
one tool at a time (`ToolOf`): a create is the only one that ever gives its
tapdisk a vbd (`CreatedOf`), and a list that is under way has asked, or has yet to
ask, every tapdisk whose vbd has been there since it began (`ListingOf`). What the
steps of others may do meanwhile is said once (`Go`, `GivenNone`): a tapdisk that
is gone stays gone, and nobody but its creator gives it a vbd; `OthersKeep` shows
that this is all a tool relies on.

**Proved** (`PartsProofs`, for every finite set of devices and any number of
rings, creations and restarts): `XenioSound`, under `XenioOrderly`, which is what
the run assumes as well (an orderly toolstack, no write refused, no conflict on an
event of the backend; section 13 shows what happens without each). The invariant
`XeIInv` relates, for one device at a time, the directory, the frontend, the
daemon's entry and the ring of the tapdisk (`Fits`), and says of the queue
(`Heeds`) that an event of a frontend is of a device that is both known and there,
and that one which is known and no longer there has an event that will tell the
daemon so. `Heeds` is why no assertion fails; that the ring the daemon remembers
(`gref`) is the one the frontend published is why an event that is handled twice
connects nothing anew. A scan creates the devices it finds in any order: the model
says so with a choice of the order (`Orders`), and the events of a commit come in
any order too.

**Proved** (`SyslogProofs`, for every size of ring, packets and messages, and any
number of errors, ticks and outages): `LogSound`, under `OffsetsFit`: the offsets
wrap at a multiple of the size of the ring, as in the run, or all that can be
logged does not make them wrap, as with a `size_t` (section 13 has what happens
otherwise). `Content` is what the ring holds, byte by byte in the order it is
read; `PutIs` and `TakeIs` say what writing and reading do to it, and nothing
above them looks at an offset again. The invariant `SyslogIInv` says that the
content is whole messages (`Framed`), which with what syslogd was given are in
order (`Ordered`) and account for every message (`InTurn`, and in `Kept` that the
end of the log, what was dropped since and the message in hand add up to `last`),
unless there was an outage. `Waits` is why a gap is always reported: something was
dropped only while the ring has something, so that the socket is watched and the
warning comes after it. The same facts are proved of the log between the steps of
an operation, with the message in hand as a parameter (`w`). For the limit,
`LimitIn` has what passed before the burst and in it, and that the burst before
began more than an interval after what came before that one.
## 12. Not modelled, and out of reach of the prover

Liveness (fairness, ENABLED), what recursive definitions compute for every
input, and modules with RECURSIVE operators (`VhdDriver`, `VhdChain`,
`Tailq` and so `Ratelimit`) are left to TLC.
`VhdJournal` implements `AtomicResize` on the instances of the run; a
proof would need what a vhd holds after every prefix of every list of writes,
which is an induction over the layout of the file.

Not modelled: `vhd-util check`, `scan`, `repair`, `query`, `read`, `set-field` and
`vhd-index`, `vhd-update`, which read and print or write one field;
`block-vindex.c`, `block-log.c` and `block-lcache.c`; `lock.c`,
`tapdisk-stream.c` and `tapdisk-diff.c`, which cannot work as they are (section
13); the older `tapdisk-blktap.c` ring, whose device this tree never opens; the
partition and LVM utilities, statistics, command-line parsing and message texts.
`PROJECT.json` lists each with its reason.


## 13. Defects outside the assumptions of the runs

The passing runs keep to assumptions that the code does not enforce. Each of the
following changes to a configuration, or to an instance in an MC module, makes TLC show what the code does without
one of them (besides the three runs that expect a violation).

| Change | TLC reports | What happens |
|---|---|---|
| `MCVbdPair_pair.cfg`, `OpenFlags = {{}}`, `Orderly = FALSE` | `ImagesKept` | CLOSE frees images with requests in flight (`tapdisk-control.c:810`), which `tapdisk_vbd_close` avoids ("don't close if any requests are pending in the aio layer") |
| `MCVbd_mirror_iovs.cfg`, `NIov = 1`, `OpenFlags = {{"SECONDARY", "STANDBY"}}` | `AnswersHonest` | the write that makes a standby vbd fail over is acknowledged and stored nowhere (`tapdisk-vbd.c:1045`) |
| `MCVbdPair_pair.cfg`, `ReopenMayFail = TRUE` | `ImagesKept` | a failed attempt to reopen clears the flags, the next one opens a read-only vbd writable (`tapdisk-vbd.c:485`) |
| `MCVbdPair_pair.cfg`, `OpenFlags = {{}, {"SECONDARY"}}` | `ImagesKept` | a vbd opened again without a secondary mirrors to the freed one (`tapdisk-vbd.c:138`) |
| `MCScheduler_events.cfg`, `MaxId = 3`, `Timeouts = {0}`, `MaskTimers = TRUE` | `NoPanic` | a masked timer, unregistered while pending, meets `BUG_ON` in a nested wait (`scheduler.c:150`); `block-valve.c` masks its timer |
| `TdQueue` (three tiocbs), `Size = 1`, `MayFail = TRUE`, `Reuse = FALSE` | `OnePlace` | `cancel_tiocbs` follows a stale `next` into the deferred list (`tapdisk-queue.c:102`) |
| `TdQueue` (three tiocbs), `Size = 3`, `MayFail = TRUE`, `Reuse = TRUE` | `OnePlace` | a callback that queues its own tiocb again cuts the list being cancelled (`tapdisk-queue.c:155`) |
| `TdQueue` (two tiocbs), `Size = 1`, `MayFail = TRUE`, `Reuse = FALSE`, `FairSpec` | `Drained` | a tiocb deferred while `io_submit` fails waits for an event that never comes (`tapdisk-queue.c:456`) |
| `TdQueue` (three tiocbs), `Size = 1`, `MayFail = FALSE`, `Reuse = TRUE`, `FairSpec` | `Completed` | new tiocbs overtake deferred ones for ever (`tapdisk-queue.c:677`) |
| `MCControl_pool.cfg`, `Enotty = TRUE` | `RepliesReachAsker` | where the ioctl is missing, CLOSE does not notice that its client left and answers another one (`tapdisk-control.c:805`) |
| `MCControl_pool.cfg`, `INVARIANT DrainAsserts` | `DrainAsserts` | `ASSERT(conn->out.done)` fails for a client that sent nothing yet (`tapdisk-control.c:270`) |
| `MCControl_pool.cfg`, `INVARIANT RejectAnswers` | `RejectAnswers` | the first request on a connection, if rejected, is answered through a null pointer (`tapdisk-control.c:476`) |
| `MCControl_pool.cfg`, `Vbds = {v1, v2}`, `OutRoom = 2`, `INVARIANT RepliesWhole` | `RepliesWhole` | LIST is cut when its messages exceed the output buffer, from seven vbds on (`tapdisk-control.c:326`) |
| `MCVhd.tla`, `VhdDriver`'s `Survives` without `stray` | `Survives` | a write of the zero bitmap that fails gives up the lock of the BAT while data writes to the block are under way; the next block allocated there gets them, in the sectors they have (`block-vhd.c`, `finish_zero_bm_write`) |
| `MCVhd.tla`, `Kills` with `"unmap"` | `CoalesceSound` | `vhd_util_coalesce_clear_bitmap` clears the bitmap on disk before the batmap: killed in between, the batmap calls an empty block full (`vhd-util-coalesce.c:394`) |
| `MCParts.tla`, `VhdJournal`'s `Recoverable` without `ShortBat` | `Recoverable` | the journal saves the BAT by the size of the disk and reads it back by the length in the header: a vhd with BAT entries to spare cannot be reverted (`libvhd-journal.c`, `vhd_journal_read_bat`) |
| `Llcache.tla`, `LleReadsAcked` without `torn` | `LleReadsAcked` | a write of which LOCAL refused a piece is answered by its last piece alone (`block-llcache.c:51`) |
| `MCParts_parts.cfg`, `Conflicts = {"backend"}` | `XenioSound` | the transaction of a creation is repeated, the device is already there and the assertion fails (`xenio.c`, `xenio_backend_probe_device`; "check the device serial, to sync with fast remove/re-create cycles") |
| `MCParts_parts.cfg`, `Orderly = FALSE` | `XenioSound` | a device removed while its events are queued |
| `MCParts_parts.cfg`, `WritesFail = TRUE` | `XenioSound` | a guest that reads Connected is disconnected when xenstore refuses a later write |
| `MCParts_parts.cfg`, `Word = 10` | `LogSound` | the offsets of the ring wrap at a size that is no multiple of the ring's, as 2^64 is none of 7168 ("All producer/consumer offsets wrap on size_t range", `tapdisk-syslog.c`) |

Read in the code and not in any module, since the models take the intended
meaning or leave the place out:

* `tapdisk_vbd_queue_request` does not set `vreq->list_head`, and
  `tapdisk_vbd_move_request` uses it (`tapdisk-vbd.h:120`).
* `tapdisk-image.c:337` and `:475` swap the arguments of `TAILQ_CONCAT`, which
  `tap-ctl-list.c` has right: the chain that was opened stays empty. `Vbd` takes
  the splice that is meant. A chain of one image makes `validate_chain` read a null
  pointer; a failed `td_open` leaves the reference count at -1.
* `lock.c`: `lock_holder` takes the end of the directory for an I/O error, so that
  a lock nobody holds is never granted.
* `tapdisk-stream.c` inserts after a null element on the first completion;
  `tapdisk-diff.c` does not compile.
* `block-lcache.c`: data read from the parent and stored later may overwrite a
  newer write of the guest.
* `libvhd-journal.c`: a crash between the commit's header and the enabling of the
  vhd leaves a completed resize disabled; `vhd_write_batmap` returns success when
  its write fails; shrinking is not implemented and is reverted; a vhd without a
  batmap keeps its old size in the footer.
* `libvhd.c`: a sector of an unused block is read with the wrong count
  (`__vhd_io_dynamic_read_link`), and a shorter parent's BAT is read past its end.
* `libvhdio.c` finds the object of a file by `st_ino` alone (382): a path to a file
  of another device with the same inode number reads and writes the vhd that is
  open. `access` that fails with anything but EACCES, as EROFS, refuses even an
  open for reading (400-402). `fclose` is not replaced (153-192): the context of a
  stream from `fopen` (738-784) stays in `_vhd_map` under a closed number, a plain
  file that gets the number is read as the vhd, and libvhd, if it gets it for a vhd
  that is being opened, reads the old disk in place of the new file. `VhdIo` has
  all three, and `IoSound` says what is still so.
* `libvhdio.c`: `dup2` onto a descriptor of a vhd does not release its context
  (`lost` in `VhdIo`);
  `fcntl(F_DUPFD)` is not interposed; `read` and `write` advance by what was asked;
  `pwrite` takes O_RDONLY, which is 0, for a flag; BLKGETSIZE answers in bytes.
* `block-cache.c`: `block_cache_open` returns success after it has freed the cache
  because an event could not be registered. `block-llcache.c`: a read of LLP in
  SHARED mode reaches `BUG()`.
* `td-rated.c` and `block-valve.c`: a connection closed while it does not wait is
  removed from a queue it is not on; requests freed by a reset stay on the stored
  queue; a grant of exactly TD_RLB_REQUEST_MAX ends the valve.
* `control/`: a create whose attach fails leaves its tapdisk running; list returns
  success when a tapdisk does not answer; every vbd has minor 0; a second message
  part is written from the wrong offset. `xenio.c`: `tap_ctl_disconnect_xenblkif`
  expects the response of connect, so that a backend whose guest left never
  reaches Closed, and a guest cannot start again.

Where the models are less than the code, and what the properties therefore do not say:

* `Vbd`: SIGINT comes between events; its handler is asynchronous
  (`tapdisk-server.c:393-396`) and may run the close path in the middle of any
  step, with the lists half changed. `VbdProofs` speaks of the model's SIGINT.
* `Control`: clients send whole messages. One that stays after part of a message is
  closed without an answer when the read has waited 2 s (`tapdisk-control.c:435-456`,
  1112, 1160), and nothing else is served meanwhile; `NoSilentClose` and `Answered`
  speak of complete requests. CLOSE may wait in the model until its device is gone;
  in this tree `vbd->tap` is null or its fd -1 (`tapdisk-control.c:822-825`,
  `tapdisk-blktap.c:132-143`) and it never has to: the model has more behaviours.
* `VhdIo`: vhds have no parents and hold none; a program does not `dup2` onto
  libvhd's own descriptors nor writes a vhd
  through plain ones; no memory runs out.
* `VhdJournal`: what is left of a batmap's last byte when the blocks do not fill it
  may begin a sector that `vhd_read_batmap_map` does not read (`libvhd.c:1114-1117`;
  8 * 4096 k + 1 .. 7 blocks), while `vhd_batmap_test` (512-522) looks it up past the
  buffer. The model has these blocks' bits clear; what lies behind the buffer is not
  in it.
* `Xenio`: `xenio_backend_read` cuts the path of its event with `strtok`
  (`xenio.c:834`), so that one that is repeated after EAGAIN has become a scan. The
  runs and the proof have no conflicts on such events (`XenioOrderly`).
