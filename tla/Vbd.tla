-------------------------------- MODULE Vbd --------------------------------
(***************************************************************************)
(* One virtual block device of tapdisk (drivers/tapdisk-vbd.c, .h) with    *)
(* its image chain (tapdisk-image.c, tapdisk-interface.c), driven by the   *)
(* control messages of tapdisk-control.c, the signals of tapdisk-server.c  *)
(* and the completions of the image drivers.                               *)
(*                                                                         *)
(* A guest request (td_vbd_request_t) is a slot r of Reqs.  It sits on one *)
(* of the queues new, pending, failed and completed, and is cut into iovs, *)
(* each queued as a td_request_t on the leaf image and, in mirror mode, on *)
(* the secondary image too.  A driver answers the sectors it was given in  *)
(* any order, in pieces, at once or later, or forwards a read to the next  *)
(* image of the chain.                                                     *)
(*                                                                         *)
(* tapdisk is single threaded.  pc says where tapdisk_vbd_check_state is:  *)
(* while it is not "idle" only the steps of that call are taken, and the   *)
(* drivers' answers that arrive before td_queue_read/write return.         *)
(*                                                                         *)
(* Abstractions.  The FIFO order of the four lists is left out: a loop     *)
(* over a list visits its members in any order.  Statistics, logging and   *)
(* the watchdog (tapdisk_vbd_check_progress), which read the queues and    *)
(* change nothing else, are left out.  Whether TD_VBD_RETRY_INTERVAL has   *)
(* passed is a free choice; whether TD_VBD_REQUEST_TIMEOUT has passed is   *)
(* the set expired, which only grows while the request lives.              *)
(***************************************************************************)
EXTENDS Integers, Sequences, FiniteSets

CONSTANTS
    Reqs,             \* request slots of the block interface
    NIov,             \* iovs per request (vreq->iovcnt)
    IovSecs,          \* sectors per iov (iov->secs)
    BaseSize,         \* size of the parent image, in sectors
    Ops,              \* kinds of requests the guest sends
    Results,          \* what a driver may answer, "none" is success
    OpenFlags,        \* sets of TD_OPEN_* flags an OPEN message may carry
    ReopenMayFail,    \* may an open during RESUME fail?
    Orderly           \* does the toolstack keep to the order of its messages?

ASSUME NIovAssumption == NIov \in Nat \ {0}
ASSUME IovSecsAssumption == IovSecs \in Nat \ {0}

(* TD_VBD_* bits of vbd->state *)
Flags == {"DEAD", "CLOSED", "QUIESCE_REQUESTED", "QUIESCED",
          "PAUSE_REQUESTED", "PAUSED", "SHUTDOWN_REQUESTED"}
Errors == {"none", "EBUSY", "EIO", "ENOSPC", "EPERM", "ENOSYS", "EAGAIN",
           "EINVAL", "ESHUTDOWN"}
NonRetryable == {"EPERM", "ENOSYS", "ESTALE", "ENOSPC"}
Lists == {"free", "new", "pending", "failed", "completed"}
Images == {"leaf", "base", "second"}
NoImage == "null"         \* a NULL td_image_t pointer
FreedImage == "freed"     \* a pointer to an image that was closed
NoReq == "noreq"
Modes == {"DISABLED", "MIRROR", "STANDBY"}
Sectors == 0 .. (NIov * IovSecs - 1)
Treqs == [role : {"main", "mirror"}, sec : Sectors, img : Images \cup {FreedImage}]

ASSUME ConstantsAssumption ==
    /\ Results \subseteq {"none", "EBUSY", "EIO", "ENOSPC"}
    /\ OpenFlags \subseteq SUBSET {"RDONLY", "SECONDARY", "STANDBY"}
    /\ ReopenMayFail \in BOOLEAN
    /\ Orderly \in BOOLEAN
    /\ Ops \subseteq {"read", "write", "beyond"}
    /\ BaseSize \in Nat

VARIABLES
    alive,         \* the vbd is allocated and on server.vbds
    state,         \* vbd->state
    named,         \* vbd->name # NULL
    oflags,        \* vbd->flags
    asked,         \* the flags of the OPEN message in force (history)
    images,        \* vbd->images, leaf first
    secmode,       \* vbd->secondary_mode
    secondary,     \* vbd->secondary
    retired,       \* vbd->retired
    ignore,        \* images with TD_IGNORE_ENOSPC
    where,         \* the list each request is on
    op,            \* vreq->op; "beyond" is a read past the end of the image
    error,         \* vreq->error
    secs_pending,  \* vreq->secs_pending
    io,            \* the pieces of td_requests the drivers hold
    served,        \* sectors stored on or read from an image by the last
                   \* attempt, with the image (history)
    expired,       \* requests older than TD_VBD_REQUEST_TIMEOUT
    pc,            \* position in tapdisk_vbd_check_state
    loop, todo,    \* the list its loop walks, and the rest of it
    ret,           \* where pc goes after the loops
    cur, seg, tgt  \* the request being issued, its next iov, its image

chain == <<named, oflags, asked, images, secmode, secondary, retired, ignore>>
reqs  == <<where, op, error, secs_pending, io, served, expired>>
ctl   == <<pc, loop, todo, ret, cur, seg, tgt>>
vars  == <<alive, state, chain, reqs, ctl>>

On(list) == {r \in Reqs : where[r] = list}
Iov(i)   == {s \in Sectors : s >= i * IovSecs /\ s < (i + 1) * IovSecs}
Has(f)   == f \in state
InChain  == {images[i] : i \in 1 .. Len(images)}

-----------------------------------------------------------------------------

Init ==
    /\ alive = TRUE
    /\ state = {}
    /\ named = FALSE
    /\ oflags = {}
    /\ asked = {}
    /\ images = <<>>
    /\ secmode = "DISABLED"
    /\ secondary = NoImage
    /\ retired = NoImage
    /\ ignore = {}
    /\ where = [r \in Reqs |-> "free"]
    /\ op = [r \in Reqs |-> "none"]
    /\ error = [r \in Reqs |-> "none"]
    /\ secs_pending = [r \in Reqs |-> 0]
    /\ io = [r \in Reqs |-> {}]
    /\ served = [r \in Reqs |-> {}]
    /\ expired = {}
    /\ pc = "idle" /\ loop = "failed" /\ todo = {} /\ ret = "idle"
    /\ cur = NoReq /\ seg = 0 /\ tgt = NoImage

-----------------------------------------------------------------------------
(* Queue state and request completion.                                     *)

queue_ready ==
    state \cap {"DEAD", "CLOSED", "QUIESCED", "QUIESCE_REQUESTED"} = {}

request_should_retry(r, err) ==
    /\ ~Has("DEAD") /\ ~Has("SHUTDOWN_REQUESTED")
    /\ err \notin NonRetryable
    /\ r \notin expired

(* where complete_vbd_request puts a request none of whose sectors is pending *)
complete_vbd_request(r, err) ==
    IF err # "none" /\ request_should_retry(r, err) THEN "failed" ELSE "completed"

(* mutant: completions during issue_request already complete the request    *)
submitting_never(r) == FALSE

(* submitting: issue_request is still handing iovs of r to the driver *)
submitting(r) == pc = "seg" /\ cur = r

(* A driver may answer or forward now: from its own callback, or before    *)
(* td_queue_read/write of the request being issued returns.                *)
DriverRuns(r) == alive /\ (pc = "idle" \/ (pc = "seg" /\ cur = r))

(* pieces U of r leave the drivers with result err                         *)
Answer(r, U, err) ==
    LET e    == IF error[r] = "none" THEN err ELSE error[r]
        left == secs_pending[r] - Cardinality(U)
    IN  /\ io' = [io EXCEPT ![r] = @ \ U]
        /\ secs_pending' = [secs_pending EXCEPT ![r] = left]
        /\ error' = [error EXCEPT ![r] = e]
        /\ where' = IF left = 0 /\ ~submitting(r)
                    THEN [where EXCEPT ![r] = complete_vbd_request(r, e)]
                    ELSE where

Store(r, U) ==
    served' = [served EXCEPT ![r] = @ \cup {<<u.sec, u.img>> : u \in U}]

(* mutant: the leaf given up on ENOSPC is closed at once instead of retired *)
complete_td_request_frees(r, U, img, res) ==
    /\ DriverRuns(r)
    /\ U # {} /\ \A u \in U : u.img = img
    /\ IF res = "ENOSPC" /\ img \in ignore /\ secmode = "MIRROR"
       THEN /\ Answer(r, U, "none")
            /\ images' = Tail(images)
            /\ secondary' = NoImage /\ secmode' = "DISABLED"
            /\ UNCHANGED <<served, named, oflags, asked, retired, ignore>>
       ELSE /\ Answer(r, U, res)
            /\ IF res = "none" THEN Store(r, U) ELSE UNCHANGED served
            /\ UNCHANGED chain
    /\ UNCHANGED <<alive, state, op, expired, ctl>>

(* tapdisk_vbd_complete_td_request: on ENOSPC an image with                *)
(* TD_IGNORE_ENOSPC is given up: mirroring continues on the secondary      *)
(* alone, standby fails over to it; the piece counts as written.           *)
complete_td_request(r, U, img, res) ==
    /\ DriverRuns(r)
    /\ U # {} /\ \A u \in U : u.img = img
    /\ res = "ENOSPC" => op[r] = "write"
    /\ IF res = "ENOSPC" /\ img \in ignore
       THEN /\ Answer(r, U, "none")
            /\ UNCHANGED served
            /\ CASE secmode = "MIRROR" /\ images # <<>> ->
                       /\ images' = Tail(images)
                       /\ retired' = Head(images)
                 [] secmode = "STANDBY" ->
                       /\ images' = <<secondary>> \o images
                       /\ UNCHANGED retired
                 [] OTHER -> UNCHANGED <<images, retired>>
            /\ secondary' = IF secmode = "DISABLED" THEN secondary ELSE NoImage
            /\ secmode' = "DISABLED"
            /\ UNCHANGED <<named, oflags, asked, ignore>>
       ELSE /\ Answer(r, U, res)
            /\ IF res = "none" THEN Store(r, U) ELSE UNCHANGED served
            /\ UNCHANGED chain
    /\ UNCHANGED <<alive, state, op, expired, ctl>>

(* tapdisk_vbd_forward_request: the driver passes a read on.  The last     *)
(* image reads as zeros, and so do the sectors beyond the parent's end.    *)
IsLast(img)  == images # <<>> /\ images[Len(images)] = img
Next_(img)   == images[(CHOOSE i \in 1 .. Len(images) : images[i] = img) + 1]
SizeOf(img)  == IF img = "base" THEN BaseSize ELSE NIov * IovSecs

OnImage(u, img) == [role |-> u.role, sec |-> u.sec, img |-> img]

forward_request(r, U, img) ==
    /\ DriverRuns(r)
    /\ U # {} /\ \A u \in U : u.img = img
    /\ op[r] = "read" /\ img \in InChain
    /\ IF ~queue_ready
       THEN Answer(r, U, "EBUSY") /\ UNCHANGED served
       ELSE LET zero == IF IsLast(img) THEN U
                        ELSE {u \in U : u.sec >= SizeOf(Next_(img))}
                moved == {OnImage(u, Next_(img)) : u \in U \ zero}
            IN  /\ io' = [io EXCEPT ![r] = (@ \ U) \cup moved]
                /\ secs_pending' = [secs_pending EXCEPT ![r] = @ - Cardinality(zero)]
                /\ where' = IF secs_pending'[r] = 0 /\ ~submitting(r)
                            THEN [where EXCEPT ![r] = complete_vbd_request(r, error[r])]
                            ELSE where
                /\ Store(r, zero)
                /\ UNCHANGED error
    /\ UNCHANGED <<alive, state, chain, op, expired, ctl>>

-----------------------------------------------------------------------------
(* tapdisk_vbd_check_state: time out failed requests; then kill, skip, or   *)
(* retry the failed and issue the new ones; then the requested transitions.*)

(* mutant: failed requests are never timed out                              *)
Timed_never == {}

Timed == On("failed") \cap expired

kill_requests(waiting, w) ==
    /\ where' = [r \in Reqs |-> IF r \in waiting THEN "completed" ELSE w[r]]
    /\ error' = [r \in Reqs |-> IF r \in waiting THEN "ESHUTDOWN" ELSE error[r]]

check_queue_state ==
    /\ alive /\ pc \in {"idle", "check"}
    /\ LET w == [r \in Reqs |-> IF r \in Timed THEN "completed" ELSE where[r]]
           waiting == {r \in Reqs : w[r] \in {"new", "failed"}}
       IN  IF Has("DEAD")
           THEN /\ kill_requests(waiting, w)
                /\ pc' = "tail" /\ todo' = {}
           ELSE /\ where' = w
                /\ UNCHANGED error
                /\ IF waiting = {} \/ Has("QUIESCED") \/ Has("QUIESCE_REQUESTED")
                   THEN pc' = "tail" /\ todo' = {}
                   ELSE pc' = "loop" /\ todo' = {r \in Reqs : w[r] = "failed"}
    /\ ret' = IF pc' = "loop" THEN "tail" ELSE "idle"
    /\ UNCHANGED <<alive, state, chain, op, secs_pending, io, served, expired,
                   loop, cur, seg, tgt>>

(* tapdisk_vbd_recheck_state, after the tiocbs were submitted and the       *)
(* responses pushed: issue the new requests once more.                     *)
recheck_state ==
    /\ alive /\ pc = "idle"
    /\ On("new") # {}
    /\ ~Has("QUIESCED") /\ ~Has("QUIESCE_REQUESTED")
    /\ pc' = "loop" /\ loop' = "new" /\ todo' = On("new") /\ ret' = "idle"
    /\ UNCHANGED <<alive, state, chain, reqs, cur, seg, tgt>>

(* the end of a loop: after the failed requests come the new ones           *)
loop_end ==
    /\ pc = "loop" /\ todo = {}
    /\ IF loop = "failed"
       THEN loop' = "new" /\ todo' = On("new") /\ UNCHANGED pc
            /\ UNCHANGED ret
       ELSE pc' = ret /\ loop' = "failed" /\ ret' = "idle" /\ UNCHANGED todo
    /\ UNCHANGED <<alive, state, chain, reqs, cur, seg, tgt>>

(* mutant: the queue is not asked whether it is ready                       *)
check_queue_unready == IF images = <<>> THEN "ENOSYS" ELSE "none"

(* tapdisk_vbd_check_queue                                                  *)
check_queue ==
    IF images = <<>> THEN "ENOSYS" ELSE IF ~queue_ready THEN "EAGAIN" ELSE "none"

(* mutant: no read-only check                                               *)
check_request_writable(r) ==
    IF check_queue # "none" THEN check_queue
    ELSE IF op[r] = "beyond" THEN "EINVAL"
    ELSE "none"

(* ... and tapdisk_image_check_request                                      *)
check_request(r) ==
    IF check_queue # "none" THEN check_queue
    ELSE IF op[r] = "write" /\ "RDONLY" \in oflags THEN "EPERM"
    ELSE IF op[r] = "beyond" THEN "EINVAL"
    ELSE "none"

(* the loop goes on with the rest of its list, or backs off when the        *)
(* request it just issued failed without being completed                    *)
LoopOn(r, dest) == todo' = IF dest = "failed" THEN {} ELSE todo \ {r}

(* issue_request refuses r: it fails or completes at once                   *)
issue_refused(r) ==
    LET err  == check_request(r)
        dest == complete_vbd_request(r, err)
    IN  /\ err # "none"
        /\ error' = [error EXCEPT ![r] = err]
        /\ where' = [where EXCEPT ![r] = dest]
        /\ served' = [served EXCEPT ![r] = {}]
        /\ LoopOn(r, dest)
        /\ UNCHANGED <<pc, cur, seg, tgt>>

(* issue_request accepts r: it is pending and its iovs go to the leaf image *)
issue_begin(r) ==
    /\ check_request(r) = "none"
    /\ where' = [where EXCEPT ![r] = "pending"]
    /\ error' = [error EXCEPT ![r] = IF loop = "failed" THEN "none" ELSE @]
    /\ served' = [served EXCEPT ![r] = {}]
    /\ pc' = "seg" /\ cur' = r /\ seg' = 0 /\ tgt' = Head(images)
    /\ UNCHANGED todo

issue_request(r) ==
    /\ issue_refused(r) \/ issue_begin(r)
    /\ UNCHANGED <<alive, state, chain, op, secs_pending, io, expired, loop, ret>>

(* tapdisk_vbd_reissue_failed_requests, one request                         *)
reissue_failed_request(r) ==
    /\ pc = "loop" /\ loop = "failed" /\ r \in todo
    /\ ~Has("SHUTDOWN_REQUESTED")
    /\ issue_request(r)

(* ... shutting down, it is completed with the error it has                 *)
complete_failed_request(r) ==
    /\ pc = "loop" /\ loop = "failed" /\ r \in todo
    /\ Has("SHUTDOWN_REQUESTED")
    /\ where' = [where EXCEPT ![r] = complete_vbd_request(r, error[r])]
    /\ todo' = todo \ {r}
    /\ UNCHANGED <<alive, state, chain, op, error, secs_pending, io, served,
                   expired, pc, loop, ret, cur, seg, tgt>>

(* ... TD_VBD_RETRY_INTERVAL has not passed since its last try              *)
skip_failed_request(r) ==
    /\ pc = "loop" /\ loop = "failed" /\ r \in todo
    /\ ~Has("SHUTDOWN_REQUESTED")
    /\ error[r] # "EBUSY"
    /\ todo' = todo \ {r}
    /\ UNCHANGED <<alive, state, chain, reqs, pc, loop, ret, cur, seg, tgt>>

(* tapdisk_vbd_issue_new_requests, one request                              *)
issue_new_request(r) ==
    /\ pc = "loop" /\ loop = "new" /\ r \in todo
    /\ issue_request(r)

(* mutants: the mirrored sectors are counted once; the sectors are not      *)
(* counted; the mirror request is not queued                                *)
queue_iov_as(mirrors, count, double) ==
    LET mirrored == secmode = "MIRROR" /\ op[cur] = "write"
        main   == [role : {"main"}, sec : Iov(seg), img : {tgt}]
        mirror == [role : {"mirror"}, sec : Iov(seg), img : {secondary}]
    IN  /\ pc = "seg" /\ seg < NIov
        /\ io' = [io EXCEPT ![cur] =
                     @ \cup main \cup (IF mirrored /\ mirrors THEN mirror ELSE {})]
        /\ secs_pending' = [secs_pending EXCEPT
               ![cur] = @ + count + (IF mirrored THEN double ELSE 0)]
        /\ seg' = seg + 1
        /\ UNCHANGED <<alive, state, chain, where, op, error, served, expired,
                       pc, loop, todo, ret, cur, tgt>>

queue_iov_counts_once == queue_iov_as(TRUE, IovSecs, 0)
queue_iov_uncounted   == queue_iov_as(TRUE, 0, 0)
queue_iov_unmirrored  == queue_iov_as(FALSE, IovSecs, 0)

(* one turn of issue_request's loop: the mirror request first, then the     *)
(* main one on the image that was the leaf when issue_request began         *)
queue_iov ==
    LET mirrored == secmode = "MIRROR" /\ op[cur] = "write"
        main   == [role : {"main"}, sec : Iov(seg), img : {tgt}]
        mirror == [role : {"mirror"}, sec : Iov(seg), img : {secondary}]
    IN  /\ pc = "seg" /\ seg < NIov
        /\ io' = [io EXCEPT ![cur] = @ \cup main \cup (IF mirrored THEN mirror ELSE {})]
        /\ secs_pending' = [secs_pending EXCEPT
                              ![cur] = @ + IovSecs + (IF mirrored THEN IovSecs ELSE 0)]
        /\ seg' = seg + 1
        /\ UNCHANGED <<alive, state, chain, where, op, error, served, expired,
                       pc, loop, todo, ret, cur, tgt>>

(* mutant: a request answered synchronously is left pending                 *)
issue_end_leaves ==
    /\ pc = "seg" /\ seg = NIov
    /\ LoopOn(cur, "pending")
    /\ pc' = "loop" /\ cur' = NoReq /\ seg' = 0 /\ tgt' = NoImage
    /\ UNCHANGED <<alive, state, chain, reqs, loop, ret>>

(* the end of issue_request                                                 *)
issue_end ==
    /\ pc = "seg" /\ seg = NIov
    /\ LET dest == IF secs_pending[cur] = 0
                   THEN complete_vbd_request(cur, error[cur]) ELSE "pending"
       IN  where' = [where EXCEPT ![cur] = dest] /\ LoopOn(cur, dest)
    /\ pc' = "loop" /\ cur' = NoReq /\ seg' = 0 /\ tgt' = NoImage
    /\ UNCHANGED <<alive, state, chain, op, error, secs_pending, io, served,
                   expired, loop, ret>>

-----------------------------------------------------------------------------
(* Quiesce, pause, resume, close.                                           *)

(* The order an orderly toolstack keeps: it pauses or resumes an opened vbd,*)
(* opens one that is not paused, and closes or detaches one whose block     *)
(* interface it disconnected, which requires all requests to be answered.   *)
MaySendPause == Orderly => named          \* and RESUME
MaySendOpen  == Orderly => ~Has("PAUSED") /\ ~Has("PAUSE_REQUESTED")
MaySendClose == Orderly => \A r \in Reqs : where[r] = "free"

(* mutant: quiescing does not wait for the pending requests                 *)
quiesce_queue_at_once(st) == (st \ {"QUIESCE_REQUESTED"}) \cup {"QUIESCED"}

quiesce_queue(st) ==
    IF On("pending") # {} THEN st \cup {"QUIESCE_REQUESTED"}
    ELSE (st \ {"QUIESCE_REQUESTED"}) \cup {"QUIESCED"}

(* tapdisk_vbd_close_vdi frees every image; in mirror mode the secondary    *)
(* was a member of the chain, and the pointer to it stays                   *)
close_vdi ==
    /\ images' = <<>>
    /\ retired' = NoImage
    /\ secondary' = IF secondary = NoImage \/ secmode # "MIRROR"
                    THEN NoImage ELSE FreedImage
    /\ ignore' = {}

(* tapdisk_vbd_close may free the vbd: nothing is pending, and an active    *)
(* queue has no request left                                                *)
MayShutdown(st) ==
    /\ On("pending") = {}
    /\ st \cap {"DEAD", "CLOSED", "QUIESCED", "QUIESCE_REQUESTED"} = {} =>
         On("new") \cup On("failed") \cup On("completed") = {}

(* mutant: the images are closed without waiting                            *)
pause_completes_at_once == TRUE

pause_completes == On("pending") = {}

(* what tapdisk_vbd_pause makes of vbd->state                               *)
paused(st) ==
    LET q == quiesce_queue(st \cup {"PAUSE_REQUESTED"})
    IN  IF pause_completes
        THEN (q \ {"PAUSE_REQUESTED"}) \cup {"CLOSED", "PAUSED"} ELSE q

(* mutant: a pause that had to wait is forgotten                            *)
check_state_tail_no_pause ==
    /\ pc = "tail"
    /\ LET q    == IF Has("QUIESCE_REQUESTED") THEN quiesce_queue(state) ELSE state
           shut == Has("SHUTDOWN_REQUESTED") /\ MayShutdown(q)
       IN  /\ alive' = ~shut
           /\ state' = IF shut THEN q \cup {"CLOSED"} ELSE q
           /\ IF shut THEN close_vdi
              ELSE UNCHANGED <<images, retired, secondary, ignore>>
    /\ pc' = "idle"
    /\ UNCHANGED <<named, oflags, asked, secmode, reqs, loop, todo, ret, cur, seg, tgt>>

(* the rest of tapdisk_vbd_check_state                                      *)
check_state_tail ==
    /\ pc = "tail"
    /\ LET q    == IF Has("QUIESCE_REQUESTED") THEN quiesce_queue(state) ELSE state
           p    == IF Has("PAUSE_REQUESTED") THEN paused(q) ELSE q
           shut == Has("SHUTDOWN_REQUESTED") /\ MayShutdown(p)
       IN  /\ alive' = ~shut
           /\ state' = IF shut THEN p \cup {"CLOSED"} ELSE p
           /\ IF shut \/ (Has("PAUSE_REQUESTED") /\ pause_completes)
              THEN close_vdi
              ELSE UNCHANGED <<images, retired, secondary, ignore>>
    /\ pc' = "idle"
    /\ UNCHANGED <<named, oflags, asked, secmode, reqs, loop, todo, ret, cur, seg, tgt>>

pause ==
    /\ alive /\ pc = "idle" /\ MaySendPause
    /\ state' = paused(state)
    /\ IF pause_completes THEN close_vdi
       ELSE UNCHANGED <<images, retired, secondary, ignore>>
    /\ UNCHANGED <<alive, named, oflags, asked, secmode, reqs, ctl>>

(* tapdisk_vbd_add_secondary: a mirror also joins the chain, "since it may  *)
(* already contain data"                                                    *)
add_secondary(fl) ==
    /\ secondary' = "second"
    /\ ignore' = {"leaf"}
    /\ IF "STANDBY" \in fl
       THEN secmode' = "STANDBY" /\ images' = <<"leaf", "base">>
       ELSE secmode' = "MIRROR" /\ images' = <<"leaf", "second", "base">>

(* tapdisk_vbd_open_vdi succeeds with flags fl                              *)
open_vdi(fl) ==
    /\ named' = TRUE
    /\ oflags' = fl
    /\ IF "SECONDARY" \in fl THEN add_secondary(fl)
       ELSE /\ images' = <<"leaf", "base">>
            /\ ignore' = {}
            /\ UNCHANGED <<secondary, secmode>>
    /\ UNCHANGED retired

(* ... fails: the chain, if any, is closed and the flags are forgotten;     *)
(* TD_VBD_CLOSED is already cleared if the chain itself was opened          *)
open_vdi_fails(chain_opened) ==
    /\ images' = <<>> /\ ignore' = {}
    /\ oflags' = {}
    /\ state' = IF chain_opened THEN state \ {"CLOSED"} ELSE state
    /\ UNCHANGED <<named, asked, secmode, secondary, retired>>

(* TAPDISK_MESSAGE_OPEN                                                     *)
open_image(fl) ==
    /\ alive /\ pc = "idle" /\ MaySendOpen
    /\ ~named
    /\ \/ /\ open_vdi(fl) /\ asked' = fl
          /\ state' = state \ {"CLOSED"}
       \/ \E chain_opened \in BOOLEAN : open_vdi_fails(chain_opened)
    /\ UNCHANGED <<alive, reqs, ctl>>

(* tapdisk_vbd_resume tries TD_VBD_EIO_RETRIES times to open the image; an  *)
(* attempt made with images still open fails and closes them                *)
resume ==
    /\ alive /\ pc = "idle" /\ MaySendPause
    /\ Has("PAUSED")
    /\ \/ /\ \/ images = <<>> /\ open_vdi(oflags)
             \/ (images # <<>> \/ ReopenMayFail) /\ open_vdi({})
          /\ state' = state \ {"CLOSED", "QUIESCED", "QUIESCE_REQUESTED",
                               "PAUSED", "PAUSE_REQUESTED"}
          /\ pc' = "check"
          /\ UNCHANGED asked
       \/ /\ ReopenMayFail \/ ~named
          /\ \E chain_opened \in BOOLEAN : open_vdi_fails(chain_opened)
          /\ UNCHANGED pc
    /\ UNCHANGED <<alive, reqs, loop, todo, ret, cur, seg, tgt>>

(* TAPDISK_MESSAGE_CLOSE                                                    *)
close_image ==
    /\ alive /\ pc = "idle" /\ MaySendClose
    /\ close_vdi
    /\ state' = state \cup {"CLOSED"}
    /\ named' = FALSE
    /\ UNCHANGED <<alive, oflags, asked, secmode, reqs, ctl>>

(* TAPDISK_MESSAGE_DETACH                                                   *)
detach_vbd ==
    /\ alive /\ pc = "idle" /\ MaySendClose
    /\ ~named
    /\ alive' = (images # <<>>)
    /\ UNCHANGED <<state, chain, reqs, ctl>>

(* SIGINT and SIGBUS: tapdisk_vbd_close.  Their handler is asynchronous;    *)
(* here it runs between events.                                             *)
sigint ==
    /\ alive /\ pc = "idle"
    /\ IF MayShutdown(state)
       THEN /\ alive' = FALSE
            /\ state' = state \cup {"CLOSED"}
            /\ close_vdi
       ELSE /\ state' = state \cup {"SHUTDOWN_REQUESTED"}
            /\ UNCHANGED <<alive, images, retired, secondary, ignore>>
    /\ UNCHANGED <<named, oflags, asked, secmode, reqs, ctl>>

(* SIGXFSZ, raised by a write of tapdisk: tapdisk_vbd_kill_queue            *)
kill_queue ==
    /\ alive
    /\ state' = quiesce_queue(state) \cup {"DEAD"}
    /\ UNCHANGED <<alive, chain, reqs, ctl>>

-----------------------------------------------------------------------------
(* The block interface.                                                     *)

(* tapdisk_vbd_queue_request; the slot keeps the error of its last use      *)
queue_request(r, o) ==
    /\ alive /\ pc = "idle"
    /\ where[r] = "free"
    /\ where' = [where EXCEPT ![r] = "new"]
    /\ op' = [op EXCEPT ![r] = o]
    /\ UNCHANGED <<alive, state, chain, error, secs_pending, io, served, expired, ctl>>

(* tapdisk_vbd_kick answers every completed request and frees its slot      *)
kick ==
    /\ alive /\ pc = "idle"
    /\ On("completed") # {}
    /\ where' = [r \in Reqs |-> IF r \in On("completed") THEN "free" ELSE where[r]]
    /\ op' = [r \in Reqs |-> IF r \in On("completed") THEN "none" ELSE op[r]]
    /\ served' = [r \in Reqs |-> IF r \in On("completed") THEN {} ELSE served[r]]
    /\ expired' = expired \ On("completed")
    /\ UNCHANGED <<alive, state, chain, error, secs_pending, io, ctl>>

(* time passes: TD_VBD_REQUEST_TIMEOUT                                      *)
expire(r) ==
    /\ alive /\ where[r] # "free" /\ r \notin expired
    /\ expired' = expired \cup {r}
    /\ UNCHANGED <<alive, state, chain, where, op, error, secs_pending, io, served, ctl>>

-----------------------------------------------------------------------------

(* a driver answers or forwards pieces of r                                 *)
Driver(r) ==
    \E img \in Images \cup {FreedImage} :
        \E U \in SUBSET {u \in io[r] : u.img = img} :
            \/ \E res \in Results : complete_td_request(r, U, img, res)
            \/ forward_request(r, U, img)

Loop ==
    \/ loop_end
    \/ queue_iov
    \/ issue_end
    \/ check_state_tail
    \/ \E r \in todo : \/ reissue_failed_request(r)
                       \/ complete_failed_request(r)
                       \/ skip_failed_request(r)
                       \/ issue_new_request(r)

Next ==
    \/ \E r \in Reqs : \/ \E o \in Ops : queue_request(r, o)
                       \/ Driver(r)
                       \/ expire(r)
    \/ check_queue_state
    \/ recheck_state
    \/ Loop
    \/ kick
    \/ pause
    \/ resume
    \/ \E fl \in OpenFlags : open_image(fl)
    \/ close_image
    \/ detach_vbd
    \/ sigint
    \/ kill_queue

Spec == Init /\ [][Next]_vars

(* Fairness.  tapdisk_server_iterate waits for events, runs check_state and *)
(* kicks, over and over: the loop finishes what it began, and the events of *)
(* every turn (a driver's completion, the state check, the kick) are not    *)
(* put off for ever though another turn may come first.  Drivers answer     *)
(* (the kernel completes aio) and time passes.                              *)
Fairness ==
    /\ WF_vars(Loop)
    /\ SF_vars(check_queue_state)
    /\ SF_vars(kick)
    /\ \A r \in Reqs : SF_vars(Driver(r)) /\ WF_vars(expire(r))

FairSpec == Spec /\ Fairness

-----------------------------------------------------------------------------
(* Properties                                                               *)

TypeOK ==
    /\ alive \in BOOLEAN
    /\ state \subseteq Flags
    /\ named \in BOOLEAN
    /\ oflags \subseteq {"RDONLY", "SECONDARY", "STANDBY"}
    /\ asked \subseteq {"RDONLY", "SECONDARY", "STANDBY"}
    /\ images \in Seq(Images)
    /\ secmode \in Modes
    /\ secondary \in Images \cup {NoImage, FreedImage}
    /\ retired \in Images \cup {NoImage}
    /\ ignore \subseteq Images
    /\ where \in [Reqs -> Lists]
    /\ op \in [Reqs -> {"none", "read", "write", "beyond"}]
    /\ error \in [Reqs -> Errors]
    /\ secs_pending \in [Reqs -> Nat]
    /\ io \in [Reqs -> SUBSET Treqs]
    /\ served \in [Reqs -> SUBSET (Sectors \X (Images \cup {FreedImage}))]
    /\ expired \subseteq Reqs
    /\ pc \in {"idle", "check", "loop", "seg", "tail"}
    /\ loop \in {"failed", "new"}
    /\ todo \subseteq Reqs
    /\ ret \in {"idle", "tail"}
    /\ cur \in Reqs \cup {NoReq}
    /\ seg \in 0 .. NIov
    /\ tgt \in Images \cup {NoImage}

(* vreq->secs_pending is exactly the number of sectors of the request the  *)
(* drivers still hold, mirrored sectors counted twice: complete_td_request *)
(* and forward_request, in pieces, synchronously or not, never let the     *)
(* counter run ahead of the drivers or behind them.                         *)
SecsPendingExact == \A r \in Reqs : secs_pending[r] = Cardinality(io[r])

(* A request leaves the pending list (to be retried, or answered and its    *)
(* grant-mapped buffer handed back to the guest) only when no driver holds  *)
(* any part of it.                                                          *)
BufferSafe == \A r \in Reqs : io[r] # {} => where[r] = "pending"

(* A pending request has sectors with a driver, or is just being issued: no *)
(* order of completions leaves it on the pending list with nobody left to   *)
(* move it ("hang with unacknowledged writes").                             *)
NoneStuck == \A r \in Reqs : where[r] = "pending" => io[r] # {} \/ submitting(r)

(* Once the queue is quiesced, hence while the vbd is paused and its images *)
(* are closed, no request is pending.                                       *)
QuiescedIsQuiet == Has("QUIESCED") => On("pending") = {}

(* No driver holds sectors of a vbd that was freed, or for an image that    *)
(* was closed: each piece is on an image of the chain, on the leaf retired  *)
(* by ENOSPC, or on the secondary.                                          *)
ImagesOpen ==
    \A r \in Reqs : \A u \in io[r] :
        /\ alive
        /\ u.img \in InChain \cup ({retired, secondary} \ {FreedImage})

(* A request is answered with success only if each of its sectors was       *)
(* transferred by the attempt that is answered, and for a write, on an      *)
(* image that later reads consult (one of the chain).                       *)
AnswersHonest ==
    \A r \in Reqs : where[r] = "completed" /\ error[r] = "none" =>
        \A s \in Sectors :
            \E p \in served[r] :
                /\ p[1] = s
                /\ op[r] = "write" /\ images # <<>> => p[2] \in InChain

(* A vbd the toolstack opened read-only hands no write to a driver, across  *)
(* pause and resume.                                                        *)
ReadOnly ==
    "RDONLY" \in asked =>
        \A r \in Reqs : io[r] # {} => op[r] # "write"

(* No driver holds sectors of a vbd that was freed or of an image that was  *)
(* closed, nor writes of a vbd that was opened read-only: pause, resume,    *)
(* close, detach and the failover of a mirrored vbd may not overtake the    *)
(* requests in flight.                                                      *)
ImagesKept == ImagesOpen /\ ReadOnly

(* A request is answered sooner or later, whatever fails and however often  *)
(* it is retried, unless the vbd is paused or freed meanwhile.              *)
Answered ==
    \A r \in Reqs :
        where[r] # "free" ~> (where[r] = "free" \/ Has("PAUSED") \/ ~alive)

(* A pause that had to wait for pending requests completes.                 *)
PauseCompletes == Has("PAUSE_REQUESTED") ~> (Has("PAUSED") \/ ~alive)

(* The vbd as a block device: where a request is, what its attempt moved,   *)
(* and whether it was answered with success.                                *)
Phase(r) ==
    CASE where[r] = "free" -> "idle"
      [] where[r] \in {"new", "failed"} -> "waiting"
      [] where[r] = "pending" -> "working"
      [] OTHER -> "answered"
Succeeded(r) == where[r] = "completed" /\ error[r] = "none"
Moved(r) ==
    IF where[r] = "pending" \/ Succeeded(r) THEN {p[1] : p \in served[r]} ELSE {}

BD == INSTANCE BlockDevice WITH
    phase <- [r \in Reqs |-> Phase(r)], moved <- [r \in Reqs |-> Moved(r)],
    succeeded <- {r \in Reqs : Succeeded(r)}, quiet <- "QUIESCED" \in state

(* The vbd implements BlockDevice.  A request that is retried starts afresh, *)
(* one that is answered stays answered until its slot is freed, none begins *)
(* on a quiesced queue and the queue is quiesced under none.                *)
IsBlockDevice == BD!Spec
=============================================================================
