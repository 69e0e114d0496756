------------------------------- MODULE TapCtl -------------------------------
(* The control library (src/control): tools create, destroy and list        *)
(* tapdisks, each in several requests to processes that come, exit with     *)
(* their last vbd, and are killed meanwhile.  A request is one step here:   *)
(* its handler replies from a single process, and one that is killed takes  *)
(* its vbd with it.  Module Control has the server's side.  Tools always    *)
(* use minor 0, one vbd per tapdisk.                                        *)
EXTENDS Integers, FiniteSets

CONSTANTS
    Tools,         \* processes that use the library
    MaxPids,       \* bound: tapdisks ever started; pids are not reused
    MaxKills,      \* bound: tapdisks killed
    SysfsMinors    \* what the kernel lists under BLKTAP3_SYSFS_DIR

VARIABLES
    tool,      \* what each tool is doing
    disk,      \* tapdisks by pid: none, starting, listening or gone
    vbd,       \* of each tapdisk: absent, attached or open
    sockets,   \* pids with a socket in BLKTAP3_CONTROL_DIR, stale ones too
    kills,
    watch      \* of each tool: vbds there ever, and all along, since it began

\* the bound is a number
ASSUME TapCtlAssumption == MaxPids \in Nat

tapctlVars == <<tool, disk, vbd, sockets, kills, watch>>

Pids == 1 .. MaxPids
Doing(op, pc, id) ==
    [op |-> op, pc |-> pc, id |-> id, err |-> FALSE, todo |-> {}, found |-> {}, list |-> {}]
Idle == Doing("idle", "idle", 0)
Lowest(S) == CHOOSE p \in S : \A q \in S : p <= q
There(d, v) == {p \in Pids : d[p] = "listening" /\ v[p] # "absent"}

TapCtlInit ==
    /\ tool = [t \in Tools |-> Idle]
    /\ disk = [p \in Pids |-> "none"]
    /\ vbd = [p \in Pids |-> "absent"]
    /\ sockets = {} /\ kills = 0
    /\ watch = [t \in Tools |-> [ever |-> {}, along |-> {}]]

Goto(t, pc) == tool' = [tool EXCEPT ![t].pc = pc]
Spawns(t, pc, p) == tool' = [tool EXCEPT ![t].pc = pc, ![t].id = p]
Finish(t, failed) == tool' = [tool EXCEPT ![t].pc = "done", ![t].err = failed]
-----------------------------------------------------------------------------
(* Requests: tap_ctl_connect_send_and_receive, which fails unless the       *)
(* tapdisk listens; then the reply of the handler                           *)

Connects(p) == p \in sockets /\ disk[p] = "listening"

(* the handler's effect on the vbd, or its error                            *)
Replies(p, from, to, failed) ==
    IF Connects(p) /\ vbd[p] \in from
    THEN /\ ~failed
         /\ vbd' = [vbd EXCEPT ![p] = to]
         /\ UNCHANGED <<disk, sockets>>
    ELSE /\ failed
         /\ UNCHANGED <<disk, vbd, sockets>>

(* DETACH of a vbd that has no image; the last vbd ends tapdisk, which      *)
(* removes its socket                                                       *)
detach(p, failed) ==
    IF Connects(p) /\ vbd[p] = "attached"
    THEN /\ ~failed
         /\ vbd' = [vbd EXCEPT ![p] = "absent"]
         /\ disk' = [disk EXCEPT ![p] = "gone"]
         /\ sockets' = sockets \ {p}
    ELSE /\ failed
         /\ UNCHANGED <<disk, vbd, sockets>>

tap_ctl_attach(p, failed) ==
    \/ Replies(p, {"absent"}, "attached", failed)
    \/ failed /\ UNCHANGED <<disk, vbd, sockets>>   \* no memory: tapdisk stays, without a vbd

tap_ctl_close(p, failed)  ==
    IF Connects(p) /\ vbd[p] = "attached"   \* closing no image is no error
    THEN ~failed /\ UNCHANGED <<disk, vbd, sockets>>
    ELSE Replies(p, {"open"}, "attached", failed)
-----------------------------------------------------------------------------
(* tap_ctl_spawn: the child goes into the background and exits; the pid it  *)
(* prints is waited for                                                     *)

fork(t, p) ==
    /\ tool[t].pc = "spawn"
    /\ disk[p] = "none" /\ \A q \in Pids : q < p => disk[q] # "none"
    /\ disk' = [disk EXCEPT ![p] = "starting"]
    /\ Spawns(t, "read id", p)
    /\ UNCHANGED <<vbd, sockets, kills>>

(* SIGUSR1 before the handler is there: tried again                         *)
spawn_again(t) ==
    /\ tool[t].pc = "read id" /\ disk[tool[t].id] = "starting"
    /\ disk' = [disk EXCEPT ![tool[t].id] = "gone"]
    /\ Spawns(t, "spawn", 0)
    /\ UNCHANGED <<vbd, sockets, kills>>

(* tapdisk's main: the control socket, then its name on stdout, or exit     *)
serve(p) ==
    /\ disk[p] = "starting"
    /\ \/ disk' = [disk EXCEPT ![p] = "listening"] /\ sockets' = sockets \cup {p}
       \/ disk' = [disk EXCEPT ![p] = "gone"] /\ UNCHANGED sockets
    /\ UNCHANGED <<tool, vbd, kills>>

get_child_id(t) ==
    /\ tool[t].pc = "read id" /\ disk[tool[t].id] # "starting"
    /\ IF disk[tool[t].id] = "listening" THEN Goto(t, "attach") ELSE Finish(t, TRUE)
    /\ UNCHANGED <<disk, vbd, sockets, kills>>

create_attach(t) ==
    /\ tool[t].pc = "attach"
    /\ \E failed \in BOOLEAN :
        /\ tap_ctl_attach(tool[t].id, failed)
        /\ IF failed THEN Finish(t, TRUE) ELSE Goto(t, "open")
    /\ UNCHANGED kills

(* the image is opened, or cannot be                                        *)
tap_ctl_open(p, failed) ==
    \/ Replies(p, {"attached"}, "open", failed)
    \/ failed /\ UNCHANGED <<disk, vbd, sockets>>

(* mutant: a vbd whose image cannot be opened is left attached              *)
create_open_leaves(t) ==
    /\ tool[t].pc = "open"
    /\ \E failed \in BOOLEAN :
        /\ tap_ctl_open(tool[t].id, failed)
        /\ Finish(t, failed)
    /\ UNCHANGED kills

create_open(t) ==
    /\ tool[t].pc = "open"
    /\ \E failed \in BOOLEAN :
        /\ tap_ctl_open(tool[t].id, failed)
        /\ IF failed THEN Goto(t, "undo") ELSE Finish(t, FALSE)
    /\ UNCHANGED kills

create_detach(t) ==
    /\ tool[t].pc = "undo"
    /\ \E failed \in BOOLEAN : detach(tool[t].id, failed)
    /\ Finish(t, TRUE)
    /\ UNCHANGED kills

destroy_close(t) ==
    /\ tool[t].pc = "close"
    /\ \E failed \in BOOLEAN :
        /\ tap_ctl_close(tool[t].id, failed)
        /\ IF failed THEN Finish(t, TRUE) ELSE Goto(t, "detach")
    /\ UNCHANGED kills

destroy_detach(t) ==
    /\ tool[t].pc = "detach"
    /\ \E failed \in BOOLEAN : detach(tool[t].id, failed) /\ Finish(t, failed)
    /\ UNCHANGED kills
-----------------------------------------------------------------------------
(* tap_ctl_list                                                             *)

find_tapdisks(t) ==
    /\ tool[t].pc = "glob"
    /\ tool' = [tool EXCEPT ![t].pc = "ask pid", ![t].todo = sockets]
    /\ UNCHANGED <<disk, vbd, sockets, kills>>

(* a socket nobody answers at is skipped                                    *)
tap_ctl_get_pid(t) ==
    /\ tool[t].pc = "ask pid"
    /\ IF tool[t].todo = {}
       THEN tool' = [tool EXCEPT ![t].pc = "ask list", ![t].todo = tool[t].found]
       ELSE LET p == Lowest(tool[t].todo)
            IN  tool' = [tool EXCEPT ![t].todo = @ \ {p},
                                     ![t].found = IF Connects(p) THEN @ \cup {p} ELSE @]
    /\ UNCHANGED <<disk, vbd, sockets, kills>>

(* a tapdisk that does not answer, or has no vbd, is listed as such         *)
list_tapdisk(t) ==
    LET p == Lowest(tool[t].todo)
    IN  tool' = [tool EXCEPT
            ![t].list = @ \cup {[pid |-> p, minor |-> IF Connects(p) /\ vbd[p] # "absent" THEN 0 ELSE -1]},
            ![t].todo = @ \ {p}]

(* last, minors without a tapdisk                                           *)
Listed(t) == {e.minor : e \in tool[t].list}
list_next(t) ==
    /\ tool[t].pc = "ask list"
    /\ IF tool[t].todo # {} THEN list_tapdisk(t)
       ELSE tool' = [tool EXCEPT
                ![t].pc = "done",
                ![t].list = @ \cup {[pid |-> -1, minor |-> m] : m \in SysfsMinors \ Listed(t)}]
    /\ UNCHANGED <<disk, vbd, sockets, kills>>
-----------------------------------------------------------------------------
(* Who uses the library, and what happens to tapdisks (external)            *)

start(t, op, pc, id) ==
    /\ tool[t].pc \in {"idle", "done"}
    /\ tool' = [tool EXCEPT ![t] = Doing(op, pc, id)]
    /\ UNCHANGED <<disk, vbd, sockets, kills>>

killed(p) ==
    /\ disk[p] = "listening" /\ kills < MaxKills
    /\ kills' = kills + 1
    /\ disk' = [disk EXCEPT ![p] = "gone"]
    /\ vbd' = [vbd EXCEPT ![p] = "absent"]
    /\ UNCHANGED <<tool, sockets>>

Steps(t) ==
    \/ start(t, "create", "spawn", 0)
    \/ \E p \in sockets : start(t, "destroy", "close", p)
    \/ start(t, "list", "glob", 0)
    \/ (\E p \in Pids : fork(t, p)) \/ spawn_again(t) \/ get_child_id(t)
    \/ create_attach(t) \/ create_open(t) \/ create_detach(t)
    \/ destroy_close(t) \/ destroy_detach(t)
    \/ find_tapdisks(t) \/ tap_ctl_get_pid(t) \/ list_next(t)

Watched ==
    watch' = [t \in Tools |->
        IF tool'[t].pc = "glob"
        THEN [ever |-> There(disk', vbd'), along |-> There(disk', vbd')]
        ELSE IF tool'[t].op = "list" /\ tool[t].pc # "done"
        THEN [ever |-> watch[t].ever \cup There(disk', vbd'),
              along |-> watch[t].along \cap There(disk', vbd')]
        ELSE IF tool'[t].op = "list" THEN watch[t]
        ELSE [ever |-> {}, along |-> {}]]

TapCtlNext ==
    /\ \/ \E t \in Tools : Steps(t)
       \/ \E p \in Pids : serve(p) \/ killed(p)
    /\ Watched
TapCtlSpec == TapCtlInit /\ [][TapCtlNext]_tapctlVars
-----------------------------------------------------------------------------
(* A create that failed has left no vbd, and one that succeeded has one as  *)
(* long as its tapdisk runs; a destroy that succeeded has ended the         *)
(* tapdisk: whichever requests of several tools come in between.            *)
CreatesWhole ==
    \A t \in Tools : tool[t].pc = "done" /\ tool[t].id # 0 =>
        LET p == tool[t].id IN
        /\ tool[t].op = "create" /\ tool[t].err => vbd[p] = "absent"
        /\ tool[t].op = "create" /\ ~tool[t].err /\ disk[p] = "listening" => vbd[p] # "absent"
        /\ tool[t].op = "destroy" /\ ~tool[t].err => disk[p] = "gone" /\ vbd[p] = "absent"

(* A list has every vbd that was there from its beginning to its end, none  *)
(* that was not there in between, and every minor once at least, although   *)
(* tapdisks start, exit and are killed between its requests.                *)
ListHonest ==
    \A t \in Tools : tool[t].op = "list" /\ tool[t].pc = "done" =>
        LET vbds == {e.pid : e \in {f \in tool[t].list : f.pid > 0 /\ f.minor >= 0}} IN
        /\ watch[t].along \subseteq vbds
        /\ vbds \subseteq watch[t].ever
        /\ \A m \in SysfsMinors : \E e \in tool[t].list : e.minor = m

(* The control library (tap-ctl-*.c): create and destroy do all or nothing, *)
(* and a list is true of its time.                                          *)
ToolsSound == CreatesWhole /\ ListHonest
=============================================================================
