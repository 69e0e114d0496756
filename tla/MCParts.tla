------------------------------ MODULE MCParts ------------------------------
(* Small instances of the parts that do not touch each other's state, in    *)
(* one run: part says which of them a behaviour is about, the others stay   *)
(* where they begin.                                                        *)
EXTENDS Integers, TLC, BlockCache, Llcache, VhdIo, TapCtl, Xenio, Syslog

CONSTANTS v1, v2

VARIABLES
    part,
    bridge, valve, up, down, backlog, flying, rlTime, granted, since,
    forwarded, refused, rlWrites, ends,
    vhd, jnl, jsync, jctx, jh, todo, pc, size, old, view, runs, unmapped

RL == INSTANCE Ratelimit WITH
    Valves <- {v1, v2}, Pool <- 2, Sizes <- {2}, Writes <- 2, ConnMax <- 1,
    RequestMax <- 7, Kinds <- {"token", "meminfo"}, Rate <- 3, Cap <- 1,
    Second <- 2, HiMark <- 2, LoMark <- 1, Dirty <- {0, 2}, Kilo <- 1,
    Period <- 0, MaxTime <- 1, Ends <- 1, time <- rlTime,
    writes <- rlWrites

\* A disk whose second sector is its only partition, a file of another device
\* that has its inode number and is no vhd, a vhd that may not be written and
\* one on a read-only file system.
IoPaths == {"disk", "part", "other", "ro", "frozen"}
MCFile == [p \in IoPaths |->
    CASE p \in {"disk", "part"} -> 1 [] p = "other" -> 2 [] p = "ro" -> 3 [] p = "frozen" -> 4]
MCGuess == [p \in IoPaths |-> "0"]
MCPartition == [p \in IoPaths |-> IF p = "part" THEN 1 ELSE 0]
MCIno == <<1, 1, 2, 3>>
MCAccess == <<"0", "0", "EACCES", "EROFS">>
MCModes == [p \in IoPaths |-> CASE p = "part" -> {"a"} [] p \in {"ro", "frozen"} -> {"r"} [] OTHER -> {}]
MCPartitions == [i \in 1 .. 4 |-> <<1>>]

\* With and without a batmap, locators, blocks in the way and blocks at all.
MCLayouts == {
    [size |-> 2, max |-> 2, map |-> TRUE, loc |-> FALSE, alloc |-> <<1, 0>>, full |-> {1}],
    [size |-> 3, max |-> 3, map |-> FALSE, loc |-> FALSE, alloc |-> <<1, 2>>, full |-> {}],
    [size |-> 2, max |-> 2, map |-> TRUE, loc |-> TRUE, alloc |-> <<0>>, full |-> {0}],
    [size |-> 4, max |-> 4, map |-> TRUE, loc |-> TRUE, alloc |-> <<3>>, full |-> {3}],
    [size |-> 2, max |-> 2, map |-> TRUE, loc |-> FALSE, alloc |-> <<>>, full |-> {}]}

JN == INSTANCE VhdJournal WITH
    Layouts <- MCLayouts, Targets <- {1, 3, 5}, PerBat <- 2, PerByte <- 2, MapBytes <- 2,
    Faults <- {"vhd", "map", "trunc", "jnl"}, MaxRuns <- 3, disk <- view, ctx <- jctx

Init ==
    /\ part \in {"cache", "llcache", "xenio", "rate", "log", "tools", "io", "journal"}
    /\ CacheInit /\ LlInit /\ XenioInit /\ RL!Init
    /\ SyslogInit /\ TapCtlInit /\ IoInit /\ JN!Init
    /\ part # "rate" => bridge.kind = "token"
    /\ part # "journal" => vhd = JN!Created(CHOOSE l \in MCLayouts : l.alloc = <<>>)

rateV  == <<bridge, valve, up, down, backlog, flying, rlTime, granted, since,
            forwarded, refused, rlWrites, ends>>
jnlV   == <<vhd, jnl, jsync, jctx, jh, todo, pc, size, old, view, runs, unmapped>>

Next ==
    /\ UNCHANGED part
    /\ \/ part = "cache" /\ CacheNext /\ UNCHANGED <<llVars, xenioVars, rateV, syslogVars, tapctlVars, ioVars, jnlV>>
       \/ part = "llcache" /\ LleNext /\ UNCHANGED <<cacheVars, xenioVars, rateV, syslogVars, tapctlVars, ioVars, jnlV>>
       \/ part = "xenio" /\ XenioNext /\ UNCHANGED <<cacheVars, llVars, rateV, syslogVars, tapctlVars, ioVars, jnlV>>
       \/ part = "rate" /\ RL!Next /\ UNCHANGED <<cacheVars, llVars, xenioVars, syslogVars, tapctlVars, ioVars, jnlV>>
       \/ part = "log" /\ SyslogNext /\ UNCHANGED <<cacheVars, llVars, xenioVars, rateV, tapctlVars, ioVars, jnlV>>
       \/ part = "tools" /\ TapCtlNext /\ UNCHANGED <<cacheVars, llVars, xenioVars, rateV, syslogVars, ioVars, jnlV>>
       \/ part = "io" /\ IoNext /\ UNCHANGED <<cacheVars, llVars, xenioVars, rateV, syslogVars, tapctlVars, jnlV>>
       \/ part = "journal" /\ JN!Next /\ UNCHANGED <<cacheVars, llVars, xenioVars, rateV, syslogVars, tapctlVars, ioVars>>

Spec == Init /\ [][Next]_<<part, cacheVars, llVars, xenioVars, rateV, syslogVars, tapctlVars, ioVars, jnlV>>

Perms == Permutations({v1, v2})

(* Rate limiting (td-rated.c, block-valve.c): no more is granted than the   *)
(* rate allows and no less earned, the bridge never sleeps on a valve it    *)
(* could grant, neither side refuses what the other sends, and a write is   *)
(* forwarded once (RateKept, SleepsSafely, NeverRefused, ForwardedOnce).    *)
RateSound == part = "rate" => RL!RateKept /\ RL!SleepsSafely /\ RL!NeverRefused /\ RL!ForwardedOnce

(* vhd-util resize and revert (libvhd-journal.c): a vhd that is left        *)
(* disabled is not lost, its journal undoes the resize or all of it is      *)
(* there (Recoverable).                                                     *)
Recoverable == part = "journal" => JN!Recoverable

(* Resize and revert implement AtomicResize: whichever writes fail and      *)
(* wherever the tools are killed, a vhd that can be used holds all of a     *)
(* resize or nothing of it.                                                 *)
ResizeIsAtomic == JN!ResizeIsAtomic
=============================================================================
