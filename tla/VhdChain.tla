---- MODULE VhdChain ----
(***************************************************************************)
(* Chains of vhds: the I/O of libvhd.c on them, and the tools that build   *)
(* and shorten them: vhd-util create, snapshot, coalesce, fill and modify. *)
(*                                                                         *)
(* A vhd is kept by what its BAT, its bitmaps and its batmap say and by    *)
(* the data of its blocks; VhdJournal has the layout of the file and the   *)
(* two footers.  A sector has two halves, so that writes of bytes, which   *)
(* read and rewrite whole sectors, can be told from writes of sectors.     *)
(*                                                                         *)
(* One tool runs at a time, and one user may have a leaf open meanwhile,   *)
(* with VHD_OPEN_CACHED: the BATs of all vhds below it stay as they were   *)
(* when it was opened.  Every write of either is a step, and either can be *)
(* killed between two of its writes.  What calls the tools (the storage    *)
(* manager) is taken to coalesce only onto vhds without another child, and *)
(* to delete and reparent only after a coalesce has succeeded.             *)
(***************************************************************************)
EXTENDS Integers, FiniteSets, Sequences, SequencesExt

CONSTANTS
  Names,      \* the files
  Chains,     \* the chains to start from, see Built
  Blocks,     \* the number of blocks of every vhd
  Spb,        \* sectors per block
  Jobs,       \* how often a tool is started
  Writes,     \* how often the user writes
  Targets,    \* the sectors it writes to
  Tools,      \* the tools that are started
  Kills       \* before which writes a process may be killed or fail

VARIABLES
  disk,       \* the files
  tool,       \* the tool: its job, the next block, and the writes to come
  user,       \* the user: its leaf, the BATs it cached, the writes to come
  want,       \* history: what every vhd without children must hold
  merged,     \* history: the vhds whose coalesce onto their parents succeeded
  jobs, writes

vars == <<disk, tool, user, want, merged, jobs, writes>>

Nobody == "nobody"
NoFile == [type |-> "none"]
Zero == <<0, 0>>
Junk == <<-99, -99>>
Error == <<-98>>

Sectors == 0 .. Blocks * Spb - 1
Blk(s) == s \div Spb
Secs(b) == {s \in Sectors : Blk(s) = b}

\* prt is the file the parent locators name, raw whether prt_uuid is cleared in
\* the header, which says that the parent is not a vhd.
Header(prt, raw) == [type |-> "vhd", prt |-> prt, raw |-> raw]
NoBlocks == [bat |-> {}, bits |-> {}, map |-> {}, data |-> [s \in Sectors |-> Junk]]
Vhd(prt, raw) == Header(prt, raw) @@ NoBlocks

Exists(f) == disk[f].type # "none"
Opens(d, f) == d[f].type = "vhd"
Children(f) == {c \in Names : Opens(disk, c) /\ disk[c].prt = f}
Leaves == {f \in Names : Opens(disk, f) /\ Children(f) = {}}

----------------------------------------------------------------------------
\* Reading: every vhd of the chain gives the sectors its bitmaps have, from the
\* blocks the context's BAT has; a raw parent has everything, and the end of the
\* chain reads as zeros.  bats[f] is the BAT a context of f was opened with.
bats(d) == [f \in Names |-> IF Opens(d, f) THEN d[f].bat ELSE {}]

read_link(d, c, f, s) == Blk(s) \in c[f] /\ s \in d[f].bits

RECURSIVE dynamic_read(_, _, _, _)
dynamic_read(d, c, f, s) ==
  IF ~Opens(d, f) THEN Error
  ELSE IF read_link(d, c, f, s) THEN d[f].data[s]
  ELSE IF d[f].prt = Nobody THEN Zero
  ELSE IF d[f].raw THEN (IF d[d[f].prt].type = "raw" THEN d[d[f].prt].data[s] ELSE Error)
  ELSE dynamic_read(d, c, d[f].prt, s)

\* vhd_io_read_bytes makes the same walk for the bytes it is asked for.
read_bytes(d, c, f, s) == dynamic_read(d, c, f, s)

io_read(d, f, s) == dynamic_read(d, bats(d), f, s)
View(d, f) == [s \in Sectors |-> io_read(d, f, s)]

\* The vhds from f down to what is not one, f first.
RECURSIVE Chain(_, _)
Chain(d, f) ==
  IF f = Nobody \/ ~Opens(d, f) THEN <<>> ELSE <<f>> \o Chain(d, d[f].prt)

----------------------------------------------------------------------------
\* The writes.  A block is allocated with an empty bitmap at the end of the
\* file, before the BAT names it; its data is what was there.
Op(op, f, x) == <<[op |-> op, f |-> f, x |-> x]>>

allocate_block(d, f, b) == Op("zero", f, b) \o Op("bat", f, b)

\* Mutant: the bitmap is written before the data.
dynamic_write_bits_first(d, f, b, v) ==
  LET new == b \notin d[f].bat
      bits == (IF new THEN {} ELSE d[f].bits \cap Secs(b)) \cup DOMAIN v
  IN  (IF new THEN allocate_block(d, f, b) ELSE <<>>)
      \o (IF b \in d[f].map THEN <<>> ELSE Op("bits", f, [b |-> b, set |-> bits])) \o Op("data", f, v)

\* __vhd_io_dynamic_write for the sectors v is about, all of block b: the data,
\* then the bitmap unless the batmap says that it is full, then the batmap.
dynamic_write(d, f, b, v) ==
  LET new == b \notin d[f].bat
      bits == (IF new THEN {} ELSE d[f].bits \cap Secs(b)) \cup DOMAIN v
  IN  (IF new THEN allocate_block(d, f, b) ELSE <<>>)
      \o Op("data", f, v)
      \o (IF b \in d[f].map THEN <<>>
          ELSE Op("bits", f, [b |-> b, set |-> bits])
               \o (IF bits = Secs(b) THEN Op("map", f, d[f].map \cup {b}) ELSE <<>>))
      \o Op("footer", f, {})

\* __vhd_io_dynamic_write_bytes_aligned makes the same writes.
write_bytes_aligned(d, f, b, v) == dynamic_write(d, f, b, v)

io_write(d, f, b, v) == IF d[f].type = "raw" THEN Op("data", f, v) ELSE dynamic_write(d, f, b, v)

applied(d, w) ==
  CASE w.op = "bat" -> [d EXCEPT ![w.f].bat = @ \cup {w.x}, ![w.f].bits = @ \ Secs(w.x),
                                 ![w.f].data = [s \in Sectors |-> IF Blk(s) = w.x THEN Junk ELSE @[s]]]
    [] w.op = "data" -> [d EXCEPT ![w.f].data = [s \in Sectors |-> IF s \in DOMAIN w.x THEN w.x[s] ELSE @[s]]]
    [] w.op = "bits" -> [d EXCEPT ![w.f].bits = (@ \ Secs(w.x.b)) \cup w.x.set]
    [] w.op \in {"map", "unmap"} -> [d EXCEPT ![w.f].map = w.x]
    [] w.op = "locator" -> [d EXCEPT ![w.f].prt = w.x]
    [] w.op = "header" -> [d EXCEPT ![w.f].raw = w.x]
    [] w.op = "make" -> [d EXCEPT ![w.f] = w.x]
    [] OTHER -> d

----------------------------------------------------------------------------
\* The tools.
Idle == [job |-> "idle", f |-> Nobody, onto |-> Nobody, blk |-> 0, todo |-> <<>>]
Job(job, f, onto, todo) == [job |-> job, f |-> f, onto |-> onto, blk |-> 0, todo |-> todo]

Starts(job) == tool = Idle /\ jobs < Jobs /\ jobs' = jobs + 1 /\ job \in Tools

\* __vhd_create: the file opens once its footer and its header are written, last.
creating(f, x) == Op("make", f, [type |-> "partial"]) \o Op("make", f, x)

\* vhd_util_find_snapshot_target: a vhd without blocks is skipped.
RECURSIVE snapshot_target(_)
snapshot_target(f) ==
  IF disk[f].type = "raw" \/ disk[f].prt = Nobody \/ disk[f].bat # {} THEN f
  ELSE snapshot_target(disk[f].prt)

snapshot(f, p) ==
  /\ Starts("snapshot") /\ ~Exists(f) /\ user.f # p
  /\ Opens(disk, p) \/ (disk[p].type = "raw" /\ Children(p) = {})
  /\ LET t == snapshot_target(p)
     IN  tool' = Job("snapshot", f, p, creating(f, Vhd(t, disk[t].type = "raw")))
  /\ UNCHANGED <<disk, user, want, merged, writes>>

\* vhd_util_coalesce_load_chain finds the ancestor; only inner vhds that nobody
\* else builds on are coalesced onto.
Index(c, a) == IF a \in ToSet(c) THEN CHOOSE i \in DOMAIN c : c[i] = a ELSE 0

OnlyChild(f) == Cardinality(Children(disk[f].prt)) = 1
onto_ancestor(f, a) ==
  LET c == Chain(disk, f)
      n == IF disk[a].type = "raw" THEN Len(c) ELSE Index(c, a) - 1
  IN  /\ disk[a].type = "raw" => disk[c[Len(c)]].prt = a
      /\ n >= 1
      /\ \A i \in 1 .. n : OnlyChild(c[i])

coalesce_parent(f) ==
  /\ Starts("parent") /\ Opens(disk, f) /\ disk[f].prt # Nobody
  /\ user.f # f /\ OnlyChild(f)
  /\ Opens(disk, disk[f].prt) = ~disk[f].raw
  /\ tool' = Job("parent", f, disk[f].prt, <<>>)
  /\ merged' = merged \ ToSet(Chain(disk, f))
  /\ UNCHANGED <<disk, user, want, writes>>

coalesce_ancestor(f, a) ==
  /\ Starts("ancestor") /\ Opens(disk, f) /\ Exists(a) /\ a # f
  /\ user.f # f /\ onto_ancestor(f, a)
  /\ tool' = Job("ancestor", f, a, <<>>)
  /\ merged' = merged \ ToSet(Chain(disk, f))
  /\ UNCHANGED <<disk, user, want, writes>>

coalesce_out(f, g) ==
  /\ Starts("out") /\ Opens(disk, f) /\ ~Exists(g) /\ user.f # f
  /\ tool' = Job("out", f, g, creating(g, Vhd(Nobody, FALSE)))
  /\ UNCHANGED <<disk, user, want, merged, writes>>

fill(f) ==
  /\ Starts("fill") /\ f \in Leaves /\ user.f # f
  /\ tool' = Job("fill", f, f, <<>>)
  /\ UNCHANGED <<disk, user, want, merged, writes>>

Works(job) == tool.job = job /\ tool.todo = <<>>

\* vhd_util_coalesce_block: the block is read through the chain and written in
\* the runs its bitmap has, or whole if the batmap says that it is full.
Run(S, s) == {t \in S : t >= s /\ \A r \in s .. t : r \in S}
Runs(S) == {Run(S, s) : s \in {t \in S : t - 1 \notin S}}
run_writes(f, g, b, S) ==
  LET rs == SetToSortSeq(Runs(S), LAMBDA x, y : \E s \in x : \A t \in y : s < t)
      step(d, i) == io_write(d, g, b, [s \in rs[i] |-> io_read(disk, f, s)])
      after(d, ws) == FoldLeft(applied, d, ws)
  IN  FoldLeft(LAMBDA acc, i : acc \o step(after(disk, acc), i), <<>>, [i \in DOMAIN rs |-> i])

coalesce_block(f, g, b) ==
  IF b \notin disk[f].bat THEN <<>>
  ELSE run_writes(f, g, b, IF b \in disk[f].map THEN Secs(b) ELSE disk[f].bits \cap Secs(b))

coalesce_onto ==
  /\ Works("parent") \/ Works("ancestor")
  /\ tool.blk < Blocks
  /\ tool' = [tool EXCEPT !.blk = @ + 1, !.todo = coalesce_block(tool.f, tool.onto, tool.blk)]
  /\ UNCHANGED <<disk, user, want, merged, jobs, writes>>

\* vhd_util_coalesce_clear_bitmaps takes the sectors the child has off the vhds
\* between it and the ancestor.  dirty is not initialised: a bitmap that does not
\* change may be written as well.
\* Mutants: the vhds in between keep what they have; their batmap is left as it is.
clear_bitmap_never(f, g, b, dirty) == <<>>
clear_bitmap_only(f, g, b, dirty) ==
  IF b \notin disk[g].bat THEN <<>>
  ELSE Op("bits", g, [b |-> b, set |-> (disk[g].bits \cap Secs(b)) \ disk[f].bits])

clear_bitmap(f, g, b, dirty) ==
  LET cleared == disk[g].bits \cap disk[f].bits \cap Secs(b)
  IN  IF b \notin disk[g].bat \/ (cleared = {} /\ ~dirty) THEN <<>>
      ELSE Op("bits", g, [b |-> b, set |-> (disk[g].bits \cap Secs(b)) \ disk[f].bits])
           \o (IF b \in disk[g].map THEN Op("unmap", g, disk[g].map \ {b}) ELSE <<>>)

clear_bitmaps ==
  LET c == Chain(disk, tool.f)
      n == IF disk[tool.onto].type = "raw" THEN Len(c) ELSE Index(c, tool.onto) - 1
      b == tool.blk - Blocks
  IN  /\ Works("ancestor") /\ b \in 0 .. Blocks - 1
      /\ \E dirty \in BOOLEAN :
           tool' = [tool EXCEPT !.blk = @ + 1,
                      !.todo = IF b \notin disk[tool.f].bat THEN <<>>
                               ELSE FlattenSeq([i \in 1 .. n - 1 |-> clear_bitmap(tool.f, c[i + 1], b, dirty)])]
      /\ UNCHANGED <<disk, user, want, merged, jobs, writes>>

\* vhd_util_coalesce_block_out skips blocks of zeros.
coalesce_block_out ==
  /\ Works("out") /\ tool.blk < Blocks
  /\ LET v == [s \in Secs(tool.blk) |-> io_read(disk, tool.f, s)]
     IN  tool' = [tool EXCEPT !.blk = @ + 1,
                              !.todo = IF \A s \in DOMAIN v : v[s] = Zero THEN <<>>
                                       ELSE io_write(disk, tool.onto, tool.blk, v)]
  /\ UNCHANGED <<disk, user, want, merged, jobs, writes>>

fill_block ==
  /\ Works("fill") /\ tool.blk < Blocks
  /\ tool' = [tool EXCEPT !.blk = @ + 1,
                          !.todo = io_write(disk, tool.f, tool.blk,
                                            [s \in Secs(tool.blk) |-> io_read(disk, tool.f, s)])]
  /\ UNCHANGED <<disk, user, want, merged, jobs, writes>>

Finished ==
  /\ tool.job # "idle" /\ tool.todo = <<>>
  /\ tool.blk >= (CASE tool.job \in {"parent", "out", "fill"} -> Blocks
                    [] tool.job = "ancestor" -> 2 * Blocks
                    [] OTHER -> 0)

finish ==
  /\ Finished
  /\ tool' = Idle
  /\ merged' = IF tool.job \in {"parent", "ancestor"} THEN merged \cup {tool.f} ELSE merged
  /\ want' = CASE tool.job = "snapshot" -> [want EXCEPT ![tool.f] = View(disk, tool.onto)]
               [] tool.job = "out" -> [want EXCEPT ![tool.onto] = View(disk, tool.f)]
               [] OTHER -> want
  /\ UNCHANGED <<disk, user, jobs, writes>>

\* vhd_change_parent, for a child of a vhd that was coalesced: the locators
\* first, then the header.
change_parent(f) ==
  LET p == disk[disk[f].prt].prt
  IN  /\ Starts("modify") /\ Opens(disk, f) /\ user.f = Nobody
      /\ disk[f].prt \in merged /\ Opens(disk, disk[f].prt)
      /\ tool' = Job("modify", f, p, Op("locator", f, p) \o Op("header", f, disk[p].type = "raw"))
      /\ UNCHANGED <<disk, user, want, merged, writes>>

\* A reparent that was interrupted is done again.
change_parent_again(f) ==
  /\ Starts("modify") /\ Opens(disk, f) /\ user.f = Nobody
  /\ disk[f].prt # Nobody /\ disk[f].raw # (disk[disk[f].prt].type = "raw")
  /\ tool' = Job("modify", f, disk[f].prt,
                 Op("locator", f, disk[f].prt) \o Op("header", f, disk[disk[f].prt].type = "raw"))
  /\ UNCHANGED <<disk, user, want, merged, writes>>

\* What calls the tools deletes a vhd that was coalesced once nothing needs it,
\* and what a tool that was killed left behind.
delete(f) ==
  /\ tool = Idle /\ Exists(f) /\ Children(f) = {} /\ user.f # f
  /\ f \in merged \/ (disk[f].type # "raw" /\ want[f] = <<>>)
  /\ disk' = [disk EXCEPT ![f] = NoFile]
  /\ merged' = merged \ {f}
  /\ want' = IF f \in merged /\ Children(disk[f].prt) = {f} /\ Opens(disk, disk[f].prt)
             THEN [want EXCEPT ![disk[f].prt] = want[f], ![f] = <<>>] ELSE [want EXCEPT ![f] = <<>>]
  /\ UNCHANGED <<tool, user, jobs, writes>>

----------------------------------------------------------------------------
\* The user: vhd_open with VHD_OPEN_CACHED, vhd_io_write_bytes, close.
Closed == [f |-> Nobody, bats |-> <<>>, pend |-> <<>>, todo |-> <<>>]

open(f) ==
  /\ user = Closed /\ f \in Leaves /\ want[f] # <<>> /\ writes < Writes
  /\ f # tool.f /\ f # tool.onto /\ tool.job # "modify"
  /\ \A s \in Sectors : io_read(disk, f, s) # Error
  /\ user' = [Closed EXCEPT !.f = f, !.bats = bats(disk)]
  /\ UNCHANGED <<disk, tool, want, merged, jobs, writes>>

\* __vhd_io_dynamic_write_bytes: what covers only part of a sector is merged with
\* the sector as it is read through the chain.
write_bytes(s, H) ==
  /\ user.f # Nobody /\ user.todo = <<>> /\ user.pend = <<>> /\ writes < Writes
  /\ LET was == read_bytes(disk, user.bats, user.f, s)
         v == [h \in 1 .. 2 |-> IF h \in H THEN writes + 1 ELSE was[h]]
     IN  user' = [user EXCEPT !.todo = write_bytes_aligned(disk, user.f, Blk(s), s :> v),
                              !.bats[user.f] = @ \cup {Blk(s)},
                              !.pend = <<s, H, writes + 1>>]
  /\ writes' = writes + 1
  /\ merged' = merged \ {user.f}
  /\ UNCHANGED <<disk, tool, want, jobs>>

Merge(v, H, n) == [h \in 1 .. 2 |-> IF h \in H THEN n ELSE v[h]]

wrote ==
  /\ user.pend # <<>> /\ user.todo = <<>>
  /\ want' = [want EXCEPT ![user.f][user.pend[1]] = Merge(@, user.pend[2], user.pend[3])]
  /\ user' = [user EXCEPT !.pend = <<>>]
  /\ UNCHANGED <<disk, tool, merged, jobs, writes>>

close ==
  /\ user.f # Nobody /\ user.pend = <<>>
  /\ user' = Closed
  /\ UNCHANGED <<disk, tool, want, merged, jobs, writes>>

----------------------------------------------------------------------------
tool_writes ==
  /\ tool.todo # <<>>
  /\ disk' = applied(disk, Head(tool.todo))
  /\ tool' = [tool EXCEPT !.todo = Tail(@)]
  /\ UNCHANGED <<user, want, merged, jobs, writes>>

user_writes ==
  /\ user.todo # <<>>
  /\ disk' = applied(disk, Head(user.todo))
  /\ user' = [user EXCEPT !.todo = Tail(@)]
  /\ UNCHANGED <<tool, want, merged, jobs, writes>>

\* A tool is killed, or a write fails, which ends it; coalesce -o then unlinks
\* its output, if it still can.
tool_ends ==
  /\ tool.job # "idle" /\ (tool.todo # <<>> => Head(tool.todo).op \in Kills)
  /\ ~Finished
  /\ tool' = Idle
  /\ \/ UNCHANGED disk
     \/ tool.job = "out" /\ disk' = [disk EXCEPT ![tool.onto] = NoFile]
  /\ UNCHANGED <<user, want, merged, jobs, writes>>

user_killed ==
  /\ user.todo # <<>> /\ Head(user.todo).op \in Kills
  /\ user' = Closed
  /\ want' = [want EXCEPT ![user.f] = View(disk, user.f)]
  /\ UNCHANGED <<disk, tool, merged, jobs, writes>>

\* A chain as snapshots and writes leave it: c[i] is [f, has], the sectors has
\* written to f while it was the leaf; raw says that the first file is not a vhd.
Built(c, raw) ==
  LET at(f) == CHOOSE i \in DOMAIN c : c[i].f = f
      vhd(i) == [Vhd(IF i = 1 THEN Nobody ELSE c[i - 1].f, raw /\ i = 2) EXCEPT
                   !.bat = {Blk(s) : s \in c[i].has}, !.bits = c[i].has,
                   !.map = {b \in 0 .. Blocks - 1 : Secs(b) \subseteq c[i].has},
                   !.data = [s \in Sectors |-> IF s \in c[i].has THEN <<-i, -i>> ELSE Junk]]
  IN  [f \in Names |->
         IF \A i \in DOMAIN c : c[i].f # f THEN NoFile
         ELSE IF raw /\ at(f) = 1 THEN [type |-> "raw", data |-> [s \in Sectors |-> <<-1, -1>>]]
         ELSE vhd(at(f))]

Init ==
  /\ \E c \in Chains : /\ disk = Built(c.vhds, c.raw)
                       /\ want = [f \in Names |-> IF f = Last(c.vhds).f THEN View(disk, f) ELSE <<>>]
  /\ tool = Idle /\ user = Closed
  /\ merged = {} /\ jobs = 0 /\ writes = 0

Next ==
  \/ \E f, g \in Names : snapshot(f, g) \/ coalesce_ancestor(f, g) \/ coalesce_out(f, g)
  \/ \E f \in Names : coalesce_parent(f) \/ fill(f) \/ change_parent(f) \/ change_parent_again(f)
                      \/ delete(f) \/ open(f)
  \/ coalesce_onto \/ clear_bitmaps \/ coalesce_block_out \/ fill_block \/ finish
  \/ \E s \in Targets, H \in {{1}, {1, 2}} : write_bytes(s, H)
  \/ wrote \/ close \/ tool_writes \/ user_writes \/ tool_ends \/ user_killed

Spec == Init /\ [][Next]_vars
----------------------------------------------------------------------------
\* A child of f was to get a raw parent and has only its locators yet.
Reparenting(f) ==
  \E g \in ToSet(Chain(disk, f)) : disk[g].prt # Nobody /\ disk[g].raw # (disk[disk[g].prt].type = "raw")

(* What a leaf holds is what was written to it: neither snapshots nor coalesces
   of the vhds below it, nor tools and users that are killed in between, change
   a byte of it, read afresh or through BATs cached before the coalesce. *)
LeafReads ==
  \A f \in {g \in Leaves : want[g] # <<>>}, s \in Sectors :
    LET new == IF user.f = f /\ user.pend # <<>> /\ user.pend[1] = s
               THEN {Merge(want[f][s], user.pend[2], user.pend[3])} ELSE {}
    IN  /\ io_read(disk, f, s) \in {want[f][s]} \cup new \/ Reparenting(f)
        /\ user.f = f => read_bytes(disk, user.bats, f, s) \in {want[f][s]} \cup new

(* When coalesce has succeeded, the vhd it was run on can go: its parent holds
   the same, also with an ancestor named, and through the vhds in between. *)
Coalesced ==
  \A f \in merged : \A s \in Sectors :
    LET p == disk[f].prt
    IN  (IF disk[p].type = "raw" THEN disk[p].data[s] ELSE io_read(disk, p, s)) = io_read(disk, f, s)

(* A block that the batmap calls full has a full bitmap: writes to it leave the
   bitmap alone, and would be lost. *)
BatmapHonest ==
  \A f \in Names : Opens(disk, f) =>
    \A b \in disk[f].map : Secs(b) \subseteq disk[f].bits
                           \/ \E i \in DOMAIN tool.todo : tool.todo[i].op = "unmap" /\ tool.todo[i].f = f
====
