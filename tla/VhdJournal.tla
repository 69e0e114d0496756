---- MODULE VhdJournal ----
(***************************************************************************)
(* The undo journal of libvhd-journal.c with the two tools that use it:    *)
(* vhd-util resize (vhd-util-resize.c) and vhd-util revert.                *)
(*                                                                         *)
(* A vhd file is a sequence of cells.  Cell 0 holds the copy               *)
(* of the footer, cell 1 the header, the BAT follows from cell Table on,   *)
(* PerBat entries to a cell, then the header of the batmap and its map,    *)
(* PerMap entries to a cell, then the parent locators, then two cells      *)
(* (bitmap and data) for every allocated block, a gap that aligns the data *)
(* between two blocks, and the footer comes last.                          *)
(*                                                                         *)
(* The tools are sequential programs.  Each function of theirs that writes *)
(* is one action that reads what the function reads and appends the writes *)
(* it issues, in the order of the code, to todo; write_done and            *)
(* write_failed then perform them one by one, so that the tool can be      *)
(* killed, or the host can lose power, between any two writes.  The vhd is *)
(* opened with O_DIRECT, the journal is not: a power failure takes back    *)
(* what was written to the journal since it was last synced.               *)
(***************************************************************************)
EXTENDS Integers, FiniteSets, Sequences, SequencesExt

CONSTANTS
  Layouts,    \* the vhds to start from: [size, max, map, loc, alloc, full], see Created
  Targets,    \* the sizes, in blocks, resize may be asked for
  PerBat,     \* BAT entries in a sector
  PerByte,    \* batmap entries in a byte
  MapBytes,   \* bytes of the batmap in a sector
  Faults,     \* which writes may fail: a subset of {"vhd", "map", "trunc", "jnl"}
  MaxRuns     \* how often a tool is started

VARIABLES
  vhd,        \* the vhd file
  jnl,        \* the journal file
  jsync,      \* the journal as it is on stable storage
  ctx,        \* the tool's vhd_context_t: footer, header, bat and batmap
  jh,         \* the tool's j->header
  todo,       \* the writes of the current function that are still to come
  pc,         \* the function of the tool that runs next
  size,       \* the size resize was asked for
  old,        \* history: what the vhd held when resize began
  disk,       \* history: what a user of the vhd finds, see View
  runs,       \* how often a tool was started
  unmapped    \* the tools were not told that a write of the batmap failed

vars == <<vhd, jnl, jsync, ctx, jh, todo, pc, size, old, disk, runs, unmapped>>

Table == 2
Unused == -1
Zero == [k |-> "zero"]
NoFile == [k |-> "none"]
NoMap == [k |-> "nomap"]

Maximum(S) == CHOOSE m \in S : \A n \in S : n <= m
Ceil(n, d) == (n + d - 1) \div d
NotZero(n) == IF n = 0 THEN 1 ELSE n

----------------------------------------------------------------------------
\* The file, a sequence whose element p + 1 is cell p: cells are written in runs,
\* and a write beyond the end extends it.
Zeros(n) == [i \in 1 .. n |-> Zero]
At(f, p) == IF p < Len(f) THEN f[p + 1] ELSE Zero
Truncate(f, n) == IF n <= Len(f) THEN SubSeq(f, 1, n) ELSE f \o Zeros(n - Len(f))
Put(f, p, cs) == Truncate(f, p) \o cs \o SubSeq(f, p + Len(cs) + 1, Len(f))

\* The creator and its version, in the footer, say whether there is a batmap.
Footer(n, map, poison) == [k |-> "footer", size |-> n, map |-> map, poison |-> poison]
Header(max, loc) == [k |-> "header", max |-> max, loc |-> loc]
MapCell(S) == IF S = {} THEN Zero ELSE [k |-> "map", set |-> S]

\* How many sectors the BAT and the map of n blocks take.  Of the map only the
\* bytes that are full are read, written and in its checksum.
PerMap == PerByte * MapBytes
BatSecs(n) == NotZero(Ceil(n, PerBat))
MapSecs(n) == NotZero(Ceil(Ceil(n, PerByte), MapBytes))
FullMapSecs(n) == NotZero(Ceil(n \div PerByte, MapBytes))
BatCells(b) == [i \in 1 .. BatSecs(Cardinality(DOMAIN b)) |->
                  [k |-> "bat", e |-> [j \in {n \in DOMAIN b : n \div PerBat = i - 1} |-> b[j]]]]
MapCells(S, n) == [i \in 1 .. n |-> MapCell({b \in S : b \div PerMap = i - 1})]

batmap_header_offset(h) == Table + BatSecs(h.max)

\* The checksum of a map tells apart maps that differ in a sector that is not
\* zero; sectors of zeros do not change it.
Checksum(cs) == {<<i, cs[i]>> : i \in {j \in DOMAIN cs : cs[j] # Zero}}

read_footer(f) ==
  IF At(f, Len(f) - 1).k = "footer" THEN At(f, Len(f) - 1) ELSE At(f, 0)

\* The BAT entries in use for the current size; what is not a BAT is read as one.
read_bat(f, n) ==
  [b \in 0 .. n - 1 |->
     LET c == At(f, Table + b \div PerBat)
     IN  IF c.k = "bat" /\ b \in DOMAIN c.e THEN c.e[b] ELSE Unused]

read_batmap(f, h, n) ==
  LET c == At(f, batmap_header_offset(h))
      cs == [i \in 1 .. FullMapSecs(n) |-> At(f, c.off + i - 1)]
  IN  IF c.k = "maph" /\ c.sum = Checksum(cs)
      THEN [k |-> "batmap", off |-> c.off, secs |-> c.secs,
            set |-> UNION {cs[i].set : i \in {j \in DOMAIN cs : cs[j].k = "map"}}]
      ELSE NoMap

\* vhd_open: a vhd whose footer is gone or poisoned, or that has no header, is
\* refused.  vhd_get_bat and vhd_get_batmap follow wherever the tools open one.
vhd_opens(f) ==
  LET ft == read_footer(f) IN ft.k = "footer" /\ ~ft.poison /\ At(f, 1).k = "header"

vhd_open(f) ==
  LET ft == read_footer(f)
      h == At(f, 1)
  IN  [footer |-> ft, header |-> h, bat |-> read_bat(f, ft.size),
       map |-> IF ft.map THEN read_batmap(f, h, ft.size) ELSE NoMap]

\* What a user of the vhd finds: its size, the bitmap and the data of every
\* block, its parent locator, and a batmap that calls full only what is and, where
\* there is to be one, can be read, unless it was lost and no tool was told.
Content(f, lost) ==
  LET c == vhd_open(f)
  IN  [size |-> c.footer.size,
       loc |-> At(f, c.header.loc).k,
       map |-> /\ c.footer.map => c.map # NoMap \/ lost
               /\ c.map # NoMap => \A b \in c.map.set : b \in DOMAIN c.bat /\ c.bat[b] # Unused
                                                      /\ At(f, c.bat[b]) = [k |-> "bm", of |-> b, full |-> TRUE],
       blocks |-> [b \in DOMAIN c.bat |->
                     IF c.bat[b] = Unused THEN <<>>
                     ELSE <<At(f, c.bat[b]), At(f, c.bat[b] + 1)>>]]

\* The content a resize of c to n blocks is to produce.
Grown(c, n) ==
  [c EXCEPT !.size = n,
            !.blocks = [b \in 0 .. n - 1 |-> IF b \in DOMAIN c.blocks THEN c.blocks[b] ELSE <<>>]]

end_of_headers(c) ==
  Maximum({Table + BatSecs(c.header.max)}
          \cup (IF c.map = NoMap THEN {}
                ELSE {batmap_header_offset(c.header) + 1, c.map.off + c.map.secs})
          \cup (IF c.header.loc = 0 THEN {} ELSE {c.header.loc + 1}))

end_of_data(c) ==
  Maximum({end_of_headers(c)} \cup {c.bat[b] + 2 : b \in {n \in DOMAIN c.bat : c.bat[n] # Unused}})

\* A vhd as vhd_create and vhd_io_write leave it: l.alloc lists its blocks in
\* the order they were allocated in, l.full the ones whose bitmap is full.
Created(l) ==
  LET h0 == Table + BatSecs(l.max)
      m0 == h0 + 1 + MapSecs(l.max)
      mapped == IF l.map THEN m0 ELSE h0
      d0 == IF l.loc THEN mapped + 1 ELSE mapped
      b0 == [b \in 0 .. l.max - 1 |->
               IF \E i \in DOMAIN l.alloc : l.alloc[i] = b
               THEN d0 + 3 * ((CHOOSE i \in DOMAIN l.alloc : l.alloc[i] = b) - 1)
               ELSE Unused]
      map == MapCells(l.full, MapSecs(l.max))
      ft == Footer(l.size, l.map, FALSE)
      cells == <<ft, Header(l.max, IF l.loc THEN mapped ELSE 0)>> \o BatCells(b0)
               \o (IF l.map THEN <<[k |-> "maph", off |-> h0 + 1, secs |-> MapSecs(l.max),
                                   sum |-> Checksum(SubSeq(map, 1, FullMapSecs(l.size)))]>> \o map
                   ELSE <<>>)
               \o (IF l.loc THEN <<[k |-> "loc"]>> ELSE <<>>)
               \o FlattenSeq([i \in DOMAIN l.alloc |->
                               (IF i = 1 THEN <<>> ELSE <<Zero>>)
                               \o <<[k |-> "bm", of |-> l.alloc[i], full |-> l.alloc[i] \in l.full], [k |-> "data", of |-> l.alloc[i]]>>])
               \o <<ft>>
  IN  cells

----------------------------------------------------------------------------
\* The writes of the tools.  to says which file and what is written.
W(p, cs) == <<[to |-> "vhd", at |-> p, cells |-> cs]>>
M(p, cs) == <<[to |-> "map", at |-> p, cells |-> cs]>>
Tr(n) == <<[to |-> "trunc", n |-> n]>>
E(type, p, cs) == <<[to |-> "jnl", entry |-> [type |-> type, at |-> p, cells |-> cs]]>>
H(h) == <<[to |-> "jhdr", hdr |-> h]>>
Create == <<[to |-> "create"]>>
Sync == <<[to |-> "sync"]>>
Cut == <<[to |-> "cut"]>>
Unlink == <<[to |-> "unlink"]>>

write_footer(c, poison) ==
  LET ft == Footer(c.footer.size, c.footer.map, poison)
  IN  W(end_of_data(c), <<ft>>) \o Tr(end_of_data(c) + 1) \o W(0, <<ft>>)

write_header(c) == W(1, <<c.header>>)
write_bat(c) == W(Table, BatCells(c.bat))

\* The map is as long as the size in the context's footer makes it, whatever
\* batmap_size says.
write_batmap(c, b) ==
  LET cs == MapCells(b.set, FullMapSecs(c.footer.size))
  IN  M(b.off, cs) \o M(batmap_header_offset(c.header),
                       <<[k |-> "maph", off |-> b.off, secs |-> b.secs, sum |-> Checksum(cs)]>>)

----------------------------------------------------------------------------
\* The journal.  Entries are numbered; data_off is the number of entries before
\* the first data entry, 0 until all metadata is in.
jheader(foff) == [footer_off |-> foff, data_off |-> 0, data_n |-> 0]

add_footer(f) == E("footer_p", Len(f) - 1, <<At(f, Len(f) - 1)>>) \o E("footer_c", 0, <<At(f, 0)>>)

add_locators(f, c) == IF c.header.loc = 0 THEN <<>> ELSE E("loc", c.header.loc, <<At(f, c.header.loc)>>)

add_bat(f, c) == E("bat", Table, BatCells(read_bat(f, c.footer.size)))

add_batmap(f, c) ==
  LET h == batmap_header_offset(c.header)
  IN  E("batmap_h", h, <<At(f, h)>>)
      \o E("batmap_m", c.map.off, [i \in 1 .. c.map.secs |-> At(f, c.map.off + i - 1)])

add_metadata(f, c) ==
  add_footer(f) \o E("header", 1, <<At(f, 1)>>) \o add_locators(f, c) \o add_bat(f, c)
  \o (IF c.footer.map THEN add_batmap(f, c) ELSE <<>>)

\* vhd_journal_restore_metadata reads the entries one after the other and wants
\* exactly these, the BAT as long as the header says, and then the data.
Types(hd, map) == <<"footer_p", "footer_c", "header">>
                  \o (IF hd.loc = 0 THEN <<>> ELSE <<"loc">>) \o <<"bat">>
                  \o (IF map THEN <<"batmap_h", "batmap_m">> ELSE <<>>)

bat_readable(e, hd) == e.type = "bat" => Len(e.cells) = BatSecs(hd.max)

restorable(j, h) ==
  /\ j.k = "file"
  /\ Len(j.entries) >= 3
  /\ LET hd == j.entries[3].cells[1]
         want == Types(hd, j.entries[1].cells[1].map)
     IN  /\ Len(j.entries) >= Len(want)
         /\ \A i \in DOMAIN want : j.entries[i].type = want[i] /\ bat_readable(j.entries[i], hd)
         /\ h.data_off = Len(want)

\* The metadata goes back footer first, and the map before its header.
restore(e) == IF e.type \in {"batmap_h", "batmap_m"} THEN M(e.at, e.cells) ELSE W(e.at, e.cells)

restore_metadata(j, h) ==
  LET m == SubSeq(j.entries, 1, h.data_off)
      n == Len(m)
      s == IF m[n].type = "batmap_m" THEN SubSeq(m, 1, n - 2) \o <<m[n], m[n - 1]>> ELSE m
  IN  FlattenSeq([i \in DOMAIN s |-> restore(s[i])]) \o Tr(h.footer_off + 1)

\* Mutant: the data entries of the journal are not put back.
replay_metadata_only(j, h) == Tr(h.footer_off + 1)

replay(j, h) ==
  FlattenSeq([i \in 1 .. h.data_n |-> W(j.entries[h.data_off + i].at, j.entries[h.data_off + i].cells)])
  \o Tr(h.footer_off + 1)

----------------------------------------------------------------------------
\* vhd-util resize: the vhd must open, and a journal must not be there yet.
\* vhd_journal_create saves all metadata, poisons the vhd and syncs the journal.
create_writes ==
  LET c == vhd_open(vhd)
      h == jheader(Len(vhd) - 1)
      meta == add_metadata(vhd, c)
  IN  Create \o H(h) \o meta \o H([h EXCEPT !.data_off = Len(meta)])
      \o write_footer(c, TRUE) \o Sync

\* vhd_get_batmap must find the batmap, and vhd_journal_add_footer both footers.
readable(c) ==
  /\ c.footer.map => c.map # NoMap
  /\ At(vhd, Len(vhd) - 1).k = "footer" /\ At(vhd, 0).k = "footer"

resize(n) ==
  /\ pc = "idle" /\ runs < MaxRuns
  /\ vhd_opens(vhd) /\ jnl = NoFile
  /\ LET c == vhd_open(vhd)
     IN  IF readable(c)
         THEN /\ ctx' = [c EXCEPT !.footer.poison = TRUE]
              /\ jh' = [jheader(Len(vhd) - 1) EXCEPT !.data_off = Len(add_metadata(vhd, c))]
              /\ todo' = create_writes /\ pc' = "resize"
         ELSE /\ ctx' = c /\ jh' = jheader(Len(vhd) - 1)
              /\ todo' = Create \o H(jh') /\ pc' = "remove"
  /\ size' = n /\ runs' = runs + 1
  /\ old' = Content(vhd, unmapped)
  /\ UNCHANGED <<vhd, jnl, jsync>>

\* vhd_dynamic_grow: what the BAT and the batmap need beyond what they have.
bat_needed(c, blocks) ==
  LET avail == BatSecs(c.header.max) * PerBat - c.header.max
  IN  IF blocks > avail THEN Ceil(blocks - avail, PerBat) ELSE 0

map_needed(c, blocks) ==
  LET avail == c.map.secs * MapBytes - Ceil(c.header.max, PerByte)
      needed == blocks \div PerByte + 1
  IN  IF c.map # NoMap /\ needed > avail THEN Ceil(needed - avail, MapBytes) ELSE 0

blocks_to_add == size - ctx.footer.size
size_needed == bat_needed(ctx, blocks_to_add) + map_needed(ctx, blocks_to_add)

Allocated(c) == {b \in DOMAIN c.bat : c.bat[b] # Unused}
first_data_block(c) == CHOOSE b \in Allocated(c) : \A a \in Allocated(c) : c.bat[b] <= c.bat[a]
next_block_offset(c) == Maximum({c.bat[b] + 2 : b \in Allocated(c)})

dynamic_resize ==
  /\ pc = "resize" /\ todo = <<>>
  /\ pc' = CASE size = ctx.footer.size -> "commit"
             [] size < ctx.footer.size -> "revert"
             [] size_needed = 0 -> "add_entries"
             [] Allocated(ctx) = {} -> "shift"
             [] OTHER -> "move"
  /\ UNCHANGED <<vhd, jnl, jsync, ctx, jh, todo, size, old, runs>>

\* vhd_move_block: the gap is zeroed, the block goes into the journal, then to the end of the file,
\* and its place is zeroed.  The BAT is only changed in memory.
move_block ==
  LET b == first_data_block(ctx)
      p == ctx.bat[b]
      q == next_block_offset(ctx) + 1
      moved == [ctx EXCEPT !.bat[b] = q]
      h1 == [jh EXCEPT !.data_n = @ + 1]
      h2 == [jh EXCEPT !.data_n = @ + 2]
  IN  /\ pc = "move" /\ todo = <<>>
      /\ todo' = W(q - 1, <<Zero>>)
                 \o E("data", p, <<At(vhd, p)>>) \o H(h1) \o E("data", p + 1, <<At(vhd, p + 1)>>) \o H(h2)
                 \o Sync
                 \o W(q, <<At(vhd, p)>>) \o W(q + 1, <<At(vhd, p + 1)>>) \o W(p, <<Zero, Zero>>)
      /\ jh' = h2
      /\ ctx' = moved
      /\ pc' = IF end_of_headers(ctx) + size_needed >= moved.bat[first_data_block(moved)]
               THEN "move" ELSE "shift"
      /\ UNCHANGED <<vhd, jnl, jsync, size, old, runs>>

\* vhd_check_for_clobber with locators, the header and the backup footer: is off
\* strictly inside one of the regions that are not skipped?
in_range(off, start, n) == start < off /\ start + n > off
clobbers(c, off, skip) ==
  \/ off < 1 \/ in_range(off, 1, 1)
  \/ "bat" \notin skip /\ in_range(off, Table, BatSecs(c.header.max))
  \/ "map" \notin skip /\ c.map # NoMap /\ in_range(off, c.map.off, c.map.secs)
  \/ "loc" \notin skip /\ c.header.loc # 0 /\ in_range(off, c.header.loc, 1)
  \/ Allocated(c) # {} /\ in_range(off, c.bat[first_data_block(c)], 2)

\* vhd_shift_metadata moves the locators; the batmap follows the BAT.
shift_metadata ==
  LET eob == Table + BatSecs(ctx.header.max)
      off == ctx.header.loc + size_needed
      shifts == ctx.header.loc >= eob
  IN  /\ pc = "shift" /\ todo = <<>>
      /\ IF shifts /\ clobbers(ctx, off + 1, {"loc"})
         THEN pc' = "revert" /\ UNCHANGED <<todo, ctx>>
         ELSE /\ pc' = "add_entries"
              /\ todo' = IF shifts THEN W(off, <<At(vhd, ctx.header.loc)>>) ELSE <<>>
              /\ ctx' = [ctx EXCEPT !.header.loc = IF shifts THEN off ELSE @,
                                    !.map = IF @ # NoMap /\ @.off > eob
                                            THEN [@ EXCEPT !.off = @ + bat_needed(ctx, blocks_to_add)]
                                            ELSE @]
      /\ UNCHANGED <<vhd, jnl, jsync, jh, size, old, runs>>

\* vhd_add_bat_entries: header, BAT, batmap and, only if there is a batmap, the
\* footer with the new size.
add_bat_entries ==
  LET max == ctx.header.max + blocks_to_add
      c == [ctx EXCEPT !.header.max = max,
                       !.bat = [b \in 0 .. max - 1 |-> IF b \in DOMAIN ctx.bat THEN ctx.bat[b] ELSE Unused]]
      d == [c EXCEPT !.map = [@ EXCEPT !.secs = MapSecs(max)], !.footer.size = max]
      bad == \/ clobbers(ctx, Table + BatSecs(max), {"bat", "map"})
             \/ ctx.map # NoMap /\ clobbers(ctx, ctx.map.off + MapSecs(max), {})
  IN  /\ pc = "add_entries" /\ todo = <<>>
      /\ IF bad THEN pc' = "revert" /\ UNCHANGED <<todo, ctx>>
         ELSE /\ pc' = "commit"
              /\ IF ctx.map = NoMap
                 THEN todo' = write_header(c) \o write_bat(c) /\ ctx' = c
                 ELSE /\ todo' = write_header(c) \o write_bat(c)
                                 \o write_batmap(c, [ctx.map EXCEPT !.secs = MapSecs(max)])
                                 \o write_footer(d, TRUE)
                      /\ ctx' = d
      /\ UNCHANGED <<vhd, jnl, jsync, jh, size, old, runs>>

\* vhd_journal_commit empties the journal and is not synced.
commit ==
  /\ pc = "commit" /\ todo = <<>>
  /\ jh' = [jh EXCEPT !.data_off = 0, !.data_n = 0]
  /\ todo' = H(jh') \o Cut
  /\ pc' = "remove"
  /\ UNCHANGED <<vhd, jnl, jsync, ctx, size, old, runs>>

\* vhd_journal_remove enables the vhd again, if it is disabled, and unlinks the journal.
remove ==
  /\ pc = "remove" /\ todo = <<>>
  /\ todo' = (IF ctx.footer.poison THEN write_footer(ctx, FALSE) ELSE <<>>) \o Unlink
  /\ pc' = "end"
  /\ UNCHANGED <<vhd, jnl, jsync, ctx, jh, size, old, runs>>

\* vhd_journal_revert, called by resize when it failed and by vhd-util revert.
revert ==
  /\ pc = "revert" /\ todo = <<>>
  /\ IF restorable(jnl, jh)
     THEN todo' = restore_metadata(jnl, jh) /\ pc' = "replay"
     ELSE pc' = "idle" /\ UNCHANGED todo
  /\ UNCHANGED <<vhd, jnl, jsync, ctx, jh, size, old, runs>>

revert_data ==
  /\ pc = "replay" /\ todo = <<>>
  /\ IF vhd_opens(vhd)
     THEN /\ ctx' = vhd_open(vhd)
          /\ todo' = replay(jnl, jh) \o Sync
          /\ pc' = "remove"
     ELSE pc' = "idle" /\ UNCHANGED <<ctx, todo>>
  /\ UNCHANGED <<vhd, jnl, jsync, jh, size, old, runs>>

\* vhd-util revert: vhd_journal_open puts the metadata back to be able to open
\* the vhd and disables it again before the journal is reverted.
journal_open ==
  /\ pc = "idle" /\ runs < MaxRuns
  /\ jnl # NoFile /\ restorable(jnl, jnl.hdr)
  /\ jh' = jnl.hdr
  /\ todo' = restore_metadata(jnl, jnl.hdr)
  /\ pc' = "disable" /\ runs' = runs + 1
  /\ UNCHANGED <<vhd, jnl, jsync, ctx, size, old>>

disable_vhd ==
  /\ pc = "disable" /\ todo = <<>>
  /\ IF vhd_opens(vhd) /\ (vhd_open(vhd).footer.map => vhd_open(vhd).map # NoMap)
     THEN /\ ctx' = [vhd_open(vhd) EXCEPT !.footer.poison = TRUE]
          /\ todo' = write_footer(ctx', TRUE)
          /\ pc' = "revert"
     ELSE pc' = "idle" /\ UNCHANGED <<ctx, todo>>
  /\ UNCHANGED <<vhd, jnl, jsync, jh, size, old, runs>>

----------------------------------------------------------------------------
\* The files after a write.
vhd_after(f, w) ==
  CASE w.to \in {"vhd", "map"} -> Put(f, w.at, w.cells)
    [] w.to = "trunc" -> Truncate(f, w.n)
    [] OTHER -> f

jnl_after(j, w) ==
  CASE w.to = "create" -> [k |-> "file", hdr |-> jheader(0), entries |-> <<>>]
    [] w.to = "jhdr" -> [j EXCEPT !.hdr = w.hdr]
    [] w.to = "jnl" -> [j EXCEPT !.entries = Append(@, w.entry)]
    [] w.to = "cut" -> [j EXCEPT !.entries = <<>>]
    [] w.to = "unlink" -> NoFile
    [] OTHER -> j

write_done ==
  /\ todo # <<>>
  /\ vhd' = vhd_after(vhd, Head(todo))
  /\ jnl' = jnl_after(jnl, Head(todo))
  /\ jsync' = IF Head(todo).to \in {"sync", "unlink"} THEN jnl' ELSE jsync
  /\ todo' = Tail(todo)
  /\ UNCHANGED <<ctx, jh, pc, size, old, runs>>

\* A write fails.  vhd_journal_create removes the journal, and enables the vhd if
\* it was about to disable it; a resize that fails is reverted; everything else
\* closes the files.  vhd_journal_update leaves the journal as it was before.
\* Mutant: the status of vhd_add_bat_entries is dropped.
error_path_dropped ==
  CASE pc = "resize" -> "remove"
    [] pc \in {"move", "shift", "add_entries"} -> "revert"
    [] OTHER -> IF pc = "commit" THEN "commit" ELSE "idle"

error_path ==
  CASE pc = "resize" -> "remove"
    [] pc \in {"move", "shift", "add_entries", "commit"} -> "revert"
    [] OTHER -> "idle"

write_failed ==
  /\ todo # <<>> /\ Head(todo).to \in {"vhd", "trunc", "jnl", "jhdr", "sync"}
  /\ (IF Head(todo).to \in {"jhdr", "sync"} THEN "jnl" ELSE Head(todo).to) \in Faults
  /\ pc' = error_path
  /\ todo' = <<>>
  /\ jh' = jnl.hdr
  /\ jnl' = IF Head(todo).to = "jhdr" /\ pc \in {"move", "shift"}
            THEN [jnl EXCEPT !.entries = SubSeq(@, 1, jnl.hdr.data_off + jnl.hdr.data_n)] ELSE jnl
  /\ ctx' = IF pc = "resize" /\ \E i \in DOMAIN todo : todo[i].to \in {"jnl", "jhdr"}
            THEN [ctx EXCEPT !.footer.poison = FALSE] ELSE ctx
  /\ UNCHANGED <<vhd, jsync, size, old, runs>>

\* vhd_write_batmap gives up at the first error and returns 0.
batmap_write_failed ==
  /\ todo # <<>> /\ Head(todo).to = "map" /\ "map" \in Faults
  /\ todo' = SelectSeq(todo, LAMBDA w : w.to # "map")
  /\ UNCHANGED <<vhd, jnl, jsync, ctx, jh, pc, size, old, runs>>

ends ==
  /\ pc = "end" /\ todo = <<>>
  /\ pc' = "idle"
  /\ UNCHANGED <<vhd, jnl, jsync, ctx, jh, todo, size, old, runs>>

killed ==
  /\ pc # "idle"
  /\ pc' = "idle" /\ todo' = <<>>
  /\ UNCHANGED <<vhd, jnl, jsync, ctx, jh, size, old, runs>>

power_fails ==
  /\ pc # "idle" /\ jnl # jsync
  /\ jnl' = jsync
  /\ pc' = "idle" /\ todo' = <<>>
  /\ UNCHANGED <<vhd, jsync, ctx, jh, size, old, runs>>

----------------------------------------------------------------------------
Whole(f, o, n) == Content(f, unmapped) \in {o, Grown(o, n)}

\* The vhd f with what the journal j holds put back.
Undone(f, j) ==
  LET ws == SelectSeq(restore_metadata(j, j.hdr) \o replay(j, j.hdr),
                      LAMBDA w : w.to \in {"vhd", "map"})
      over(p) == {n \in DOMAIN ws : ws[n].at <= p /\ p < ws[n].at + Len(ws[n].cells)}
      cell(p) == IF over(p) = {} THEN At(f, p)
                 ELSE LET n == Maximum(over(p)) IN ws[n].cells[p - ws[n].at + 1]
      n == j.hdr.footer_off + 1
  IN  SubSeq([i \in 1 .. n |-> cell(i - 1)], 1, n)

Undoable(f, j, o, lost) ==
  /\ j # NoFile /\ restorable(j, j.hdr)
  /\ LET u == Undone(f, j) IN vhd_opens(u) /\ Content(u, lost) = o

\* What a user of the vhd finds: nothing as long as it is disabled, or its journal
\* is still to put it back.
Undo == [k |-> "undo"]
View(f, j, o, lost) == IF vhd_opens(f) /\ ~Undoable(f, j, o, lost) THEN Content(f, lost) ELSE Undo

Init ==
  /\ vhd \in {Created(l) : l \in Layouts}
  /\ jnl = NoFile /\ jsync = NoFile
  /\ ctx = vhd_open(vhd) /\ jh = jheader(0)
  /\ todo = <<>> /\ pc = "idle" /\ size = ctx.footer.size
  /\ old = Content(vhd, FALSE) /\ disk = old /\ runs = 0 /\ unmapped = FALSE

Step ==
  \/ \E n \in Targets : resize(n)
  \/ dynamic_resize \/ move_block \/ shift_metadata \/ add_bat_entries
  \/ commit \/ remove \/ revert \/ revert_data \/ journal_open \/ disable_vhd
  \/ write_done \/ write_failed \/ ends \/ killed \/ power_fails

Next ==
  /\ \/ Step /\ UNCHANGED unmapped
     \/ batmap_write_failed /\ unmapped' = TRUE
  /\ disk' = View(vhd', jnl', old', unmapped')

Spec == Init /\ [][Next]_vars

----------------------------------------------------------------------------
Contents == {Content(Created(l), FALSE) : l \in Layouts}
Resized(c, d) == d = Grown(c, d.size)
Atomic == INSTANCE AtomicResize WITH saved <- old

(* Resize is atomic: a vhd that opens holds what it held before or the whole
   resize, or the journal can still put it back, whichever writes fail and
   wherever the tools are killed or lose power, in a revert too. *)
ResizeIsAtomic == Atomic!Spec

\* The header of the vhd promises a longer BAT than vhd_journal_add_bat saved:
\* vhd_journal_read_bat then refuses the whole journal.
ShortBat ==
  jnl # NoFile /\ \E i \in DOMAIN jnl.entries :
    jnl.entries[i].type = "bat" /\ Len(jnl.entries[i].cells) < BatSecs(jnl.entries[3].cells[1].max)

(* A vhd that is left disabled is not lost: its journal undoes the resize, or it
   holds all of the resize or nothing of it, also when a power failure took the
   journal back.  Excluded is a vhd with BAT entries to spare. *)
Recoverable ==
  LET enabled == [p \in DOMAIN vhd |-> IF vhd[p].k = "footer" THEN [vhd[p] EXCEPT !.poison = FALSE]
                                       ELSE vhd[p]]
  IN  \/ ShortBat \/ vhd_opens(vhd) \/ Undoable(vhd, jnl, old, unmapped)
      \/ vhd_opens(enabled) /\ Whole(enabled, old, size)
====
