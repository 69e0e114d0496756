------------------------------- MODULE VhdIo -------------------------------
(* The preloaded library vhd/lib/libvhdio.c: a program that opens a vhd     *)
(* finds a block device, or with a symbolic link .vhd1 .. .vhd4 a primary   *)
(* partition of it.  Descriptors that were duplicated share a context with  *)
(* the offset, contexts of the same inode number share a vhd object, which  *)
(* holds the file's metadata in memory; both are counted.                   *)
(*                                                                          *)
(* The library replaces open, dup, close, fopen and others, but not fclose, *)
(* whose descriptor is closed behind its back: the context stays in         *)
(* _vhd_map, under a number that the kernel gives out again, also to libvhd *)
(* when it opens a vhd, so that what it reads then is not the vhd.          *)
(*                                                                          *)
(* The program has one thread and the library no lock.  A sector's data is  *)
(* the path it was last written through, a first sector that was written    *)
(* is no partition table.  Offsets are in sectors.  Vhds have no parents    *)
(* and contain none.  Memory does not run out; the snapshots of             *)
(* LIBVHD_IO_TEST are left out.                                             *)
EXTENDS Naturals, FiniteSets

CONSTANTS
    Fds,         \* descriptors a program and the library may have
    Ctxs,        \* vhd_fd_contexts, bound
    File,        \* paths and the files they lead to, 0 for none
    Guess,       \* paths and what lstat, size and suffix say: 0 or an errno
    Partition,   \* paths and the partition their suffix names, 0 for none
    Ino,         \* files and their inode numbers; two devices may use the same
    Access,      \* files and what access(path, W_OK) says: 0 or an errno
    Vhds,        \* the files that are vhds
    Size,        \* sectors of a disk
    Start,       \* vhd, partition -> its first sector, 0 for none
    Blocks,      \* vhd, partition -> its sectors
    Flags,       \* the access modes a program asks open for
    Modes,       \* paths and the modes it asks fopen for
    MaxOff,      \* bound: reads and writes past the end add to the offset
    MaxStale     \* bound: streams closed, and descriptors of a context overwritten

Paths == DOMAIN File
Files == DOMAIN Ino

ASSUME VhdIoAssumption ==
    /\ Fds \in SUBSET Nat /\ IsFiniteSet(Fds)
    /\ Ctxs \in SUBSET (Nat \ {0}) /\ IsFiniteSet(Ctxs)
    /\ IsFiniteSet(Files) /\ 0 \notin Files /\ Vhds \subseteq Files
    /\ \A p \in Paths : File[p] \in Files \cup {0} /\ Partition[p] \in Nat
    /\ \A i \in Files : Ino[i] \in Nat
    /\ \A i \in Vhds, p \in Paths : Partition[p] # 0 =>
          Start[i][Partition[p]] \in Nat /\ Blocks[i][Partition[p]] \in Nat
    /\ Size \in Nat

VARIABLES
    kernel,   \* what the program's descriptors are: /dev/null, a file, closed
    map,      \* _vhd_map: per descriptor its context, 0 for none
    ctx,      \* vhd_fd_contexts; lost counts the descriptors overwritten
    obj,      \* _vhd_objects, with the view of the data they keep
    file      \* what the vhds hold

ioVars == <<kernel, map, ctx, obj, file>>

Inos  == {Ino[i] : i \in Files}
Objs  == 1 .. Cardinality(Inos) + 1
NoTag      == <<0, 0>>
Tag(path) == <<Ino[File[path]], Partition[path]>>
Untouched == [s \in 0 .. Size - 1 |-> NoTag]
NoCtx == [users |-> 0, obj |-> 0, path |-> "none", start |-> 0, size |-> 0,
          wronly |-> FALSE, off |-> 0, lost |-> 0]
NoObj == [refcnt |-> 0, file |-> 0, ino |-> 0, ro |-> FALSE,
          fd |-> 0, view |-> Untouched]
LiveObjs == {o \in Objs : obj[o].refcnt > 0}
LiveCtxs == {c \in Ctxs : ctx[c].users > 0}
Own      == {obj[o].fd : o \in LiveObjs}
Least(S) == CHOOSE x \in S : \A y \in S : x <= y

\* the numbers the kernel may give out while the objects are os
FreeIn(os) ==
    {f \in Fds : kernel[f] = "closed" /\ \A o \in Objs : os[o].refcnt > 0 => os[o].fd # f}

IoInit ==
    /\ kernel = [f \in Fds |-> "closed"]
    /\ map = [f \in Fds |-> 0]
    /\ ctx = [c \in Ctxs |-> NoCtx]
    /\ obj = [o \in Objs |-> NoObj]
    /\ file = [i \in Vhds |-> Untouched]

(****************************** objects and contexts ********************)
Got(o, os, err) == [obj |-> o, objs |-> os, err |-> err]
SameIno(path)   == {o \in LiveObjs : obj[o].ino = Ino[File[path]]}
NewObj(path)    == [refcnt |-> 1, file |-> File[path], ino |-> Ino[File[path]],
                    ro |-> Access[File[path]] # "0", fd |-> Least(FreeIn(obj)),
                    view |-> file[File[path]]]

\* An object is opened for writing whenever that is permitted.  Where the
\* file system is read-only access fails with EROFS, and so does any open.
denied(path, flags) ==
    IF SameIno(path) # {}
      THEN IF flags # "r" /\ obj[Least(SameIno(path))].ro THEN "EACCES" ELSE "0"
      ELSE IF Access[File[path]] = "EACCES" /\ flags = "r" THEN "0" ELSE Access[File[path]]

refusal(path, flags, io) ==
    IF File[path] = 0 THEN "ENOENT"
    ELSE IF denied(path, flags) # "0" THEN denied(path, flags)
    ELSE IF SameIno(path) # {} THEN "0"
    ELSE IF FreeIn(obj) = {} THEN "EMFILE"
    ELSE IF File[path] \notin Vhds THEN "EINVAL"
    ELSE IF io = "open" THEN "EIO" ELSE "0"

Shared(o, os)    == Got(o, [os EXCEPT ![o].refcnt = @ + 1], "0")
Added(path)      == LET new == Least(Objs \ LiveObjs)
                    IN  Got(new, [obj EXCEPT ![new] = NewObj(path)], "0")

\* mutant: objects are told apart by the name they were opened by
get_vhd_by_name(path, flags, io) ==
    LET found == {ctx[c].obj : c \in {d \in LiveCtxs : ctx[d].path = path}}
    IN  IF refusal(path, flags, io) # "0" THEN Got(0, obj, refusal(path, flags, io))
        ELSE IF found # {} THEN Shared(Least(found), obj)
        ELSE IF File[path] \in Vhds /\ FreeIn(obj) # {} THEN Added(path) ELSE Got(0, obj, "EMFILE")

\* An object whose inode has the same number is taken for the file's.
get_vhd(path, flags, io) ==
    LET err == refusal(path, flags, io)
    IN  IF err # "0" THEN Got(0, obj, err)
        ELSE IF SameIno(path) # {} THEN Shared(Least(SameIno(path)), obj)
        ELSE Added(path)

\* vhd_close closes the object's own descriptor, which has no context
put_vhd(os, o) ==
    IF os[o].refcnt = 1 THEN [os EXCEPT ![o] = NoObj] ELSE [os EXCEPT ![o].refcnt = @ - 1]

\* The context f had is overwritten, its count kept.
map_set(cs, f, c) ==
    /\ map[f] # 0 => \A d \in Ctxs : ctx[d].lost < MaxStale
    /\ map' = [map EXCEPT ![f] = c]
    /\ ctx' = [d \in Ctxs |-> [cs[d] EXCEPT !.users = @ + (IF d = c THEN 1 ELSE 0),
                                            !.lost = @ + (IF d = map[f] THEN 1 ELSE 0)]]

map_clear(f) ==
    LET c == map[f]
    IN  /\ map' = [map EXCEPT ![f] = 0]
        /\ CASE c = 0 -> UNCHANGED <<ctx, obj>>
             [] c # 0 /\ ctx[c].users > 1 ->
                    ctx' = [ctx EXCEPT ![c].users = @ - 1] /\ UNCHANGED obj
             [] OTHER -> ctx' = [ctx EXCEPT ![c] = NoCtx] /\ obj' = put_vhd(obj, ctx[c].obj)

\* The table is the object's, whichever file the path leads to.
init_partition(g, path, io) ==
    LET k == Partition[path]
        o == g.objs[g.obj]
    IN  IF k = 0 THEN "0"
        ELSE IF io = "table" THEN "EPERM"
        ELSE IF o.view[0] # NoTag THEN "EINVAL"
        ELSE IF Start[o.file][k] = 0 \/ Blocks[o.file][k] = 0 THEN "ENOENT" ELSE "0"

\* _libvhd_io_vhd_open: on an error no object is held
vhd_open(path, flags, io) ==
    IF Guess[path] # "0" THEN Got(0, obj, Guess[path])
    ELSE LET g == get_vhd(path, flags, io)
         IN  IF g.err = "0" /\ init_partition(g, path, io) # "0"
               THEN Got(0, put_vhd(g.objs, g.obj), init_partition(g, path, io))
               ELSE g

\* libvhd would get the number of a stream that was closed
Astray(path, flags) ==
    /\ Guess[path] = "0" /\ File[path] # 0
    /\ SameIno(path) = {} /\ denied(path, flags) = "0"
    /\ FreeIn(obj) # {} /\ map[Least(FreeIn(obj))] # 0

(****************************** descriptors *****************************)
\* The kernel gives the program the lowest number there is; it may refuse.
gets(os, what) ==
    FreeIn(os) # {} /\ kernel' = [kernel EXCEPT ![Least(FreeIn(os))] = what]
std_open(os) == IF FreeIn(os) = {} THEN UNCHANGED kernel ELSE gets(os, "file")

\* What is no vhd is opened itself; flags a device cannot have (odd) and a
\* table of descriptors that is full give the object back.
io_open(path, flags, odd, io) ==
    LET g    == vhd_open(path, flags, io)
        free == FreeIn(g.objs)
    IN  CASE g.err \in {"EINVAL", "ENOENT"} ->
                 obj' = g.objs /\ std_open(g.objs) /\ UNCHANGED <<map, ctx>>
          [] g.err \notin {"0", "EINVAL", "ENOENT"} ->
                 obj' = g.objs /\ UNCHANGED <<kernel, map, ctx>>
          [] g.err = "0" /\ (odd \/ free = {}) ->
                 obj' = put_vhd(g.objs, g.obj) /\ UNCHANGED <<kernel, map, ctx>>
          [] OTHER ->
                 /\ LiveCtxs # Ctxs
                 /\ LET c == Least(Ctxs \ LiveCtxs)
                        k == Partition[path]
                        i == g.objs[g.obj].file
                    IN  map_set([ctx EXCEPT ![c] = [NoCtx EXCEPT !.obj = g.obj, !.path = path,
                                     !.start = IF k = 0 THEN 0 ELSE Start[i][k],
                                     !.size = IF k = 0 THEN Size ELSE Blocks[i][k],
                                     !.wronly = (flags = "w")]],
                                Least(free), c)
                 /\ gets(g.objs, "null")
                 /\ obj' = g.objs

\* libvhd reads the disk the stream was on, finds no vhd there and closes its
\* number, which takes the context at last.
go_astray ==
    LET f == Least(FreeIn(obj))
        c == map[f]
    IN  IF ctx[c].users > 1
          THEN /\ \E off \in 0 .. ctx[c].size :
                      ctx' = [ctx EXCEPT ![c].users = @ - 1, ![c].off = off]
               /\ map' = [map EXCEPT ![f] = 0] /\ UNCHANGED obj
          ELSE map_clear(f)

\* open, open64, __open_2, __open64_2
open(path, flags, odd, io) ==
    /\ IF Astray(path, flags) THEN go_astray /\ (UNCHANGED kernel \/ std_open(obj'))
                              ELSE io_open(path, flags, odd, io)
    /\ UNCHANGED file

\* fopen, fopen64: to append is an odd flag, mode w is left to the C library
fopen(path, mode, io) ==
    open(path, CASE mode = "r" -> "r" [] mode = "a" -> "w" [] OTHER -> "rw",
         mode \in {"a", "a+"}, io)
fopen_w == gets(obj, "file") /\ UNCHANGED <<map, ctx, obj, file>>

\* stat and lstat, of all widths: opened and given back
stat(path, io) ==
    LET g == vhd_open(path, "r", io)
    IN  /\ IF Astray(path, "r") THEN go_astray
           ELSE /\ obj' = IF g.err = "0" THEN put_vhd(g.objs, g.obj) ELSE g.objs
                /\ UNCHANGED <<map, ctx>>
        /\ UNCHANGED <<kernel, file>>

close(f) ==
    /\ kernel[f] # "closed"
    /\ map_clear(f)
    /\ kernel' = [kernel EXCEPT ![f] = "closed"]
    /\ UNCHANGED file

\* external: the C library closes the descriptor of a stream by itself
fclose(f) ==
    /\ kernel[f] # "closed"
    /\ Cardinality({g \in Fds \ {f} : map[g] # 0 /\ kernel[g] # "null"}) < MaxStale
    /\ \A c \in Ctxs : ctx[c].lost < MaxStale
    /\ kernel' = [kernel EXCEPT ![f] = "closed"]
    /\ UNCHANGED <<map, ctx, obj, file>>

\* A copy of a plain descriptor keeps the context that its number had.
copied(f, newfd) ==
    /\ kernel' = [kernel EXCEPT ![newfd] = kernel[f]]
    /\ IF map[f] = 0 THEN UNCHANGED <<map, ctx>> ELSE map_set(ctx, newfd, map[f])
    /\ UNCHANGED <<obj, file>>

dup(f) == kernel[f] # "closed" /\ FreeIn(obj) # {} /\ copied(f, Least(FreeIn(obj)))

\* dup2, dup3: onto any number but libvhd's own, which no program knows
dup2(f, newfd) == kernel[f] # "closed" /\ newfd \notin Own /\ copied(f, newfd)

(****************************** reading and writing *********************)
\* where an access of count sectors ends; a partition may reach beyond the disk
EndOf(c, off, count) == IF off + count < ctx[c].size THEN off + count ELSE ctx[c].size

lseek(f, off) ==
    /\ map[f] # 0 /\ off <= ctx[map[f]].size
    /\ ctx' = [ctx EXCEPT ![map[f]].off = off]
    /\ UNCHANGED <<kernel, map, obj, file>>

\* _libvhd_io_pread succeeds
MayRead(c, off, count) ==
    ~ctx[c].wronly /\ (off < ctx[c].size => ctx[c].start + EndOf(c, off, count) <= Size)

\* read: the offset moves by what was asked for, not by what was read
read(f, count) ==
    LET c == map[f]
    IN  /\ c # 0 /\ MayRead(c, ctx[c].off, count) /\ ctx[c].off + count <= MaxOff
        /\ ctx' = [ctx EXCEPT ![c].off = @ + count]
        /\ UNCHANGED <<kernel, map, obj, file>>

\* _IO_getc, fread: by what was read
fread(f, count) ==
    LET c == map[f]
    IN  /\ c # 0 /\ ctx[c].off < ctx[c].size /\ MayRead(c, ctx[c].off, count)
        /\ ctx' = [ctx EXCEPT ![c].off = EndOf(c, @, count)]
        /\ UNCHANGED <<kernel, map, obj, file>>

\* An object opened read-only cannot write, nor any beyond the disk.
MayWrite(c, off, count) ==
    off < ctx[c].size => ~obj[ctx[c].obj].ro /\ ctx[c].start + EndOf(c, off, count) <= Size

\* _libvhd_io_write_bytes
write_bytes(c, secs) ==
    LET o == ctx[c].obj
        put(d) == [s \in DOMAIN d |-> IF s \in secs THEN Tag(ctx[c].path) ELSE d[s]]
    IN  /\ obj' = [obj EXCEPT ![o].view = put(@)]
        /\ file' = [file EXCEPT ![obj[o].file] = put(@)]

\* mutant: the offset in the partition is taken for one on the disk
pwrite_no_start(c, off, count) ==
    IF off < ctx[c].size /\ MayWrite(c, off, count)
      THEN write_bytes(c, off .. EndOf(c, off, count) - 1) ELSE UNCHANGED <<obj, file>>

\* flags & O_RDONLY is 0: a descriptor opened for reading may write
io_pwrite(c, off, count) ==
    IF off < ctx[c].size /\ MayWrite(c, off, count)
      THEN write_bytes(c, ctx[c].start + off .. ctx[c].start + EndOf(c, off, count) - 1)
      ELSE UNCHANGED <<obj, file>>

\* pwrite, pwrite64
pwrite(f, off, count) ==
    /\ map[f] # 0
    /\ io_pwrite(map[f], off, count)
    /\ UNCHANGED <<kernel, map, ctx>>

\* write: the offset moves unless the write failed
write(f, count) ==
    LET c == map[f]
    IN  /\ c # 0 /\ ctx[c].off + count <= MaxOff
        /\ io_pwrite(c, ctx[c].off, count)
        /\ ctx' = IF MayWrite(c, ctx[c].off, count) THEN [ctx EXCEPT ![c].off = @ + count] ELSE ctx
        /\ UNCHANGED <<kernel, map>>

Counts == 1 .. 2
IoFaults(path) == IF Partition[path] = 0 THEN {"0"} ELSE {"0", "open", "table"}
IoNext ==
    \/ \E p \in Paths, flags \in Flags : \E io \in IoFaults(p) : open(p, flags, FALSE, io)
    \/ \E p \in Paths : \E mode \in Modes[p] : fopen(p, mode, "0")
    \/ fopen_w \/ \E p \in Paths : stat(p, "0")
    \/ \E f \in Fds : close(f) \/ fclose(f) \/ dup(f) \/ (\E g \in Fds : dup2(f, g))
    \/ \E f \in Fds, off \in 0 .. Size - 1 : lseek(f, off) \/ pwrite(f, off, 1)
    \/ \E f \in Fds, n \in Counts : read(f, n) \/ fread(f, n) \/ write(f, n)

IoSpec == IoInit /\ [][IoNext]_ioVars

(****************************** properties ******************************)
(* Nothing is freed under a descriptor, and nothing is kept without one:    *)
(* the counts are those of the entries of the map that lead to a context    *)
(* and of the contexts that lead to an object, and of the entries that were *)
(* overwritten, through failing opens, stat, dup, streams closed behind the *)
(* library's back and numbers that are used again.  What the program holds  *)
(* for a vhd is never read as the /dev/null it is for the kernel, and what  *)
(* libvhd reads and writes itself is never taken for a program's.           *)
IoCounts ==
    /\ \A f \in Fds : /\ kernel[f] = "null" => map[f] # 0
                      /\ map[f] # 0 => map[f] \in LiveCtxs /\ f \notin Own
    /\ \A c \in LiveCtxs :
          /\ ctx[c].obj \in LiveObjs
          /\ ctx[c].users = Cardinality({f \in Fds : map[f] = c}) + ctx[c].lost
    /\ \A o \in LiveObjs :
          obj[o].refcnt = Cardinality({c \in LiveCtxs : ctx[c].obj = o})

(* However many descriptors, by whichever names, a file has one object, so  *)
(* that no object writes by metadata that another has changed since: what   *)
(* the objects hold is what the files hold.  What was written by a name is  *)
(* in a file that may be written, whose inode has the number of the file    *)
(* the name leads to, and in the partition the name is of.                  *)
IoCoherent ==
    /\ \A o \in LiveObjs : obj[o].view = file[obj[o].file]
    /\ \A i \in Vhds, s \in 0 .. Size - 1 :
          LET k == file[i][s][2]
          IN  file[i][s] # NoTag =>
                  /\ Access[i] = "0" /\ file[i][s][1] = Ino[i]
                  /\ k # 0 => s >= Start[i][k] /\ s < Start[i][k] + Blocks[i][k]

(* Both: the library keeps its promises to the program.                     *)
IoSound == IoCounts /\ IoCoherent
=============================================================================
