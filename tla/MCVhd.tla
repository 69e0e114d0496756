------------------------------- MODULE MCVhd -------------------------------
(* The two ways the data of a vhd is written, in one run: by the driver     *)
(* while a guest uses it (VhdDriver), and through libvhd by vhd-util        *)
(* snapshot, coalesce, fill and modify and by the user of a leaf            *)
(* (VhdChain).  They never write one file at once, so a behaviour is about  *)
(* one of them, which part says.                                            *)
EXTENDS VhdDriver, TLC

VARIABLES
  part,
  cFiles, tool, user, cWant, merged, jobs, writes

\* For the driver: bits[b] are the bits of the b-th block, which has the
\* (b + 1)-th place, or none if bits[b] has -1.
Held(bits, map) ==
  LET used(b) == -1 \notin bits[b]
  IN  [bat |-> [b \in Blks |-> IF used(b) THEN b + 1 ELSE UNUSED],
       bits |-> [p \in Places |-> IF used(p - 1) THEN bits[p - 1] ELSE Offs],
       data |-> [p \in Places |-> [o \in Offs |-> IF used(p - 1) /\ o \in bits[p - 1] THEN Old ELSE Junk]],
       batmap |-> map, has |-> TRUE]
OneBlock == Held((0 :> {0}) @@ (1 :> {-1}) @@ (2 :> {-1}), {})
AllBlocks == Held((0 :> {0}) @@ (1 :> {0, 1}) @@ (2 :> {1}), {1})
MCDisks == {[file |-> OneBlock, prealloc |-> TRUE], [file |-> OneBlock, prealloc |-> FALSE],
            [file |-> AllBlocks, prealloc |-> FALSE]}
MCShapes == {<<0, 2>>, <<1, 2>>, <<4, 1>>}

\* Three vhds below a leaf, and one on a raw file.  The user writes to a block its
\* leaf does not have, or has in part: the write makes it full.
MCChains == {
  [raw |-> FALSE, vhds |-> <<[f |-> "a", has |-> {0, 1}], [f |-> "b", has |-> {0, 1, 2}],
                             [f |-> "c", has |-> {1, 2, 3}], [f |-> "l", has |-> {2}]>>],
  [raw |-> TRUE, vhds |-> <<[f |-> "a", has |-> {}], [f |-> "b", has |-> {0, 1}], [f |-> "l", has |-> {1}]>>]}

MCNames == {"a", "b", "c", "l"}
MCTools == {"snapshot", "parent", "ancestor", "out", "fill", "modify"}
MCKills == {"make", "zero", "bat", "data", "bits", "map", "footer", "locator", "header"}

C == INSTANCE VhdChain WITH
  Names <- MCNames, Chains <- MCChains, Blocks <- 2, Spb <- 2, Jobs <- 2, Writes <- 1, Targets <- {1, 3},
  Tools <- MCTools, Kills <- MCKills, disk <- cFiles, want <- cWant

\* The parts a behaviour is not about stand still, at one start each.
VhdInit ==
  /\ part \in {"driver", "chain"}
  /\ Init /\ C!Init
  /\ part # "driver" => disk = AllBlocks
  /\ part # "chain" => cFiles["c"] = C!NoFile

chainV == <<cFiles, tool, user, cWant, merged, jobs, writes>>

VhdNext ==
  /\ UNCHANGED part
  /\ \/ part = "driver" /\ Next /\ UNCHANGED chainV
     \/ part = "chain" /\ C!Next /\ UNCHANGED vars

VhdSpec == VhdInit /\ [][VhdNext]_<<part, vars, chainV>>

(* A leaf reads as what was written to it, whatever was done to its chain   *)
(* and wherever a tool was killed (VhdChain, libvhd.c).                     *)
LeafReads == part = "chain" => C!LeafReads

(* After a coalesce that succeeded the vhd it was run on can go, and no     *)
(* batmap calls a block full whose bitmap is not, which writes to it would  *)
(* leave so (VhdChain, vhd-util-coalesce.c: Coalesced, BatmapHonest).       *)
CoalesceSound == part = "chain" => C!Coalesced /\ C!BatmapHonest
=============================================================================
