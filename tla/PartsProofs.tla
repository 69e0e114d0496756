---------------------------- MODULE PartsProofs ----------------------------
(***************************************************************************)
(* Proofs about parts that share no state, components that MCParts runs     *)
(* side by side: the LLE cache of Llcache, the preloaded library of VhdIo,  *)
(* the control library of TapCtl and the daemon of Xenio.                   *)
(***************************************************************************)
EXTENDS Llcache, VhdIo, TapCtl, Xenio, FiniteSetTheorems, TLAPS

(***************************************************************************)
(* The LLE cache for every set of sectors, every extent of a write, every  *)
(* number of slots and of writes, with LOCAL completing a write in pieces  *)
(* of any kind.                                                            *)
(***************************************************************************)

Reqs == [n : 0 .. MaxWrites, secs : SUBSET Sectors, pending : SUBSET Sectors, error : Errors]

LleTyped ==
    /\ mode \in {"LOCAL", "SHARED"} /\ writes \in 0 .. MaxWrites
    /\ local \in [Sectors -> 0 .. MaxWrites] /\ shared \in [Sectors -> 0 .. MaxWrites]
    /\ good \in [Sectors -> 0 .. Lost]
    /\ slot \in [Slots -> Reqs]
    /\ \A w \in sent : w.n \in 1 .. MaxWrites /\ w.secs \in SUBSET Sectors

(* The write in slot i, and those passed to SHARED, are the issuer's only   *)
(* ones on their sectors.                                                   *)
Exclusive ==
    /\ \A i, j \in Busy : i # j => slot[i].secs \cap slot[j].secs = {}
    /\ \A v, w \in sent : v # w => v.secs \cap w.secs = {}
    /\ \A i \in Busy, w \in sent : slot[i].secs \cap w.secs = {}

(* A write has been answered or is under way once: what becomes of its      *)
(* pieces is said of no other.                                              *)
Numbered ==
    /\ \A i, j \in Busy : i # j => slot[i].n # slot[j].n
    /\ \A v, w \in sent : v # w => v.n # w.n
    /\ \A i \in Busy : slot[i].n <= writes /\ \A w \in sent : slot[i].n # w.n
    /\ \A w \in sent : w.n <= writes
    /\ \A s \in Sectors :
          /\ good[s] # Lost => good[s] <= writes
          /\ \A i \in Busy : good[s] # slot[i].n
          /\ \A w \in sent : good[s] # w.n
    /\ torn \subseteq 1 .. writes

(* What is not pending of a write LOCAL has, if no piece of it failed.      *)
Pieces ==
    /\ \A i \in Busy : slot[i].pending \subseteq slot[i].secs
    /\ \A i \in Busy, s \in Sectors :
          s \in slot[i].secs /\ s \notin slot[i].pending /\ slot[i].n \notin torn =>
              local[s] = slot[i].n

(* SHARED is written only after the switch, and never below a write that    *)
(* LOCAL has yet to complete.                                               *)
Switched ==
    /\ mode = "LOCAL" => sent = {} /\ \A s \in Sectors : shared[s] = 0
    /\ \A i \in Busy, s \in Sectors : s \in slot[i].secs => shared[s] = 0

LleIInv == LleTyped /\ Exclusive /\ Numbered /\ Pieces /\ Switched /\ LleReadsAcked

LEMMA ActiveIs ==
    ASSUME NEW s
    PROVE  s \in Active <=> \/ \E i \in Busy : s \in slot[i].secs
                            \/ \E w \in sent : s \in w.secs
  BY DEF Active

LEMMA LleStart == LlInit => LleIInv
  <1> SUFFICES ASSUME LlInit PROVE LleIInv
    OBVIOUS
  <1>1. Busy = {} /\ sent = {}
    BY DEF LlInit, Busy, FreeReq
  <1>2. LleTyped
    BY LlcacheAssumption DEF LlInit, LleTyped, Reqs, FreeReq, Errors, Lost
  <1>3. LleReadsAcked
    BY DEF LlInit, LleReadsAcked, Seen
  <1>4. Numbered
    BY <1>1 DEF LlInit, Numbered
  <1> QED BY <1>1, <1>2, <1>3, <1>4 DEF LleIInv, Exclusive, Pieces, Switched, LlInit

(* The write's number is new.                                               *)
LEMMA NewNumber ==
    ASSUME LleIInv
    PROVE  /\ \A i \in Busy : slot[i].n # writes + 1 /\ slot[i].n <= writes + 1
           /\ \A w \in sent : w.n # writes + 1 /\ w.n <= writes + 1
           /\ writes + 1 <= MaxWrites => \A s \in Sectors : good[s] # writes + 1
           /\ \A s \in Sectors : good[s] # Lost => good[s] <= writes + 1
           /\ torn \subseteq 1 .. writes + 1 /\ writes + 1 \notin torn
  <1>1. writes \in Nat /\ MaxWrites \in Nat /\ torn \subseteq 1 .. writes
    BY LlcacheAssumption DEF LleIInv, LleTyped, Numbered
  <1>2. /\ \A i \in Busy : slot[i].n \in Nat /\ slot[i].n <= writes
        /\ \A w \in sent : w.n \in Nat /\ w.n <= writes
        /\ \A s \in Sectors : good[s] \in Nat /\ (good[s] # Lost => good[s] <= writes)
    BY LlcacheAssumption DEF LleIInv, LleTyped, Numbered, Busy, Reqs, Lost
  <1>3. writes + 1 <= MaxWrites => \A s \in Sectors : good[s] # writes + 1
    BY <1>1, <1>2 DEF Lost
  <1> QED BY <1>1, <1>2, <1>3

(* a write that is refused is told so                                       *)
LEMMA RefusedStep ==
    ASSUME LleIInv, NEW secs \in Extents, Issue(secs), Refused(secs)
    PROVE  LleIInv'
  <1>1. /\ UNCHANGED <<mode, local, shared, slot, sent, torn>>
        /\ good' = [s \in Sectors |-> IF s \notin secs THEN good[s] ELSE Lost]
        /\ writes' = writes + 1 /\ writes < MaxWrites
    BY DEF Issue, Refused, Answer
  <1>2. LleTyped'
    <2>1. good' \in [Sectors -> 0 .. Lost]
      BY <1>1, LlcacheAssumption DEF LleIInv, LleTyped, Lost
    <2>2. writes' \in 0 .. MaxWrites
      BY <1>1, LlcacheAssumption DEF LleIInv, LleTyped
    <2> QED BY <1>1, <2>1, <2>2 DEF LleIInv, LleTyped
  <1>3. Busy' = Busy /\ Active' = Active
    BY <1>1 DEF Busy, Active
  <1>4. LleReadsAcked'
    BY <1>1, <1>3 DEF LleIInv, LleReadsAcked, Seen
  <1>5. \A i \in Busy : slot[i].n # Lost
    BY LlcacheAssumption DEF LleIInv, LleTyped, Busy, Reqs, Lost
  <1>6. \A w \in sent : w.n # Lost
    BY LlcacheAssumption DEF LleIInv, LleTyped, Lost
  <1>7. Numbered'
    BY <1>1, <1>3, <1>5, <1>6, NewNumber DEF LleIInv, Numbered
  <1> QED BY <1>1, <1>2, <1>3, <1>4, <1>7 DEF LleIInv, Exclusive, Pieces, Switched

(* a write goes into a slot, and to LOCAL                                   *)
LEMMA TakeStep ==
    ASSUME LleIInv, NEW secs \in Extents, Issue(secs), mode # "SHARED",
           NEW i \in Slots \ Busy, slot' = Take(i, secs, secs), UNCHANGED <<sent, good>>
    PROVE  LleIInv'
  <1>1. /\ UNCHANGED <<mode, local, shared, sent, good, torn>> /\ mode = "LOCAL"
        /\ writes' = writes + 1 /\ writes' \in 1 .. MaxWrites /\ writes + 1 <= MaxWrites
        /\ \A s \in secs : s \notin Active
        /\ secs \subseteq Sectors
    BY LlcacheAssumption DEF Issue, LleIInv, LleTyped
  <1>2. /\ slot'[i].n = writes + 1 /\ slot'[i].secs = secs /\ slot'[i].pending = secs
        /\ \A j \in Slots \ {i} : slot'[j] = slot[j]
        /\ slot' \in [Slots -> Reqs]
    <2>1. slot[i].error \in Errors
      BY DEF LleIInv, LleTyped, Reqs
    <2>2. [n |-> writes + 1, secs |-> secs, pending |-> secs, error |-> slot[i].error] \in Reqs
      BY <1>1, <2>1, LlcacheAssumption DEF Reqs
    <2> QED BY <2>2 DEF Take, LleIInv, LleTyped
  <1>3. Busy' = Busy \cup {i} /\ i \notin Busy
    <2>1. \A j \in Slots : j \in Busy' <=> j \in Busy \/ j = i
      BY <1>1, <1>2 DEF Busy
    <2> QED BY <2>1 DEF Busy
  <1>4. \A s : s \in Active' <=> s \in Active \/ s \in secs
    <2> TAKE s
    <2>1. s \in Active' <=> (\E j \in Busy' : s \in slot'[j].secs) \/ (\E w \in sent : s \in w.secs)
      BY <1>1 DEF Active
    <2>2. \A j \in Busy : slot'[j] = slot[j]
      BY <1>2, <1>3 DEF Busy
    <2> QED BY <1>2, <1>3, <2>1, <2>2, ActiveIs
  <1>5. LleTyped'
    BY <1>1, <1>2, LlcacheAssumption DEF LleIInv, LleTyped
  <1>6. \A j \in Busy : slot'[j] = slot[j] /\ slot[j].secs \cap secs = {}
    BY <1>1, <1>2, <1>3, ActiveIs DEF Busy
  <1>7. \A w \in sent : w.secs \cap secs = {}
    BY <1>1, ActiveIs
  <1>8. Exclusive'
    BY <1>1, <1>2, <1>3, <1>6, <1>7 DEF LleIInv, Exclusive
  <1>9. Numbered'
    BY <1>1, <1>2, <1>3, <1>6, NewNumber DEF LleIInv, Numbered
  <1>10. Pieces'
    BY <1>1, <1>2, <1>3, <1>6 DEF LleIInv, Pieces
  <1>11. Switched'
    BY <1>1 DEF LleIInv, Switched
  <1>12. LleReadsAcked'
    BY <1>1, <1>4 DEF LleIInv, LleReadsAcked, Seen
  <1> QED BY <1>5, <1>8, <1>9, <1>10, <1>11, <1>12 DEF LleIInv

(* after the switch a write goes to SHARED                                  *)
LEMMA SendStep ==
    ASSUME LleIInv, NEW secs \in Extents, Issue(secs), mode = "SHARED",
           sent' = sent \cup {[n |-> writes + 1, secs |-> secs]}, UNCHANGED <<slot, good>>
    PROVE  LleIInv'
  <1> DEFINE v == [n |-> writes + 1, secs |-> secs]
  <1>1. /\ UNCHANGED <<mode, local, shared, slot, good, torn>>
        /\ writes' = writes + 1 /\ writes' \in 1 .. MaxWrites /\ writes + 1 <= MaxWrites
        /\ \A s \in secs : s \notin Active
        /\ secs \subseteq Sectors
    BY LlcacheAssumption DEF Issue, LleIInv, LleTyped
  <1>2. sent' = sent \cup {v} /\ v.n = writes' /\ v.secs = secs
    BY <1>1
  <1> HIDE DEF v
  <1>3. Busy' = Busy
    BY <1>1 DEF Busy
  <1>4. \A s : s \in Active' <=> s \in Active \/ s \in secs
    <2> TAKE s
    <2>1. s \in Active' <=> (\E j \in Busy : s \in slot[j].secs) \/ (\E w \in sent' : s \in w.secs)
      BY <1>1, <1>3 DEF Active
    <2> QED BY <1>2, <2>1, ActiveIs
  <1>5. \A j \in Busy : slot[j].secs \cap secs = {}
    BY <1>1, ActiveIs
  <1>6. \A w \in sent : w.secs \cap secs = {}
    BY <1>1, ActiveIs
  <1>7. LleTyped'
    <2>1. writes' \in 0 .. MaxWrites
      BY <1>1
    <2> QED BY <1>1, <1>2, <2>1 DEF LleIInv, LleTyped
  <1>8. Exclusive'
    BY <1>1, <1>2, <1>3, <1>5, <1>6 DEF LleIInv, Exclusive
  <1>9. Numbered'
    BY <1>1, <1>2, <1>3, NewNumber DEF LleIInv, Numbered
  <1>10. Pieces' /\ Switched'
    BY <1>1, <1>3 DEF LleIInv, Pieces, Switched
  <1>11. LleReadsAcked'
    BY <1>1, <1>4 DEF LleIInv, LleReadsAcked, Seen
  <1> QED BY <1>7, <1>8, <1>9, <1>10, <1>11 DEF LleIInv

(* LOCAL is done with a piece of a write.                                   *)
Failing(n, error) == IF error = "none" THEN torn ELSE torn \cup {n}

LEMMA PieceOf ==
    ASSUME LleIInv, NEW i \in Busy, NEW piece \in SUBSET Sectors, NEW error \in Errors,
           llecache_write_cb(i, piece, error)
    PROVE  /\ i \in Slots /\ slot[i] \in Reqs /\ slot[i].n \in 1 .. writes
           /\ slot[i].n \in 1 .. MaxWrites /\ slot[i].n # Lost
           /\ piece \subseteq slot[i].pending /\ slot[i].pending \subseteq slot[i].secs
           /\ UNCHANGED <<shared, writes>>
           /\ ll_write_error(slot[i].error, error) \in Errors
           /\ ll_write_error(slot[i].error, error) = "ENOSPC" => error = "ENOSPC"
           /\ torn' = Failing(slot[i].n, error) /\ torn' \subseteq 1 .. writes
           /\ \A n : n # slot[i].n => (n \in torn' <=> n \in torn)
           /\ local' \in [Sectors -> 0 .. MaxWrites]
           /\ \A s \in Sectors : local'[s] = IF error = "none" /\ s \in piece THEN slot[i].n
                                             ELSE local[s]
  <1>1. i \in Slots /\ slot[i] \in Reqs /\ slot[i].n \in 0 .. MaxWrites /\ slot[i].n # 0
    BY DEF Busy, LleIInv, LleTyped, Reqs
  <1>2. slot[i].n \in 1 .. MaxWrites /\ slot[i].n \in 1 .. writes /\ slot[i].n # Lost
    BY <1>1, LlcacheAssumption DEF LleIInv, LleTyped, Numbered, Lost
  <1>3. /\ piece \subseteq slot[i].pending /\ UNCHANGED <<shared, writes>>
        /\ torn' = Failing(slot[i].n, error)
        /\ local' = IF error = "none" THEN Write(local, slot[i].n, piece) ELSE local
    BY DEF llecache_write_cb, Failing
  <1>4. torn' \subseteq 1 .. writes /\ \A n : n # slot[i].n => (n \in torn' <=> n \in torn)
    BY <1>2, <1>3 DEF Failing, LleIInv, Numbered
  <1>5. /\ local' \in [Sectors -> 0 .. MaxWrites]
        /\ \A s \in Sectors : local'[s] = IF error = "none" /\ s \in piece THEN slot[i].n
                                          ELSE local[s]
    BY <1>2, <1>3, LlcacheAssumption DEF Write, LleIInv, LleTyped
  <1>6. /\ slot[i].pending \subseteq slot[i].secs
        /\ ll_write_error(slot[i].error, error) \in Errors
        /\ ll_write_error(slot[i].error, error) = "ENOSPC" => error = "ENOSPC"
    BY <1>1 DEF ll_write_error, Errors, Reqs, LleIInv, Pieces
  <1> QED BY <1>1, <1>2, <1>3, <1>4, <1>5, <1>6

(* Others are pending.                                                      *)
LEMMA PieceStep ==
    ASSUME LleIInv, NEW i \in Busy, NEW piece \in SUBSET Sectors, NEW error \in Errors,
           llecache_write_cb(i, piece, error), slot[i].pending \ piece # {}
    PROVE  LleIInv'
  <1> DEFINE num  == slot[i].n
             e    == ll_write_error(slot[i].error, error)
             left == slot[i].pending \ piece
  <1>1. /\ i \in Slots /\ slot[i] \in Reqs /\ num \in 1 .. writes /\ num \in 1 .. MaxWrites
        /\ UNCHANGED <<shared, writes>> /\ e \in Errors
        /\ torn' = Failing(num, error) /\ torn' \subseteq 1 .. writes
        /\ \A n : n # num => (n \in torn' <=> n \in torn)
        /\ local' \in [Sectors -> 0 .. MaxWrites]
        /\ \A s \in Sectors : local'[s] = IF error = "none" /\ s \in piece THEN num ELSE local[s]
        /\ piece \subseteq slot[i].pending /\ slot[i].pending \subseteq slot[i].secs
    <2> HIDE DEF num, e, left
    <2>1. /\ i \in Slots /\ slot[i] \in Reqs /\ slot[i].n \in 1 .. writes
          /\ slot[i].n \in 1 .. MaxWrites /\ UNCHANGED <<shared, writes>>
          /\ ll_write_error(slot[i].error, error) \in Errors
          /\ piece \subseteq slot[i].pending /\ slot[i].pending \subseteq slot[i].secs
      BY PieceOf
    <2>2. /\ torn' = Failing(slot[i].n, error) /\ torn' \subseteq 1 .. writes
          /\ \A n : n # slot[i].n => (n \in torn' <=> n \in torn)
          /\ local' \in [Sectors -> 0 .. MaxWrites]
          /\ \A s \in Sectors : local'[s] = IF error = "none" /\ s \in piece THEN slot[i].n
                                            ELSE local[s]
      BY PieceOf
    <2> QED BY <2>1, <2>2, SMTT(30) DEF num, e
  <1>2. slot' = [slot EXCEPT ![i].pending = left, ![i].error = e] /\ UNCHANGED <<mode, sent, good>>
    BY DEF llecache_write_cb
  <1>3. num # 0
    BY <1>1
  <1> HIDE DEF e
  <1>4. /\ slot'[i].n = num /\ slot'[i].secs = slot[i].secs /\ slot'[i].pending = left
        /\ \A j \in Slots \ {i} : slot'[j] = slot[j]
        /\ slot' \in [Slots -> Reqs]
    BY <1>1, <1>2 DEF LleIInv, LleTyped, Reqs
  <1> HIDE DEF num, left
  <1>5. \A j \in Slots : slot'[j].n = slot[j].n /\ slot'[j].secs = slot[j].secs
    BY <1>4 DEF num
  <1>6. Busy' = Busy /\ Active' = Active
    <2>1. Busy' = Busy
      BY <1>5 DEF Busy
    <2>2. \A s : s \in Active' <=> (\E j \in Busy : s \in slot'[j].secs) \/ (\E w \in sent : s \in w.secs)
      BY <1>2, <2>1 DEF Active
    <2>3. \A s : s \in Active' <=> s \in Active
      BY <1>5, <2>2, ActiveIs DEF Busy
    <2> QED BY <2>1, <2>3 DEF Active
  <1>7. LleTyped'
    BY <1>1, <1>2, <1>4 DEF LleIInv, LleTyped
  <1>8. Exclusive' /\ Switched'
    BY <1>1, <1>2, <1>5, <1>6 DEF LleIInv, Exclusive, Switched, Busy
  <1>9. Numbered'
    <2>1. \A j \in Busy : slot'[j].n = slot[j].n
      BY <1>5 DEF Busy
    <2>2. /\ \A j, k \in Busy : j # k => slot'[j].n # slot'[k].n
          /\ \A j \in Busy : slot'[j].n <= writes /\ \A w \in sent : slot'[j].n # w.n
          /\ \A s \in Sectors, j \in Busy : good[s] # slot'[j].n
      BY <2>1 DEF LleIInv, Numbered
    <2>3. /\ \A v, w \in sent : v # w => v.n # w.n
          /\ \A w \in sent : w.n <= writes
          /\ \A s \in Sectors : /\ good[s] # Lost => good[s] <= writes
                                /\ \A w \in sent : good[s] # w.n
      BY DEF LleIInv, Numbered
    <2>4. Lost' = Lost
      BY DEF Lost
    <2> HIDE DEF Lost
    <2> QED BY <1>1, <1>2, <1>6, <2>2, <2>3, <2>4 DEF Numbered
  <1>10. Pieces'
    <2>1. \A j \in Busy : slot'[j].pending \subseteq slot'[j].secs
      BY <1>1, <1>4 DEF LleIInv, Pieces, Busy, left
    <2> SUFFICES ASSUME NEW j \in Busy, NEW s \in Sectors, s \in slot'[j].secs,
                        s \notin slot'[j].pending, slot'[j].n \notin torn'
                 PROVE  local'[s] = slot'[j].n
      BY <1>6, <2>1 DEF Pieces
    <2>2. CASE j = i
      <3>1. error = "none" /\ num \notin torn
        BY <1>1, <1>4, <2>2 DEF Failing
      <3>2. s \in slot[i].secs /\ (s \in piece \/ s \notin slot[i].pending)
        BY <1>4, <2>2 DEF left
      <3> QED BY <1>1, <1>4, <2>2, <3>1, <3>2 DEF LleIInv, Pieces, num
    <2>3. CASE j # i
      <3>1. slot'[j] = slot[j] /\ slot[j].n # num
        BY <1>4, <2>3 DEF LleIInv, Numbered, num, Busy
      <3>2. slot[j].n \notin torn /\ s \notin slot[i].secs
        BY <1>1, <2>3, <3>1 DEF LleIInv, Exclusive
      <3>3. local[s] = slot[j].n
        BY <3>1, <3>2 DEF LleIInv, Pieces
      <3> QED BY <1>1, <3>1, <3>2, <3>3
    <2> QED BY <2>2, <2>3
  <1>11. LleReadsAcked'
    <2> SUFFICES ASSUME NEW s \in Sectors, s \notin Active, good[s] \notin torn', good[s] # Lost
                 PROVE  Seen(s)' = good[s]
      BY <1>2, <1>6, <1>5 DEF LleReadsAcked, Lost
    <2>1. good[s] \notin torn /\ s \notin slot[i].secs
      BY <1>1, ActiveIs DEF LleIInv, Numbered, num
    <2>2. Seen(s) = good[s]
      BY <2>1 DEF LleIInv, LleReadsAcked
    <2> QED BY <1>1, <1>2, <2>1, <2>2 DEF Seen
  <1> QED BY <1>7, <1>8, <1>9, <1>10, <1>11 DEF LleIInv

(* None is: the write succeeded, failed, or goes to SHARED.                 *)
LEMMA LastStep ==
    ASSUME LleIInv, NEW i \in Busy, NEW piece \in SUBSET Sectors, NEW error \in Errors,
           llecache_write_cb(i, piece, error), slot[i].pending \ piece = {}
    PROVE  LleIInv'
  <1> DEFINE num  == slot[i].n
             secs == slot[i].secs
             e    == ll_write_error(slot[i].error, error)
  <1>1. /\ i \in Slots /\ num \in 1 .. writes /\ num \in 1 .. MaxWrites /\ num # Lost
        /\ UNCHANGED <<shared, writes>> /\ e \in Errors /\ (e = "ENOSPC" => error = "ENOSPC")
        /\ torn' = Failing(num, error) /\ torn' \subseteq 1 .. writes
        /\ \A n : n # num => (n \in torn' <=> n \in torn)
        /\ local' \in [Sectors -> 0 .. MaxWrites]
        /\ \A s \in Sectors : local'[s] = IF error = "none" /\ s \in piece THEN num ELSE local[s]
        /\ piece = slot[i].pending /\ piece \subseteq secs /\ secs \subseteq Sectors
    <2>1. /\ slot[i] \in Reqs /\ piece \subseteq slot[i].pending
          /\ slot[i].pending \subseteq slot[i].secs
      BY PieceOf
    <2>2. piece = slot[i].pending /\ piece \subseteq secs /\ secs \subseteq Sectors
      BY <2>1 DEF Reqs
    <2>3. /\ i \in Slots /\ num \in 1 .. writes /\ num \in 1 .. MaxWrites /\ num # Lost
          /\ UNCHANGED <<shared, writes>> /\ e \in Errors /\ (e = "ENOSPC" => error = "ENOSPC")
          /\ torn' = Failing(num, error) /\ torn' \subseteq 1 .. writes
          /\ \A n : n # num => (n \in torn' <=> n \in torn)
          /\ local' \in [Sectors -> 0 .. MaxWrites]
          /\ \A s \in Sectors : local'[s] = IF error = "none" /\ s \in piece THEN num ELSE local[s]
      BY PieceOf
    <2> HIDE DEF num, secs, e
    <2> QED BY <2>2, <2>3
  <1>2. /\ slot' = Free(i, e)
        /\ \/ /\ e = "ENOSPC" /\ mode' = "SHARED" /\ good' = good
              /\ sent' = sent \cup {[n |-> num, secs |-> secs]}
           \/ /\ e # "ENOSPC" /\ UNCHANGED <<mode, sent>>
              /\ Answer(num, secs, error)
    BY DEF llecache_write_cb
  <1> HIDE DEF num, secs, e
  <1>3. /\ slot'[i] = FreeReq(e)
        /\ \A j \in Slots \ {i} : slot'[j] = slot[j]
        /\ slot' \in [Slots -> Reqs]
    <2>1. FreeReq(e) \in Reqs
      BY <1>1, LlcacheAssumption DEF FreeReq, Reqs
    <2> QED BY <1>1, <1>2, <2>1 DEF Free, LleIInv, LleTyped
  <1>4. Busy' = Busy \ {i} /\ \A j \in Busy' : slot'[j] = slot[j]
    <2>1. slot'[i].n = 0
      BY <1>3 DEF FreeReq
    <2>2. \A j \in Slots : j \in Busy' <=> j \in Busy /\ j # i
      BY <1>3, <2>1 DEF Busy
    <2> QED BY <1>3, <2>2 DEF Busy
  <1>5. /\ \A j \in Busy : j # i => slot[j].secs \cap secs = {} /\ slot[j].n # num
        /\ \A w \in sent : w.secs \cap secs = {} /\ w.n # num
        /\ \A s \in secs : shared[s] = 0
        /\ \A s \in Sectors : good[s] # num
        /\ \A s \in secs : error = "none" /\ num \notin torn => local'[s] = num
    <2>1. \A s \in secs : error = "none" /\ num \notin torn => local'[s] = num
      BY <1>1 DEF secs, num, LleIInv, Pieces
    <2> QED BY <1>1, <2>1 DEF secs, num, LleIInv, Exclusive, Switched, Numbered
  <1>6. Pieces'
    <2>1. \A j \in Busy' : slot'[j].pending \subseteq slot'[j].secs
      BY <1>4 DEF LleIInv, Pieces
    <2> SUFFICES ASSUME NEW j \in Busy', NEW s \in Sectors, s \in slot'[j].secs,
                        s \notin slot'[j].pending, slot'[j].n \notin torn'
                 PROVE  local'[s] = slot'[j].n
      BY <2>1 DEF Pieces
    <2>2. j \in Busy /\ j # i /\ slot'[j] = slot[j]
      BY <1>4
    <2>3. slot[j].n \notin torn /\ s \notin piece
      BY <1>1, <1>5, <2>2
    <2> QED BY <1>1, <2>2, <2>3 DEF LleIInv, Pieces
  <1>7. \A s : s \in Active <=> \/ \E j \in Busy' : s \in slot[j].secs
                                \/ s \in secs
                                \/ \E w \in sent : s \in w.secs
    BY <1>4, ActiveIs DEF secs
  <1>8. \A s \in Sectors : s \notin Active =>
            /\ local'[s] = local[s]
            /\ good[s] \notin torn' \cup {Lost} => good[s] \notin torn /\ Seen(s) = good[s]
    BY <1>1, <1>5, <1>7 DEF LleIInv, LleReadsAcked
  <1>9. CASE /\ e = "ENOSPC" /\ mode' = "SHARED" /\ good' = good
             /\ sent' = sent \cup {[n |-> num, secs |-> secs]}
    <2> DEFINE v == [n |-> num, secs |-> secs]
    <2>1. /\ sent' = sent \cup {v} /\ v.n = num /\ v.secs = secs
          /\ mode' = "SHARED" /\ good' = good /\ \A s \in Sectors : local'[s] = local[s]
      BY <1>1, <1>9
    <2> HIDE DEF v
    <2>2. \A s : s \in Active' <=> s \in Active
      <3> TAKE s
      <3>1. s \in Active' <=> (\E j \in Busy' : s \in slot'[j].secs) \/ (\E w \in sent' : s \in w.secs)
        BY DEF Active
      <3> QED BY <1>4, <1>7, <2>1, <3>1
    <2>3. LleTyped'
      BY <1>1, <1>3, <2>1 DEF LleIInv, LleTyped
    <2>4. Exclusive'
      <3>1. \A j, k \in Busy' : j # k => slot'[j].secs \cap slot'[k].secs = {}
        BY <1>4 DEF LleIInv, Exclusive
      <3>2. \A u, w \in sent' : u # w => u.secs \cap w.secs = {}
        BY <1>5, <2>1 DEF LleIInv, Exclusive
      <3>3. \A j \in Busy', w \in sent' : slot'[j].secs \cap w.secs = {}
        BY <1>4, <1>5, <2>1 DEF LleIInv, Exclusive
      <3> QED BY <3>1, <3>2, <3>3 DEF Exclusive
    <2>5. Numbered'
      <3>1. \A j, k \in Busy' : j # k => slot'[j].n # slot'[k].n
        BY <1>4 DEF LleIInv, Numbered
      <3>2. \A u, w \in sent' : u # w => u.n # w.n
        BY <1>5, <2>1 DEF LleIInv, Numbered
      <3>3. \A j \in Busy' : slot'[j].n <= writes /\ \A w \in sent' : slot'[j].n # w.n
        BY <1>4, <1>5, <2>1 DEF LleIInv, Numbered
      <3>4. \A w \in sent' : w.n <= writes
        BY <1>1, <2>1 DEF LleIInv, Numbered
      <3>5. ASSUME NEW s \in Sectors
            PROVE  /\ good'[s] # Lost => good'[s] <= writes
                   /\ \A j \in Busy' : good'[s] # slot'[j].n
                   /\ \A w \in sent' : good'[s] # w.n
        BY <1>4, <1>5, <2>1 DEF LleIInv, Numbered
      <3> HIDE DEF Lost
      <3> QED BY <1>1, <3>1, <3>2, <3>3, <3>4, <3>5 DEF Numbered, Lost
    <2>6. Switched'
      BY <1>1, <1>4, <2>1 DEF LleIInv, Switched
    <2>7. \A s \in Sectors : Seen(s)' = Seen(s)
      BY <1>1, <2>1 DEF LleIInv, LleTyped, Switched, Seen
    <2>8. LleReadsAcked'
      BY <1>8, <2>1, <2>2, <2>7 DEF LleReadsAcked, Lost
    <2> QED BY <1>6, <2>3, <2>4, <2>5, <2>6, <2>8 DEF LleIInv
  <1>10. CASE e # "ENOSPC" /\ UNCHANGED <<mode, sent>> /\ Answer(num, secs, error)
    <2>1. /\ UNCHANGED <<mode, sent, shared, writes>>
          /\ good' = [s \in Sectors |-> IF s \notin secs THEN good[s]
                                        ELSE IF error = "none" THEN num ELSE Lost]
      BY <1>1, <1>10 DEF Answer
    <2>2. \A s : s \in Active => s \in Active' \/ s \in secs
      <3> TAKE s
      <3>1. s \in Active' <=> (\E j \in Busy' : s \in slot'[j].secs) \/ (\E w \in sent : s \in w.secs)
        BY <2>1 DEF Active
      <3> QED BY <1>4, <1>7, <3>1
    <2>3. LleTyped'
      <3>1. good' \in [Sectors -> 0 .. Lost]
        BY <1>1, <2>1, LlcacheAssumption DEF LleIInv, LleTyped, Lost
      <3> QED BY <1>1, <1>3, <2>1, <3>1 DEF LleIInv, LleTyped
    <2>4. Exclusive' /\ Switched'
      BY <1>4, <2>1 DEF LleIInv, Exclusive, Switched
    <2>5. Numbered'
      <3>1. ASSUME NEW s \in Sectors
            PROVE  /\ good'[s] # Lost => good'[s] <= writes
                   /\ \A j \in Busy' : good'[s] # slot'[j].n
                   /\ \A w \in sent : good'[s] # w.n
        <4>1. good'[s] = good[s] \/ good'[s] = num \/ good'[s] = Lost
          BY <2>1
        <4>2. \A j \in Busy : slot[j].n # Lost
          BY LlcacheAssumption DEF LleIInv, LleTyped, Busy, Reqs, Lost
        <4>3. \A w \in sent : w.n # Lost
          BY LlcacheAssumption DEF LleIInv, LleTyped, Lost
        <4>4. num <= writes
          BY <1>1
        <4> QED BY <1>4, <1>5, <4>1, <4>2, <4>3, <4>4 DEF LleIInv, Numbered
      <3>2. /\ \A j, k \in Busy' : j # k => slot'[j].n # slot'[k].n
            /\ \A j \in Busy' : slot'[j].n <= writes /\ \A w \in sent : slot'[j].n # w.n
        BY <1>4 DEF LleIInv, Numbered
      <3> QED BY <1>1, <2>1, <3>1, <3>2 DEF LleIInv, Numbered, Lost
    <2>6. ASSUME NEW s \in Sectors, s \notin Active', good'[s] \notin torn', good'[s] # Lost
          PROVE  Seen(s)' = good'[s]
      <3>1. CASE s \in secs
        <4>1. error = "none" /\ good'[s] = num /\ num \notin torn
          BY <1>1, <2>1, <2>6, <3>1 DEF Failing
        <4>2. shared'[s] = 0 /\ local'[s] = num
          BY <1>5, <2>1, <3>1, <4>1
        <4> QED BY <4>1, <4>2 DEF Seen
      <3>2. CASE s \notin secs
        <4>1. s \notin Active /\ good'[s] = good[s]
          BY <2>1, <2>2, <2>6, <3>2
        <4>2. local'[s] = local[s] /\ Seen(s) = good[s]
          BY <1>8, <2>6, <4>1
        <4> QED BY <2>1, <4>1, <4>2 DEF Seen
      <3> QED BY <3>1, <3>2
    <2>7. LleReadsAcked'
      BY <2>6 DEF LleReadsAcked, Lost
    <2> QED BY <1>6, <2>3, <2>4, <2>5, <2>7 DEF LleIInv
  <1> QED BY <1>2, <1>9, <1>10

(* SHARED is done with a write                                              *)
LEMMA SharedStep ==
    ASSUME LleIInv, NEW w \in sent, NEW error \in {"none", "EIO"}, SharedDone(w, error)
    PROVE  LleIInv'
  <1>1. /\ UNCHANGED <<mode, slot, local, writes>> /\ sent' = sent \ {w}
        /\ shared' = IF error = "none" THEN Write(shared, w.n, w.secs) ELSE shared
        /\ good' = [s \in Sectors |-> IF s \notin w.secs THEN good[s]
                                      ELSE IF error = "none" THEN w.n ELSE Lost]
        /\ torn' = IF error = "none" THEN torn \ {w.n} ELSE torn
    BY DEF SharedDone, Answer
  <1>2. /\ w.n \in 1 .. MaxWrites /\ w.n <= writes /\ w.n # Lost
        /\ w.secs \subseteq Sectors /\ mode = "SHARED"
    BY LlcacheAssumption DEF LleIInv, LleTyped, Switched, Numbered, Lost
  <1>3. Busy' = Busy
    BY <1>1 DEF Busy
  <1>4. \A s : s \in Active => s \in Active' \/ s \in w.secs
    <2> TAKE s
    <2>1. s \in Active' <=> (\E j \in Busy : s \in slot[j].secs) \/ (\E v \in sent' : s \in v.secs)
      BY <1>1, <1>3 DEF Active
    <2> QED BY <1>1, <2>1, ActiveIs
  <1>5. \A i \in Busy : slot[i].n # w.n
    BY DEF LleIInv, Numbered
  <1>6. LleTyped'
    <2>1. good' \in [Sectors -> 0 .. Lost]
      BY <1>1, <1>2, LlcacheAssumption DEF LleIInv, LleTyped, Lost
    <2>2. shared' \in [Sectors -> 0 .. MaxWrites]
      BY <1>1, <1>2, LlcacheAssumption DEF LleIInv, LleTyped, Write
    <2> QED BY <1>1, <2>1, <2>2 DEF LleIInv, LleTyped
  <1>7. Exclusive'
    BY <1>1, <1>3 DEF LleIInv, Exclusive
  <1>8. Pieces'
    BY <1>1, <1>3, <1>5 DEF LleIInv, Pieces
  <1>9. Numbered'
    <2>1. ASSUME NEW s \in Sectors
          PROVE  /\ good'[s] # Lost => good'[s] <= writes
                 /\ \A j \in Busy : good'[s] # slot[j].n
                 /\ \A v \in sent' : good'[s] # v.n
      <3>1. good'[s] = good[s] \/ good'[s] = w.n \/ good'[s] = Lost
        BY <1>1
      <3>2. \A j \in Busy : slot[j].n # Lost
        BY LlcacheAssumption DEF LleIInv, LleTyped, Busy, Reqs, Lost
      <3>3. \A v \in sent : v.n # Lost
        BY LlcacheAssumption DEF LleIInv, LleTyped, Lost
      <3> QED BY <1>1, <1>2, <1>5, <3>1, <3>2, <3>3 DEF LleIInv, Numbered
    <2> QED BY <1>1, <1>3, <2>1 DEF LleIInv, Numbered, Lost
  <1>10. Switched'
    <2>1. \A i \in Busy : slot[i].secs \cap w.secs = {}
      BY DEF LleIInv, Exclusive
    <2>2. \A i \in Busy, s \in Sectors : s \in slot[i].secs => shared'[s] = shared[s]
      BY <1>1, <2>1 DEF Write, LleIInv, LleTyped
    <2> QED BY <1>1, <1>2, <1>3, <2>2 DEF LleIInv, Switched
  <1>11. ASSUME NEW s \in Sectors, s \notin Active', good'[s] \notin torn', good'[s] # Lost
         PROVE  Seen(s)' = good'[s]
    <2>1. CASE s \in w.secs
      <3>1. error = "none" /\ good'[s] = w.n /\ shared'[s] = w.n
        BY <1>1, <1>11, <2>1 DEF Write
      <3> QED BY <1>1, <1>2, <3>1 DEF Seen
    <2>2. CASE s \notin w.secs
      <3>1. s \notin Active /\ good'[s] = good[s] /\ shared'[s] = shared[s]
        BY <1>1, <1>4, <1>11, <2>2 DEF Write, LleIInv, LleTyped
      <3>2. good[s] # w.n
        BY DEF LleIInv, Numbered
      <3>3. good[s] \notin torn
        BY <1>1, <1>11, <3>1, <3>2
      <3> QED BY <1>1, <1>11, <3>1, <3>3 DEF Seen, LleIInv, LleReadsAcked
    <2> QED BY <2>1, <2>2
  <1>12. LleReadsAcked'
    BY <1>11 DEF LleReadsAcked, Lost
  <1> QED BY <1>6, <1>7, <1>8, <1>9, <1>10, <1>12 DEF LleIInv

LEMMA LleStep == LleIInv /\ [LleNext]_llVars => LleIInv'
  <1> SUFFICES ASSUME LleIInv, [LleNext]_llVars PROVE LleIInv'
    OBVIOUS
  <1>1. ASSUME NEW secs \in Extents, llecache_queue_write(secs) PROVE LleIInv'
    <2>1. CASE mode = "SHARED"
      BY <1>1, <2>1, SendStep DEF llecache_queue_write
    <2>2. CASE mode # "SHARED"
      <3>1. CASE Refused(secs)
        BY <1>1, <3>1, RefusedStep DEF llecache_queue_write
      <3>2. CASE ~Refused(secs)
        <4>1. PICK i \in Slots \ Busy : slot' = Take(i, secs, secs) /\ UNCHANGED <<sent, good>>
          BY <1>1, <2>2, <3>2 DEF llecache_queue_write
        <4> QED BY <1>1, <2>2, <4>1, TakeStep DEF llecache_queue_write
      <3> QED BY <3>1, <3>2
    <2> QED BY <2>1, <2>2
  <1>2. CASE UNCHANGED llVars
    <2>1. Busy' = Busy /\ Active' = Active
      BY <1>2 DEF llVars, Busy, Active
    <2>2. LleTyped' /\ Exclusive' /\ Pieces' /\ Switched'
      BY <1>2, <2>1 DEF llVars, LleIInv, LleTyped, Exclusive, Pieces, Switched
    <2>3. Numbered' /\ LleReadsAcked'
      BY <1>2, <2>1 DEF llVars, LleIInv, Numbered, LleReadsAcked, Seen
    <2> QED BY <2>2, <2>3 DEF LleIInv
  <1> QED BY <1>1, <1>2, PieceStep, LastStep, SharedStep DEF LleNext

(* A sector no write is under way on reads as its last acknowledged write,  *)
(* for writes of any extents that LOCAL completes in any pieces, before,    *)
(* during and after the switch to SHARED: what LOCAL completes late is      *)
(* never hidden by older data, and newer data never undone.  Only a write   *)
(* that is acknowledged although a piece of it failed says nothing.         *)
THEOREM ReadsAcked == LleSpec => []LleReadsAcked
  <1>1. LleIInv => LleReadsAcked
    BY DEF LleIInv
  <1> QED BY LleStart, LleStep, <1>1, PTL DEF LleSpec

(***************************************************************************)
(* The preloaded library for any number of descriptors, of contexts, of    *)
(* files and of paths to them.                                             *)
(***************************************************************************)

(****************************** numbers **********************************)
(* A set of numbers with no least element would be closed under             *)
(* subtracting one, which is one-to-one and never yields the greatest.      *)
LEMMA Minimum ==
    ASSUME NEW S \in SUBSET Nat, S # {}
    PROVE  \E x \in S : \A y \in S : x <= y
  <1> SUFFICES ASSUME \A x \in S : \E y \in S : y < x PROVE FALSE
    OBVIOUS
  <1>1. PICK n \in S : TRUE
    OBVIOUS
  <1> DEFINE U == {u \in 0 .. n : \E t \in S : t <= u}
             f == [u \in U |-> u - 1]
  <1>2. IsFiniteSet(U) /\ n \in U
    <2>1. IsFiniteSet(0 .. n)
      BY FS_Interval
    <2> QED BY <2>1, <1>1, FS_Subset
  <1>3. \A u \in U : u - 1 \in U \ {n}
    <2> TAKE u \in U
    <2>1. PICK t \in S : t <= u
      OBVIOUS
    <2>2. PICK y \in S : y < t
      OBVIOUS
    <2>3. u \in Nat /\ t \in Nat /\ y \in Nat /\ n \in Nat /\ u <= n
      OBVIOUS
    <2>4. u - 1 \in 0 .. n /\ u - 1 # n /\ y <= u - 1
      BY <2>1, <2>2, <2>3
    <2> QED BY <2>4
  <1>4. /\ IsFiniteSet(U \ {n}) /\ Cardinality(U) \in Nat
        /\ Cardinality(U \ {n}) = Cardinality(U) - 1
    BY <1>2, FS_RemoveElement, FS_CardinalityType
  <1>5. Cardinality(U \ {n}) < Cardinality(U)
    BY <1>4
  <1>6. f \in [U -> U \ {n}] /\ \A u \in U : u \in Int
    BY <1>3
  <1>7. \A x, y \in U : f[x] = f[y] => x = y
    BY <1>6
  <1> DEFINE W == U \ {n}
  <1>8. IsFiniteSet(W) /\ Cardinality(W) < Cardinality(U) /\ f \in [U -> W]
    BY <1>4, <1>5, <1>6
  <1> HIDE DEF U, f, W
  <1>9. \E x, y \in U : x # y /\ f[x] = f[y]
    BY <1>2, <1>8, FS_PigeonHole
  <1> QED BY <1>7, <1>9

LEMMA LeastIs ==
    ASSUME NEW S \in SUBSET Nat, S # {}
    PROVE  Least(S) \in S
  BY Minimum DEF Least

(****************************** the invariant ****************************)
Kinds  == {"closed", "file", "null"}
Data   == [0 .. Size - 1 -> Nat \X Nat]
CtxSet == [users : Nat, obj : Nat, path : Paths \cup {"none"}, start : Nat, size : Nat,
           wronly : BOOLEAN, off : Nat, lost : Nat]
ObjSet == [refcnt : Nat, file : Files \cup {0}, ino : Nat, ro : BOOLEAN, fd : Nat, view : Data]

FdsOf(m, c)   == {f \in Fds : m[f] = c}
Holders(cs, o) == {c \in Ctxs : cs[c].users > 0 /\ cs[c].obj = o}

IoTyped ==
    /\ kernel \in [Fds -> Kinds]
    /\ map \in [Fds -> Ctxs \cup {0}]
    /\ ctx \in [Ctxs -> CtxSet]
    /\ obj \in [Objs -> ObjSet]
    /\ file \in [Vhds -> Data]

(* A number that is /dev/null for the kernel has a context, even where      *)
(* others that were closed behind the library's back still have theirs.     *)
Mapped(m, k) == \A f \in Fds : k[f] = "null" => m[f] # 0

(* libvhd's own numbers have none.                                          *)
Apart(m, os) == \A f \in Fds, o \in Objs : m[f] # 0 /\ os[o].refcnt > 0 => os[o].fd # f

(* A context is used by the entries of the map that lead to it, and by      *)
(* those that were overwritten.                                             *)
Users(m, cs) == \A c \in Ctxs : cs[c].users = Cardinality(FdsOf(m, c)) + cs[c].lost

(* A context is of the part of its object's disk that its path names, and   *)
(* the inode of the file the path leads to has the number of the object's.  *)
PartOf(x, os) ==
    LET k == Partition[x.path]
        i == os[x.obj].file
    IN  /\ x.path \in Paths /\ File[x.path] \in Files /\ x.obj \in Objs
        /\ os[x.obj].ino = Ino[File[x.path]]
        /\ x.start = IF k = 0 THEN 0 ELSE Start[i][k]
        /\ x.size = IF k = 0 THEN Size ELSE Blocks[i][k]

Linked(cs, os) == \A c \in Ctxs : cs[c].users > 0 => PartOf(cs[c], os)

(* An object is held by the contexts that use it, and by an open under way, *)
(* that of x.                                                               *)
Held(cs, os, x) ==
    \A o \in Objs : os[o].refcnt = Cardinality(Holders(cs, o)) + (IF o = x THEN 1 ELSE 0)

(* One object per inode number, with what its file holds.                   *)
Coherent(os, fs) ==
    /\ \A o \in Objs : os[o].refcnt > 0 =>
          /\ os[o].file \in Vhds /\ os[o].ino = Ino[os[o].file] /\ os[o].view = fs[os[o].file]
          /\ ~os[o].ro => Access[os[o].file] = "0"
    /\ \A o, p \in Objs : os[o].refcnt > 0 /\ os[p].refcnt > 0 /\ os[o].ino = os[p].ino => o = p

Placed(fs) ==
    \A i \in Vhds, s \in 0 .. Size - 1 :
        LET k == fs[i][s][2]
        IN  fs[i][s] # NoTag =>
                /\ Access[i] = "0" /\ fs[i][s][1] = Ino[i]
                /\ k # 0 => s >= Start[i][k] /\ s < Start[i][k] + Blocks[i][k]

IoIInv ==
    /\ IoTyped /\ Mapped(map, kernel) /\ Apart(map, obj) /\ Users(map, ctx)
    /\ Linked(ctx, obj) /\ Held(ctx, obj, 0) /\ Coherent(obj, file) /\ Placed(file)

LEMMA Finite ==
    /\ IsFiniteSet(Inos) /\ Cardinality(Inos) \in Nat /\ Inos \in SUBSET Nat
    /\ IsFiniteSet(Objs) /\ Cardinality(Objs) = Cardinality(Inos) + 1
    /\ Objs \in SUBSET (Nat \ {0})
  <1> DEFINE f == [i \in Files |-> Ino[i]]
  <1>1. f \in Surjection(Files, Inos)
    BY DEF Surjection, Inos
  <1>2. IsFiniteSet(Files)
    BY VhdIoAssumption
  <1> HIDE DEF f
  <1>3. IsFiniteSet(Inos) /\ Cardinality(Inos) \in Nat
    BY <1>1, <1>2, FS_Surjection, FS_CardinalityType
  <1>4. IsFiniteSet(Objs) /\ Cardinality(Objs) = Cardinality(Inos) + 1
    BY <1>3, FS_Interval DEF Objs
  <1>5. Inos \in SUBSET Nat
    BY VhdIoAssumption DEF Inos
  <1> QED BY <1>3, <1>4, <1>5 DEF Objs

LEMMA NoZero == 0 \notin Objs /\ 0 \notin Ctxs
  BY VhdIoAssumption, Finite

LEMMA HoldersNat ==
    ASSUME NEW cs, NEW o
    PROVE  IsFiniteSet(Holders(cs, o)) /\ Cardinality(Holders(cs, o)) \in Nat
  BY VhdIoAssumption, FS_Subset, FS_CardinalityType DEF Holders

LEMMA FdsOfNat ==
    ASSUME NEW m, NEW c
    PROVE  IsFiniteSet(FdsOf(m, c)) /\ Cardinality(FdsOf(m, c)) \in Nat
  BY VhdIoAssumption, FS_Subset, FS_CardinalityType DEF FdsOf

(* An object that no context holds is none's.                               *)
LEMMA NoneHolds ==
    ASSUME NEW cs, NEW o, Cardinality(Holders(cs, o)) = 0
    PROVE  \A c \in Ctxs : cs[c].users > 0 => cs[c].obj # o
  <1>1. Holders(cs, o) = {}
    BY HoldersNat, FS_EmptySet
  <1> QED BY <1>1 DEF Holders

LEMMA SomeHolds ==
    ASSUME NEW cs, NEW c \in Ctxs, cs[c].users > 0
    PROVE  Cardinality(Holders(cs, cs[c].obj)) > 0
  <1>1. Cardinality(Holders(cs, cs[c].obj)) # 0
    BY NoneHolds
  <1> QED BY <1>1, HoldersNat

LEMMA NoneOpen ==
    NoCtx \in CtxSet /\ NoCtx.users = 0 /\ NoCtx.lost = 0 /\ NoObj \in ObjSet /\ NoObj.refcnt = 0
  <1>1. Untouched \in Data
    BY DEF Untouched, Data, NoTag
  <1>2. NoCtx \in CtxSet /\ NoCtx.users = 0 /\ NoCtx.lost = 0
    BY DEF NoCtx, CtxSet
  <1> HIDE DEF Untouched
  <1>3. NoObj \in ObjSet /\ NoObj.refcnt = 0
    BY <1>1 DEF NoObj, ObjSet
  <1> QED BY <1>2, <1>3

LEMMA IoStart == IoInit => IoIInv
  <1> SUFFICES ASSUME IoInit PROVE IoIInv
    OBVIOUS
  <1>1. IoTyped
    <2>1. Untouched \in Data
      BY DEF Untouched, Data, NoTag
    <2> QED BY <2>1, NoneOpen DEF IoInit, IoTyped, Kinds
  <1>2. \A c \in Ctxs : ctx[c].users = 0 /\ ctx[c].lost = 0
    BY NoneOpen DEF IoInit
  <1>3. \A o \in Objs : obj[o].refcnt = 0
    BY NoneOpen DEF IoInit
  <1>4. Mapped(map, kernel) /\ Apart(map, obj)
    BY <1>3 DEF IoInit, Mapped, Apart
  <1>5. Users(map, ctx)
    <2>1. \A c \in Ctxs : FdsOf(map, c) = {}
      BY NoZero DEF FdsOf, IoInit
    <2> QED BY <1>2, <2>1, FS_EmptySet DEF Users
  <1>6. Linked(ctx, obj)
    BY <1>2 DEF Linked
  <1>7. Held(ctx, obj, 0)
    <2>1. \A o : Holders(ctx, o) = {}
      BY <1>2 DEF Holders
    <2> QED BY <1>3, <2>1, FS_EmptySet, NoZero DEF Held
  <1>8. Coherent(obj, file)
    BY <1>3 DEF Coherent
  <1>9. Placed(file)
    BY DEF Placed, IoInit, Untouched
  <1> QED BY <1>1, <1>4, <1>5, <1>6, <1>7, <1>8, <1>9 DEF IoIInv

(****************************** objects **********************************)
(* There are more objects than inode numbers: one is free.                  *)
LEMMA FreeObj ==
    ASSUME IoIInv
    PROVE  Objs \ LiveObjs # {} /\ Objs \ LiveObjs \in SUBSET Nat
  <1>1. SUFFICES ASSUME Objs \subseteq LiveObjs PROVE FALSE
    BY Finite
  <1> DEFINE f == [o \in Objs |-> obj[o].ino]
  <1>2. \A o \in Objs : obj[o].refcnt > 0 /\ obj[o].ino \in Inos
    <2> TAKE o \in Objs
    <2>1. obj[o].refcnt > 0
      BY <1>1 DEF LiveObjs
    <2>2. obj[o].file \in Files /\ obj[o].ino = Ino[obj[o].file]
      BY <2>1, VhdIoAssumption DEF IoIInv, Coherent
    <2> QED BY <2>1, <2>2 DEF Inos
  <1>3. f \in [Objs -> Inos]
    BY <1>2
  <1>4. Cardinality(Inos) < Cardinality(Objs)
    BY Finite
  <1>5. \A o, p \in Objs : f[o] = f[p] => o = p
    BY <1>2 DEF IoIInv, Coherent
  <1> HIDE DEF f
  <1>6. \E o, p \in Objs : o # p /\ f[o] = f[p]
    <2>1. IsFiniteSet(Objs) /\ IsFiniteSet(Inos)
      BY Finite
    <2> QED BY <1>3, <1>4, <2>1, FS_PigeonHole
  <1> QED BY <1>5, <1>6

LEMMA FreeIs ==
    ASSUME NEW os, FreeIn(os) # {}
    PROVE  /\ Least(FreeIn(os)) \in Fds /\ Least(FreeIn(os)) \in Nat
           /\ kernel[Least(FreeIn(os))] = "closed"
           /\ \A o \in Objs : os[o].refcnt > 0 => os[o].fd # Least(FreeIn(os))
  <1>1. FreeIn(os) \in SUBSET Nat
    BY VhdIoAssumption DEF FreeIn
  <1>2. Least(FreeIn(os)) \in FreeIn(os)
    BY <1>1, LeastIs
  <1> HIDE DEF Least
  <1> QED BY <1>1, <1>2 DEF FreeIn

(* Objects that stay, and keep what contexts know them by.                  *)
SameParts(os, ps) ==
    \A o \in Objs : /\ os[o].refcnt > 0 <=> ps[o].refcnt > 0
                    /\ ps[o].file = os[o].file /\ ps[o].ino = os[o].ino
                    /\ ps[o].ro = os[o].ro /\ ps[o].fd = os[o].fd

LEMMA SamePartsKeep ==
    ASSUME NEW os, NEW ps, SameParts(os, ps), NEW m, NEW cs
    PROVE  /\ Apart(m, os) => Apart(m, ps)
           /\ Linked(cs, os) => Linked(cs, ps)
  <1>1. Apart(m, os) => Apart(m, ps)
    BY DEF SameParts, Apart
  <1>2. Linked(cs, os) => Linked(cs, ps)
    BY DEF SameParts, Linked, PartOf
  <1> QED BY <1>1, <1>2

(* What an open leaves behind: an object of its own that one more holds.    *)
Opens(g, path) ==
    \/ /\ g.err = "0" /\ g.obj \in Objs /\ g.objs \in [Objs -> ObjSet]
       /\ File[path] \in Files /\ g.objs[g.obj].ino = Ino[File[path]]
       /\ Held(ctx, g.objs, g.obj) /\ Coherent(g.objs, file) /\ Linked(ctx, g.objs)
       /\ Apart(map, g.objs)
    \/ g.err # "0" /\ g.objs = obj

(* another holds the object that there is                                   *)
LEMMA ShareObj ==
    ASSUME IoIInv, NEW path \in Paths, File[path] \in Files, NEW o \in SameIno(path)
    PROVE  Opens(Shared(o, obj), path)
  <1> DEFINE g == Shared(o, obj)
             r == [obj[o] EXCEPT !.refcnt = @ + 1]
  <1>1. o \in Objs /\ obj[o].refcnt > 0 /\ obj[o].ino = Ino[File[path]] /\ obj[o] \in ObjSet
    BY DEF SameIno, LiveObjs, IoIInv, IoTyped
  <1>2. /\ r \in ObjSet /\ r.refcnt = obj[o].refcnt + 1 /\ r.file = obj[o].file
        /\ r.ino = obj[o].ino /\ r.ro = obj[o].ro /\ r.fd = obj[o].fd /\ r.view = obj[o].view
    BY <1>1 DEF ObjSet
  <1>3. g.err = "0" /\ g.obj = o /\ g.objs = [obj EXCEPT ![o] = r]
    BY DEF Shared, Got
  <1> HIDE DEF r, g
  <1>4. /\ g.objs \in [Objs -> ObjSet] /\ g.objs[o] = r
        /\ \A p \in Objs \ {o} : g.objs[p] = obj[p]
    BY <1>1, <1>2, <1>3 DEF IoIInv, IoTyped
  <1>5. obj[o].refcnt \in Nat /\ r.refcnt > 0
    BY <1>1, <1>2 DEF ObjSet
  <1>6. SameParts(obj, g.objs)
    BY <1>1, <1>2, <1>4, <1>5 DEF SameParts
  <1>7. Held(ctx, g.objs, o)
    BY <1>1, <1>2, <1>4, NoZero, HoldersNat DEF Held, IoIInv
  <1>8. Coherent(g.objs, file)
    <2>1. \A p \in Objs : g.objs[p].view = obj[p].view
      BY <1>2, <1>4
    <2> QED BY <1>6, <2>1 DEF SameParts, Coherent, IoIInv
  <1>9. Linked(ctx, g.objs) /\ Apart(map, g.objs)
    BY <1>6, SamePartsKeep DEF IoIInv
  <1>10. g.objs[o].ino = Ino[File[path]]
    BY <1>1, <1>2, <1>4
  <1>11. Opens(g, path)
    BY <1>1, <1>3, <1>4, <1>7, <1>8, <1>9, <1>10 DEF Opens
  <1> QED BY <1>11 DEF g

(* a new object, whose descriptor has no context                            *)
LEMMA AddObj ==
    ASSUME IoIInv, NEW path \in Paths, File[path] \in Vhds, SameIno(path) = {},
           FreeIn(obj) # {}, map[Least(FreeIn(obj))] = 0
    PROVE  Opens(Added(path), path)
  <1> DEFINE g   == Added(path)
             new == Least(Objs \ LiveObjs)
             i   == File[path]
             r   == NewObj(path)
  <1>1. new \in Objs /\ ~(obj[new].refcnt > 0)
    <2>1. new \in Objs \ LiveObjs
      BY FreeObj, LeastIs
    <2> QED BY <2>1 DEF LiveObjs
  <1>2. i \in Files /\ Ino[i] \in Nat /\ file[i] \in Data
    BY VhdIoAssumption DEF IoIInv, IoTyped
  <1>3. Least(FreeIn(obj)) \in Nat
    BY FreeIs
  <1>4. /\ r \in ObjSet /\ r.refcnt = 1 /\ r.file = i /\ r.ino = Ino[i] /\ r.view = file[i]
        /\ r.fd = Least(FreeIn(obj)) /\ (~r.ro => Access[i] = "0")
    BY <1>2, <1>3 DEF NewObj, ObjSet
  <1>5. g.err = "0" /\ g.obj = new /\ g.objs = [obj EXCEPT ![new] = r]
    BY DEF Added, Got
  <1> HIDE DEF r, g, new
  <1>6. /\ g.objs \in [Objs -> ObjSet] /\ g.objs[new] = r
        /\ \A o \in Objs \ {new} : g.objs[o] = obj[o]
    BY <1>1, <1>4, <1>5 DEF IoIInv, IoTyped
  <1>7. obj[new].refcnt = 0 /\ Cardinality(Holders(ctx, new)) = 0
    <2>1. obj[new].refcnt \in Nat
      BY <1>1 DEF IoIInv, IoTyped, ObjSet
    <2>2. obj[new].refcnt = Cardinality(Holders(ctx, new)) + 0
      BY <1>1, NoZero DEF IoIInv, Held
    <2> QED BY <1>1, <2>1, <2>2, HoldersNat
  <1>8. Held(ctx, g.objs, new)
    BY <1>1, <1>4, <1>6, <1>7, NoZero, HoldersNat DEF Held, IoIInv
  <1>9. Coherent(g.objs, file)
    <2>1. \A o \in Objs : obj[o].refcnt > 0 => obj[o].ino # Ino[i]
      BY DEF LiveObjs, SameIno
    <2> HIDE DEF i
    <2>2. i \in Vhds
      BY DEF i
    <2>3. ASSUME NEW o \in Objs, g.objs[o].refcnt > 0
          PROVE  /\ g.objs[o].file \in Vhds /\ g.objs[o].ino = Ino[g.objs[o].file]
                 /\ g.objs[o].view = file[g.objs[o].file]
                 /\ ~g.objs[o].ro => Access[g.objs[o].file] = "0"
      <3>1. CASE o = new
        BY <1>4, <1>6, <2>2, <3>1
      <3>2. CASE o # new
        BY <1>6, <2>3, <3>2 DEF Coherent, IoIInv
      <3> QED BY <3>1, <3>2
    <2>4. ASSUME NEW o \in Objs, NEW p \in Objs, g.objs[o].refcnt > 0, g.objs[p].refcnt > 0,
                 g.objs[o].ino = g.objs[p].ino
          PROVE  o = p
      <3>1. g.objs[new].ino = Ino[i]
        BY <1>1, <1>4, <1>6
      <3>2. CASE o # new /\ p # new
        <4>1. g.objs[o] = obj[o] /\ g.objs[p] = obj[p]
          BY <1>6, <3>2
        <4> QED BY <2>4, <4>1 DEF Coherent, IoIInv
      <3>3. ASSUME NEW q \in Objs, q # new, g.objs[q].refcnt > 0 PROVE g.objs[q].ino # Ino[i]
        BY <1>6, <2>1, <3>3
      <3> QED BY <2>4, <3>1, <3>2, <3>3
    <2> QED BY <2>3, <2>4 DEF Coherent
  <1>10. Linked(ctx, g.objs)
    <2>1. \A c \in Ctxs : ctx[c].users > 0 => ctx[c].obj # new
      BY <1>7, NoneHolds
    <2> SUFFICES ASSUME NEW c \in Ctxs, ctx[c].users > 0 PROVE PartOf(ctx[c], g.objs)
      BY DEF Linked
    <2>2. PartOf(ctx[c], obj)
      BY DEF Linked, IoIInv
    <2>3. g.objs[ctx[c].obj] = obj[ctx[c].obj]
      BY <1>6, <2>1, <2>2 DEF PartOf
    <2> QED BY <2>2, <2>3 DEF PartOf
  <1>11. Apart(map, g.objs)
    BY <1>4, <1>6 DEF Apart, IoIInv
  <1>12. Opens(g, path)
    BY <1>1, <1>2, <1>4, <1>5, <1>6, <1>8, <1>9, <1>10, <1>11 DEF Opens
  <1> QED BY <1>12 DEF g

LEMMA GetVhd ==
    ASSUME IoIInv, NEW path \in Paths, NEW flags, NEW io,
           Guess[path] = "0", ~Astray(path, flags)
    PROVE  Opens(get_vhd(path, flags, io), path)
  <1> DEFINE err == refusal(path, flags, io)
             g   == get_vhd(path, flags, io)
             old == Least(SameIno(path))
  <1>1. CASE err # "0"
    <2>1. g = Got(0, obj, err)
      BY <1>1 DEF get_vhd
    <2> HIDE DEF g, err
    <2>2. g.err # "0" /\ g.objs = obj
      BY <1>1, <2>1 DEF Got
    <2>3. Opens(g, path)
      BY <2>2 DEF Opens
    <2> QED BY <2>3 DEF g
  <1>2. CASE err = "0" /\ SameIno(path) # {}
    <2>1. g = Shared(old, obj)
      BY <1>2 DEF get_vhd
    <2>2. old \in SameIno(path)
      <3>1. SameIno(path) \in SUBSET Nat
        BY Finite DEF SameIno, LiveObjs
      <3> QED BY <1>2, <3>1, LeastIs
    <2>3. File[path] \in Files
      BY <1>2, VhdIoAssumption DEF refusal
    <2> HIDE DEF old, g
    <2>4. Opens(g, path)
      BY <2>1, <2>2, <2>3, ShareObj
    <2> QED BY <2>4 DEF g
  <1>3. CASE err = "0" /\ SameIno(path) = {}
    <2>1. g = Added(path)
      BY <1>3 DEF get_vhd
    <2> HIDE DEF g
    <2>2. /\ File[path] # 0 /\ denied(path, flags) = "0"
          /\ FreeIn(obj) # {} /\ File[path] \in Vhds
      BY <1>3 DEF refusal
    <2>3. map[Least(FreeIn(obj))] = 0
      BY <1>3, <2>2 DEF Astray
    <2>4. Opens(g, path)
      BY <1>3, <2>1, <2>2, <2>3, AddObj
    <2> QED BY <2>4 DEF g
  <1> QED BY <1>1, <1>2, <1>3

(* What one holder gives back, nobody else loses.                           *)
LEMMA PutVhd ==
    ASSUME NEW cs, NEW os \in [Objs -> ObjSet], NEW o \in Objs, NEW fs, NEW m,
           Held(cs, os, o), Coherent(os, fs), Linked(cs, os), Apart(m, os)
    PROVE  LET ps == put_vhd(os, o)
           IN  /\ ps \in [Objs -> ObjSet] /\ Held(cs, ps, 0)
               /\ Coherent(ps, fs) /\ Linked(cs, ps) /\ Apart(m, ps)
  <1> DEFINE ps == put_vhd(os, o)
  <1>1. /\ os[o].refcnt \in Nat /\ os[o].refcnt = Cardinality(Holders(cs, o)) + 1
        /\ os[o] \in ObjSet
    BY DEF ObjSet, Held
  <1>2. CASE os[o].refcnt = 1
    <2>1. ps = [os EXCEPT ![o] = NoObj]
      BY <1>2 DEF put_vhd
    <2>2. /\ ps \in [Objs -> ObjSet] /\ ps[o].refcnt = 0
          /\ \A p \in Objs \ {o} : ps[p] = os[p]
      BY <2>1, NoneOpen
    <2> HIDE DEF ps
    <2>3. Cardinality(Holders(cs, o)) = 0
      BY <1>1, <1>2, HoldersNat
    <2>4. Held(cs, ps, 0)
      BY <2>2, <2>3, NoZero DEF Held
    <2>5. Coherent(ps, fs)
      BY <2>2 DEF Coherent
    <2>6. Linked(cs, ps)
      <3> SUFFICES ASSUME NEW c \in Ctxs, cs[c].users > 0 PROVE PartOf(cs[c], ps)
        BY DEF Linked
      <3>1. cs[c].obj # o /\ PartOf(cs[c], os)
        BY <2>3, NoneHolds DEF Linked
      <3>2. ps[cs[c].obj] = os[cs[c].obj]
        BY <2>2, <3>1 DEF PartOf
      <3> QED BY <3>1, <3>2 DEF PartOf
    <2>7. Apart(m, ps)
      BY <2>2 DEF Apart
    <2> QED BY <2>2, <2>4, <2>5, <2>6, <2>7 DEF ps
  <1>3. CASE os[o].refcnt # 1
    <2>1. ps = [os EXCEPT ![o].refcnt = @ - 1]
      BY <1>3 DEF put_vhd
    <2>2. os[o].refcnt > 1 /\ os[o].refcnt - 1 \in Nat
      BY <1>1, <1>3, HoldersNat
    <2> DEFINE r == [os[o] EXCEPT !.refcnt = @ - 1]
    <2>3. /\ r \in ObjSet /\ r.refcnt = os[o].refcnt - 1 /\ r.file = os[o].file
          /\ r.ino = os[o].ino /\ r.ro = os[o].ro /\ r.fd = os[o].fd /\ r.view = os[o].view
      BY <1>1, <2>2 DEF ObjSet
    <2>4. ps = [os EXCEPT ![o] = r]
      BY <2>1
    <2> HIDE DEF r
    <2>5. /\ ps \in [Objs -> ObjSet] /\ ps[o] = r /\ \A p \in Objs \ {o} : ps[p] = os[p]
      BY <2>3, <2>4
    <2> HIDE DEF ps
    <2>6. SameParts(os, ps)
      <3>1. r.refcnt > 0 /\ os[o].refcnt > 0
        <4>1. os[o].refcnt \in Int /\ r.refcnt = os[o].refcnt - 1
          BY <1>1, <2>3
        <4> QED BY <2>2, <4>1
      <3> QED BY <2>3, <2>5, <3>1 DEF SameParts
    <2>7. Held(cs, ps, 0)
      BY <1>1, <2>3, <2>5, NoZero, HoldersNat DEF Held
    <2>8. Coherent(ps, fs)
      <3>1. \A p \in Objs : ps[p].view = os[p].view
        BY <2>3, <2>5
      <3> QED BY <2>6, <3>1 DEF SameParts, Coherent
    <2> QED BY <2>5, <2>6, <2>7, <2>8, SamePartsKeep DEF ps
  <1> QED BY <1>2, <1>3

(* The object of an open that fails after all is given back.                *)
LEMMA PutOpened ==
    ASSUME NEW g, NEW path, Opens(g, path), g.err = "0"
    PROVE  LET ps == put_vhd(g.objs, g.obj)
           IN  /\ ps \in [Objs -> ObjSet] /\ Held(ctx, ps, 0)
               /\ Coherent(ps, file) /\ Linked(ctx, ps) /\ Apart(map, ps)
  BY PutVhd DEF Opens

(* vhd_open: an open that fails holds no object                             *)
Failed(g) ==
    /\ g.err # "0" /\ g.objs \in [Objs -> ObjSet] /\ Held(ctx, g.objs, 0)
    /\ Coherent(g.objs, file) /\ Linked(ctx, g.objs) /\ Apart(map, g.objs)

LEMMA VhdOpen ==
    ASSUME IoIInv, NEW path \in Paths, NEW flags, NEW io, ~Astray(path, flags)
    PROVE  LET g == vhd_open(path, flags, io) IN (g.err = "0" /\ Opens(g, path)) \/ Failed(g)
  <1> DEFINE g == vhd_open(path, flags, io)
             h == get_vhd(path, flags, io)
  <1>1. CASE Guess[path] # "0"
    <2>1. g = Got(0, obj, Guess[path])
      BY <1>1 DEF vhd_open
    <2> HIDE DEF g
    <2>2. g.err # "0" /\ g.objs = obj
      BY <1>1, <2>1 DEF Got
    <2> QED BY <2>2 DEF Failed, IoIInv, IoTyped, g
  <1>2. CASE Guess[path] = "0"
    <2>1. Opens(h, path)
      BY <1>2, GetVhd
    <2>2. \/ g = h
          \/ /\ h.err = "0" /\ init_partition(h, path, io) # "0"
             /\ g = Got(0, put_vhd(h.objs, h.obj), init_partition(h, path, io))
      BY <1>2 DEF vhd_open
    <2> HIDE DEF g, h
    <2>3. CASE g = h
      <3>1. g.err # "0" => Failed(g)
        BY <2>1, <2>3 DEF Opens, Failed, IoIInv, IoTyped
      <3> QED BY <2>1, <2>3, <3>1 DEF g
    <2>4. CASE /\ h.err = "0" /\ init_partition(h, path, io) # "0"
               /\ g = Got(0, put_vhd(h.objs, h.obj), init_partition(h, path, io))
      <3>1. g.err # "0" /\ g.objs = put_vhd(h.objs, h.obj)
        BY <2>4 DEF Got
      <3>2. Failed(g)
        BY <2>1, <2>4, <3>1, PutOpened DEF Failed
      <3> QED BY <3>2 DEF g
    <2> QED BY <2>2, <2>3, <2>4
  <1> QED BY <1>1, <1>2

(****************************** contexts *********************************)
(* An entry of the map leads from one context to another.                   *)
LEMMA CardSet ==
    ASSUME NEW m, NEW f \in Fds, NEW c, NEW d, NEW m2,
           m2[f] = c, \A e \in Fds \ {f} : m2[e] = m[e]
    PROVE  Cardinality(FdsOf(m2, d)) =
               Cardinality(FdsOf(m, d)) + (IF d = c THEN 1 ELSE 0) - (IF d = m[f] THEN 1 ELSE 0)
  <1>1. m2[f] = c /\ \A e \in Fds \ {f} : m2[e] = m[e]
    OBVIOUS
  <1>2. /\ IsFiniteSet(FdsOf(m, d)) /\ Cardinality(FdsOf(m, d)) \in Nat
    BY FdsOfNat
  <1>3. CASE d = c /\ d = m[f]
    <2>1. FdsOf(m2, d) = FdsOf(m, d)
      BY <1>1, <1>3 DEF FdsOf
    <2> QED BY <1>2, <1>3, <2>1
  <1>4. CASE d = c /\ d # m[f]
    <2>1. FdsOf(m2, d) = FdsOf(m, d) \cup {f} /\ f \notin FdsOf(m, d)
      BY <1>1, <1>4 DEF FdsOf
    <2>2. Cardinality(FdsOf(m2, d)) = Cardinality(FdsOf(m, d)) + 1
      BY <1>2, <2>1, FS_AddElement
    <2> QED BY <1>2, <1>4, <2>2
  <1>5. CASE d # c /\ d = m[f]
    <2>1. FdsOf(m2, d) = FdsOf(m, d) \ {f} /\ f \in FdsOf(m, d)
      BY <1>1, <1>5 DEF FdsOf
    <2>2. Cardinality(FdsOf(m2, d)) = Cardinality(FdsOf(m, d)) - 1
      BY <1>2, <2>1, FS_RemoveElement
    <2> QED BY <1>2, <1>5, <2>2
  <1>6. CASE d # c /\ d # m[f]
    <2>1. FdsOf(m2, d) = FdsOf(m, d)
      BY <1>1, <1>6 DEF FdsOf
    <2> QED BY <1>2, <1>6, <2>1
  <1> QED BY <1>3, <1>4, <1>5, <1>6

(* A context that the map leads to is in use.                               *)
LEMMA InUse ==
    ASSUME IoIInv, NEW f \in Fds, map[f] # 0
    PROVE  /\ map[f] \in Ctxs /\ ctx[map[f]].users > 0 /\ ctx[map[f]] \in CtxSet
           /\ Cardinality(FdsOf(map, map[f])) > 0
  <1>1. map[f] \in Ctxs /\ ctx[map[f]] \in CtxSet
    BY DEF IoIInv, IoTyped
  <1>2. f \in FdsOf(map, map[f])
    BY DEF FdsOf
  <1>3. Cardinality(FdsOf(map, map[f])) \in Nat /\ Cardinality(FdsOf(map, map[f])) # 0
    BY <1>2, FdsOfNat, FS_EmptySet
  <1>4. Cardinality(FdsOf(map, map[f])) > 0
    BY <1>3
  <1>5. ctx[map[f]].users > 0
    <2>1. ctx[map[f]].users = Cardinality(FdsOf(map, map[f])) + ctx[map[f]].lost
      BY <1>1 DEF IoIInv, Users
    <2>2. ctx[map[f]].lost \in Nat /\ Cardinality(FdsOf(map, map[f])) \in Nat
      BY <1>1, <1>3 DEF CtxSet
    <2> QED BY <1>4, <2>1, <2>2
  <1> QED BY <1>1, <1>4, <1>5

(* A context in use has its object.                                         *)
LEMMA Serves ==
    ASSUME IoIInv, NEW c \in Ctxs, ctx[c].users > 0
    PROVE  PartOf(ctx[c], obj) /\ ctx[c].obj \in Objs /\ obj[ctx[c].obj].refcnt > 0
  <1>1. PartOf(ctx[c], obj) /\ ctx[c].obj \in Objs
    BY DEF IoIInv, Linked, PartOf
  <1>2. obj[ctx[c].obj].refcnt > 0
    <2>1. obj[ctx[c].obj].refcnt = Cardinality(Holders(ctx, ctx[c].obj)) + 0
      BY <1>1, NoZero DEF IoIInv, Held
    <2> QED BY <2>1, SomeHolds, HoldersNat
  <1> QED BY <1>1, <1>2

(* Contexts that keep their object, part and use.                           *)
SameUse(cs, ds) ==
    \A c \in Ctxs : /\ ds[c].users > 0 <=> cs[c].users > 0
                    /\ ds[c].obj = cs[c].obj /\ ds[c].path = cs[c].path
                    /\ ds[c].start = cs[c].start /\ ds[c].size = cs[c].size

LEMMA SameUseKeeps ==
    ASSUME NEW cs, NEW ds, SameUse(cs, ds), NEW os, NEW x
    PROVE  /\ Held(cs, os, x) => Held(ds, os, x)
           /\ Linked(cs, os) => Linked(ds, os)
  <1>1. \A o : Holders(ds, o) = Holders(cs, o)
    BY DEF SameUse, Holders
  <1>2. Held(cs, os, x) => Held(ds, os, x)
    BY <1>1 DEF Held
  <1>3. Linked(cs, os) => Linked(ds, os)
    BY DEF SameUse, Linked, PartOf
  <1> QED BY <1>2, <1>3

(* map_set: the new context has a user more, the old one loses an entry     *)
LEMMA MapSet ==
    ASSUME IoIInv, NEW f \in Fds, NEW c \in Ctxs, NEW cs \in [Ctxs -> CtxSet],
           Users(map, cs), \A d \in Ctxs : cs[d].lost = ctx[d].lost \/ d # map[f],
           map_set(cs, f, c)
    PROVE  /\ map' \in [Fds -> Ctxs \cup {0}] /\ map'[f] = c
           /\ \A e \in Fds \ {f} : map'[e] = map[e]
           /\ ctx' \in [Ctxs -> CtxSet]
           /\ \A d \in Ctxs : /\ ctx'[d].users = cs[d].users + (IF d = c THEN 1 ELSE 0)
                              /\ ctx'[d].obj = cs[d].obj /\ ctx'[d].path = cs[d].path
                              /\ ctx'[d].start = cs[d].start /\ ctx'[d].size = cs[d].size
           /\ Users(map', ctx')
  <1> DEFINE old == map[f]
  <1>1. /\ map' \in [Fds -> Ctxs \cup {0}] /\ map'[f] = c
        /\ \A e \in Fds \ {f} : map'[e] = map[e]
    BY DEF map_set, IoIInv, IoTyped
  <1>2. ctx' = [d \in Ctxs |-> [cs[d] EXCEPT !.users = cs[d].users + (IF d = c THEN 1 ELSE 0),
                                             !.lost = cs[d].lost + (IF d = old THEN 1 ELSE 0)]]
    BY DEF map_set
  <1> HIDE DEF old
  <1>3. ASSUME NEW d \in Ctxs
        PROVE  /\ ctx'[d] \in CtxSet
               /\ ctx'[d].users = cs[d].users + (IF d = c THEN 1 ELSE 0)
               /\ ctx'[d].lost = cs[d].lost + (IF d = old THEN 1 ELSE 0)
               /\ ctx'[d].obj = cs[d].obj /\ ctx'[d].path = cs[d].path
               /\ ctx'[d].start = cs[d].start /\ ctx'[d].size = cs[d].size
    <2>1. cs[d] \in CtxSet
      OBVIOUS
    <2> DEFINE u == cs[d].users + (IF d = c THEN 1 ELSE 0)
               l == cs[d].lost + (IF d = old THEN 1 ELSE 0)
    <2>2. u \in Nat /\ l \in Nat
      BY <2>1 DEF CtxSet
    <2>3. ctx'[d] = [cs[d] EXCEPT !.users = u, !.lost = l]
      BY <1>2
    <2> HIDE DEF u, l
    <2>4. /\ ctx'[d] \in CtxSet /\ ctx'[d].users = u /\ ctx'[d].lost = l
          /\ ctx'[d].obj = cs[d].obj /\ ctx'[d].path = cs[d].path
          /\ ctx'[d].start = cs[d].start /\ ctx'[d].size = cs[d].size
      BY <2>1, <2>2, <2>3 DEF CtxSet
    <2> QED BY <2>4 DEF u, l
  <1>4. ctx' \in [Ctxs -> CtxSet]
    <2>1. ctx' = [d \in Ctxs |-> ctx'[d]]
      BY <1>2
    <2> QED BY <1>3, <2>1
  <1>5. Users(map', ctx')
    <2> SUFFICES ASSUME NEW d \in Ctxs
                 PROVE  ctx'[d].users = Cardinality(FdsOf(map', d)) + ctx'[d].lost
      BY DEF Users
    <2>1. Cardinality(FdsOf(map', d)) = Cardinality(FdsOf(map, d)) + (IF d = c THEN 1 ELSE 0)
                                                                   - (IF d = old THEN 1 ELSE 0)
      BY <1>1, CardSet DEF old
    <2>2. cs[d].users = Cardinality(FdsOf(map, d)) + cs[d].lost
      BY DEF Users
    <2>3. cs[d].users \in Nat /\ cs[d].lost \in Nat /\ Cardinality(FdsOf(map, d)) \in Nat
      BY FdsOfNat DEF CtxSet
    <2>4. /\ ctx'[d].users = cs[d].users + (IF d = c THEN 1 ELSE 0)
          /\ ctx'[d].lost = cs[d].lost + (IF d = old THEN 1 ELSE 0)
      BY <1>3
    <2> QED BY <2>1, <2>2, <2>3, <2>4
  <1> QED BY <1>1, <1>3, <1>4, <1>5

(* dup, dup2, dup3: newfd becomes another descriptor of f's context         *)
LEMMA CopyStep ==
    ASSUME IoIInv, NEW f \in Fds, NEW newfd \in Fds,
           \A o \in Objs : obj[o].refcnt > 0 => obj[o].fd # newfd,
           copied(f, newfd)
    PROVE  IoIInv'
  <1>1. /\ UNCHANGED <<obj, file>> /\ kernel' \in [Fds -> Kinds]
        /\ \A e \in Fds : kernel'[e] = IF e = newfd THEN kernel[f] ELSE kernel[e]
    BY DEF copied, IoIInv, IoTyped
  <1>2. CASE map[f] = 0
    <2>1. UNCHANGED <<map, ctx>>
      BY <1>2 DEF copied
    <2>2. kernel[f] # "null"
      BY <1>2 DEF IoIInv, Mapped
    <2>3. Mapped(map', kernel')
      BY <1>1, <2>1, <2>2 DEF IoIInv, Mapped
    <2>4. IoTyped'
      BY <1>1, <2>1 DEF IoIInv, IoTyped
    <2> QED BY <1>1, <2>1, <2>3, <2>4 DEF IoIInv
  <1>3. CASE map[f] # 0
    <2> DEFINE c == map[f]
    <2>1. c \in Ctxs /\ ctx[c].users > 0 /\ c # 0
      BY <1>3, InUse
    <2>2. ctx \in [Ctxs -> CtxSet] /\ Users(map, ctx) /\ map_set(ctx, newfd, c)
      BY <1>3 DEF copied, IoIInv, IoTyped
    <2> HIDE DEF c
    <2>3. /\ map' \in [Fds -> Ctxs \cup {0}] /\ map'[newfd] = c
          /\ \A e \in Fds \ {newfd} : map'[e] = map[e]
          /\ ctx' \in [Ctxs -> CtxSet]
          /\ \A d \in Ctxs : /\ ctx'[d].users = ctx[d].users + (IF d = c THEN 1 ELSE 0)
                             /\ ctx'[d].obj = ctx[d].obj /\ ctx'[d].path = ctx[d].path
                             /\ ctx'[d].start = ctx[d].start /\ ctx'[d].size = ctx[d].size
          /\ Users(map', ctx')
      BY <2>1, <2>2, MapSet
    <2>4. SameUse(ctx, ctx')
      <3>1. \A d \in Ctxs : ctx[d].users \in Nat
        BY <2>2 DEF CtxSet
      <3> QED BY <2>1, <2>3, <3>1 DEF SameUse
    <2>5. Mapped(map', kernel')
      BY <1>1, <2>1, <2>3 DEF IoIInv, Mapped
    <2>6. Apart(map', obj')
      BY <1>1, <2>3 DEF IoIInv, Apart
    <2>7. IoTyped'
      BY <1>1, <2>3 DEF IoIInv, IoTyped
    <2> QED BY <1>1, <2>3, <2>4, <2>5, <2>6, <2>7, SameUseKeeps DEF IoIInv
  <1> QED BY <1>2, <1>3

(* an open that succeeds: a new descriptor with a context of its own        *)
LEMMA OpenStep ==
    ASSUME IoIInv, NEW g, NEW path \in Paths, Opens(g, path), g.err = "0",
           NEW newfd \in Fds, \A o \in Objs : g.objs[o].refcnt > 0 => g.objs[o].fd # newfd,
           NEW c \in Ctxs \ LiveCtxs, NEW r \in CtxSet, PartOf(r, g.objs), r.obj = g.obj,
           r.users = 0, r.lost = 0, map_set([ctx EXCEPT ![c] = r], newfd, c),
           kernel' = [kernel EXCEPT ![newfd] = "null"], obj' = g.objs, UNCHANGED file
    PROVE  IoIInv'
  <1> DEFINE cs == [ctx EXCEPT ![c] = r]
  <1>1. /\ g.obj \in Objs /\ g.objs \in [Objs -> ObjSet] /\ Held(ctx, g.objs, g.obj)
        /\ Coherent(g.objs, file) /\ Linked(ctx, g.objs) /\ Apart(map, g.objs)
    BY DEF Opens
  <1>2. ctx[c].users = 0 /\ ctx[c] \in CtxSet
    <2>1. ctx[c].users \in Nat /\ ctx[c] \in CtxSet
      BY DEF IoIInv, IoTyped, CtxSet
    <2> QED BY <2>1 DEF LiveCtxs
  <1>3. ctx[c].lost = 0 /\ Cardinality(FdsOf(map, c)) = 0
    <2>1. ctx[c].users = Cardinality(FdsOf(map, c)) + ctx[c].lost
      BY DEF IoIInv, Users
    <2>2. ctx[c].lost \in Nat /\ Cardinality(FdsOf(map, c)) \in Nat
      BY <1>2, FdsOfNat DEF CtxSet
    <2> QED BY <1>2, <2>1, <2>2
  <1>4. cs \in [Ctxs -> CtxSet] /\ cs[c] = r /\ \A d \in Ctxs \ {c} : cs[d] = ctx[d]
    BY DEF IoIInv, IoTyped
  <1>5. Users(map, cs)
    BY <1>3, <1>4 DEF IoIInv, Users
  <1>6. \A d \in Ctxs : cs[d].lost = ctx[d].lost
    BY <1>3, <1>4
  <1>7. map_set(cs, newfd, c)
    OBVIOUS
  <1> HIDE DEF cs
  <1>8. /\ map' \in [Fds -> Ctxs \cup {0}] /\ map'[newfd] = c
        /\ \A e \in Fds \ {newfd} : map'[e] = map[e]
        /\ ctx' \in [Ctxs -> CtxSet]
        /\ \A d \in Ctxs : /\ ctx'[d].users = cs[d].users + (IF d = c THEN 1 ELSE 0)
                           /\ ctx'[d].obj = cs[d].obj /\ ctx'[d].path = cs[d].path
                           /\ ctx'[d].start = cs[d].start /\ ctx'[d].size = cs[d].size
        /\ Users(map', ctx')
    BY <1>4, <1>5, <1>6, <1>7, MapSet
  <1>9. /\ ctx'[c].users = 1 /\ ctx'[c].obj = g.obj
        /\ \A d \in Ctxs \ {c} : /\ ctx'[d].users = ctx[d].users /\ ctx'[d].obj = ctx[d].obj
                                 /\ ctx'[d].path = ctx[d].path
                                 /\ ctx'[d].start = ctx[d].start /\ ctx'[d].size = ctx[d].size
    <2>1. \A d \in Ctxs : cs[d].users \in Nat
      BY <1>4 DEF CtxSet
    <2> QED BY <1>4, <1>8, <2>1
  <1>10. IoTyped'
    BY <1>1, <1>8 DEF IoIInv, IoTyped, Kinds
  <1>11. Mapped(map', kernel')
    BY <1>8, NoZero DEF IoIInv, Mapped, IoTyped
  <1>12. Apart(map', obj')
    BY <1>1, <1>8 DEF Apart
  <1>13. Linked(ctx', obj')
    <2> SUFFICES ASSUME NEW d \in Ctxs, ctx'[d].users > 0 PROVE PartOf(ctx'[d], g.objs)
      BY DEF Linked
    <2>1. CASE d = c
      <3>1. /\ ctx'[d].path = r.path /\ ctx'[d].obj = r.obj
            /\ ctx'[d].start = r.start /\ ctx'[d].size = r.size
        BY <1>4, <1>8, <2>1
      <3> QED BY <3>1 DEF PartOf
    <2>2. CASE d # c
      <3>1. PartOf(ctx[d], g.objs)
        BY <1>1, <1>9, <2>2 DEF Linked
      <3> QED BY <1>9, <2>2, <3>1 DEF PartOf
    <2> QED BY <2>1, <2>2
  <1>14. Held(ctx', obj', 0)
    <2> SUFFICES ASSUME NEW o \in Objs
                 PROVE  g.objs[o].refcnt = Cardinality(Holders(ctx', o)) + (IF o = 0 THEN 1 ELSE 0)
      BY DEF Held
    <2>1. o # 0 /\ g.objs[o].refcnt = Cardinality(Holders(ctx, o)) + (IF o = g.obj THEN 1 ELSE 0)
      BY <1>1, NoZero DEF Held
    <2>2. IsFiniteSet(Holders(ctx, o)) /\ Cardinality(Holders(ctx, o)) \in Nat
      BY HoldersNat
    <2>3. CASE o = g.obj
      <3>1. Holders(ctx', o) = Holders(ctx, o) \cup {c} /\ c \notin Holders(ctx, o)
        BY <1>2, <1>9, <2>3 DEF Holders
      <3>2. Cardinality(Holders(ctx', o)) = Cardinality(Holders(ctx, o)) + 1
        BY <2>2, <3>1, FS_AddElement
      <3> QED BY <2>1, <2>2, <2>3, <3>2
    <2>4. CASE o # g.obj
      <3>1. Holders(ctx', o) = Holders(ctx, o)
        BY <1>2, <1>9, <2>4 DEF Holders
      <3> QED BY <2>1, <2>2, <2>4, <3>1
    <2> QED BY <2>3, <2>4
  <1> QED BY <1>1, <1>8, <1>10, <1>11, <1>12, <1>13, <1>14 DEF IoIInv

(* an open that fails, and stat: objects come and go, nobody holds on       *)
LEMMA ObjStep ==
    ASSUME IoIInv, obj' \in [Objs -> ObjSet], Held(ctx, obj', 0), Coherent(obj', file),
           Linked(ctx, obj'), Apart(map, obj'), kernel' \in [Fds -> Kinds],
           \A f \in Fds : kernel'[f] = "null" => kernel[f] = "null",
           UNCHANGED <<map, ctx, file>>
    PROVE  IoIInv'
  <1>1. IoTyped' /\ Mapped(map', kernel')
    BY DEF IoIInv, IoTyped, Mapped
  <1> QED BY <1>1 DEF IoIInv

LEMMA PlainStep ==
    ASSUME IoIInv, kernel' \in [Fds -> Kinds],
           \A f \in Fds : kernel'[f] = "null" => kernel[f] = "null",
           UNCHANGED <<map, ctx, obj, file>>
    PROVE  IoIInv'
  BY ObjStep DEF IoIInv, IoTyped

(* what is no vhd is opened itself                                          *)
LEMMA StdOpen ==
    ASSUME IoIInv, NEW os, std_open(os)
    PROVE  /\ kernel' \in [Fds -> Kinds]
           /\ \A f \in Fds : kernel'[f] = "null" => kernel[f] = "null"
  <1>1. kernel \in [Fds -> Kinds]
    BY DEF IoIInv, IoTyped
  <1>2. kernel' = kernel \/ kernel' = [kernel EXCEPT ![Least(FreeIn(os))] = "file"]
    BY DEF std_open, gets
  <1> QED BY <1>1, <1>2 DEF Kinds

(* A context loses an entry of the map, and with the last one its object:   *)
(* close, or libvhd when it closes a number that had one.                   *)
Left(c) ==
    /\ ctx' \in [Ctxs -> CtxSet]
    /\ \A d \in Ctxs : /\ ctx'[d].users = ctx[d].users - (IF d = c THEN 1 ELSE 0)
                       /\ ctx'[d].lost = ctx[d].lost
                       /\ ctx'[d].obj = ctx[d].obj /\ ctx'[d].path = ctx[d].path
                       /\ ctx'[d].start = ctx[d].start /\ ctx'[d].size = ctx[d].size

Cleared(f) ==
    /\ map' = [map EXCEPT ![f] = 0]
    /\ \/ map[f] = 0 /\ UNCHANGED <<ctx, obj>>
       \/ map[f] # 0 /\ ctx[map[f]].users > 1 /\ Left(map[f]) /\ UNCHANGED obj
       \/ /\ map[f] # 0 /\ ~(ctx[map[f]].users > 1)
          /\ ctx' = [ctx EXCEPT ![map[f]] = NoCtx] /\ obj' = put_vhd(obj, ctx[map[f]].obj)

LEMMA ClearStep ==
    ASSUME IoIInv, NEW f \in Fds, Cleared(f), kernel' \in [Fds -> Kinds], UNCHANGED file,
           \A e \in Fds : kernel'[e] = "null" => kernel[e] = "null" /\ e # f
    PROVE  IoIInv'
  <1> DEFINE c == map[f]
  <1>1. /\ map' \in [Fds -> Ctxs \cup {0}] /\ map'[f] = 0
        /\ \A e \in Fds \ {f} : map'[e] = map[e]
    BY DEF Cleared, IoIInv, IoTyped
  <1>2. Mapped(map', kernel')
    BY <1>1 DEF IoIInv, Mapped
  <1>3. ASSUME NEW os, Apart(map, os) PROVE Apart(map', os)
    BY <1>1, <1>3 DEF Apart
  <1>4. \A d \in Ctxs : /\ Cardinality(FdsOf(map', d)) = Cardinality(FdsOf(map, d)) - (IF d = c THEN 1 ELSE 0)
                        /\ Cardinality(FdsOf(map, d)) \in Nat
                        /\ ctx[d].users = Cardinality(FdsOf(map, d)) + ctx[d].lost
                        /\ ctx[d].users \in Nat /\ ctx[d].lost \in Nat
    <2> TAKE d \in Ctxs
    <2>1. Cardinality(FdsOf(map', d)) = Cardinality(FdsOf(map, d)) + (IF d = 0 THEN 1 ELSE 0)
                                                                   - (IF d = c THEN 1 ELSE 0)
      BY <1>1, CardSet
    <2>2. d # 0 /\ Cardinality(FdsOf(map, d)) \in Nat
      BY NoZero, FdsOfNat
    <2> QED BY <2>1, <2>2 DEF IoIInv, Users, IoTyped, CtxSet
  <1>5. CASE c = 0 /\ UNCHANGED <<ctx, obj>>
    <2>1. Users(map', ctx')
      BY <1>4, <1>5, NoZero DEF Users
    <2>2. IoTyped' /\ Apart(map', obj')
      BY <1>1, <1>3, <1>5 DEF IoIInv, IoTyped
    <2> QED BY <1>2, <1>5, <2>1, <2>2 DEF IoIInv
  <1>6. CASE c # 0 /\ ctx[c].users > 1 /\ Left(c) /\ UNCHANGED obj
    <2> HIDE DEF c
    <2>1. Users(map', ctx')
      BY <1>4, <1>6 DEF Users, Left
    <2>2. SameUse(ctx, ctx')
      BY <1>4, <1>6 DEF SameUse, Left
    <2>3. IoTyped' /\ Apart(map', obj')
      BY <1>1, <1>3, <1>6 DEF IoIInv, IoTyped, Left
    <2> QED BY <1>2, <1>6, <2>1, <2>2, <2>3, SameUseKeeps DEF IoIInv
  <1>7. CASE /\ c # 0 /\ ~(ctx[c].users > 1)
             /\ ctx' = [ctx EXCEPT ![c] = NoCtx] /\ obj' = put_vhd(obj, ctx[c].obj)
    <2> DEFINE o == ctx[c].obj
    <2>1. c \in Ctxs /\ ctx[c].users > 0 /\ Cardinality(FdsOf(map, c)) > 0
      BY <1>7, InUse
    <2>2. ctx[c].users = 1 /\ ctx[c].lost = 0 /\ Cardinality(FdsOf(map, c)) = 1
      BY <1>4, <1>7, <2>1
    <2>3. o \in Objs
      BY <2>1, Serves
    <2> HIDE DEF c
    <2>4. /\ ctx' \in [Ctxs -> CtxSet] /\ ctx'[c] = NoCtx
          /\ \A d \in Ctxs \ {c} : ctx'[d] = ctx[d]
      BY <1>7, <2>1, NoneOpen DEF IoIInv, IoTyped
    <2>5. Users(map', ctx')
      BY <1>4, <2>2, <2>4, NoneOpen DEF Users
    <2>6. Linked(ctx', obj)
      BY <2>4, NoneOpen DEF Linked, IoIInv
    <2>7. Held(ctx', obj, o)
      <3> SUFFICES ASSUME NEW p \in Objs
                   PROVE  obj[p].refcnt = Cardinality(Holders(ctx', p)) + (IF p = o THEN 1 ELSE 0)
        BY DEF Held
      <3> HIDE DEF o
      <3>1. obj[p].refcnt = Cardinality(Holders(ctx, p)) + 0
        BY NoZero DEF IoIInv, Held
      <3>2. IsFiniteSet(Holders(ctx, p)) /\ Cardinality(Holders(ctx, p)) \in Nat
        BY HoldersNat
      <3>3. CASE p = o
        <4>1. Holders(ctx', p) = Holders(ctx, p) \ {c} /\ c \in Holders(ctx, p)
          BY <2>1, <2>4, <3>3, NoneOpen DEF Holders, o
        <4>2. Cardinality(Holders(ctx', p)) = Cardinality(Holders(ctx, p)) - 1
          BY <3>2, <4>1, FS_RemoveElement
        <4> QED BY <3>1, <3>2, <3>3, <4>2
      <3>4. CASE p # o
        <4>1. Holders(ctx', p) = Holders(ctx, p)
          BY <2>1, <2>4, <3>4, NoneOpen DEF Holders, o
        <4> QED BY <3>1, <3>2, <3>4, <4>1
      <3> QED BY <3>3, <3>4
    <2>8. /\ obj' \in [Objs -> ObjSet] /\ Held(ctx', obj', 0) /\ Coherent(obj', file)
          /\ Linked(ctx', obj') /\ Apart(map, obj')
      BY <1>7, <2>3, <2>6, <2>7, PutVhd DEF IoIInv, IoTyped
    <2>9. IoTyped' /\ Apart(map', obj')
      BY <1>1, <1>3, <2>4, <2>8 DEF IoIInv, IoTyped
    <2> QED BY <1>2, <2>5, <2>8, <2>9 DEF IoIInv
  <1> QED BY <1>5, <1>6, <1>7 DEF Cleared

(* one of several entries, and maybe another offset                         *)
LEMMA LeftOne ==
    ASSUME IoIInv, NEW f \in Fds, map[f] # 0, ctx[map[f]].users > 1, NEW off \in Nat,
           \/ ctx' = [ctx EXCEPT ![map[f]].users = @ - 1]
           \/ ctx' = [ctx EXCEPT ![map[f]].users = @ - 1, ![map[f]].off = off]
    PROVE  Left(map[f])
  <1> DEFINE c == map[f]
             r == IF ctx' = [ctx EXCEPT ![c].users = @ - 1] THEN [ctx[c] EXCEPT !.users = @ - 1]
                  ELSE [ctx[c] EXCEPT !.users = @ - 1, !.off = off]
  <1>1. c \in Ctxs /\ ctx[c] \in CtxSet /\ ctx \in [Ctxs -> CtxSet]
    BY InUse DEF IoIInv, IoTyped
  <1> HIDE DEF c
  <1>2. ctx[c].users > 1
    BY DEF c
  <1>3. ctx' = [ctx EXCEPT ![c] = r]
    BY <1>1 DEF c
  <1>4. ctx[c].users - 1 \in Nat
    BY <1>1, <1>2 DEF CtxSet
  <1>5. /\ r \in CtxSet /\ r.users = ctx[c].users - 1 /\ r.lost = ctx[c].lost
        /\ r.obj = ctx[c].obj /\ r.path = ctx[c].path
        /\ r.start = ctx[c].start /\ r.size = ctx[c].size
    BY <1>1, <1>4 DEF CtxSet
  <1> HIDE DEF r
  <1>6. ctx' \in [Ctxs -> CtxSet] /\ ctx'[c] = r /\ \A d \in Ctxs \ {c} : ctx'[d] = ctx[d]
    BY <1>1, <1>3, <1>5
  <1>7. \A d \in Ctxs : ctx[d].users \in Nat
    BY <1>1 DEF CtxSet
  <1>8. Left(c)
    BY <1>1, <1>5, <1>6, <1>7 DEF Left
  <1> QED BY <1>8 DEF c

LEMMA MapClear ==
    ASSUME IoIInv, NEW f \in Fds, map_clear(f), kernel' \in [Fds -> Kinds], UNCHANGED file,
           \A e \in Fds : kernel'[e] = "null" => kernel[e] = "null" /\ e # f
    PROVE  IoIInv'
  <1>1. \/ map[f] = 0 /\ UNCHANGED <<ctx, obj>>
        \/ /\ map[f] # 0 /\ ctx[map[f]].users > 1
           /\ ctx' = [ctx EXCEPT ![map[f]].users = @ - 1] /\ UNCHANGED obj
        \/ /\ map[f] # 0 /\ ~(ctx[map[f]].users > 1)
           /\ ctx' = [ctx EXCEPT ![map[f]] = NoCtx] /\ obj' = put_vhd(obj, ctx[map[f]].obj)
    BY DEF map_clear
  <1>2. map' = [map EXCEPT ![f] = 0]
    BY DEF map_clear
  <1>3. 0 \in Nat
    OBVIOUS
  <1>4. Cleared(f)
    BY <1>1, <1>2, <1>3, LeftOne DEF Cleared
  <1> QED BY <1>4, ClearStep

LEMMA CloseStep ==
    ASSUME IoIInv, NEW f \in Fds, close(f)
    PROVE  IoIInv'
  <1>1. kernel' = [kernel EXCEPT ![f] = "closed"] /\ map_clear(f) /\ UNCHANGED file
    BY DEF close
  <1>2. kernel' \in [Fds -> Kinds] /\ \A e \in Fds : kernel'[e] = "null" => kernel[e] = "null" /\ e # f
    BY <1>1 DEF IoIInv, IoTyped, Kinds
  <1> QED BY <1>1, <1>2, MapClear

(* libvhd opens the number of a stream that was closed                      *)
LEMMA AstrayStep ==
    ASSUME IoIInv, FreeIn(obj) # {}, map[Least(FreeIn(obj))] # 0, go_astray,
           UNCHANGED kernel \/ std_open(obj'), UNCHANGED file
    PROVE  IoIInv'
  <1> DEFINE f == Least(FreeIn(obj))
             c == map[f]
  <1>1. f \in Fds /\ kernel[f] = "closed"
    BY FreeIs
  <1>2. /\ kernel' \in [Fds -> Kinds]
        /\ \A e \in Fds : kernel'[e] = "null" => kernel[e] = "null" /\ e # f
    <2>1. /\ kernel' \in [Fds -> Kinds]
          /\ \A e \in Fds : kernel'[e] = "null" => kernel[e] = "null"
      BY StdOpen DEF IoIInv, IoTyped
    <2> QED BY <1>1, <2>1
  <1>3. \/ map_clear(f)
        \/ /\ ctx[c].users > 1 /\ map' = [map EXCEPT ![f] = 0] /\ UNCHANGED obj
           /\ \E off \in 0 .. ctx[c].size :
                  ctx' = [ctx EXCEPT ![c].users = @ - 1, ![c].off = off]
    BY DEF go_astray
  <1>4. CASE map_clear(f)
    <2> HIDE DEF f
    <2> QED BY <1>1, <1>2, <1>4, MapClear
  <1>5. CASE /\ ctx[c].users > 1 /\ map' = [map EXCEPT ![f] = 0] /\ UNCHANGED obj
             /\ \E off \in 0 .. ctx[c].size :
                    ctx' = [ctx EXCEPT ![c].users = @ - 1, ![c].off = off]
    <2>1. c # 0
      OBVIOUS
    <2> HIDE DEF f
    <2>2. PICK off \in 0 .. ctx[c].size : ctx' = [ctx EXCEPT ![c].users = @ - 1, ![c].off = off]
      BY <1>5
    <2>3. off \in Nat
      OBVIOUS
    <2>4. Left(c)
      BY <1>1, <1>5, <2>1, <2>2, <2>3, LeftOne
    <2>5. Cleared(f)
      BY <1>5, <2>1, <2>4 DEF Cleared
    <2> QED BY <1>1, <1>2, <2>5, ClearStep
  <1> QED BY <1>3, <1>4, <1>5

(* a stream is closed, its descriptor's context stays                       *)
LEMMA FcloseStep ==
    ASSUME IoIInv, NEW f \in Fds, fclose(f)
    PROVE  IoIInv'
  <1>1. kernel' = [kernel EXCEPT ![f] = "closed"] /\ UNCHANGED <<map, ctx, obj, file>>
    BY DEF fclose
  <1>2. kernel' \in [Fds -> Kinds] /\ \A e \in Fds : kernel'[e] = "null" => kernel[e] = "null"
    BY <1>1 DEF IoIInv, IoTyped, Kinds
  <1> QED BY <1>1, <1>2, PlainStep

LEMMA FopenWStep ==
    ASSUME IoIInv, fopen_w
    PROVE  IoIInv'
  <1>1. std_open(obj) /\ UNCHANGED <<map, ctx, obj, file>>
    BY DEF fopen_w, std_open, gets
  <1> QED BY <1>1, StdOpen, PlainStep

LEMMA IoOpen ==
    ASSUME IoIInv, NEW path \in Paths, NEW flags, NEW odd, NEW io,
           ~Astray(path, flags), io_open(path, flags, odd, io), UNCHANGED file
    PROVE  IoIInv'
  <1> DEFINE g    == vhd_open(path, flags, io)
             free == FreeIn(g.objs)
             c    == Least(Ctxs \ LiveCtxs)
             k    == Partition[path]
             i    == g.objs[g.obj].file
             r    == [NoCtx EXCEPT !.obj = g.obj, !.path = path,
                          !.start = IF k = 0 THEN 0 ELSE Start[i][k],
                          !.size = IF k = 0 THEN Size ELSE Blocks[i][k],
                          !.wronly = (flags = "w")]
  <1>1. (g.err = "0" /\ Opens(g, path)) \/ Failed(g)
    BY VhdOpen
  <1>2. kernel \in [Fds -> Kinds]
    BY DEF IoIInv, IoTyped
  <1>3. \/ g.err \in {"EINVAL", "ENOENT"} /\ obj' = g.objs /\ std_open(g.objs) /\ UNCHANGED <<map, ctx>>
        \/ g.err \notin {"0", "EINVAL", "ENOENT"} /\ obj' = g.objs /\ UNCHANGED <<kernel, map, ctx>>
        \/ g.err = "0" /\ obj' = put_vhd(g.objs, g.obj) /\ UNCHANGED <<kernel, map, ctx>>
        \/ /\ g.err = "0" /\ free # {} /\ LiveCtxs # Ctxs /\ obj' = g.objs
           /\ map_set([ctx EXCEPT ![c] = r], Least(free), c) /\ gets(g.objs, "null")
    <2>1. CASE g.err \in {"EINVAL", "ENOENT"}
      BY <2>1 DEF io_open
    <2>2. CASE g.err \notin {"0", "EINVAL", "ENOENT"}
      BY <2>2 DEF io_open
    <2>3. CASE g.err = "0" /\ (odd \/ free = {})
      BY <2>3 DEF io_open
    <2>4. CASE g.err = "0" /\ ~(odd \/ free = {})
      BY <2>4 DEF io_open
    <2> QED BY <2>1, <2>2, <2>3, <2>4
  <1> HIDE DEF g
  <1>4. CASE g.err \in {"EINVAL", "ENOENT"} /\ obj' = g.objs /\ std_open(g.objs) /\ UNCHANGED <<map, ctx>>
    <2>1. Failed(g)
      BY <1>1, <1>4
    <2> QED BY <1>4, <2>1, StdOpen, ObjStep DEF Failed
  <1>5. CASE g.err \notin {"0", "EINVAL", "ENOENT"} /\ obj' = g.objs /\ UNCHANGED <<kernel, map, ctx>>
    <2>1. Failed(g)
      BY <1>1, <1>5
    <2> QED BY <1>2, <1>5, <2>1, ObjStep DEF Failed
  <1>6. CASE g.err = "0" /\ obj' = put_vhd(g.objs, g.obj) /\ UNCHANGED <<kernel, map, ctx>>
    <2>1. Opens(g, path)
      BY <1>1, <1>6 DEF Failed
    <2>2. /\ obj' \in [Objs -> ObjSet] /\ Held(ctx, obj', 0) /\ Coherent(obj', file)
          /\ Linked(ctx, obj') /\ Apart(map, obj')
      BY <1>6, <2>1, PutOpened
    <2> QED BY <1>2, <1>6, <2>2, ObjStep
  <1>7. CASE /\ g.err = "0" /\ free # {} /\ LiveCtxs # Ctxs /\ obj' = g.objs
             /\ map_set([ctx EXCEPT ![c] = r], Least(free), c) /\ gets(g.objs, "null")
    <2>1. Opens(g, path)
      BY <1>1, <1>7 DEF Failed
    <2>2. /\ g.obj \in Objs /\ File[path] \in Files /\ g.objs[g.obj].ino = Ino[File[path]]
          /\ Held(ctx, g.objs, g.obj) /\ Coherent(g.objs, file)
      BY <1>7, <2>1 DEF Opens
    <2>3. i \in Vhds
      <3>1. g.objs[g.obj].refcnt = Cardinality(Holders(ctx, g.obj)) + 1
        BY <2>2 DEF Held
      <3>2. g.objs[g.obj].refcnt > 0
        BY <3>1, HoldersNat
      <3> QED BY <2>2, <3>2 DEF Coherent
    <2>4. c \in Ctxs \ LiveCtxs
      <3>1. Ctxs \ LiveCtxs # {} /\ Ctxs \ LiveCtxs \in SUBSET Nat
        BY <1>7, VhdIoAssumption DEF LiveCtxs
      <3> QED BY <3>1, LeastIs
    <2> DEFINE f == Least(free)
    <2>5. f \in Fds /\ \A o \in Objs : g.objs[o].refcnt > 0 => g.objs[o].fd # f
      BY <1>7, FreeIs
    <2>6. /\ kernel' = [kernel EXCEPT ![f] = "null"]
          /\ map_set([ctx EXCEPT ![c] = r], f, c)
      BY <1>7 DEF gets
    <2>7. /\ r \in CtxSet /\ r.users = 0 /\ r.lost = 0 /\ r.obj = g.obj /\ r.path = path
          /\ r.start = IF k = 0 THEN 0 ELSE Start[i][k]
          /\ r.size = IF k = 0 THEN Size ELSE Blocks[i][k]
      <3> DEFINE st == IF k = 0 THEN 0 ELSE Start[i][k]
                 sz == IF k = 0 THEN Size ELSE Blocks[i][k]
                 w  == (flags = "w")
      <3>1. st \in Nat /\ sz \in Nat /\ w \in BOOLEAN /\ g.obj \in Nat
        BY <2>2, <2>3, VhdIoAssumption, Finite
      <3>2. r = [NoCtx EXCEPT !.obj = g.obj, !.path = path, !.start = st, !.size = sz, !.wronly = w]
        OBVIOUS
      <3> HIDE DEF st, sz, w, r
      <3>3. /\ r \in CtxSet /\ r.users = 0 /\ r.lost = 0 /\ r.obj = g.obj /\ r.path = path
            /\ r.start = st /\ r.size = sz
        BY <3>1, <3>2 DEF NoCtx, CtxSet
      <3> QED BY <3>3 DEF st, sz
    <2> HIDE DEF r, c, f
    <2>8. PartOf(r, g.objs)
      BY <2>2, <2>7 DEF PartOf
    <2> QED BY <1>7, <2>1, <2>4, <2>5, <2>6, <2>7, <2>8, OpenStep
  <1> QED BY <1>3, <1>4, <1>5, <1>6, <1>7

(* open and fopen                                                           *)
LEMMA AnyOpen ==
    ASSUME IoIInv, NEW path \in Paths, NEW flags, NEW odd, NEW io, open(path, flags, odd, io)
    PROVE  IoIInv'
  <1>1. CASE Astray(path, flags)
    <2>1. FreeIn(obj) # {} /\ map[Least(FreeIn(obj))] # 0
      BY <1>1 DEF Astray
    <2>2. go_astray /\ (UNCHANGED kernel \/ std_open(obj')) /\ UNCHANGED file
      BY <1>1 DEF open
    <2> QED BY <2>1, <2>2, AstrayStep
  <1>2. CASE ~Astray(path, flags)
    <2>1. io_open(path, flags, odd, io) /\ UNCHANGED file
      BY <1>2 DEF open
    <2> QED BY <1>2, <2>1, IoOpen
  <1> QED BY <1>1, <1>2

LEMMA StatStep ==
    ASSUME IoIInv, NEW path \in Paths, NEW io, stat(path, io)
    PROVE  IoIInv'
  <1>1. CASE Astray(path, "r")
    <2>1. FreeIn(obj) # {} /\ map[Least(FreeIn(obj))] # 0
      BY <1>1 DEF Astray
    <2>2. go_astray /\ UNCHANGED kernel /\ UNCHANGED file
      BY <1>1 DEF stat
    <2> QED BY <2>1, <2>2, AstrayStep
  <1>2. CASE ~Astray(path, "r")
    <2> DEFINE g == vhd_open(path, "r", io)
    <2>1. (g.err = "0" /\ Opens(g, path)) \/ Failed(g)
      BY <1>2, VhdOpen
    <2>2. /\ obj' = IF g.err = "0" THEN put_vhd(g.objs, g.obj) ELSE g.objs
          /\ UNCHANGED <<kernel, map, ctx, file>>
      BY <1>2 DEF stat
    <2> HIDE DEF g
    <2>3. /\ obj' \in [Objs -> ObjSet] /\ Held(ctx, obj', 0) /\ Coherent(obj', file)
          /\ Linked(ctx, obj') /\ Apart(map, obj')
      BY <2>1, <2>2, PutOpened DEF Failed
    <2>4. kernel \in [Fds -> Kinds]
      BY DEF IoIInv, IoTyped
    <2> QED BY <2>2, <2>3, <2>4, ObjStep
  <1> QED BY <1>1, <1>2

LEMMA DupSteps ==
    ASSUME IoIInv, NEW f \in Fds, NEW g \in Fds, dup(f) \/ dup2(f, g)
    PROVE  IoIInv'
  <1>1. CASE dup(f)
    <2> DEFINE new == Least(FreeIn(obj))
    <2>1. new \in Fds /\ \A o \in Objs : obj[o].refcnt > 0 => obj[o].fd # new
      BY <1>1, FreeIs DEF dup
    <2>2. copied(f, new)
      BY <1>1 DEF dup
    <2> HIDE DEF new
    <2> QED BY <2>1, <2>2, CopyStep
  <1>2. CASE dup2(f, g)
    <2>1. copied(f, g) /\ \A o \in Objs : obj[o].refcnt > 0 => obj[o].fd # g
      BY <1>2 DEF dup2, Own, LiveObjs
    <2> QED BY <2>1, CopyStep
  <1> QED BY <1>1, <1>2

(****************************** reading and writing **********************)
(* the offset of a context moves                                            *)
LEMMA OffStep ==
    ASSUME IoIInv, NEW c \in Ctxs, NEW n \in Nat, ctx' = [ctx EXCEPT ![c].off = n],
           UNCHANGED <<kernel, map, obj, file>>
    PROVE  IoIInv'
  <1>1. /\ ctx' \in [Ctxs -> CtxSet]
        /\ \A d \in Ctxs : /\ ctx'[d].users = ctx[d].users /\ ctx'[d].lost = ctx[d].lost
                           /\ ctx'[d].obj = ctx[d].obj /\ ctx'[d].path = ctx[d].path
                           /\ ctx'[d].start = ctx[d].start /\ ctx'[d].size = ctx[d].size
    BY DEF IoIInv, IoTyped, CtxSet
  <1>2. SameUse(ctx, ctx') /\ Users(map', ctx')
    BY <1>1 DEF SameUse, Users, IoIInv
  <1>3. IoTyped'
    BY <1>1 DEF IoIInv, IoTyped
  <1> QED BY <1>2, <1>3, SameUseKeeps DEF IoIInv

LEMMA ReadSteps ==
    ASSUME IoIInv, NEW f \in Fds, NEW n \in Nat, lseek(f, n) \/ read(f, n) \/ fread(f, n)
    PROVE  IoIInv'
  <1>1. map[f] # 0
    BY DEF lseek, read, fread
  <1> DEFINE c == map[f]
  <1>2. c \in Ctxs /\ ctx[c].off \in Nat /\ ctx[c].size \in Nat
    BY <1>1, InUse DEF CtxSet
  <1>3. CASE lseek(f, n)
    BY <1>2, <1>3, OffStep DEF lseek
  <1>4. CASE read(f, n)
    <2>1. ctx[c].off + n \in Nat
      BY <1>2
    <2>2. ctx' = [ctx EXCEPT ![c].off = ctx[c].off + n]
      BY <1>2, <1>4 DEF read
    <2> QED BY <1>2, <1>4, <2>1, <2>2, OffStep DEF read
  <1>5. CASE fread(f, n)
    <2> DEFINE end == EndOf(c, ctx[c].off, n)
    <2>1. end \in Nat
      BY <1>2 DEF EndOf
    <2>2. ctx' = [ctx EXCEPT ![c].off = end] /\ UNCHANGED <<kernel, map, obj, file>>
      BY <1>2, <1>5 DEF fread
    <2> HIDE DEF end, c
    <2> QED BY <1>2, <2>1, <2>2, OffStep
  <1> QED BY <1>3, <1>4, <1>5

(* What is written keeps the objects, and is where its path names.          *)
IoWritten ==
    /\ obj' \in [Objs -> ObjSet] /\ file' \in [Vhds -> Data]
    /\ Coherent(obj', file') /\ Placed(file') /\ SameParts(obj, obj')
    /\ \A o \in Objs : obj'[o].refcnt = obj[o].refcnt

LEMMA NoneWritten ==
    ASSUME IoIInv, UNCHANGED <<obj, file>>
    PROVE  IoWritten
  BY DEF IoWritten, SameParts, IoIInv, IoTyped

LEMMA WriteBytes ==
    ASSUME IoIInv, NEW c \in Ctxs, ctx[c].users > 0, ~obj[ctx[c].obj].ro, NEW secs \in SUBSET Int,
           \A s \in secs : s >= ctx[c].start /\ s < ctx[c].start + ctx[c].size,
           write_bytes(c, secs)
    PROVE  IoWritten
  <1> DEFINE o == ctx[c].obj
             i == obj[o].file
             t == Tag(ctx[c].path)
             put(d) == [s \in DOMAIN d |-> IF s \in secs THEN t ELSE d[s]]
             d == put(file[i])
             k == Partition[ctx[c].path]
  <1>1. PartOf(ctx[c], obj) /\ o \in Objs /\ obj[o].refcnt > 0
    BY Serves
  <1>2. /\ i \in Vhds /\ obj[o].ino = Ino[i] /\ obj[o].view = file[i] /\ Access[i] = "0"
        /\ obj[o] \in ObjSet /\ file[i] \in Data
    BY <1>1 DEF IoIInv, Coherent, IoTyped
  <1>3. t \in Nat \X Nat /\ t[1] = Ino[i] /\ t[2] = k
    BY <1>1, <1>2, VhdIoAssumption DEF PartOf, Tag
  <1>4. \A s \in secs : k # 0 => s >= Start[i][k] /\ s < Start[i][k] + Blocks[i][k]
    BY <1>1 DEF PartOf
  <1>5. obj' = [obj EXCEPT ![o].view = put(@)] /\ file' = [file EXCEPT ![i] = put(@)]
    BY DEF write_bytes
  <1> HIDE DEF o, i, t, k
  <1>6. /\ d \in Data
        /\ \A s \in 0 .. Size - 1 : d[s] = IF s \in secs THEN t ELSE file[i][s]
    BY <1>2, <1>3 DEF Data
  <1>7. obj' = [obj EXCEPT ![o].view = d] /\ file' = [file EXCEPT ![i] = d]
    <2>1. obj' = [obj EXCEPT ![o].view = put(obj[o].view)] /\ file' = [file EXCEPT ![i] = put(file[i])]
      BY <1>1, <1>2, <1>5
    <2> QED BY <1>2, <2>1
  <1> HIDE DEF d
  <1>8. file' \in [Vhds -> Data] /\ file'[i] = d /\ \A j \in Vhds \ {i} : file'[j] = file[j]
    BY <1>2, <1>6, <1>7 DEF IoIInv, IoTyped
  <1>9. /\ obj' \in [Objs -> ObjSet] /\ obj'[o].view = d
        /\ \A p \in Objs : /\ obj'[p].refcnt = obj[p].refcnt /\ obj'[p].file = obj[p].file
                           /\ obj'[p].ino = obj[p].ino /\ obj'[p].ro = obj[p].ro
                           /\ obj'[p].fd = obj[p].fd
                           /\ p # o => obj'[p].view = obj[p].view
    BY <1>1, <1>6, <1>7 DEF IoIInv, IoTyped, ObjSet
  <1>10. SameParts(obj, obj')
    BY <1>9 DEF SameParts
  <1>11. Coherent(obj', file')
    <2>1. ASSUME NEW p \in Objs, obj'[p].refcnt > 0
          PROVE  /\ obj'[p].file \in Vhds /\ obj'[p].ino = Ino[obj'[p].file]
                 /\ obj'[p].view = file'[obj'[p].file]
                 /\ ~obj'[p].ro => Access[obj'[p].file] = "0"
      <3>1. /\ obj[p].refcnt > 0 /\ obj[p].file \in Vhds /\ obj[p].ino = Ino[obj[p].file]
            /\ obj[p].view = file[obj[p].file] /\ (~obj[p].ro => Access[obj[p].file] = "0")
        BY <1>9, <2>1 DEF IoIInv, Coherent
      <3>2. CASE p = o
        BY <1>8, <1>9, <3>1, <3>2 DEF i
      <3>3. CASE p # o
        <4>1. obj[p].file # i
          BY <1>1, <1>2, <3>1, <3>3 DEF IoIInv, Coherent
        <4> QED BY <1>8, <1>9, <3>1, <3>3, <4>1
      <3> QED BY <3>2, <3>3
    <2>2. ASSUME NEW p \in Objs, NEW q \in Objs, obj'[p].refcnt > 0, obj'[q].refcnt > 0,
                 obj'[p].ino = obj'[q].ino
          PROVE  p = q
      BY <1>9, <2>2 DEF IoIInv, Coherent
    <2> QED BY <2>1, <2>2 DEF Coherent
  <1>12. Placed(file')
    <2> SUFFICES ASSUME NEW j \in Vhds, NEW s \in 0 .. Size - 1, file'[j][s] # NoTag
                 PROVE  LET n == file'[j][s][2]
                        IN  /\ Access[j] = "0" /\ file'[j][s][1] = Ino[j]
                            /\ n # 0 => s >= Start[j][n] /\ s < Start[j][n] + Blocks[j][n]
      BY DEF Placed
    <2>1. CASE j = i /\ s \in secs
      <3>1. file'[j][s] = t
        BY <1>6, <1>8, <2>1
      <3> QED BY <1>2, <1>3, <1>4, <2>1, <3>1
    <2>2. CASE ~(j = i /\ s \in secs)
      <3>1. file'[j][s] = file[j][s]
        BY <1>6, <1>8, <2>2
      <3> QED BY <3>1 DEF IoIInv, Placed
    <2> QED BY <2>1, <2>2
  <1> QED BY <1>8, <1>9, <1>10, <1>11, <1>12 DEF IoWritten

LEMMA IoPwrite ==
    ASSUME IoIInv, NEW c \in Ctxs, ctx[c].users > 0, NEW off \in Nat, NEW count \in Nat,
           io_pwrite(c, off, count)
    PROVE  IoWritten
  <1>1. ctx[c].start \in Nat /\ ctx[c].size \in Nat
    BY DEF IoIInv, IoTyped, CtxSet
  <1>2. CASE ~(off < ctx[c].size /\ MayWrite(c, off, count))
    BY <1>2, NoneWritten DEF io_pwrite
  <1>3. CASE off < ctx[c].size /\ MayWrite(c, off, count)
    <2> DEFINE secs == ctx[c].start + off .. ctx[c].start + EndOf(c, off, count) - 1
    <2>1. write_bytes(c, secs) /\ ~obj[ctx[c].obj].ro
      BY <1>3 DEF io_pwrite, MayWrite
    <2>2. secs \in SUBSET Int /\ \A s \in secs : s >= ctx[c].start /\ s < ctx[c].start + ctx[c].size
      BY <1>1 DEF EndOf
    <2> HIDE DEF secs
    <2> QED BY <2>1, <2>2, WriteBytes
  <1> QED BY <1>2, <1>3

LEMMA WriteSteps ==
    ASSUME IoIInv, NEW f \in Fds, NEW off \in Nat, NEW n \in Nat, pwrite(f, off, n) \/ write(f, n)
    PROVE  IoIInv'
  <1> DEFINE c == map[f]
  <1>1. c \in Ctxs /\ ctx[c].users > 0 /\ ctx[c].off \in Nat
    BY InUse DEF pwrite, write, CtxSet
  <1>2. UNCHANGED <<kernel, map>>
    BY DEF pwrite, write
  <1>3. IoWritten
    <2>1. io_pwrite(c, off, n) \/ io_pwrite(c, ctx[c].off, n)
      BY DEF pwrite, write
    <2> HIDE DEF c
    <2> QED BY <1>1, <2>1, IoPwrite
  <1>4. ctx' = ctx \/ ctx' = [ctx EXCEPT ![c].off = ctx[c].off + n]
    BY <1>1 DEF pwrite, write
  <1> HIDE DEF c
  <1>5. /\ ctx' \in [Ctxs -> CtxSet]
        /\ \A d \in Ctxs : /\ ctx'[d].users = ctx[d].users /\ ctx'[d].lost = ctx[d].lost
                           /\ ctx'[d].obj = ctx[d].obj /\ ctx'[d].path = ctx[d].path
                           /\ ctx'[d].start = ctx[d].start /\ ctx'[d].size = ctx[d].size
    <2>1. ctx[c].off + n \in Nat
      BY <1>1
    <2> QED BY <1>1, <1>4, <2>1 DEF IoIInv, IoTyped, CtxSet
  <1>6. SameUse(ctx, ctx') /\ Users(map', ctx')
    BY <1>2, <1>5 DEF SameUse, Users, IoIInv
  <1>7. Held(ctx, obj', 0)
    <2>1. \A o \in Objs : obj'[o].refcnt = obj[o].refcnt
      BY <1>3 DEF IoWritten
    <2> QED BY <2>1 DEF Held, IoIInv
  <1>8. Linked(ctx, obj') /\ Apart(map', obj')
    BY <1>2, <1>3, SamePartsKeep DEF IoWritten, IoIInv
  <1>9. IoTyped' /\ Mapped(map', kernel')
    BY <1>2, <1>3, <1>5 DEF IoIInv, IoTyped, Mapped, IoWritten
  <1> QED BY <1>3, <1>6, <1>7, <1>8, <1>9, SameUseKeeps DEF IoIInv, IoWritten

LEMMA IoStep == IoIInv /\ [IoNext]_ioVars => IoIInv'
  <1> SUFFICES ASSUME IoIInv, [IoNext]_ioVars PROVE IoIInv'
    OBVIOUS
  <1>1. CASE \E p \in Paths, flags \in Flags : \E io \in IoFaults(p) : open(p, flags, FALSE, io)
    BY <1>1, AnyOpen
  <1>2. CASE \E p \in Paths : \E m \in Modes[p] : fopen(p, m, "0")
    BY <1>2, AnyOpen DEF fopen
  <1>3. CASE fopen_w \/ \E p \in Paths : stat(p, "0")
    BY <1>3, FopenWStep, StatStep
  <1>4. CASE \E f \in Fds : close(f) \/ fclose(f) \/ dup(f) \/ (\E g \in Fds : dup2(f, g))
    BY <1>4, CloseStep, FcloseStep, DupSteps
  <1>5. CASE \E f \in Fds, off \in 0 .. Size - 1 : lseek(f, off) \/ pwrite(f, off, 1)
    <2>1. PICK f \in Fds, off \in 0 .. Size - 1 : lseek(f, off) \/ pwrite(f, off, 1)
      BY <1>5
    <2>2. off \in Nat /\ 1 \in Nat
      OBVIOUS
    <2> QED BY <2>1, <2>2, ReadSteps, WriteSteps
  <1>6. CASE \E f \in Fds, n \in Counts : read(f, n) \/ fread(f, n) \/ write(f, n)
    <2>1. PICK f \in Fds, n \in Counts : read(f, n) \/ fread(f, n) \/ write(f, n)
      BY <1>6
    <2>2. n \in Nat /\ 0 \in Nat
      BY DEF Counts
    <2> QED BY <2>1, <2>2, ReadSteps, WriteSteps
  <1>7. CASE UNCHANGED ioVars
    BY <1>7 DEF ioVars, IoIInv, IoTyped
  <1> QED BY <1>1, <1>2, <1>3, <1>4, <1>5, <1>6, <1>7 DEF IoNext

THEOREM IoInvariance == IoSpec => []IoIInv
  BY IoStart, IoStep, PTL DEF IoSpec

(* Nothing is freed under a descriptor, and nothing is kept without one or  *)
(* an entry that was overwritten, however opens fail, streams are closed    *)
(* behind the library's back and numbers are used again; libvhd's own       *)
(* descriptors never have a context; an object has what its file has, and   *)
(* what was written is in a file that may be written, with the inode number *)
(* and in the partition of the path it was written through.                 *)
THEOREM IoIsSound == IoSpec => []IoSound
  <1>1. IoIInv => IoSound
    <2> SUFFICES ASSUME IoIInv PROVE IoSound
      OBVIOUS
    <2>1. ASSUME NEW f \in Fds
          PROVE  /\ kernel[f] = "null" => map[f] # 0
                 /\ map[f] # 0 => map[f] \in LiveCtxs /\ f \notin Own
      <3>1. kernel[f] = "null" => map[f] # 0
        BY DEF IoIInv, Mapped
      <3>2. map[f] # 0 => map[f] \in LiveCtxs
        BY InUse DEF LiveCtxs
      <3>3. map[f] # 0 => f \notin Own
        BY DEF IoIInv, Apart, Own, LiveObjs
      <3> QED BY <3>1, <3>2, <3>3
    <2>2. \A c \in LiveCtxs : ctx[c].obj \in LiveObjs
      BY Serves DEF LiveCtxs, LiveObjs
    <2>3. \A c \in LiveCtxs : ctx[c].users = Cardinality({f \in Fds : map[f] = c}) + ctx[c].lost
      BY DEF LiveCtxs, IoIInv, Users, FdsOf
    <2>4. \A o \in LiveObjs : obj[o].refcnt = Cardinality({c \in LiveCtxs : ctx[c].obj = o})
      <3> TAKE o \in LiveObjs
      <3>1. Holders(ctx, o) = {c \in LiveCtxs : ctx[c].obj = o}
        BY DEF Holders, LiveCtxs
      <3>2. obj[o].refcnt = Cardinality(Holders(ctx, o)) + 0
        BY NoZero DEF LiveObjs, IoIInv, Held
      <3>3. obj[o].refcnt = Cardinality(Holders(ctx, o))
        BY <3>2, HoldersNat
      <3> QED BY <3>1, <3>3
    <2>5. \A o \in LiveObjs : obj[o].view = file[obj[o].file]
      BY DEF IoIInv, Coherent, LiveObjs
    <2>6. IoCoherent
      BY <2>5 DEF IoIInv, Placed, IoCoherent
    <2> QED BY <2>1, <2>2, <2>3, <2>4, <2>6 DEF IoCounts, IoSound
  <1> QED BY <1>1, IoInvariance, PTL

(***************************************************************************)
(* The control library for any number of tools and of tapdisks.            *)
(***************************************************************************)

Pcs == {"idle", "spawn", "read id", "attach", "open", "undo", "close", "detach",
        "glob", "ask pid", "ask list", "done"}
Entries == [pid : Int, minor : {0, -1} \cup SysfsMinors]
ToolSet == [op : {"idle", "create", "destroy", "list"}, pc : Pcs, id : 0 .. MaxPids, err : BOOLEAN,
            todo : SUBSET Pids, found : SUBSET Pids, list : SUBSET Entries]

ToolTyped ==
    /\ tool \in [Tools -> ToolSet]
    /\ watch \in [Tools -> [ever : SUBSET Pids, along : SUBSET Pids]]

(* What the tapdisks may be: one that listens has its socket, and only one  *)
(* that listens has a vbd.                                                  *)
DisksTyped ==
    /\ disk \in [Pids -> {"none", "starting", "listening", "gone"}]
    /\ vbd \in [Pids -> {"absent", "attached", "open"}]
    /\ \A p \in Pids : (disk[p] = "listening" => p \in sockets)
                      /\ (vbd[p] # "absent" => disk[p] = "listening")
    /\ sockets \subseteq {p \in Pids : disk[p] \in {"listening", "gone"}}

(* A tool steps through one operation.                                      *)
PhaseOf(t) ==
    /\ tool[t].op = "create" => tool[t].pc \in {"spawn", "read id", "attach", "open", "undo", "done"}
    /\ tool[t].op = "destroy" => tool[t].pc \in {"close", "detach", "done"} /\ tool[t].id # 0
    /\ tool[t].op = "list" => tool[t].pc \in {"glob", "ask pid", "ask list", "done"} /\ tool[t].id = 0
    /\ tool[t].op = "idle" => tool[t].pc = "idle" /\ tool[t].id = 0
    /\ tool[t].pc \in {"read id", "attach", "open", "undo", "close", "detach"} => tool[t].id # 0
    /\ tool[t].id # 0 => disk[tool[t].id] # "none"
    /\ tool[t].pc = "spawn" => tool[t].id = 0

(* Who creates a tapdisk is the only one that gives it a vbd.               *)
CreatedOf(t) ==
    tool[t].op = "create" /\ tool[t].id # 0 =>
        /\ \A u \in Tools : tool[u].op = "create" /\ tool[u].id = tool[t].id => u = t
        /\ tool[t].pc = "read id" \/ disk[tool[t].id] \in {"listening", "gone"}
        /\ tool[t].pc \in {"read id", "attach"} => vbd[tool[t].id] = "absent"
        /\ tool[t].pc \in {"open", "undo"} => vbd[tool[t].id] # "open"
        /\ tool[t].pc = "done" /\ tool[t].err => vbd[tool[t].id] = "absent"
        /\ tool[t].pc = "done" /\ ~tool[t].err /\ disk[tool[t].id] = "listening" => vbd[tool[t].id] # "absent"

DestroyedOf(t) ==
    tool[t].op = "destroy" /\ tool[t].pc = "done" /\ ~tool[t].err =>
        disk[tool[t].id] = "gone" /\ vbd[tool[t].id] = "absent"

(* What a list may still miss it has yet to ask for.                        *)
Present(t) == {e.pid : e \in {f \in tool[t].list : f.pid > 0 /\ f.minor >= 0}}
ListingOf(t) ==
    tool[t].op = "list" =>
        /\ watch[t].along \subseteq watch[t].ever
        /\ Present(t) \subseteq watch[t].ever
        /\ tool[t].pc # "done" => /\ watch[t].along \subseteq There(disk, vbd)
                                 /\ There(disk, vbd) \subseteq watch[t].ever
        /\ tool[t].pc = "ask pid" => watch[t].along \subseteq tool[t].todo \cup tool[t].found
        /\ tool[t].pc = "ask list" => watch[t].along \subseteq tool[t].todo \cup Present(t)
        /\ tool[t].pc \in {"glob", "ask pid"} => tool[t].list = {}
        /\ tool[t].pc = "done" =>
             /\ watch[t].along \subseteq Present(t)
             /\ \A m \in SysfsMinors : \E e \in tool[t].list : e.minor = m

ToolOf(t) == PhaseOf(t) /\ CreatedOf(t) /\ DestroyedOf(t) /\ ListingOf(t)

ToolsIInv == ToolTyped /\ DisksTyped /\ \A t \in Tools : ToolOf(t)

LEMMA LeastPid ==
    ASSUME NEW S \in SUBSET Pids, S # {}
    PROVE  Lowest(S) \in S
  <1>1. Pids \in SUBSET Nat
    BY TapCtlAssumption DEF Pids
  <1> QED BY <1>1, Minimum DEF Lowest

LEMMA ToolsStart == TapCtlInit => ToolsIInv
  <1> SUFFICES ASSUME TapCtlInit PROVE ToolsIInv
    OBVIOUS
  <1>1. \A t \in Tools : tool[t] = Idle /\ watch[t] = [ever |-> {}, along |-> {}]
    BY DEF TapCtlInit
  <1>2. Idle \in ToolSet
    BY TapCtlAssumption DEF Idle, Doing, ToolSet, Pcs
  <1>3. ToolTyped
    BY <1>2 DEF TapCtlInit, ToolTyped
  <1>4. DisksTyped
    BY DEF TapCtlInit, DisksTyped
  <1>5. \A t \in Tools : tool[t].op = "idle" /\ tool[t].pc = "idle" /\ tool[t].id = 0
    BY <1>1 DEF Idle, Doing
  <1>6. \A t \in Tools : ToolOf(t)
    BY <1>5 DEF ToolOf, PhaseOf, CreatedOf, DestroyedOf, ListingOf
  <1> QED BY <1>3, <1>4, <1>6 DEF ToolsIInv

(* What may happen to a tapdisk while a tool is busy elsewhere.             *)
Go ==
    \A p \in Pids : /\ disk[p] # "none" => disk'[p] # "none"
                    /\ disk[p] = "listening" => disk'[p] \in {"listening", "gone"}
                    /\ disk[p] = "gone" => disk'[p] = "gone"

(* Nothing but its creator gives it a vbd.                                  *)
GivenNone(p) ==
    /\ vbd[p] = "absent" => vbd'[p] = "absent"
    /\ vbd'[p] = "open" => vbd[p] = "open"
    /\ disk[p] = "listening" /\ disk'[p] = "listening" => (vbd[p] = "absent" <=> vbd'[p] = "absent")

(* A tool that takes no step keeps what it knows.                           *)
LEMMA OthersKeep ==
    ASSUME ToolsIInv, Watched, NEW t \in Tools, tool'[t] = tool[t], DisksTyped',
           Go, tool[t].op = "create" /\ tool[t].id # 0 => GivenNone(tool[t].id),
           \A u \in Tools : tool'[u].op = "create" /\ tool'[u].id = tool[t].id /\ tool[t].op = "create" /\ tool[t].id # 0
                            => tool[u].op = "create" /\ tool[u].id = tool[t].id
    PROVE  ToolOf(t)'
  <1>0. ToolOf(t)
    BY DEF ToolsIInv
  <1> DEFINE q == tool[t].id
  <1>1. q # 0 => /\ q \in Pids /\ disk[q] # "none"
                 /\ disk'[q] # "none" /\ (disk[q] = "gone" => disk'[q] = "gone")
                 /\ (disk[q] = "listening" => disk'[q] \in {"listening", "gone"})
                 /\ (tool[t].op = "create" => GivenNone(q))
    <2>1. q \in 0 .. MaxPids
      BY DEF ToolsIInv, ToolTyped, ToolSet
    <2>2. \A x \in 0 .. MaxPids : x # 0 => x \in Pids
      BY TapCtlAssumption DEF Pids
    <2>3. q # 0 => disk[q] # "none"
      BY <1>0 DEF ToolOf, PhaseOf
    <2>4. q # 0 => q \in Pids /\ disk[q] # "none"
      BY <2>1, <2>2, <2>3
    <2> QED BY <2>4 DEF Go
  <1>2. PhaseOf(t)'
    BY <1>0, <1>1 DEF PhaseOf, ToolOf
  <1>3. CreatedOf(t)'
    <2> SUFFICES ASSUME tool'[t].op = "create" /\ tool'[t].id # 0
                 PROVE  CreatedOf(t)'
      BY DEF CreatedOf
    <2>1. CreatedOf(t) /\ GivenNone(q) /\ tool[t].op = "create" /\ q # 0 /\ tool'[t].id = q /\ q \in Pids
      BY <1>0, <1>1 DEF ToolOf
    <2>2. \A u \in Tools : tool'[u].op = "create" /\ tool'[u].id = q => u = t
      BY <2>1 DEF CreatedOf
    <2>3. tool[t].pc \in {"read id", "attach"} => vbd'[q] = "absent"
      BY <2>1 DEF CreatedOf, GivenNone
    <2>4. tool[t].pc \in {"open", "undo"} => vbd'[q] # "open"
      BY <2>1 DEF CreatedOf, GivenNone
    <2>5. tool[t].pc = "done" /\ tool[t].err => vbd'[q] = "absent"
      BY <2>1 DEF CreatedOf, GivenNone
    <2>6. /\ disk'[q] = "listening" /\ tool[t].pc = "done" => disk[q] = "listening"
          /\ tool[t].pc = "read id" \/ disk'[q] \in {"listening", "gone"}
      BY <2>1, <1>1 DEF CreatedOf
    <2>7. tool[t].pc = "done" /\ ~tool[t].err /\ disk'[q] = "listening" => vbd'[q] # "absent"
      BY <2>1, <2>6 DEF CreatedOf, GivenNone
    <2> QED BY <2>1, <2>2, <2>3, <2>4, <2>5, <2>6, <2>7 DEF CreatedOf
  <1>4. DestroyedOf(t)'
    BY <1>0, <1>1 DEF DestroyedOf, ToolOf, PhaseOf, DisksTyped
  <1>5. ListingOf(t)'
    BY <1>0 DEF Watched, ListingOf, ToolOf, Present
  <1> QED BY <1>2, <1>3, <1>4, <1>5 DEF ToolOf

(* Steps that leave tapdisks alone.                                         *)
Still == UNCHANGED <<disk, vbd, sockets>>

LEMMA StillGoes ==
    ASSUME DisksTyped, Still
    PROVE  Go /\ (\A p \in Pids : GivenNone(p)) /\ DisksTyped'
  BY DEF Still, Go, GivenNone, DisksTyped

(* One tool steps: what is left to show is its own.                         *)
LEMMA ToolSteps ==
    ASSUME ToolsIInv, Watched, NEW t \in Tools, NEW r \in ToolSet, tool' = [tool EXCEPT ![t] = r],
           DisksTyped', Go, ToolOf(t)',
           \A u \in Tools \ {t} : tool[u].op = "create" /\ tool[u].id # 0 => GivenNone(tool[u].id),
           r.op = "create" /\ r.id # 0 => \A u \in Tools \ {t} : tool[u].op = "create" => tool[u].id # r.id
    PROVE  ToolsIInv'
  <1>1. tool' \in [Tools -> ToolSet] /\ tool'[t] = r /\ \A u \in Tools \ {t} : tool'[u] = tool[u]
    BY DEF ToolsIInv, ToolTyped
  <1>2. watch' \in [Tools -> [ever : SUBSET Pids, along : SUBSET Pids]]
    <2>1. There(disk', vbd') \in SUBSET Pids
      BY DEF There
    <2> QED BY <2>1 DEF Watched, ToolsIInv, ToolTyped
  <1>3. ASSUME NEW u \in Tools \ {t} PROVE ToolOf(u)'
    <2>1. ASSUME NEW w \in Tools, tool'[w].op = "create", tool'[w].id = tool[u].id, tool[u].op = "create", tool[u].id # 0
          PROVE  tool[w].op = "create" /\ tool[w].id = tool[u].id
      BY <1>1, <2>1
    <2> QED BY <1>1, <2>1, OthersKeep
  <1> QED BY <1>1, <1>2, <1>3 DEF ToolsIInv, ToolTyped

(* Tapdisks that come and go while no tool steps.                           *)
LEMMA IdsPids == ASSUME ToolTyped, NEW t \in Tools, tool[t].id # 0 PROVE tool[t].id \in Pids
  <1>1. tool[t].id \in 0 .. MaxPids
    BY DEF ToolTyped, ToolSet
  <1>2. \A x \in 0 .. MaxPids : x # 0 => x \in Pids
    BY TapCtlAssumption DEF Pids
  <1> QED BY <1>1, <1>2

LEMMA DiskSteps ==
    ASSUME ToolsIInv, Watched, UNCHANGED tool, DisksTyped', Go, \A p \in Pids : GivenNone(p)
    PROVE  ToolsIInv'
  <1>1. \A t \in Tools : ToolOf(t)'
    BY OthersKeep, IdsPids DEF ToolsIInv
  <1>2. watch' \in [Tools -> [ever : SUBSET Pids, along : SUBSET Pids]]
    <2>1. There(disk', vbd') \in SUBSET Pids
      BY DEF There
    <2> QED BY <2>1 DEF Watched, ToolsIInv, ToolTyped
  <1> QED BY <1>1, <1>2 DEF ToolsIInv, ToolTyped

LEMMA ServeStep ==
    ASSUME ToolsIInv, Watched, NEW p \in Pids, serve(p)
    PROVE  ToolsIInv'
  <1>1. DisksTyped' /\ Go /\ \A q \in Pids : GivenNone(q)
    BY DEF ToolsIInv, DisksTyped, serve, Go, GivenNone
  <1> QED BY <1>1, DiskSteps DEF serve

LEMMA KilledStep ==
    ASSUME ToolsIInv, Watched, NEW p \in Pids, killed(p)
    PROVE  ToolsIInv'
  <1>1. DisksTyped' /\ Go /\ \A q \in Pids : GivenNone(q)
    BY DEF ToolsIInv, DisksTyped, killed, Go, GivenNone
  <1> QED BY <1>1, DiskSteps DEF killed

(* A tool that asks no tapdisk for anything.                                *)
LEMMA StillStep ==
    ASSUME ToolsIInv, Watched, NEW t \in Tools, NEW r \in ToolSet, tool' = [tool EXCEPT ![t] = r], Still,
           ToolOf(t)', r.op = "create" /\ r.id # 0 => tool[t].op = "create" /\ tool[t].id = r.id
    PROVE  ToolsIInv'
  <1>1. DisksTyped' /\ Go /\ \A p \in Pids : GivenNone(p)
    BY StillGoes DEF ToolsIInv
  <1>2. \A u \in Tools \ {t} : tool[u].op = "create" /\ tool[u].id # 0 => GivenNone(tool[u].id)
    BY <1>1, IdsPids DEF ToolsIInv
  <1>3. r.op = "create" /\ r.id # 0 => \A u \in Tools \ {t} : tool[u].op = "create" => tool[u].id # r.id
    BY ZenonT(40) DEF ToolsIInv, ToolOf, CreatedOf
  <1> QED BY <1>1, <1>2, <1>3, ToolSteps

LEMMA StartStep ==
    ASSUME ToolsIInv, Watched, NEW t \in Tools, NEW op, NEW pc, NEW id, start(t, op, pc, id),
           \/ op = "create" /\ pc = "spawn" /\ id = 0
           \/ op = "destroy" /\ pc = "close" /\ id \in sockets
           \/ op = "list" /\ pc = "glob" /\ id = 0
    PROVE  ToolsIInv'
  <1> DEFINE r == Doing(op, pc, id)
  <1>1. tool' = [tool EXCEPT ![t] = r] /\ Still
    BY DEF start, Still
  <1>2. \A p \in sockets : p \in Pids /\ p \in 0 .. MaxPids /\ p # 0 /\ disk[p] # "none"
    BY TapCtlAssumption DEF ToolsIInv, DisksTyped, Pids
  <1>3. r.op = op /\ r.pc = pc /\ r.id = id /\ r.list = {} /\ r.err = FALSE
    BY DEF Doing
  <1>4. r \in ToolSet
    <2>1. id \in 0 .. MaxPids
      BY <1>2, TapCtlAssumption
    <2>2. op \in {"idle", "create", "destroy", "list"} /\ pc \in Pcs
      BY DEF Pcs
    <2> QED BY <2>1, <2>2 DEF Doing, ToolSet
  <1>5. tool'[t] = r
    BY <1>1 DEF ToolsIInv, ToolTyped
  <1> HIDE DEF r
  <1>6. PhaseOf(t)' /\ CreatedOf(t)' /\ DestroyedOf(t)'
    BY <1>1, <1>2, <1>3, <1>5 DEF PhaseOf, CreatedOf, DestroyedOf, Still
  <1>7. ListingOf(t)'
    <2> SUFFICES ASSUME op = "list" PROVE ListingOf(t)'
      BY <1>3, <1>5 DEF ListingOf
    <2>1. Present(t)' = {}
      BY <1>3, <1>5 DEF Present
    <2> QED BY <2>1, <1>3, <1>5 DEF ListingOf, Watched
  <1>8. ToolOf(t)'
    BY <1>6, <1>7 DEF ToolOf
  <1> QED BY <1>1, <1>2, <1>3, <1>4, <1>8, StillStep

(* A tool that creates or destroys goes on with its tapdisk, or ends.       *)
LEMMA GoesOn ==
    ASSUME ToolsIInv, Watched, NEW t \in Tools, NEW pc \in Pcs, NEW err \in BOOLEAN, NEW id \in 0 .. MaxPids,
           tool' = [tool EXCEPT ![t].pc = pc, ![t].id = id, ![t].err = err],
           tool[t].op \in {"create", "destroy"},
           DisksTyped', Go, PhaseOf(t)', CreatedOf(t)', DestroyedOf(t)',
           \A u \in Tools \ {t} : tool[u].op = "create" /\ tool[u].id # 0 => GivenNone(tool[u].id),
           tool[t].op = "create" /\ id # 0 => \A u \in Tools \ {t} : tool[u].op = "create" => tool[u].id # id
    PROVE  ToolsIInv'
  <1> DEFINE r == [tool[t] EXCEPT !.pc = pc, !.id = id, !.err = err]
  <1>1. tool[t] \in ToolSet
    BY DEF ToolsIInv, ToolTyped
  <1>2. r \in ToolSet /\ r.op = tool[t].op /\ r.id = id
    BY <1>1 DEF ToolSet
  <1>3. tool' = [tool EXCEPT ![t] = r]
    BY <1>1 DEF ToolSet
  <1>4. tool'[t] = r
    BY <1>3 DEF ToolsIInv, ToolTyped
  <1> HIDE DEF r
  <1>5. ToolOf(t)'
    BY <1>2, <1>4 DEF ToolOf, ListingOf
  <1> QED BY <1>2, <1>3, <1>5, ToolSteps

LEMMA SpawnSteps ==
    ASSUME ToolsIInv, Watched, NEW t \in Tools, spawn_again(t) \/ get_child_id(t) \/ \E p \in Pids : fork(t, p)
    PROVE  ToolsIInv'
  <1>1. tool[t] \in ToolSet /\ ToolOf(t)
    BY DEF ToolsIInv, ToolTyped
  <1>2. /\ tool[t].id \in 0 .. MaxPids /\ tool[t].err \in BOOLEAN
        /\ 0 \in 0 .. MaxPids /\ \A p \in Pids : p \in 0 .. MaxPids /\ p # 0
    BY <1>1, TapCtlAssumption DEF ToolSet, Pids
  <1>3. ASSUME NEW p \in Pids, fork(t, p) PROVE ToolsIInv'
    <2>1. tool[t].op = "create" /\ tool[t].id = 0
      BY <1>1, <1>3 DEF fork, ToolOf, PhaseOf, ToolSet
    <2>2. DisksTyped' /\ Go /\ \A q \in Pids : GivenNone(q)
      BY <1>3 DEF fork, ToolsIInv, DisksTyped, Go, GivenNone
    <2>3. tool' = [tool EXCEPT ![t].pc = "read id", ![t].id = p, ![t].err = tool[t].err]
      BY <1>1, <1>3 DEF fork, Spawns, ToolSet, ToolsIInv, ToolTyped
    <2>4. \A u \in Tools : tool[u].id # p
      BY <1>2, <1>3 DEF fork, ToolsIInv, ToolOf, PhaseOf
    <2>5. tool'[t].pc = "read id" /\ tool'[t].id = p /\ tool'[t].op = "create" /\ disk'[p] = "starting" /\ vbd'[p] = "absent"
      <3>1. disk[p] = "none" /\ vbd' = vbd /\ disk' = [disk EXCEPT ![p] = "starting"]
        BY <1>3 DEF fork
      <3>2. disk'[p] = "starting" /\ vbd'[p] = "absent"
        BY <3>1 DEF ToolsIInv, DisksTyped
      <3> QED BY <3>2, <2>1, <2>3 DEF ToolsIInv, ToolTyped, ToolSet
    <2>6. \A u \in Tools \ {t} : tool'[u] = tool[u]
      BY <2>3 DEF ToolsIInv, ToolTyped
    <2>7. PhaseOf(t)' /\ CreatedOf(t)' /\ DestroyedOf(t)'
      BY <1>2, <2>4, <2>5, <2>6 DEF PhaseOf, CreatedOf, DestroyedOf
    <2>8. \A u \in Tools \ {t} : tool[u].op = "create" /\ tool[u].id # 0 => GivenNone(tool[u].id)
      BY <2>2, IdsPids DEF ToolsIInv
    <2>9. "read id" \in Pcs
      BY DEF Pcs
    <2> QED BY <1>2, <2>1, <2>2, <2>3, <2>4, <2>7, <2>8, <2>9, GoesOn
  <1>4. CASE spawn_again(t)
    <2>1. tool[t].op = "create" /\ tool[t].id \in Pids
      BY <1>1, <1>4, IdsPids DEF spawn_again, ToolOf, PhaseOf, ToolSet, ToolsIInv
    <2>2. DisksTyped' /\ Go /\ \A q \in Pids : GivenNone(q)
      BY <1>4, <2>1 DEF spawn_again, ToolsIInv, DisksTyped, Go, GivenNone
    <2>3. tool' = [tool EXCEPT ![t].pc = "spawn", ![t].id = 0, ![t].err = tool[t].err]
      BY <1>1, <1>4 DEF spawn_again, Spawns, ToolSet, ToolsIInv, ToolTyped
    <2>5. tool'[t].pc = "spawn" /\ tool'[t].id = 0 /\ tool'[t].op = "create"
      BY <2>1, <2>3 DEF ToolsIInv, ToolTyped, ToolSet
    <2>7. PhaseOf(t)' /\ CreatedOf(t)' /\ DestroyedOf(t)'
      BY <2>5 DEF PhaseOf, CreatedOf, DestroyedOf
    <2>8. \A u \in Tools \ {t} : tool[u].op = "create" /\ tool[u].id # 0 => GivenNone(tool[u].id)
      BY <2>2, IdsPids DEF ToolsIInv
    <2>9. "spawn" \in Pcs
      BY DEF Pcs
    <2> QED BY <1>2, <2>1, <2>2, <2>3, <2>7, <2>8, <2>9, GoesOn
  <1>5. CASE get_child_id(t)
    <2>1. tool[t].op = "create" /\ tool[t].id \in Pids /\ tool[t].id # 0 /\ Still
      BY <1>1, <1>5, IdsPids DEF get_child_id, ToolOf, PhaseOf, ToolSet, ToolsIInv, Still
    <2>2. DisksTyped' /\ Go /\ \A q \in Pids : GivenNone(q)
      BY <2>1, StillGoes DEF ToolsIInv
    <2> DEFINE serves == disk[tool[t].id] = "listening"
               pc == IF serves THEN "attach" ELSE "done"
               err == IF serves THEN tool[t].err ELSE TRUE
    <2>3. tool' = [tool EXCEPT ![t].pc = pc, ![t].id = tool[t].id, ![t].err = err]
      BY <1>1, <1>5, ZenonT(40) DEF get_child_id, Goto, Finish, ToolSet, ToolsIInv, ToolTyped
    <2>4. tool'[t].pc = pc /\ tool'[t].id = tool[t].id /\ tool'[t].op = "create" /\ tool'[t].err = err
      BY <2>1, <2>3 DEF ToolsIInv, ToolTyped, ToolSet
    <2>5. \A u \in Tools \ {t} : tool'[u] = tool[u]
      BY <2>3 DEF ToolsIInv, ToolTyped
    <2>6. /\ vbd'[tool[t].id] = "absent" /\ disk'[tool[t].id] = disk[tool[t].id]
          /\ disk[tool[t].id] \in {"listening", "gone"}
          /\ \A u \in Tools : tool[u].op = "create" /\ tool[u].id = tool[t].id => u = t
      BY <1>1, <1>5, <2>1 DEF get_child_id, Still, ToolOf, CreatedOf, PhaseOf, ToolsIInv, DisksTyped
    <2>7. PhaseOf(t)' /\ CreatedOf(t)' /\ DestroyedOf(t)'
      BY <2>1, <2>4, <2>5, <2>6 DEF PhaseOf, CreatedOf, DestroyedOf
    <2>8. \A u \in Tools \ {t} : tool[u].op = "create" /\ tool[u].id # 0 => GivenNone(tool[u].id)
      BY <2>2, IdsPids DEF ToolsIInv
    <2>9. pc \in Pcs /\ err \in BOOLEAN
      BY <1>2 DEF Pcs
    <2> HIDE DEF pc, err
    <2> QED BY <1>2, <2>1, <2>2, <2>3, <2>6, <2>7, <2>8, <2>9, GoesOn
  <1> QED BY <1>3, <1>4, <1>5

(* The answer of a tapdisk to its creator: others do not wait for it.       *)
LEMMA OthersGiven ==
    ASSUME ToolsIInv, NEW t \in Tools, tool[t].op = "create", tool[t].id # 0,
           \A q \in Pids : q # tool[t].id => vbd'[q] = vbd[q] /\ disk'[q] = disk[q]
    PROVE  /\ \A u \in Tools \ {t} : tool[u].op = "create" /\ tool[u].id # 0 => GivenNone(tool[u].id)
           /\ \A u \in Tools \ {t} : tool[u].op = "create" => tool[u].id # tool[t].id
  <1>1. \A u \in Tools \ {t} : tool[u].op = "create" => tool[u].id # tool[t].id
    BY DEF ToolsIInv, ToolOf, CreatedOf
  <1>2. ASSUME NEW u \in Tools \ {t}, tool[u].op = "create", tool[u].id # 0 PROVE GivenNone(tool[u].id)
    BY <1>1, <1>2, IdsPids DEF GivenNone, ToolsIInv
  <1> QED BY <1>1, <1>2

LEMMA AttachStep ==
    ASSUME ToolsIInv, Watched, NEW t \in Tools, create_attach(t)
    PROVE  ToolsIInv'
  <1>1. tool[t] \in ToolSet /\ ToolOf(t)
    BY DEF ToolsIInv, ToolTyped
  <1> DEFINE p == tool[t].id
  <1>2. tool[t].op = "create" /\ p # 0 /\ p \in Pids /\ vbd[p] = "absent" /\ disk[p] \in {"listening", "gone"}
    BY <1>1, IdsPids DEF create_attach, ToolOf, PhaseOf, CreatedOf, ToolSet, ToolsIInv
  <1>3. PICK failed \in BOOLEAN : /\ tap_ctl_attach(p, failed)
                                  /\ IF failed THEN Finish(t, TRUE) ELSE Goto(t, "open")
    BY DEF create_attach
  <1>4. /\ UNCHANGED <<disk, sockets>> /\ (failed => UNCHANGED vbd)
        /\ ~failed => Connects(p) /\ vbd' = [vbd EXCEPT ![p] = "attached"]
    BY <1>3 DEF tap_ctl_attach, Replies
  <1>5. DisksTyped' /\ Go /\ \A q \in Pids : q # p => vbd'[q] = vbd[q] /\ disk'[q] = disk[q]
    BY <1>2, <1>4 DEF ToolsIInv, DisksTyped, Go, Connects
  <1>6. vbd'[p] = IF failed THEN "absent" ELSE "attached"
    BY <1>2, <1>4 DEF ToolsIInv, DisksTyped
  <1> DEFINE pc == IF failed THEN "done" ELSE "open"
             err == IF failed THEN TRUE ELSE tool[t].err
  <1>7. tool' = [tool EXCEPT ![t].pc = pc, ![t].id = p, ![t].err = err]
    BY <1>1, <1>3 DEF Goto, Finish, ToolSet, ToolsIInv, ToolTyped
  <1>8. tool'[t].pc = pc /\ tool'[t].id = p /\ tool'[t].op = "create" /\ tool'[t].err = err
    BY <1>2, <1>7 DEF ToolsIInv, ToolTyped, ToolSet
  <1>9. \A u \in Tools \ {t} : tool'[u] = tool[u]
    BY <1>7 DEF ToolsIInv, ToolTyped
  <1>10. p \in 0 .. MaxPids /\ err \in BOOLEAN /\ pc \in Pcs
    BY <1>1 DEF ToolSet, Pcs
  <1>11. PhaseOf(t)' /\ CreatedOf(t)' /\ DestroyedOf(t)'
    BY <1>2, <1>4, <1>5, <1>6, <1>8, <1>9, OthersGiven DEF PhaseOf, CreatedOf, DestroyedOf
  <1> HIDE DEF pc, err
  <1> QED BY <1>2, <1>5, <1>7, <1>10, <1>11, OthersGiven, GoesOn

LEMMA CreateOpenStep ==
    ASSUME ToolsIInv, Watched, NEW t \in Tools, create_open(t)
    PROVE  ToolsIInv'
  <1>1. tool[t] \in ToolSet /\ ToolOf(t)
    BY DEF ToolsIInv, ToolTyped
  <1> DEFINE p == tool[t].id
  <1>2. tool[t].op = "create" /\ p # 0 /\ p \in Pids /\ vbd[p] # "open" /\ disk[p] \in {"listening", "gone"}
    BY <1>1, IdsPids DEF create_open, ToolOf, PhaseOf, CreatedOf, ToolSet, ToolsIInv
  <1>3. PICK failed \in BOOLEAN : /\ tap_ctl_open(p, failed)
                                  /\ IF failed THEN Goto(t, "undo") ELSE Finish(t, FALSE)
    BY DEF create_open
  <1>4. /\ UNCHANGED <<disk, sockets>> /\ (failed => UNCHANGED vbd)
        /\ ~failed => Connects(p) /\ vbd' = [vbd EXCEPT ![p] = "open"]
    BY <1>3 DEF tap_ctl_open, Replies
  <1>5. DisksTyped' /\ Go /\ \A q \in Pids : q # p => vbd'[q] = vbd[q] /\ disk'[q] = disk[q]
    BY <1>2, <1>4 DEF ToolsIInv, DisksTyped, Go, Connects
  <1>6. vbd'[p] = IF failed THEN vbd[p] ELSE "open"
    BY <1>2, <1>4 DEF ToolsIInv, DisksTyped
  <1> DEFINE pc == IF failed THEN "undo" ELSE "done"
             err == IF failed THEN tool[t].err ELSE FALSE
  <1>7. tool' = [tool EXCEPT ![t].pc = pc, ![t].id = p, ![t].err = err]
    BY <1>1, <1>3 DEF Goto, Finish, ToolSet, ToolsIInv, ToolTyped
  <1>8. tool'[t].pc = pc /\ tool'[t].id = p /\ tool'[t].op = "create" /\ tool'[t].err = err
    BY <1>2, <1>7 DEF ToolsIInv, ToolTyped, ToolSet
  <1>9. \A u \in Tools \ {t} : tool'[u] = tool[u]
    BY <1>7 DEF ToolsIInv, ToolTyped
  <1>10. p \in 0 .. MaxPids /\ err \in BOOLEAN /\ pc \in Pcs
    BY <1>1 DEF ToolSet, Pcs
  <1>11. PhaseOf(t)' /\ CreatedOf(t)' /\ DestroyedOf(t)'
    BY <1>2, <1>4, <1>5, <1>6, <1>8, <1>9, OthersGiven DEF PhaseOf, CreatedOf, DestroyedOf
  <1> HIDE DEF pc, err
  <1> QED BY <1>2, <1>5, <1>7, <1>10, <1>11, OthersGiven, GoesOn

(* DETACH: a vbd that is not open is gone then, with its tapdisk.           *)
LEMMA Detaches ==
    ASSUME ToolsIInv, NEW p \in Pids, NEW failed \in BOOLEAN, detach(p, failed)
    PROVE  /\ DisksTyped' /\ Go /\ \A q \in Pids : GivenNone(q)
           /\ ~failed => disk'[p] = "gone" /\ vbd'[p] = "absent"
           /\ vbd[p] # "open" => vbd'[p] = "absent"
  <1>1. CASE Connects(p) /\ vbd[p] = "attached"
    BY <1>1 DEF detach, ToolsIInv, DisksTyped, Go, GivenNone, Connects
  <1>2. CASE ~(Connects(p) /\ vbd[p] = "attached")
    BY <1>2 DEF detach, ToolsIInv, DisksTyped, Go, GivenNone, Connects
  <1> QED BY <1>1, <1>2

LEMMA UndoStep ==
    ASSUME ToolsIInv, Watched, NEW t \in Tools, create_detach(t)
    PROVE  ToolsIInv'
  <1>1. tool[t] \in ToolSet /\ ToolOf(t)
    BY DEF ToolsIInv, ToolTyped
  <1> DEFINE p == tool[t].id
  <1>2. tool[t].op = "create" /\ p # 0 /\ p \in Pids /\ vbd[p] # "open" /\ disk[p] \in {"listening", "gone"}
    BY <1>1, IdsPids DEF create_detach, ToolOf, PhaseOf, CreatedOf, ToolSet, ToolsIInv
  <1>3. PICK failed \in BOOLEAN : detach(p, failed)
    BY DEF create_detach
  <1>4. /\ DisksTyped' /\ Go /\ (\A q \in Pids : GivenNone(q)) /\ vbd'[p] = "absent"
    BY <1>2, <1>3, Detaches
  <1>5. tool' = [tool EXCEPT ![t].pc = "done", ![t].id = p, ![t].err = TRUE]
    BY <1>1 DEF create_detach, Finish, ToolSet, ToolsIInv, ToolTyped
  <1>6. tool'[t].pc = "done" /\ tool'[t].id = p /\ tool'[t].op = "create" /\ tool'[t].err = TRUE
    BY <1>2, <1>5 DEF ToolsIInv, ToolTyped, ToolSet
  <1>7. \A u \in Tools \ {t} : tool'[u] = tool[u]
    BY <1>5 DEF ToolsIInv, ToolTyped
  <1>8. p \in 0 .. MaxPids /\ "done" \in Pcs
    BY <1>1 DEF ToolSet, Pcs
  <1>9. \A u \in Tools \ {t} : tool[u].op = "create" => tool[u].id # p
    BY <1>1, <1>2 DEF ToolOf, CreatedOf
  <1>10. PhaseOf(t)' /\ CreatedOf(t)' /\ DestroyedOf(t)'
    BY <1>2, <1>4, <1>6, <1>7, <1>9 DEF PhaseOf, CreatedOf, DestroyedOf, Go
  <1>11. \A u \in Tools \ {t} : tool[u].op = "create" /\ tool[u].id # 0 => GivenNone(tool[u].id)
    BY <1>4, IdsPids DEF ToolsIInv
  <1> QED BY <1>2, <1>4, <1>5, <1>8, <1>9, <1>10, <1>11, GoesOn

LEMMA DestroySteps ==
    ASSUME ToolsIInv, Watched, NEW t \in Tools, destroy_close(t) \/ destroy_detach(t)
    PROVE  ToolsIInv'
  <1>1. tool[t] \in ToolSet /\ ToolOf(t)
    BY DEF ToolsIInv, ToolTyped
  <1> DEFINE p == tool[t].id
  <1>2. tool[t].op = "destroy" /\ p # 0 /\ p \in Pids /\ disk[p] # "none"
    BY <1>1, IdsPids DEF destroy_close, destroy_detach, ToolOf, PhaseOf, CreatedOf, ToolSet, ToolsIInv
  <1>3. PICK failed \in BOOLEAN, pc \in {"detach", "done"} :
          /\ pc = "done" /\ ~failed => disk'[p] = "gone" /\ vbd'[p] = "absent"
          /\ DisksTyped' /\ Go /\ \A q \in Pids : GivenNone(q)
          /\ IF pc = "done" THEN Finish(t, failed) ELSE Goto(t, "detach")
    <2>1. CASE destroy_detach(t)
      <3>1. PICK failed \in BOOLEAN : detach(p, failed) /\ Finish(t, failed)
        BY <2>1 DEF destroy_detach
      <3> QED BY <1>2, <3>1, Detaches
    <2>2. CASE destroy_close(t)
      <3>1. PICK failed \in BOOLEAN : /\ tap_ctl_close(p, failed)
                                      /\ IF failed THEN Finish(t, TRUE) ELSE Goto(t, "detach")
        BY <2>2 DEF destroy_close
      <3>2. \/ UNCHANGED <<disk, vbd, sockets>>
            \/ Connects(p) /\ vbd[p] = "open" /\ vbd' = [vbd EXCEPT ![p] = "attached"] /\ UNCHANGED <<disk, sockets>>
        BY <3>1 DEF tap_ctl_close, Replies
      <3>3. DisksTyped' /\ Go /\ \A q \in Pids : GivenNone(q)
        BY <1>2, <3>2 DEF ToolsIInv, DisksTyped, Go, GivenNone, Connects
      <3> QED BY <3>1, <3>3
    <2> QED BY <2>1, <2>2
  <1> DEFINE err == IF pc = "done" THEN failed ELSE tool[t].err
  <1>5. tool' = [tool EXCEPT ![t].pc = pc, ![t].id = p, ![t].err = err]
    BY <1>1, <1>3, ZenonT(40) DEF Goto, Finish, ToolSet, ToolsIInv, ToolTyped
  <1>6. tool'[t].pc = pc /\ tool'[t].id = p /\ tool'[t].op = "destroy" /\ tool'[t].err = err
    BY <1>2, <1>5 DEF ToolsIInv, ToolTyped, ToolSet
  <1>8. p \in 0 .. MaxPids /\ pc \in Pcs /\ err \in BOOLEAN
    BY <1>1 DEF ToolSet, Pcs
  <1>10. PhaseOf(t)' /\ CreatedOf(t)' /\ DestroyedOf(t)'
    BY <1>2, <1>3, <1>6 DEF PhaseOf, CreatedOf, DestroyedOf, Go
  <1>11. \A u \in Tools \ {t} : tool[u].op = "create" /\ tool[u].id # 0 => GivenNone(tool[u].id)
    BY <1>3, IdsPids DEF ToolsIInv
  <1> HIDE DEF err
  <1> QED BY <1>2, <1>3, <1>5, <1>8, <1>10, <1>11, GoesOn

(* What a list finds out while others go on.                                *)
Asks(r, t) ==
    /\ r.op = "list" /\ r.id = 0 /\ r.pc \in {"ask pid", "ask list", "done"}
    /\ tool' = [tool EXCEPT ![t] = r] /\ Still
    /\ tool[t].op = "list" /\ tool[t].pc # "done"

LEMMA ListSteps ==
    ASSUME ToolsIInv, Watched, NEW t \in Tools, NEW r \in ToolSet, Asks(r, t), ListingOf(t)'
    PROVE  ToolsIInv'
  <1>1. tool'[t] = r
    BY DEF Asks, ToolsIInv, ToolTyped
  <1>2. ToolOf(t)'
    BY <1>1 DEF Asks, ToolOf, PhaseOf, CreatedOf, DestroyedOf
  <1> QED BY <1>2, StillStep DEF Asks

(* A list that is on its way knows of all vbds that are there throughout.   *)
LEMMA ListWatch ==
    ASSUME ToolsIInv, Watched, NEW t \in Tools, NEW r \in ToolSet, Asks(r, t)
    PROVE  /\ tool'[t] = r
           /\ watch'[t] = [ever |-> watch[t].ever \cup There(disk, vbd),
                           along |-> watch[t].along \cap There(disk, vbd)]
           /\ watch[t].along \subseteq There(disk, vbd) /\ There(disk, vbd) \subseteq watch[t].ever
           /\ There(disk', vbd') = There(disk, vbd)
           /\ watch[t].along \subseteq Pids
           /\ \A p \in There(disk, vbd) : Connects(p) /\ vbd[p] # "absent" /\ p \in Pids
  <1>1. tool'[t] = r
    BY DEF Asks, ToolsIInv, ToolTyped
  <1>2. There(disk', vbd') = There(disk, vbd)
    BY DEF Asks, Still
  <1>3. watch[t].along \subseteq There(disk, vbd) /\ There(disk, vbd) \subseteq watch[t].ever
    BY DEF ToolsIInv, ToolOf, ListingOf, Asks
  <1>4. \A p \in There(disk, vbd) : Connects(p) /\ vbd[p] # "absent" /\ p \in Pids
    BY DEF There, Connects, ToolsIInv, DisksTyped
  <1>5. watch'[t] = [ever |-> watch[t].ever \cup There(disk, vbd),
                     along |-> watch[t].along \cap There(disk, vbd)]
    BY <1>1, <1>2 DEF Watched, Asks
  <1> QED BY <1>1, <1>2, <1>3, <1>4, <1>5

LEMMA ListingThen ==
    ASSUME ToolsIInv, Watched, NEW t \in Tools, NEW r \in ToolSet, Asks(r, t), NEW P, Present(t)' = P,
           P \subseteq watch[t].ever,
           r.pc = "ask pid" => watch[t].along \subseteq r.todo \cup r.found /\ r.list = {},
           r.pc = "ask list" => watch[t].along \subseteq r.todo \cup P,
           r.pc = "done" => /\ watch[t].along \subseteq P
                            /\ \A m \in SysfsMinors : \E e \in r.list : e.minor = m
    PROVE  ListingOf(t)'
  <1>1. /\ tool'[t] = r /\ There(disk', vbd') = There(disk, vbd)
        /\ watch[t].along \subseteq There(disk, vbd) /\ There(disk, vbd) \subseteq watch[t].ever
        /\ watch'[t] = [ever |-> watch[t].ever \cup There(disk, vbd),
                        along |-> watch[t].along \cap There(disk, vbd)]
    BY ListWatch
  <1>2. /\ watch[t].along \cap There(disk, vbd) = watch[t].along
        /\ watch[t].ever \cup There(disk, vbd) = watch[t].ever
    BY <1>1
  <1>4. watch'[t].along = watch[t].along /\ watch'[t].ever = watch[t].ever
    <2> DEFINE E == watch[t].ever \cup There(disk, vbd)
               A == watch[t].along \cap There(disk, vbd)
    <2>1. watch'[t] = [ever |-> E, along |-> A] /\ A = watch[t].along /\ E = watch[t].ever
      BY <1>1, <1>2
    <2> HIDE DEF A, E
    <2>2. watch'[t].along = A
      BY ONLY <2>1
    <2>3. watch'[t].ever = E
      BY ONLY <2>1
    <2> QED BY <2>1, <2>2, <2>3
  <1>3. r.pc # "glob"
    BY DEF Asks
  <1> QED BY <1>1, <1>3, <1>4 DEF ListingOf

LEMMA GlobStep ==
    ASSUME ToolsIInv, Watched, NEW t \in Tools, find_tapdisks(t)
    PROVE  ToolsIInv'
  <1>1. tool[t] \in ToolSet /\ ToolOf(t)
    BY DEF ToolsIInv, ToolTyped
  <1> DEFINE r == [tool[t] EXCEPT !.pc = "ask pid", !.todo = sockets]
  <1>2. sockets \in SUBSET Pids
    BY DEF ToolsIInv, DisksTyped
  <1>3. tool[t].op = "list" /\ tool[t].id = 0 /\ tool[t].list = {} /\ tool[t].pc = "glob"
    BY <1>1 DEF find_tapdisks, ToolOf, PhaseOf, ListingOf, ToolSet
  <1>4. r \in ToolSet
    BY <1>1, <1>2 DEF ToolSet, Pcs
  <1>5. r.op = "list" /\ r.id = 0 /\ r.pc = "ask pid" /\ r.todo = sockets /\ r.list = {}
    BY <1>1, <1>3 DEF ToolSet
  <1>6. tool' = [tool EXCEPT ![t] = r] /\ Still
    BY <1>1 DEF find_tapdisks, Still, ToolSet
  <1> HIDE DEF r
  <1>7. Asks(r, t)
    BY <1>3, <1>5, <1>6 DEF Asks
  <1>8. ListingOf(t)'
    <2>1. tool'[t] = r /\ watch[t].along \subseteq There(disk, vbd)
      BY <1>4, <1>7, ListWatch
    <2>2. Present(t)' = {}
      BY <2>1, <1>5 DEF Present
    <2>3. There(disk, vbd) \subseteq sockets
      BY DEF There, ToolsIInv, DisksTyped
    <2> QED BY <1>4, <1>5, <1>7, <2>1, <2>2, <2>3, ListingThen
  <1> QED BY <1>4, <1>7, <1>8, ListSteps

LEMMA PidStep ==
    ASSUME ToolsIInv, Watched, NEW t \in Tools, tap_ctl_get_pid(t)
    PROVE  ToolsIInv'
  <1>1. tool[t] \in ToolSet /\ ToolOf(t)
    BY DEF ToolsIInv, ToolTyped
  <1>2. /\ tool[t].op = "list" /\ tool[t].id = 0 /\ tool[t].list = {} /\ tool[t].pc = "ask pid" /\ Still
        /\ watch[t].along \subseteq tool[t].todo \cup tool[t].found
    BY <1>1 DEF tap_ctl_get_pid, ToolOf, PhaseOf, ListingOf, ToolSet, Still
  <1>3. CASE tool[t].todo = {}
    <2> DEFINE r == [tool[t] EXCEPT !.pc = "ask list", !.todo = tool[t].found]
    <2>1. r \in ToolSet /\ r.op = "list" /\ r.id = 0 /\ r.pc = "ask list" /\ r.todo = tool[t].found /\ r.list = {}
      BY <1>1, <1>2 DEF ToolSet, Pcs
    <2>2. tool' = [tool EXCEPT ![t] = r]
      BY <1>1, <1>3 DEF tap_ctl_get_pid, ToolSet
    <2> HIDE DEF r
    <2>3. Asks(r, t)
      BY <1>2, <2>1, <2>2 DEF Asks
    <2>4. Present(t)' = {}
      BY <2>1, <2>3, ListWatch DEF Present
    <2>5. ListingOf(t)'
      BY <1>2, <1>3, <2>1, <2>3, <2>4, ListingThen
    <2> QED BY <2>1, <2>3, <2>5, ListSteps
  <1>4. CASE tool[t].todo # {}
    <2> DEFINE p == Lowest(tool[t].todo)
               found == IF Connects(p) THEN tool[t].found \cup {p} ELSE tool[t].found
               r == [tool[t] EXCEPT !.todo = tool[t].todo \ {p}, !.found = found]
    <2>1. tool[t].todo \in SUBSET Pids /\ tool[t].found \in SUBSET Pids /\ p \in Pids
      BY <1>1, <1>4, LeastPid DEF ToolSet
    <2>2. found \in SUBSET Pids /\ tool[t].todo \ {p} \in SUBSET Pids
      BY <2>1
    <2>3. tool' = [tool EXCEPT ![t] = r]
      BY <1>1, <1>4 DEF tap_ctl_get_pid, ToolSet
    <2>4. (Connects(p) => p \in found) /\ tool[t].found \subseteq found
      OBVIOUS
    <2> HIDE DEF p, found
    <2>5. r \in ToolSet /\ r.op = "list" /\ r.id = 0 /\ r.pc = "ask pid" /\ r.todo = tool[t].todo \ {p} /\ r.found = found /\ r.list = {}
      BY <1>1, <1>2, <2>2 DEF ToolSet, Pcs
    <2> HIDE DEF r
    <2>6. Asks(r, t)
      BY <1>2, <2>3, <2>5 DEF Asks
    <2>7. Present(t)' = {}
      BY <2>5, <2>6, ListWatch DEF Present
    <2>8. watch[t].along \subseteq (tool[t].todo \ {p}) \cup found
      BY <1>2, <2>4, <2>5, <2>6, ListWatch, ZenonT(40)
    <2>9. ListingOf(t)'
      BY <2>5, <2>6, <2>7, <2>8, ListingThen
    <2> QED BY <2>5, <2>6, <2>9, ListSteps
  <1> QED BY <1>3, <1>4

LEMMA ListStep ==
    ASSUME ToolsIInv, Watched, NEW t \in Tools, list_next(t)
    PROVE  ToolsIInv'
  <1>1. tool[t] \in ToolSet /\ ToolOf(t)
    BY DEF ToolsIInv, ToolTyped
  <1>2. /\ tool[t].op = "list" /\ tool[t].id = 0 /\ tool[t].pc = "ask list" /\ Still
        /\ watch[t].along \subseteq tool[t].todo \cup Present(t) /\ Present(t) \subseteq watch[t].ever
    BY <1>1 DEF list_next, ToolOf, PhaseOf, ListingOf, ToolSet, Still
  <1>3. CASE tool[t].todo = {}
    <2> DEFINE last == {[pid |-> -1, minor |-> m] : m \in SysfsMinors \ Listed(t)}
               r == [tool[t] EXCEPT !.pc = "done", !.list = tool[t].list \cup last]
    <2>1. last \in SUBSET Entries /\ tool[t].list \in SUBSET Entries
      BY <1>1 DEF ToolSet, Entries
    <2>2. tool' = [tool EXCEPT ![t] = r]
      BY <1>1, <1>3 DEF list_next, ToolSet
    <2>3. {e.pid : e \in {f \in tool[t].list \cup last : f.pid > 0 /\ f.minor >= 0}} = Present(t)
      BY DEF Present
    <2>4. \A m \in SysfsMinors : \E e \in tool[t].list \cup last : e.minor = m
      <3> SUFFICES ASSUME NEW m \in SysfsMinors PROVE \E e \in tool[t].list \cup last : e.minor = m
        OBVIOUS
      <3>1. CASE m \in Listed(t)
        BY <3>1 DEF Listed
      <3>2. CASE m \notin Listed(t)
        <4> DEFINE e == [pid |-> -1, minor |-> m]
        <4>1. e \in last /\ e.minor = m
          BY <3>2
        <4> HIDE DEF e, last
        <4> QED BY <4>1
      <3> QED BY <3>1, <3>2
    <2> HIDE DEF last
    <2>5. r \in ToolSet /\ r.op = "list" /\ r.id = 0 /\ r.pc = "done" /\ r.list = tool[t].list \cup last
      BY <1>1, <1>2, <2>1 DEF ToolSet, Pcs
    <2> HIDE DEF r
    <2>6. Asks(r, t)
      BY <1>2, <2>2, <2>5 DEF Asks
    <2>7. Present(t)' = Present(t)
      BY <2>3, <2>5, <2>6, ListWatch DEF Present
    <2>8. watch[t].along \subseteq Present(t)
      BY <1>2, <1>3
    <2>9. /\ r.pc = "done" /\ Present(t) \subseteq watch[t].ever
          /\ \A m \in SysfsMinors : \E e \in r.list : e.minor = m
      BY <1>2, <2>4, <2>5
    <2>10. ListingOf(t)'
      BY <2>5, <2>6, <2>7, <2>8, <2>9, ListingThen
    <2> QED BY <2>5, <2>6, <2>10, ListSteps
  <1>4. CASE tool[t].todo # {}
    <2> DEFINE p == Lowest(tool[t].todo)
               e == [pid |-> p, minor |-> IF Connects(p) /\ vbd[p] # "absent" THEN 0 ELSE -1]
               r == [tool[t] EXCEPT !.list = tool[t].list \cup {e}, !.todo = tool[t].todo \ {p}]
    <2>1. tool[t].todo \in SUBSET Pids /\ tool[t].list \in SUBSET Entries /\ p \in Pids
      BY <1>1, <1>4, LeastPid DEF ToolSet
    <2>2. \A x \in Pids : x \in Nat /\ x > 0
      BY TapCtlAssumption DEF Pids
    <2>3. e \in Entries /\ tool[t].todo \ {p} \in SUBSET Pids
      BY <2>1, <2>2 DEF Entries
    <2>4. tool' = [tool EXCEPT ![t] = r]
      BY <1>1, <1>4 DEF list_next, list_tapdisk, ToolSet
    <2>5. /\ {f.pid : f \in {g \in tool[t].list \cup {e} : g.pid > 0 /\ g.minor >= 0}}
              = Present(t) \cup (IF Connects(p) /\ vbd[p] # "absent" THEN {p} ELSE {})
      <3>1. e.pid = p /\ e.pid > 0 /\ (e.minor >= 0 <=> Connects(p) /\ vbd[p] # "absent")
        BY <2>1, <2>2
      <3> HIDE DEF e
      <3> QED BY <3>1 DEF Present
    <2>6. Connects(p) /\ vbd[p] # "absent" => p \in There(disk, vbd)
      BY <2>1 DEF Connects, There
    <2> HIDE DEF p, e
    <2>7. r \in ToolSet /\ r.op = "list" /\ r.id = 0 /\ r.pc = "ask list" /\ r.todo = tool[t].todo \ {p} /\ r.list = tool[t].list \cup {e}
      BY <1>1, <1>2, <2>1, <2>3 DEF ToolSet, Pcs
    <2> HIDE DEF r
    <2>8. Asks(r, t)
      BY <1>2, <2>4, <2>7 DEF Asks
    <2>9. Present(t)' = Present(t) \cup (IF Connects(p) /\ vbd[p] # "absent" THEN {p} ELSE {})
      BY <2>5, <2>7, <2>8, ListWatch DEF Present
    <2>10. watch[t].along \subseteq (tool[t].todo \ {p}) \cup Present(t)'
      BY <1>2, <2>7, <2>8, <2>9, ListWatch
    <2>11. Present(t)' \subseteq watch[t].ever
      BY <1>2, <2>6, <2>7, <2>8, <2>9, ListWatch
    <2>12. ListingOf(t)'
      BY <2>7, <2>8, <2>10, <2>11, ListingThen
    <2> QED BY <2>7, <2>8, <2>12, ListSteps
  <1> QED BY <1>3, <1>4

LEMMA ToolsStep == ToolsIInv /\ [TapCtlNext]_tapctlVars => ToolsIInv'
  <1>1. ASSUME ToolsIInv, TapCtlNext PROVE ToolsIInv'
    <2>1. Watched
      BY <1>1 DEF TapCtlNext
    <2>2. ASSUME NEW t \in Tools, Steps(t) PROVE ToolsIInv'
      <3>1. CASE start(t, "create", "spawn", 0) \/ start(t, "list", "glob", 0)
        BY <1>1, <2>1, <3>1, StartStep
      <3>2. CASE \E p \in sockets : start(t, "destroy", "close", p)
        BY <1>1, <2>1, <3>2, StartStep
      <3> QED BY <1>1, <2>1, <2>2, <3>1, <3>2, SpawnSteps, AttachStep, CreateOpenStep, UndoStep, DestroySteps,
                 GlobStep, PidStep, ListStep DEF Steps
    <2> QED BY <1>1, <2>1, <2>2, ServeStep, KilledStep DEF TapCtlNext
  <1>2. ASSUME ToolsIInv, UNCHANGED tapctlVars PROVE ToolsIInv'
    <2>1. UNCHANGED <<tool, disk, vbd, sockets, watch>>
      BY <1>2 DEF tapctlVars
    <2>2. ToolTyped' /\ DisksTyped'
      BY <1>2, <2>1 DEF ToolsIInv, ToolTyped, DisksTyped
    <2>3. ASSUME NEW t \in Tools PROVE ToolOf(t)'
      <3>1. ToolOf(t) /\ Present(t)' = Present(t) /\ There(disk', vbd') = There(disk, vbd)
        BY <1>2, <2>1 DEF ToolsIInv, Present
      <3>2. PhaseOf(t)' /\ CreatedOf(t)' /\ DestroyedOf(t)'
        BY <2>1, <3>1 DEF ToolOf, PhaseOf, CreatedOf, DestroyedOf
      <3>3. ListingOf(t)'
        BY <2>1, <3>1 DEF ToolOf, ListingOf
      <3> QED BY <3>2, <3>3 DEF ToolOf
    <2> QED BY <2>2, <2>3 DEF ToolsIInv
  <1> QED BY <1>1, <1>2

(* The states of tools and tapdisks agree in every reachable state.         *)
THEOREM ToolsInvariance == TapCtlSpec => []ToolsIInv
  BY ToolsStart, ToolsStep, PTL DEF TapCtlSpec

(* Create and destroy do all or nothing, and a list is true of its time,    *)
(* whichever requests of how many tools come in between and whichever       *)
(* tapdisks are killed.                                                     *)
THEOREM ToolsAreSound == TapCtlSpec => []ToolsSound
  <1>1. ToolsIInv => ToolsSound
    <2> SUFFICES ASSUME ToolsIInv PROVE ToolsSound
      OBVIOUS
    <2>1. CreatesWhole
      BY DEF ToolsIInv, ToolOf, CreatedOf, DestroyedOf, CreatesWhole
    <2>2. ListHonest
      BY DEF ToolsIInv, ToolOf, ListingOf, Present, ListHonest
    <2> QED BY <2>1, <2>2 DEF ToolsSound
  <1> QED BY <1>1, ToolsInvariance, PTL

-----------------------------------------------------------------------------
(* The xenio daemon serves the rings guests publish and fails none of its   *)
(* assertions.                                                              *)

FeStates == {"none", "Initialising", "Initialised", "Connected", "Closing", "Closed"}
BeStates == {"none", "Initialising", "InitWait", "Connected", "Closing"}
WatchEvents == ({"backend"} \X (Devs \cup {"scan"})) \cup ({"otherend"} \X Devs)
Dirs == [there : BOOLEAN, serial : Nat, state : BeStates, info : BOOLEAN]
Fes == [state : FeStates, ring : Nat]
Known == [there : BOOLEAN, serial : Nat, gref : Nat]

Has(q, e) == \E i \in 1 .. Len(q) : q[i] = e

XeTyped ==
    /\ be \in [Devs -> Dirs] /\ fe \in [Devs -> Fes] /\ dev \in [Devs -> Known] /\ tap \in [Devs -> Nat]
    /\ watches \in Seq(WatchEvents) /\ serial \in Nat /\ rings \in Nat /\ adds \in Nat /\ restarts \in Nat

(* How a device's directory b, frontend f, entry v of the daemon and ring t *)
(* of the tapdisk go together.                                              *)
Fits(b, f, v, t) ==
    /\ v.there /\ b.there => b.serial = v.serial
    /\ b.there => f.state # "none"
    /\ ~b.there => b.state = "none"
    /\ b.state = "Connected" => /\ f.state \in {"Initialised", "Connected", "Closing", "Closed"}
                                /\ f.state # "Closed" => b.info /\ t = f.ring
    /\ v.gref # 0 /\ b.there => /\ f.state \in {"Initialised", "Connected", "Closing", "Closed"}
                                /\ v.gref = f.ring
                                /\ f.state # "Closed" => t = f.ring
    /\ ~v.there => v.gref = 0

(* An event of a frontend is of a device the daemon knows and the toolstack *)
(* has not removed; a device that was removed is yet to be found so.        *)
Heeds(b, v, q, d) ==
    /\ Has(q, <<"otherend", d>>) => v.there /\ b.there
    /\ v.there /\ ~b.there => Has(q, <<"backend", d>>)

XeIInv ==
    /\ XeTyped /\ alive
    /\ \A d \in Devs : Fits(be[d], fe[d], dev[d], tap[d]) /\ Heeds(be[d], dev[d], watches, d)

(* What the daemon is proved under: see README. *)
XenioOrderly == Orderly /\ ~WritesFail /\ "backend" \notin Conflicts

(* Events that are posted are in the queue, those there stay, and the      *)
(* first stays the first (xenstored drops an event equal to the last).     *)
LEMMA PostedHas ==
    ASSUME NEW q \in Seq(WatchEvents), NEW es \in Seq(WatchEvents)
    PROVE  /\ Posted(q, es) \in Seq(WatchEvents)
           /\ q # <<>> => Posted(q, es) # <<>> /\ Head(Posted(q, es)) = Head(q)
           /\ \A e : Has(Posted(q, es), e) <=> Has(q, e) \/ Has(es, e)
  <1>1. CASE q # <<>> /\ es # <<>> /\ q[Len(q)] = es[1]
    <2> DEFINE r == q \o Tail(es)
    <2>1. Posted(q, es) = r
      BY <1>1 DEF Posted
    <2>2. Tail(es) \in Seq(WatchEvents) /\ Len(Tail(es)) = Len(es) - 1 /\ \A i \in 1 .. Len(es) - 1 : Tail(es)[i] = es[i + 1]
      BY <1>1
    <2>3. r \in Seq(WatchEvents) /\ Len(r) = Len(q) + Len(es) - 1 /\ Len(q) >= 1 /\ Len(es) >= 1
      BY <1>1, <2>2
    <2>4. \A i \in 1 .. Len(q) : r[i] = q[i]
      BY <1>1, <2>2
    <2>5. \A i \in 2 .. Len(es) : r[Len(q) + i - 1] = es[i]
      BY <1>1, <2>2
    <2> HIDE DEF r
    <2>6. ASSUME NEW e PROVE Has(r, e) <=> Has(q, e) \/ Has(es, e)
      <3>1. ASSUME Has(r, e) PROVE Has(q, e) \/ Has(es, e)
        <4>1. PICK i \in 1 .. Len(r) : r[i] = e
          BY <3>1 DEF Has
        <4>2. CASE i <= Len(q)
          BY <4>1, <4>2, <2>3, <2>4 DEF Has
        <4>3. CASE i > Len(q)
          <5>1. i - Len(q) + 1 \in 2 .. Len(es)
            BY <4>1, <4>3, <2>3
          <5>2. r[Len(q) + (i - Len(q) + 1) - 1] = es[i - Len(q) + 1]
            BY <5>1, <2>5
          <5>3. Len(q) + (i - Len(q) + 1) - 1 = i
            BY <2>3
          <5> QED BY <5>1, <5>2, <5>3, <4>1, <2>3 DEF Has
        <4> QED BY <4>2, <4>3, <4>1, <2>3
      <3>2. ASSUME Has(q, e) PROVE Has(r, e)
        BY <3>2, <2>3, <2>4 DEF Has
      <3>3. ASSUME Has(es, e) PROVE Has(r, e)
        <4>1. PICK i \in 1 .. Len(es) : es[i] = e
          BY <3>3 DEF Has
        <4>2. CASE i = 1
          BY <4>1, <4>2, <1>1, <2>3, <2>4 DEF Has
        <4>3. CASE i > 1
          BY <4>1, <4>3, <2>3, <2>5 DEF Has
        <4> QED BY <4>1, <4>2, <4>3
      <3> QED BY <3>1, <3>2, <3>3
    <2>7. r # <<>> /\ Head(r) = Head(q)
      BY <2>3, <2>4, <1>1
    <2> QED BY <2>1, <2>3, <2>6, <2>7
  <1>2. CASE ~(q # <<>> /\ es # <<>> /\ q[Len(q)] = es[1])
    <2> DEFINE r == q \o es
    <2>1. Posted(q, es) = r
      BY <1>2 DEF Posted
    <2>2. r \in Seq(WatchEvents) /\ Len(r) = Len(q) + Len(es) /\ Len(q) \in Nat /\ Len(es) \in Nat
      OBVIOUS
    <2>3. (\A i \in 1 .. Len(q) : r[i] = q[i]) /\ \A i \in 1 .. Len(es) : r[Len(q) + i] = es[i]
      OBVIOUS
    <2> HIDE DEF r
    <2>4. ASSUME NEW e PROVE Has(r, e) <=> Has(q, e) \/ Has(es, e)
      <3>1. ASSUME Has(r, e) PROVE Has(q, e) \/ Has(es, e)
        <4>1. PICK i \in 1 .. Len(r) : r[i] = e
          BY <3>1 DEF Has
        <4>2. CASE i <= Len(q)
          BY <4>1, <4>2, <2>2, <2>3 DEF Has
        <4>3. CASE i > Len(q)
          <5>1. i - Len(q) \in 1 .. Len(es) /\ Len(q) + (i - Len(q)) = i
            BY <4>1, <4>3, <2>2
          <5> QED BY <5>1, <4>1, <2>3 DEF Has
        <4> QED BY <4>2, <4>3, <4>1, <2>2
      <3>2. ASSUME Has(q, e) PROVE Has(r, e)
        BY <3>2, <2>2, <2>3 DEF Has
      <3>3. ASSUME Has(es, e) PROVE Has(r, e)
        <4>1. PICK i \in 1 .. Len(es) : es[i] = e
          BY <3>3 DEF Has
        <4>2. Len(q) + i \in 1 .. Len(r) /\ r[Len(q) + i] = e
          BY <4>1, <2>2, <2>3
        <4> QED BY <4>2 DEF Has
      <3> QED BY <3>1, <3>2, <3>3
    <2>5. q # <<>> => r # <<>> /\ Head(r) = Head(q)
      BY <2>2, <2>3
    <2> QED BY <2>1, <2>2, <2>4, <2>5
  <1> QED BY <1>1, <1>2

(* The same of one event.                                                   *)
LEMMA PostHas ==
    ASSUME NEW q \in Seq(WatchEvents), NEW e \in WatchEvents
    PROVE  /\ Post(q, e) \in Seq(WatchEvents)
           /\ q # <<>> => Post(q, e) # <<>> /\ Head(Post(q, e)) = Head(q)
           /\ \A f : Has(Post(q, e), f) <=> Has(q, f) \/ f = e
  <1>1. <<e>> \in Seq(WatchEvents) /\ \A f : Has(<<e>>, f) <=> f = e
    BY DEF Has
  <1> QED BY <1>1, PostedHas DEF Post

(* What is left when an event has been read: those behind it.               *)
LEMMA TailHas ==
    ASSUME NEW q \in Seq(WatchEvents), q # <<>>
    PROVE  /\ Tail(q) \in Seq(WatchEvents) /\ Head(q) \in WatchEvents
           /\ \A e : Has(q, e) <=> e = Head(q) \/ Has(Tail(q), e)
  <1>1. Len(q) \in Nat /\ Len(q) >= 1 /\ Tail(q) \in Seq(WatchEvents) /\ Len(Tail(q)) = Len(q) - 1
    OBVIOUS
  <1>2. \A i \in 1 .. Len(q) - 1 : Tail(q)[i] = q[i + 1]
    OBVIOUS
  <1>3. Head(q) = q[1] /\ q[1] \in WatchEvents
    OBVIOUS
  <1>4. ASSUME NEW e, Has(q, e) PROVE e = Head(q) \/ Has(Tail(q), e)
    <2>1. PICK i \in 1 .. Len(q) : q[i] = e
      BY <1>4 DEF Has
    <2>2. CASE i = 1
      BY <2>1, <2>2, <1>3
    <2>3. CASE i > 1
      <3>1. i - 1 \in 1 .. Len(q) - 1 /\ (i - 1) + 1 = i
        BY <2>3, <1>1
      <3> QED BY <3>1, <2>1, <1>1, <1>2 DEF Has
    <2> QED BY <2>2, <2>3
  <1>5. ASSUME NEW e, Has(Tail(q), e) PROVE Has(q, e)
    <2>1. PICK i \in 1 .. Len(q) - 1 : Tail(q)[i] = e
      BY <1>5, <1>1 DEF Has
    <2>2. i + 1 \in 1 .. Len(q)
      BY <1>1, <2>1
    <2> QED BY <2>1, <2>2, <1>2 DEF Has
  <1>6. Has(q, Head(q))
    BY <1>1, <1>3 DEF Has
  <1> QED BY <1>1, <1>3, <1>4, <1>5, <1>6

(* The events of a set of directories, reported in any order, are theirs.   *)
LEMMA EventsHas ==
    ASSUME NEW S \in SUBSET Devs, NEW q \in Orders(S), NEW kind \in {"backend", "otherend"}
    PROVE  /\ Events(kind, q) \in Seq(WatchEvents) /\ q \in Seq(S)
           /\ \A k, d : Has(Events(kind, q), <<k, d>>) <=> k = kind /\ d \in S
           /\ \A d : (\E i \in 1 .. Len(q) : q[i] = d) <=> d \in S
  <1>1. IsFiniteSet(S) /\ Cardinality(S) \in Nat
    BY XenioAssumption, FS_Subset, FS_CardinalityType
  <1>2. q \in [1 .. Cardinality(S) -> S] /\ \A d \in S : \E i \in 1 .. Cardinality(S) : q[i] = d
    BY DEF Orders
  <1>3. q \in Seq(S) /\ Len(q) = Cardinality(S)
    BY <1>1, <1>2
  <1>4. Len(Events(kind, q)) = Len(q) /\ \A i \in 1 .. Len(q) : Events(kind, q)[i] = <<kind, q[i]>>
    BY <1>1, <1>3 DEF Events
  <1>5. Events(kind, q) \in Seq(WatchEvents)
    <2>1. \A i \in 1 .. Len(q) : <<kind, q[i]>> \in WatchEvents
      BY <1>2, <1>3 DEF WatchEvents
    <2> QED BY <2>1, <1>3, <1>1 DEF Events
  <1> QED BY <1>2, <1>3, <1>4, <1>5, SMTT(30) DEF Has

(* The daemon starts with no device and one scan of the directory.          *)
LEMMA XeStart == XenioInit => XeIInv
  <1> SUFFICES ASSUME XenioInit PROVE XeIInv
    OBVIOUS
  <1>1. XeTyped
    <2>1. watches \in Seq(WatchEvents)
      BY DEF XenioInit, WatchEvents
    <2> QED BY <2>1 DEF XenioInit, XeTyped, NoDir, NoDev, Dirs, Fes, Known, FeStates, BeStates
  <1>2. \A d \in Devs : ~Has(watches, <<"otherend", d>>)
    BY DEF XenioInit, Has
  <1> QED BY <1>1, <1>2 DEF XenioInit, XeIInv, Fits, Heeds, NoDir, NoDev

(* The handlers, one by one, from a state that fits. *)

\* What a step leaves of the devices, when it only posts events.
LEMMA Unmoved ==
    ASSUME XeIInv, NEW q \in Seq(WatchEvents),
           \A d \in Devs : Has(q, <<"otherend", d>>) => dev[d].there /\ be[d].there,
           \A d \in Devs : Has(watches, <<"backend", d>>) => Has(q, <<"backend", d>>)
    PROVE  \A d \in Devs : Heeds(be[d], dev[d], q, d)
  BY DEF XeIInv, Heeds

(* What a handler may make of device d: it fits, whether what was written   *)
(* to xenstore stays or not.                                                *)
Well(v, d) ==
    /\ v.serial = serial /\ v.alive = TRUE /\ v.watch = watches
    /\ v.dev \in [Devs -> Known] /\ v.tap \in [Devs -> Nat] /\ v.be \in [Devs -> Dirs]
    /\ v.dev[d].there /\ v.be[d].there
    /\ Fits(be[d], fe[d], v.dev[d], v.tap[d])
    /\ ~v.err => Fits(v.be[d], fe[d], v.dev[d], v.tap[d])
    /\ \A x \in Devs \ {d} : v.dev[x] = dev[x] /\ v.tap[x] = tap[x] /\ v.be[x] = be[x]

\* The states a transaction goes through.
Stages == [be : [Devs -> Dirs], dev : [Devs -> Known], serial : Nat, tap : [Devs -> Nat],
           watch : Seq(WatchEvents), alive : BOOLEAN, err : BOOLEAN]

(* A transaction begins with what is there (xenio_backend_read_watch).      *)
LEMMA BegunIs ==
    XeIInv => /\ Begun \in Stages
              /\ Begun.be = be /\ Begun.dev = dev /\ Begun.tap = tap /\ Begun.serial = serial
              /\ Begun.watch = watches /\ Begun.alive = TRUE /\ Begun.err = FALSE
  BY DEF XeIInv, XeTyped, Begun, Stages

\* Writing below a directory that is there.
LEMMA PrintfIs ==
    ASSUME NEW w \in Stages, NEW d \in Devs, NEW e \in Dirs, e.there
    PROVE  /\ xenio_device_printf(w, d, e) \in Stages
           /\ xenio_device_printf(w, d, e) = [w EXCEPT !.be = [w.be EXCEPT ![d] = e]]
  <1>1. [e EXCEPT !.there = TRUE] = e
    BY DEF Dirs
  <1>2. xenio_device_printf(w, d, e) = [w EXCEPT !.be = [w.be EXCEPT ![d] = e]]
    BY <1>1 DEF xenio_device_printf
  <1>3. [w.be EXCEPT ![d] = e] \in [Devs -> Dirs]
    BY DEF Stages
  <1> QED BY <1>2, <1>3 DEF Stages

(* blkback_connect_tap: the ring the tapdisk is told is the one published. *)
LEMMA ConnectFits ==
    ASSUME XenioOrderly, XeIInv, NEW d \in Devs, NEW c \in Answers,
           dev[d].there, be[d].there, fe[d].state \in {"Initialised", "Connected"}
    PROVE  Well(blkback_connect_tap(Begun, d, c), d)
  <1> DEFINE r == fe[d].ring
             v == blkback_connect_tap(Begun, d, c)
  <1>1. c.write = TRUE /\ c.ok \in BOOLEAN /\ c.busy \in BOOLEAN
    BY DEF Answers, XenioOrderly
  <1>2. Fits(be[d], fe[d], dev[d], tap[d])
    BY DEF XeIInv
  <1>3. be[d] \in Dirs /\ dev[d] \in Known /\ tap[d] \in Nat /\ r \in Nat /\ fe[d] \in Fes
    BY DEF XeIInv, XeTyped, Fes
  <1>4. be \in [Devs -> Dirs] /\ dev \in [Devs -> Known] /\ tap \in [Devs -> Nat]
    BY DEF XeIInv, XeTyped
  <1>5. CASE dev[d].gref = 0 /\ (r = 0 \/ ~(tap[d] = 0 /\ c.ok))
    <2>1. v = [Begun EXCEPT !.err = TRUE]
      BY <1>5 DEF blkback_connect_tap, Begun, TapConnects, Fail, OtherendRing
    <2> QED BY <2>1, <1>2, <1>4 DEF Begun, Well
  <1> DEFINE b == [be[d] EXCEPT !.info = TRUE, !.state = "Connected"]
  <1>b. b \in Dirs /\ b.there = be[d].there
    BY <1>3 DEF Dirs, BeStates
  <1> DEFINE Written(w) == /\ v.be = [be EXCEPT ![d] = b] /\ v.dev = w.dev /\ v.tap = w.tap
                           /\ v.serial = w.serial /\ v.alive = w.alive /\ v.watch = w.watch
  <1>w. ASSUME NEW w \in Stages, w.be = be, v = xenio_device_printf(w, d, b)
        PROVE  Written(w)
    <2> HIDE DEF v, b
    <2>1. v = [w EXCEPT !.be = [w.be EXCEPT ![d] = b]]
      BY <1>w, <1>b, PrintfIs
    <2> QED BY <2>1, <1>w DEF Stages
  <1>6. CASE dev[d].gref = 0 /\ r # 0 /\ tap[d] = 0 /\ c.ok
    <2> DEFINE n == [dev[d] EXCEPT !.gref = r]
               w == [Begun EXCEPT !.dev = [dev EXCEPT ![d] = n], !.tap = [tap EXCEPT ![d] = r]]
    <2>1. v = xenio_device_printf(w, d, b)
      BY <1>6, <1>1, <1>3, <1>4 DEF blkback_connect_tap, Begun, TapConnects, OtherendRing
    <2>2. n \in Known /\ n.there
      BY <1>3 DEF Known
    <2>3. Fits(be[d], fe[d], n, r)
      BY <1>2, <1>3, <1>6 DEF Fits, Known
    <2>4. Fits(b, fe[d], n, r)
      BY <1>2, <1>3, <1>6 DEF Fits, Known, Dirs
    <2>5. /\ w.be = be /\ w.dev = [dev EXCEPT ![d] = n] /\ w.tap = [tap EXCEPT ![d] = r]
          /\ w.serial = serial /\ w.alive = TRUE /\ w.watch = watches
      BY DEF Begun
    <2>w. w \in Stages
      <3>1. [dev EXCEPT ![d] = n] \in [Devs -> Known] /\ [tap EXCEPT ![d] = r] \in [Devs -> Nat]
        BY <1>3, <1>4, <2>2
      <3> HIDE DEF n, r
      <3> QED BY <3>1, BegunIs DEF Stages
    <2> HIDE DEF w, v
    <2>6. Written(w)
      BY <2>1, <2>5, <2>w, <1>w
    <2> HIDE DEF b, n, r
    <2>7. Well(v, d)
      <3>1. v.be = [be EXCEPT ![d] = b] /\ v.dev = [dev EXCEPT ![d] = n] /\ v.tap = [tap EXCEPT ![d] = r]
        BY <2>6, <2>5
      <3>2. v.serial = serial /\ v.alive = TRUE /\ v.watch = watches
        BY <2>6, <2>5
      <3>3. /\ [be EXCEPT ![d] = b] \in [Devs -> Dirs] /\ [dev EXCEPT ![d] = n] \in [Devs -> Known]
            /\ [tap EXCEPT ![d] = r] \in [Devs -> Nat]
        BY <1>3, <1>4, <1>b, <2>2
      <3>4. v.be[d] = b /\ v.dev[d] = n /\ v.tap[d] = r
        BY <3>1, <1>4
      <3>5. \A x \in Devs \ {d} : v.dev[x] = dev[x] /\ v.tap[x] = tap[x] /\ v.be[x] = be[x]
        BY <3>1, <1>4
      <3>6. v.be \in [Devs -> Dirs] /\ v.dev \in [Devs -> Known] /\ v.tap \in [Devs -> Nat]
        BY <3>1, <3>3
      <3> QED BY <3>2, <3>4, <3>5, <3>6, <2>2, <2>3, <2>4, <1>b DEF Well
    <2> QED BY <2>7 DEF v
  <1>7. CASE dev[d].gref # 0
    <2>1. v = xenio_device_printf(Begun, d, b)
      BY <1>7, <1>1, <1>3, <1>4 DEF blkback_connect_tap, Begun, TapConnects, OtherendRing
    <2>4. Fits(b, fe[d], dev[d], tap[d])
      BY <1>2, <1>3, <1>7 DEF Fits, Known, Dirs
    <2>5. /\ Begun.be = be /\ Begun.dev = dev /\ Begun.tap = tap
          /\ Begun.serial = serial /\ Begun.alive = TRUE /\ Begun.watch = watches /\ Begun \in Stages
      BY BegunIs
    <2> HIDE DEF v
    <2>6. Written(Begun)
      BY <2>1, <2>5, <1>w
    <2> HIDE DEF b, r
    <2>7. Well(v, d)
      BY <2>6, <2>5, <2>4, <1>2, <1>3, <1>4, <1>b DEF Well
    <2> QED BY <2>7 DEF v
  <1> QED BY <1>5, <1>6, <1>7

(* xenio_device_switch_state, when the frontend begins or closes.           *)
LEMMA SwitchFits ==
    ASSUME XenioOrderly, XeIInv, NEW d \in Devs, NEW c \in Answers,
           dev[d].there, be[d].there, NEW s \in {"InitWait", "Closing"}
    PROVE  Well(xenio_device_switch_state(Begun, d, c, s), d)
  <1> DEFINE b == [be[d] EXCEPT !.state = s]
             v == xenio_device_switch_state(Begun, d, c, s)
  <1>1. c.write = TRUE
    BY DEF Answers, XenioOrderly
  <1>2. /\ Fits(be[d], fe[d], dev[d], tap[d]) /\ be[d] \in Dirs /\ be \in [Devs -> Dirs]
        /\ dev \in [Devs -> Known] /\ tap \in [Devs -> Nat]
    BY DEF XeIInv, XeTyped
  <1>4. b \in Dirs /\ b.there
    BY <1>2 DEF Dirs, BeStates
  <1>5. Fits(b, fe[d], dev[d], tap[d])
    BY <1>2 DEF Fits, Dirs
  <1>6. /\ v.be = [be EXCEPT ![d] = b] /\ v.dev = dev /\ v.tap = tap
        /\ v.serial = serial /\ v.alive = TRUE /\ v.watch = watches
    <2>1. v = xenio_device_printf(Begun, d, b)
      BY <1>1, BegunIs DEF xenio_device_switch_state
    <2> HIDE DEF v, b
    <2>2. v = [Begun EXCEPT !.be = [Begun.be EXCEPT ![d] = b]]
      BY <2>1, <1>4, PrintfIs, BegunIs
    <2> QED BY <2>2, BegunIs DEF Stages
  <1> HIDE DEF b, v
  <1>7. Well(v, d)
    BY <1>2, <1>4, <1>5, <1>6 DEF Well
  <1> QED BY <1>7 DEF v

(* blkback_disconnect_tap: the frontend is closed, the tapdisk may stay.    *)
LEMMA DisconnectFits ==
    ASSUME XeIInv, NEW d \in Devs, NEW c \in Answers,
           dev[d].there, be[d].there, fe[d].state = "Closed"
    PROVE  Well(blkback_disconnect_tap(Begun, d, c), d)
  <1> DEFINE v == blkback_disconnect_tap(Begun, d, c)
  <1>1. v.tap \in {tap, [tap EXCEPT ![d] = 0]} /\ v.serial = serial /\ v.alive = TRUE /\ v.watch = watches /\ v.dev = dev /\ v.be = be
    BY DEF blkback_disconnect_tap, Begun, Fail, Disconnected
  <1>2. /\ Fits(be[d], fe[d], dev[d], tap[d]) /\ be \in [Devs -> Dirs]
        /\ dev \in [Devs -> Known] /\ tap \in [Devs -> Nat]
    BY DEF XeIInv, XeTyped
  <1> HIDE DEF v
  <1>3. Fits(be[d], fe[d], dev[d], v.tap[d])
    BY <1>1, <1>2 DEF Fits
  <1>4. Well(v, d)
    BY <1>1, <1>2, <1>3 DEF Well
  <1> QED BY <1>4 DEF v

(* xenio_backend_handle_otherend_watch, of a device the daemon knows.       *)
LEMMA OtherendFits ==
    ASSUME XenioOrderly, XeIInv, NEW d \in Devs, NEW c \in Answers, dev[d].there, be[d].there
    PROVE  Well(xenio_backend_handle_otherend_watch(Begun, d, c), d)
  <1>1. xenio_backend_handle_otherend_watch(Begun, d, c) = blkback_frontend_changed(Begun, d, c)
    BY DEF xenio_backend_handle_otherend_watch, Begun
  <1>2. Fits(be[d], fe[d], dev[d], tap[d])
    BY DEF XeIInv, XeTyped
  <1>3. fe[d].state \in FeStates /\ fe[d].state # "none"
    BY <1>2 DEF XeIInv, XeTyped, Fes, Fits
  <1>4. CASE fe[d].state \in {"Initialised", "Connected"}
    <2>1. blkback_frontend_changed(Begun, d, c) = blkback_connect_tap(Begun, d, c)
      BY <1>4 DEF blkback_frontend_changed, xenio_device_check_frontend_state
    <2> QED BY <2>1, <1>1, <1>4, ConnectFits
  <1>5. CASE fe[d].state = "Initialising"
    <2>1. blkback_frontend_changed(Begun, d, c) = xenio_device_switch_state(Begun, d, c, "InitWait")
      BY <1>5 DEF blkback_frontend_changed, xenio_device_check_frontend_state
    <2> QED BY <2>1, <1>1, SwitchFits
  <1>6. CASE fe[d].state = "Closing"
    <2>1. blkback_frontend_changed(Begun, d, c) = xenio_device_switch_state(Begun, d, c, "Closing")
      BY <1>6 DEF blkback_frontend_changed, xenio_device_check_frontend_state
    <2> QED BY <2>1, <1>1, SwitchFits
  <1>7. CASE fe[d].state = "Closed"
    <2>1. blkback_frontend_changed(Begun, d, c) = blkback_disconnect_tap(Begun, d, c)
      BY <1>7 DEF blkback_frontend_changed, xenio_device_check_frontend_state
    <2> QED BY <2>1, <1>1, <1>7, DisconnectFits
  <1> QED BY <1>3, <1>4, <1>5, <1>6, <1>7 DEF FeStates

\* A device that is probed is created, removed or left as it is.
Probed(v, d) ==
           /\ v.serial \in Nat /\ v.alive = TRUE /\ v.tap = tap
           /\ v.dev \in [Devs -> Known] /\ v.be \in [Devs -> Dirs]
           /\ v.watch \in {watches, Post(watches, <<"otherend", d>>)}
           /\ v.watch # watches => v.dev[d].there /\ be[d].there
           /\ \A x \in Devs : v.be[x].there = be[x].there
           /\ v.err \in BOOLEAN
           /\ v.err => v.dev = dev /\ v.watch = watches
           /\ ~v.err => Fits(v.be[d], fe[d], v.dev[d], tap[d]) /\ v.dev[d].there = be[d].there
           /\ \A x \in Devs \ {d} : v.dev[x] = dev[x] /\ v.be[x] = be[x]

(* xenio_backend_probe_device: a device that is known is the one there.     *)
LEMMA ProbeFits ==
    ASSUME XeIInv, NEW d \in Devs, NEW c \in Answers
    PROVE  Probed(xenio_backend_probe_device(Begun, d, c), d)
  <1> DEFINE v == xenio_backend_probe_device(Begun, d, c)
  <1> SUFFICES Probed(v, d)
    OBVIOUS
  <1>1. /\ Fits(be[d], fe[d], dev[d], tap[d]) /\ be \in [Devs -> Dirs] /\ be[d] \in Dirs /\ dev[d] \in Known
        /\ dev \in [Devs -> Known] /\ tap \in [Devs -> Nat] /\ serial \in Nat
    BY DEF XeIInv, XeTyped
  <1>b. be[d].there \in BOOLEAN /\ dev[d].there \in BOOLEAN
    BY <1>1 DEF Dirs, Known
  <1>2. CASE be[d].there /\ dev[d].there
    <2>1. v = Begun
      BY <1>1, <1>2 DEF xenio_backend_probe_device, Begun, Fits, xenio_device_check_serial, DeviceSerial
    <2> QED BY <2>1, <1>1, <1>b, <1>2, BegunIs DEF Probed
  <1>3. CASE be[d].there /\ ~dev[d].there
    <2> DEFINE b == [be[d] EXCEPT !.serial = serial]
               n == [there |-> TRUE, serial |-> serial, gref |-> 0]
               w == xenio_device_printf(Begun, d, b)
               q == Post(watches, <<"otherend", d>>)
    <2>1. b \in Dirs /\ b.there = TRUE
      BY <1>1, <1>3, <1>b DEF Dirs
    <2>2. n \in Known /\ n.there = TRUE
      BY <1>1 DEF Known
    <2>3. Fits(b, fe[d], n, tap[d])
      BY <1>1, <1>3, <2>2 DEF Fits, Dirs
    <2> HIDE DEF b, n
    <2> HIDE DEF v
    <2>4. w = [Begun EXCEPT !.be = [be EXCEPT ![d] = b]]
      BY <2>1, PrintfIs, BegunIs
    <2>5. v = IF ~c.found THEN [w EXCEPT !.serial = @ + 1, !.err = TRUE]
              ELSE [w EXCEPT !.serial = @ + 1, !.dev = [dev EXCEPT ![d] = n], !.watch = q]
      <3>1. w.dev = dev /\ w.watch = watches
        BY <2>4, BegunIs DEF Stages
      <3> QED BY <3>1, <1>3, BegunIs DEF xenio_backend_probe_device, xenio_backend_create_device, blkback_probe, Fail, b, n, v
    <2> HIDE DEF q
    <2>6. v.be = [be EXCEPT ![d] = b] /\ v.serial = serial + 1 /\ v.tap = tap /\ v.alive = TRUE
      BY <2>4, <2>5, BegunIs DEF Stages
    <2>a. ~c.found => v.dev = dev /\ v.err = TRUE /\ v.watch = watches
      BY <2>4, <2>5, BegunIs DEF Stages
    <2>c. c.found => v.dev = [dev EXCEPT ![d] = n] /\ v.err = FALSE /\ v.watch = q
      BY <2>4, <2>5, BegunIs DEF Stages
    <2>7. [dev EXCEPT ![d] = n] \in [Devs -> Known] /\ [be EXCEPT ![d] = b] \in [Devs -> Dirs]
      BY <2>1, <2>2, <1>1
    <2>8. [dev EXCEPT ![d] = n][d] = n /\ [be EXCEPT ![d] = b][d] = b
      BY <1>1
    <2>9. \A x \in Devs \ {d} : [dev EXCEPT ![d] = n][x] = dev[x] /\ [be EXCEPT ![d] = b][x] = be[x]
      BY <1>1
    <2>10. v.be[d] = b /\ v.be \in [Devs -> Dirs] /\ v.serial \in Nat
      BY <2>6, <2>7, <2>8, <1>1
    <2>11. /\ v.dev \in [Devs -> Known]
           /\ \A x \in Devs \ {d} : v.dev[x] = dev[x] /\ v.be[x] = be[x]
           /\ c.found => v.dev[d] = n
      BY <2>6, <2>a, <2>c, <2>7, <2>8, <2>9, <1>1
    <2>12. q = Post(watches, <<"otherend", d>>)
      BY DEF q
    <2>13. \A x \in Devs : v.be[x].there = be[x].there
      BY <2>1, <2>10, <2>11, <1>b, <1>3
    <2> HIDE DEF v
    <2> QED BY <2>2, <2>3, <2>6, <2>a, <2>c, <2>10, <2>11, <2>12, <2>13, <1>b, <1>3 DEF Probed
  <1>4. CASE ~be[d].there /\ dev[d].there
    <2>1. v = [Begun EXCEPT !.dev[d] = NoDev]
      BY <1>4 DEF xenio_backend_probe_device, Begun, xenio_backend_remove_device
    <2>2. v.dev = [dev EXCEPT ![d] = NoDev] /\ v.be = be /\ v.serial = serial /\ v.tap = tap /\ v.alive = TRUE /\ v.watch = watches /\ ~v.err
      BY <2>1 DEF Begun
    <2>3. Fits(be[d], fe[d], NoDev, tap[d]) /\ NoDev \in Known /\ ~NoDev.there
      BY <1>1, <1>4 DEF Fits, NoDev, Known
    <2>4. be[d].there = FALSE /\ NoDev.there = FALSE /\ v.dev[d] = NoDev
      BY <1>1, <1>4, <2>2 DEF Dirs, NoDev
    <2> HIDE DEF NoDev
    <2>5. v.err = FALSE
      BY <2>1, BegunIs DEF Begun
    <2>6. [dev EXCEPT ![d] = NoDev] \in [Devs -> Known]
      BY <2>3, <1>1
    <2> HIDE DEF v
    <2> QED BY <2>2, <2>3, <2>4, <2>5, <2>6, <1>1 DEF Probed
  <1>5. CASE ~be[d].there /\ ~dev[d].there
    <2>1. v = Begun
      BY <1>5 DEF xenio_backend_probe_device, Begun
    <2> QED BY <2>1, <1>1, <1>b, <1>5, BegunIs DEF Probed
  <1> QED BY <1>1, <1>2, <1>3, <1>4, <1>5 DEF Dirs, Known

\* The scan after a start: nothing is known yet but what it creates.
Scanned(v, q) ==
    /\ v.serial \in Nat /\ v.alive = TRUE /\ v.tap = tap /\ v.err = FALSE
    /\ v.dev \in [Devs -> Known] /\ v.be \in [Devs -> Dirs]
    /\ v.watch \in {watches, Posted(watches, Events("otherend", q))}
    /\ \A x \in Devs : v.be[x].there = be[x].there /\ Fits(v.be[x], fe[x], v.dev[x], tap[x])
    /\ \A x \in Devs : dev[x].there /\ be[x].there => v.dev[x].there
    /\ \A x \in Devs : v.dev[x].there => be[x].there
    /\ v.watch # watches => \A x \in Devs : be[x].there => v.dev[x].there

(* xenio_backend_scan, whatever the order it finds the devices in.          *)
LEMMA ScanFits ==
    ASSUME XeIInv, NEW c \in Answers, NEW q \in Orders({x \in Devs : be[x].there /\ ~dev[x].there})
    PROVE  Scanned(xenio_backend_scan(Begun, c, q), q)
  <1> DEFINE new == {x \in Devs : be[x].there /\ ~dev[x].there}
             nr(d) == serial + (CHOOSE i \in 1 .. Len(q) : q[i] = d) - 1
             is(d) == \E i \in 1 .. Len(q) : q[i] = d
             bes == [d \in Devs |-> IF is(d) THEN [be[d] EXCEPT !.serial = nr(d)] ELSE be[d]]
             devs == [d \in Devs |-> IF is(d) /\ c.found THEN [there |-> TRUE, serial |-> nr(d), gref |-> 0]
                                     ELSE IF ~be[d].there THEN NoDev ELSE dev[d]]
             v == xenio_backend_scan(Begun, c, q)
  <1> SUFFICES Scanned(v, q)
    OBVIOUS
  <1>1. /\ be \in [Devs -> Dirs] /\ dev \in [Devs -> Known] /\ tap \in [Devs -> Nat] /\ serial \in Nat
        /\ \A d \in Devs : Fits(be[d], fe[d], dev[d], tap[d])
    BY DEF XeIInv, XeTyped
  <1>2. q \in Seq(new) /\ Len(q) \in Nat /\ \A d : is(d) <=> d \in new
    BY EventsHas, SMTT(30)
  <1>3. \A d \in new : nr(d) \in Nat
    <2> TAKE d \in new
    <2>1. is(d)
      BY <1>2
    <2>2. (CHOOSE i \in 1 .. Len(q) : q[i] = d) \in 1 .. Len(q)
      BY <2>1
    <2> DEFINE i == CHOOSE i \in 1 .. Len(q) : q[i] = d
    <2>3. nr(d) = serial + i - 1
      OBVIOUS
    <2> HIDE DEF i, nr
    <2>4. i \in Nat /\ i >= 1
      BY <2>2, <1>2 DEF i
    <2> QED BY <2>3, <2>4, <1>1
  <1>4. {d \in Devs : be[d].there /\ dev[d].there /\ ~(be[d].serial = dev[d].serial)} = {}
    BY <1>1 DEF Fits
  <1>5. v = [Begun EXCEPT !.alive = TRUE, !.serial = serial + Len(q), !.be = bes, !.dev = devs,
                          !.watch = IF c.found THEN Posted(watches, Events("otherend", q)) ELSE watches]
    BY <1>4 DEF Begun, xenio_backend_scan, xenio_device_check_serial, DeviceSerial, blkback_probe
  <1> HIDE DEF bes, devs, v
  <1>6. /\ v.serial = serial + Len(q) /\ v.alive = TRUE /\ v.tap = tap /\ v.err = FALSE
        /\ v.dev = devs /\ v.be = bes
        /\ v.watch = IF c.found THEN Posted(watches, Events("otherend", q)) ELSE watches
    BY <1>5, BegunIs DEF Stages
  <1>7. ASSUME NEW d \in Devs
        PROVE  /\ bes[d] \in Dirs /\ bes[d].there = be[d].there
               /\ devs[d] \in Known /\ Fits(bes[d], fe[d], devs[d], tap[d])
               /\ dev[d].there /\ be[d].there => devs[d].there
               /\ devs[d].there => be[d].there
               /\ c.found /\ be[d].there => devs[d].there
    <2>0. be[d] \in Dirs /\ dev[d] \in Known /\ Fits(be[d], fe[d], dev[d], tap[d])
      BY <1>1
    <2>1. CASE d \in new /\ c.found
      <3> DEFINE k == nr(d)
      <3>1. bes[d] = [be[d] EXCEPT !.serial = k] /\ devs[d] = [there |-> TRUE, serial |-> k, gref |-> 0] /\ k \in Nat
        BY <2>1, <1>2, <1>3 DEF bes, devs
      <3> HIDE DEF k
      <3>2. be[d].there /\ ~dev[d].there
        BY <2>1
      <3> DEFINE b == [be[d] EXCEPT !.serial = k]
                 n == [there |-> TRUE, serial |-> k, gref |-> 0]
      <3>3. b \in Dirs /\ b.there = be[d].there /\ n \in Known /\ n.there
        BY <3>1, <2>0 DEF Dirs, Known
      <3>4. Fits(b, fe[d], n, tap[d])
        BY <3>1, <3>2, <2>0 DEF Fits, Dirs, Known
      <3> HIDE DEF b, n
      <3>5. bes[d] = b /\ devs[d] = n
        BY <3>1 DEF b, n
      <3> QED BY <3>2, <3>3, <3>4, <3>5
    <2>2. CASE d \in new /\ ~c.found
      <3> DEFINE k == nr(d)
      <3>1. bes[d] = [be[d] EXCEPT !.serial = k] /\ devs[d] = dev[d] /\ k \in Nat
        BY <2>2, <1>2, <1>3 DEF bes, devs
      <3> HIDE DEF k
      <3>2. be[d].there /\ ~dev[d].there
        BY <2>2
      <3> QED BY <3>1, <3>2, <2>0, <2>2 DEF Fits, Dirs, Known
    <2>3. CASE d \notin new
      <3>1. bes[d] = be[d] /\ devs[d] = IF ~be[d].there THEN NoDev ELSE dev[d]
        BY <2>3, <1>2 DEF bes, devs
      <3> QED BY <3>1, <2>0, <2>3 DEF Fits, Dirs, Known, NoDev
    <2> QED BY <2>1, <2>2, <2>3
  <1>8. bes \in [Devs -> Dirs] /\ devs \in [Devs -> Known]
    BY <1>7 DEF bes, devs
  <1> QED BY <1>1, <1>2, <1>6, <1>7, <1>8 DEF Scanned

(* An event is handled: it fails, it is committed, or it is handled again.  *)
LEMMA ReadKeeps == ASSUME XenioOrderly, XeIInv, xenio_backend_read_watch PROVE XeIInv'
  <1> DEFINE Stops(v) == (v.err \/ ~v.alive) /\ watches' = Tail(v.watch) /\ be' = be
             Kept(v) == /\ ~v.err /\ v.alive /\ be' = v.be
                        /\ \E q \in Orders({d \in Devs : v.be[d] # be[d]}) :
                              watches' = Posted(Tail(v.watch), Events("backend", q))
             Again(v) == ~v.err /\ v.alive /\ Head(watches)[1] \in Conflicts /\ watches' = v.watch /\ be' = be
             Ends(v) == /\ dev' = v.dev /\ serial' = v.serial /\ tap' = v.tap /\ alive' = v.alive
                        /\ Stops(v) \/ Kept(v) \/ Again(v)
  <1>0. PICK c \in Answers : \E v \in Handled(Head(watches), c) : Ends(v)
    BY DEF xenio_backend_read_watch
  <1>1. PICK v \in Handled(Head(watches), c) : Ends(v)
    BY <1>0
  <1>k. /\ dev' = v.dev /\ serial' = v.serial /\ tap' = v.tap /\ alive' = v.alive
        /\ Stops(v) \/ Kept(v) \/ Again(v)
    BY <1>1
  <1> HIDE DEF Ends
  <1>2. watches # <<>> /\ fe' = fe /\ adds' = adds /\ rings' = rings /\ restarts' = restarts
    BY DEF xenio_backend_read_watch
  <1>3. /\ watches \in Seq(WatchEvents) /\ be \in [Devs -> Dirs] /\ tap \in [Devs -> Nat] /\ fe \in [Devs -> Fes]
        /\ serial \in Nat /\ rings \in Nat /\ adds \in Nat /\ restarts \in Nat
        /\ \A d \in Devs : Fits(be[d], fe[d], dev[d], tap[d]) /\ Heeds(be[d], dev[d], watches, d)
    BY DEF XeIInv, XeTyped
  <1> DEFINE e == Head(watches)
  <1>4. e \in WatchEvents /\ Tail(watches) \in Seq(WatchEvents) /\ \A f : Has(watches, f) <=> f = e \/ Has(Tail(watches), f)
    BY <1>2, <1>3, TailHas
  \* what is posted when a transaction ends
  <1>5. ASSUME NEW w \in Seq(WatchEvents), NEW b \in [Devs -> Dirs],
               NEW q \in Orders({d \in Devs : b[d] # be[d]})
        PROVE  /\ Posted(w, Events("backend", q)) \in Seq(WatchEvents)
               /\ \A d \in Devs : Has(Posted(w, Events("backend", q)), <<"otherend", d>>) <=> Has(w, <<"otherend", d>>)
               /\ \A d \in Devs : Has(w, <<"backend", d>>) => Has(Posted(w, Events("backend", q)), <<"backend", d>>)
    <2>1. {d \in Devs : b[d] # be[d]} \in SUBSET Devs
      OBVIOUS
    <2>2. /\ Events("backend", q) \in Seq(WatchEvents)
          /\ \A d \in Devs : ~Has(Events("backend", q), <<"otherend", d>>)
      BY <2>1, EventsHas
    <2> QED BY <2>2, PostedHas
  <1>6. CASE e[1] = "backend" /\ e[2] \in Devs
    <2> DEFINE d == e[2]
    <2>0. e = <<"backend", d>> /\ d # "scan" /\ d \in Devs
      BY <1>6, <1>4, XenioAssumption DEF WatchEvents
    <2>1. v = xenio_backend_probe_device(Begun, d, c)
      BY <1>6, <2>0 DEF Handled, xenio_backend_handle_backend_watch
    <2> HIDE DEF d, e
    <2>2. /\ v.serial \in Nat /\ v.alive = TRUE /\ v.tap = tap
          /\ v.dev \in [Devs -> Known] /\ v.be \in [Devs -> Dirs]
          /\ v.watch \in {watches, Post(watches, <<"otherend", d>>)}
          /\ v.watch # watches => v.dev[d].there /\ be[d].there
          /\ \A x \in Devs : v.be[x].there = be[x].there
          /\ v.err \in BOOLEAN
          /\ v.err => v.dev = dev /\ v.watch = watches
          /\ ~v.err => Fits(v.be[d], fe[d], v.dev[d], tap[d]) /\ v.dev[d].there = be[d].there
          /\ \A x \in Devs \ {d} : v.dev[x] = dev[x] /\ v.be[x] = be[x]
      <3>1. Probed(v, d)
        BY <2>0, <2>1, ProbeFits
      <3> QED BY ONLY <3>1 DEF Probed
    <2> DEFINE w == Tail(v.watch)
    <2>3. /\ w \in Seq(WatchEvents)
          /\ \A x \in Devs : Has(w, <<"otherend", x>>) => Has(watches, <<"otherend", x>>) \/ (x = d /\ v.watch # watches)
          /\ \A x \in Devs \ {d} : Has(watches, <<"backend", x>>) => Has(w, <<"backend", x>>)
      <3>1. <<"otherend", d>> \in WatchEvents
        BY <2>0 DEF WatchEvents
      <3>4. \A x \in Devs \ {d} : <<"backend", x>> # e
        BY <2>0
      <3>2. CASE v.watch = watches
        <4>1. w = Tail(watches)
          BY <3>2
        <4> HIDE DEF w
        <4>2. w \in Seq(WatchEvents)
          BY <4>1, <1>4
        <4>3. \A x \in Devs : Has(w, <<"otherend", x>>) => Has(watches, <<"otherend", x>>)
          BY <4>1, <1>4
        <4>4. \A x \in Devs \ {d} : Has(watches, <<"backend", x>>) => Has(w, <<"backend", x>>)
          BY <4>1, <3>4, <1>4
        <4> QED BY <4>2, <4>3, <4>4
      <3>3. CASE v.watch # watches
        <4>1. v.watch = Post(watches, <<"otherend", d>>)
          BY <2>2, <3>3
        <4>2. /\ v.watch \in Seq(WatchEvents) /\ v.watch # <<>> /\ Head(v.watch) = e
              /\ \A f : Has(v.watch, f) <=> Has(watches, f) \/ f = <<"otherend", d>>
          <5> DEFINE f0 == <<"otherend", d>>
          <5> HIDE DEF f0
          <5>1. /\ Post(watches, f0) \in Seq(WatchEvents)
                /\ Post(watches, f0) # <<>> /\ Head(Post(watches, f0)) = Head(watches)
                /\ \A f : Has(Post(watches, f0), f) <=> Has(watches, f) \/ f = f0
            BY <3>1, <1>2, <1>3, PostHas DEF f0
          <5>2. v.watch = Post(watches, f0)
            BY <4>1 DEF f0
          <5> QED BY <5>1, <5>2 DEF e, f0
        <4>3. w \in Seq(WatchEvents) /\ \A f : Has(v.watch, f) <=> f = e \/ Has(w, f)
          BY <4>2, TailHas
        <4> QED BY <4>2, <4>3, <3>4, <3>3
      <3> QED BY <3>2, <3>3
    <2>4. /\ alive' = TRUE
          /\ \/ v.err /\ be' = be /\ watches' = w
             \/ /\ ~v.err /\ be' = v.be
                /\ \E q \in Orders({x \in Devs : v.be[x] # be[x]}) : watches' = Posted(w, Events("backend", q))
      <3>1. ~Again(v)
        BY <1>6 DEF XenioOrderly, e
      <3>2. CASE Stops(v)
        BY <3>2, <1>k, <2>2
      <3>3. CASE Kept(v)
        BY <3>3, <1>k, <2>2
      <3> QED BY <3>1, <3>2, <3>3, <1>k
    <2> HIDE DEF w
    <2>5. /\ watches' \in Seq(WatchEvents)
          /\ \A x \in Devs : Has(watches', <<"otherend", x>>) <=> Has(w, <<"otherend", x>>)
          /\ \A x \in Devs : Has(w, <<"backend", x>>) => Has(watches', <<"backend", x>>)
      <3>1. CASE watches' = w
        BY <3>1, <2>3
      <3>2. ASSUME NEW q \in Orders({x \in Devs : v.be[x] # be[x]}), watches' = Posted(w, Events("backend", q))
            PROVE  /\ watches' \in Seq(WatchEvents)
                   /\ \A x \in Devs : Has(watches', <<"otherend", x>>) <=> Has(w, <<"otherend", x>>)
                   /\ \A x \in Devs : Has(w, <<"backend", x>>) => Has(watches', <<"backend", x>>)
        BY <3>2, <2>2, <2>3, <1>5
      <3> QED BY <3>1, <3>2, <2>4
    <2>6. be' \in [Devs -> Dirs]
      BY <2>2, <2>4, <1>3
    <2>7. ASSUME NEW x \in Devs
          PROVE  Fits(be[x], fe[x], dev[x], tap[x])' /\ Heeds(be[x], dev[x], watches, x)'
      <3>1. be'[x].there = be[x].there /\ dev' = v.dev /\ tap' = tap
        BY <2>2, <2>4, <1>k, <1>3
      <3>2. CASE x # d
        <4>1. dev'[x] = dev[x] /\ be'[x] = be[x]
          BY <3>1, <3>2, <2>2, <2>4
        <4>2. Fits(be[x], fe[x], dev[x], tap[x])'
          BY <4>1, <3>1, <1>2, <1>3 DEF Fits
        <4>3. Has(watches', <<"otherend", x>>) => Has(watches, <<"otherend", x>>)
          BY <2>3, <2>5, <3>2
        <4>4. Has(watches, <<"backend", x>>) => Has(watches', <<"backend", x>>)
          BY <2>3, <2>5, <3>2
        <4>5. Heeds(be[x], dev[x], watches, x)
          BY <1>3
        <4> QED BY <4>1, <4>2, <4>3, <4>4, <4>5, <1>3 DEF Heeds
      <3>3. CASE x = d
        <4>1. CASE v.err
          <5>1. dev' = dev /\ be' = be /\ v.watch = watches
            BY <4>1, <3>1, <2>2, <2>4
          <5>2. Fits(be[x], fe[x], dev[x], tap[x])'
            BY <5>1, <3>1, <1>2, <1>3 DEF Fits
          <5>3. Has(watches', <<"otherend", x>>) => Has(watches, <<"otherend", x>>)
            BY <2>3, <2>5, <5>1
          <5>4. dev[x].there => be[x].there
            \* only the creation fails, and it has no entry
            <6>1. be[d].there
              BY <4>1, <2>1, BegunIs DEF xenio_backend_probe_device, xenio_backend_remove_device, Stages
            <6> QED BY <6>1, <3>3
          <5> QED BY <5>1, <5>2, <5>3, <5>4, <1>3 DEF Heeds
        <4>2. CASE ~v.err
          <5>1. be' = v.be /\ dev'[x].there = be[x].there /\ be'[x].there = be[x].there
            BY <4>2, <3>1, <3>3, <2>2, <2>4
          <5>2. Fits(be[x], fe[x], dev[x], tap[x])'
            BY <5>1, <3>1, <3>3, <4>2, <2>2, <1>2
          <5>3. Has(watches', <<"otherend", x>>) => be[x].there
            BY <2>3, <2>5, <2>2, <3>3, <1>3 DEF Heeds
          <5> QED BY <5>1, <5>2, <5>3 DEF Heeds
        <4> QED BY <4>1, <4>2
      <3> QED BY <3>2, <3>3
    <2> QED BY <2>2, <2>4, <2>5, <2>6, <2>7, <1>k, <1>2, <1>3 DEF XeIInv, XeTyped
  <1>7. CASE e[1] = "backend" /\ e[2] = "scan"
    <2> DEFINE new == {x \in Devs : be[x].there /\ ~dev[x].there}
    <2>0. e = <<"backend", "scan">>
      BY <1>7, <1>4 DEF WatchEvents
    <2>1. PICK o \in Orders(new) : v = xenio_backend_scan(Begun, c, o)
      BY <2>0, BegunIs DEF Handled, xenio_backend_handle_backend_watch
    <2> HIDE DEF e
    <2>2. /\ v.serial \in Nat /\ v.alive = TRUE /\ v.tap = tap /\ v.err = FALSE
          /\ v.dev \in [Devs -> Known] /\ v.be \in [Devs -> Dirs]
          /\ v.watch \in {watches, Posted(watches, Events("otherend", o))}
          /\ \A x \in Devs : v.be[x].there = be[x].there /\ Fits(v.be[x], fe[x], v.dev[x], tap[x])
          /\ \A x \in Devs : dev[x].there /\ be[x].there => v.dev[x].there
          /\ \A x \in Devs : v.dev[x].there => be[x].there
          /\ v.watch # watches => \A x \in Devs : be[x].there => v.dev[x].there
      <3>1. Scanned(v, o)
        BY <2>1, ScanFits
      <3> QED BY ONLY <3>1 DEF Scanned
    <2> DEFINE w == Tail(v.watch)
    <2>3. /\ w \in Seq(WatchEvents)
          /\ \A x \in Devs : Has(w, <<"otherend", x>>) => Has(watches, <<"otherend", x>>) \/ (x \in new /\ v.watch # watches)
      <3>1. new \in SUBSET Devs
        OBVIOUS
      <3>2. CASE v.watch = watches
        <4>1. w = Tail(watches)
          BY <3>2
        <4> HIDE DEF w
        <4>2. w \in Seq(WatchEvents)
          BY <4>1, <1>4
        <4>3. \A x \in Devs : Has(w, <<"otherend", x>>) => Has(watches, <<"otherend", x>>)
          BY <4>1, <1>4
        <4> QED BY <4>2, <4>3
      <3>3. CASE v.watch # watches
        <4>1. v.watch = Posted(watches, Events("otherend", o))
          BY <2>2, <3>3
        <4>2. /\ Events("otherend", o) \in Seq(WatchEvents)
              /\ \A x \in Devs : Has(Events("otherend", o), <<"otherend", x>>) => x \in new
          BY <3>1, EventsHas
        <4>3. /\ v.watch \in Seq(WatchEvents) /\ v.watch # <<>>
              /\ \A f : Has(v.watch, f) <=> Has(watches, f) \/ Has(Events("otherend", o), f)
          BY <4>1, <4>2, <1>2, <1>3, PostedHas
        <4>4. w \in Seq(WatchEvents) /\ \A f : Has(w, f) => Has(v.watch, f)
          BY <4>3, TailHas
        <4> QED BY <4>2, <4>3, <4>4, <3>3
      <3> QED BY <3>2, <3>3
    <2>4. /\ alive' = TRUE /\ be' = v.be /\ dev' = v.dev /\ tap' = tap
          /\ \E q \in Orders({x \in Devs : v.be[x] # be[x]}) : watches' = Posted(w, Events("backend", q))
      <3>1. ~Again(v) /\ ~Stops(v)
        BY <1>7, <2>2 DEF XenioOrderly, e
      <3> QED BY <3>1, <1>k, <2>2
    <2> HIDE DEF w
    <2>5. /\ watches' \in Seq(WatchEvents)
          /\ \A x \in Devs : Has(watches', <<"otherend", x>>) <=> Has(w, <<"otherend", x>>)
      BY <2>2, <2>3, <2>4, <1>5
    <2>7. ASSUME NEW x \in Devs
          PROVE  Fits(be[x], fe[x], dev[x], tap[x])' /\ Heeds(be[x], dev[x], watches, x)'
      <3>1. Fits(be[x], fe[x], dev[x], tap[x])'
        BY <2>2, <2>4, <1>2
      <3>2. dev'[x].there => be'[x].there
        BY <2>2, <2>4
      <3>3. Has(watches, <<"otherend", x>>) => dev[x].there /\ be[x].there
        BY <1>3 DEF Heeds
      <3>4. Has(watches', <<"otherend", x>>) => dev'[x].there /\ be'[x].there
        BY <3>3, <2>2, <2>3, <2>4, <2>5
      <3> QED BY <3>1, <3>2, <3>4 DEF Heeds
    <2> QED BY <2>2, <2>4, <2>5, <2>7, <1>k, <1>2, <1>3 DEF XeIInv, XeTyped
  <1>8. CASE e[1] = "otherend"
    <2> DEFINE d == e[2]
    <2>0. e = <<"otherend", d>> /\ d \in Devs
      BY <1>8, <1>4 DEF WatchEvents
    <2>1. v = xenio_backend_handle_otherend_watch(Begun, d, c)
      BY <1>8 DEF Handled
    <2> HIDE DEF d, e
    <2>2. dev[d].there /\ be[d].there
      BY <2>0, <1>3, <1>4 DEF Heeds
    <2>3. Well(v, d)
      BY <2>0, <2>1, <2>2, OtherendFits
    <2>4. /\ v.serial = serial /\ v.alive = TRUE /\ v.watch = watches
          /\ v.dev \in [Devs -> Known] /\ v.tap \in [Devs -> Nat] /\ v.be \in [Devs -> Dirs]
          /\ v.dev[d].there /\ v.be[d].there
          /\ Fits(be[d], fe[d], v.dev[d], v.tap[d])
          /\ ~v.err => Fits(v.be[d], fe[d], v.dev[d], v.tap[d])
          /\ \A x \in Devs \ {d} : v.dev[x] = dev[x] /\ v.tap[x] = tap[x] /\ v.be[x] = be[x]
      BY ONLY <2>3 DEF Well
    <2>5. /\ alive' = TRUE /\ (be' = be \/ (be' = v.be /\ ~v.err)) /\ dev' = v.dev /\ tap' = v.tap /\ serial' = serial
          /\ \/ watches' \in {watches, Tail(watches)}
             \/ \E q \in Orders({x \in Devs : v.be[x] # be[x]}) : watches' = Posted(Tail(watches), Events("backend", q))
      <3>2. CASE Stops(v)
        <4>1. watches' = Tail(watches) /\ be' = be
          BY <3>2, <2>4
        <4>2. alive' = TRUE /\ dev' = v.dev /\ tap' = v.tap /\ serial' = serial
          BY <1>k, <2>4
        <4> QED BY <4>1, <4>2
      <3>3. CASE Kept(v)
        BY <3>3, <1>k, <2>4
      <3>4. CASE Again(v)
        BY <3>4, <1>k, <2>4
      <3> QED BY <3>2, <3>3, <3>4, <1>k
    <2>6. /\ watches' \in Seq(WatchEvents)
          /\ \A x \in Devs : Has(watches', <<"otherend", x>>) => Has(watches, <<"otherend", x>>)
          /\ \A x \in Devs : Has(watches, <<"backend", x>>) => Has(watches', <<"backend", x>>)
      <3>1. \A x \in Devs : <<"backend", x>> # e
        BY <2>0
      <3>2. CASE watches' \in {watches, Tail(watches)}
        BY <3>1, <3>2, <1>3, <1>4
      <3>3. CASE \E q \in Orders({x \in Devs : v.be[x] # be[x]}) : watches' = Posted(Tail(watches), Events("backend", q))
        <4>1. PICK q \in Orders({x \in Devs : v.be[x] # be[x]}) : watches' = Posted(Tail(watches), Events("backend", q))
          BY <3>3
        <4>2. /\ watches' \in Seq(WatchEvents)
              /\ \A x \in Devs : Has(watches', <<"otherend", x>>) <=> Has(Tail(watches), <<"otherend", x>>)
              /\ \A x \in Devs : Has(Tail(watches), <<"backend", x>>) => Has(watches', <<"backend", x>>)
          <5>1. v.be \in [Devs -> Dirs] /\ Tail(watches) \in Seq(WatchEvents)
            BY <1>4, <2>4
          <5> QED BY <4>1, <5>1, <1>5
        <4> QED BY <4>2, <3>1, <1>4
      <3> QED BY <3>2, <3>3, <2>5
    <2>7. ASSUME NEW x \in Devs
          PROVE  Fits(be[x], fe[x], dev[x], tap[x])' /\ Heeds(be[x], dev[x], watches, x)'
      <3>0. Fits(be[x], fe[x], dev[x], tap[x]) /\ Heeds(be[x], dev[x], watches, x)
        BY <1>3
      <3>1. CASE x # d
        <4>1. be'[x] = be[x] /\ dev'[x] = dev[x] /\ tap'[x] = tap[x] /\ fe'[x] = fe[x]
          BY <3>1, <2>4, <2>5, <1>2
        <4> QED BY <4>1, <3>0, <2>6 DEF Fits, Heeds
      <3>2. CASE x = d
        <4>1. be'[x].there /\ dev'[x].there
          BY <3>2, <2>2, <2>4, <2>5
        <4>2. Fits(be[x], fe[x], dev[x], tap[x])'
          BY <3>2, <2>4, <2>5, <1>2
        <4> QED BY <4>1, <4>2 DEF Heeds
      <3> QED BY <3>1, <3>2
    <2>8. be' \in [Devs -> Dirs]
      BY <2>4, <2>5, <1>3
    <2> QED BY <2>4, <2>5, <2>6, <2>7, <2>8, <1>2, <1>3 DEF XeIInv, XeTyped
  <1>9. e[1] \in {"backend", "otherend"} /\ (e[1] = "backend" => e[2] \in Devs \cup {"scan"})
    BY <1>4 DEF WatchEvents
  <1> QED BY <1>6, <1>7, <1>8, <1>9

\* The others change one device, and post at most its events.
LEMMA OtherKeeps ==
    ASSUME XeIInv, NEW d \in Devs, alive' = alive, dev' = dev, tap' = tap, serial' = serial,
           restarts' = restarts, adds' \in Nat, rings' \in Nat,
           NEW b \in Dirs, be' = [be EXCEPT ![d] = b], NEW f \in Fes, fe' = [fe EXCEPT ![d] = f],
           Fits(b, f, dev[d], tap[d]), watches' \in Seq(WatchEvents),
           \A x \in Devs : Has(watches, <<"backend", x>>) => Has(watches', <<"backend", x>>),
           \A x \in Devs \ {d} : Has(watches', <<"otherend", x>>) => Has(watches, <<"otherend", x>>),
           Heeds(b, dev[d], watches', d)
    PROVE  XeIInv'
  <1>1. be' \in [Devs -> Dirs] /\ fe' \in [Devs -> Fes] /\ be'[d] = b /\ fe'[d] = f
    BY DEF XeIInv, XeTyped
  <1>2. XeTyped'
    BY <1>1 DEF XeIInv, XeTyped
  <1>3. ASSUME NEW x \in Devs
        PROVE  Fits(be[x], fe[x], dev[x], tap[x])' /\ Heeds(be[x], dev[x], watches, x)'
    <2>1. CASE x = d
      BY <1>1, <2>1
    <2>2. CASE x # d
      <3>1. be'[x] = be[x] /\ fe'[x] = fe[x]
        BY <2>2 DEF XeIInv, XeTyped
      <3>2. Fits(be[x], fe[x], dev[x], tap[x]) /\ Heeds(be[x], dev[x], watches, x)
        BY DEF XeIInv
      <3>3. Fits(be[x], fe[x], dev[x], tap[x])'
        BY <3>1, <3>2
      <3> QED BY <3>1, <3>2, <3>3, <2>2 DEF Heeds
    <2> QED BY <2>1, <2>2
  <1> QED BY <1>2, <1>3 DEF XeIInv

(* The toolstack adds a device when the daemon is idle: it knows none there.*)
LEMMA AddKeeps == ASSUME XenioOrderly, XeIInv, NEW d \in Devs, ToolstackAdd(d) PROVE XeIInv'
  <1> DEFINE b == [NoDir EXCEPT !.there = TRUE, !.state = "Initialising"]
             f == [state |-> "Initialising", ring |-> 0]
             e == <<"backend", d>>
  <1>1. /\ be' = [be EXCEPT ![d] = b] /\ fe' = [fe EXCEPT ![d] = f] /\ ~be[d].there /\ watches = <<>>
        /\ watches' = FrontendWatched(Post(watches, e), d)
        /\ dev' = dev /\ serial' = serial /\ tap' = tap /\ alive' = alive /\ rings' = rings /\ restarts' = restarts
        /\ adds' = adds + 1
    BY DEF ToolstackAdd, XenioOrderly
  <1>2. \A x : ~Has(watches, x)
    BY <1>1 DEF Has
  <1>3. dev[d] \in Known /\ ~dev[d].there /\ dev[d].gref = 0 /\ adds \in Nat /\ rings \in Nat
    BY <1>1, <1>2 DEF XeIInv, XeTyped, Heeds, Fits
  <1>4. b \in Dirs /\ f \in Fes /\ Fits(b, f, dev[d], tap[d])
    BY <1>3 DEF NoDir, Dirs, Fes, BeStates, FeStates, Fits
  <1>5. e \in WatchEvents /\ watches \in Seq(WatchEvents)
    BY DEF WatchEvents, XeIInv, XeTyped
  <1>6. watches' = Post(watches, e)
    BY <1>1, <1>3 DEF FrontendWatched
  <1> HIDE DEF b, f, e
  <1>7. watches' \in Seq(WatchEvents) /\ \A x : Has(watches', x) <=> Has(watches, x) \/ x = e
    BY <1>5, <1>6, PostHas
  <1>8. \A x \in Devs : ~Has(watches', <<"otherend", x>>)
    BY <1>2, <1>7 DEF e
  <1>9. Heeds(b, dev[d], watches', d)
    BY <1>3, <1>8 DEF Heeds
  <1>10. adds' \in Nat /\ rings' \in Nat
    BY <1>1, <1>3
  <1>11. watches' \in Seq(WatchEvents) /\ \A x \in Devs : ~Has(watches, <<"backend", x>>)
    BY <1>2, <1>7
  <1> QED BY <1>1, <1>4, <1>8, <1>9, <1>10, <1>11, OtherKeeps

(* The toolstack removes a closed one: its event is yet to be read.         *)
LEMMA RemoveKeeps == ASSUME XenioOrderly, XeIInv, NEW d \in Devs, ToolstackRemove(d) PROVE XeIInv'
  <1> DEFINE e == <<"backend", d>>
  <1>1. /\ be' = [be EXCEPT ![d] = NoDir] /\ fe' = fe /\ watches = <<>> /\ watches' = Post(watches, e)
        /\ dev' = dev /\ serial' = serial /\ tap' = tap /\ alive' = alive /\ rings' = rings /\ restarts' = restarts
        /\ adds' = adds
    BY DEF ToolstackRemove, XenioOrderly
  <1>2. \A x : ~Has(watches, x)
    BY <1>1 DEF Has
  <1>3. adds \in Nat /\ rings \in Nat /\ Fits(be[d], fe[d], dev[d], tap[d]) /\ fe \in [Devs -> Fes]
    BY DEF XeIInv, XeTyped
  <1>4. NoDir \in Dirs /\ Fits(NoDir, fe[d], dev[d], tap[d])
    BY <1>3 DEF NoDir, Dirs, BeStates, Fits
  <1>5. e \in WatchEvents /\ watches \in Seq(WatchEvents)
    BY DEF WatchEvents, XeIInv, XeTyped
  <1>f. fe' = [fe EXCEPT ![d] = fe[d]] /\ fe[d] \in Fes
    BY <1>1, <1>3
  <1> HIDE DEF e
  <1>7. watches' \in Seq(WatchEvents) /\ \A x : Has(watches', x) <=> Has(watches, x) \/ x = e
    BY <1>1, <1>5, PostHas
  <1>8. (\A x \in Devs : ~Has(watches', <<"otherend", x>>)) /\ Has(watches', <<"backend", d>>)
    BY <1>2, <1>7 DEF e
  <1>9. Heeds(NoDir, dev[d], watches', d)
    BY <1>8 DEF Heeds
  <1> QED BY <1>1, <1>2, <1>3, <1>4, <1>7, <1>8, <1>9, <1>f, OtherKeeps

\* A guest moves its frontend on, of a directory that is there.
LEMMA GuestKeeps ==
    ASSUME XeIInv, NEW d \in Devs, NEW from, NEW to, NEW ring, Guest(d, from, to, ring),
           rings' \in Nat, be[d].there, [state |-> to, ring |-> ring] \in Fes,
           Fits(be[d], [state |-> to, ring |-> ring], dev[d], tap[d])
    PROVE  XeIInv'
  <1> DEFINE f == [state |-> to, ring |-> ring]
             e == <<"otherend", d>>
  <1>1. /\ be' = be /\ fe' = [fe EXCEPT ![d] = f] /\ watches' = FrontendWatched(watches, d)
        /\ dev' = dev /\ serial' = serial /\ tap' = tap /\ alive' = alive /\ restarts' = restarts /\ adds' = adds
    BY DEF Guest
  <1>2. f \in Fes /\ Fits(be[d], f, dev[d], tap[d])
    OBVIOUS
  <1>3. adds \in Nat /\ be \in [Devs -> Dirs] /\ watches \in Seq(WatchEvents) /\ e \in WatchEvents
    BY DEF XeIInv, XeTyped, WatchEvents
  <1>4. be' = [be EXCEPT ![d] = be[d]] /\ be[d] \in Dirs
    BY <1>1, <1>3
  <1>5. Heeds(be[d], dev[d], watches, d)
    BY DEF XeIInv
  <1>6. watches' = IF dev[d].there THEN Post(watches, e) ELSE watches
    BY <1>1 DEF FrontendWatched
  <1> HIDE DEF f, e
  <1>7. /\ watches' \in Seq(WatchEvents)
        /\ \A x : Has(watches', x) <=> (Has(watches, x) \/ (dev[d].there /\ x = e))
    BY <1>3, <1>6, PostHas
  <1>8. \A x \in Devs : /\ Has(watches, <<"backend", x>>) => Has(watches', <<"backend", x>>)
                        /\ x # d /\ Has(watches', <<"otherend", x>>) => Has(watches, <<"otherend", x>>)
    BY <1>7 DEF e
  <1>9. Heeds(be[d], dev[d], watches', d)
    BY <1>5, <1>7 DEF Heeds
  <1> QED BY <1>1, <1>2, <1>3, <1>4, <1>7, <1>8, <1>9, OtherKeeps

LEMMA GuestMoves ==
    ASSUME XeIInv, NEW d \in Devs,
           GuestInitialises(d) \/ GuestConnects(d) \/ \E to \in {"Closing", "Closed"} : GuestCloses(d, to)
    PROVE  XeIInv'
  <1>1. /\ Fits(be[d], fe[d], dev[d], tap[d]) /\ fe[d] \in Fes /\ be[d] \in Dirs /\ dev[d] \in Known
        /\ rings \in Nat
    BY DEF XeIInv, XeTyped
  <1>2. CASE GuestInitialises(d)
    <2> DEFINE f == [state |-> "Initialised", ring |-> rings + 1]
    <2>1. /\ be[d].state = "InitWait" /\ rings' = rings + 1 /\ fe[d].state = "Initialising"
          /\ Guest(d, {"Initialising"}, "Initialised", rings + 1)
      BY <1>2 DEF GuestInitialises, Guest
    <2>2. be[d].there
      BY <1>1, <2>1 DEF Fits
    <2>3. f \in Fes /\ Fits(be[d], f, dev[d], tap[d])
      BY <1>1, <2>1, <2>2 DEF Fits, Fes, FeStates
    <2> QED BY <2>1, <2>2, <2>3, <1>1, GuestKeeps
  <1>3. CASE GuestConnects(d)
    <2> DEFINE f == [state |-> "Connected", ring |-> fe[d].ring]
    <2>1. /\ be[d].state = "Connected" /\ rings' = rings /\ fe[d].state = "Initialised"
          /\ Guest(d, {"Initialised"}, "Connected", fe[d].ring)
      BY <1>3 DEF GuestConnects, Guest
    <2>2. be[d].there
      BY <1>1, <2>1 DEF Fits
    <2>3. f \in Fes /\ Fits(be[d], f, dev[d], tap[d])
      BY <1>1, <2>1, <2>2 DEF Fits, Fes, FeStates
    <2> QED BY <2>1, <2>2, <2>3, <1>1, GuestKeeps
  <1>4. ASSUME NEW to \in {"Closing", "Closed"}, GuestCloses(d, to) PROVE XeIInv'
    <2> DEFINE f == [state |-> to, ring |-> fe[d].ring]
               from == {"Initialised", "Connected", "Closing"} \ {to}
    <2>1. be[d].there /\ rings' = rings /\ fe[d].state \in from /\ Guest(d, from, to, fe[d].ring)
      BY <1>4 DEF GuestCloses, Guest
    <2>3. f \in Fes /\ Fits(be[d], f, dev[d], tap[d])
      BY <1>1, <2>1 DEF Fits, Fes, FeStates
    <2> HIDE DEF from
    <2> QED BY <2>1, <2>3, <1>1, GuestKeeps
  <1> QED BY <1>2, <1>3, <1>4

(* A daemon that starts again knows no device, and scans.                   *)
LEMMA RestartKeeps == XeIInv /\ Restart => XeIInv'
  <1> SUFFICES ASSUME XeIInv, Restart PROVE XeIInv'
    OBVIOUS
  <1>1. watches' = <<<<"backend", "scan">>>> /\ dev' = [d \in Devs |-> NoDev] /\ serial' = 1 /\ alive' = TRUE
        /\ restarts' = restarts + 1 /\ UNCHANGED <<be, fe, tap, adds, rings>>
    BY DEF Restart
  <1>2. watches' \in Seq(WatchEvents) /\ \A d \in Devs : ~Has(watches', <<"otherend", d>>)
    BY <1>1 DEF WatchEvents, Has
  <1>3. NoDev \in Known /\ ~NoDev.there /\ NoDev.gref = 0
    BY DEF NoDev, Known
  <1>4. ASSUME NEW d \in Devs
        PROVE  Fits(be[d], fe[d], dev[d], tap[d])' /\ Heeds(be[d], dev[d], watches, d)'
    <2>1. dev'[d] = NoDev /\ Fits(be[d], fe[d], dev[d], tap[d])
      BY <1>1 DEF XeIInv
    <2> QED BY <2>1, <1>1, <1>2, <1>3 DEF Fits, Heeds
  <1> QED BY <1>1, <1>2, <1>3, <1>4 DEF XeIInv, XeTyped

(* The inductive invariant of the xenio daemon (xenio_backend_run).         *)
THEOREM XenioInvariance == ASSUME XenioOrderly PROVE XenioSpec => []XeIInv
  <1>1. XeIInv /\ [XenioNext]_xenioVars => XeIInv'
    <2> SUFFICES ASSUME XeIInv, [XenioNext]_xenioVars PROVE XeIInv'
      OBVIOUS
    <2>1. CASE xenio_backend_read_watch
      BY <2>1, ReadKeeps
    <2>2. CASE Restart
      BY <2>2, RestartKeeps
    <2>3. ASSUME NEW d \in Devs, ToolstackAdd(d) PROVE XeIInv'
      BY <2>3, AddKeeps
    <2>4. ASSUME NEW d \in Devs, ToolstackRemove(d) PROVE XeIInv'
      BY <2>4, RemoveKeeps
    <2>5. ASSUME NEW d \in Devs,
                 GuestInitialises(d) \/ GuestConnects(d) \/ \E to \in {"Closing", "Closed"} : GuestCloses(d, to)
          PROVE  XeIInv'
      BY <2>5, GuestMoves
    <2>6. CASE UNCHANGED xenioVars
      BY <2>6 DEF xenioVars, XeIInv, XeTyped, Fits, Heeds, Has
    <2> QED BY <2>1, <2>2, <2>3, <2>4, <2>5, <2>6 DEF XenioNext
  <1> QED BY <1>1, XeStart, PTL DEF XenioSpec

(* A guest that reads Connected is served on the ring it published, and the *)
(* daemon fails none of its assertions: for every set of devices and every  *)
(* number of rings, creations and restarts.                                 *)
THEOREM XenioIsSound == ASSUME XenioOrderly PROVE XenioSpec => []XenioSound
  <1>1. XeIInv => XenioSound
    BY DEF XeIInv, Fits, XenioSound, XenioServes, XenioSurvives
  <1> QED BY <1>1, XenioInvariance, PTL
=============================================================================
