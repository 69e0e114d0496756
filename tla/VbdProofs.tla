----------------------------- MODULE VbdProofs -----------------------------
(***************************************************************************)
(* Proofs about Vbd for every number of requests, iovs and sectors, every  *)
(* set of driver results, and every order of control messages: first the   *)
(* requests and their counters, then the image chain.                      *)
(***************************************************************************)
EXTENDS Vbd, FiniteSetTheorems, SequenceTheorems, TLAPS

-----------------------------------------------------------------------------
(* Sets of sectors and pieces.                                              *)

(* Multiplication by a natural number is monotonic.                         *)
LEMMA TimesMonotonic ==
    ASSUME NEW a \in Nat, NEW b \in Nat, NEW c \in Nat, a <= b
    PROVE  a * c <= b * c
  OBVIOUS

(* An iov of a request covers IovSecs sectors.                              *)
LEMMA IovFacts ==
    ASSUME NEW i \in 0 .. (NIov - 1)
    PROVE  /\ Iov(i) \subseteq Sectors
           /\ IsFiniteSet(Iov(i))
           /\ Cardinality(Iov(i)) = IovSecs
  <1> DEFINE a == i * IovSecs
             b == (i + 1) * IovSecs
             c == NIov * IovSecs
  <1>1. i \in Nat /\ NIov \in Nat /\ IovSecs \in Nat /\ IovSecs > 0 /\ i + 1 <= NIov
    BY NIovAssumption, IovSecsAssumption
  <1>2. a \in Nat /\ b \in Nat /\ c \in Nat /\ b = a + IovSecs
    BY <1>1
  <1>3. b <= c
    BY <1>1, TimesMonotonic
  <1>4. Iov(i) = {s \in 0 .. (c - 1) : s >= a /\ s < b}
    BY DEF Iov, Sectors
  <1> HIDE DEF a, b, c
  <1>5. Iov(i) = a .. (b - 1)
    BY <1>2, <1>3, <1>4
  <1>6. IsFiniteSet(a .. (b - 1)) /\ Cardinality(a .. (b - 1)) = IovSecs
    <2>1. a \in Int /\ b - 1 \in Int /\ ~(a > b - 1) /\ (b - 1) - a + 1 = IovSecs
      BY <1>1, <1>2
    <2> QED BY <2>1, FS_Interval
  <1>7. Iov(i) \subseteq Sectors
    BY DEF Iov
  <1> QED BY <1>5, <1>6, <1>7

(* Tagging each element of a finite set makes as many records.              *)
LEMMA TaggedSet ==
    ASSUME NEW S, IsFiniteSet(S), NEW ro, NEW im
    PROVE  /\ IsFiniteSet([role : {ro}, sec : S, img : {im}])
           /\ Cardinality([role : {ro}, sec : S, img : {im}]) = Cardinality(S)
  <1> DEFINE T == [role : {ro}, sec : S, img : {im}]
             f == [s \in S |-> [role |-> ro, sec |-> s, img |-> im]]
  <1>1. f \in [S -> T]
    OBVIOUS
  <1>2. \A x, y \in S : f[x] = f[y] => x = y
    OBVIOUS
  <1>3. \A t \in T : \E s \in S : f[s] = t
    <2> TAKE t \in T
    <2> WITNESS t.sec \in S
    <2> QED OBVIOUS
  <1>4. f \in Bijection(S, T)
    BY <1>1, <1>2, <1>3 DEF Bijection, Injection, Surjection, IsInjective
  <1>5. ExistsBijection(S, T)
    BY <1>4 DEF ExistsBijection
  <1> QED BY <1>5, FS_Bijection

(* Cardinality of a difference and of a disjoint union.                     *)
LEMMA DifferenceCard ==
    ASSUME NEW S, IsFiniteSet(S), NEW U \in SUBSET S
    PROVE  /\ IsFiniteSet(S \ U) /\ IsFiniteSet(U)
           /\ Cardinality(U) \in Nat /\ Cardinality(S) \in Nat
           /\ Cardinality(S \ U) = Cardinality(S) - Cardinality(U)
  <1>1. IsFiniteSet(S \ U) /\ IsFiniteSet(U)
    BY FS_Subset
  <1>2. (S \ U) \cup U = S /\ (S \ U) \cap U = {}
    OBVIOUS
  <1>3. Cardinality(S) = Cardinality(S \ U) + Cardinality(U) - Cardinality({})
    BY <1>1, <1>2, FS_Union
  <1> QED BY <1>1, <1>3, FS_EmptySet, FS_CardinalityType

LEMMA DisjointCard ==
    ASSUME NEW S, IsFiniteSet(S), NEW T, IsFiniteSet(T), S \cap T = {}
    PROVE  /\ IsFiniteSet(S \cup T)
           /\ Cardinality(S \cup T) = Cardinality(S) + Cardinality(T)
  BY FS_Union, FS_EmptySet, FS_CardinalityType

(* Moving pieces to another image keeps their number.                       *)
LEMMA MovedCard ==
    ASSUME NEW V, IsFiniteSet(V), V \subseteq Treqs, NEW im,
           \A u, v \in V : u.role = v.role /\ u.sec = v.sec => u = v
    PROVE  LET W == {OnImage(u, im) : u \in V}
           IN  IsFiniteSet(W) /\ Cardinality(W) = Cardinality(V)
  <1> DEFINE W == {OnImage(u, im) : u \in V}
             f == [u \in V |-> OnImage(u, im)]
  <1>1. f \in [V -> W]
    OBVIOUS
  <1>2. \A x, y \in V : f[x] = f[y] => x = y
    BY DEF Treqs, OnImage
  <1>3. \A t \in W : \E s \in V : f[s] = t
    OBVIOUS
  <1>4. f \in Bijection(V, W)
    BY <1>1, <1>2, <1>3 DEF Bijection, Injection, Surjection, IsInjective
  <1>5. ExistsBijection(V, W)
    BY <1>4 DEF ExistsBijection
  <1> QED BY <1>5, FS_Bijection

-----------------------------------------------------------------------------
(* The inductive invariant.  Beside the properties themselves it says that  *)
(* a sector of a request is with one driver per role (a forwarded piece     *)
(* replaces the one it came from), that issue_request has handed out only   *)
(* iovs before seg, that the loops walk requests still on the list they     *)
(* walk, and that a mirror or standby vbd has a secondary.                  *)

Counted ==
    \A r \in Reqs : IsFiniteSet(io[r]) /\ secs_pending[r] = Cardinality(io[r])

OnePiece ==
    \A r \in Reqs : \A u, v \in io[r] : u.role = v.role /\ u.sec = v.sec => u = v

Issuing ==
    pc = "seg" => /\ cur \in todo
                  /\ where[cur] = "pending"
                  /\ tgt \in Images
                  /\ \A u \in io[cur] : u.sec < seg * IovSecs

Walking ==
    IF pc \in {"loop", "seg"}
    THEN \A r \in todo : where[r] = loop \/ submitting(r)
    ELSE loop = "failed"

HasSecondary ==
    /\ secmode = "MIRROR" => secondary # NoImage
    /\ ignore # {} /\ secmode # "DISABLED" => secondary = "second"

IInv ==
    /\ TypeOK
    /\ Counted
    /\ OnePiece
    /\ BufferSafe
    /\ NoneStuck
    /\ Issuing
    /\ Walking
    /\ HasSecondary
    /\ QuiescedIsQuiet

LEMMA InitIInv == Init => IInv
  <1> SUFFICES ASSUME Init PROVE IInv
    OBVIOUS
  <1>1. TypeOK
    <2>1. images = <<>> /\ <<>> \in Seq(Images)
      BY DEF Init
    <2>2. seg \in 0 .. NIov
      BY NIovAssumption DEF Init
    <2> QED BY <2>1, <2>2 DEF Init, TypeOK, Flags, Modes, Lists, Errors
  <1>2. Counted
    BY FS_EmptySet DEF Init, Counted
  <1>3. OnePiece /\ BufferSafe /\ NoneStuck
    BY DEF Init, OnePiece, BufferSafe, NoneStuck
  <1>4. Issuing /\ Walking /\ HasSecondary /\ QuiescedIsQuiet
    BY DEF Init, Issuing, Walking, HasSecondary, QuiescedIsQuiet, Has
  <1> QED BY <1>1, <1>2, <1>3, <1>4 DEF IInv

-----------------------------------------------------------------------------
(* Control messages and signals leave the requests alone: only the type     *)
(* invariant, the secondary and the quiesced state are at stake.            *)

LEMMA ChainTypes ==
    /\ <<>> \in Seq(Images)
    /\ <<"leaf", "base">> \in Seq(Images)
    /\ <<"leaf", "second", "base">> \in Seq(Images)
  BY DEF Images

LEMMA RequestsKept ==
    ASSUME IInv, UNCHANGED <<where, secs_pending, io, cur, seg, tgt, loop, todo>>,
           pc' = pc \/ (pc \notin {"loop", "seg"} /\ pc' \notin {"loop", "seg"})
    PROVE  /\ Counted' /\ OnePiece' /\ BufferSafe' /\ NoneStuck'
           /\ Issuing' /\ Walking'
  BY DEF IInv, Counted, OnePiece, BufferSafe, NoneStuck, Issuing, Walking, submitting

LEMMA QuiesceQueue ==
    ASSUME NEW st \in SUBSET Flags
    PROVE  /\ quiesce_queue(st) \in SUBSET Flags
           /\ "QUIESCED" \in quiesce_queue(st) => "QUIESCED" \in st \/ On("pending") = {}
  BY DEF quiesce_queue, Flags

LEMMA PausedState ==
    ASSUME NEW st \in SUBSET Flags
    PROVE  /\ paused(st) \in SUBSET Flags
           /\ "QUIESCED" \in paused(st) => "QUIESCED" \in st \/ On("pending") = {}
  <1> DEFINE st1 == st \cup {"PAUSE_REQUESTED"}
  <1>1. st1 \in SUBSET Flags
    BY DEF Flags
  <1>2. /\ quiesce_queue(st1) \in SUBSET Flags
        /\ "QUIESCED" \in quiesce_queue(st1) => "QUIESCED" \in st1 \/ On("pending") = {}
    BY <1>1, QuiesceQueue
  <1> QED BY <1>2 DEF paused, Flags

(* close_vdi keeps the types and the secondary invariant                    *)
LEMMA CloseVdi ==
    ASSUME IInv, close_vdi, UNCHANGED secmode
    PROVE  /\ images' \in Seq(Images)
           /\ secondary' \in Images \cup {NoImage, FreedImage}
           /\ retired' \in Images \cup {NoImage}
           /\ ignore' \subseteq Images
           /\ HasSecondary'
  BY ChainTypes DEF IInv, TypeOK, HasSecondary, close_vdi, NoImage, FreedImage

LEMMA OpenVdi ==
    ASSUME IInv, NEW fl, open_vdi(fl), fl \subseteq {"RDONLY", "SECONDARY", "STANDBY"}
    PROVE  /\ named' \in BOOLEAN
           /\ oflags' \subseteq {"RDONLY", "SECONDARY", "STANDBY"}
           /\ images' \in Seq(Images)
           /\ secmode' \in Modes
           /\ secondary' \in Images \cup {NoImage, FreedImage}
           /\ retired' \in Images \cup {NoImage}
           /\ ignore' \subseteq Images
           /\ HasSecondary'
  BY ChainTypes DEF IInv, TypeOK, HasSecondary, open_vdi, add_secondary, Modes, Images, NoImage

LEMMA OpenVdiFails ==
    ASSUME IInv, NEW b \in BOOLEAN, open_vdi_fails(b)
    PROVE  /\ named' \in BOOLEAN
           /\ oflags' \subseteq {"RDONLY", "SECONDARY", "STANDBY"}
           /\ asked' \subseteq {"RDONLY", "SECONDARY", "STANDBY"}
           /\ images' \in Seq(Images)
           /\ secmode' \in Modes
           /\ secondary' \in Images \cup {NoImage, FreedImage}
           /\ retired' \in Images \cup {NoImage}
           /\ ignore' \subseteq Images
           /\ HasSecondary'
           /\ state' \in SUBSET Flags /\ ("QUIESCED" \in state' => "QUIESCED" \in state)
  BY ChainTypes DEF IInv, TypeOK, HasSecondary, open_vdi_fails

LEMMA PauseIInv == ASSUME IInv, pause PROVE IInv'
  <1>1. state' \in SUBSET Flags /\ ("QUIESCED" \in state' => On("pending") = {})
    BY PausedState DEF pause, IInv, TypeOK, QuiescedIsQuiet, Has
  <1>2. /\ images' \in Seq(Images)
        /\ secondary' \in Images \cup {NoImage, FreedImage}
        /\ retired' \in Images \cup {NoImage}
        /\ ignore' \subseteq Images
        /\ HasSecondary'
    <2>1. CASE pause_completes
      BY <2>1, CloseVdi DEF pause
    <2>2. CASE ~pause_completes
      BY <2>2 DEF pause, IInv, TypeOK, HasSecondary
    <2> QED BY <2>1, <2>2
  <1>3. TypeOK'
    BY <1>1, <1>2 DEF pause, IInv, TypeOK, reqs, ctl
  <1>4. QuiescedIsQuiet'
    BY <1>1 DEF pause, QuiescedIsQuiet, Has, On, reqs
  <1>5. UNCHANGED <<where, secs_pending, io, cur, seg, tgt, loop, todo, pc>>
    BY DEF pause, reqs, ctl
  <1> QED BY <1>2, <1>3, <1>4, <1>5, RequestsKept DEF IInv

LEMMA OpenIInv == ASSUME IInv, NEW fl \in OpenFlags, open_image(fl) PROVE IInv'
  <1>1. UNCHANGED <<where, secs_pending, io, cur, seg, tgt, loop, todo, pc>>
    BY DEF open_image, reqs, ctl
  <1>2. CASE open_vdi(fl) /\ asked' = fl /\ state' = state \ {"CLOSED"}
    <2>1. fl \subseteq {"RDONLY", "SECONDARY", "STANDBY"}
      BY ConstantsAssumption
    <2>2. TypeOK'
      BY <1>2, <2>1, OpenVdi DEF open_image, IInv, TypeOK, reqs, ctl
    <2>3. QuiescedIsQuiet'
      BY <1>1, <1>2 DEF IInv, QuiescedIsQuiet, Has, On
    <2> QED BY <1>1, <1>2, <2>1, <2>2, <2>3, OpenVdi, RequestsKept DEF IInv
  <1>3. CASE \E b \in BOOLEAN : open_vdi_fails(b)
    <2>1. PICK b \in BOOLEAN : open_vdi_fails(b)
      BY <1>3
    <2>2. TypeOK'
      BY <2>1, OpenVdiFails DEF open_image, IInv, TypeOK, reqs, ctl
    <2>3. QuiescedIsQuiet'
      BY <1>1, <2>1, OpenVdiFails DEF IInv, QuiescedIsQuiet, Has, On
    <2> QED BY <1>1, <2>1, <2>2, <2>3, OpenVdiFails, RequestsKept DEF IInv
  <1> QED BY <1>2, <1>3 DEF open_image

LEMMA ResumeIInv == ASSUME IInv, resume PROVE IInv'
  <1>1. UNCHANGED <<where, secs_pending, io, cur, seg, tgt, loop, todo>>
    BY DEF resume, reqs
  <1>2. pc' = pc \/ (pc \notin {"loop", "seg"} /\ pc' \notin {"loop", "seg"})
    BY DEF resume
  <1>3. ASSUME NEW fl, fl \subseteq {"RDONLY", "SECONDARY", "STANDBY"}, open_vdi(fl),
               state' = state \ {"CLOSED", "QUIESCED", "QUIESCE_REQUESTED",
                                 "PAUSED", "PAUSE_REQUESTED"},
               pc' = "check", UNCHANGED asked
        PROVE  IInv'
    <2>1. TypeOK'
      BY <1>3, OpenVdi DEF resume, IInv, TypeOK, reqs
    <2>2. QuiescedIsQuiet'
      BY <1>3 DEF QuiescedIsQuiet, Has
    <2> QED BY <1>1, <1>2, <1>3, <2>1, <2>2, OpenVdi, RequestsKept DEF IInv
  <1>4. ASSUME NEW b \in BOOLEAN, open_vdi_fails(b), UNCHANGED pc
        PROVE  IInv'
    <2>1. TypeOK'
      BY <1>4, OpenVdiFails DEF resume, IInv, TypeOK, reqs
    <2>2. QuiescedIsQuiet'
      BY <1>1, <1>4, OpenVdiFails DEF IInv, QuiescedIsQuiet, Has, On
    <2> QED BY <1>1, <1>2, <1>4, <2>1, <2>2, OpenVdiFails, RequestsKept DEF IInv
  <1>5. oflags \subseteq {"RDONLY", "SECONDARY", "STANDBY"}
    BY DEF IInv, TypeOK
  <1> QED BY <1>3, <1>4, <1>5 DEF resume

LEMMA CloseIInv == ASSUME IInv, close_image PROVE IInv'
  <1>1. UNCHANGED <<where, secs_pending, io, cur, seg, tgt, loop, todo, pc>>
    BY DEF close_image, reqs, ctl
  <1>2. TypeOK' /\ HasSecondary'
    BY CloseVdi DEF close_image, IInv, TypeOK, reqs, ctl, Flags
  <1>3. QuiescedIsQuiet'
    <2>1. "QUIESCED" \in state' => "QUIESCED" \in state
      BY DEF close_image
    <2> QED BY <1>1, <2>1 DEF IInv, QuiescedIsQuiet, Has, On
  <1> QED BY <1>1, <1>2, <1>3, RequestsKept DEF IInv

LEMMA DetachIInv == ASSUME IInv, detach_vbd PROVE IInv'
  <1>1. UNCHANGED <<where, secs_pending, io, cur, seg, tgt, loop, todo, pc, state,
                    secmode, secondary, ignore>>
    BY DEF detach_vbd, reqs, ctl, chain
  <1>2. TypeOK'
    BY DEF detach_vbd, IInv, TypeOK, reqs, ctl, chain
  <1>3. QuiescedIsQuiet' /\ HasSecondary'
    BY <1>1 DEF IInv, QuiescedIsQuiet, HasSecondary, Has, On
  <1> QED BY <1>1, <1>2, <1>3, RequestsKept DEF IInv

LEMMA SigintIInv == ASSUME IInv, sigint PROVE IInv'
  <1>1. UNCHANGED <<where, secs_pending, io, cur, seg, tgt, loop, todo, pc>>
    BY DEF sigint, reqs, ctl
  <1>2. TypeOK' /\ HasSecondary'
    <2>1. CASE MayShutdown(state)
      BY <2>1, CloseVdi DEF sigint, IInv, TypeOK, reqs, ctl, Flags
    <2>2. CASE ~MayShutdown(state)
      BY <2>2 DEF sigint, IInv, TypeOK, HasSecondary, reqs, ctl, Flags
    <2> QED BY <2>1, <2>2
  <1>3. QuiescedIsQuiet'
    <2>1. "QUIESCED" \in state' => "QUIESCED" \in state
      <3>1. CASE MayShutdown(state)
        BY <3>1 DEF sigint
      <3>2. CASE ~MayShutdown(state)
        BY <3>2 DEF sigint
      <3> QED BY <3>1, <3>2
    <2> QED BY <1>1, <2>1 DEF IInv, QuiescedIsQuiet, Has, On
  <1> QED BY <1>1, <1>2, <1>3, RequestsKept DEF IInv

LEMMA KillIInv == ASSUME IInv, kill_queue PROVE IInv'
  <1>1. UNCHANGED <<where, secs_pending, io, cur, seg, tgt, loop, todo, pc,
                    secmode, secondary, ignore>>
    BY DEF kill_queue, reqs, ctl, chain
  <1>2. /\ quiesce_queue(state) \in SUBSET Flags
        /\ "QUIESCED" \in quiesce_queue(state) => "QUIESCED" \in state \/ On("pending") = {}
    BY QuiesceQueue DEF IInv, TypeOK
  <1>3. TypeOK'
    BY <1>2 DEF kill_queue, IInv, TypeOK, reqs, ctl, chain, Flags
  <1>4. QuiescedIsQuiet' /\ HasSecondary'
    BY <1>1, <1>2 DEF kill_queue, IInv, QuiescedIsQuiet, HasSecondary, Has, On
  <1> QED BY <1>1, <1>3, <1>4, RequestsKept DEF IInv

-----------------------------------------------------------------------------
(* Steps that move requests between lists without touching the drivers.     *)

LEMMA Destinations ==
    ASSUME NEW r, NEW e
    PROVE  /\ complete_vbd_request(r, e) \in {"failed", "completed"}
           /\ complete_vbd_request(r, e) = "failed" => e # "none"
           /\ check_request(r) \in {"none", "ENOSYS", "EAGAIN", "EPERM", "EINVAL"}
  BY DEF complete_vbd_request, check_request, check_queue

(* a request on a list other than pending has nothing with a driver         *)
LEMMA IdleRequest ==
    ASSUME IInv, NEW r \in Reqs, where[r] # "pending"
    PROVE  io[r] = {} /\ secs_pending[r] = 0
  BY FS_EmptySet DEF IInv, BufferSafe, Counted

LEMMA QueueRequestIInv ==
    ASSUME IInv, NEW r \in Reqs, NEW o \in Ops, queue_request(r, o) PROVE IInv'
  <1>1. TypeOK'
    BY ConstantsAssumption DEF queue_request, IInv, TypeOK, chain, ctl, Lists
  <1>2. Counted' /\ OnePiece' /\ HasSecondary'
    BY DEF queue_request, IInv, Counted, OnePiece, HasSecondary, chain
  <1>3. BufferSafe' /\ NoneStuck' /\ QuiescedIsQuiet'
    BY DEF queue_request, IInv, TypeOK, BufferSafe, NoneStuck, QuiescedIsQuiet, Has, On,
           submitting, ctl
  <1>4. Issuing' /\ Walking'
    BY DEF queue_request, IInv, TypeOK, Issuing, Walking, ctl
  <1> QED BY <1>1, <1>2, <1>3, <1>4 DEF IInv

LEMMA KickIInv == ASSUME IInv, kick PROVE IInv'
  <1>1. TypeOK'
    BY DEF kick, IInv, TypeOK, chain, ctl, Lists
  <1>2. Counted' /\ OnePiece' /\ HasSecondary'
    BY DEF kick, IInv, Counted, OnePiece, HasSecondary, chain
  <1>3. BufferSafe' /\ NoneStuck' /\ QuiescedIsQuiet'
    BY DEF kick, IInv, TypeOK, BufferSafe, NoneStuck, QuiescedIsQuiet, Has, On,
           submitting, ctl
  <1>4. Issuing' /\ Walking'
    BY DEF kick, IInv, TypeOK, Issuing, Walking, ctl
  <1> QED BY <1>1, <1>2, <1>3, <1>4 DEF IInv

LEMMA ExpireIInv == ASSUME IInv, NEW r \in Reqs, expire(r) PROVE IInv'
  <1>1. UNCHANGED <<where, secs_pending, io, cur, seg, tgt, loop, todo, pc, state,
                    secmode, secondary, ignore>>
    BY DEF expire, ctl, chain
  <1>2. TypeOK'
    BY DEF expire, IInv, TypeOK, ctl, chain
  <1>3. QuiescedIsQuiet' /\ HasSecondary'
    BY <1>1 DEF IInv, QuiescedIsQuiet, HasSecondary, Has, On
  <1> QED BY <1>1, <1>2, <1>3, RequestsKept DEF IInv

LEMMA CheckQueueIInv == ASSUME IInv, check_queue_state PROVE IInv'
  <1> DEFINE w == [r \in Reqs |-> IF r \in Timed THEN "completed" ELSE where[r]]
             waiting == {r \in Reqs : w[r] \in {"new", "failed"}}
  <1>1. w \in [Reqs -> Lists] /\ \A r \in Reqs : (w[r] = "pending" <=> where[r] = "pending")
    BY DEF IInv, TypeOK, Lists, Timed, On
  <1>2. /\ where' \in [Reqs -> Lists]
        /\ \A r \in Reqs : where'[r] = "pending" <=> where[r] = "pending"
        /\ error' \in [Reqs -> Errors]
        /\ pc' \in {"loop", "tail"}
        /\ todo' \subseteq Reqs
        /\ pc' = "loop" => \A r \in todo' : where'[r] = "failed"
    <2>1. CASE Has("DEAD")
      <3>1. /\ where' = [r \in Reqs |-> IF r \in waiting THEN "completed" ELSE w[r]]
            /\ error' = [r \in Reqs |-> IF r \in waiting THEN "ESHUTDOWN" ELSE error[r]]
            /\ pc' = "tail" /\ todo' = {}
        BY <2>1 DEF check_queue_state, kill_requests
      <3>2. \A r \in waiting : w[r] # "pending"
        OBVIOUS
      <3> HIDE DEF w, waiting
      <3>3. error' \in [Reqs -> Errors]
        BY <3>1 DEF IInv, TypeOK, Errors
      <3>4. where' \in [Reqs -> Lists]
        BY <1>1, <3>1 DEF Lists
      <3>5. \A r \in Reqs : where'[r] = "pending" <=> where[r] = "pending"
        BY <1>1, <3>1, <3>2
      <3> QED BY <3>1, <3>3, <3>4, <3>5
    <2>2. CASE ~Has("DEAD")
      <3>1. /\ where' = w /\ error' = error
            /\ \/ pc' = "tail" /\ todo' = {}
               \/ pc' = "loop" /\ todo' = {r \in Reqs : w[r] = "failed"}
        BY <2>2 DEF check_queue_state
      <3> HIDE DEF w
      <3> QED BY <1>1, <3>1 DEF IInv, TypeOK
    <2> QED BY <2>1, <2>2
  <1>3. /\ UNCHANGED <<alive, state, named, oflags, asked, images, secmode, secondary, retired,
                       ignore, op, secs_pending, io, served, expired, loop, cur, seg, tgt>>
        /\ pc \in {"idle", "check"}
        /\ ret' \in {"idle", "tail"}
    BY DEF check_queue_state, chain
  <1> HIDE DEF w, waiting
  <1>4. TypeOK'
    BY <1>2, <1>3 DEF IInv, TypeOK
  <1>5. Counted' /\ OnePiece' /\ HasSecondary'
    BY <1>3 DEF IInv, Counted, OnePiece, HasSecondary
  <1>6. BufferSafe' /\ NoneStuck' /\ QuiescedIsQuiet'
    BY <1>2, <1>3 DEF IInv, BufferSafe, NoneStuck, QuiescedIsQuiet, Has, On, submitting
  <1>7. Issuing' /\ Walking'
    BY <1>2, <1>3 DEF IInv, Issuing, Walking
  <1> QED BY <1>4, <1>5, <1>6, <1>7 DEF IInv

LEMMA RecheckIInv == ASSUME IInv, recheck_state PROVE IInv'
  <1>1. TypeOK'
    BY DEF recheck_state, IInv, TypeOK, reqs, chain, On
  <1>2. Counted' /\ OnePiece' /\ HasSecondary'
    BY DEF recheck_state, IInv, Counted, OnePiece, HasSecondary, reqs, chain
  <1>3. BufferSafe' /\ NoneStuck' /\ QuiescedIsQuiet'
    BY DEF recheck_state, IInv, BufferSafe, NoneStuck, QuiescedIsQuiet, Has, On, submitting, reqs
  <1>4. Issuing' /\ Walking'
    BY DEF recheck_state, IInv, Issuing, Walking, On, reqs
  <1> QED BY <1>1, <1>2, <1>3, <1>4 DEF IInv

LEMMA LoopEndIInv == ASSUME IInv, loop_end PROVE IInv'
  <1>1. TypeOK'
    BY DEF loop_end, IInv, TypeOK, reqs, chain, On
  <1>2. Counted' /\ OnePiece' /\ HasSecondary'
    BY DEF loop_end, IInv, Counted, OnePiece, HasSecondary, reqs, chain
  <1>3. BufferSafe' /\ NoneStuck' /\ QuiescedIsQuiet'
    BY DEF loop_end, IInv, TypeOK, BufferSafe, NoneStuck, QuiescedIsQuiet, Has, On, submitting, reqs
  <1>4. Issuing' /\ Walking'
    BY DEF loop_end, IInv, TypeOK, Issuing, Walking, On, reqs
  <1> QED BY <1>1, <1>2, <1>3, <1>4 DEF IInv

(* r, taken from the list being walked, moves to another list               *)
LEMMA MoveIInv ==
    ASSUME IInv, NEW r \in todo, pc = "loop", NEW d \in {"failed", "completed"}, NEW e \in Errors,
           where' = [where EXCEPT ![r] = d],
           error' = [error EXCEPT ![r] = e] \/ error' = error,
           served' = [served EXCEPT ![r] = {}] \/ served' = served,
           todo' \subseteq todo \ {r},
           UNCHANGED <<alive, state, chain, op, secs_pending, io, expired, pc, loop, ret,
                       cur, seg, tgt>>
    PROVE  IInv'
  <1>1. r \in Reqs /\ where[r] # "pending" /\ io[r] = {}
    BY IdleRequest DEF IInv, TypeOK, Walking, submitting
  <1>2. TypeOK'
    <2>1. where' \in [Reqs -> Lists] /\ todo' \subseteq Reqs
      BY <1>1 DEF IInv, TypeOK, Lists
    <2>2. error' \in [Reqs -> Errors]
      BY <1>1 DEF IInv, TypeOK
    <2>3. served' \in [Reqs -> SUBSET (Sectors \X (Images \cup {FreedImage}))]
      BY <1>1 DEF IInv, TypeOK
    <2> QED BY <2>1, <2>2, <2>3 DEF IInv, TypeOK, chain
  <1>3. Counted' /\ OnePiece' /\ HasSecondary'
    BY DEF IInv, Counted, OnePiece, HasSecondary, chain
  <1>4. BufferSafe' /\ NoneStuck' /\ QuiescedIsQuiet'
    BY <1>1 DEF IInv, TypeOK, BufferSafe, NoneStuck, QuiescedIsQuiet, Has, On, submitting
  <1>5. Issuing' /\ Walking'
    BY <1>1 DEF IInv, TypeOK, Issuing, Walking, submitting
  <1> QED BY <1>2, <1>3, <1>4, <1>5 DEF IInv

LEMMA CompleteFailedIInv ==
    ASSUME IInv, NEW r \in todo, complete_failed_request(r) PROVE IInv'
  <1>1. complete_vbd_request(r, error[r]) \in {"failed", "completed"}
    BY Destinations
  <1>2. "none" \in Errors
    BY DEF Errors
  <1> QED BY <1>1, <1>2, MoveIInv DEF complete_failed_request

LEMMA SkipFailedIInv ==
    ASSUME IInv, NEW r \in todo, skip_failed_request(r) PROVE IInv'
  <1>1. TypeOK'
    BY DEF skip_failed_request, IInv, TypeOK, reqs, chain
  <1>2. Counted' /\ OnePiece' /\ HasSecondary'
    BY DEF skip_failed_request, IInv, Counted, OnePiece, HasSecondary, reqs, chain
  <1>3. BufferSafe' /\ NoneStuck' /\ QuiescedIsQuiet'
    BY DEF skip_failed_request, IInv, BufferSafe, NoneStuck, QuiescedIsQuiet, Has, On,
           submitting, reqs
  <1>4. Issuing' /\ Walking'
    BY DEF skip_failed_request, IInv, Issuing, Walking, submitting, reqs
  <1> QED BY <1>1, <1>2, <1>3, <1>4 DEF IInv

LEMMA IssueIInv ==
    ASSUME IInv, NEW r \in todo, pc = "loop", issue_request(r) PROVE IInv'
  <1>1. r \in Reqs /\ where[r] # "pending" /\ io[r] = {} /\ secs_pending[r] = 0
    BY IdleRequest DEF IInv, TypeOK, Walking, submitting
  <1>2. CASE issue_refused(r)
    <2> DEFINE e == check_request(r)
               d == complete_vbd_request(r, e)
    <2>1. e \in Errors /\ d \in {"failed", "completed"}
      BY Destinations DEF Errors
    <2>2. todo' \subseteq todo \ {r}
      BY <1>2 DEF issue_refused, LoopOn
    <2> QED BY <1>2, <2>1, <2>2, MoveIInv DEF issue_refused, issue_request
  <1>3. CASE issue_begin(r)
    <2>1. images # <<>> /\ "QUIESCED" \notin state
      BY <1>3 DEF issue_begin, check_request, check_queue, queue_ready
    <2>2. Head(images) \in Images
      BY <2>1 DEF IInv, TypeOK
    <2>3. 0 \in 0 .. NIov
      BY NIovAssumption
    <2>4. TypeOK'
      BY <1>1, <1>3, <2>2, <2>3 DEF issue_begin, issue_request, IInv, TypeOK, chain, Lists, Errors
    <2>5. Counted' /\ OnePiece' /\ HasSecondary'
      BY DEF issue_request, IInv, Counted, OnePiece, HasSecondary, chain
    <2>6. BufferSafe' /\ NoneStuck' /\ QuiescedIsQuiet'
      BY <1>1, <1>3, <2>1 DEF issue_begin, issue_request, IInv, TypeOK, BufferSafe, NoneStuck,
         QuiescedIsQuiet, Has, On, submitting
    <2>7. Issuing' /\ Walking'
      BY <1>1, <1>3, <2>2 DEF issue_begin, issue_request, IInv, TypeOK, Issuing, Walking, submitting
    <2> QED BY <2>4, <2>5, <2>6, <2>7 DEF IInv
  <1> QED BY <1>2, <1>3 DEF issue_request

-----------------------------------------------------------------------------
(* Issuing iovs and the drivers' answers.                                   *)

LEMMA QueueIovIInv == ASSUME IInv, queue_iov PROVE IInv'
  <1> DEFINE mirrored == secmode = "MIRROR" /\ op[cur] = "write"
             main   == [role : {"main"}, sec : Iov(seg), img : {tgt}]
             mirror == [role : {"mirror"}, sec : Iov(seg), img : {secondary}]
             new    == main \cup (IF mirrored THEN mirror ELSE {})
             add    == IovSecs + (IF mirrored THEN IovSecs ELSE 0)
  <1>1. /\ pc = "seg" /\ cur \in todo /\ cur \in Reqs /\ where[cur] = "pending" /\ tgt \in Images
        /\ seg \in 0 .. (NIov - 1) /\ seg \in Nat /\ IovSecs \in Nat /\ IovSecs > 0
    BY NIovAssumption, IovSecsAssumption DEF queue_iov, IInv, TypeOK, Issuing
  <1>2. /\ io' = [io EXCEPT ![cur] = @ \cup new]
        /\ secs_pending' = [secs_pending EXCEPT ![cur] = @ + add]
        /\ seg' = seg + 1
        /\ UNCHANGED <<alive, state, chain, where, op, error, served, expired,
                       pc, loop, todo, ret, cur, tgt>>
    <2>1. io' = [io EXCEPT ![cur] = @ \cup main \cup (IF mirrored THEN mirror ELSE {})]
      BY DEF queue_iov
    <2>2. secs_pending' = [secs_pending EXCEPT ![cur] = @ + IovSecs + (IF mirrored THEN IovSecs ELSE 0)]
      BY DEF queue_iov
    <2>3. secs_pending[cur] \in Nat
      BY <1>1 DEF IInv, TypeOK
    <2>4. io[cur] \cup main \cup (IF mirrored THEN mirror ELSE {}) = io[cur] \cup new
      OBVIOUS
    <2>5. secs_pending[cur] + IovSecs + (IF mirrored THEN IovSecs ELSE 0) = secs_pending[cur] + add
      BY <1>1, <2>3
    <2>6. io' = [io EXCEPT ![cur] = @ \cup new]
      BY <1>1, <2>1, <2>4 DEF IInv, TypeOK
    <2>7. secs_pending' = [secs_pending EXCEPT ![cur] = @ + add]
      BY <1>1, <2>2, <2>5 DEF IInv, TypeOK
    <2> QED BY <2>6, <2>7 DEF queue_iov
  <1>3. Iov(seg) \subseteq Sectors /\ IsFiniteSet(Iov(seg)) /\ Cardinality(Iov(seg)) = IovSecs
    BY <1>1, IovFacts
  <1>4. new \subseteq Treqs
    <2>1. main \subseteq Treqs
      BY <1>1, <1>3 DEF Treqs
    <2>2. mirrored => mirror \subseteq Treqs
      BY <1>3 DEF Treqs, IInv, TypeOK, HasSecondary
    <2> QED BY <2>1, <2>2
  <1>5. IsFiniteSet(new) /\ Cardinality(new) = add
    <2>1. IsFiniteSet(main) /\ Cardinality(main) = IovSecs
      BY <1>3, TaggedSet
    <2>2. IsFiniteSet(mirror) /\ Cardinality(mirror) = IovSecs
      BY <1>3, TaggedSet
    <2>3. main \cap mirror = {}
      OBVIOUS
    <2>4. CASE mirrored
      <3>1. new = main \cup mirror /\ add = IovSecs + IovSecs
        BY <2>4
      <3> HIDE DEF main, mirror, new, add
      <3>2. IsFiniteSet(main \cup mirror) /\ Cardinality(main \cup mirror) = IovSecs + IovSecs
        BY <2>1, <2>2, <2>3, DisjointCard
      <3> QED BY <3>1, <3>2
    <2>5. CASE ~mirrored
      <3>1. new = main
        BY <2>5
      <3>2. add = IovSecs
        BY <1>1, <2>5
      <3> HIDE DEF main, new, add
      <3> QED BY <2>1, <3>1, <3>2
    <2> QED BY <2>4, <2>5
  <1>6. \A u \in new : u.sec \in Iov(seg) /\ u.sec >= seg * IovSecs /\ u.sec < (seg + 1) * IovSecs
    BY DEF Iov
  <1>7. \A u, v \in new : u.role = v.role /\ u.sec = v.sec => u = v
    OBVIOUS
  <1> HIDE DEF new, add
  <1>8. \A u \in io[cur] : u.sec \in Nat /\ u.sec < seg * IovSecs
    BY <1>1 DEF IInv, TypeOK, Issuing, Treqs, Sectors
  <1>9. \A u \in io[cur], v \in new : u.sec # v.sec
    BY <1>1, <1>3, <1>6, <1>8 DEF Sectors
  <1>10. io[cur] \cap new = {}
    BY <1>9
  <1>11. /\ IsFiniteSet(io[cur]) /\ secs_pending[cur] = Cardinality(io[cur])
         /\ IsFiniteSet(io[cur] \cup new)
         /\ Cardinality(io[cur] \cup new) = secs_pending[cur] + add
    BY <1>1, <1>5, <1>10, DisjointCard DEF IInv, Counted
  <1>12. secs_pending[cur] + add \in Nat
    BY <1>11, FS_CardinalityType
  <1>13. TypeOK'
    <2>1. io' \in [Reqs -> SUBSET Treqs]
      BY <1>1, <1>2, <1>4 DEF IInv, TypeOK
    <2>2. secs_pending' \in [Reqs -> Nat]
      BY <1>1, <1>2, <1>12 DEF IInv, TypeOK
    <2>3. seg' \in 0 .. NIov
      BY <1>1, <1>2, NIovAssumption
    <2> QED BY <1>2, <2>1, <2>2, <2>3 DEF IInv, TypeOK, chain
  <1>14. Counted'
    BY <1>1, <1>2, <1>11 DEF IInv, TypeOK, Counted
  <1>15. OnePiece'
    BY <1>1, <1>2, <1>7, <1>9 DEF IInv, TypeOK, OnePiece
  <1>16. BufferSafe' /\ NoneStuck' /\ QuiescedIsQuiet' /\ HasSecondary'
    BY <1>1, <1>2 DEF IInv, TypeOK, BufferSafe, NoneStuck, QuiescedIsQuiet, HasSecondary, Has, On,
       submitting, chain
  <1>17. Issuing'
    <2>1. seg * IovSecs \in Nat /\ (seg + 1) * IovSecs = seg * IovSecs + IovSecs
      BY <1>1
    <2>2. \A u \in io'[cur] : u.sec < (seg + 1) * IovSecs
      <3>1. \A u \in io[cur] : u.sec < (seg + 1) * IovSecs
        BY <1>1, <1>8, <2>1
      <3> QED BY <1>1, <1>2, <1>6, <3>1 DEF IInv, TypeOK
    <2> QED BY <1>1, <1>2, <2>2 DEF Issuing
  <1>18. Walking'
    BY <1>2 DEF IInv, Walking, submitting
  <1> QED BY <1>13, <1>14, <1>15, <1>16, <1>17, <1>18 DEF IInv

LEMMA IssueEndIInv == ASSUME IInv, issue_end PROVE IInv'
  <1> DEFINE d == IF secs_pending[cur] = 0
                  THEN complete_vbd_request(cur, error[cur]) ELSE "pending"
  <1>1. pc = "seg" /\ cur \in todo /\ cur \in Reqs /\ where[cur] = "pending"
    BY DEF issue_end, IInv, TypeOK, Issuing
  <1>2. d \in {"failed", "completed", "pending"} /\ (d = "pending" <=> io[cur] # {})
    BY <1>1, Destinations, FS_EmptySet DEF IInv, Counted
  <1>3. where' = [where EXCEPT ![cur] = d] /\ todo' \subseteq todo \ {cur}
    BY DEF issue_end, LoopOn
  <1>4. /\ pc' = "loop" /\ cur' = NoReq /\ seg' = 0 /\ tgt' = NoImage
        /\ UNCHANGED <<alive, state, named, oflags, asked, images, secmode, secondary, retired,
                       ignore, op, error, secs_pending, io, served, expired, loop, ret>>
    BY DEF issue_end, chain
  <1> HIDE DEF d
  <1>5. TypeOK'
    <2>1. 0 \in 0 .. NIov
      BY NIovAssumption
    <2> QED BY <1>1, <1>2, <1>3, <1>4, <2>1 DEF IInv, TypeOK, Lists
  <1>6. Counted' /\ OnePiece' /\ HasSecondary'
    BY <1>4 DEF IInv, Counted, OnePiece, HasSecondary
  <1>7. BufferSafe' /\ NoneStuck' /\ QuiescedIsQuiet'
    BY <1>1, <1>2, <1>3, <1>4 DEF IInv, TypeOK, BufferSafe, NoneStuck, QuiescedIsQuiet, Has, On,
       submitting
  <1>8. Issuing' /\ Walking'
    BY <1>1, <1>3, <1>4 DEF IInv, TypeOK, Issuing, Walking, submitting
  <1> QED BY <1>5, <1>6, <1>7, <1>8 DEF IInv

LEMMA TailIInv == ASSUME IInv, check_state_tail PROVE IInv'
  <1> DEFINE q == IF Has("QUIESCE_REQUESTED") THEN quiesce_queue(state) ELSE state
             p == IF Has("PAUSE_REQUESTED") THEN paused(q) ELSE q
             shut == Has("SHUTDOWN_REQUESTED") /\ MayShutdown(p)
  <1>1. q \in SUBSET Flags /\ ("QUIESCED" \in q => On("pending") = {})
    BY QuiesceQueue DEF IInv, TypeOK, QuiescedIsQuiet, Has
  <1>2. p \in SUBSET Flags /\ ("QUIESCED" \in p => On("pending") = {})
    <2> HIDE DEF q
    <2> QED BY <1>1, PausedState
  <1>3. /\ alive' = ~shut
        /\ state' = IF shut THEN p \cup {"CLOSED"} ELSE p
        /\ IF shut \/ (Has("PAUSE_REQUESTED") /\ pause_completes) THEN close_vdi
           ELSE UNCHANGED <<images, retired, secondary, ignore>>
    BY DEF check_state_tail
  <1>4. /\ pc = "tail" /\ pc' = "idle"
        /\ UNCHANGED <<named, oflags, asked, secmode, where, op, error, secs_pending, io, served,
                       expired, loop, todo, ret, cur, seg, tgt>>
    BY DEF check_state_tail, reqs
  <1> HIDE DEF p, shut
  <1>5. alive' \in BOOLEAN
    BY <1>3
  <1>6. state' \in SUBSET Flags /\ ("QUIESCED" \in state' => On("pending") = {})
    BY <1>2, <1>3 DEF Flags
  <1>7. /\ images' \in Seq(Images)
        /\ secondary' \in Images \cup {NoImage, FreedImage}
        /\ retired' \in Images \cup {NoImage}
        /\ ignore' \subseteq Images
        /\ HasSecondary'
    <2>1. CASE shut \/ (Has("PAUSE_REQUESTED") /\ pause_completes)
      BY <1>3, <1>4, <2>1, CloseVdi
    <2>2. CASE ~(shut \/ (Has("PAUSE_REQUESTED") /\ pause_completes))
      BY <1>3, <1>4, <2>2 DEF IInv, TypeOK, HasSecondary
    <2> QED BY <2>1, <2>2
  <1>8. TypeOK'
    BY <1>4, <1>5, <1>6, <1>7 DEF IInv, TypeOK
  <1>9. QuiescedIsQuiet'
    BY <1>4, <1>6 DEF QuiescedIsQuiet, Has, On
  <1> QED BY <1>4, <1>7, <1>8, <1>9, RequestsKept DEF IInv

(* the drivers' pieces of r become N                                        *)
LEMMA PiecesIInv ==
    ASSUME IInv, NEW r \in Reqs, DriverRuns(r), io[r] # {},
           NEW N \in SUBSET Treqs, IsFiniteSet(N),
           \A u, v \in N : u.role = v.role /\ u.sec = v.sec => u = v,
           \A u \in N : \E v \in io[r] : u.sec = v.sec,
           io' = [io EXCEPT ![r] = N],
           secs_pending' = [secs_pending EXCEPT ![r] = Cardinality(N)],
           error' \in [Reqs -> Errors],
           NEW d \in {"failed", "completed"},
           where' = IF Cardinality(N) = 0 /\ ~submitting(r)
                    THEN [where EXCEPT ![r] = d] ELSE where,
           served' \in [Reqs -> SUBSET (Sectors \X (Images \cup {FreedImage}))],
           images' \in Seq(Images), secmode' \in Modes,
           secondary' \in Images \cup {NoImage, FreedImage},
           retired' \in Images \cup {NoImage},
           HasSecondary',
           UNCHANGED <<alive, state, named, oflags, asked, ignore, op, expired, ctl>>
    PROVE  IInv'
  <1>1. where[r] = "pending"
    BY DEF IInv, BufferSafe
  <1>2. Cardinality(N) \in Nat /\ (Cardinality(N) = 0 <=> N = {})
    BY FS_CardinalityType, FS_EmptySet
  <1>3. TypeOK'
    <2>1. where' \in [Reqs -> Lists]
      BY DEF IInv, TypeOK, Lists
    <2>2. io' \in [Reqs -> SUBSET Treqs] /\ secs_pending' \in [Reqs -> Nat]
      BY <1>2 DEF IInv, TypeOK
    <2> QED BY <2>1, <2>2 DEF IInv, TypeOK, ctl
  <1>4. Counted' /\ OnePiece'
    BY DEF IInv, TypeOK, Counted, OnePiece
  <1>5. BufferSafe' /\ NoneStuck' /\ QuiescedIsQuiet'
    BY <1>1, <1>2 DEF IInv, TypeOK, BufferSafe, NoneStuck, QuiescedIsQuiet, Has, On, submitting, ctl
  <1>6. Issuing'
    <2>1. CASE pc = "seg"
      <3>1. cur = r /\ where' = where
        BY <2>1 DEF DriverRuns, submitting
      <3>2. \A u \in N : u.sec < seg * IovSecs
        BY <2>1, <3>1 DEF IInv, Issuing
      <3> QED BY <2>1, <3>1, <3>2 DEF IInv, TypeOK, Issuing, ctl
    <2>2. CASE pc # "seg"
      BY <2>2 DEF Issuing, ctl
    <2> QED BY <2>1, <2>2
  <1>7. Walking'
    BY DEF IInv, Walking, DriverRuns, submitting, ctl
  <1> QED BY <1>3, <1>4, <1>5, <1>6, <1>7 DEF IInv

LEMMA AnswerIInv ==
    ASSUME IInv, NEW r \in Reqs, DriverRuns(r), NEW U \in SUBSET io[r], U # {},
           NEW err \in Errors, Answer(r, U, err),
           served' \in [Reqs -> SUBSET (Sectors \X (Images \cup {FreedImage}))],
           images' \in Seq(Images), secmode' \in Modes,
           secondary' \in Images \cup {NoImage, FreedImage},
           retired' \in Images \cup {NoImage},
           HasSecondary',
           UNCHANGED <<alive, state, named, oflags, asked, ignore, op, expired, ctl>>
    PROVE  IInv'
  <1> DEFINE N == io[r] \ U
             e == IF error[r] = "none" THEN err ELSE error[r]
             d == complete_vbd_request(r, e)
  <1>1. IsFiniteSet(io[r]) /\ secs_pending[r] = Cardinality(io[r]) /\ io[r] \subseteq Treqs
    BY DEF IInv, Counted, TypeOK
  <1>2. /\ IsFiniteSet(N)
        /\ Cardinality(N) = secs_pending[r] - Cardinality(U)
    BY <1>1, DifferenceCard
  <1>3. N \in SUBSET Treqs /\ io[r] # {}
    BY <1>1
  <1>4. \A u, v \in N : u.role = v.role /\ u.sec = v.sec => u = v
    BY DEF IInv, OnePiece
  <1>5. e \in Errors
    BY DEF IInv, TypeOK
  <1>6. d \in {"failed", "completed"}
    BY Destinations
  <1>7. io' = [io EXCEPT ![r] = N]
    BY DEF Answer, IInv, TypeOK
  <1>8. secs_pending' = [secs_pending EXCEPT ![r] = Cardinality(N)]
    BY <1>2 DEF Answer
  <1>9. error' \in [Reqs -> Errors]
    BY <1>5 DEF Answer, IInv, TypeOK
  <1>10. where' = IF Cardinality(N) = 0 /\ ~submitting(r)
                  THEN [where EXCEPT ![r] = d] ELSE where
    BY <1>2 DEF Answer
  <1>11. \A u \in N : \E v \in io[r] : u.sec = v.sec
    OBVIOUS
  <1> HIDE DEF N, d
  <1> QED BY <1>2, <1>3, <1>4, <1>6, <1>7, <1>8, <1>9, <1>10, <1>11, PiecesIInv

(* pieces U of r count as transferred                                       *)
LEMMA StoreType ==
    ASSUME IInv, NEW r \in Reqs, NEW U \in SUBSET Treqs, Store(r, U) \/ UNCHANGED served
    PROVE  served' \in [Reqs -> SUBSET (Sectors \X (Images \cup {FreedImage}))]
  <1>1. CASE UNCHANGED served
    BY <1>1 DEF IInv, TypeOK
  <1>2. CASE Store(r, U)
    <2>1. {<<u.sec, u.img>> : u \in U} \subseteq Sectors \X (Images \cup {FreedImage})
      BY DEF Treqs
    <2> QED BY <1>2, <2>1 DEF Store, IInv, TypeOK
  <1> QED BY <1>1, <1>2

LEMMA CompleteTdIInv ==
    ASSUME IInv, NEW r \in Reqs, NEW img, NEW U \in SUBSET io[r], NEW res \in Results,
           complete_td_request(r, U, img, res)
    PROVE  IInv'
  <1>1. /\ DriverRuns(r) /\ U # {}
        /\ UNCHANGED <<alive, state, op, expired, ctl>>
    BY DEF complete_td_request
  <1>2. U \in SUBSET Treqs
    BY DEF IInv, TypeOK
  <1>3. "none" \in Errors /\ res \in Errors
    BY ConstantsAssumption DEF Errors
  <1>4. CASE res = "ENOSPC" /\ img \in ignore
    <2>1. /\ Answer(r, U, "none") /\ UNCHANGED served
          /\ secmode' = "DISABLED"
          /\ secondary' = IF secmode = "DISABLED" THEN secondary ELSE NoImage
          /\ UNCHANGED <<named, oflags, asked, ignore>>
      BY <1>4 DEF complete_td_request
    <2>2. /\ secmode' \in Modes
          /\ secondary' \in Images \cup {NoImage, FreedImage}
          /\ HasSecondary'
      BY <2>1 DEF Modes, HasSecondary, IInv, TypeOK
    <2>3. images' \in Seq(Images) /\ retired' \in Images \cup {NoImage}
      <3>1. images \in Seq(Images) /\ retired \in Images \cup {NoImage}
        BY DEF IInv, TypeOK
      <3>2. CASE secmode = "MIRROR" /\ images # <<>>
        <4>1. images' = Tail(images) /\ retired' = Head(images)
          BY <1>4, <3>2 DEF complete_td_request
        <4> QED BY <3>1, <3>2, <4>1
      <3>3. CASE secmode = "STANDBY"
        <4>1. images' = <<secondary>> \o images /\ retired' = retired
          BY <1>4, <3>3 DEF complete_td_request
        <4>2. secondary = "second"
          BY <1>4, <3>3 DEF IInv, HasSecondary
        <4>3. <<secondary>> \in Seq(Images)
          BY <4>2 DEF Images
        <4> QED BY <3>1, <4>1, <4>3
      <3>4. CASE ~(secmode = "MIRROR" /\ images # <<>>) /\ secmode # "STANDBY"
        <4>1. UNCHANGED <<images, retired>>
          BY <1>4, <3>4 DEF complete_td_request
        <4> QED BY <3>1, <4>1
      <3> QED BY <3>2, <3>3, <3>4
    <2>4. served' \in [Reqs -> SUBSET (Sectors \X (Images \cup {FreedImage}))]
      BY <1>2, <2>1, StoreType
    <2> QED BY <1>1, <1>3, <2>1, <2>2, <2>3, <2>4, AnswerIInv
  <1>5. CASE ~(res = "ENOSPC" /\ img \in ignore)
    <2>1. /\ Answer(r, U, res)
          /\ Store(r, U) \/ UNCHANGED served
          /\ UNCHANGED chain
      BY <1>5 DEF complete_td_request
    <2>2. served' \in [Reqs -> SUBSET (Sectors \X (Images \cup {FreedImage}))]
      BY <1>2, <2>1, StoreType
    <2>3. /\ images' \in Seq(Images) /\ secmode' \in Modes
          /\ secondary' \in Images \cup {NoImage, FreedImage}
          /\ retired' \in Images \cup {NoImage}
          /\ HasSecondary'
          /\ UNCHANGED <<named, oflags, asked, ignore>>
      BY <2>1 DEF chain, IInv, TypeOK, HasSecondary
    <2> QED BY <1>1, <1>3, <2>1, <2>2, <2>3, AnswerIInv
  <1> QED BY <1>4, <1>5

LEMMA ForwardIInv ==
    ASSUME IInv, NEW r \in Reqs, NEW img, NEW U \in SUBSET io[r],
           forward_request(r, U, img)
    PROVE  IInv'
  <1>1. /\ DriverRuns(r) /\ U # {} /\ img \in InChain
        /\ UNCHANGED <<alive, state, chain, op, expired, ctl>>
    BY DEF forward_request
  <1>2. /\ images' \in Seq(Images) /\ secmode' \in Modes
        /\ secondary' \in Images \cup {NoImage, FreedImage}
        /\ retired' \in Images \cup {NoImage}
        /\ HasSecondary'
        /\ UNCHANGED <<named, oflags, asked, ignore>>
    BY <1>1 DEF chain, IInv, TypeOK, HasSecondary
  <1>3. CASE ~queue_ready
    <2>1. Answer(r, U, "EBUSY") /\ UNCHANGED served
      BY <1>3 DEF forward_request
    <2>2. "EBUSY" \in Errors
      BY DEF Errors
    <2>3. served' \in [Reqs -> SUBSET (Sectors \X (Images \cup {FreedImage}))]
      BY <2>1 DEF IInv, TypeOK
    <2> QED BY <1>1, <1>2, <2>1, <2>2, <2>3, AnswerIInv
  <1>4. CASE queue_ready
    <2> DEFINE zero == IF IsLast(img) THEN U
                       ELSE {u \in U : u.sec >= SizeOf(Next_(img))}
               V == U \ zero
               moved == {OnImage(u, Next_(img)) : u \in V}
               R == io[r] \ U
               N == R \cup moved
               d == complete_vbd_request(r, error[r])
    <2>1. /\ io' = [io EXCEPT ![r] = (@ \ U) \cup moved]
          /\ secs_pending' = [secs_pending EXCEPT ![r] = @ - Cardinality(zero)]
          /\ where' = IF secs_pending'[r] = 0 /\ ~submitting(r)
                      THEN [where EXCEPT ![r] = d] ELSE where
          /\ Store(r, zero)
          /\ UNCHANGED error
      BY <1>4 DEF forward_request
    <2>2. zero \subseteq U /\ (IsLast(img) => V = {})
      OBVIOUS
    <2>3. IsFiniteSet(io[r]) /\ secs_pending[r] = Cardinality(io[r]) /\ io[r] \subseteq Treqs
      BY DEF IInv, Counted, TypeOK
    <2>4. \A u, v \in io[r] : u.role = v.role /\ u.sec = v.sec => u = v
      BY DEF IInv, OnePiece
    <2>5. ~IsLast(img) => Next_(img) \in Images
      <3> SUFFICES ASSUME ~IsLast(img) PROVE Next_(img) \in Images
        OBVIOUS
      <3> DEFINE i == CHOOSE i \in 1 .. Len(images) : images[i] = img
      <3>1. images \in Seq(Images)
        BY DEF IInv, TypeOK
      <3>2. i \in 1 .. Len(images) /\ images[i] = img
        BY <1>1 DEF InChain
      <3>3. i # Len(images)
        BY <3>1, <3>2 DEF IsLast
      <3>4. Next_(img) = images[i + 1]
        BY DEF Next_
      <3> HIDE DEF i
      <3>5. i + 1 \in 1 .. Len(images)
        BY <3>1, <3>2, <3>3
      <3> QED BY <3>1, <3>4, <3>5
    <2> HIDE DEF zero
    <2>6. /\ IsFiniteSet(U) /\ IsFiniteSet(R)
          /\ Cardinality(R) = Cardinality(io[r]) - Cardinality(U)
          /\ Cardinality(io[r]) \in Nat /\ Cardinality(U) \in Nat
      BY <2>3, DifferenceCard
    <2>7. /\ IsFiniteSet(V) /\ Cardinality(V) = Cardinality(U) - Cardinality(zero)
          /\ Cardinality(zero) \in Nat
      BY <2>2, <2>6, DifferenceCard
    <2>8. IsFiniteSet(moved) /\ Cardinality(moved) = Cardinality(V)
      <3>1. V \subseteq Treqs /\ \A u, v \in V : u.role = v.role /\ u.sec = v.sec => u = v
        BY <2>3, <2>4
      <3> HIDE DEF V
      <3> QED BY <2>7, <3>1, MovedCard
    <2>9. moved \subseteq Treqs
      <3> SUFFICES ASSUME NEW u \in V PROVE OnImage(u, Next_(img)) \in Treqs
        OBVIOUS
      <3>1. u \in Treqs /\ Next_(img) \in Images
        BY <2>2, <2>3, <2>5
      <3> QED BY <3>1 DEF Treqs, OnImage
    <2>10. \A w \in moved : \E u \in V : w.role = u.role /\ w.sec = u.sec /\ w = OnImage(u, Next_(img))
      BY DEF OnImage
    <2>11. R \cap moved = {}
      <3> SUFFICES ASSUME NEW w \in R, w \in moved PROVE FALSE
        OBVIOUS
      <3>1. PICK u \in V : w.role = u.role /\ w.sec = u.sec
        BY <2>10
      <3>2. w = u
        BY <2>4, <3>1
      <3> QED BY <3>2
    <2>12. \A u, v \in N : u.role = v.role /\ u.sec = v.sec => u = v
      <3> SUFFICES ASSUME NEW a \in N, NEW b \in N, a.role = b.role, a.sec = b.sec
                   PROVE  a = b
        OBVIOUS
      <3>1. CASE a \in R /\ b \in R
        BY <2>4, <3>1
      <3>2. CASE a \in moved /\ b \in moved
        <4>1. PICK u \in V : a.role = u.role /\ a.sec = u.sec /\ a = OnImage(u, Next_(img))
          BY <2>10, <3>2
        <4>2. PICK v \in V : b.role = v.role /\ b.sec = v.sec /\ b = OnImage(v, Next_(img))
          BY <2>10, <3>2
        <4>3. u = v
          BY <2>4, <4>1, <4>2
        <4> QED BY <4>1, <4>2, <4>3
      <3>3. CASE a \in R /\ b \in moved
        <4>1. PICK v \in V : b.role = v.role /\ b.sec = v.sec
          BY <2>10, <3>3
        <4>2. a = v
          BY <2>4, <3>3, <4>1
        <4> QED BY <3>3, <4>2
      <3>4. CASE a \in moved /\ b \in R
        <4>1. PICK v \in V : a.role = v.role /\ a.sec = v.sec
          BY <2>10, <3>4
        <4>2. b = v
          BY <2>4, <3>4, <4>1
        <4> QED BY <3>4, <4>2
      <3> QED BY <3>1, <3>2, <3>3, <3>4
    <2>13. \A u \in N : \E v \in io[r] : u.sec = v.sec
      BY <2>10
    <2> HIDE DEF V, moved, R
    <2>14. IsFiniteSet(N) /\ Cardinality(N) = Cardinality(R) + Cardinality(moved)
      BY <2>6, <2>8, <2>11, DisjointCard
    <2>15. Cardinality(N) = secs_pending[r] - Cardinality(zero)
      BY <2>3, <2>6, <2>7, <2>8, <2>14
    <2>16. io' = [io EXCEPT ![r] = N]
      BY <2>1 DEF IInv, TypeOK, R
    <2>17. secs_pending' = [secs_pending EXCEPT ![r] = Cardinality(N)]
      BY <2>1, <2>15
    <2>18. where' = IF Cardinality(N) = 0 /\ ~submitting(r)
                    THEN [where EXCEPT ![r] = d] ELSE where
      BY <2>1, <2>17 DEF IInv, TypeOK
    <2>19. N \in SUBSET Treqs
      BY <2>3, <2>9 DEF R
    <2>20. d \in {"failed", "completed"}
      BY Destinations
    <2>21. served' \in [Reqs -> SUBSET (Sectors \X (Images \cup {FreedImage}))]
      <3>1. zero \in SUBSET Treqs
        BY <2>2, <2>3
      <3> QED BY <2>1, <3>1, StoreType
    <2>22. error' \in [Reqs -> Errors] /\ io[r] # {}
      BY <1>1, <2>1 DEF IInv, TypeOK
    <2> HIDE DEF N, d
    <2> QED BY <1>1, <1>2, <2>12, <2>13, <2>14, <2>16, <2>17, <2>18, <2>19, <2>20, <2>21, <2>22,
            PiecesIInv
  <1> QED BY <1>3, <1>4

-----------------------------------------------------------------------------
(* Every step keeps the invariant: one case per action.                     *)
LEMMA NextIInv == ASSUME IInv, [Next]_vars PROVE IInv'
  <1>1. ASSUME NEW r \in Reqs, NEW o \in Ops, queue_request(r, o) PROVE IInv'
    BY <1>1, QueueRequestIInv
  <1>2. ASSUME NEW r \in Reqs, Driver(r) PROVE IInv'
    <2>1. PICK img \in Images \cup {FreedImage} : \E U \in SUBSET {u \in io[r] : u.img = img} :
            \/ \E res \in Results : complete_td_request(r, U, img, res)
            \/ forward_request(r, U, img)
      BY <1>2 DEF Driver
    <2>2. PICK U \in SUBSET {u \in io[r] : u.img = img} :
            \/ \E res \in Results : complete_td_request(r, U, img, res)
            \/ forward_request(r, U, img)
      BY <2>1
    <2>3. U \in SUBSET io[r]
      OBVIOUS
    <2> QED BY <2>2, <2>3, CompleteTdIInv, ForwardIInv
  <1>3. ASSUME NEW r \in Reqs, expire(r) PROVE IInv'
    BY <1>3, ExpireIInv
  <1>4. CASE check_queue_state
    BY <1>4, CheckQueueIInv
  <1>5. CASE recheck_state
    BY <1>5, RecheckIInv
  <1>6. CASE Loop
    <2>1. ASSUME NEW r \in todo, reissue_failed_request(r) PROVE IInv'
      BY <2>1, IssueIInv DEF reissue_failed_request
    <2>2. ASSUME NEW r \in todo, issue_new_request(r) PROVE IInv'
      BY <2>2, IssueIInv DEF issue_new_request
    <2> QED BY <1>6, <2>1, <2>2, LoopEndIInv, QueueIovIInv, IssueEndIInv, TailIInv,
               CompleteFailedIInv, SkipFailedIInv DEF Loop
  <1>7. CASE kick
    BY <1>7, KickIInv
  <1>8. CASE pause
    BY <1>8, PauseIInv
  <1>9. CASE resume
    BY <1>9, ResumeIInv
  <1>10. ASSUME NEW fl \in OpenFlags, open_image(fl) PROVE IInv'
    BY <1>10, OpenIInv
  <1>11. CASE close_image
    BY <1>11, CloseIInv
  <1>12. CASE detach_vbd
    BY <1>12, DetachIInv
  <1>13. CASE sigint
    BY <1>13, SigintIInv
  <1>14. CASE kill_queue
    BY <1>14, KillIInv
  <1>15. CASE UNCHANGED vars
    <2>1. TypeOK'
      BY <1>15 DEF vars, chain, reqs, ctl, IInv, TypeOK
    <2>2. /\ UNCHANGED <<where, secs_pending, io, cur, seg, tgt, loop, todo, pc>>
          /\ UNCHANGED <<state, secmode, secondary, ignore>>
      BY <1>15 DEF vars, chain, reqs, ctl
    <2>3. HasSecondary' /\ QuiescedIsQuiet'
      BY <2>2 DEF IInv, HasSecondary, QuiescedIsQuiet, Has, On
    <2> QED BY <2>1, <2>2, <2>3, RequestsKept DEF IInv
  <1> QED BY <1>1, <1>2, <1>3, <1>4, <1>5, <1>6, <1>7, <1>8, <1>9, <1>10, <1>11, <1>12, <1>13,
            <1>14, <1>15 DEF Next

(* The invariant holds in every reachable state.                            *)
THEOREM Invariance == Spec => []IInv
  <1>1. Init => IInv
    BY InitIInv
  <1>2. IInv /\ [Next]_vars => IInv'
    BY NextIInv
  <1> QED BY <1>1, <1>2, PTL DEF Spec

(* The vbd's fields keep their types through every control message, signal, *)
(* completion and retry.                                                    *)
THEOREM TypeCorrect == Spec => []TypeOK
  <1>1. IInv => TypeOK
    BY DEF IInv
  <1> QED BY <1>1, Invariance, PTL

(* secs_pending counts exactly the sectors the drivers hold, whatever way   *)
(* complete_td_request and forward_request split a request, for every       *)
(* number of requests, iovs and sectors.                                    *)
THEOREM PendingCounterCorrect == Spec => []SecsPendingExact
  <1>1. IInv => SecsPendingExact
    BY DEF IInv, Counted, SecsPendingExact
  <1> QED BY <1>1, Invariance, PTL

(* A request is retried or answered, and its buffer handed back, only when  *)
(* no driver holds any of it.                                               *)
THEOREM BuffersSafe == Spec => []BufferSafe
  <1>1. IInv => BufferSafe
    BY DEF IInv
  <1> QED BY <1>1, Invariance, PTL

(* No request is left on the pending list with nobody to move it off.       *)
THEOREM NeverStuck == Spec => []NoneStuck
  <1>1. IInv => NoneStuck
    BY DEF IInv
  <1> QED BY <1>1, Invariance, PTL

(* A quiesced queue, hence that of a paused vbd, has no pending request.    *)
THEOREM QuiesceIsQuiet == Spec => []QuiescedIsQuiet
  <1>1. IInv => QuiescedIsQuiet
    BY DEF IInv
  <1> QED BY <1>1, Invariance, PTL
-----------------------------------------------------------------------------
(* The image chain: the drivers only hold sectors of open images, a         *)
(* read-only vbd issues no write, and an answer of success means every      *)
(* sector was transferred.                                                  *)
(*                                                                          *)
(* A vbd is opened the same way each time: without a secondary, with a      *)
(* mirror, or with a standby image.  One with a secondary must moreover     *)
(* have an orderly toolstack and a RESUME that does not fail, for a failed  *)
(* one forgets the flags it was opened with.                                *)

Plain     == \A fl \in OpenFlags : "SECONDARY" \notin fl
Mirroring == ~Plain /\ \A fl \in OpenFlags : "SECONDARY" \in fl /\ "STANDBY" \notin fl
Standing  == ~Plain /\ \A fl \in OpenFlags : "SECONDARY" \in fl /\ "STANDBY" \in fl
Steady    == Plain \/ (Orderly /\ ~ReopenMayFail /\ (Mirroring \/ Standing))

-----------------------------------------------------------------------------
(* The inductive invariant of the chain.  A vbd's chain is closed, as it was *)
(* opened, or failed over to the secondary; its flags are those of its kind; *)
(* the request being issued has an open image as its target; and closing a   *)
(* chain, under an orderly toolstack, leaves no driver with a sector of it.  *)

Chain(im, mode, sec, old, ign) ==
    images = im /\ secmode = mode /\ secondary = sec /\ retired = old /\ ignore = ign

ClosedChain ==
    /\ images = <<>> /\ retired = NoImage /\ ignore = {}
    /\ Plain => secmode = "DISABLED" /\ secondary = NoImage

OpenedChain ==
    \/ Plain     /\ Chain(<<"leaf", "base">>, "DISABLED", NoImage, NoImage, {})
    \/ Mirroring /\ Chain(<<"leaf", "second", "base">>, "MIRROR", "second", NoImage, {"leaf"})
    \/ Standing  /\ Chain(<<"leaf", "base">>, "STANDBY", "second", NoImage, {"leaf"})

FailedOver ==
    \/ Mirroring /\ Chain(<<"second", "base">>, "DISABLED", NoImage, "leaf", {"leaf"})
    \/ Standing  /\ Chain(<<"second", "leaf", "base">>, "DISABLED", NoImage, NoImage, {"leaf"})

ChainShape == ClosedChain \/ OpenedChain \/ FailedOver

FlagsKept ==
    /\ Plain => "SECONDARY" \notin oflags
    /\ named /\ Mirroring => "SECONDARY" \in oflags /\ "STANDBY" \notin oflags
    /\ named /\ Standing => "SECONDARY" \in oflags /\ "STANDBY" \in oflags

OnOpenImage ==
    /\ pc = "seg" => /\ images # <<>>
                     /\ tgt \in {"leaf", "second"} \cap (InChain \cup {retired})
                     /\ seg = 0 => tgt = Head(images)
    /\ pc \in {"loop", "seg", "tail"} => alive

ClosedQuiet ==
    Orderly => /\ ~named => images = <<>>
               /\ Has("PAUSED") => images = <<>>
               /\ images = <<>> => \A r \in Reqs : io[r] = {}

WritesRefused ==
    Orderly /\ ~ReopenMayFail => /\ named => oflags = asked
                                 /\ ReadOnly
                                 /\ pc = "seg" /\ "RDONLY" \in asked => op[cur] # "write"

CInv ==
    /\ ChainShape
    /\ FlagsKept
    /\ OnOpenImage
    /\ ClosedQuiet
    /\ Orderly => ImagesOpen
    /\ WritesRefused

LEMMA InitCInv == Init => CInv
  <1> SUFFICES ASSUME Init PROVE CInv
    OBVIOUS
  <1>1. ChainShape /\ FlagsKept
    BY DEF Init, ChainShape, ClosedChain, FlagsKept
  <1>2. OnOpenImage /\ ClosedQuiet
    BY DEF Init, OnOpenImage, ClosedQuiet, Has
  <1>3. ImagesOpen /\ WritesRefused
    BY DEF Init, ImagesOpen, WritesRefused, ReadOnly
  <1> QED BY <1>1, <1>2, <1>3 DEF CInv

(* A vbd is of one kind only.                                               *)
LEMMA Kinds ==
    /\ Plain => ~Mirroring /\ ~Standing
    /\ Mirroring => ~Standing
  BY DEF Plain, Mirroring, Standing

(* the images a driver may hold sectors of, in an open chain                *)
LEMMA Members ==
    ASSUME OpenedChain \/ FailedOver
    PROVE  /\ images # <<>>
           /\ Head(images) \in {"leaf", "second"} /\ Head(images) \in InChain
           /\ InChain \cup {retired, secondary} \subseteq Images \cup {NoImage}
           /\ Plain => Head(images) = "leaf" /\ "second" \notin InChain /\ retired = NoImage
           /\ Mirroring => "second" \in InChain
  <1>1. CASE images = <<"leaf", "base">>
    <2>1. InChain = {"leaf", "base"} /\ Len(images) = 2
      BY <1>1 DEF InChain
    <2>2. Head(images) = "leaf" /\ images # <<>>
      BY <1>1
    <2>3. /\ images # <<"leaf", "second", "base">> /\ images # <<"second", "base">>
          /\ images # <<"second", "leaf", "base">>
      BY <1>1
    <2>4. ~Mirroring /\ retired = NoImage /\ secondary \in {NoImage, "second"}
      BY <2>3, Kinds DEF OpenedChain, FailedOver, Chain
    <2> QED BY <2>1, <2>2, <2>4 DEF Images
  <1>2. CASE images = <<"leaf", "second", "base">>
    <2>1. InChain = {"leaf", "second", "base"}
      BY <1>2 DEF InChain
    <2>2. Head(images) = "leaf" /\ images # <<>>
      BY <1>2
    <2>3. Mirroring /\ retired = NoImage /\ secondary = "second"
      BY <1>2 DEF OpenedChain, FailedOver, Chain
    <2> QED BY <2>1, <2>2, <2>3 DEF Images, Mirroring
  <1>3. CASE images = <<"second", "base">>
    <2>1. InChain = {"second", "base"}
      BY <1>3 DEF InChain
    <2> QED BY <1>3, <2>1 DEF OpenedChain, FailedOver, Chain, Images, NoImage, Mirroring, Standing
  <1>4. CASE images = <<"second", "leaf", "base">>
    <2>1. InChain = {"second", "leaf", "base"}
      BY <1>4 DEF InChain
    <2> QED BY <1>4, <2>1 DEF OpenedChain, FailedOver, Chain, Images, NoImage, Mirroring, Standing
  <1> QED BY <1>1, <1>2, <1>3, <1>4 DEF OpenedChain, FailedOver, Chain

-----------------------------------------------------------------------------
(* Steps that leave the chain and what the drivers hold alone.              *)

LEMMA ChainKept ==
    ASSUME CInv, UNCHANGED <<chain, io, alive>>, "PAUSED" \in state' => "PAUSED" \in state,
           pc' = "seg" => pc = "seg" /\ UNCHANGED <<cur, seg, tgt>> /\ op'[cur] = op[cur],
           pc' \in {"loop", "tail"} => alive,
           \A r \in Reqs : io[r] # {} => op'[r] = op[r]
    PROVE  CInv'
  <1>1. UNCHANGED <<named, oflags, asked, images, secmode, secondary, retired, ignore>>
    BY DEF chain
  <1>2. ChainShape' /\ FlagsKept'
    BY <1>1 DEF CInv, ChainShape, ClosedChain, OpenedChain, FailedOver, Chain, FlagsKept
  <1>3. InChain' = InChain
    BY <1>1 DEF InChain
  <1>4. OnOpenImage'
    BY <1>1, <1>3 DEF CInv, OnOpenImage
  <1>5. ClosedQuiet'
    BY <1>1 DEF CInv, ClosedQuiet, Has
  <1>6. Orderly => ImagesOpen'
    BY <1>1, <1>3 DEF CInv, ImagesOpen
  <1>7. WritesRefused'
    BY <1>1 DEF CInv, WritesRefused, ReadOnly
  <1> QED BY <1>2, <1>4, <1>5, <1>6, <1>7 DEF CInv

LEMMA QueueRequestCInv ==
    ASSUME IInv, CInv, NEW r \in Reqs, NEW o \in Ops, queue_request(r, o) PROVE CInv'
  <1>1. io[r] = {}
    BY IdleRequest DEF queue_request
  <1>2. \A x \in Reqs : io[x] # {} => op'[x] = op[x]
    BY <1>1 DEF queue_request, IInv, TypeOK
  <1>3. pc' = pc /\ pc = "idle" /\ UNCHANGED <<chain, io, alive, state>>
    BY DEF queue_request, ctl
  <1> QED BY <1>2, <1>3, ChainKept

LEMMA KickCInv == ASSUME IInv, CInv, kick PROVE CInv'
  <1>1. \A x \in Reqs : io[x] # {} => op'[x] = op[x]
    <2>1. \A x \in Reqs : io[x] # {} => x \notin On("completed")
      BY DEF IInv, BufferSafe, On
    <2> QED BY <2>1 DEF kick, IInv, TypeOK
  <1>2. pc' = pc /\ pc = "idle" /\ UNCHANGED <<chain, io, alive, state>>
    BY DEF kick, ctl
  <1> QED BY <1>1, <1>2, ChainKept

LEMMA ExpireCInv == ASSUME IInv, CInv, NEW r \in Reqs, expire(r) PROVE CInv'
  <1>1. UNCHANGED <<chain, io, alive, state, op, pc, cur, seg, tgt>>
    BY DEF expire, ctl
  <1>2. pc \in {"loop", "tail"} => alive
    BY DEF CInv, OnOpenImage
  <1> QED BY <1>1, <1>2, ChainKept

LEMMA KillCInv == ASSUME IInv, CInv, kill_queue PROVE CInv'
  <1>1. UNCHANGED <<chain, io, alive, op, pc, cur, seg, tgt>>
    BY DEF kill_queue, ctl, reqs
  <1>2. pc \in {"loop", "tail"} => alive
    BY DEF CInv, OnOpenImage
  <1>3. "PAUSED" \in state' => "PAUSED" \in state
    BY DEF kill_queue, quiesce_queue
  <1> QED BY <1>1, <1>2, <1>3, ChainKept

LEMMA CheckQueueCInv == ASSUME IInv, CInv, check_queue_state PROVE CInv'
  <1>1. UNCHANGED <<chain, io, alive, op, state>> /\ alive
    BY DEF check_queue_state
  <1>2. pc' \in {"loop", "tail"}
    BY DEF check_queue_state
  <1> QED BY <1>1, <1>2, ChainKept

LEMMA RecheckCInv == ASSUME IInv, CInv, recheck_state PROVE CInv'
  <1>1. UNCHANGED <<chain, io, alive, op, state>> /\ alive /\ pc' = "loop"
    BY DEF recheck_state, reqs
  <1> QED BY <1>1, ChainKept

LEMMA LoopEndCInv == ASSUME IInv, CInv, loop_end PROVE CInv'
  <1>1. UNCHANGED <<chain, io, alive, op, state>>
    BY DEF loop_end, reqs
  <1>2. alive /\ pc' \in {"loop", "idle", "tail"}
    BY DEF loop_end, CInv, OnOpenImage, IInv, TypeOK
  <1> QED BY <1>1, <1>2, ChainKept

(* a failed request is completed or passed over                             *)
LEMMA FailedCInv ==
    ASSUME IInv, CInv, NEW r \in todo, complete_failed_request(r) \/ skip_failed_request(r)
    PROVE  CInv'
  <1>1. UNCHANGED <<chain, io, alive, op, state, pc>> /\ pc = "loop"
    BY DEF complete_failed_request, skip_failed_request, reqs
  <1>2. alive
    BY <1>1 DEF CInv, OnOpenImage
  <1> QED BY <1>1, <1>2, ChainKept

LEMMA IssueEndCInv == ASSUME IInv, CInv, issue_end PROVE CInv'
  <1>1. UNCHANGED <<chain, io, alive, op, state>> /\ pc = "seg" /\ pc' = "loop"
    BY DEF issue_end
  <1>2. alive
    BY <1>1 DEF CInv, OnOpenImage
  <1> QED BY <1>1, <1>2, ChainKept

LEMMA IssueCInv ==
    ASSUME IInv, CInv, NEW r \in todo, pc = "loop", issue_request(r) PROVE CInv'
  <1>1. UNCHANGED <<chain, io, alive, op, state>> /\ alive
    BY DEF issue_request, CInv, OnOpenImage
  <1>2. CASE issue_refused(r)
    <2>1. pc' = pc
      BY <1>2 DEF issue_refused
    <2> QED BY <1>1, <2>1, ChainKept
  <1>3. CASE issue_begin(r)
    <2>1. UNCHANGED <<named, oflags, asked, images, secmode, secondary, retired, ignore>>
      BY <1>1 DEF chain
    <2>2. ChainShape' /\ FlagsKept'
      BY <2>1 DEF CInv, ChainShape, ClosedChain, OpenedChain, FailedOver, Chain, FlagsKept
    <2>3. InChain' = InChain
      BY <2>1 DEF InChain
    <2>4. /\ pc' = "seg" /\ cur' = r /\ tgt' = Head(images)
          /\ check_request(r) = "none"
      BY <1>3 DEF issue_begin
    <2>5. images # <<>> /\ (op[r] = "write" => "RDONLY" \notin oflags)
      BY <2>4 DEF check_request, check_queue
    <2>6. OpenedChain \/ FailedOver
      BY <2>5 DEF CInv, ChainShape, ClosedChain
    <2>7. OnOpenImage'
      BY <1>1, <2>1, <2>3, <2>4, <2>5, <2>6, Members DEF OnOpenImage
    <2>8. ClosedQuiet'
      BY <1>1, <2>1 DEF CInv, ClosedQuiet, Has
    <2>9. Orderly => ImagesOpen'
      BY <1>1, <2>1, <2>3 DEF CInv, ImagesOpen
    <2>10. WritesRefused'
      <3>1. Orderly => named
        BY <2>5 DEF CInv, ClosedQuiet
      <3> QED BY <1>1, <2>1, <2>4, <2>5, <3>1 DEF CInv, WritesRefused, ReadOnly
    <2> QED BY <2>2, <2>7, <2>8, <2>9, <2>10 DEF CInv
  <1> QED BY <1>2, <1>3 DEF issue_request

LEMMA QueueIovCInv == ASSUME IInv, CInv, queue_iov PROVE CInv'
  <1>1. /\ pc = "seg" /\ seg' = seg + 1 /\ seg \in Nat /\ cur \in Reqs
        /\ UNCHANGED <<alive, state, op, pc, cur, tgt>>
        /\ UNCHANGED <<named, oflags, asked, images, secmode, secondary, retired, ignore>>
    BY DEF queue_iov, chain, IInv, TypeOK, Issuing
  <1>2. alive /\ images # <<>> /\ tgt \in InChain \cup {retired} /\ tgt \in {"leaf", "second"}
    BY <1>1 DEF CInv, OnOpenImage
  <1>3. InChain' = InChain
    BY <1>1 DEF InChain
  <1>4. ChainShape' /\ FlagsKept'
    BY <1>1 DEF CInv, ChainShape, ClosedChain, OpenedChain, FailedOver, Chain, FlagsKept
  <1>5. OnOpenImage'
    <2>1. seg' # 0
      BY <1>1
    <2> QED BY <1>1, <1>3, <2>1 DEF CInv, OnOpenImage
  <1>6. ClosedQuiet'
    BY <1>1, <1>2 DEF CInv, ClosedQuiet, Has
  <1>7. \A r \in Reqs : r # cur => io'[r] = io[r]
    BY DEF queue_iov, IInv, TypeOK
  <1>8. \A u \in io'[cur] : \/ u \in io[cur] \/ u.img = tgt
                            \/ secmode = "MIRROR" /\ u.img = secondary
    <2> DEFINE mirrored == secmode = "MIRROR" /\ op[cur] = "write"
               main   == [role : {"main"}, sec : Iov(seg), img : {tgt}]
               mirror == [role : {"mirror"}, sec : Iov(seg), img : {secondary}]
    <2>1. io'[cur] = io[cur] \cup main \cup (IF mirrored THEN mirror ELSE {})
      BY <1>1 DEF queue_iov, IInv, TypeOK
    <2>2. (\A u \in main : u.img = tgt) /\ \A u \in mirror : u.img = secondary
      OBVIOUS
    <2> HIDE DEF main, mirror
    <2> QED BY <2>1, <2>2
  <1>9. Orderly => ImagesOpen'
    <2>1. secmode = "MIRROR" => secondary = "second"
      BY <1>2 DEF CInv, ChainShape, ClosedChain, OpenedChain, FailedOver, Chain
    <2>2. tgt # FreedImage /\ "second" # FreedImage
      BY <1>2 DEF FreedImage
    <2>3. Orderly => \A u \in io'[cur] : u.img \in InChain \cup ({retired, secondary} \ {FreedImage})
      BY <1>1, <1>2, <1>8, <2>1, <2>2 DEF CInv, ImagesOpen
    <2> QED BY <1>1, <1>2, <1>3, <1>7, <2>3 DEF CInv, ImagesOpen
  <1>10. WritesRefused'
    <2>1. Orderly /\ ~ReopenMayFail /\ "RDONLY" \in asked => op[cur] # "write"
      BY <1>1 DEF CInv, WritesRefused
    <2> QED BY <1>1, <1>7, <2>1 DEF CInv, WritesRefused, ReadOnly
  <1> QED BY <1>4, <1>5, <1>6, <1>9, <1>10 DEF CInv

-----------------------------------------------------------------------------
(* Control messages and signals.  Closing a chain, under an orderly          *)
(* toolstack, happens when no driver holds anything.                        *)

LEMMA QuietClose ==
    ASSUME IInv, CInv, close_vdi, UNCHANGED secmode
    PROVE  ClosedChain'
  BY Kinds DEF CInv, ChainShape, ClosedChain, OpenedChain, FailedOver, Chain, close_vdi, NoImage

(* with no request pending the drivers hold nothing                         *)
LEMMA NothingPending ==
    ASSUME IInv, On("pending") = {}
    PROVE  \A r \in Reqs : io[r] = {}
  BY DEF IInv, BufferSafe, On

(* the chain is closed, the drivers hold nothing and the vbd is idle        *)
LEMMA ClosedCInv ==
    ASSUME CInv, ClosedChain', UNCHANGED <<oflags, asked, io, op>>,
           Orderly => \A r \in Reqs : io[r] = {},
           named' => named, pc' \notin {"loop", "seg", "tail"}
    PROVE  CInv'
  <1>1. ChainShape' /\ images' = <<>>
    BY DEF ChainShape, ClosedChain
  <1>2. FlagsKept'
    BY DEF CInv, FlagsKept
  <1>3. OnOpenImage'
    BY DEF OnOpenImage
  <1>4. ClosedQuiet' /\ (Orderly => ImagesOpen')
    BY <1>1 DEF ClosedQuiet, ImagesOpen, Has
  <1>5. WritesRefused'
    BY DEF CInv, WritesRefused, ReadOnly
  <1> QED BY <1>1, <1>2, <1>3, <1>4, <1>5 DEF CInv

LEMMA PausedKept ==
    ASSUME NEW st, ~pause_completes, "PAUSED" \in paused(st)
    PROVE  "PAUSED" \in st
  BY DEF paused, quiesce_queue

LEMMA PauseCInv == ASSUME IInv, CInv, pause PROVE CInv'
  <1>1. /\ UNCHANGED <<alive, named, oflags, asked, secmode, io, op>>
        /\ UNCHANGED <<pc, cur, seg, tgt>> /\ pc = "idle"
    BY DEF pause, reqs, ctl
  <1>2. CASE pause_completes
    <2>1. \A r \in Reqs : io[r] = {}
      BY <1>2, NothingPending DEF pause_completes
    <2>2. ClosedChain'
      BY <1>2, QuietClose DEF pause
    <2> QED BY <1>1, <2>1, <2>2, ClosedCInv
  <1>3. CASE ~pause_completes
    <2>1. UNCHANGED chain
      BY <1>3 DEF pause, chain
    <2>2. "PAUSED" \in state' => "PAUSED" \in state
      BY <1>3, PausedKept DEF pause
    <2> QED BY <1>1, <2>1, <2>2, ChainKept
  <1> QED BY <1>2, <1>3

LEMMA TailCInv == ASSUME IInv, CInv, check_state_tail PROVE CInv'
  <1> DEFINE q == IF Has("QUIESCE_REQUESTED") THEN quiesce_queue(state) ELSE state
             p == IF Has("PAUSE_REQUESTED") THEN paused(q) ELSE q
             shut == Has("SHUTDOWN_REQUESTED") /\ MayShutdown(p)
             closes == shut \/ (Has("PAUSE_REQUESTED") /\ pause_completes)
  <1>1. /\ alive' = ~shut
        /\ state' = IF shut THEN p \cup {"CLOSED"} ELSE p
        /\ IF closes THEN close_vdi ELSE UNCHANGED <<images, retired, secondary, ignore>>
    BY DEF check_state_tail
  <1>2. /\ UNCHANGED <<named, oflags, asked, secmode, io, op, cur, seg, tgt>>
        /\ pc = "tail" /\ pc' = "idle"
    BY DEF check_state_tail, reqs
  <1>3. CASE closes
    <2>1. On("pending") = {}
      BY <1>3 DEF MayShutdown, pause_completes
    <2>2. ClosedChain'
      BY <1>1, <1>2, <1>3, QuietClose
    <2> HIDE DEF closes, shut, p, q
    <2> QED BY <1>2, <2>1, <2>2, NothingPending, ClosedCInv
  <1>4. CASE ~closes
    <2>1. UNCHANGED chain
      BY <1>1, <1>2, <1>4 DEF chain
    <2>2. "PAUSED" \in q => "PAUSED" \in state
      BY DEF quiesce_queue
    <2>3. "PAUSED" \in p => "PAUSED" \in q
      <3> HIDE DEF q
      <3> QED BY <1>4, PausedKept
    <2>4. state' = p /\ alive' = TRUE
      BY <1>1, <1>4
    <2> HIDE DEF closes, shut, p, q
    <2>5. alive
      BY <1>2 DEF CInv, OnOpenImage
    <2> QED BY <1>2, <2>1, <2>2, <2>3, <2>4, <2>5, ChainKept
  <1> QED BY <1>3, <1>4

LEMMA CloseCInv == ASSUME IInv, CInv, close_image PROVE CInv'
  <1>1. /\ UNCHANGED <<oflags, asked, secmode, io, op, pc>> /\ ~named'
        /\ pc = "idle" /\ close_vdi
    BY DEF close_image, reqs, ctl
  <1>2. ClosedChain'
    BY <1>1, QuietClose
  <1>3. Orderly => \A r \in Reqs : io[r] = {}
    BY DEF close_image, MaySendClose, IInv, BufferSafe
  <1> QED BY <1>1, <1>2, <1>3, ClosedCInv

LEMMA DetachCInv == ASSUME IInv, CInv, detach_vbd PROVE CInv'
  <1>1. /\ UNCHANGED <<io, op, pc, cur, seg, tgt, state>> /\ pc = "idle" /\ ~named
        /\ UNCHANGED <<named, oflags, asked, images, secmode, secondary, retired, ignore>>
    BY DEF detach_vbd, reqs, ctl, chain
  <1>2. ChainShape' /\ FlagsKept'
    BY <1>1 DEF CInv, ChainShape, ClosedChain, OpenedChain, FailedOver, Chain, FlagsKept
  <1>3. OnOpenImage' /\ ClosedQuiet'
    BY <1>1 DEF CInv, OnOpenImage, ClosedQuiet, Has
  <1>4. Orderly => \A r \in Reqs : io[r] = {}
    BY DEF detach_vbd, MaySendClose, IInv, BufferSafe
  <1>5. (Orderly => ImagesOpen') /\ WritesRefused'
    BY <1>1, <1>4 DEF CInv, ImagesOpen, WritesRefused, ReadOnly
  <1> QED BY <1>2, <1>3, <1>5 DEF CInv

LEMMA SigintCInv == ASSUME IInv, CInv, sigint PROVE CInv'
  <1>1. /\ UNCHANGED <<named, oflags, asked, secmode, io, op, pc, cur, seg, tgt>> /\ pc = "idle"
    BY DEF sigint, reqs, ctl
  <1>2. CASE MayShutdown(state)
    <2>1. \A r \in Reqs : io[r] = {}
      BY <1>2, NothingPending DEF MayShutdown
    <2>2. ClosedChain'
      BY <1>1, <1>2, QuietClose DEF sigint
    <2> QED BY <1>1, <2>1, <2>2, ClosedCInv
  <1>3. CASE ~MayShutdown(state)
    <2>1. UNCHANGED <<chain, alive>> /\ state' = state \cup {"SHUTDOWN_REQUESTED"}
      BY <1>1, <1>3 DEF sigint, chain
    <2> QED BY <1>1, <2>1, ChainKept
  <1> QED BY <1>2, <1>3

(* a chain that was closed, or one without a secondary, is opened           *)
LEMMA OpenChain ==
    ASSUME CInv, NEW fl, open_vdi(fl), Plain => "SECONDARY" \notin fl,
           ~Plain => images = <<>> /\ Steady,
           Mirroring => "SECONDARY" \in fl /\ "STANDBY" \notin fl,
           Standing => "SECONDARY" \in fl /\ "STANDBY" \in fl
    PROVE  OpenedChain' /\ ChainShape' /\ FlagsKept' /\ images' # <<>>
  <1>1. retired' = retired /\ oflags' = fl
    BY DEF open_vdi
  <1>2. CASE Plain
    <2>1. /\ images' = <<"leaf", "base">> /\ ignore' = {}
          /\ UNCHANGED <<secondary, secmode>>
      BY <1>2 DEF open_vdi
    <2>2. secmode = "DISABLED" /\ secondary = NoImage /\ retired = NoImage
      BY <1>2, Kinds DEF CInv, ChainShape, ClosedChain, OpenedChain, FailedOver, Chain
    <2>3. images' # <<>>
      BY <2>1
    <2>4. OpenedChain'
      BY <1>1, <1>2, <2>1, <2>2 DEF OpenedChain, Chain
    <2>5. FlagsKept'
      BY <1>1, <1>2, Kinds DEF FlagsKept
    <2> QED BY <2>3, <2>4, <2>5 DEF ChainShape
  <1>3. CASE Mirroring
    <2>1. ~Plain /\ ~Standing
      BY <1>3, Kinds
    <2>2. retired = NoImage
      BY <2>1 DEF CInv, ChainShape, ClosedChain, OpenedChain, FailedOver, Chain
    <2>3. /\ images' = <<"leaf", "second", "base">> /\ ignore' = {"leaf"}
          /\ secondary' = "second" /\ secmode' = "MIRROR"
      BY <1>3 DEF open_vdi, add_secondary
    <2>4. OpenedChain' /\ images' # <<>>
      BY <1>1, <1>3, <2>2, <2>3 DEF OpenedChain, Chain
    <2>5. FlagsKept'
      BY <1>1, <1>3, <2>1 DEF FlagsKept
    <2> QED BY <2>4, <2>5 DEF ChainShape
  <1>4. CASE Standing
    <2>1. ~Plain /\ ~Mirroring
      BY <1>4, Kinds
    <2>2. retired = NoImage
      BY <2>1 DEF CInv, ChainShape, ClosedChain, OpenedChain, FailedOver, Chain
    <2>3. /\ images' = <<"leaf", "base">> /\ ignore' = {"leaf"}
          /\ secondary' = "second" /\ secmode' = "STANDBY"
      BY <1>4 DEF open_vdi, add_secondary
    <2>4. OpenedChain' /\ images' # <<>>
      BY <1>1, <1>4, <2>2, <2>3 DEF OpenedChain, Chain
    <2>5. FlagsKept'
      BY <1>1, <1>4, <2>1 DEF FlagsKept
    <2> QED BY <2>4, <2>5 DEF ChainShape
  <1> QED BY <1>2, <1>3, <1>4 DEF Steady

(* an open that fails leaves the chain closed                               *)
LEMMA FailedOpenChain ==
    ASSUME CInv, NEW b \in BOOLEAN, open_vdi_fails(b), ~Plain => images = <<>> /\ ~named
    PROVE  ClosedChain' /\ FlagsKept' /\ ("PAUSED" \in state' => "PAUSED" \in state)
  <1>1. ClosedChain'
    BY Kinds DEF CInv, ChainShape, ClosedChain, OpenedChain, FailedOver, Chain, open_vdi_fails
  <1>2. FlagsKept'
    BY Kinds DEF CInv, FlagsKept, open_vdi_fails
  <1> QED BY <1>1, <1>2 DEF open_vdi_fails

LEMMA OpenCInv == ASSUME Steady, IInv, CInv, NEW fl \in OpenFlags, open_image(fl) PROVE CInv'
  <1>1. UNCHANGED <<alive, io, op, pc, cur, seg, tgt>> /\ pc = "idle" /\ ~named
    BY DEF open_image, reqs, ctl
  <1>2. Orderly => images = <<>> /\ ~Has("PAUSED") /\ \A r \in Reqs : io[r] = {}
    BY <1>1 DEF open_image, MaySendOpen, CInv, ClosedQuiet
  <1>3. OnOpenImage'
    BY <1>1 DEF OnOpenImage
  <1>4. ~Plain => Orderly
    BY DEF Steady
  <1>5. Orderly => ImagesOpen' /\ ReadOnly'
    BY <1>1, <1>2 DEF ImagesOpen, ReadOnly
  <1>6. CASE open_vdi(fl) /\ asked' = fl /\ state' = state \ {"CLOSED"}
    <2>1. ChainShape' /\ FlagsKept' /\ images' # <<>>
      BY <1>2, <1>4, <1>6, OpenChain DEF Plain, Mirroring, Standing
    <2>2. named' /\ oflags' = asked'
      BY <1>6 DEF open_vdi
    <2>3. ClosedQuiet'
      BY <1>2, <1>6, <2>1, <2>2 DEF ClosedQuiet, Has
    <2>4. WritesRefused'
      BY <1>1, <1>5, <2>2 DEF WritesRefused
    <2> QED BY <1>3, <1>5, <2>1, <2>3, <2>4 DEF CInv
  <1>7. CASE \E b \in BOOLEAN : open_vdi_fails(b)
    <2>1. PICK b \in BOOLEAN : open_vdi_fails(b)
      BY <1>7
    <2>2. ClosedChain' /\ FlagsKept'
      BY <1>1, <1>2, <1>4, <2>1, FailedOpenChain
    <2>3. ~named'
      BY <1>1, <2>1 DEF open_vdi_fails
    <2>4. ClosedQuiet'
      BY <1>1, <1>2, <2>2 DEF ClosedQuiet, ClosedChain
    <2>5. WritesRefused'
      BY <1>1, <1>5, <2>3 DEF WritesRefused
    <2> QED BY <1>3, <1>5, <2>2, <2>4, <2>5 DEF CInv, ChainShape
  <1> QED BY <1>6, <1>7 DEF open_image

LEMMA ResumeCInv == ASSUME Steady, IInv, CInv, resume PROVE CInv'
  <1>1. /\ UNCHANGED <<alive, io, op, cur, seg, tgt>> /\ pc' \in {"idle", "check"}
        /\ Has("PAUSED") /\ (Orderly => named)
    BY DEF resume, reqs, MaySendPause
  <1>2. Orderly => images = <<>> /\ \A r \in Reqs : io[r] = {}
    BY <1>1 DEF CInv, ClosedQuiet
  <1>3. OnOpenImage'
    BY <1>1 DEF OnOpenImage
  <1>4. ~Plain => Orderly /\ ~ReopenMayFail
    BY DEF Steady
  <1>5. Orderly => ImagesOpen' /\ ReadOnly'
    BY <1>1, <1>2 DEF ImagesOpen, ReadOnly
  <1>6. ASSUME NEW fl, open_vdi(fl), Plain => "SECONDARY" \notin fl,
               Orderly /\ ~ReopenMayFail => fl = oflags,
               state' = state \ {"CLOSED", "QUIESCED", "QUIESCE_REQUESTED",
                                 "PAUSED", "PAUSE_REQUESTED"},
               UNCHANGED asked
        PROVE  CInv'
    <2>1. ~Plain => fl = oflags /\ images = <<>> /\ named
      BY <1>1, <1>2, <1>4, <1>6
    <2>2. /\ Mirroring => "SECONDARY" \in fl /\ "STANDBY" \notin fl
          /\ Standing => "SECONDARY" \in fl /\ "STANDBY" \in fl
      BY <2>1, Kinds DEF CInv, FlagsKept
    <2>3. ChainShape' /\ FlagsKept' /\ images' # <<>>
      BY <1>6, <2>1, <2>2, OpenChain
    <2>4. named' /\ oflags' = fl
      BY <1>6 DEF open_vdi
    <2>5. ClosedQuiet'
      BY <1>2, <1>6, <2>3, <2>4 DEF ClosedQuiet, Has
    <2>6. WritesRefused'
      <3>1. Orderly /\ ~ReopenMayFail => oflags = asked
        BY <1>1 DEF CInv, WritesRefused
      <3> QED BY <1>1, <1>5, <1>6, <2>4, <3>1 DEF WritesRefused
    <2> QED BY <1>3, <1>5, <2>3, <2>5, <2>6 DEF CInv
  <1>7. ASSUME NEW b \in BOOLEAN, open_vdi_fails(b), ReopenMayFail \/ ~named PROVE CInv'
    <2>1. Plain
      BY <1>1, <1>4, <1>7
    <2>2. ClosedChain' /\ FlagsKept' /\ ("PAUSED" \in state' => "PAUSED" \in state)
      BY <1>7, <2>1, FailedOpenChain
    <2>3. ClosedQuiet'
      BY <1>1, <1>2, <2>2 DEF ClosedQuiet, ClosedChain
    <2>4. WritesRefused'
      BY <1>1, <1>7 DEF WritesRefused
    <2> QED BY <1>3, <1>5, <2>2, <2>3, <2>4 DEF CInv, ChainShape
  <1>8. "SECONDARY" \notin {}
    OBVIOUS
  <1>9. Plain => "SECONDARY" \notin oflags
    BY DEF CInv, FlagsKept
  <1>10. CASE images = <<>> /\ open_vdi(oflags) /\ UNCHANGED asked
              /\ state' = state \ {"CLOSED", "QUIESCED", "QUIESCE_REQUESTED",
                                   "PAUSED", "PAUSE_REQUESTED"}
    BY <1>6, <1>9, <1>10
  <1>11. CASE (images # <<>> \/ ReopenMayFail) /\ open_vdi({}) /\ UNCHANGED asked
              /\ state' = state \ {"CLOSED", "QUIESCED", "QUIESCE_REQUESTED",
                                   "PAUSED", "PAUSE_REQUESTED"}
    <2>1. ~(Orderly /\ ~ReopenMayFail)
      BY <1>2, <1>11
    <2> QED BY <1>6, <1>8, <1>11, <2>1
  <1> QED BY <1>7, <1>10, <1>11 DEF resume

-----------------------------------------------------------------------------
(* The drivers' answers.                                                    *)

(* the pieces of r become fewer, or move along the chain                    *)
LEMMA PiecesCInv ==
    ASSUME IInv, CInv, NEW r \in Reqs, DriverRuns(r), io[r] # {},
           ChainShape', FlagsKept', images # <<>> => images' # <<>>,
           InChain \cup {retired, secondary} \subseteq InChain' \cup {retired', secondary', NoImage},
           InChain \cup {retired} \subseteq InChain' \cup {retired', NoImage},
           UNCHANGED <<alive, state, named, oflags, asked, op, ctl>>,
           \A x \in Reqs : x # r => io'[x] = io[x],
           op[r] # "read" => io'[r] \subseteq io[r],
           \A u \in io'[r] : u \in io[r] \/ u.img \in InChain
    PROVE  CInv'
  <1>1. UNCHANGED <<pc, cur, seg, tgt>> /\ alive
    BY DEF ctl, DriverRuns
  <1>2. images = <<>> => ~Orderly
    BY DEF CInv, ClosedQuiet
  <1>3. OnOpenImage'
    <2>1. CASE pc = "seg"
      <3>1. cur = r /\ seg # 0
        <4>1. cur = r
          BY <2>1 DEF DriverRuns
        <4>2. \A u \in io[r] : u.sec \in Nat /\ u.sec < seg * IovSecs
          BY <2>1, <4>1 DEF IInv, Issuing, TypeOK, Treqs, Sectors
        <4>3. PICK u \in io[r] : u.sec \in Nat /\ u.sec < seg * IovSecs
          BY <4>2
        <4>4. IovSecs \in Nat
          BY IovSecsAssumption
        <4>5. seg = 0 => seg * IovSecs = 0
          BY <4>4
        <4> QED BY <4>1, <4>3, <4>5
      <3>2. images # <<>> /\ tgt \in {"leaf", "second"} /\ tgt \in InChain \cup {retired}
        BY <2>1 DEF CInv, OnOpenImage
      <3>3. tgt \in InChain' \cup {retired'}
        BY <3>2 DEF NoImage
      <3> QED BY <1>1, <3>1, <3>2, <3>3 DEF OnOpenImage
    <2>2. CASE pc # "seg"
      BY <1>1, <2>2 DEF CInv, OnOpenImage
    <2> QED BY <2>1, <2>2
  <1>4. ClosedQuiet'
    <2>1. Orderly => images' # <<>> /\ images # <<>>
      BY <1>2
    <2> QED BY <2>1 DEF CInv, ClosedQuiet, Has
  <1>5. Orderly => ImagesOpen'
    <2>1. \A x \in Reqs : \A u \in io'[x] : u \in io[x] \/ u.img \in InChain
      OBVIOUS
    <2>2. InChain \subseteq Images
      BY DEF IInv, TypeOK, InChain
    <2>3. \A x \in Reqs : \A u \in io'[x] : u.img # NoImage
      <3>1. \A x \in Reqs : \A u \in io[x] : u.img \in Images \cup {FreedImage}
        BY DEF IInv, TypeOK, Treqs
      <3>2. NoImage \notin Images \cup {FreedImage}
        BY DEF Images, NoImage, FreedImage
      <3> QED BY <2>1, <2>2, <3>1, <3>2
    <2>4. Orderly => \A x \in Reqs : \A u \in io'[x] :
                        u.img \in InChain \cup ({retired, secondary} \ {FreedImage})
      BY <2>1 DEF CInv, ImagesOpen
    <2>5. ASSUME Orderly, NEW x \in Reqs, NEW u \in io'[x]
          PROVE  u.img \in InChain' \cup ({retired', secondary'} \ {FreedImage})
      <3>1. u.img \in InChain \cup {retired, secondary} /\ u.img # FreedImage
        BY <2>2, <2>4, <2>5 DEF Images, FreedImage
      <3> QED BY <2>3, <3>1
    <2> QED BY <1>1, <2>5 DEF ImagesOpen
  <1>6. WritesRefused'
    <2>1. \A x \in Reqs : io'[x] # {} => io[x] # {}
      OBVIOUS
    <2> QED BY <1>1, <2>1 DEF CInv, WritesRefused, ReadOnly
  <1> QED BY <1>3, <1>4, <1>5, <1>6 DEF CInv

(* the chain of a standby vbd that failed over                              *)
LEMMA StandbyChain == <<"second">> \o <<"leaf", "base">> = <<"second", "leaf", "base">>
  <1> DEFINE a == <<"second">>
             b == <<"leaf", "base">>
             c == a \o b
             d == <<"second", "leaf", "base">>
  <1>1. a \in Seq(Images) /\ b \in Seq(Images) /\ d \in Seq(Images)
    BY DEF Images
  <1>2. Len(a) = 1 /\ Len(b) = 2 /\ Len(d) = 3
    OBVIOUS
  <1>3. a[1] = "second" /\ b[1] = "leaf" /\ b[2] = "base"
    OBVIOUS
  <1>4. d[1] = "second" /\ d[2] = "leaf" /\ d[3] = "base"
    OBVIOUS
  <1> HIDE DEF a, b, d
  <1>5. /\ c \in Seq(Images) /\ Len(c) = Len(a) + Len(b)
        /\ \A i \in 1 .. Len(a) + Len(b) : c[i] = IF i <= Len(a) THEN a[i] ELSE b[i - Len(a)]
    BY <1>1, ConcatProperties
  <1> HIDE DEF c
  <1>6. Len(c) = 3 /\ c[1] = a[1] /\ c[2] = b[1] /\ c[3] = b[2]
    BY <1>2, <1>5
  <1>7. \A i \in 1 .. Len(c) : c[i] = d[i]
    <2>1. 1 .. Len(c) = {1, 2, 3}
      BY <1>6
    <2> QED BY <1>3, <1>4, <1>6, <2>1
  <1>8. c = d
    BY <1>1, <1>2, <1>5, <1>6, <1>7, SeqEqual
  <1> QED BY <1>8 DEF a, b, c, d

LEMMA CompleteTdCInv ==
    ASSUME Steady, IInv, CInv, NEW r \in Reqs, NEW img, NEW U \in SUBSET io[r],
           NEW res \in Results, complete_td_request(r, U, img, res)
    PROVE  CInv'
  <1>1. /\ DriverRuns(r) /\ io[r] # {}
        /\ UNCHANGED <<alive, state, op, ctl, named, oflags, asked, ignore>>
    BY DEF complete_td_request, chain
  <1>2. io' = [io EXCEPT ![r] = @ \ U]
    BY DEF complete_td_request, Answer
  <1>3. /\ \A x \in Reqs : x # r => io'[x] = io[x]
        /\ io'[r] \subseteq io[r]
    BY <1>2 DEF IInv, TypeOK
  <1>4. FlagsKept'
    BY <1>1 DEF CInv, FlagsKept
  <1>5. ASSUME UNCHANGED <<images, secmode, secondary, retired>> PROVE CInv'
    <2>1. ChainShape' /\ InChain' = InChain
      BY <1>1, <1>5 DEF CInv, ChainShape, ClosedChain, OpenedChain, FailedOver, Chain, InChain
    <2> QED BY <1>1, <1>3, <1>4, <1>5, <2>1, PiecesCInv
  <1>6. CASE ~(res = "ENOSPC" /\ img \in ignore)
    BY <1>5, <1>6 DEF complete_td_request, chain
  <1>7. CASE res = "ENOSPC" /\ img \in ignore
    <2>1. CASE secmode = "MIRROR" /\ images # <<>>
      <3>1. /\ images' = Tail(images) /\ retired' = Head(images)
            /\ secondary' = NoImage /\ secmode' = "DISABLED"
        BY <1>7, <2>1 DEF complete_td_request
      <3>2. /\ Mirroring /\ retired = NoImage /\ secondary = "second" /\ ignore = {"leaf"}
            /\ images = <<"leaf", "second", "base">>
        BY <2>1 DEF CInv, ChainShape, ClosedChain, OpenedChain, FailedOver, Chain
      <3>3. images' = <<"second", "base">> /\ retired' = "leaf"
        BY <3>1, <3>2
      <3>4. ChainShape' /\ images' # <<>>
        BY <1>1, <3>1, <3>2, <3>3 DEF ChainShape, FailedOver, Chain
      <3>5. InChain = {"leaf", "second", "base"} /\ InChain' = {"second", "base"}
        BY <3>2, <3>3 DEF InChain
      <3> QED BY <1>1, <1>3, <1>4, <3>1, <3>2, <3>3, <3>4, <3>5, PiecesCInv
    <2>2. CASE secmode = "STANDBY"
      <3>1. /\ images' = <<secondary>> \o images /\ retired' = retired
            /\ secondary' = NoImage /\ secmode' = "DISABLED"
        BY <1>7, <2>2 DEF complete_td_request
      <3>2. ignore # {}
        BY <1>7
      <3>3. /\ Standing /\ retired = NoImage /\ secondary = "second" /\ ignore = {"leaf"}
            /\ images = <<"leaf", "base">>
        BY <2>2, <3>2 DEF CInv, ChainShape, ClosedChain, OpenedChain, FailedOver, Chain
      <3>4. images' = <<"second", "leaf", "base">>
        BY <3>1, <3>3, StandbyChain
      <3>5. images' # <<>>
        BY <3>4
      <3>6. FailedOver'
        BY <1>1, <3>1, <3>3, <3>4 DEF FailedOver, Chain
      <3>7. ChainShape'
        BY <3>6 DEF ChainShape
      <3>8. InChain = {"leaf", "base"} /\ InChain' = {"second", "leaf", "base"}
        BY <3>3, <3>4 DEF InChain
      <3> QED BY <1>1, <1>3, <1>4, <3>1, <3>3, <3>5, <3>7, <3>8, PiecesCInv
    <2>3. CASE ~(secmode = "MIRROR" /\ images # <<>>) /\ secmode # "STANDBY"
      <3>1. UNCHANGED <<images, retired>>
        BY <1>7, <2>3 DEF complete_td_request
      <3>2. secmode = "DISABLED"
        BY <1>7, <2>3 DEF CInv, ChainShape, ClosedChain, OpenedChain, FailedOver, Chain
      <3>3. UNCHANGED <<secmode, secondary>>
        BY <1>7, <3>2 DEF complete_td_request
      <3> QED BY <1>5, <3>1, <3>3
    <2> QED BY <2>1, <2>2, <2>3
  <1> QED BY <1>6, <1>7

(* the image a read is forwarded to is in the chain                         *)
LEMMA NextInChain ==
    ASSUME IInv, NEW img \in InChain, ~IsLast(img)
    PROVE  Next_(img) \in InChain
  <1> DEFINE i == CHOOSE i \in 1 .. Len(images) : images[i] = img
  <1>1. images \in Seq(Images)
    BY DEF IInv, TypeOK
  <1>2. i \in 1 .. Len(images) /\ images[i] = img
    BY DEF InChain
  <1>3. i # Len(images)
    BY <1>1, <1>2 DEF IsLast
  <1>4. Next_(img) = images[i + 1]
    BY DEF Next_
  <1> HIDE DEF i
  <1>5. i + 1 \in 1 .. Len(images)
    BY <1>1, <1>2, <1>3
  <1> QED BY <1>4, <1>5 DEF InChain

LEMMA ForwardCInv ==
    ASSUME IInv, CInv, NEW r \in Reqs, NEW img, NEW U \in SUBSET io[r],
           forward_request(r, U, img)
    PROVE  CInv'
  <1>1. /\ DriverRuns(r) /\ io[r] # {} /\ img \in InChain /\ op[r] = "read"
        /\ UNCHANGED <<alive, state, op, ctl>>
        /\ UNCHANGED <<named, oflags, asked, images, secmode, secondary, retired, ignore>>
    BY DEF forward_request, chain
  <1>2. ChainShape' /\ FlagsKept' /\ InChain' = InChain
    BY <1>1 DEF CInv, ChainShape, ClosedChain, OpenedChain, FailedOver, Chain, FlagsKept, InChain
  <1>3. /\ \A x \in Reqs : x # r => io'[x] = io[x]
        /\ \A u \in io'[r] : u \in io[r] \/ u.img \in InChain
    <2>1. CASE ~queue_ready
      BY <2>1 DEF forward_request, Answer, IInv, TypeOK
    <2>2. CASE queue_ready
      <3> DEFINE zero == IF IsLast(img) THEN U
                         ELSE {u \in U : u.sec >= SizeOf(Next_(img))}
                 moved == {OnImage(u, Next_(img)) : u \in U \ zero}
      <3>1. io' = [io EXCEPT ![r] = (@ \ U) \cup moved]
        BY <2>2 DEF forward_request
      <3>2. \A u \in moved : u.img \in InChain
        BY <1>1, NextInChain DEF OnImage
      <3> HIDE DEF moved
      <3> QED BY <3>1, <3>2 DEF IInv, TypeOK
    <2> QED BY <2>1, <2>2
  <1> QED BY <1>1, <1>2, <1>3, PiecesCInv

-----------------------------------------------------------------------------
(* Every step keeps the invariant: one case per action.                     *)
LEMMA NextCInv == ASSUME Steady, IInv, CInv, [Next]_vars PROVE CInv'
  <1>1. ASSUME NEW r \in Reqs, NEW o \in Ops, queue_request(r, o) PROVE CInv'
    BY <1>1, QueueRequestCInv
  <1>2. ASSUME NEW r \in Reqs, Driver(r) PROVE CInv'
    <2>1. PICK img \in Images \cup {FreedImage} : \E U \in SUBSET {u \in io[r] : u.img = img} :
            \/ \E res \in Results : complete_td_request(r, U, img, res)
            \/ forward_request(r, U, img)
      BY <1>2 DEF Driver
    <2>2. PICK U \in SUBSET {u \in io[r] : u.img = img} :
            \/ \E res \in Results : complete_td_request(r, U, img, res)
            \/ forward_request(r, U, img)
      BY <2>1
    <2>3. U \in SUBSET io[r]
      OBVIOUS
    <2> QED BY <2>2, <2>3, CompleteTdCInv, ForwardCInv
  <1>3. ASSUME NEW r \in Reqs, expire(r) PROVE CInv'
    BY <1>3, ExpireCInv
  <1>4. CASE check_queue_state
    BY <1>4, CheckQueueCInv
  <1>5. CASE recheck_state
    BY <1>5, RecheckCInv
  <1>6. CASE Loop
    <2>1. ASSUME NEW r \in todo, reissue_failed_request(r) PROVE CInv'
      BY <2>1, IssueCInv DEF reissue_failed_request
    <2>2. ASSUME NEW r \in todo, issue_new_request(r) PROVE CInv'
      BY <2>2, IssueCInv DEF issue_new_request
    <2> QED BY <1>6, <2>1, <2>2, LoopEndCInv, QueueIovCInv, IssueEndCInv, TailCInv, FailedCInv
            DEF Loop
  <1>7. CASE kick
    BY <1>7, KickCInv
  <1>8. CASE pause
    BY <1>8, PauseCInv
  <1>9. CASE resume
    BY <1>9, ResumeCInv
  <1>10. ASSUME NEW fl \in OpenFlags, open_image(fl) PROVE CInv'
    BY <1>10, OpenCInv
  <1>11. CASE close_image
    BY <1>11, CloseCInv
  <1>12. CASE detach_vbd
    BY <1>12, DetachCInv
  <1>13. CASE sigint
    BY <1>13, SigintCInv
  <1>14. CASE kill_queue
    BY <1>14, KillCInv
  <1>15. CASE UNCHANGED vars
    <2>1. UNCHANGED <<chain, io, alive, state, op, pc, cur, seg, tgt>>
      BY <1>15 DEF vars, reqs, ctl
    <2>2. pc \in {"loop", "tail"} => alive
      BY DEF CInv, OnOpenImage
    <2> QED BY <2>1, <2>2, ChainKept
  <1> QED BY <1>1, <1>2, <1>3, <1>4, <1>5, <1>6, <1>7, <1>8, <1>9, <1>10, <1>11, <1>12, <1>13,
            <1>14, <1>15 DEF Next

THEOREM ChainInvariance == ASSUME Steady PROVE Spec => [](IInv /\ CInv)
  <1>1. Init => IInv /\ CInv
    BY InitIInv, InitCInv
  <1>2. IInv /\ CInv /\ [Next]_vars => (IInv /\ CInv)'
    BY NextIInv, NextCInv
  <1> QED BY <1>1, <1>2, PTL DEF Spec

(* Pause, resume, close, detach and failover never overtake the requests in *)
(* flight: no driver holds sectors of a closed image, or of a freed vbd.    *)
THEOREM NoClosedImage == ASSUME Steady, Orderly PROVE Spec => []ImagesOpen
  <1>1. IInv /\ CInv => ImagesOpen
    BY DEF CInv
  <1> QED BY <1>1, ChainInvariance, PTL

(* ... and a vbd that was opened read-only hands no write to a driver, over *)
(* every pause and every resume that does not fail.                         *)
THEOREM ImagesAreKept ==
    ASSUME Steady, Orderly, ~ReopenMayFail PROVE Spec => []ImagesKept
  <1>1. IInv /\ CInv => ImagesKept
    BY DEF CInv, WritesRefused, ImagesKept
  <1> QED BY <1>1, ChainInvariance, PTL

-----------------------------------------------------------------------------
(* Honest answers.  A mirrored write of several iovs may lose one when the   *)
(* leaf is given up between two of them, so a vbd is without a secondary or  *)
(* mirrors requests of one iov.  A sector of a request that has not failed   *)
(* was transferred, is with a driver, or is not issued yet; a write to an    *)
(* image that can not leave the chain: the leaf, or the mirror.              *)

Single == Plain \/ (Orderly /\ ~ReopenMayFail /\ Mirroring /\ NIov = 1)

Target == IF Plain THEN "leaf" ELSE "second"

Counts(r, img)    == op[r] = "write" => img = Target
Transferred(r, s) == \E p \in served[r] : p[1] = s /\ Counts(r, p[2])
InFlight(r, s)    == \E u \in io[r] : u.sec = s /\ Counts(r, u.img)
Unissued(r, s)    == submitting(r) /\ s >= seg * IovSecs

Slot(r) ==
    /\ where[r] = "failed" => error[r] # "none"
    /\ where[r] \in {"free", "new"} => served[r] = {}
    /\ where[r] = "completed" /\ error[r] = "none" => \A s \in Sectors : Transferred(r, s)
    /\ where[r] = "pending" /\ error[r] = "none" =>
          \A s \in Sectors : Transferred(r, s) \/ InFlight(r, s) \/ Unissued(r, s)

HInv == \A r \in Reqs : Slot(r)

LEMMA InitHInv == Init => HInv
  BY DEF Init, HInv, Slot

(* a request none of whose fields changes                                   *)
LEMMA SlotKept ==
    ASSUME NEW r, Slot(r), where'[r] = where[r], error'[r] = error[r], served'[r] = served[r],
           io'[r] = io[r], op'[r] = op[r],
           where[r] = "pending" => (submitting(r) => submitting(r)' /\ seg' = seg)
    PROVE  Slot(r)'
  <1>1. \A s \in Sectors : /\ Transferred(r, s)' <=> Transferred(r, s)
                           /\ InFlight(r, s)' <=> InFlight(r, s)
    BY DEF Transferred, InFlight, Counts
  <1>2. where[r] = "pending" => \A s \in Sectors : Unissued(r, s) => Unissued(r, s)'
    BY DEF Unissued
  <1> QED BY <1>1, <1>2 DEF Slot

LEMMA HInvKept ==
    ASSUME HInv, UNCHANGED <<where, error, served, io, op>>,
           pc = "seg" => UNCHANGED <<pc, cur, seg>>
    PROVE  HInv'
  BY SlotKept DEF HInv, submitting

LEMMA QueueRequestHInv ==
    ASSUME IInv, HInv, NEW r \in Reqs, NEW o \in Ops, queue_request(r, o) PROVE HInv'
  <1> SUFFICES ASSUME NEW x \in Reqs PROVE Slot(x)'
    BY DEF HInv
  <1>1. UNCHANGED <<error, served, io>> /\ pc = "idle"
    BY DEF queue_request
  <1>2. CASE x = r
    <2>1. where'[x] = "new" /\ where[x] = "free"
      BY <1>2 DEF queue_request, IInv, TypeOK
    <2> QED BY <1>1, <2>1 DEF HInv, Slot
  <1>3. CASE x # r
    <2>1. where'[x] = where[x] /\ op'[x] = op[x]
      BY <1>3 DEF queue_request, IInv, TypeOK
    <2> QED BY <1>1, <2>1, SlotKept DEF HInv, submitting
  <1> QED BY <1>2, <1>3

LEMMA KickHInv == ASSUME IInv, HInv, kick PROVE HInv'
  <1> SUFFICES ASSUME NEW x \in Reqs PROVE Slot(x)'
    BY DEF HInv
  <1>1. UNCHANGED <<error, io>> /\ pc = "idle"
    BY DEF kick
  <1>2. CASE x \in On("completed")
    <2>1. where'[x] = "free" /\ served'[x] = {}
      BY <1>2 DEF kick
    <2> QED BY <2>1 DEF Slot
  <1>3. CASE x \notin On("completed")
    <2>1. where'[x] = where[x] /\ op'[x] = op[x] /\ served'[x] = served[x]
      BY <1>3 DEF kick
    <2> QED BY <1>1, <2>1, SlotKept DEF HInv, submitting
  <1> QED BY <1>2, <1>3

LEMMA CheckQueueHInv == ASSUME IInv, HInv, check_queue_state PROVE HInv'
  <1> DEFINE w == [r \in Reqs |-> IF r \in Timed THEN "completed" ELSE where[r]]
             waiting == {r \in Reqs : w[r] \in {"new", "failed"}}
  <1> SUFFICES ASSUME NEW x \in Reqs PROVE Slot(x)'
    BY DEF HInv
  <1>1. UNCHANGED <<io, op, served>> /\ pc # "seg"
    BY DEF check_queue_state
  <1>2. CASE x \in Timed
    <2>1. error[x] # "none" /\ w[x] = "completed" /\ x \notin waiting
      BY <1>2 DEF Timed, On, HInv, Slot
    <2>2. where'[x] = "completed" /\ error'[x] = error[x]
      <3>1. CASE Has("DEAD")
        <4>1. /\ where' = [r \in Reqs |-> IF r \in waiting THEN "completed" ELSE w[r]]
              /\ error' = [r \in Reqs |-> IF r \in waiting THEN "ESHUTDOWN" ELSE error[r]]
          BY <3>1 DEF check_queue_state, kill_requests
        <4> HIDE DEF w, waiting
        <4> QED BY <2>1, <4>1
      <3>2. CASE ~Has("DEAD")
        <4>1. where' = w /\ error' = error
          BY <3>2 DEF check_queue_state
        <4> QED BY <2>1, <4>1
      <3> QED BY <3>1, <3>2
    <2> QED BY <2>1, <2>2 DEF Slot
  <1>3. CASE x \notin Timed
    <2>1. w[x] = where[x]
      BY <1>3
    <2>2. CASE Has("DEAD") /\ x \in waiting
      <3>1. where'[x] = "completed" /\ error'[x] = "ESHUTDOWN"
        BY <2>2 DEF check_queue_state, kill_requests
      <3> QED BY <3>1 DEF Slot
    <2>3. CASE ~(Has("DEAD") /\ x \in waiting)
      <3>1. where'[x] = where[x] /\ error'[x] = error[x]
        <4>1. CASE Has("DEAD")
          <5>1. /\ where' = [r \in Reqs |-> IF r \in waiting THEN "completed" ELSE w[r]]
                /\ error' = [r \in Reqs |-> IF r \in waiting THEN "ESHUTDOWN" ELSE error[r]]
            BY <4>1 DEF check_queue_state, kill_requests
          <5> HIDE DEF w, waiting
          <5> QED BY <2>1, <2>3, <4>1, <5>1
        <4>2. CASE ~Has("DEAD")
          <5>1. where' = w /\ error' = error
            BY <4>2 DEF check_queue_state
          <5> QED BY <2>1, <5>1
        <4> QED BY <4>1, <4>2
      <3> QED BY <1>1, <3>1, SlotKept DEF HInv, submitting
    <2> QED BY <2>2, <2>3
  <1> QED BY <1>2, <1>3

(* a request taken from the list being walked fails, or completes with an error *)
LEMMA MoveHInv ==
    ASSUME IInv, HInv, NEW r \in todo, pc = "loop", NEW d \in {"failed", "completed"},
           where' = [where EXCEPT ![r] = d], error'[r] # "none",
           \A x \in Reqs : x # r => error'[x] = error[x] /\ served'[x] = served[x],
           UNCHANGED <<op, io>>
    PROVE  HInv'
  <1> SUFFICES ASSUME NEW x \in Reqs PROVE Slot(x)'
    BY DEF HInv
  <1>1. CASE x = r
    <2>1. where'[x] = d
      BY <1>1 DEF IInv, TypeOK
    <2> QED BY <1>1, <2>1 DEF Slot
  <1>2. CASE x # r
    <2>1. where'[x] = where[x]
      BY <1>2 DEF IInv, TypeOK
    <2> QED BY <1>2, <2>1, SlotKept DEF HInv, submitting
  <1> QED BY <1>1, <1>2

LEMMA CompleteFailedHInv ==
    ASSUME IInv, HInv, NEW r \in todo, complete_failed_request(r) PROVE HInv'
  <1>1. where[r] = "failed" /\ r \in Reqs
    BY DEF complete_failed_request, IInv, TypeOK, Walking, submitting
  <1>2. error[r] # "none"
    BY <1>1 DEF HInv, Slot
  <1>3. complete_vbd_request(r, error[r]) \in {"failed", "completed"}
    BY Destinations
  <1> QED BY <1>2, <1>3, MoveHInv DEF complete_failed_request

LEMMA IssueHInv ==
    ASSUME IInv, HInv, NEW r \in todo, pc = "loop", issue_request(r) PROVE HInv'
  <1>1. r \in Reqs /\ UNCHANGED <<op, io>>
    BY DEF issue_request, IInv, TypeOK
  <1>2. CASE issue_refused(r)
    <2> DEFINE e == check_request(r)
               d == complete_vbd_request(r, e)
    <2>1. d \in {"failed", "completed"}
      BY Destinations
    <2>2. /\ e # "none" /\ where' = [where EXCEPT ![r] = d]
          /\ error' = [error EXCEPT ![r] = e] /\ served' = [served EXCEPT ![r] = {}]
      BY <1>2 DEF issue_refused
    <2> HIDE DEF d, e
    <2>3. error'[r] # "none"
      BY <1>1, <2>2 DEF IInv, TypeOK
    <2>4. \A x \in Reqs : x # r => error'[x] = error[x] /\ served'[x] = served[x]
      BY <2>2 DEF IInv, TypeOK
    <2> QED BY <1>1, <2>1, <2>2, <2>3, <2>4, MoveHInv
  <1>3. CASE issue_begin(r)
    <2>1. pc' = "seg" /\ cur' = r /\ seg' = 0
      BY <1>3 DEF issue_begin
    <2> SUFFICES ASSUME NEW x \in Reqs PROVE Slot(x)'
      BY DEF HInv
    <2>2. CASE x = r
      <3>1. where'[x] = "pending"
        BY <1>3, <2>2 DEF issue_begin, IInv, TypeOK
      <3>2. \A s \in Sectors : s \in Nat
        BY DEF Sectors
      <3>3. IovSecs \in Nat
        BY IovSecsAssumption
      <3>4. seg' * IovSecs = 0
        BY <2>1, <3>3
      <3>5. \A s \in Sectors : Unissued(x, s)'
        BY <2>1, <2>2, <3>2, <3>4 DEF Unissued, submitting
      <3> QED BY <3>1, <3>5 DEF Slot
    <2>3. CASE x # r
      <3>1. where'[x] = where[x] /\ error'[x] = error[x] /\ served'[x] = served[x]
        BY <1>3, <2>3 DEF issue_begin, IInv, TypeOK
      <3> QED BY <1>1, <3>1, SlotKept DEF HInv, submitting
    <2> QED BY <2>2, <2>3
  <1> QED BY <1>2, <1>3 DEF issue_request

LEMMA QueueIovHInv == ASSUME Single, IInv, CInv, HInv, queue_iov PROVE HInv'
  <1> DEFINE mirrored == secmode = "MIRROR" /\ op[cur] = "write"
             main   == [role : {"main"}, sec : Iov(seg), img : {tgt}]
             mirror == [role : {"mirror"}, sec : Iov(seg), img : {secondary}]
  <1> SUFFICES ASSUME NEW x \in Reqs PROVE Slot(x)'
    BY DEF HInv
  <1>1. /\ pc = "seg" /\ pc' = "seg" /\ seg' = seg + 1 /\ cur \in Reqs
        /\ seg \in Nat /\ seg < NIov /\ NIov \in Nat /\ IovSecs \in Nat
        /\ where[cur] = "pending"
        /\ UNCHANGED <<where, error, served, op, cur>>
    BY NIovAssumption, IovSecsAssumption DEF queue_iov, IInv, TypeOK, Issuing
  <1>2. CASE x # cur
    <2>1. io'[x] = io[x]
      BY <1>2 DEF queue_iov, IInv, TypeOK
    <2> QED BY <1>1, <1>2, <2>1, SlotKept DEF HInv, submitting
  <1>3. CASE x = cur
    <2>1. io'[x] = io[x] \cup main \cup (IF mirrored THEN mirror ELSE {})
      BY <1>3 DEF queue_iov, IInv, TypeOK
    <2>2. op[x] = "write" => tgt = Target \/ (mirrored /\ secondary = Target)
      <3>1. CASE Plain
        <4>1. images # <<>> /\ tgt \in {"leaf", "second"} \cap (InChain \cup {retired})
          BY <1>1 DEF CInv, OnOpenImage
        <4>2. tgt = "leaf"
          BY <3>1, <4>1, Members DEF CInv, ChainShape, ClosedChain, NoImage
        <4> QED BY <3>1, <4>2 DEF Target
      <3>2. CASE ~Plain
        <4>1. Mirroring /\ ~Standing /\ seg = 0
          BY <1>1, <3>2, Kinds DEF Single
        <4>2. images # <<>> /\ tgt = Head(images)
          BY <1>1, <4>1 DEF CInv, OnOpenImage
        <4>3. \/ Chain(<<"leaf", "second", "base">>, "MIRROR", "second", NoImage, {"leaf"})
              \/ Chain(<<"second", "base">>, "DISABLED", NoImage, "leaf", {"leaf"})
          BY <3>2, <4>1, <4>2 DEF CInv, ChainShape, ClosedChain, OpenedChain, FailedOver
        <4>4. \/ secmode = "MIRROR" /\ secondary = "second"
              \/ images = <<"second", "base">>
          BY <4>3 DEF Chain
        <4> QED BY <1>3, <3>2, <4>2, <4>4 DEF Target
      <3> QED BY <3>1, <3>2
    <2>3. ASSUME NEW s \in Iov(seg) PROVE InFlight(x, s)'
      <3> DEFINE a == [role |-> "main", sec |-> s, img |-> tgt]
                 b == [role |-> "mirror", sec |-> s, img |-> secondary]
      <3>1. a \in main /\ b \in mirror /\ a.sec = s /\ b.sec = s
            /\ a.img = tgt /\ b.img = secondary
        OBVIOUS
      <3>2. a \in io'[x] /\ (mirrored => b \in io'[x])
        <4> HIDE DEF a, b, main, mirror, mirrored
        <4> QED BY <2>1, <3>1
      <3> HIDE DEF a, b, main, mirror, mirrored
      <3>3. op'[x] = "write" => tgt = Target \/ (mirrored /\ secondary = Target)
        BY <1>1, <2>2
      <3>4. \E u \in io'[x] : u.sec = s /\ (op'[x] = "write" => u.img = Target)
        BY <3>1, <3>2, <3>3
      <3>5. Target' = Target
        BY DEF Target, Plain
      <3> QED BY <3>4, <3>5 DEF InFlight, Counts
    <2>4. ASSUME NEW s \in Sectors, Unissued(x, s), s \notin Iov(seg) PROVE Unissued(x, s)'
      <3>1. s >= seg * IovSecs /\ ~(s < (seg + 1) * IovSecs)
        BY <2>4 DEF Unissued, Iov
      <3>2. s \in Nat /\ (seg + 1) * IovSecs \in Nat
        BY <1>1 DEF Sectors
      <3>3. s >= (seg + 1) * IovSecs
        BY <3>1, <3>2
      <3> QED BY <1>1, <1>3, <3>3 DEF Unissued, submitting
    <2>5. ASSUME NEW s \in Sectors, InFlight(x, s) PROVE InFlight(x, s)'
      BY <1>1, <2>1, <2>5 DEF InFlight, Counts, Target
    <2>6. \A s \in Sectors : Transferred(x, s) => Transferred(x, s)'
      BY <1>1 DEF Transferred, Counts
    <2> HIDE DEF main, mirror, mirrored
    <2> QED BY <1>1, <1>3, <2>3, <2>4, <2>5, <2>6 DEF HInv, Slot
  <1> QED BY <1>2, <1>3

LEMMA IssueEndHInv == ASSUME IInv, HInv, issue_end PROVE HInv'
  <1> DEFINE d == IF secs_pending[cur] = 0
                  THEN complete_vbd_request(cur, error[cur]) ELSE "pending"
  <1> SUFFICES ASSUME NEW x \in Reqs PROVE Slot(x)'
    BY DEF HInv
  <1>1. /\ pc = "seg" /\ pc' = "loop" /\ seg = NIov /\ cur \in Reqs /\ where[cur] = "pending"
        /\ UNCHANGED <<error, served, op, io>>
        /\ where' = [where EXCEPT ![cur] = d]
    BY DEF issue_end, IInv, TypeOK, Issuing
  <1>2. CASE x # cur
    <2>1. where'[x] = where[x]
      BY <1>1, <1>2 DEF IInv, TypeOK
    <2> QED BY <1>1, <1>2, <2>1, SlotKept DEF HInv, submitting
  <1>3. CASE x = cur
    <2>1. where'[x] = d
      BY <1>1, <1>3 DEF IInv, TypeOK
    <2>2. \A s \in Sectors : ~Unissued(x, s)
      <3>1. NIov * IovSecs \in Nat
        BY NIovAssumption, IovSecsAssumption
      <3> QED BY <1>1, <3>1 DEF Unissued, Sectors
    <2>3. error[x] = "none" => \A s \in Sectors : Transferred(x, s) \/ InFlight(x, s)
      BY <1>1, <1>3, <2>2 DEF HInv, Slot
    <2>4. \A s \in Sectors : /\ Transferred(x, s)' <=> Transferred(x, s)
                             /\ InFlight(x, s)' <=> InFlight(x, s)
      BY <1>1 DEF Transferred, InFlight, Counts
    <2>5. CASE io[x] = {}
      <3>1. d = complete_vbd_request(x, error[x])
        BY <1>3, <2>5, FS_EmptySet DEF IInv, Counted
      <3>2. d \in {"failed", "completed"} /\ (d = "failed" => error[x] # "none")
        BY <3>1, Destinations
      <3>3. \A s \in Sectors : ~InFlight(x, s)
        BY <2>5 DEF InFlight
      <3> HIDE DEF d
      <3> QED BY <1>1, <2>1, <2>3, <2>4, <3>2, <3>3 DEF Slot
    <2>6. CASE io[x] # {}
      <3>1. d = "pending"
        BY <1>3, <2>6, FS_EmptySet DEF IInv, Counted
      <3> HIDE DEF d
      <3> QED BY <1>1, <2>1, <2>3, <2>4, <3>1 DEF Slot
    <2> QED BY <2>5, <2>6
  <1> QED BY <1>2, <1>3

(* a step of a driver: the pieces of r that count move to served or stay    *)
LEMMA PiecesHInv ==
    ASSUME IInv, IInv', HInv, NEW r \in Reqs, DriverRuns(r), io[r] # {},
           \A x \in Reqs : x # r => io'[x] = io[x] /\ error'[x] = error[x]
                                    /\ served'[x] = served[x],
           error'[r] = "none" => error[r] = "none",
           served[r] \subseteq served'[r],
           error'[r] = "none" =>
              \A s \in Sectors : InFlight(r, s) => Transferred(r, s)' \/ InFlight(r, s)',
           where' = where \/ (where' = [where EXCEPT ![r] = complete_vbd_request(r, error'[r])]
                              /\ io'[r] = {} /\ ~submitting(r)),
           UNCHANGED <<op, ctl>>
    PROVE  HInv'
  <1> SUFFICES ASSUME NEW x \in Reqs PROVE Slot(x)'
    BY DEF HInv
  <1>1. UNCHANGED <<pc, cur, seg>> /\ where[r] = "pending"
    BY DEF ctl, IInv, BufferSafe
  <1>2. CASE x # r
    <2>1. where'[x] = where[x]
      BY <1>2 DEF IInv, TypeOK
    <2> QED BY <1>1, <1>2, <2>1, SlotKept DEF HInv, submitting
  <1>3. CASE x = r
    <2>1. \A s \in Sectors : /\ Transferred(x, s) => Transferred(x, s)'
                             /\ Unissued(x, s)' <=> Unissued(x, s)
      BY <1>1, <1>3 DEF Transferred, Counts, Unissued, submitting
    <2>2. error'[x] = "none" =>
            \A s \in Sectors : Transferred(x, s)' \/ InFlight(x, s)' \/ Unissued(x, s)'
      BY <1>1, <1>3, <2>1 DEF HInv, Slot
    <2>3. CASE where' = where
      BY <1>1, <1>3, <2>2, <2>3 DEF Slot
    <2>4. CASE /\ where' = [where EXCEPT ![r] = complete_vbd_request(r, error'[r])]
               /\ io'[r] = {} /\ ~submitting(r)
      <3>1. where'[x] = complete_vbd_request(r, error'[r])
        BY <1>3, <2>4 DEF IInv, TypeOK
      <3>2. where'[x] \in {"failed", "completed"} /\ (where'[x] = "failed" => error'[x] # "none")
        BY <1>3, <3>1, Destinations
      <3>3. \A s \in Sectors : ~InFlight(x, s)' /\ ~Unissued(x, s)'
        BY <1>1, <1>3, <2>4 DEF InFlight, Unissued, submitting
      <3> QED BY <2>2, <3>2, <3>3 DEF Slot
    <2> QED BY <2>3, <2>4
  <1> QED BY <1>2, <1>3

(* the pieces of r that Answer(r, U, err) leaves, and where r goes          *)
LEMMA AnswerEffect ==
    ASSUME IInv, NEW r \in Reqs, NEW U \in SUBSET io[r], NEW err, Answer(r, U, err)
    PROVE  /\ io'[r] = io[r] \ U
           /\ error'[r] = IF error[r] = "none" THEN err ELSE error[r]
           /\ \A x \in Reqs : x # r => io'[x] = io[x] /\ error'[x] = error[x]
           /\ \/ where' = where
              \/ /\ where' = [where EXCEPT ![r] = complete_vbd_request(r, error'[r])]
                 /\ io'[r] = {} /\ ~submitting(r)
  <1> DEFINE e == IF error[r] = "none" THEN err ELSE error[r]
             left == secs_pending[r] - Cardinality(U)
  <1>1. io' = [io EXCEPT ![r] = io[r] \ U] /\ error' = [error EXCEPT ![r] = e]
    BY DEF Answer
  <1>2. io'[r] = io[r] \ U /\ error'[r] = e
        /\ \A x \in Reqs : x # r => io'[x] = io[x] /\ error'[x] = error[x]
    <2> HIDE DEF e
    <2> QED BY <1>1 DEF IInv, TypeOK
  <1>3. where' = IF left = 0 /\ ~submitting(r)
                 THEN [where EXCEPT ![r] = complete_vbd_request(r, e)] ELSE where
    BY DEF Answer
  <1>4. left = Cardinality(io[r] \ U) /\ IsFiniteSet(io[r] \ U)
    BY DifferenceCard DEF IInv, Counted
  <1>5. left = 0 => io[r] \ U = {}
    BY <1>4, FS_EmptySet
  <1> HIDE DEF left, e
  <1>6. CASE left = 0 /\ ~submitting(r)
    <2>1. where' = [where EXCEPT ![r] = complete_vbd_request(r, error'[r])]
      BY <1>2, <1>3, <1>6
    <2> QED BY <1>2, <1>5, <1>6, <2>1 DEF e
  <1>7. CASE ~(left = 0 /\ ~submitting(r))
    BY <1>2, <1>3, <1>7 DEF e
  <1> QED BY <1>6, <1>7

(* what Store adds                                                          *)
LEMMA StoreEffect ==
    ASSUME IInv, NEW r \in Reqs, NEW U, Store(r, U)
    PROVE  /\ served[r] \subseteq served'[r]
           /\ \A u \in U : <<u.sec, u.img>> \in served'[r]
           /\ \A x \in Reqs : x # r => served'[x] = served[x]
  BY DEF Store, IInv, TypeOK

LEMMA CompleteTdHInv ==
    ASSUME Single, IInv, IInv', CInv, HInv, NEW r \in Reqs, NEW img, NEW U \in SUBSET io[r],
           NEW res \in Results, complete_td_request(r, U, img, res)
    PROVE  HInv'
  <1>1. /\ DriverRuns(r) /\ io[r] # {} /\ UNCHANGED <<op, ctl>>
        /\ \A u \in U : u.img = img
        /\ res = "ENOSPC" => op[r] = "write"
    BY DEF complete_td_request
  <1>2. CASE res = "ENOSPC" /\ img \in ignore
    <2>1. Answer(r, U, "none") /\ UNCHANGED served
      BY <1>2 DEF complete_td_request
    <2>2. /\ io'[r] = io[r] \ U
          /\ error'[r] = IF error[r] = "none" THEN "none" ELSE error[r]
          /\ \A x \in Reqs : x # r => io'[x] = io[x] /\ error'[x] = error[x]
          /\ \/ where' = where
             \/ /\ where' = [where EXCEPT ![r] = complete_vbd_request(r, error'[r])]
                /\ io'[r] = {} /\ ~submitting(r)
      BY <2>1, AnswerEffect
    <2>3. img # Target
      <3>1. ignore = {"leaf"} /\ ~Plain
        BY <1>2, Kinds DEF CInv, ChainShape, ClosedChain, OpenedChain, FailedOver, Chain
      <3> QED BY <1>2, <3>1 DEF Target
    <2>4. ASSUME NEW s \in Sectors, InFlight(r, s) PROVE InFlight(r, s)'
      <3>1. PICK u \in io[r] : u.sec = s /\ Counts(r, u.img)
        BY <2>4 DEF InFlight
      <3>2. u.img = Target
        BY <1>1, <1>2, <3>1 DEF Counts
      <3>3. u \in io'[r]
        BY <1>1, <2>2, <2>3, <3>2
      <3>4. Counts(r, u.img)'
        BY <1>1, <3>1 DEF Counts, Target, Plain
      <3> QED BY <3>1, <3>3, <3>4 DEF InFlight
    <2>5. error'[r] = "none" => error[r] = "none"
      BY <2>2
    <2> QED BY <1>1, <2>1, <2>2, <2>4, <2>5, PiecesHInv
  <1>3. CASE ~(res = "ENOSPC" /\ img \in ignore)
    <2>1. /\ Answer(r, U, res)
          /\ IF res = "none" THEN Store(r, U) ELSE UNCHANGED served
      BY <1>3 DEF complete_td_request
    <2>2. /\ io'[r] = io[r] \ U
          /\ error'[r] = IF error[r] = "none" THEN res ELSE error[r]
          /\ \A x \in Reqs : x # r => io'[x] = io[x] /\ error'[x] = error[x]
          /\ \/ where' = where
             \/ /\ where' = [where EXCEPT ![r] = complete_vbd_request(r, error'[r])]
                /\ io'[r] = {} /\ ~submitting(r)
      BY <2>1, AnswerEffect
    <2>3. /\ served[r] \subseteq served'[r]
          /\ res = "none" => \A u \in U : <<u.sec, u.img>> \in served'[r]
          /\ \A x \in Reqs : x # r => served'[x] = served[x]
      BY <2>1, StoreEffect
    <2>4. ASSUME error'[r] = "none", NEW s \in Sectors, InFlight(r, s)
          PROVE  Transferred(r, s)' \/ InFlight(r, s)'
      <3>1. PICK u \in io[r] : u.sec = s /\ Counts(r, u.img)
        BY <2>4 DEF InFlight
      <3>2. Counts(r, u.img)'
        BY <1>1, <3>1 DEF Counts, Target, Plain
      <3>3. CASE u \in U
        <4>1. <<u.sec, u.img>> \in served'[r]
          BY <2>2, <2>3, <2>4, <3>3
        <4> DEFINE p == <<u.sec, u.img>>
        <4>2. p[1] = s /\ p[2] = u.img
          BY <3>1
        <4> HIDE DEF p
        <4> QED BY <3>2, <4>1, <4>2 DEF Transferred, p
      <3>4. CASE u \notin U
        BY <2>2, <3>1, <3>2, <3>4 DEF InFlight
      <3> QED BY <3>3, <3>4
    <2>5. error'[r] = "none" => error[r] = "none"
      BY <2>2
    <2> QED BY <1>1, <2>2, <2>3, <2>4, <2>5, PiecesHInv
  <1> QED BY <1>2, <1>3

LEMMA ForwardHInv ==
    ASSUME IInv, IInv', HInv, NEW r \in Reqs, NEW img, NEW U \in SUBSET io[r],
           forward_request(r, U, img)
    PROVE  HInv'
  <1>1. /\ DriverRuns(r) /\ io[r] # {} /\ op[r] = "read"
        /\ UNCHANGED <<op, ctl>>
    BY DEF forward_request
  <1>2. CASE ~queue_ready
    <2>1. Answer(r, U, "EBUSY") /\ UNCHANGED served
      BY <1>2 DEF forward_request
    <2>2. /\ io'[r] = io[r] \ U
          /\ error'[r] = IF error[r] = "none" THEN "EBUSY" ELSE error[r]
          /\ \A x \in Reqs : x # r => io'[x] = io[x] /\ error'[x] = error[x]
          /\ \/ where' = where
             \/ /\ where' = [where EXCEPT ![r] = complete_vbd_request(r, error'[r])]
                /\ io'[r] = {} /\ ~submitting(r)
      BY <2>1, AnswerEffect
    <2>3. error'[r] # "none"
      BY <2>2
    <2> QED BY <1>1, <2>1, <2>2, <2>3, PiecesHInv
  <1>3. CASE queue_ready
    <2> DEFINE zero == IF IsLast(img) THEN U
                       ELSE {u \in U : u.sec >= SizeOf(Next_(img))}
               moved == {OnImage(u, Next_(img)) : u \in U \ zero}
    <2>1. /\ io' = [io EXCEPT ![r] = (@ \ U) \cup moved]
          /\ where' = IF secs_pending'[r] = 0 /\ ~submitting(r)
                      THEN [where EXCEPT ![r] = complete_vbd_request(r, error[r])] ELSE where
          /\ Store(r, zero)
          /\ UNCHANGED error
      BY <1>3 DEF forward_request
    <2>2. zero \subseteq U /\ \A u \in U \ zero : \E w \in moved : w.sec = u.sec
      <3>1. zero \subseteq U
        OBVIOUS
      <3>2. ASSUME NEW u \in U \ zero PROVE OnImage(u, Next_(img)) \in moved
        OBVIOUS
      <3>3. \A u : OnImage(u, Next_(img)).sec = u.sec
        BY DEF OnImage
      <3> HIDE DEF zero, moved
      <3> QED BY <3>1, <3>2, <3>3
    <2> HIDE DEF zero, moved
    <2>3. /\ io'[r] = (io[r] \ U) \cup moved
          /\ \A x \in Reqs : x # r => io'[x] = io[x] /\ error'[x] = error[x]
          /\ error'[r] = error[r]
      BY <2>1 DEF IInv, TypeOK
    <2>4. /\ served[r] \subseteq served'[r]
          /\ \A u \in zero : <<u.sec, u.img>> \in served'[r]
          /\ \A x \in Reqs : x # r => served'[x] = served[x]
      BY <2>1, StoreEffect
    <2>5. \/ where' = where
          \/ /\ where' = [where EXCEPT ![r] = complete_vbd_request(r, error'[r])]
             /\ io'[r] = {} /\ ~submitting(r)
      <3>1. secs_pending'[r] = 0 => io'[r] = {}
        BY FS_EmptySet DEF IInv, Counted
      <3> QED BY <2>1, <2>3, <3>1
    <2>6. ASSUME NEW s \in Sectors, InFlight(r, s)
          PROVE  Transferred(r, s)' \/ InFlight(r, s)'
      <3>1. op'[r] # "write"
        BY <1>1
      <3>2. PICK u \in io[r] : u.sec = s
        BY <2>6 DEF InFlight
      <3>3. CASE u \in zero
        <4> DEFINE p == <<u.sec, u.img>>
        <4>1. p \in served'[r] /\ p[1] = s
          BY <2>4, <3>2, <3>3
        <4> HIDE DEF p
        <4> QED BY <3>1, <4>1 DEF Transferred, Counts
      <3>4. CASE u \in U \ zero
        <4>1. PICK w \in moved : w.sec = s
          BY <2>2, <3>2, <3>4
        <4>2. w \in io'[r]
          BY <2>3
        <4> QED BY <3>1, <4>1, <4>2 DEF InFlight, Counts
      <3>5. CASE u \notin U
        <4>1. u \in io'[r]
          BY <2>3, <3>5
        <4> QED BY <3>1, <3>2, <4>1 DEF InFlight, Counts
      <3> QED BY <3>3, <3>4, <3>5
    <2> QED BY <1>1, <2>3, <2>4, <2>5, <2>6, PiecesHInv
  <1> QED BY <1>2, <1>3

LEMMA NextHInv ==
    ASSUME Single, IInv, IInv', CInv, HInv, [Next]_vars PROVE HInv'
  <1>1. ASSUME UNCHANGED reqs, pc # "seg" PROVE HInv'
    BY <1>1, HInvKept DEF reqs
  <1>2. ASSUME NEW r \in Reqs, NEW o \in Ops, queue_request(r, o) PROVE HInv'
    BY <1>2, QueueRequestHInv
  <1>3. ASSUME NEW r \in Reqs, Driver(r) PROVE HInv'
    <2>1. PICK img \in Images \cup {FreedImage} : \E U \in SUBSET {u \in io[r] : u.img = img} :
            \/ \E res \in Results : complete_td_request(r, U, img, res)
            \/ forward_request(r, U, img)
      BY <1>3 DEF Driver
    <2>2. PICK U \in SUBSET {u \in io[r] : u.img = img} :
            \/ \E res \in Results : complete_td_request(r, U, img, res)
            \/ forward_request(r, U, img)
      BY <2>1
    <2>3. U \in SUBSET io[r]
      OBVIOUS
    <2> QED BY <2>2, <2>3, CompleteTdHInv, ForwardHInv
  <1>4. ASSUME NEW r \in Reqs, expire(r) PROVE HInv'
    BY <1>4, HInvKept DEF expire, ctl
  <1>5. CASE check_queue_state
    BY <1>5, CheckQueueHInv
  <1>6. CASE recheck_state
    BY <1>1, <1>6 DEF recheck_state
  <1>7. CASE Loop
    <2>1. ASSUME NEW r \in todo, reissue_failed_request(r) PROVE HInv'
      BY <2>1, IssueHInv DEF reissue_failed_request
    <2>2. ASSUME NEW r \in todo, issue_new_request(r) PROVE HInv'
      BY <2>2, IssueHInv DEF issue_new_request
    <2>3. ASSUME NEW r \in todo, skip_failed_request(r) PROVE HInv'
      BY <1>1, <2>3 DEF skip_failed_request
    <2>4. CASE loop_end
      BY <1>1, <2>4 DEF loop_end
    <2>5. CASE check_state_tail
      BY <1>1, <2>5 DEF check_state_tail
    <2> QED BY <1>7, <2>1, <2>2, <2>3, <2>4, <2>5, QueueIovHInv, IssueEndHInv, CompleteFailedHInv
            DEF Loop
  <1>8. CASE kick
    BY <1>8, KickHInv
  <1>9. CASE pause
    BY <1>1, <1>9 DEF pause
  <1>10. CASE resume
    BY <1>1, <1>10 DEF resume
  <1>11. ASSUME NEW fl \in OpenFlags, open_image(fl) PROVE HInv'
    BY <1>1, <1>11 DEF open_image
  <1>12. CASE close_image
    BY <1>1, <1>12 DEF close_image
  <1>13. CASE detach_vbd
    BY <1>1, <1>13 DEF detach_vbd
  <1>14. CASE sigint
    BY <1>1, <1>14 DEF sigint
  <1>15. CASE kill_queue
    BY <1>15, HInvKept DEF kill_queue, reqs, ctl
  <1>16. CASE UNCHANGED vars
    BY <1>16, HInvKept DEF vars, reqs, ctl
  <1> QED BY <1>2, <1>3, <1>4, <1>5, <1>6, <1>7, <1>8, <1>9, <1>10, <1>11, <1>12, <1>13, <1>14,
             <1>15, <1>16 DEF Next

(* what counts is in the chain as long as it is open                        *)
LEMMA HonestAnswers == ASSUME Single, IInv, CInv, HInv PROVE AnswersHonest
  <1>1. ASSUME images # <<>> PROVE Target \in InChain
    <2>1. OpenedChain \/ FailedOver
      BY <1>1 DEF CInv, ChainShape, ClosedChain
    <2>2. CASE Plain
      <3>1. Head(images) = "leaf" /\ Head(images) \in InChain
        BY <2>1, <2>2, Members
      <3> QED BY <2>2, <3>1 DEF Target
    <2>3. CASE ~Plain
      <3>1. Mirroring
        BY <2>3 DEF Single
      <3> QED BY <2>1, <2>3, <3>1, Members DEF Target
    <2> QED BY <2>2, <2>3
  <1> QED BY <1>1 DEF AnswersHonest, HInv, Slot, Transferred, Counts

(* A request is answered with success only if each of its sectors was       *)
(* transferred, for a write to an image that later reads consult: however   *)
(* the drivers split, forward, fail and retry it, for every number of       *)
(* requests, iovs and sectors; with a mirror, for requests of one iov.      *)
THEOREM AnswersAreHonest == ASSUME Single PROVE Spec => []AnswersHonest
  <1>1. Steady
    BY DEF Single, Steady
  <1>2. Init => IInv /\ CInv /\ HInv
    BY InitIInv, InitCInv, InitHInv
  <1>3. IInv /\ CInv /\ HInv /\ [Next]_vars => (IInv /\ CInv /\ HInv)'
    BY <1>1, NextIInv, NextCInv, NextHInv
  <1>4. IInv /\ CInv /\ HInv => AnswersHonest
    BY HonestAnswers
  <1> QED BY <1>2, <1>3, <1>4, PTL DEF Spec
-----------------------------------------------------------------------------
(* Refinement.  BlockDevice sees of a request its phase, what its attempt    *)
(* moved and whether it succeeded, and of the vbd that its queue is quiet.   *)
(* Each operation of Vbd changes this for one request, for requests that     *)
(* were waiting (refused together) or answered (returned together), or for   *)
(* the queue alone; Wholes is what AnswersHonest gives for the moved sectors.*)

(* a step of BlockDevice, or nothing it sees                                *)
Step ==
    BD!Next \/ UNCHANGED <<[r \in Reqs |-> Phase(r)], [r \in Reqs |-> Moved(r)],
                           {r \in Reqs : Succeeded(r)}, "QUIESCED" \in state>>

Wholes == \A r \in Reqs : Succeeded(r) => Moved(r) = Sectors

(* a request answered with success moved all of its sectors                  *)
LEMMA SuccessIsWhole == ASSUME IInv, AnswersHonest PROVE Wholes
  <1> SUFFICES ASSUME NEW r \in Reqs, Succeeded(r) PROVE Moved(r) = Sectors
    BY DEF Wholes
  <1>1. Moved(r) = {p[1] : p \in served[r]} /\ served[r] \subseteq Sectors \X (Images \cup {FreedImage})
    BY DEF Moved, IInv, TypeOK
  <1>2. \A s \in Sectors : \E p \in served[r] : p[1] = s
    BY DEF AnswersHonest, Succeeded
  <1> QED BY <1>1, <1>2

(* What BlockDevice sees of a request.                                      *)
Same(r) == Phase(r)' = Phase(r) /\ Moved(r)' = Moved(r) /\ (Succeeded(r)' <=> Succeeded(r))

(* what the list a request is on says of it                                  *)
LEMMA RequestSeen ==
    ASSUME NEW r
    PROVE  /\ Succeeded(r) => Phase(r) = "answered"
           /\ Phase(r) \in {"idle", "waiting"} \/ (Phase(r) = "answered" /\ ~Succeeded(r)) => Moved(r) = {}
           /\ where[r] = "free" => Phase(r) = "idle"
           /\ where[r] \in {"new", "failed"} => Phase(r) = "waiting"
           /\ where[r] = "pending" => Phase(r) = "working" /\ Moved(r) = {p[1] : p \in served[r]}
           /\ where[r] = "completed" => Phase(r) = "answered"
  BY DEF Phase, Moved, Succeeded

(* ... and in the next state                                                 *)
LEMMA RequestSeenNext ==
    ASSUME NEW r
    PROVE  /\ Succeeded(r)' => Phase(r)' = "answered"
           /\ Phase(r)' \in {"idle", "waiting"} \/ (Phase(r)' = "answered" /\ ~Succeeded(r)') => Moved(r)' = {}
           /\ where'[r] = "free" => Phase(r)' = "idle"
           /\ where'[r] \in {"new", "failed"} => Phase(r)' = "waiting"
           /\ where'[r] = "pending" => Phase(r)' = "working" /\ Moved(r)' = {p[1] : p \in served'[r]}
           /\ where'[r] = "completed" => Phase(r)' = "answered"
           /\ Succeeded(r)' <=> where'[r] = "completed" /\ error'[r] = "none"
  BY DEF Phase, Moved, Succeeded

(* nothing is seen of a request whose list, error and sectors stay           *)
LEMMA Unseen ==
    ASSUME NEW r, where'[r] = where[r], error'[r] = error[r], served'[r] = served[r]
    PROVE  Same(r)
  BY DEF Same, Phase, Moved, Succeeded

(* Steps of one request.                                                    *)
Begins(r)    == Phase(r) = "waiting" /\ Phase(r)' = "working" /\ Moved(r)' = {} /\ ~Has("QUIESCED")
Moves(r)     == /\ Phase(r) = "working" /\ Phase(r)' = "working"
                /\ Moved(r) \subseteq Moved(r)' /\ Moved(r)' \subseteq Sectors
Succeeds(r)  == Phase(r) = "working" /\ Succeeded(r)' /\ Moved(r)' = Sectors
Fails(r)     == Phase(r) = "working" /\ Phase(r)' \in {"waiting", "answered"} /\ ~Succeeded(r)'
Submitted(r) == Phase(r) = "idle" /\ Phase(r)' = "waiting"
Refused(r)   == Phase(r) = "waiting" /\ Phase(r)' = "answered" /\ ~Succeeded(r)'

(* a step of one request is a step of BlockDevice                            *)
LEMMA OneRequest ==
    ASSUME NEW r \in Reqs, \A x \in Reqs \ {r} : Same(x), state' = state,
           \/ Same(r) \/ Begins(r) \/ Moves(r) \/ Succeeds(r) \/ Fails(r) \/ Submitted(r) \/ Refused(r)
    PROVE  Step
  <1> DEFINE P == [x \in Reqs |-> Phase(x)]
             M == [x \in Reqs |-> Moved(x)]
             S == {x \in Reqs : Succeeded(x)}
  <1>1. /\ P' = [x \in Reqs |-> IF x \in {r} THEN Phase(r)' ELSE P[x]]
        /\ M' = [M EXCEPT ![r] = Moved(r)']
        /\ P[r] = Phase(r) /\ M[r] = Moved(r)
    BY DEF Same
  <1>2. /\ Succeeded(r)' => S' = S \cup {r}
        /\ (Succeeded(r)' <=> Succeeded(r)) => S' = S
    BY DEF Same
  <1>3. ("QUIESCED" \in state)' = ("QUIESCED" \in state)
    OBVIOUS
  <1>4. /\ Moved(r)' = Moved(r) => M' = M
        /\ Phase(r)' = Phase(r) => P' = P
    BY <1>1
  <1>5. CASE Same(r)
    BY <1>2, <1>3, <1>4, <1>5 DEF Same, Step
  <1>6. CASE Begins(r)
    <2>1. BD!Begin(r)
      BY <1>1, <1>2, <1>3, <1>4, <1>6, RequestSeen, RequestSeenNext DEF Begins, BD!Begin, BD!To, Has
    <2> QED BY <2>1 DEF Step, BD!Next
  <1>7. CASE Moves(r)
    <2>1. Moved(r)' = M[r] \cup Moved(r)' /\ Moved(r)' \in SUBSET Sectors
      BY <1>1, <1>7 DEF Moves
    <2>2. \E T \in SUBSET Sectors : M' = [M EXCEPT ![r] = @ \cup T]
      BY <1>1, <2>1
    <2>3. BD!Move(r)
      BY <1>1, <1>2, <1>3, <1>4, <1>7, <2>2, RequestSeen, RequestSeenNext DEF Moves, BD!Move
    <2> QED BY <2>3 DEF Step, BD!Next
  <1>8. CASE Succeeds(r)
    <2>1. BD!Succeed(r)
      BY <1>1, <1>2, <1>3, <1>8, RequestSeen, RequestSeenNext DEF Succeeds, BD!Succeed, BD!To
    <2> QED BY <2>1 DEF Step, BD!Next
  <1>9. CASE Fails(r)
    <2>1. BD!Fail(r)
      BY <1>1, <1>2, <1>3, <1>9, RequestSeen, RequestSeenNext DEF Fails, BD!Fail, BD!To
    <2> QED BY <2>1 DEF Step, BD!Next
  <1>10. CASE Submitted(r)
    <2>1. BD!Submit(r)
      BY <1>1, <1>2, <1>3, <1>4, <1>10, RequestSeen, RequestSeenNext DEF Submitted, BD!Submit, BD!To
    <2> QED BY <2>1 DEF Step, BD!Next
  <1>11. CASE Refused(r)
    <2>1. BD!Refuse({r})
      <3>1. {r} # {} /\ {r} \subseteq {x \in Reqs : P[x] = "waiting"}
        BY <1>1, <1>11 DEF Refused
      <3>2. P' = [x \in Reqs |-> IF x \in {r} THEN "answered" ELSE P[x]] /\ M' = M /\ S' = S
        BY <1>1, <1>2, <1>4, <1>11, RequestSeen, RequestSeenNext DEF Refused
      <3> HIDE DEF P, M, S
      <3> QED BY <3>1, <3>2, <1>3 DEF BD!Refuse, BD!To, BD!In, P, M, S
    <2> QED BY <2>1 DEF Step, BD!Next
  <1> QED BY <1>5, <1>6, <1>7, <1>8, <1>9, <1>10, <1>11

(* Steps of the state alone.                                                *)
LEMMA StateStep ==
    ASSUME UNCHANGED <<where, error, served>>, TypeOK,
           Has("QUIESCED")' => Has("QUIESCED") \/ On("pending") = {}
    PROVE  Step
  <1> DEFINE P == [x \in Reqs |-> Phase(x)]
             M == [x \in Reqs |-> Moved(x)]
             S == {x \in Reqs : Succeeded(x)}
  <1>1. \A x \in Reqs : Same(x)
    BY Unseen
  <1>2. P' = P /\ M' = M /\ S' = S
    BY <1>1 DEF Same
  <1>3. CASE ("QUIESCED" \in state') = ("QUIESCED" \in state)
    BY <1>2, <1>3 DEF Step
  <1>4. CASE "QUIESCED" \in state' /\ "QUIESCED" \notin state
    <2>1. \A x \in Reqs : P[x] # "working"
      BY <1>4 DEF Has, On, TypeOK, Phase, Lists
    <2>2. BD!Quiesce
      BY <1>2, <1>4, <2>1 DEF BD!Quiesce, BD!In
    <2> QED BY <2>2 DEF Step, BD!Next
  <1>5. CASE "QUIESCED" \notin state' /\ "QUIESCED" \in state
    <2>1. BD!Unquiesce
      BY <1>2, <1>5 DEF BD!Unquiesce
    <2> QED BY <2>1 DEF Step, BD!Next
  <1> QED BY <1>3, <1>4, <1>5

(* Requests that were waiting are answered with errors.                     *)
LEMMA RefusedStep ==
    ASSUME state' = state, served' = served, 
           \A x \in Reqs : \/ where'[x] = where[x] /\ error'[x] = error[x]
                           \/ where[x] \in {"new", "failed"} /\ where'[x] = "completed" /\ error'[x] # "none"
    PROVE  Step
  <1> DEFINE P == [x \in Reqs |-> Phase(x)]
             M == [x \in Reqs |-> Moved(x)]
             S == {x \in Reqs : Succeeded(x)}
             R == {x \in Reqs : Phase(x)' # Phase(x)}
  <1>1. \A x \in Reqs : Same(x) \/ Refused(x)
    BY Unseen, RequestSeen, RequestSeenNext DEF Refused
  <1>2. M' = M /\ S' = S
    <2>1. \A x \in Reqs : Moved(x)' = Moved(x) /\ (Succeeded(x)' <=> Succeeded(x))
      BY <1>1, RequestSeen, RequestSeenNext DEF Same, Refused
    <2> QED BY <2>1
  <1>3. P' = [x \in Reqs |-> IF x \in R THEN "answered" ELSE P[x]] /\ R \subseteq {x \in Reqs : P[x] = "waiting"}
    BY <1>1 DEF Same, Refused
  <1>4. CASE R = {}
    <2>1. P' = P
      BY <1>4
    <2> QED BY <1>2, <2>1 DEF Step
  <1>5. CASE R # {}
    <2>1. ("QUIESCED" \in state)' = ("QUIESCED" \in state) /\ R \in SUBSET Reqs
      OBVIOUS
    <2> HIDE DEF P, M, S, R
    <2>2. BD!Refuse(R)
      BY <1>2, <1>3, <1>5, <2>1 DEF BD!Refuse, BD!To, BD!In, P, M, S
    <2> QED BY <2>1, <2>2 DEF Step, BD!Next
  <1> QED BY <1>4, <1>5

(* tapdisk_vbd_kick returns all that are answered.                          *)
LEMMA KickStep ==
    ASSUME IInv, kick PROVE Step
  <1> DEFINE P == [x \in Reqs |-> Phase(x)]
             M == [x \in Reqs |-> Moved(x)]
             S == {x \in Reqs : Succeeded(x)}
             R == On("completed")
  <1>1. R # {} /\ R \in SUBSET Reqs /\ ("QUIESCED" \in state)' = ("QUIESCED" \in state)
    BY DEF kick, On
  <1>2. \A x \in R : Phase(x) = "answered" /\ Phase(x)' = "idle" /\ Moved(x)' = {} /\ ~Succeeded(x)'
    <2> TAKE x \in R
    <2>1. where[x] = "completed" /\ where'[x] = "free" /\ x \in Reqs
      BY DEF kick, On
    <2> QED BY <2>1, RequestSeen, RequestSeenNext
  <1>3. \A x \in Reqs \ R : Same(x)
    <2> TAKE x \in Reqs \ R
    <2>1. where'[x] = where[x] /\ error'[x] = error[x] /\ served'[x] = served[x]
      BY DEF kick
    <2> QED BY <2>1, Unseen
  <1> HIDE DEF R
  <1>4. /\ P' = [x \in Reqs |-> IF x \in R THEN "idle" ELSE P[x]]
        /\ M' = [x \in Reqs |-> IF x \in R THEN {} ELSE M[x]]
        /\ S' = S \ R /\ R \subseteq {x \in Reqs : P[x] = "answered"}
    BY <1>1, <1>2, <1>3 DEF Same
  <1> HIDE DEF P, M, S
  <1>5. BD!Return(R)
    BY <1>1, <1>4 DEF BD!Return, BD!To, BD!In, P, M, S
  <1> QED BY <1>1, <1>5 DEF Step, BD!Next

(* A step of a request with the drivers: what it moved, and how it ends.    *)
LEMMA WorkStep ==
    ASSUME IInv, IInv', Wholes', NEW r \in Reqs, where[r] = "pending", served[r] \subseteq served'[r], state' = state,
           where'[r] \in {"pending", "failed", "completed"},
           \A x \in Reqs \ {r} : where'[x] = where[x] /\ error'[x] = error[x] /\ served'[x] = served[x]
    PROVE  Step
  <1>1. \A x \in Reqs \ {r} : Same(x)
    BY Unseen
  <1>2. Phase(r) = "working" /\ Moved(r) = {p[1] : p \in served[r]}
    BY RequestSeen
  <1>3. CASE where'[r] = "pending"
    <2>1. Phase(r)' = "working" /\ Moved(r)' = {p[1] : p \in served'[r]}
      BY <1>3, RequestSeenNext
    <2>2. served'[r] \subseteq Sectors \X (Images \cup {FreedImage})
      BY DEF IInv, TypeOK, Sectors
    <2>3. Moves(r)
      BY <1>2, <2>1, <2>2 DEF Moves
    <2> QED BY <1>1, <2>3, OneRequest
  <1>4. CASE where'[r] # "pending" /\ Succeeded(r)'
    <2>1. Moved(r)' = Sectors
      BY <1>4 DEF Wholes, Sectors
    <2>2. Succeeds(r)
      BY <1>2, <1>4, <2>1 DEF Succeeds
    <2> QED BY <1>1, <2>2, OneRequest
  <1>5. CASE where'[r] # "pending" /\ ~Succeeded(r)'
    <2>1. Fails(r)
      BY <1>2, <1>5, RequestSeenNext DEF Fails
    <2> QED BY <1>1, <2>1, OneRequest
  <1> QED BY <1>3, <1>4, <1>5

(* tapdisk_vbd_queue_request submits                                         *)
LEMMA QueueRequestStep ==
    ASSUME IInv, NEW r \in Reqs, NEW o \in Ops, queue_request(r, o) PROVE Step
  <1>1. /\ state' = state /\ where[r] = "free" /\ where'[r] = "new"
        /\ \A x \in Reqs \ {r} : where'[x] = where[x] /\ error'[x] = error[x] /\ served'[x] = served[x]
    BY DEF queue_request, IInv, TypeOK
  <1>2. Submitted(r)
    BY <1>1, RequestSeen, RequestSeenNext DEF Submitted
  <1>3. \A x \in Reqs \ {r} : Same(x)
    BY <1>1, Unseen
  <1> QED BY <1>1, <1>2, <1>3, OneRequest

(* complete_td_request and forward_request, by the effects named above      *)
LEMMA CompleteTdStep ==
    ASSUME IInv, IInv', Wholes', NEW r \in Reqs, NEW img, NEW U \in SUBSET io[r],
           NEW res \in Results, complete_td_request(r, U, img, res)
    PROVE  Step
  <1>1. state' = state /\ io[r] # {} /\ where[r] = "pending"
    BY DEF complete_td_request, IInv, BufferSafe
  <1>2. \E e : Answer(r, U, e)
    BY DEF complete_td_request
  <1>3. PICK e : Answer(r, U, e)
    BY <1>2
  <1>4. /\ \A x \in Reqs : x # r => error'[x] = error[x]
        /\ where' = where \/ where' = [where EXCEPT ![r] = complete_vbd_request(r, error'[r])]
    BY <1>3, AnswerEffect
  <1>5. /\ where'[r] \in {"pending", "failed", "completed"}
        /\ \A x \in Reqs : x # r => where'[x] = where[x]
    BY <1>1, <1>4, Destinations DEF IInv, TypeOK
  <1>6. Store(r, U) \/ UNCHANGED served
    BY DEF complete_td_request
  <1>7. served[r] \subseteq served'[r] /\ \A x \in Reqs : x # r => served'[x] = served[x]
    BY <1>6, StoreEffect
  <1> QED BY <1>1, <1>4, <1>5, <1>7, WorkStep

(* a forwarded read moves the zeroed sectors                                 *)
LEMMA ForwardStep ==
    ASSUME IInv, IInv', Wholes', NEW r \in Reqs, NEW img, NEW U \in SUBSET io[r],
           forward_request(r, U, img)
    PROVE  Step
  <1>1. state' = state /\ io[r] # {} /\ where[r] = "pending"
    BY DEF forward_request, IInv, BufferSafe
  <1>2. /\ \A x \in Reqs : x # r => error'[x] = error[x]
        /\ \E e : where' = where \/ where' = [where EXCEPT ![r] = complete_vbd_request(r, e)]
        /\ (\E S : Store(r, S)) \/ UNCHANGED served
    <2>1. CASE ~queue_ready
      <3>1. Answer(r, U, "EBUSY") /\ UNCHANGED served
        BY <2>1 DEF forward_request
      <3> QED BY <3>1, AnswerEffect
    <2>2. CASE queue_ready
      <3>1. /\ UNCHANGED error
            /\ where' = where \/ where' = [where EXCEPT ![r] = complete_vbd_request(r, error[r])]
            /\ \E S : Store(r, S)
        BY <2>2 DEF forward_request
      <3> QED BY <3>1
    <2> QED BY <2>1, <2>2
  <1>3. /\ where'[r] \in {"pending", "failed", "completed"}
        /\ \A x \in Reqs : x # r => where'[x] = where[x]
    BY <1>1, <1>2, Destinations DEF IInv, TypeOK
  <1>4. served[r] \subseteq served'[r] /\ \A x \in Reqs : x # r => served'[x] = served[x]
    BY <1>2, StoreEffect
  <1> QED BY <1>1, <1>2, <1>3, <1>4, WorkStep

(* timed out and killed requests were waiting, and are answered with errors  *)
LEMMA CheckQueueStep == ASSUME IInv, HInv, check_queue_state PROVE Step
  <1> DEFINE w == [r \in Reqs |-> IF r \in Timed THEN "completed" ELSE where[r]]
             waiting == {r \in Reqs : w[r] \in {"new", "failed"}}
  <1>1. state' = state /\ served' = served
    BY DEF check_queue_state
  <1>2. \/ where' = w /\ error' = error
        \/ /\ where' = [r \in Reqs |-> IF r \in waiting THEN "completed" ELSE w[r]]
           /\ error' = [r \in Reqs |-> IF r \in waiting THEN "ESHUTDOWN" ELSE error[r]]
    BY DEF check_queue_state, kill_requests
  <1>3. \A x \in Reqs : \/ w[x] = where[x]
                        \/ where[x] = "failed" /\ w[x] = "completed" /\ error[x] # "none"
    BY DEF Timed, On, HInv, Slot
  <1>4. \A x \in waiting : w[x] \in {"new", "failed"}
    OBVIOUS
  <1> HIDE DEF w, waiting
  <1>5. \A x \in Reqs : \/ where'[x] = where[x] /\ error'[x] = error[x]
                        \/ where[x] \in {"new", "failed"} /\ where'[x] = "completed" /\ error'[x] # "none"
    <2> TAKE x \in Reqs
    <2>1. CASE where' = w /\ error' = error
      BY <1>3, <2>1
    <2>2. CASE /\ where' = [r \in Reqs |-> IF r \in waiting THEN "completed" ELSE w[r]]
               /\ error' = [r \in Reqs |-> IF r \in waiting THEN "ESHUTDOWN" ELSE error[r]]
      <3>1. CASE x \in waiting
        <4>1. where'[x] = "completed" /\ error'[x] = "ESHUTDOWN"
          BY <2>2, <3>1
        <4>2. where[x] \in {"new", "failed"}
          BY <1>3, <1>4, <3>1
        <4> QED BY <4>1, <4>2
      <3>2. CASE x \notin waiting
        <4>1. where'[x] = w[x] /\ error'[x] = error[x]
          BY <2>2, <3>2
        <4> QED BY <1>3, <4>1
      <3> QED BY <3>1, <3>2
    <2> QED BY <1>2, <2>1, <2>2
  <1> QED BY <1>1, <1>5, RefusedStep

(* shutting down, a failed request keeps its error                           *)
LEMMA CompleteFailedStep ==
    ASSUME IInv, HInv, NEW r \in todo, complete_failed_request(r) PROVE Step
  <1>1. where[r] = "failed" /\ r \in Reqs /\ error[r] # "none"
    BY DEF complete_failed_request, IInv, TypeOK, Walking, submitting, HInv, Slot
  <1>2. complete_vbd_request(r, error[r]) \in {"failed", "completed"}
    BY Destinations
  <1>3. UNCHANGED <<state, error, served>> /\ where' = [where EXCEPT ![r] = complete_vbd_request(r, error[r])]
    BY DEF complete_failed_request
  <1>4. \A x \in Reqs : \/ where'[x] = where[x] /\ error'[x] = error[x]
                        \/ where[x] \in {"new", "failed"} /\ where'[x] = "completed" /\ error'[x] # "none"
    BY <1>1, <1>2, <1>3 DEF IInv, TypeOK
  <1> QED BY <1>3, <1>4, RefusedStep

(* issue_request begins a request on a queue that is not quiesced, or refuses *)
LEMMA IssueStep ==
    ASSUME IInv, HInv, NEW r \in todo, pc = "loop", issue_request(r) PROVE Step
  <1>1. r \in Reqs /\ where[r] \in {"new", "failed"} /\ state' = state
    BY DEF issue_request, IInv, TypeOK, Walking, submitting
  <1>2. Phase(r) = "waiting" /\ Moved(r) = {} /\ ~Succeeded(r)
    BY <1>1, RequestSeen
  <1>3. CASE issue_refused(r)
    <2> DEFINE e == check_request(r)
               d == complete_vbd_request(r, e)
    <2>1. d \in {"failed", "completed"}
      BY Destinations
    <2>2. /\ e # "none" /\ where' = [where EXCEPT ![r] = d]
          /\ error' = [error EXCEPT ![r] = e] /\ served' = [served EXCEPT ![r] = {}]
      BY <1>3 DEF issue_refused
    <2> HIDE DEF d, e
    <2>3. where'[r] = d /\ error'[r] = e
      BY <1>1, <2>2 DEF IInv, TypeOK
    <2>4. \A x \in Reqs \ {r} : where'[x] = where[x] /\ error'[x] = error[x] /\ served'[x] = served[x]
      BY <2>2 DEF IInv, TypeOK
    <2>5. \A x \in Reqs \ {r} : Same(x)
      BY <2>4, Unseen
    <2>6. Same(r) \/ Refused(r)
      BY <1>2, <2>1, <2>2, <2>3, RequestSeenNext DEF Same, Refused
    <2> QED BY <1>1, <2>5, <2>6, OneRequest
  <1>4. CASE issue_begin(r)
    <2>1. ~Has("QUIESCED")
      <3>1. check_queue = "none"
        BY <1>4 DEF issue_begin, check_request
      <3>2. queue_ready
        BY <3>1 DEF check_queue
      <3> QED BY <3>2 DEF queue_ready, Has
    <2>2. where'[r] = "pending" /\ served'[r] = {}
      BY <1>1, <1>4 DEF issue_begin, IInv, TypeOK
    <2>3. \A x \in Reqs \ {r} : where'[x] = where[x] /\ error'[x] = error[x] /\ served'[x] = served[x]
      BY <1>4 DEF issue_begin, IInv, TypeOK
    <2>4. \A x \in Reqs \ {r} : Same(x)
      BY <2>3, Unseen
    <2>5. Begins(r)
      BY <1>2, <2>1, <2>2, RequestSeenNext DEF Begins
    <2> QED BY <1>1, <2>4, <2>5, OneRequest
  <1> QED BY <1>3, <1>4 DEF issue_request

(* a request whose iovs were all answered before issue_request ended         *)
LEMMA IssueEndStep == ASSUME IInv, IInv', Wholes', issue_end PROVE Step
  <1>1. cur \in Reqs /\ where[cur] = "pending" /\ UNCHANGED <<state, error, served>>
    BY DEF issue_end, IInv, TypeOK, Issuing
  <1> DEFINE d == IF secs_pending[cur] = 0 THEN complete_vbd_request(cur, error[cur]) ELSE "pending"
  <1>2. where' = [where EXCEPT ![cur] = d]
    BY DEF issue_end
  <1>3. d \in {"pending", "failed", "completed"}
    BY Destinations
  <1> HIDE DEF d
  <1>4. /\ where'[cur] \in {"pending", "failed", "completed"}
        /\ \A x \in Reqs \ {cur} : where'[x] = where[x]
    BY <1>1, <1>2, <1>3 DEF IInv, TypeOK
  <1> QED BY <1>1, <1>4, WorkStep

(* vbd->state after the operations that pause, quiesce or shut down         *)
LEMMA TailStep == ASSUME IInv, check_state_tail PROVE Step
  <1> DEFINE q == IF Has("QUIESCE_REQUESTED") THEN quiesce_queue(state) ELSE state
             p == IF Has("PAUSE_REQUESTED") THEN paused(q) ELSE q
  <1>1. state \in SUBSET Flags
    BY DEF IInv, TypeOK
  <1>2. q \in SUBSET Flags /\ ("QUIESCED" \in q => "QUIESCED" \in state \/ On("pending") = {})
    BY <1>1, QuiesceQueue
  <1> HIDE DEF q
  <1>3. "QUIESCED" \in p => "QUIESCED" \in state \/ On("pending") = {}
    BY <1>2, PausedState
  <1>4. UNCHANGED reqs /\ (state' = p \/ state' = p \cup {"CLOSED"})
    BY DEF check_state_tail, q
  <1> HIDE DEF p
  <1>5. UNCHANGED <<where, error, served>> /\ (Has("QUIESCED")' => Has("QUIESCED") \/ On("pending") = {})
    BY <1>3, <1>4 DEF reqs, Has
  <1> QED BY <1>5, StateStep DEF IInv

(* Every step of the vbd is a step of the block device, or nothing.         *)
LEMMA NextStep ==
    ASSUME IInv, IInv', HInv, Wholes', [Next]_vars PROVE Step
  <1>1. ASSUME UNCHANGED <<where, error, served>>,
               Has("QUIESCED")' => Has("QUIESCED") \/ On("pending") = {}
        PROVE  Step
    BY <1>1, StateStep DEF IInv
  <1>2. ASSUME UNCHANGED reqs, state' \subseteq state \cup (Flags \ {"QUIESCED"}) PROVE Step
    BY <1>1, <1>2 DEF reqs, Has
  <1>3. state \in SUBSET Flags
    BY DEF IInv, TypeOK
  <1>4. ASSUME NEW r \in Reqs, Driver(r) PROVE Step
    <2>1. PICK img \in Images \cup {FreedImage} : \E U \in SUBSET {u \in io[r] : u.img = img} :
            \/ \E res \in Results : complete_td_request(r, U, img, res)
            \/ forward_request(r, U, img)
      BY <1>4 DEF Driver
    <2>2. PICK U \in SUBSET {u \in io[r] : u.img = img} :
            \/ \E res \in Results : complete_td_request(r, U, img, res)
            \/ forward_request(r, U, img)
      BY <2>1
    <2>3. U \in SUBSET io[r]
      OBVIOUS
    <2> QED BY <2>2, <2>3, CompleteTdStep, ForwardStep
  <1>5. ASSUME NEW r \in Reqs, expire(r) PROVE Step
    BY <1>1, <1>5 DEF expire, Has
  <1>6. CASE recheck_state
    BY <1>2, <1>6 DEF recheck_state
  <1>7. CASE Loop
    <2>1. ASSUME NEW r \in todo, reissue_failed_request(r) PROVE Step
      BY <2>1, IssueStep DEF reissue_failed_request
    <2>2. ASSUME NEW r \in todo, issue_new_request(r) PROVE Step
      BY <2>2, IssueStep DEF issue_new_request
    <2>3. ASSUME NEW r \in todo, skip_failed_request(r) PROVE Step
      BY <1>2, <2>3 DEF skip_failed_request
    <2>4. CASE loop_end
      BY <1>2, <2>4 DEF loop_end
    <2>5. CASE queue_iov
      BY <1>1, <2>5 DEF queue_iov, Has
    <2> QED BY <1>7, <2>1, <2>2, <2>3, <2>4, <2>5, IssueEndStep, TailStep, CompleteFailedStep DEF Loop
  <1>8. CASE pause
    <2>1. UNCHANGED reqs /\ state' = paused(state)
      BY <1>8 DEF pause
    <2>2. "QUIESCED" \in paused(state) => "QUIESCED" \in state \/ On("pending") = {}
      BY <1>3, PausedState
    <2> QED BY <1>1, <2>1, <2>2 DEF reqs, Has
  <1>9. CASE resume
    BY <1>2, <1>9 DEF resume, open_vdi_fails
  <1>10. ASSUME NEW fl \in OpenFlags, open_image(fl) PROVE Step
    BY <1>2, <1>10 DEF open_image, open_vdi_fails
  <1>11. CASE close_image
    BY <1>2, <1>11 DEF close_image, Flags
  <1>12. CASE detach_vbd
    BY <1>2, <1>12 DEF detach_vbd
  <1>13. CASE sigint
    BY <1>2, <1>13 DEF sigint, Flags
  <1>14. CASE kill_queue
    <2>1. UNCHANGED reqs /\ state' = quiesce_queue(state) \cup {"DEAD"}
      BY <1>14 DEF kill_queue
    <2>2. "QUIESCED" \in quiesce_queue(state) => "QUIESCED" \in state \/ On("pending") = {}
      BY <1>3, QuiesceQueue
    <2> QED BY <1>1, <2>1, <2>2 DEF reqs, Has
  <1>15. CASE UNCHANGED vars
    BY <1>2, <1>15 DEF vars
  <1> QED BY <1>4, <1>5, <1>6, <1>7, <1>8, <1>9, <1>10, <1>11, <1>12, <1>13, <1>14, <1>15,
             QueueRequestStep, CheckQueueStep, KickStep DEF Next

(* The vbd implements the block device: each request is answered once, with *)
(* success only when the attempt that is answered moved every sector, a     *)
(* retry starts afresh, no request begins on a quiesced queue and none is   *)
(* with a driver when the queue becomes quiet.                              *)
THEOREM VbdIsBlockDevice == ASSUME Single PROVE Spec => IsBlockDevice
  <1>1. Steady
    BY DEF Single, Steady
  <1>2. Init => IInv /\ CInv /\ HInv
    BY InitIInv, InitCInv, InitHInv
  <1>3. IInv /\ CInv /\ HInv /\ [Next]_vars => (IInv /\ CInv /\ HInv)'
    BY <1>1, NextIInv, NextCInv, NextHInv
  <1>4. IInv /\ CInv /\ HInv => IInv /\ HInv /\ Wholes
    BY HonestAnswers, SuccessIsWhole
  <1>5. Init => BD!Init
    BY DEF Init, BD!Init, Phase, Moved, Succeeded
  <1>6. IInv /\ HInv /\ IInv' /\ Wholes' /\ [Next]_vars
          => [BD!Next]_<<[r \in Reqs |-> Phase(r)], [r \in Reqs |-> Moved(r)],
                        {r \in Reqs : Succeeded(r)}, "QUIESCED" \in state>>
    BY NextStep DEF Step
  <1> QED BY <1>2, <1>3, <1>4, <1>5, <1>6, PTL DEF Spec, BD!Spec, IsBlockDevice
=============================================================================
