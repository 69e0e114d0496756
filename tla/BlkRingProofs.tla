--------------------------- MODULE BlkRingProofs ----------------------------
(***************************************************************************)
(* Proofs about BlkRing for every ring size, every modulus of the indices, *)
(* and every interleaving of guest and backend.  With FailBatch larger     *)
(* than 1 the slots get lost (the run ring_fail shows how), so a request   *)
(* may only fail in a batch of its own.                                    *)
(***************************************************************************)
EXTENDS BlkRing, FiniteSetTheorems, TLAPS

-----------------------------------------------------------------------------
(* Remainders.                                                              *)

LEMMA ModUnique ==
    ASSUME NEW m \in Nat, m > 0, NEW a \in Int, NEW q \in Int, NEW r \in 0 .. (m - 1),
           a = q * m + r
    PROVE  a % m = r
  BY SMT

LEMMA ModQuot ==
    ASSUME NEW m \in Nat, m > 0, NEW a \in Int
    PROVE  \E q \in Int : a = q * m + (a % m)
  <1>1. a % m \in 0 .. (m - 1)
    OBVIOUS
  <1> QED BY <1>1

(* a multiple of the modulus does not count                                 *)
LEMMA ModPeriod ==
    ASSUME NEW m \in Nat, m > 0, NEW a \in Int, NEW b \in Int, b % m = 0
    PROVE  (a - b) % m = a % m
  <1> DEFINE r == a % m
  <1>1. PICK q \in Int : a = q * m + r
    BY ModQuot
  <1>2. PICK p \in Int : b = p * m + (b % m)
    BY ModQuot
  <1>3. r \in 0 .. (m - 1)
    OBVIOUS
  <1> HIDE DEF r
  <1>4. a - b = (q - p) * m + r
    BY <1>1, <1>2, <1>3
  <1>5. a - b \in Int /\ q - p \in Int
    OBVIOUS
  <1> QED BY <1>3, <1>4, <1>5, ModUnique DEF r

(* numbers less than the modulus apart have different remainders            *)
LEMMA ModDiff ==
    ASSUME NEW m \in Nat, m > 0, NEW a \in Int, NEW j \in 1 .. (m - 1)
    PROVE  (a + j) % m # a % m
  <1> DEFINE r == a % m
  <1>1. PICK q \in Int : a = q * m + r
    BY ModQuot
  <1>2. r \in 0 .. (m - 1)
    OBVIOUS
  <1> HIDE DEF r
  <1>3. a + j \in Int /\ q + 1 \in Int
    OBVIOUS
  <1>4. CASE r + j < m
    <2>1. a + j = q * m + (r + j) /\ r + j \in 0 .. (m - 1)
      BY <1>1, <1>2, <1>4
    <2>2. (a + j) % m = r + j
      BY <1>3, <2>1, ModUnique
    <2> QED BY <1>2, <2>2 DEF r
  <1>5. CASE r + j >= m
    <2>1. a + j = (q + 1) * m + (r + j - m) /\ r + j - m \in 0 .. (m - 1)
      BY <1>1, <1>2, <1>5
    <2>2. (a + j) % m = r + j - m
      BY <1>3, <2>1, ModUnique
    <2> QED BY <1>2, <2>2 DEF r
  <1> QED BY <1>2, <1>4, <1>5

-----------------------------------------------------------------------------
(* Free-running indices.                                                    *)

LEMMA Sizes ==
    /\ RingSize \in Nat /\ RingSize > 0
    /\ IdxMod \in Nat /\ IdxMod > 0 /\ IdxMod > RingSize
    /\ IdxMod % RingSize = 0
  BY RingAssumption

LEMMA PlusIs ==
    ASSUME NEW a \in Idx, NEW k \in 0 .. (IdxMod - 1)
    PROVE  /\ Plus(a, k) = IF a + k < IdxMod THEN a + k ELSE a + k - IdxMod
           /\ Plus(a, k) \in Idx
  <1>1. IdxMod \in Nat /\ IdxMod > 0 /\ a \in Int /\ a >= 0 /\ a < IdxMod
    BY Sizes DEF Idx
  <1>2. CASE a + k < IdxMod
    <2>1. a + k = 0 * IdxMod + (a + k) /\ a + k \in 0 .. (IdxMod - 1) /\ a + k \in Int
      BY <1>1, <1>2
    <2>2. (a + k) % IdxMod = a + k
      BY <1>1, <2>1, ModUnique
    <2> QED BY <1>2, <2>1, <2>2 DEF Plus, Idx
  <1>3. CASE a + k >= IdxMod
    <2>1. /\ a + k = 1 * IdxMod + (a + k - IdxMod) /\ a + k - IdxMod \in 0 .. (IdxMod - 1)
          /\ a + k \in Int
      BY <1>1, <1>3
    <2>2. (a + k) % IdxMod = a + k - IdxMod
      BY <1>1, <2>1, ModUnique
    <2> QED BY <1>1, <1>3, <2>1, <2>2 DEF Plus, Idx
  <1> QED BY <1>1, <1>2, <1>3

LEMMA MinusIs ==
    ASSUME NEW a \in Idx, NEW b \in Idx
    PROVE  /\ Minus(a, b) = IF a >= b THEN a - b ELSE a - b + IdxMod
           /\ Minus(a, b) \in 0 .. (IdxMod - 1)
  <1>1. /\ IdxMod \in Nat /\ IdxMod > 0 /\ a \in Int /\ a >= 0 /\ a < IdxMod
        /\ b \in Int /\ b >= 0 /\ b < IdxMod
    BY Sizes DEF Idx
  <1>2. CASE a >= b
    <2>1. a - b = 0 * IdxMod + (a - b) /\ a - b \in 0 .. (IdxMod - 1) /\ a - b \in Int
      BY <1>1, <1>2
    <2>2. (a - b) % IdxMod = a - b
      BY <1>1, <2>1, ModUnique
    <2> QED BY <1>2, <2>1, <2>2 DEF Minus
  <1>3. CASE a < b
    <2>1. /\ a - b = (-1) * IdxMod + (a - b + IdxMod) /\ a - b + IdxMod \in 0 .. (IdxMod - 1)
          /\ a - b \in Int /\ -1 \in Int
      BY <1>1, <1>3
    <2>2. (a - b) % IdxMod = a - b + IdxMod
      BY <1>1, <2>1, ModUnique
    <2> QED BY <1>1, <1>3, <2>1, <2>2 DEF Minus
  <1> QED BY <1>1, <1>2, <1>3

(* distances from a common base add and subtract like numbers               *)
LEMMA Distances ==
    ASSUME NEW a \in Idx, NEW b \in Idx
    PROVE  /\ Plus(b, Minus(a, b)) = a
           /\ \A k \in 0 .. (IdxMod - 1) : Minus(Plus(a, k), a) = k
           /\ \A k \in Nat : Minus(a, b) + k < IdxMod => Minus(Plus(a, k), b) = Minus(a, b) + k
           /\ \A c \in Idx : Minus(b, c) <= Minus(a, c) => Minus(a, b) = Minus(a, c) - Minus(b, c)
           /\ \A k \in 1 .. (IdxMod - 1) :
                 k <= Minus(a, b) => Minus(a, Plus(b, k)) = Minus(a, b) - k
           /\ \A j, k \in Nat : j + k < IdxMod => Plus(Plus(a, j), k) = Plus(a, j + k)
  <1>1. /\ IdxMod \in Nat /\ IdxMod > 0 /\ a \in Int /\ a >= 0 /\ a < IdxMod
        /\ b \in Int /\ b >= 0 /\ b < IdxMod
    BY Sizes DEF Idx
  <1>2. Plus(b, Minus(a, b)) = a
    <2> DEFINE d == Minus(a, b)
    <2>1. d = (IF a >= b THEN a - b ELSE a - b + IdxMod) /\ d \in 0 .. (IdxMod - 1)
      BY MinusIs
    <2> HIDE DEF d
    <2>2. Plus(b, d) = IF b + d < IdxMod THEN b + d ELSE b + d - IdxMod
      BY <2>1, PlusIs
    <2>3. Plus(b, d) = a
      BY <1>1, <2>1, <2>2
    <2> QED BY <2>3 DEF d
  <1>3. \A k \in 0 .. (IdxMod - 1) : Minus(Plus(a, k), a) = k
    <2> TAKE k \in 0 .. (IdxMod - 1)
    <2>1. /\ Plus(a, k) = IF a + k < IdxMod THEN a + k ELSE a + k - IdxMod
          /\ Plus(a, k) \in Idx
      BY PlusIs
    <2> QED BY <1>1, <2>1, MinusIs
  <1>4. \A k \in Nat : Minus(a, b) + k < IdxMod => Minus(Plus(a, k), b) = Minus(a, b) + k
    <2> TAKE k \in Nat
    <2> HAVE Minus(a, b) + k < IdxMod
    <2>1. /\ Minus(a, b) = IF a >= b THEN a - b ELSE a - b + IdxMod
          /\ Minus(a, b) >= 0 /\ Minus(a, b) \in Int
      BY MinusIs
    <2>2. k \in 0 .. (IdxMod - 1)
      BY <1>1, <2>1
    <2>3. /\ Plus(a, k) = IF a + k < IdxMod THEN a + k ELSE a + k - IdxMod
          /\ Plus(a, k) \in Idx
      BY <2>2, PlusIs
    <2>4. Minus(Plus(a, k), b) = IF Plus(a, k) >= b THEN Plus(a, k) - b ELSE Plus(a, k) - b + IdxMod
      BY <2>3, MinusIs
    <2> QED BY <1>1, <2>1, <2>2, <2>3, <2>4
  <1>5. \A c \in Idx : Minus(b, c) <= Minus(a, c) => Minus(a, b) = Minus(a, c) - Minus(b, c)
    <2> TAKE c \in Idx
    <2>1. c \in Int /\ c >= 0 /\ c < IdxMod
      BY <1>1 DEF Idx
    <2> QED BY <1>1, <2>1, MinusIs
  <1>6. \A k \in 1 .. (IdxMod - 1) :
           k <= Minus(a, b) => Minus(a, Plus(b, k)) = Minus(a, b) - k
    <2> TAKE k \in 1 .. (IdxMod - 1)
    <2> HAVE k <= Minus(a, b)
    <2>1. k \in 0 .. (IdxMod - 1)
      BY <1>1
    <2>2. /\ Plus(b, k) = IF b + k < IdxMod THEN b + k ELSE b + k - IdxMod
          /\ Plus(b, k) \in Idx
      BY <2>1, PlusIs
    <2>3. Minus(a, Plus(b, k)) = IF a >= Plus(b, k) THEN a - Plus(b, k)
                                 ELSE a - Plus(b, k) + IdxMod
      BY <2>2, MinusIs
    <2>4. Minus(a, b) = IF a >= b THEN a - b ELSE a - b + IdxMod
      BY MinusIs
    <2> QED BY <1>1, <2>1, <2>2, <2>3, <2>4
  <1>7. \A j, k \in Nat : j + k < IdxMod => Plus(Plus(a, j), k) = Plus(a, j + k)
    <2> TAKE j, k \in Nat
    <2> HAVE j + k < IdxMod
    <2>1. j \in 0 .. (IdxMod - 1) /\ k \in 0 .. (IdxMod - 1) /\ j + k \in 0 .. (IdxMod - 1)
      BY <1>1
    <2>2. /\ Plus(a, j) = IF a + j < IdxMod THEN a + j ELSE a + j - IdxMod
          /\ Plus(a, j) \in Idx
      BY <2>1, PlusIs
    <2>3. Plus(Plus(a, j), k) = IF Plus(a, j) + k < IdxMod THEN Plus(a, j) + k
                                ELSE Plus(a, j) + k - IdxMod
      BY <2>1, <2>2, PlusIs
    <2>4. Plus(a, j + k) = IF a + (j + k) < IdxMod THEN a + (j + k) ELSE a + (j + k) - IdxMod
      BY <2>1, PlusIs
    <2> QED BY <1>1, <2>1, <2>2, <2>3, <2>4
  <1> QED BY <1>2, <1>3, <1>4, <1>5, <1>6, <1>7

(* a window of RingSize indices uses each cell of the ring once             *)
LEMMA CellsDiffer ==
    ASSUME NEW a \in Idx, NEW j \in 0 .. (RingSize - 1), NEW k \in 0 .. (RingSize - 1),
           Cell(Plus(a, j)) = Cell(Plus(a, k))
    PROVE  j = k
  <1>1. \A x \in Nat : x < IdxMod => Cell(Plus(a, x)) = (a + x) % RingSize
    <2> TAKE x \in Nat
    <2> HAVE x < IdxMod
    <2>1. a + x \in Int /\ a \in Int /\ IdxMod \in Int /\ IdxMod % RingSize = 0
          /\ RingSize \in Nat /\ RingSize > 0
      BY Sizes DEF Idx
    <2> DEFINE y == a + x
    <2>2. (y - IdxMod) % RingSize = y % RingSize
      <3> HIDE DEF y
      <3>1. y \in Int
        BY <2>1 DEF y
      <3> QED BY <2>1, <3>1, ModPeriod
    <2>3. x \in 0 .. (IdxMod - 1)
      BY Sizes
    <2> HIDE DEF y
    <2>4. Plus(a, x) = IF y < IdxMod THEN y ELSE y - IdxMod
      <3>1. Plus(a, x) = IF a + x < IdxMod THEN a + x ELSE a + x - IdxMod
        BY <2>3, PlusIs
      <3>2. a \in Int /\ x \in Int /\ IdxMod \in Int
        BY <2>1
      <3> QED BY <3>1, <3>2 DEF y
    <2>5. Cell(Plus(a, x)) = y % RingSize
      BY <2>2, <2>4 DEF Cell
    <2> QED BY <2>5 DEF y
  <1>2. j \in Nat /\ k \in Nat /\ j < IdxMod /\ k < IdxMod /\ a \in Int
    BY Sizes DEF Idx
  <1>3. (a + j) % RingSize = (a + k) % RingSize
    BY <1>1, <1>2
  <1>4. ASSUME NEW x \in 0 .. (RingSize - 1), NEW y \in 0 .. (RingSize - 1), x < y,
               (a + x) % RingSize = (a + y) % RingSize
        PROVE  FALSE
    <2>1. y - x \in 1 .. (RingSize - 1) /\ a + x \in Int /\ a + y = (a + x) + (y - x)
      BY <1>2, <1>4, Sizes
    <2>2. ((a + x) + (y - x)) % RingSize # (a + x) % RingSize
      BY <2>1, Sizes, ModDiff
    <2> QED BY <1>4, <2>1, <2>2
  <1> QED BY <1>2, <1>3, <1>4

LEMMA CellIn == ASSUME NEW a \in Idx PROVE Cell(a) \in Cells
  BY Sizes DEF Cell, Cells, Idx

-----------------------------------------------------------------------------
(* The inductive invariant.  Indices are told by their distance from         *)
(* rsp_cons, the oldest entry of the ring the guest may still look at.  The  *)
(* stack reqs_free holds, from position Lo on, the slots that are not with   *)
(* the vbd: from Lo to Mid those of the batch, then the free ones.           *)

Off(x) == Minus(x, rsp_cons)

Order ==
    /\ Off(rsp_prod) <= Off(rsp_prod_pvt)
    /\ Off(rsp_prod_pvt) <= Off(req_cons)
    /\ Off(req_cons) <= Off(req_prod)
    /\ Off(req_prod) <= Off(req_prod_pvt)
    /\ Off(req_prod_pvt) <= RingSize

Queueing == bpc = "queue" \/ (bpc = "notify" /\ ret = "queue")

Mid == RingSize - n_reqs_free + (IF Reading THEN n ELSE 0)
Lo  == IF Reading THEN RingSize - start
       ELSE IF Queueing /\ i < n THEN RingSize - start + i ELSE Mid

Stack ==
    /\ 0 <= Lo /\ Lo <= Mid /\ Mid <= RingSize
    /\ \A p, q \in Lo .. (RingSize - 1) : reqs_free[p] = reqs_free[q] => p = q
    /\ \A p \in Lo .. (RingSize - 1) : reqs_free[p] \notin vbd
    /\ \A s \in Slots \ vbd : \E p \in Lo .. (RingSize - 1) : reqs_free[p] = s
    /\ Cardinality(vbd) = Lo

(* a batch is queued from its first slot on; nothing of it is freed before  *)
(* the last one, or it is a batch of one                                    *)
Batching ==
    /\ Queueing => i <= n /\ (i < n => n_reqs_free = start - n)
    /\ bpc = "notify" /\ ret = "queue" => i = n
    /\ bpc = "kick" => todo # {}

(* as many requests are read but not answered as slots are in use           *)
Count == Off(req_cons) - Off(rsp_prod_pvt) = Mid

(* Every id in flight is in one place: at a distance k of the ring, as an    *)
(* unconsumed response or an unread request, or in a slot that is in use.    *)
At(k) == ring[Cell(Plus(rsp_cons, k))]
Used  == (0 .. (Off(rsp_prod_pvt) - 1)) \cup (Off(req_cons) .. (Off(req_prod_pvt) - 1))
Held  == {s \in Slots : \A p \in Mid .. (RingSize - 1) : reqs_free[p] # s}

Placed ==
    /\ \A j, k \in Used : At(j) = At(k) => j = k
    /\ \A s, t \in Held : msg[s] = msg[t] => s = t
    /\ \A k \in Used, s \in Held : At(k) # msg[s]
    /\ \A k \in Used : At(k) \in Ids \ free_ids
    /\ \A s \in Held : msg[s] \in Ids \ free_ids
    /\ \A id \in Ids \ free_ids : (\E k \in Used : At(k) = id) \/ (\E s \in Held : msg[s] = id)

(* the type invariant, one conjunct for each variable                       *)
Typed ==
    /\ ring \in [Cells -> Ids \cup {NoId}]
    /\ req_prod \in Idx /\ req_event \in Idx /\ rsp_prod \in Idx /\ rsp_event \in Idx
    /\ req_prod_pvt \in Idx /\ rsp_cons \in Idx /\ gold \in Idx
    /\ req_cons \in Idx /\ rsp_prod_pvt \in Idx /\ old \in Idx
    /\ evt_back \in BOOLEAN /\ evt_front \in BOOLEAN /\ connected \in BOOLEAN
    /\ final \in BOOLEAN /\ errors \in BOOLEAN
    /\ free_ids \subseteq Ids
    /\ gpc \in {"run", "pushed", "irq", "recheck"}
    /\ reqs_free \in [Cells -> Slots]
    /\ n_reqs_free \in 0 .. RingSize /\ start \in 0 .. RingSize
    /\ msg \in [Slots -> Ids \cup {NoId}]
    /\ vbd \subseteq Slots /\ todo \subseteq vbd
    /\ bpc \in {"idle", "get", "enable", "recheck", "copy", "got", "queue", "notify", "kick"}
    /\ n \in 0 .. RingSize /\ i \in 0 .. RingSize
    /\ ret \in {"idle", "queue"}

IInv == Typed /\ Order /\ Stack /\ Batching /\ Count /\ Placed

LEMMA TypedOK == TypeOK <=> Typed
  <1>1. TypeOK => Typed
    BY DEF TypeOK, Typed
  <1>2. Typed => TypeOK
    BY DEF TypeOK, Typed
  <1> QED BY <1>1, <1>2

(* the distances of the indices of an ordered ring                          *)
LEMMA Offsets ==
    ASSUME Typed, Order
    PROVE  /\ Off(rsp_prod) \in Nat /\ Off(rsp_prod_pvt) \in Nat /\ Off(req_cons) \in Nat
           /\ Off(req_prod) \in Nat /\ Off(req_prod_pvt) \in Nat
           /\ Off(rsp_prod) <= Off(rsp_prod_pvt)
           /\ Off(rsp_prod_pvt) <= Off(req_cons)
           /\ Off(req_cons) <= Off(req_prod)
           /\ Off(req_prod) <= Off(req_prod_pvt)
           /\ Off(req_prod_pvt) <= RingSize
  <1>1. \A x \in Idx : Off(x) \in Nat
    BY MinusIs, Sizes DEF Off, Typed
  <1> QED BY <1>1 DEF Typed, Order

(* the next index is one further                                            *)
LEMMA Next1 ==
    ASSUME Typed, NEW x \in Idx, Off(x) <= RingSize
    PROVE  Off(Plus(x, 1)) = Off(x) + 1 /\ Plus(x, 1) \in Idx
  <1>1. Off(x) \in Nat /\ rsp_cons \in Idx /\ Off(x) + 1 < IdxMod
    BY MinusIs, RingAssumption DEF Off, Typed
  <1>2. 1 \in Nat /\ 1 \in 0 .. (IdxMod - 1)
    BY RingAssumption
  <1>3. Minus(x, rsp_cons) + 1 < IdxMod
    BY <1>1 DEF Off
  <1>4. Minus(Plus(x, 1), rsp_cons) = Minus(x, rsp_cons) + 1
    BY <1>1, <1>2, <1>3, Distances
  <1> QED BY <1>2, <1>4, PlusIs DEF Off

(* an index a distance beyond another                                       *)
LEMMA Beyond ==
    ASSUME Typed, NEW x \in Idx, NEW k \in Nat, Off(x) + k < IdxMod
    PROVE  Plus(x, k) = Plus(rsp_cons, Off(x) + k)
  <1>1. Off(x) \in Nat /\ rsp_cons \in Idx /\ Plus(rsp_cons, Off(x)) = x
    BY MinusIs, Distances, Sizes DEF Off, Typed
  <1> QED BY <1>1, Distances

(* a write to the ring changes one distance only                            *)
LEMMA WriteAt ==
    ASSUME Typed, NEW x \in Idx, NEW v, Off(x) < RingSize,
           ring' = [ring EXCEPT ![Cell(x)] = v], rsp_cons' = rsp_cons
    PROVE  \A k \in 0 .. (RingSize - 1) : At(k)' = IF k = Off(x) THEN v ELSE At(k)
  <1> TAKE k \in 0 .. (RingSize - 1)
  <1>1. Off(x) \in 0 .. (RingSize - 1) /\ rsp_cons \in Idx /\ Plus(rsp_cons, Off(x)) = x
    BY MinusIs, Distances, Sizes DEF Off, Typed
  <1>2. Plus(rsp_cons, k) \in Idx
    BY <1>1, PlusIs, Sizes
  <1>3. Cell(Plus(rsp_cons, k)) \in Cells /\ Cell(x) \in Cells
    BY <1>2, CellIn
  <1>4. k # Off(x) => Cell(Plus(rsp_cons, k)) # Cell(x)
    BY <1>1, CellsDiffer
  <1>5. ring \in [Cells -> Ids \cup {NoId}]
    BY DEF Typed
  <1>6. At(k)' = ring'[Cell(Plus(rsp_cons, k))]
    BY DEF At, Plus, Cell
  <1> QED BY <1>1, <1>3, <1>4, <1>5, <1>6 DEF At

-----------------------------------------------------------------------------
(* What a step leaves alone.                                                *)

LEMMA OrderFrame ==
    ASSUME Order, UNCHANGED <<req_prod, rsp_prod, req_prod_pvt, rsp_cons, req_cons, rsp_prod_pvt>>
    PROVE  Order'
  BY DEF Order, Off, Minus

LEMMA StackFrame ==
    ASSUME Stack, UNCHANGED <<reqs_free, vbd>>, Lo' = Lo, Mid' = Mid
    PROVE  Stack'
  BY DEF Stack

LEMMA CountFrame ==
    ASSUME Count, UNCHANGED <<rsp_cons, req_cons, rsp_prod_pvt>>, Mid' = Mid
    PROVE  Count'
  BY DEF Count, Off, Minus

LEMMA PlacedFrame ==
    ASSUME Placed, Mid' = Mid,
           UNCHANGED <<ring, rsp_cons, rsp_prod_pvt, req_cons, req_prod_pvt, free_ids, msg, reqs_free>>
    PROVE  Placed'
  <1>1. Used' = Used
    BY DEF Used, Off, Minus
  <1>2. Held' = Held
    BY DEF Held
  <1>3. \A k : At(k)' = At(k)
    BY DEF At, Plus, Cell
  <1> QED BY <1>1, <1>2, <1>3 DEF Placed

LEMMA InitIInv == Init => IInv
  <1> SUFFICES ASSUME Init PROVE IInv
    OBVIOUS
  <1>2. Typed
    <2>1. 0 \in Idx /\ 1 \in Idx /\ 0 \in 0 .. RingSize /\ RingSize \in 0 .. RingSize
      BY Sizes, RingAssumption DEF Idx
    <2>2. reqs_free \in [Cells -> Slots]
      BY Sizes DEF Init, Cells, Slots
    <2>3. ring \in [Cells -> Ids \cup {NoId}] /\ msg \in [Slots -> Ids \cup {NoId}]
      BY DEF Init
    <2> QED BY <2>1, <2>2, <2>3 DEF Init, Typed
  <1>3. \A x \in Idx : x = 0 => Off(x) = 0
    BY MinusIs, Sizes DEF Init, Off, Idx
  <1>4. /\ Off(rsp_prod) = 0 /\ Off(rsp_prod_pvt) = 0 /\ Off(req_cons) = 0
        /\ Off(req_prod) = 0 /\ Off(req_prod_pvt) = 0
    BY <1>2, <1>3 DEF Init, Typed
  <1>5. Mid = 0 /\ Lo = 0
    BY Sizes DEF Init, Mid, Lo, Reading, Queueing
  <1>6. Order
    BY <1>4, Sizes DEF Order
  <1>7. Stack
    <2>1. \A p \in 0 .. (RingSize - 1) : reqs_free[p] = RingSize - p
      BY DEF Init, Cells
    <2>2. \A s \in Slots : RingSize - s \in 0 .. (RingSize - 1) /\ RingSize - (RingSize - s) = s
      BY Sizes DEF Slots
    <2>3. Cardinality(vbd) = 0
      BY FS_EmptySet DEF Init
    <2>4. vbd = {}
      BY DEF Init
    <2> QED BY <2>1, <2>2, <2>3, <2>4, <1>5, Sizes DEF Stack
  <1>8. Batching
    BY DEF Init, Batching, Queueing
  <1>9. Count
    BY <1>4, <1>5 DEF Count
  <1>10. Placed
    <2>1. Used = {}
      BY <1>4 DEF Used
    <2>2. Held = {}
      <3>1. \A s \in Slots : RingSize - s \in 0 .. (RingSize - 1) /\ RingSize - (RingSize - s) = s
        BY Sizes DEF Slots
      <3>2. \A p \in 0 .. (RingSize - 1) : reqs_free[p] = RingSize - p
        BY DEF Init, Cells
      <3> QED BY <3>1, <3>2, <1>5 DEF Held
    <2> QED BY <2>1, <2>2 DEF Placed, Init
  <1> QED BY <1>2, <1>6, <1>7, <1>8, <1>9, <1>10 DEF IInv

(* a step of the control only: the two lists and the ring stay as they are  *)
LEMMA Kept ==
    ASSUME IInv, Typed', Batching', Lo' = Lo, Mid' = Mid,
           UNCHANGED <<ring, req_prod, rsp_prod, req_prod_pvt, rsp_cons, req_cons, rsp_prod_pvt>>,
           UNCHANGED <<free_ids, reqs_free, msg, vbd>>
    PROVE  IInv'
  <1>1. Order'
    BY OrderFrame DEF IInv
  <1>2. Stack'
    BY StackFrame DEF IInv
  <1>3. Count'
    BY CountFrame DEF IInv
  <1>4. Placed'
    BY PlacedFrame DEF IInv
  <1> QED BY <1>1, <1>2, <1>3, <1>4 DEF IInv

(* a step of the guest does not move the marks of the stack                 *)
LEMMA MarksKept ==
    ASSUME UNCHANGED <<bpc, n, start, i, ret, n_reqs_free>>
    PROVE  /\ Lo' = Lo /\ Mid' = Mid
           /\ Batching /\ todo' = todo => Batching'
  BY DEF Lo, Mid, Reading, Queueing, Batching

LEMMA GuestControl ==
    ASSUME IInv, guest_notify \/ guest_irq \/ guest_final \/ guest_recheck
    PROVE  IInv'
  <1>1. UNCHANGED <<slots, back>> /\ UNCHANGED <<ring, req_prod, rsp_prod, req_prod_pvt, rsp_cons, free_ids>>
    BY DEF guest_notify, guest_irq, guest_final, guest_recheck, slots, back, shared
  <1>2. Lo' = Lo /\ Mid' = Mid /\ Batching'
    BY <1>1, MarksKept DEF IInv, slots, back
  <1>3. Plus(rsp_cons, 1) \in Idx
    BY PlusIs, Sizes, RingAssumption DEF IInv, Typed
  <1>4. Typed'
    <2>1. CASE guest_notify
      <3>1. 0 \in Idx
        BY Sizes DEF Idx
      <3>2. evt_back' \in BOOLEAN
        BY <2>1 DEF guest_notify, IInv, Typed
      <3> QED BY <2>1, <3>1, <3>2 DEF IInv, Typed, guest_notify, slots, back
    <2>2. CASE guest_irq
      BY <2>2 DEF IInv, Typed, guest_irq, slots, back
    <2>3. CASE guest_final
      BY <2>3, <1>3 DEF IInv, Typed, guest_final, slots, back
    <2>4. CASE guest_recheck
      BY <2>4 DEF IInv, Typed, guest_recheck, slots, back, shared
    <2> QED BY <2>1, <2>2, <2>3, <2>4
  <1> QED BY <1>1, <1>2, <1>4, Kept DEF slots, back

LEMMA BackendControl ==
    ASSUME IInv,
           ring_event \/ get_requests \/ enable_events \/ final_check \/ notify \/ disconnect
             \/ \E C \in SUBSET Slots : kick(C)
    PROVE  IInv'
  <1>1. /\ UNCHANGED <<ring, req_prod, rsp_prod, req_prod_pvt, rsp_cons, free_ids>>
        /\ UNCHANGED slots
    BY DEF ring_event, get_requests, enable_events, final_check, notify, disconnect, kick,
           slots, shared, guest
  <1>2. /\ UNCHANGED <<req_cons, rsp_prod_pvt, reqs_free, msg, vbd, n_reqs_free>>
        /\ n_reqs_free \in Int /\ RingSize \in Int /\ n \in Int /\ start \in Int /\ i \in Int
    BY <1>1, Sizes DEF slots, IInv, Typed
  <1>3. Plus(req_cons, 1) \in Idx /\ 0 \in Idx /\ 0 \in 0 .. RingSize
    BY PlusIs, Sizes, RingAssumption DEF IInv, Typed, Idx
  <1>4. Typed /\ Batching
    BY DEF IInv
  <1>5. CASE ring_event
    <2>1. Typed'
      BY <1>1, <1>3, <1>4, <1>5 DEF Typed, ring_event, slots, guest
    <2>2. Lo' = Lo /\ Mid' = Mid
      BY <1>2, <1>5 DEF ring_event, Lo, Mid, Reading, Queueing
    <2>3. Batching'
      BY <1>5 DEF ring_event, Batching, Queueing
    <2> QED BY <1>1, <1>2, <2>1, <2>2, <2>3, Kept
  <1>6. CASE get_requests \/ enable_events \/ final_check
    <2>1. /\ bpc' \in {"get", "enable", "recheck", "copy", "got"} /\ Reading
          /\ UNCHANGED <<n, start, i, ret, todo>>
      BY <1>6 DEF get_requests, enable_events, final_check, Reading, ReadOrReturn
    <2>2. Typed'
      <3>1. CASE get_requests
        BY <1>1, <1>4, <2>1, <3>1 DEF Typed, get_requests, slots, guest, shared
      <3>2. CASE enable_events
        BY <1>1, <1>3, <1>4, <2>1, <3>2 DEF Typed, enable_events, slots, guest
      <3>3. CASE final_check
        BY <1>1, <1>4, <2>1, <3>3 DEF Typed, final_check, slots, guest, shared
      <3> QED BY <1>6, <3>1, <3>2, <3>3
    <2>3. Lo' = Lo /\ Mid' = Mid
      BY <1>2, <2>1 DEF Lo, Mid, Reading
    <2>4. Batching'
      BY <2>1 DEF Batching, Queueing
    <2> QED BY <1>1, <1>2, <2>2, <2>3, <2>4, Kept
  <1>7. CASE notify
    <2>1. Typed'
      <3>1. evt_front' \in BOOLEAN
        BY <1>7, <1>4 DEF notify, Typed
      <3> QED BY <1>1, <1>3, <1>4, <1>7, <3>1 DEF Typed, notify, slots, guest
    <2>2. /\ bpc = "notify" /\ bpc' = ret /\ ret' = "idle" /\ UNCHANGED <<n, start, i, todo>>
          /\ ret \in {"idle", "queue"}
      BY <1>7, <1>4 DEF notify, Typed
    <2>3. Lo' = Lo /\ Mid' = Mid
      <3>1. ret = "queue" => i = n
        BY <2>2, <1>4 DEF Batching
      <3>2. Mid' = RingSize - n_reqs_free /\ Mid = RingSize - n_reqs_free
        BY <1>2, <2>2 DEF Mid, Reading
      <3>3. Lo' = Mid' /\ Lo = Mid
        BY <1>2, <2>2, <3>1 DEF Lo, Reading, Queueing
      <3> QED BY <3>2, <3>3
    <2>4. Batching'
      <3>1. ret = "queue" => i = n
        BY <2>2, <1>4 DEF Batching
      <3> QED BY <1>2, <2>2, <3>1 DEF Batching, Queueing
    <2> QED BY <1>1, <1>2, <2>1, <2>3, <2>4, Kept
  <1>8. CASE disconnect
    <2>1. Typed'
      BY <1>1, <1>4, <1>8 DEF Typed, disconnect, slots, guest, back, shared
    <2>2. Lo' = Lo /\ Mid' = Mid /\ Batching'
      BY <1>2, <1>4, <1>8, MarksKept DEF disconnect, back
    <2> QED BY <1>1, <1>2, <2>1, <2>2, Kept
  <1>9. CASE \E C \in SUBSET Slots : kick(C)
    <2>1. PICK C \in SUBSET Slots : kick(C)
      BY <1>9
    <2>2. Typed'
      BY <1>1, <1>4, <2>1 DEF Typed, kick, slots, guest, shared
    <2>3. Lo' = Lo /\ Mid' = Mid
      BY <1>2, <2>1 DEF kick, Lo, Mid, Reading, Queueing
    <2>4. Batching'
      BY <2>1 DEF kick, Batching, Queueing
    <2> QED BY <1>1, <1>2, <2>2, <2>3, <2>4, Kept
  <1> QED BY <1>5, <1>6, <1>7, <1>8, <1>9

(* the batch read is complete, or joined by another read                    *)
LEMMA GotRequests == ASSUME IInv, got_requests PROVE IInv'
  <1>1. /\ UNCHANGED <<ring, req_prod, rsp_prod, req_prod_pvt, rsp_cons, free_ids>>
        /\ UNCHANGED <<req_cons, rsp_prod_pvt, reqs_free, msg, vbd, ret, todo>>
    BY DEF got_requests, shared, guest
  <1>2. /\ n_reqs_free \in 0 .. RingSize /\ RingSize \in Int /\ n \in 0 .. RingSize
        /\ start \in 0 .. RingSize
        /\ Reading /\ Mid = RingSize - n_reqs_free + n /\ Lo = RingSize - start
    BY Sizes DEF IInv, Typed, got_requests, Mid, Lo, Reading
  <1>3. 0 <= Lo /\ Lo <= Mid /\ Mid <= RingSize
    BY DEF IInv, Stack
  <1>4. CASE n > 0
    <2>1. /\ n_reqs_free' = n_reqs_free - n /\ n' = 0 /\ final' = TRUE /\ bpc' = "get"
          /\ start' = start /\ i' = i
      BY <1>4 DEF got_requests
    <2>2. n_reqs_free' \in 0 .. RingSize /\ n' \in 0 .. RingSize
      BY <1>2, <1>3, <2>1
    <2>3. Typed'
      BY <1>1, <2>1, <2>2 DEF got_requests, IInv, Typed, shared, guest
    <2>4. Lo' = Lo /\ Mid' = Mid
      BY <1>2, <2>1 DEF Lo, Mid, Reading
    <2>5. Batching'
      BY <2>1 DEF Batching, Queueing
    <2> QED BY <1>1, <2>3, <2>4, <2>5, Kept
  <1>5. CASE ~(n > 0)
    <2>1. /\ bpc' = IF start = n_reqs_free THEN "idle" ELSE "queue"
          /\ n' = start - n_reqs_free
          /\ start' = IF start = n_reqs_free THEN 0 ELSE start
          /\ i' = 0 /\ final' = FALSE /\ n_reqs_free' = n_reqs_free
      BY <1>5 DEF got_requests
    <2>2. n = 0 /\ n' \in 0 .. RingSize /\ start' \in 0 .. RingSize /\ i' \in 0 .. RingSize
      BY <1>2, <1>3, <1>5, <2>1
    <2>3. Typed'
      BY <1>1, <2>1, <2>2 DEF got_requests, IInv, Typed, shared, guest
    <2>4. Mid' = Mid
      BY <1>2, <2>1, <2>2 DEF Mid, Reading
    <2>5. CASE start = n_reqs_free
      <3>1. Lo' = Lo
        BY <1>2, <2>1, <2>2, <2>5 DEF Lo, Mid, Reading, Queueing
      <3>2. Batching'
        BY <2>1, <2>5 DEF Batching, Queueing
      <3> QED BY <1>1, <2>3, <2>4, <3>1, <3>2, Kept
    <2>6. CASE start # n_reqs_free
      <3>1. bpc' = "queue" /\ start' = start /\ i' < n' /\ i' = 0
        BY <1>2, <1>3, <2>1, <2>2, <2>6
      <3>2. Lo' = Lo
        <4>1. Lo' = RingSize - start' + i'
          BY <3>1 DEF Lo, Reading, Queueing
        <4> QED BY <1>2, <3>1, <4>1
      <3>3. Batching'
        BY <1>2, <2>1, <3>1 DEF Batching, Queueing
      <3> QED BY <1>1, <2>3, <2>4, <3>2, <3>3, Kept
    <2> QED BY <2>5, <2>6
  <1> QED BY <1>4, <1>5

LEMMA GuestPush == ASSUME IInv, guest_push PROVE IInv'
  <1>1. /\ UNCHANGED <<ring, rsp_prod, req_prod_pvt, rsp_cons, free_ids>>
        /\ UNCHANGED <<slots, back>> /\ req_prod' = req_prod_pvt
    BY DEF guest_push
  <1>2. UNCHANGED <<req_cons, rsp_prod_pvt, reqs_free, n_reqs_free, msg, vbd, bpc, n, start, i, ret, todo>>
    BY <1>1 DEF slots, back
  <1>3. Lo' = Lo /\ Mid' = Mid /\ Batching'
    BY <1>2, MarksKept DEF IInv
  <1>4. Typed'
    BY DEF guest_push, IInv, Typed, slots, back
  <1>5. Order'
    <2>1. \A x : Off(x)' = Off(x')
      BY <1>1 DEF Off, Minus
    <2>2. /\ Off(rsp_prod)' = Off(rsp_prod) /\ Off(rsp_prod_pvt)' = Off(rsp_prod_pvt)
          /\ Off(req_cons)' = Off(req_cons) /\ Off(req_prod_pvt)' = Off(req_prod_pvt)
          /\ Off(req_prod)' = Off(req_prod_pvt)
      BY <1>1, <1>2 DEF Off, Minus
    <2>3. Typed /\ Order
      BY DEF IInv
    <2> QED BY <2>2, <2>3, Offsets, Sizes DEF Order
  <1>6. Stack' /\ Count' /\ Placed'
    BY <1>1, <1>2, <1>3, StackFrame, CountFrame, PlacedFrame DEF IInv
  <1> QED BY <1>3, <1>4, <1>5, <1>6 DEF IInv

(* after errors everything answered so far is published once more           *)
LEMMA QueueRequestsEnd == ASSUME IInv, queue_requests_end PROVE IInv'
  <1>1. /\ UNCHANGED <<ring, req_prod, req_prod_pvt, rsp_cons, free_ids>>
        /\ UNCHANGED <<req_cons, rsp_prod_pvt, reqs_free, n_reqs_free, msg, vbd, todo, final, connected>>
        /\ bpc = "queue" /\ i = n /\ bpc' \in {"idle", "notify"}
        /\ n' = 0 /\ i' = 0 /\ start' = 0 /\ errors' = FALSE
        /\ rsp_prod' \in {rsp_prod, rsp_prod_pvt} /\ old' \in {rsp_prod, old}
        /\ ret' \in {"idle", ret} /\ (bpc' = "notify" => ret' = "idle")
    BY DEF queue_requests_end, slots, guest
  <1>2. Typed'
    <2>1. 0 \in 0 .. RingSize
      BY Sizes
    <2> QED BY <1>1, <2>1 DEF queue_requests_end, IInv, Typed, guest
  <1>3. Lo' = Lo /\ Mid' = Mid
    <2>1. n \in Int /\ ~(n < n)
      BY DEF IInv, Typed
    <2>2. Mid = RingSize - n_reqs_free + 0 /\ Mid' = RingSize - n_reqs_free + 0
      BY <1>1 DEF Mid, Reading
    <2>3. Lo = Mid /\ Lo' = Mid'
      BY <1>1, <2>1 DEF Lo, Reading, Queueing
    <2> QED BY <2>2, <2>3
  <1>4. Batching'
    BY <1>1 DEF Batching, Queueing
  <1>5. Order'
    <2>1. /\ Off(rsp_prod_pvt)' = Off(rsp_prod_pvt) /\ Off(req_cons)' = Off(req_cons)
          /\ Off(req_prod_pvt)' = Off(req_prod_pvt) /\ Off(req_prod)' = Off(req_prod)
          /\ Off(rsp_prod)' \in {Off(rsp_prod), Off(rsp_prod_pvt)}
      BY <1>1 DEF Off, Minus
    <2>2. Typed /\ Order
      BY DEF IInv
    <2> QED BY <2>1, <2>2, Offsets, Sizes DEF Order
  <1>6. Stack' /\ Count' /\ Placed'
    BY <1>1, <1>3, StackFrame, CountFrame, PlacedFrame DEF IInv
  <1> QED BY <1>2, <1>4, <1>5, <1>6 DEF IInv

(* the guest takes an id and puts it beyond its last request                *)
LEMMA GuestPut == ASSUME IInv, NEW id \in Ids, guest_put(id) PROVE IInv'
  <1> DEFINE dg == Off(req_prod_pvt)
  <1>1. /\ UNCHANGED <<req_prod, rsp_prod, rsp_cons>>
        /\ UNCHANGED <<slots, back>> /\ req_prod_pvt' = Plus(req_prod_pvt, 1)
        /\ ring' = [ring EXCEPT ![Cell(req_prod_pvt)] = id]
        /\ id \in free_ids /\ free_ids' = free_ids \ {id}
        /\ dg < RingSize
    BY DEF guest_put, Off
  <1>2. UNCHANGED <<req_cons, rsp_prod_pvt, reqs_free, n_reqs_free, msg, vbd, bpc, n, start, i, ret, todo>>
    BY <1>1 DEF slots, back
  <1>3. Lo' = Lo /\ Mid' = Mid /\ Batching'
    BY <1>2, MarksKept DEF IInv
  <1>4. Typed /\ Order /\ Placed
    BY DEF IInv
  <1>5. /\ Off(rsp_prod) \in Nat /\ Off(rsp_prod_pvt) \in Nat /\ Off(req_cons) \in Nat
        /\ Off(req_prod) \in Nat /\ dg \in Nat /\ RingSize \in Nat
        /\ Off(rsp_prod) <= Off(rsp_prod_pvt)
        /\ Off(rsp_prod_pvt) <= Off(req_cons) /\ Off(req_cons) <= Off(req_prod)
        /\ Off(req_prod) <= dg /\ dg < RingSize
    BY <1>1, <1>4, Offsets, Sizes
  <1>6. Off(Plus(req_prod_pvt, 1)) = dg + 1 /\ Plus(req_prod_pvt, 1) \in Idx
    BY <1>4, <1>5, Next1 DEF Typed
  <1>7. /\ Off(rsp_prod)' = Off(rsp_prod) /\ Off(rsp_prod_pvt)' = Off(rsp_prod_pvt)
        /\ Off(req_cons)' = Off(req_cons) /\ Off(req_prod)' = Off(req_prod)
        /\ Off(req_prod_pvt)' = Off(Plus(req_prod_pvt, 1))
    BY <1>1, <1>2 DEF Off, Minus
  <1> HIDE DEF dg
  <1>8. Typed'
    <2>1. ring' \in [Cells -> Ids \cup {NoId}]
      BY <1>1, <1>4 DEF Typed
    <2> QED BY <1>1, <1>6, <2>1 DEF guest_put, IInv, Typed, slots, back
  <1>9. Order'
    BY <1>5, <1>6, <1>7 DEF Order
  <1>10. Stack' /\ Count'
    BY <1>1, <1>2, <1>3, StackFrame, CountFrame DEF IInv
  <1>11. \A k \in 0 .. (RingSize - 1) : At(k)' = IF k = dg THEN id ELSE At(k)
    BY <1>1, <1>4, WriteAt DEF Typed, dg
  <1>12. Used' = Used \cup {dg} /\ Used \subseteq 0 .. (RingSize - 1) /\ dg \notin Used
    <2>1. Used' = (0 .. (Off(rsp_prod_pvt) - 1)) \cup (Off(req_cons) .. dg)
      BY <1>5, <1>6, <1>7 DEF Used
    <2>2. Used = (0 .. (Off(rsp_prod_pvt) - 1)) \cup (Off(req_cons) .. (dg - 1))
      BY DEF Used, dg
    <2> QED BY <1>5, <2>1, <2>2
  <1>13. Held' = Held
    BY <1>2, <1>3 DEF Held
  <1>14. \A k \in Used' : At(k)' = IF k = dg THEN id ELSE At(k)
    BY <1>5, <1>11, <1>12
  <1>15. Placed'
    <2>1. \A k \in Used : At(k) # id
      BY <1>1, <1>4 DEF Placed
    <2>2. \A s \in Held : msg[s] # id
      BY <1>1, <1>4 DEF Placed
    <2>3. \A j, k \in Used' : At(j)' = At(k)' => j = k
      BY <1>4, <1>12, <1>14, <2>1 DEF Placed
    <2>4. \A s, t \in Held' : msg'[s] = msg'[t] => s = t
      BY <1>2, <1>4, <1>13 DEF Placed
    <2>5. \A k \in Used', s \in Held' : At(k)' # msg'[s]
      BY <1>2, <1>4, <1>12, <1>13, <1>14, <2>2 DEF Placed
    <2>6. \A k \in Used' : At(k)' \in Ids \ free_ids'
      BY <1>1, <1>4, <1>12, <1>14 DEF Placed
    <2>7. \A s \in Held' : msg'[s] \in Ids \ free_ids'
      BY <1>1, <1>2, <1>4, <1>13 DEF Placed
    <2>8. \A x \in Ids \ free_ids' : (\E k \in Used' : At(k)' = x) \/ (\E s \in Held' : msg'[s] = x)
      <3> TAKE x \in Ids \ free_ids'
      <3>1. CASE x = id
        BY <1>12, <1>14, <3>1
      <3>2. CASE x # id
        <4>1. (\E k \in Used : At(k) = x) \/ (\E s \in Held : msg[s] = x)
          BY <1>1, <1>4, <3>2 DEF Placed
        <4> QED BY <1>2, <1>12, <1>13, <1>14, <4>1
      <3> QED BY <3>1, <3>2
    <2> QED BY <2>3, <2>4, <2>5, <2>6, <2>7, <2>8 DEF Placed
  <1> QED BY <1>3, <1>8, <1>9, <1>10, <1>15 DEF IInv

(* the guest takes the oldest response: everything moves one nearer         *)
LEMMA GuestConsume == ASSUME IInv, guest_consume PROVE IInv'
  <1>1. /\ UNCHANGED <<req_prod, rsp_prod, req_prod_pvt, slots, back>>
        /\ rsp_cons # rsp_prod /\ rsp_cons' = Plus(rsp_cons, 1)
        /\ ring' = [ring EXCEPT ![Cell(rsp_cons)] = NoId]
        /\ free_ids' = free_ids \cup {ring[Cell(rsp_cons)]}
    BY DEF guest_consume
  <1>2. UNCHANGED <<req_cons, rsp_prod_pvt, reqs_free, n_reqs_free, msg, vbd, bpc, n, start, i, ret, todo>>
    BY <1>1 DEF slots, back
  <1>3. Lo' = Lo /\ Mid' = Mid /\ Batching'
    BY <1>2, MarksKept DEF IInv
  <1>4. Typed /\ Order /\ Placed
    BY DEF IInv
  <1>5. /\ Off(rsp_prod) \in Nat /\ Off(rsp_prod_pvt) \in Nat /\ Off(req_cons) \in Nat
        /\ Off(req_prod) \in Nat /\ Off(req_prod_pvt) \in Nat /\ RingSize \in Nat
        /\ IdxMod \in Nat /\ IdxMod > RingSize
        /\ Off(rsp_prod) <= Off(rsp_prod_pvt)
        /\ Off(rsp_prod_pvt) <= Off(req_cons) /\ Off(req_cons) <= Off(req_prod)
        /\ Off(req_prod) <= Off(req_prod_pvt) /\ Off(req_prod_pvt) <= RingSize
    BY <1>4, Offsets, Sizes
  <1>6. Off(rsp_prod) >= 1
    <2>1. rsp_prod \in Idx /\ rsp_cons \in Idx /\ rsp_prod \in Int /\ rsp_cons \in Int /\ IdxMod \in Int
      BY <1>4, Sizes DEF Typed, Idx
    <2>2. rsp_cons < IdxMod
      BY <2>1, Sizes DEF Idx
    <2>3. Off(rsp_prod) = IF rsp_prod >= rsp_cons THEN rsp_prod - rsp_cons ELSE rsp_prod - rsp_cons + IdxMod
      BY <2>1, MinusIs DEF Off
    <2>4. rsp_prod >= 0
      BY <2>1, Sizes DEF Idx
    <2> QED BY <1>1, <2>1, <2>2, <2>3, <2>4
  <1>7. \A x \in Idx : Off(x) >= 1 => Minus(x, rsp_cons') = Off(x) - 1
    <2> TAKE x \in Idx
    <2> HAVE Off(x) >= 1
    <2>1. rsp_cons \in Idx /\ 1 \in 1 .. (IdxMod - 1) /\ 1 <= Minus(x, rsp_cons)
      BY <1>4, RingAssumption DEF Typed, Off
    <2>2. Minus(x, Plus(rsp_cons, 1)) = Minus(x, rsp_cons) - 1
      BY <2>1, Distances
    <2> QED BY <1>1, <2>2 DEF Off
  <1>8. /\ Off(rsp_prod)' = Off(rsp_prod) - 1 /\ Off(rsp_prod_pvt)' = Off(rsp_prod_pvt) - 1
        /\ Off(req_cons)' = Off(req_cons) - 1 /\ Off(req_prod)' = Off(req_prod) - 1
        /\ Off(req_prod_pvt)' = Off(req_prod_pvt) - 1
    <2>2. /\ rsp_prod \in Idx /\ rsp_prod_pvt \in Idx /\ req_cons \in Idx /\ req_prod \in Idx
          /\ req_prod_pvt \in Idx
      BY <1>4 DEF Typed
    <2>3. /\ Off(rsp_prod)' = Minus(rsp_prod, rsp_cons') /\ Off(rsp_prod_pvt)' = Minus(rsp_prod_pvt, rsp_cons')
          /\ Off(req_cons)' = Minus(req_cons, rsp_cons') /\ Off(req_prod)' = Minus(req_prod, rsp_cons')
          /\ Off(req_prod_pvt)' = Minus(req_prod_pvt, rsp_cons')
      BY <1>1, <1>2 DEF Off, Minus
    <2> QED BY <1>5, <1>6, <1>7, <2>2, <2>3
  <1>9. Order'
    BY <1>5, <1>6, <1>8 DEF Order
  <1>10. Stack'
    BY <1>2, <1>3, StackFrame DEF IInv
  <1>11. Count'
    <2>1. Off(req_cons) - Off(rsp_prod_pvt) = Mid
      BY DEF IInv, Count
    <2>2. Off(req_cons)' - Off(rsp_prod_pvt)' = Mid'
      BY <1>3, <1>5, <1>8, <2>1
    <2> QED BY <2>2 DEF Count
  <1>12. rsp_cons \in Idx /\ Plus(rsp_cons, 0) = rsp_cons /\ Plus(rsp_cons, 1) \in Idx
    BY <1>4, PlusIs, RingAssumption DEF Typed, Idx
  <1>13. At(0) = ring[Cell(rsp_cons)] /\ 0 \in Used /\ At(0) \in Ids \ free_ids
    BY <1>4, <1>5, <1>6, <1>12 DEF At, Used, Placed
  <1>14. \A k \in 0 .. (RingSize - 2) : At(k)' = At(k + 1)
    <2> TAKE k \in 0 .. (RingSize - 2)
    <2>1. k \in Nat /\ k + 1 \in 0 .. (RingSize - 1) /\ k + 1 # 0 /\ k + 1 < IdxMod /\ 1 + k < IdxMod
          /\ 1 + k = k + 1
      BY <1>5
    <2>2. Plus(Plus(rsp_cons, 1), k) = Plus(rsp_cons, 1 + k)
      BY <1>12, <2>1, Distances
    <2>3. Cell(Plus(rsp_cons, k + 1)) # Cell(Plus(rsp_cons, 0))
      BY <1>5, <1>12, <2>1, CellsDiffer
    <2>4. Plus(rsp_cons, k + 1) \in Idx
      <3>1. k + 1 \in 0 .. (IdxMod - 1)
        BY <1>5, <2>1
      <3> QED BY <1>12, <3>1, PlusIs
    <2>5. Cell(Plus(rsp_cons, k + 1)) \in Cells
      BY <2>4, CellIn
    <2>6. ring'[Cell(Plus(rsp_cons, k + 1))] = ring[Cell(Plus(rsp_cons, k + 1))]
      BY <1>1, <1>4, <1>12, <2>3, <2>5 DEF Typed
    <2>7. At(k)' = ring'[Cell(Plus(Plus(rsp_cons, 1), k))]
      BY <1>1 DEF At, Plus, Cell
    <2> QED BY <2>1, <2>2, <2>6, <2>7 DEF At
  <1>15. /\ \A k \in Used' : k \in Nat /\ k + 1 \in Used /\ k + 1 # 0 /\ At(k)' = At(k + 1)
         /\ \A j \in Used : j # 0 => j - 1 \in Used' /\ At(j - 1)' = At(j)
    <2>1. Used' = (0 .. ((Off(rsp_prod_pvt) - 1) - 1)) \cup ((Off(req_cons) - 1) .. ((Off(req_prod_pvt) - 1) - 1))
      BY <1>8 DEF Used
    <2>2. Used = (0 .. (Off(rsp_prod_pvt) - 1)) \cup (Off(req_cons) .. (Off(req_prod_pvt) - 1))
      BY DEF Used
    <2>3. \A k \in Used' : k \in 0 .. (RingSize - 2) /\ k + 1 \in Used /\ k + 1 # 0
      BY <1>5, <1>6, <2>1, <2>2
    <2>4. \A j \in Used : j # 0 => j - 1 \in Used' /\ j - 1 \in 0 .. (RingSize - 2) /\ (j - 1) + 1 = j
      BY <1>5, <1>6, <2>1, <2>2
    <2>5. \A k \in 0 .. (RingSize - 2) : k \in Nat
      BY <1>5
    <2> QED BY <1>14, <2>3, <2>4, <2>5
  <1>16. Held' = Held
    BY <1>2, <1>3 DEF Held
  <1>17. Typed'
    <2>1. ring' \in [Cells -> Ids \cup {NoId}]
      BY <1>1, <1>4 DEF Typed
    <2>2. free_ids' \subseteq Ids
      BY <1>1, <1>4, <1>13 DEF Typed
    <2> QED BY <1>1, <1>12, <2>1, <2>2 DEF guest_consume, IInv, Typed, slots, back
  <1>18. Placed'
    <2>0. \A x : x \in Ids \ free_ids' <=> x \in Ids \ free_ids /\ x # At(0)
      BY <1>1, <1>13
    <2>1. \A k \in Used' : At(k + 1) # At(0)
      BY <1>4, <1>13, <1>15 DEF Placed
    <2>2. \A s \in Held : msg[s] # At(0)
      BY <1>4, <1>13 DEF Placed
    <2>3. \A j, k \in Used' : At(j)' = At(k)' => j = k
      <3> SUFFICES ASSUME NEW j \in Used', NEW k \in Used', At(j)' = At(k)' PROVE j = k
        OBVIOUS
      <3>1. j + 1 = k + 1
        BY <1>4, <1>15 DEF Placed
      <3> QED BY <1>15, <3>1
    <2>4. \A s, t \in Held' : msg'[s] = msg'[t] => s = t
      BY <1>2, <1>4, <1>16 DEF Placed
    <2>5. \A k \in Used', s \in Held' : At(k)' # msg'[s]
      BY <1>2, <1>4, <1>15, <1>16 DEF Placed
    <2>6. \A k \in Used' : At(k)' \in Ids \ free_ids'
      BY <1>4, <1>15, <2>0, <2>1 DEF Placed
    <2>7. \A s \in Held' : msg'[s] \in Ids \ free_ids'
      BY <1>2, <1>4, <1>16, <2>0, <2>2 DEF Placed
    <2>8. \A x \in Ids \ free_ids' : (\E k \in Used' : At(k)' = x) \/ (\E s \in Held' : msg'[s] = x)
      <3> TAKE x \in Ids \ free_ids'
      <3>1. x \in Ids \ free_ids /\ x # At(0)
        BY <2>0
      <3>2. CASE \E k \in Used : At(k) = x
        <4>1. PICK k \in Used : At(k) = x
          BY <3>2
        <4> QED BY <1>15, <3>1, <4>1
      <3>3. CASE \E s \in Held : msg[s] = x
        BY <1>2, <1>16, <3>3
      <3> QED BY <1>4, <3>1, <3>2, <3>3 DEF Placed
    <2> QED BY <2>3, <2>4, <2>5, <2>6, <2>7, <2>8 DEF Placed
  <1> QED BY <1>3, <1>9, <1>10, <1>11, <1>17, <1>18 DEF IInv

(* a response goes where the oldest request was, and its slot is given back *)
LEMMA Respond ==
    ASSUME Typed, Order, Placed, NEW s \in Held, Off(rsp_prod_pvt) < Off(req_cons),
           ring' = [ring EXCEPT ![Cell(rsp_prod_pvt)] = msg[s]],
           rsp_prod_pvt' = Plus(rsp_prod_pvt, 1),
           UNCHANGED <<req_prod, req_cons, req_prod_pvt, rsp_cons, free_ids, msg>>,
           rsp_prod' \in {rsp_prod, rsp_prod_pvt'},
           \A t : t \in Held' <=> t \in Held /\ t # s
    PROVE  /\ Placed' /\ Order'
           /\ Off(rsp_prod_pvt)' = Off(rsp_prod_pvt) + 1 /\ Off(req_cons)' = Off(req_cons)
           /\ rsp_prod_pvt' \in Idx /\ rsp_prod' \in Idx
           /\ ring' \in [Cells -> Ids \cup {NoId}]
  <1> DEFINE dr == Off(rsp_prod_pvt)
  <1>1. /\ Off(rsp_prod) \in Nat /\ dr \in Nat /\ Off(req_cons) \in Nat
        /\ Off(req_prod) \in Nat /\ Off(req_prod_pvt) \in Nat /\ RingSize \in Nat
        /\ Off(rsp_prod) <= dr
        /\ dr < Off(req_cons) /\ Off(req_cons) <= Off(req_prod)
        /\ Off(req_prod) <= Off(req_prod_pvt) /\ Off(req_prod_pvt) <= RingSize
    BY Offsets, Sizes
  <1>2. Off(Plus(rsp_prod_pvt, 1)) = dr + 1 /\ Plus(rsp_prod_pvt, 1) \in Idx
    BY <1>1, Next1 DEF Typed
  <1>3. \A x : x \in Idx => Minus(x, rsp_cons') = Off(x)
    BY DEF Off
  <1>4. /\ Off(rsp_prod_pvt)' = dr + 1 /\ Off(req_cons)' = Off(req_cons)
        /\ Off(req_prod)' = Off(req_prod) /\ Off(req_prod_pvt)' = Off(req_prod_pvt)
        /\ Off(rsp_prod)' \in {Off(rsp_prod), dr + 1}
    BY <1>2 DEF Off, Minus
  <1>5. \A k \in 0 .. (RingSize - 1) : At(k)' = IF k = dr THEN msg[s] ELSE At(k)
    <2>1. rsp_prod_pvt \in Idx /\ Off(rsp_prod_pvt) < RingSize
      BY <1>1 DEF Typed
    <2> QED BY <2>1, WriteAt
  <1> HIDE DEF dr
  <1>6. Used' = Used \cup {dr} /\ Used \subseteq 0 .. (RingSize - 1) /\ dr \notin Used
    <2>1. Used' = (0 .. dr) \cup (Off(req_cons) .. (Off(req_prod_pvt) - 1))
      BY <1>1, <1>4 DEF Used
    <2>2. Used = (0 .. (dr - 1)) \cup (Off(req_cons) .. (Off(req_prod_pvt) - 1))
      BY DEF Used, dr
    <2> QED BY <1>1, <2>1, <2>2
  <1>7. \A k \in Used' : At(k)' = IF k = dr THEN msg[s] ELSE At(k)
    BY <1>1, <1>5, <1>6
  <1>8. Order'
    BY <1>1, <1>4 DEF Order
  <1>9. Placed'
    <2>3. \A j, k \in Used' : At(j)' = At(k)' => j = k
      BY <1>6, <1>7 DEF Placed
    <2>4. \A u, v \in Held' : msg'[u] = msg'[v] => u = v
      BY DEF Placed
    <2>5. \A k \in Used', v \in Held' : At(k)' # msg'[v]
      BY <1>6, <1>7 DEF Placed
    <2>6. \A k \in Used' : At(k)' \in Ids \ free_ids'
      BY <1>6, <1>7 DEF Placed
    <2>7. \A v \in Held' : msg'[v] \in Ids \ free_ids'
      BY DEF Placed
    <2>8. \A x \in Ids \ free_ids' : (\E k \in Used' : At(k)' = x) \/ (\E v \in Held' : msg'[v] = x)
      <3> TAKE x \in Ids \ free_ids'
      <3>1. CASE \E k \in Used : At(k) = x
        BY <1>6, <1>7, <3>1
      <3>2. CASE x = msg[s]
        BY <1>6, <1>7, <3>2
      <3>3. CASE \E v \in Held : msg[v] = x /\ v # s
        BY <3>3
      <3> QED BY <3>1, <3>2, <3>3 DEF Placed
    <2> QED BY <2>3, <2>4, <2>5, <2>6, <2>7, <2>8 DEF Placed
  <1>10. ring' \in [Cells -> Ids \cup {NoId}]
    <2>1. s \in Slots /\ msg[s] \in Ids \cup {NoId}
      BY DEF Held, Typed
    <2> QED BY <2>1 DEF Typed
  <1>11. rsp_prod_pvt' \in Idx /\ rsp_prod' \in Idx
    BY <1>2 DEF Typed
  <1> QED BY <1>4, <1>8, <1>9, <1>10, <1>11 DEF dr

LEMMA SlotsFinite == IsFiniteSet(Slots) /\ Cardinality(Slots) = RingSize
  BY FS_Interval, Sizes DEF Slots

(* the next request of the batch goes to the vbd                            *)
LEMMA QueueRequest == ASSUME IInv, queue_request PROVE IInv'
  <1> DEFINE s == BatchSlot(i)
  <1>1. /\ UNCHANGED <<ring, req_prod, rsp_prod, req_prod_pvt, rsp_cons, free_ids>>
        /\ UNCHANGED <<req_cons, rsp_prod_pvt, reqs_free, n_reqs_free, msg, bpc, n, start, ret, todo>>
        /\ bpc = "queue" /\ i < n /\ vbd' = vbd \cup {s} /\ i' = i + 1
    BY DEF queue_request, shared, guest
  <1>2. /\ n_reqs_free \in 0 .. RingSize /\ RingSize \in Nat /\ n \in 0 .. RingSize
        /\ start \in 0 .. RingSize /\ i \in 0 .. RingSize
    BY Sizes DEF IInv, Typed
  <1>3. /\ n_reqs_free = start - n
        /\ Mid = RingSize - n_reqs_free /\ Mid' = Mid
        /\ Lo = RingSize - start + i
    BY <1>1, <1>2 DEF IInv, Batching, Queueing, Mid, Lo, Reading
  <1>4. Lo' = Lo + 1 /\ Lo < Mid /\ Mid <= RingSize /\ Lo \in Nat
    <2>1. Lo' = IF i' < n THEN RingSize - start + i' ELSE Mid'
      BY <1>1 DEF Lo, Reading, Queueing
    <2>2. 0 <= Lo /\ Mid <= RingSize
      BY DEF IInv, Stack
    <2> QED BY <1>1, <1>2, <1>3, <2>1, <2>2
  <1>5. s = reqs_free[Lo] /\ s \in Slots
    BY <1>2, <1>3, <1>4, Sizes DEF BatchSlot, IInv, Typed, Cells
  <1> HIDE DEF s
  <1>6. s \notin vbd /\ \A p \in (Lo + 1) .. (RingSize - 1) : reqs_free[p] # s
    BY <1>2, <1>3, <1>4, <1>5 DEF IInv, Stack
  <1>7. Typed'
    <2>1. i' \in 0 .. RingSize
      BY <1>1, <1>2
    <2>2. vbd' \subseteq Slots /\ todo' \subseteq vbd'
      BY <1>1, <1>5 DEF IInv, Typed
    <2> QED BY <1>1, <2>1, <2>2 DEF queue_request, IInv, Typed, guest, shared
  <1>8. Stack'
    <2>1. /\ 0 <= Lo' /\ Lo' <= Mid' /\ Mid' <= RingSize
          /\ Lo' .. (RingSize - 1) \subseteq Lo .. (RingSize - 1)
      BY <1>2, <1>3, <1>4
    <2>2. \A p, q \in Lo' .. (RingSize - 1) : reqs_free'[p] = reqs_free'[q] => p = q
      BY <1>1, <2>1 DEF IInv, Stack
    <2>3. \A p \in Lo' .. (RingSize - 1) : reqs_free'[p] \notin vbd'
      BY <1>1, <1>4, <1>6, <2>1 DEF IInv, Stack
    <2>4. \A t \in Slots \ vbd' : \E p \in Lo' .. (RingSize - 1) : reqs_free'[p] = t
      <3> TAKE t \in Slots \ vbd'
      <3>1. PICK p \in Lo .. (RingSize - 1) : reqs_free[p] = t
        BY <1>1 DEF IInv, Stack
      <3>2. p # Lo
        BY <1>1, <1>5, <3>1
      <3>3. p \in Lo' .. (RingSize - 1)
        BY <1>4, <3>2
      <3> QED BY <1>1, <3>1, <3>3
    <2>5. Cardinality(vbd') = Lo'
      <3>1. IsFiniteSet(vbd) /\ Cardinality(vbd) = Lo
        BY SlotsFinite, FS_Subset DEF IInv, Typed, Stack
      <3> QED BY <1>1, <1>4, <1>6, <3>1, FS_AddElement
    <2> QED BY <2>1, <2>2, <2>3, <2>4, <2>5 DEF Stack
  <1>9. Batching'
    <2>1. i' <= n' /\ (i' < n' => n_reqs_free' = start' - n') /\ bpc' = "queue"
      BY <1>1, <1>2, <1>3
    <2> QED BY <2>1 DEF Batching
  <1>10. Order' /\ Count' /\ Placed'
    BY <1>1, <1>3, OrderFrame, CountFrame, PlacedFrame DEF IInv
  <1> QED BY <1>7, <1>8, <1>9, <1>10 DEF IInv

(* a request of the vbd is answered, its slot goes on top of the stack      *)
LEMMA RequestCb == ASSUME IInv, NEW s \in Slots, request_cb(s) PROVE IInv'
  <1>1. /\ UNCHANGED <<req_prod, req_cons, req_prod_pvt, rsp_cons, free_ids, msg, n, start, i>>
        /\ bpc = "kick" /\ s \in todo /\ vbd' = vbd \ {s} /\ todo' = todo \ {s}
        /\ bpc' = (IF todo = {s} THEN "notify" ELSE "kick") /\ ret' = "idle"
        /\ n_reqs_free' = n_reqs_free + 1
        /\ reqs_free' = [reqs_free EXCEPT ![RingSize - n_reqs_free - 1] = s]
        /\ ring' = [ring EXCEPT ![Cell(rsp_prod_pvt)] = msg[s]]
        /\ rsp_prod_pvt' = Plus(rsp_prod_pvt, 1)
        /\ rsp_prod' \in {rsp_prod, rsp_prod_pvt'} /\ old' \in {rsp_prod, old}
    BY DEF request_cb, put_response, free_request, guest
  <1>2. /\ n_reqs_free \in 0 .. RingSize /\ RingSize \in Nat
        /\ s \in vbd /\ vbd \subseteq Slots
    BY <1>1, Sizes DEF IInv, Typed
  <1>3. Mid = RingSize - n_reqs_free /\ Lo = Mid
    BY <1>1, <1>2 DEF Mid, Lo, Reading, Queueing
  <1>4. IsFiniteSet(vbd) /\ Cardinality(vbd) = Lo /\ Lo \in Nat /\ Lo >= 1
    <2>1. IsFiniteSet(vbd) /\ Cardinality(vbd) = Lo
      BY SlotsFinite, FS_Subset DEF IInv, Typed, Stack
    <2>2. Lo # 0
      BY <1>2, <2>1, FS_EmptySet
    <2> QED BY <1>2, <1>3, <2>1, <2>2
  <1>5. /\ bpc' \in {"notify", "kick"} /\ Lo' = Mid' /\ Mid' = RingSize - n_reqs_free'
    <2>1. bpc' \in {"notify", "kick"}
      BY <1>1
    <2>2. Mid' = RingSize - n_reqs_free' + 0
      BY <2>1 DEF Mid, Reading
    <2>3. Lo' = Mid'
      BY <1>1, <2>1 DEF Lo, Reading, Queueing
    <2> QED BY <1>1, <1>2, <2>1, <2>2, <2>3
  <1>6. Lo' = Lo - 1 /\ Mid' = Lo - 1 /\ n_reqs_free' \in 0 .. RingSize
    BY <1>1, <1>2, <1>3, <1>4, <1>5
  <1>7. \A p \in (Lo - 1) .. (RingSize - 1) :
           reqs_free'[p] = IF p = Lo - 1 THEN s ELSE reqs_free[p]
    <2>1. (Lo - 1) .. (RingSize - 1) \subseteq Cells
      BY <1>2, <1>4 DEF Cells
    <2>2. RingSize - n_reqs_free - 1 = Lo - 1 /\ reqs_free \in [Cells -> Slots]
      BY <1>2, <1>3 DEF IInv, Typed
    <2> QED BY <1>1, <2>1, <2>2
  <1>8. \A p \in Lo .. (RingSize - 1) : reqs_free[p] # s
    BY <1>2 DEF IInv, Stack
  <1>9. s \in Held
    BY <1>2, <1>3, <1>8 DEF Held
  <1>10. \A x : x \in Held' <=> x \in Held /\ x # s
    <2> TAKE x
    <2>1. Lo - 1 \in (Lo - 1) .. (RingSize - 1)
      BY <1>2, <1>3, <1>4, <1>6
    <2>2. \A p \in Lo .. (RingSize - 1) : p \in (Lo - 1) .. (RingSize - 1) /\ p # Lo - 1
      BY <1>2, <1>4
    <2>3. \A p \in (Lo - 1) .. (RingSize - 1) : p # Lo - 1 => p \in Lo .. (RingSize - 1)
      BY <1>2, <1>4
    <2>4. Held' = {y \in Slots : \A p \in (Lo - 1) .. (RingSize - 1) : reqs_free'[p] # y}
      BY <1>6 DEF Held, Slots
    <2>5. Held = {y \in Slots : \A p \in Lo .. (RingSize - 1) : reqs_free[p] # y}
      BY <1>3 DEF Held
    <2> QED BY <1>7, <2>1, <2>2, <2>3, <2>4, <2>5
  <1>11. Off(rsp_prod_pvt) < Off(req_cons)
    <2>1. Off(rsp_prod_pvt) \in Nat /\ Off(req_cons) \in Nat
      BY Offsets DEF IInv
    <2> QED BY <1>3, <1>4, <2>1 DEF IInv, Count
  <1>12. /\ Placed' /\ Order'
         /\ Off(rsp_prod_pvt)' = Off(rsp_prod_pvt) + 1 /\ Off(req_cons)' = Off(req_cons)
         /\ rsp_prod_pvt' \in Idx /\ rsp_prod' \in Idx
         /\ ring' \in [Cells -> Ids \cup {NoId}]
    BY <1>1, <1>9, <1>10, <1>11, Respond DEF IInv
  <1>13. Count'
    <2>1. Off(rsp_prod_pvt) \in Nat /\ Off(req_cons) \in Nat
      BY Offsets DEF IInv
    <2>2. Off(req_cons) - Off(rsp_prod_pvt) = Mid
      BY DEF IInv, Count
    <2>3. Off(req_cons)' - Off(rsp_prod_pvt)' = Mid'
      BY <1>3, <1>4, <1>6, <1>12, <2>1, <2>2
    <2> QED BY <2>3 DEF Count
  <1>14. Typed'
    <2>1. reqs_free' \in [Cells -> Slots]
      BY <1>1 DEF IInv, Typed
    <2>2. vbd' \subseteq Slots /\ todo' \subseteq vbd' /\ old' \in Idx
      BY <1>1 DEF IInv, Typed
    <2>3. UNCHANGED <<req_event, rsp_event, evt_back, evt_front, gold, connected, gpc, final, errors>>
      BY DEF request_cb, guest
    <2> QED BY <1>1, <1>5, <1>6, <1>12, <2>1, <2>2, <2>3 DEF IInv, Typed
  <1>15. Stack'
    <2>0. \A p \in (Lo - 1) .. (RingSize - 1) : p # Lo - 1 => p \in Lo .. (RingSize - 1)
      BY <1>2, <1>4
    <2>1. 0 <= Lo' /\ Lo' <= Mid' /\ Mid' <= RingSize
      BY <1>2, <1>3, <1>4, <1>6
    <2>2. \A p, q \in (Lo - 1) .. (RingSize - 1) : reqs_free'[p] = reqs_free'[q] => p = q
      BY <1>7, <1>8, <2>0 DEF IInv, Stack
    <2>3. \A p \in (Lo - 1) .. (RingSize - 1) : reqs_free'[p] \notin vbd'
      BY <1>1, <1>7, <2>0 DEF IInv, Stack
    <2>4. \A x \in Slots \ vbd' : \E p \in (Lo - 1) .. (RingSize - 1) : reqs_free'[p] = x
      <3> TAKE x \in Slots \ vbd'
      <3>1. CASE x = s
        <4>1. Lo - 1 \in (Lo - 1) .. (RingSize - 1)
          BY <1>2, <1>3, <1>4, <1>6
        <4> QED BY <1>7, <3>1, <4>1
      <3>2. CASE x # s
        <4>1. PICK p \in Lo .. (RingSize - 1) : reqs_free[p] = x
          BY <1>1, <3>2 DEF IInv, Stack
        <4>2. p \in (Lo - 1) .. (RingSize - 1) /\ p # Lo - 1
          BY <1>2, <1>4
        <4> QED BY <1>7, <4>1, <4>2
      <3> QED BY <3>1, <3>2
    <2>5. Cardinality(vbd') = Lo'
      BY <1>1, <1>2, <1>4, <1>6, FS_RemoveElement
    <2> QED BY <1>6, <2>1, <2>2, <2>3, <2>4, <2>5 DEF Stack
  <1>16. Batching'
    BY <1>1 DEF Batching, Queueing
  <1> QED BY <1>12, <1>13, <1>14, <1>15, <1>16 DEF IInv

(* a request fails alone in its batch: its slot is on top of the stack yet  *)
LEMMA FailRequest == ASSUME FailBatch <= 1, IInv, fail_request PROVE IInv'
  <1> DEFINE s == BatchSlot(i)
  <1>1. /\ UNCHANGED <<req_prod, req_cons, req_prod_pvt, rsp_cons, free_ids, msg, vbd, n, start, todo>>
        /\ n <= FailBatch /\ bpc = "queue" /\ i < n /\ i' = i + 1 /\ errors' = TRUE
        /\ bpc' = "notify" /\ ret' = "queue"
        /\ n_reqs_free' = n_reqs_free + 1
        /\ reqs_free' = [reqs_free EXCEPT ![RingSize - n_reqs_free - 1] = s]
        /\ ring' = [ring EXCEPT ![Cell(rsp_prod_pvt)] = msg[s]]
        /\ rsp_prod_pvt' = Plus(rsp_prod_pvt, 1)
        /\ rsp_prod' = rsp_prod_pvt' /\ old' = rsp_prod
    BY DEF fail_request, put_response, free_request, guest
  <1>2. /\ n_reqs_free \in 0 .. RingSize /\ RingSize \in Nat /\ start \in 0 .. RingSize
        /\ i = 0 /\ n = 1 /\ i' = 1
    <2>1. n \in 0 .. RingSize /\ i \in 0 .. RingSize /\ FailBatch \in Int
      BY RingAssumption DEF IInv, Typed
    <2> QED BY <1>1, <2>1, Sizes DEF IInv, Typed
  <1>3. n_reqs_free = start - 1 /\ Mid = RingSize - n_reqs_free /\ Lo = Mid - 1
    <2>1. n_reqs_free = start - 1
      BY <1>1, <1>2 DEF IInv, Batching, Queueing
    <2>2. Mid = RingSize - n_reqs_free /\ Lo = RingSize - start + i
      BY <1>1, <1>2 DEF Mid, Lo, Reading, Queueing
    <2> QED BY <1>2, <2>1, <2>2
  <1>4. Lo \in Nat /\ Mid <= RingSize
    BY <1>2, <1>3 DEF IInv, Stack
  <1>5. s = reqs_free[Lo] /\ Lo \in Cells /\ s \in Slots
    BY <1>2, <1>3, <1>4 DEF BatchSlot, IInv, Typed, Cells
  <1> HIDE DEF s
  <1>6. reqs_free' = reqs_free
    <2>1. RingSize - n_reqs_free - 1 = Lo
      BY <1>2, <1>3
    <2> QED BY <1>1, <1>5, <2>1 DEF IInv, Typed
  <1>7. Lo' = Lo /\ Mid' = Lo /\ n_reqs_free' \in 0 .. RingSize
    <2>1. Mid' = RingSize - n_reqs_free' + 0
      BY <1>1 DEF Mid, Reading
    <2>2. Lo' = Mid'
      BY <1>1, <1>2 DEF Lo, Reading, Queueing
    <2> QED BY <1>1, <1>2, <1>3, <2>1, <2>2
  <1>8. s \in Held
    <2>1. \A p \in Mid .. (RingSize - 1) : p \in Lo .. (RingSize - 1) /\ p # Lo
      BY <1>2, <1>3, <1>4
    <2>2. Lo \in Lo .. (RingSize - 1)
      BY <1>2, <1>3, <1>4
    <2> QED BY <1>5, <2>1, <2>2 DEF Held, IInv, Stack
  <1>9. \A x : x \in Held' <=> x \in Held /\ x # s
    <2> TAKE x
    <2>1. \A p : p \in Lo .. (RingSize - 1) <=> p = Lo \/ p \in Mid .. (RingSize - 1)
      BY <1>2, <1>3, <1>4
    <2>2. Held' = {y \in Slots : \A p \in Lo .. (RingSize - 1) : reqs_free[p] # y}
      BY <1>6, <1>7 DEF Held, Slots
    <2> QED BY <1>5, <2>1, <2>2 DEF Held
  <1>10. Off(rsp_prod_pvt) < Off(req_cons)
    <2>1. Off(rsp_prod_pvt) \in Nat /\ Off(req_cons) \in Nat
      BY Offsets DEF IInv
    <2> QED BY <1>3, <1>4, <2>1 DEF IInv, Count
  <1>11. /\ Placed' /\ Order'
         /\ Off(rsp_prod_pvt)' = Off(rsp_prod_pvt) + 1 /\ Off(req_cons)' = Off(req_cons)
         /\ rsp_prod_pvt' \in Idx /\ rsp_prod' \in Idx
         /\ ring' \in [Cells -> Ids \cup {NoId}]
    BY <1>1, <1>8, <1>9, <1>10, Respond DEF IInv
  <1>12. Count'
    <2>1. Off(rsp_prod_pvt) \in Nat /\ Off(req_cons) \in Nat
      BY Offsets DEF IInv
    <2>2. Off(req_cons) - Off(rsp_prod_pvt) = Mid
      BY DEF IInv, Count
    <2>3. Off(req_cons)' - Off(rsp_prod_pvt)' = Mid'
      BY <1>3, <1>4, <1>7, <1>11, <2>1, <2>2
    <2> QED BY <2>3 DEF Count
  <1>13. Typed'
    <2>1. i' \in 0 .. RingSize /\ old' \in Idx
      BY <1>1, <1>2, Sizes DEF IInv, Typed
    <2>2. UNCHANGED <<req_event, rsp_event, evt_back, evt_front, gold, connected, gpc, final>>
      BY DEF fail_request, guest
    <2> QED BY <1>1, <1>6, <1>7, <1>11, <2>1, <2>2 DEF IInv, Typed
  <1>14. Stack'
    <2>1. 0 <= Lo' /\ Lo' <= Mid' /\ Mid' <= RingSize
      BY <1>2, <1>3, <1>4, <1>7
    <2> QED BY <1>1, <1>6, <1>7, <2>1 DEF IInv, Stack, Slots
  <1>15. Batching'
    BY <1>1, <1>2 DEF Batching, Queueing
  <1> QED BY <1>11, <1>12, <1>13, <1>14, <1>15 DEF IInv

(* the requests up to req_prod move into the next slots: there are enough,  *)
(* as the ring is no larger than the stack                                  *)
LEMMA CopyRequests == ASSUME IInv, copy_requests PROVE IInv'
  <1> DEFINE dc   == Off(req_cons)
             read == Off(req_prod) - Off(req_cons)
             Slot(k) == reqs_free[Mid + k]
  <1>1. /\ UNCHANGED <<ring, req_prod, rsp_prod, req_prod_pvt, rsp_cons, free_ids>>
        /\ UNCHANGED <<rsp_prod_pvt, reqs_free, n_reqs_free, vbd, start, i, ret, todo>>
        /\ bpc = "copy" /\ bpc' = "get"
    BY DEF copy_requests, shared, guest
  <1>2. /\ n_reqs_free \in 0 .. RingSize /\ RingSize \in Nat /\ n \in 0 .. RingSize
        /\ start \in 0 .. RingSize /\ IdxMod \in Nat /\ IdxMod > RingSize
    BY Sizes DEF IInv, Typed
  <1>3. Mid = RingSize - n_reqs_free + n /\ Lo = RingSize - start
    BY <1>1 DEF Mid, Lo, Reading
  <1>4. Lo \in Nat /\ Mid \in Nat /\ Lo <= Mid /\ Mid <= RingSize
    BY <1>2, <1>3 DEF IInv, Stack
  <1>5. /\ Off(rsp_prod) \in Nat /\ Off(rsp_prod_pvt) \in Nat /\ dc \in Nat
        /\ Off(req_prod) \in Nat /\ Off(req_prod_pvt) \in Nat
        /\ Off(rsp_prod) <= Off(rsp_prod_pvt)
        /\ Off(rsp_prod_pvt) <= dc /\ dc <= Off(req_prod)
        /\ Off(req_prod) <= Off(req_prod_pvt) /\ Off(req_prod_pvt) <= RingSize
    BY Offsets DEF IInv
  <1>6. dc - Off(rsp_prod_pvt) = Mid
    BY DEF IInv, Count
  <1>7. Minus(req_prod, req_cons) = read
    <2>1. req_prod \in Idx /\ req_cons \in Idx /\ rsp_cons \in Idx
      BY DEF IInv, Typed
    <2>2. Minus(req_cons, rsp_cons) <= Minus(req_prod, rsp_cons)
      BY <1>5 DEF Off
    <2> QED BY <2>1, <2>2, Distances DEF Off
  <1> HIDE DEF dc, read, Slot
  <1>8. read \in Nat /\ read = Off(req_prod) - dc /\ Mid + read <= RingSize
    BY <1>2, <1>4, <1>5, <1>6 DEF read, dc
  <1>9. ~(read > n_reqs_free - n)
    BY <1>2, <1>3, <1>8
  <1>10. /\ req_cons' = Plus(req_cons, read) /\ n' = n + read
         /\ msg' = [s \in Slots |->
               IF \E k \in 0 .. (read - 1) : Slot(k) = s
               THEN LET k == CHOOSE k \in 0 .. (read - 1) : Slot(k) = s
                    IN  ring[Cell(Plus(req_cons, k))]
               ELSE msg[s]]
    BY <1>3, <1>7, <1>9 DEF copy_requests, Slot
  <1>11. /\ Mid' = Mid + read /\ Lo' = Lo /\ n' \in 0 .. RingSize
    <2>1. Mid' = RingSize - n_reqs_free + n' /\ Lo' = RingSize - start
      BY <1>1 DEF Mid, Lo, Reading
    <2> QED BY <1>2, <1>3, <1>8, <1>10, <2>1
  <1>12. /\ \A k \in 0 .. (read - 1) : Slot(k) \in Slots /\ Slot(k) \notin Held
         /\ \A j, k \in 0 .. (read - 1) : Slot(j) = Slot(k) => j = k
    <2>1. \A k \in 0 .. (read - 1) : /\ Mid + k \in Lo .. (RingSize - 1)
                                     /\ Mid + k \in Mid .. (RingSize - 1) /\ Mid + k \in Cells
      BY <1>2, <1>4, <1>8 DEF Cells
    <2>2. \A k \in 0 .. (read - 1) : Slot(k) \in Slots /\ Slot(k) \notin Held
      BY <2>1 DEF Slot, IInv, Typed, Held
    <2>3. ASSUME NEW j \in 0 .. (read - 1), NEW k \in 0 .. (read - 1), Slot(j) = Slot(k)
          PROVE  j = k
      <3>1. Mid + j = Mid + k
        BY <2>1, <2>3 DEF Slot, IInv, Stack
      <3> QED BY <1>4, <3>1
    <2> QED BY <2>2, <2>3
  <1>13. /\ \A k \in 0 .. (read - 1) : msg'[Slot(k)] = At(dc + k)
         /\ \A s \in Held : msg'[s] = msg[s]
    <2>1. ASSUME NEW k \in 0 .. (read - 1) PROVE msg'[Slot(k)] = ring[Cell(Plus(req_cons, k))]
      <3>1. (CHOOSE j \in 0 .. (read - 1) : Slot(j) = Slot(k)) = k
        BY <1>12
      <3> QED BY <1>10, <1>12, <3>1
    <2>2. ASSUME NEW k \in 0 .. (read - 1) PROVE Plus(req_cons, k) = Plus(rsp_cons, dc + k)
      <3>1. k \in Nat /\ Off(req_cons) + k < IdxMod /\ req_cons \in Idx /\ Typed
        BY <1>2, <1>5, <1>8 DEF dc, IInv, Typed
      <3> QED BY <3>1, Beyond DEF dc
    <2>3. \A s \in Held : s \in Slots /\ ~(\E k \in 0 .. (read - 1) : Slot(k) = s)
      BY <1>12 DEF Held
    <2> QED BY <1>10, <2>1, <2>2, <2>3 DEF At
  <1>14. \A s : s \in Held' <=> s \in Held \/ \E k \in 0 .. (read - 1) : s = Slot(k)
    <2> TAKE s
    <2>1. Held' = {y \in Slots : \A p \in (Mid + read) .. (RingSize - 1) : reqs_free[p] # y}
      BY <1>1, <1>11 DEF Held, Slots
    <2>2. ASSUME s \in Held', s \notin Held PROVE \E k \in 0 .. (read - 1) : s = Slot(k)
      <3>1. PICK p \in Mid .. (RingSize - 1) : reqs_free[p] = s
        BY <2>1, <2>2 DEF Held
      <3>2. p \notin (Mid + read) .. (RingSize - 1)
        BY <2>1, <2>2, <3>1
      <3>3. p - Mid \in 0 .. (read - 1) /\ Mid + (p - Mid) = p
        BY <1>2, <1>4, <1>8, <3>1, <3>2
      <3> QED BY <3>1, <3>3 DEF Slot
    <2>3. ASSUME s \in Held PROVE s \in Held'
      <3>1. \A p \in (Mid + read) .. (RingSize - 1) : p \in Mid .. (RingSize - 1)
        BY <1>4, <1>8
      <3> QED BY <2>1, <2>3, <3>1 DEF Held
    <2>4. ASSUME NEW k \in 0 .. (read - 1) PROVE Slot(k) \in Held'
      <3>1. ASSUME NEW p \in (Mid + read) .. (RingSize - 1) PROVE reqs_free[p] # Slot(k)
        <4>1. p \in Lo .. (RingSize - 1) /\ Mid + k \in Lo .. (RingSize - 1) /\ p # Mid + k
          BY <1>2, <1>4, <1>8
        <4> QED BY <4>1 DEF Slot, IInv, Stack
      <3> QED BY <1>12, <2>1, <3>1
    <2> QED BY <2>2, <2>3, <2>4
  <1>15. /\ req_cons' \in Idx /\ Off(req_cons)' = Off(req_prod)
         /\ Off(rsp_prod)' = Off(rsp_prod) /\ Off(rsp_prod_pvt)' = Off(rsp_prod_pvt)
         /\ Off(req_prod)' = Off(req_prod) /\ Off(req_prod_pvt)' = Off(req_prod_pvt)
    <2>1. Plus(req_cons, Minus(req_prod, req_cons)) = req_prod /\ req_prod \in Idx
      BY Distances DEF IInv, Typed
    <2>2. req_cons' = req_prod
      BY <1>7, <1>10, <2>1
    <2> QED BY <1>1, <2>1, <2>2 DEF Off, Minus
  <1>16. Used' \subseteq Used /\ \A k \in Used : k \notin Used' => \E j \in 0 .. (read - 1) : k = dc + j
    <2>1. Used' = (0 .. (Off(rsp_prod_pvt) - 1)) \cup (Off(req_prod) .. (Off(req_prod_pvt) - 1))
      BY <1>15 DEF Used
    <2>2. Used = (0 .. (Off(rsp_prod_pvt) - 1)) \cup (dc .. (Off(req_prod_pvt) - 1))
      BY DEF Used, dc
    <2>3. Used' \subseteq Used
      BY <1>5, <2>1, <2>2
    <2>4. ASSUME NEW k \in Used, k \notin Used' PROVE \E j \in 0 .. (read - 1) : k = dc + j
      <3>1. k - dc \in 0 .. (read - 1) /\ k = dc + (k - dc)
        BY <1>5, <1>8, <2>1, <2>2, <2>4
      <3> QED BY <3>1
    <2> QED BY <2>3, <2>4
  <1>17. \A k \in 0 .. (read - 1) : dc + k \in Used /\ dc + k \notin Used'
    <2>1. Used' = (0 .. (Off(rsp_prod_pvt) - 1)) \cup (Off(req_prod) .. (Off(req_prod_pvt) - 1))
      BY <1>15 DEF Used
    <2>2. Used = (0 .. (Off(rsp_prod_pvt) - 1)) \cup (dc .. (Off(req_prod_pvt) - 1))
      BY DEF Used, dc
    <2> QED BY <1>5, <1>8, <2>1, <2>2
  <1>18. \A k : At(k)' = At(k)
    BY <1>1 DEF At, Plus, Cell
  <1>19. Order'
    BY <1>5, <1>15 DEF Order
  <1>20. Stack'
    BY <1>1, <1>4, <1>8, <1>11 DEF IInv, Stack, Slots
  <1>21. Count'
    <2>1. Off(req_cons)' - Off(rsp_prod_pvt)' = Mid'
      BY <1>5, <1>6, <1>8, <1>11, <1>15, <1>4
    <2> QED BY <2>1 DEF Count
  <1>22. Batching'
    BY <1>1 DEF Batching, Queueing
  <1>23. \A s \in Held' : \/ s \in Held /\ msg'[s] = msg[s]
                          \/ \E k \in 0 .. (read - 1) : s = Slot(k) /\ msg'[s] = At(dc + k)
    BY <1>13, <1>14
  <1>24. Placed'
    <2>0. Placed
      BY DEF IInv
    <2>3. \A j, k \in Used' : At(j)' = At(k)' => j = k
      BY <1>16, <1>18, <2>0 DEF Placed
    <2>4. ASSUME NEW s \in Held', NEW t \in Held', msg'[s] = msg'[t] PROVE s = t
      <3>1. CASE s \in Held /\ t \in Held
        BY <1>13, <2>0, <2>4, <3>1 DEF Placed
      <3>2. CASE s \in Held /\ t \notin Held
        BY <1>13, <1>17, <1>23, <2>0, <2>4, <3>2 DEF Placed
      <3>3. CASE s \notin Held /\ t \in Held
        BY <1>13, <1>17, <1>23, <2>0, <2>4, <3>3 DEF Placed
      <3>4. CASE s \notin Held /\ t \notin Held
        <4>1. PICK j \in 0 .. (read - 1) : s = Slot(j) /\ msg'[s] = At(dc + j)
          BY <1>23, <3>4
        <4>2. PICK k \in 0 .. (read - 1) : t = Slot(k) /\ msg'[t] = At(dc + k)
          BY <1>23, <3>4
        <4>3. dc + j = dc + k
          BY <1>17, <2>0, <2>4, <4>1, <4>2 DEF Placed
        <4>4. j = k
          BY <1>5, <4>3
        <4> QED BY <4>1, <4>2, <4>4
      <3> QED BY <3>1, <3>2, <3>3, <3>4
    <2>5. ASSUME NEW k \in Used', NEW s \in Held' PROVE At(k)' # msg'[s]
      <3>1. CASE s \in Held
        BY <1>13, <1>16, <1>18, <2>0, <3>1 DEF Placed
      <3>2. CASE s \notin Held
        BY <1>16, <1>17, <1>18, <1>23, <2>0, <3>2 DEF Placed
      <3> QED BY <3>1, <3>2
    <2>6. \A k \in Used' : At(k)' \in Ids \ free_ids'
      BY <1>1, <1>16, <1>18, <2>0 DEF Placed
    <2>7. \A s \in Held' : msg'[s] \in Ids \ free_ids'
      BY <1>1, <1>17, <1>23, <2>0 DEF Placed
    <2>8. ASSUME NEW x \in Ids \ free_ids'
          PROVE  (\E k \in Used' : At(k)' = x) \/ (\E s \in Held' : msg'[s] = x)
      <3>1. CASE \E s \in Held : msg[s] = x
        BY <1>13, <1>14, <3>1
      <3>2. CASE \E k \in Used : At(k) = x
        <4>1. PICK k \in Used : At(k) = x
          BY <3>2
        <4>2. CASE k \in Used'
          BY <1>18, <4>1, <4>2
        <4>3. CASE k \notin Used'
          <5>1. PICK j \in 0 .. (read - 1) : k = dc + j
            BY <1>16, <4>3
          <5>2. Slot(j) \in Held' /\ msg'[Slot(j)] = x
            BY <1>13, <1>14, <4>1, <5>1
          <5> QED BY <5>2
        <4> QED BY <4>2, <4>3
      <3> QED BY <1>1, <2>0, <3>1, <3>2 DEF Placed
    <2> QED BY <2>3, <2>4, <2>5, <2>6, <2>7, <2>8 DEF Placed
  <1>25. Typed'
    <2>1. msg' \in [Slots -> Ids \cup {NoId}]
      <3>1. ASSUME NEW s \in Slots PROVE msg'[s] \in Ids \cup {NoId}
        <4>1. CASE \E k \in 0 .. (read - 1) : Slot(k) = s
          <5>1. PICK k \in 0 .. (read - 1) : Slot(k) = s
            BY <4>1
          <5>2. msg'[s] = At(dc + k) /\ At(dc + k) \in Ids
            BY <1>13, <1>17, <5>1 DEF IInv, Placed
          <5> QED BY <5>2
        <4>2. CASE ~\E k \in 0 .. (read - 1) : Slot(k) = s
          BY <1>10, <4>2 DEF IInv, Typed
        <4> QED BY <4>1, <4>2
      <3>2. msg' = [s \in Slots |-> msg'[s]]
        BY <1>10
      <3> QED BY <3>1, <3>2
    <2>2. UNCHANGED <<req_event, rsp_event, evt_back, evt_front, gold, connected, gpc, final, errors, old>>
      BY DEF copy_requests, guest, shared
    <2> QED BY <1>1, <1>11, <1>15, <2>1, <2>2 DEF IInv, Typed
  <1> QED BY <1>19, <1>20, <1>21, <1>22, <1>24, <1>25 DEF IInv

LEMMA StepIInv == ASSUME FailBatch <= 1, IInv, [Next]_vars PROVE IInv'
  <1>1. CASE \E id \in Ids : guest_put(id)
    BY <1>1, GuestPut
  <1>2. CASE Guest
    BY <1>2, GuestPush, GuestControl, GuestConsume DEF Guest
  <1>3. CASE ring_event
    BY <1>3, BackendControl
  <1>4. CASE Backend
    <2>1. CASE get_requests \/ enable_events \/ final_check \/ notify
      BY <2>1, BackendControl
    <2>2. CASE copy_requests
      BY <2>2, CopyRequests
    <2>3. CASE got_requests
      BY <2>3, GotRequests
    <2>4. CASE queue_request
      BY <2>4, QueueRequest
    <2>5. CASE fail_request
      BY <2>5, FailRequest
    <2>6. CASE queue_requests_end
      BY <2>6, QueueRequestsEnd
    <2>7. CASE \E s \in Slots : request_cb(s)
      BY <2>7, RequestCb
    <2> QED BY <1>4, <2>1, <2>2, <2>3, <2>4, <2>5, <2>6, <2>7 DEF Backend
  <1>5. CASE \E C \in SUBSET Slots : kick(C)
    BY <1>5, BackendControl
  <1>6. CASE disconnect
    BY <1>6, BackendControl
  <1>7. CASE connect
    <2>1. Init'
      BY <1>7 DEF connect, Init
    <2>2. Init' => IInv'
      BY InitIInv, PTL
    <2> QED BY <2>1, <2>2
  <1>8. CASE UNCHANGED vars
    <2>1. /\ UNCHANGED <<ring, req_prod, rsp_prod, req_prod_pvt, rsp_cons, req_cons, rsp_prod_pvt>>
          /\ UNCHANGED <<free_ids, reqs_free, msg, vbd>>
          /\ UNCHANGED <<bpc, n, start, i, ret, n_reqs_free, todo>>
      BY <1>8 DEF vars, shared, guest, slots, back
    <2>2. Typed'
      BY <1>8 DEF IInv, Typed, vars, shared, guest, slots, back
    <2> QED BY <2>1, <2>2, MarksKept, Kept DEF IInv
  <1> QED BY <1>1, <1>2, <1>3, <1>4, <1>5, <1>6, <1>7, <1>8 DEF Next

(* The invariant holds: at every interleaving of guest and backend the      *)
(* indices stay in order, and as many requests are read but not answered as *)
(* slots are in use, which is why the backend never lacks one.              *)
THEOREM RingInvariance == ASSUME FailBatch <= 1 PROVE Spec => []IInv
  <1>1. IInv /\ [Next]_vars => IInv'
    BY StepIInv
  <1> QED BY InitIInv, <1>1, PTL DEF Spec

-----------------------------------------------------------------------------
(* What the invariant says of the slots and of the requests.                *)

LEMMA Lists ==
    ASSUME IInv
    PROVE  /\ Batch = {reqs_free[p] : p \in Lo .. (Mid - 1)}
           /\ FreeSlots = {reqs_free[p] : p \in Mid .. (RingSize - 1)}
           /\ Mid = RingSize - (n_reqs_free - (IF Reading THEN n ELSE 0))
  <1>1. /\ n_reqs_free \in 0 .. RingSize /\ RingSize \in Nat /\ n \in 0 .. RingSize
        /\ start \in 0 .. RingSize /\ i \in 0 .. RingSize
    BY Sizes DEF IInv, Typed
  <1>2. Mid = RingSize - n_reqs_free + (IF Reading THEN n ELSE 0)
    BY DEF Mid
  <1>3. Mid = RingSize - (n_reqs_free - (IF Reading THEN n ELSE 0))
    BY <1>1, <1>2
  <1>4. FreeSlots = {reqs_free[p] : p \in Mid .. (RingSize - 1)}
    BY <1>2 DEF FreeSlots
  <1>5. Batch = {reqs_free[p] : p \in Lo .. (Mid - 1)}
    <2>1. ASSUME NEW a \in Int, NEW b \in Int
          PROVE  {BatchSlot(k) : k \in a .. (b - 1)}
                   = {reqs_free[p] : p \in (RingSize - start + a) .. (RingSize - start + b - 1)}
      <3>1. ASSUME NEW k \in a .. (b - 1)
            PROVE  /\ RingSize - start + k \in (RingSize - start + a) .. (RingSize - start + b - 1)
                   /\ BatchSlot(k) = reqs_free[RingSize - start + k]
        BY <1>1 DEF BatchSlot
      <3>2. ASSUME NEW p \in (RingSize - start + a) .. (RingSize - start + b - 1)
            PROVE  /\ p - (RingSize - start) \in a .. (b - 1)
                   /\ RingSize - start + (p - (RingSize - start)) = p
        BY <1>1
      <3>3. \A p \in (RingSize - start + a) .. (RingSize - start + b - 1) :
               \E k \in a .. (b - 1) : reqs_free[p] = BatchSlot(k)
        BY <3>1, <3>2
      <3> QED BY <3>1, <3>3
    <2>2. CASE Reading
      <3>1. /\ Lo = RingSize - start + 0
            /\ Mid - 1 = RingSize - start + ((start - n_reqs_free) + n) - 1
            /\ (start - n_reqs_free) + n \in Int /\ 0 \in Int
        BY <1>1, <2>2 DEF Lo, Mid
      <3>2. Batch = {BatchSlot(k) : k \in 0 .. (((start - n_reqs_free) + n) - 1)}
        BY <2>2 DEF Batch, BatchFrom, BatchEnd
      <3> HIDE DEF Batch
      <3> QED BY <2>1, <3>1, <3>2
    <2>3. CASE ~Reading /\ Queueing
      <3>1. Batch = {BatchSlot(k) : k \in i .. (n - 1)}
        BY <2>3 DEF Batch, BatchFrom, BatchEnd, Queueing
      <3>2. i <= n /\ (i < n => n_reqs_free = start - n)
        BY <2>3 DEF IInv, Batching
      <3>3. CASE i < n
        <4>1. Lo = RingSize - start + i /\ Mid - 1 = RingSize - start + n - 1
          BY <1>1, <1>2, <2>3, <3>2, <3>3 DEF Lo
        <4>2. i \in Int /\ n \in Int
          BY <1>1
        <4> QED BY <2>1, <3>1, <4>1, <4>2
      <3>4. CASE i = n
        <4>1. i .. (n - 1) = {} /\ Lo = Mid /\ Mid .. (Mid - 1) = {}
          BY <1>1, <1>2, <2>3, <3>4 DEF Lo
        <4> QED BY <3>1, <4>1
      <3> QED BY <1>1, <3>2, <3>3, <3>4
    <2>4. CASE ~Reading /\ ~Queueing
      <3>1. Batch = {}
        BY <2>4 DEF Batch, Queueing
      <3>2. Lo = Mid /\ Lo .. (Mid - 1) = {}
        BY <1>1, <1>2, <2>4 DEF Lo
      <3> QED BY <3>1, <3>2
    <2> QED BY <2>2, <2>3, <2>4
  <1> QED BY <1>3, <1>4, <1>5

LEMMA HeldAre == ASSUME IInv PROVE Batch \cup vbd = Held
  <1>1. /\ RingSize \in Nat /\ Lo \in Int /\ Mid \in Int /\ 0 <= Lo /\ Lo <= Mid /\ Mid <= RingSize
        /\ reqs_free \in [Cells -> Slots] /\ vbd \subseteq Slots
    BY Sizes DEF IInv, Typed, Stack, Lo, Mid
  <1>2. \A p : p \in Lo .. (RingSize - 1) <=> p \in Lo .. (Mid - 1) \/ p \in Mid .. (RingSize - 1)
    BY <1>1
  <1>3. Lo .. (RingSize - 1) \subseteq Cells
    BY <1>1 DEF Cells
  <1>4. \A p \in Lo .. (Mid - 1), q \in Mid .. (RingSize - 1) : p # q
    BY <1>1
  <1>5. \A s \in Batch \cup vbd : s \in Held
    BY <1>1, <1>2, <1>3, <1>4, Lists DEF IInv, Stack, Held
  <1>6. \A s \in Held : s \in Batch \cup vbd
    BY <1>1, <1>2, Lists DEF IInv, Stack, Held
  <1> QED BY <1>5, <1>6

(* the free slots, those of the batch and those of the vbd                  *)
LEMMA SlotsAre == ASSUME IInv PROVE SlotsAccounted
  <1>1. /\ RingSize \in Nat /\ Lo \in Int /\ Mid \in Int /\ 0 <= Lo /\ Lo <= Mid /\ Mid <= RingSize
        /\ reqs_free \in [Cells -> Slots] /\ vbd \subseteq Slots
    BY Sizes DEF IInv, Typed, Stack, Lo, Mid
  <1>2. \A p : p \in Lo .. (RingSize - 1) <=> p \in Lo .. (Mid - 1) \/ p \in Mid .. (RingSize - 1)
    BY <1>1
  <1>3. Lo .. (RingSize - 1) \subseteq Cells
    BY <1>1 DEF Cells
  <1>4. FreeSlots \subseteq Slots /\ FreeSlots \cap Held = {} /\ FreeSlots \cup Held = Slots
    BY <1>1, <1>2, <1>3, Lists DEF Held
  <1>5. Batch \cap vbd = {}
    BY <1>2, Lists DEF IInv, Stack
  <1>6. Cardinality(FreeSlots) = RingSize - Mid
    <2> DEFINE P == Mid .. (RingSize - 1)
               f == [p \in P |-> reqs_free[p]]
    <2>1. f \in Bijection(P, FreeSlots)
      <3>1. f \in [P -> FreeSlots]
        BY Lists
      <3>2. \A p, q \in P : f[p] = f[q] => p = q
        BY <1>2 DEF IInv, Stack
      <3>3. \A s \in FreeSlots : \E p \in P : f[p] = s
        BY Lists
      <3> QED BY <3>1, <3>2, <3>3 DEF Bijection, Injection, IsInjective, Surjection
    <2>2. IsFiniteSet(P) /\ Cardinality(P) = RingSize - Mid
      <3>1. /\ IsFiniteSet(Mid .. (RingSize - 1))
            /\ Cardinality(Mid .. (RingSize - 1)) = IF Mid > RingSize - 1 THEN 0 ELSE (RingSize - 1) - Mid + 1
        BY <1>1, FS_Interval
      <3> QED BY <1>1, <3>1
    <2>3. ExistsBijection(P, FreeSlots)
      BY <2>1 DEF ExistsBijection
    <2> HIDE DEF P
    <2> QED BY <2>2, <2>3, FS_Bijection
  <1>7. Cardinality(FreeSlots) = n_reqs_free - (IF Reading THEN n ELSE 0)
    <2>1. n_reqs_free \in Int /\ (IF Reading THEN n ELSE 0) \in Int
      BY DEF IInv, Typed
    <2> QED BY <1>1, <1>6, <2>1, Lists
  <1> QED BY <1>4, <1>5, <1>7, HeldAre DEF SlotsAccounted

(* the cardinality of a set of which any two members are the same           *)
LEMMA AtMostOne ==
    ASSUME NEW S, \A x, y \in S : x = y
    PROVE  /\ S = {} => Cardinality(S) = 0
           /\ S # {} => Cardinality(S) = 1
  <1>1. S = {} => Cardinality(S) = 0
    BY FS_EmptySet
  <1>2. ASSUME S # {} PROVE Cardinality(S) = 1
    <2>1. PICK x \in S : TRUE
      BY <1>2
    <2>2. S = {x}
      BY <2>1
    <2> QED BY <2>2, FS_Singleton
  <1> QED BY <1>1, <1>2

(* the entries of the ring with an id, told by their distances              *)
LEMMA Entries ==
    ASSUME IInv, NEW x \in Idx, NEW y \in Idx, Off(x) <= Off(y), Off(y) <= RingSize, NEW id
    PROVE  LET E == {a \in IdxRange(x, y) : ring[Cell(a)] = id}
               K == {k \in Off(x) .. (Off(y) - 1) : At(k) = id}
           IN  /\ E = {Plus(rsp_cons, k) : k \in K}
               /\ K \subseteq 0 .. (RingSize - 1)
  <1> DEFINE E == {a \in IdxRange(x, y) : ring[Cell(a)] = id}
             K == {k \in Off(x) .. (Off(y) - 1) : At(k) = id}
  <1>1. /\ Off(x) \in Nat /\ Off(y) \in Nat /\ RingSize \in Nat /\ IdxMod \in Nat
        /\ IdxMod > RingSize /\ rsp_cons \in Idx /\ Typed
    BY Sizes, MinusIs DEF IInv, Typed, Off
  <1>2. Minus(y, x) = Off(y) - Off(x)
    BY <1>1, Distances DEF Off
  <1>3. IdxRange(x, y) = {Plus(x, k) : k \in 0 .. ((Off(y) - Off(x)) - 1)}
    BY <1>2 DEF IdxRange
  <1>4. \A k \in 0 .. ((Off(y) - Off(x)) - 1) : Plus(x, k) = Plus(rsp_cons, Off(x) + k)
    <2> TAKE k \in 0 .. ((Off(y) - Off(x)) - 1)
    <2>1. k \in Nat /\ Off(x) + k < IdxMod
      BY <1>1
    <2> QED BY <1>1, <2>1, Beyond
  <1>5. IdxRange(x, y) = {Plus(rsp_cons, k) : k \in Off(x) .. (Off(y) - 1)}
    <2>1. \A k \in 0 .. ((Off(y) - Off(x)) - 1) : Off(x) + k \in Off(x) .. (Off(y) - 1)
      BY <1>1
    <2>2. \A k \in Off(x) .. (Off(y) - 1) :
             k - Off(x) \in 0 .. ((Off(y) - Off(x)) - 1) /\ Off(x) + (k - Off(x)) = k
      BY <1>1
    <2>3. \A k \in Off(x) .. (Off(y) - 1) : \E j \in 0 .. ((Off(y) - Off(x)) - 1) :
             Plus(x, j) = Plus(rsp_cons, k)
      BY <1>4, <2>2
    <2>4. \A j \in 0 .. ((Off(y) - Off(x)) - 1) : \E k \in Off(x) .. (Off(y) - 1) :
             Plus(x, j) = Plus(rsp_cons, k)
      BY <1>4, <2>1
    <2> QED BY <1>3, <2>3, <2>4
  <1>6. E = {Plus(rsp_cons, k) : k \in K}
    BY <1>5 DEF At
  <1>7. K \subseteq 0 .. (RingSize - 1)
    BY <1>1
  <1> QED BY <1>6, <1>7

LEMMA OnePlace == ASSUME IInv PROVE AnsweredOnce
  <1> SUFFICES ASSUME NEW id \in Ids
               PROVE  LET requests  == {a \in IdxRange(req_cons, req_prod_pvt) : ring[Cell(a)] = id}
                          held      == {s \in Batch \cup vbd : msg[s] = id}
                          responses == {a \in IdxRange(rsp_cons, rsp_prod_pvt) : ring[Cell(a)] = id}
                      IN  Cardinality(requests) + Cardinality(held) + Cardinality(responses)
                            = (IF id \in free_ids THEN 0 ELSE 1)
    BY DEF AnsweredOnce
  <1> DEFINE requests  == {a \in IdxRange(req_cons, req_prod_pvt) : ring[Cell(a)] = id}
             held      == {s \in Batch \cup vbd : msg[s] = id}
             responses == {a \in IdxRange(rsp_cons, rsp_prod_pvt) : ring[Cell(a)] = id}
             Q == {k \in Off(req_cons) .. (Off(req_prod_pvt) - 1) : At(k) = id}
             R == {k \in 0 .. (Off(rsp_prod_pvt) - 1) : At(k) = id}
             H == {s \in Held : msg[s] = id}
  <1>1. /\ Off(rsp_prod_pvt) \in Nat /\ Off(req_cons) \in Nat /\ Off(req_prod_pvt) \in Nat
        /\ RingSize \in Nat /\ Off(rsp_prod_pvt) <= Off(req_cons)
        /\ Off(req_cons) <= Off(req_prod_pvt) /\ Off(req_prod_pvt) <= RingSize
    BY Offsets, Sizes DEF IInv
  <1>2. Off(rsp_cons) = 0
    <2>1. rsp_cons \in Idx /\ rsp_cons - rsp_cons = 0 /\ rsp_cons >= rsp_cons
      BY Sizes DEF IInv, Typed, Idx
    <2> QED BY <2>1, MinusIs DEF Off
  <1>3. req_cons \in Idx /\ req_prod_pvt \in Idx /\ rsp_cons \in Idx /\ rsp_prod_pvt \in Idx
    BY DEF IInv, Typed
  <1>4. requests = {Plus(rsp_cons, k) : k \in Q} /\ Q \subseteq 0 .. (RingSize - 1)
    BY <1>1, <1>3, Entries
  <1>5. responses = {Plus(rsp_cons, k) : k \in R} /\ R \subseteq 0 .. (RingSize - 1)
    <2>1. Off(rsp_cons) <= Off(rsp_prod_pvt) /\ Off(rsp_prod_pvt) <= RingSize
      BY <1>1, <1>2
    <2>2. LET E == {a \in IdxRange(rsp_cons, rsp_prod_pvt) : ring[Cell(a)] = id}
              K == {k \in Off(rsp_cons) .. (Off(rsp_prod_pvt) - 1) : At(k) = id}
          IN  E = {Plus(rsp_cons, k) : k \in K} /\ K \subseteq 0 .. (RingSize - 1)
      BY <1>3, <2>1, Entries
    <2> QED BY <1>2, <2>2
  <1>6. held = H
    BY HeldAre
  <1>7. Q \subseteq Used /\ R \subseteq Used /\ Q \cap R = {}
    BY <1>1 DEF Used
  <1>8. \A k \in Used : At(k) = id => k \in Q \cup R
    BY DEF Used
  <1>9. Placed
    BY DEF IInv
  <1> HIDE DEF requests, held, responses
  <1>10. /\ \A k \in Q \cup R : k \in Used /\ At(k) = id
         /\ \A s \in H : s \in Held /\ msg[s] = id
    BY <1>7
  <1>11. \A j, k \in Q \cup R : j = k
    BY <1>9, <1>10 DEF Placed
  <1>12. \A s, t \in H : s = t
    BY <1>9, <1>10 DEF Placed
  <1>13. Q \cup R = {} \/ H = {}
    BY <1>9, <1>10 DEF Placed
  <1>14. id \in free_ids => Q \cup R = {} /\ H = {}
    BY <1>9, <1>10 DEF Placed
  <1>15. id \notin free_ids => Q \cup R # {} \/ H # {}
    BY <1>8, <1>9 DEF Placed
  <1> HIDE DEF Q, R, H
  <1>16. \A a, b \in requests : a = b
    BY <1>4, <1>11
  <1>17. \A a, b \in responses : a = b
    BY <1>5, <1>11
  <1>18. (requests = {} <=> Q = {}) /\ (responses = {} <=> R = {}) /\ (held = {} <=> H = {})
    BY <1>4, <1>5, <1>6
  <1>19. /\ Cardinality(requests) = IF Q = {} THEN 0 ELSE 1
         /\ Cardinality(responses) = IF R = {} THEN 0 ELSE 1
         /\ Cardinality(held) = IF H = {} THEN 0 ELSE 1
    BY <1>6, <1>12, <1>16, <1>17, <1>18, AtMostOne
  <1>20. Q = {} \/ R = {}
    BY <1>7, <1>11
  <1>21. Cardinality(requests) + Cardinality(held) + Cardinality(responses)
           = (IF id \in free_ids THEN 0 ELSE 1)
    <2>1. CASE id \in free_ids
      BY <1>14, <1>19, <2>1
    <2>2. CASE id \notin free_ids
      <3>1. \/ Q # {} /\ R = {} /\ H = {}
            \/ Q = {} /\ R # {} /\ H = {}
            \/ Q = {} /\ R = {} /\ H # {}
        BY <1>13, <1>15, <1>20, <2>2
      <3> QED BY <1>19, <2>2, <3>1
    <2> QED BY <2>1, <2>2
  <1> QED BY <1>21 DEF requests, held, responses

(* Every request of the guest is in exactly one place and every slot of the *)
(* backend in one list, at every step of either side: no request is lost,   *)
(* none answered twice, and no response overwrites a request that was not   *)
(* read.                                                                    *)
THEOREM RingIsSound == ASSUME FailBatch <= 1 PROVE Spec => []RingSound
  <1>1. IInv => RingSound
    BY TypedOK, SlotsAre, OnePlace DEF IInv, RingSound
  <1> QED BY RingInvariance, <1>1, PTL

(* When the interface is disconnected its slots are all free, so that the   *)
(* vbd holds none of them and no batch is waiting.                          *)
THEOREM DisconnectIsQuiet == ASSUME FailBatch <= 1 PROVE Spec => DisconnectsQuiet
  <1>1. IInv /\ [Next]_vars => [connected /\ ~connected' => vbd = {} /\ Batch = {}]_vars
    <2> SUFFICES ASSUME IInv, Next, connected, ~connected'
                 PROVE  vbd = {} /\ Batch = {}
      OBVIOUS
    <2>1. disconnect
      <3>1. ASSUME NEW id \in Ids, guest_put(id) PROVE FALSE
        BY <3>1 DEF guest_put
      <3>2. ASSUME Guest PROVE FALSE
        BY <3>2 DEF Guest, guest_push, guest_notify, guest_irq, guest_consume, guest_final, guest_recheck
      <3>3. ASSUME Backend PROVE FALSE
        <4>1. \A s \in Slots : ~request_cb(s)
          BY DEF request_cb
        <4> QED BY <3>3, <4>1 DEF Backend, get_requests, enable_events, final_check, copy_requests,
                     got_requests, queue_request, fail_request, queue_requests_end, notify
      <3>4. ASSUME NEW C \in SUBSET Slots, kick(C) PROVE FALSE
        BY <3>4 DEF kick
      <3>5. ~ring_event /\ ~connect
        BY DEF ring_event, connect
      <3> QED BY <3>1, <3>2, <3>3, <3>4, <3>5 DEF Next
    <2>2. bpc = "idle" /\ n_reqs_free = RingSize
      BY <2>1 DEF disconnect
    <2>3. Lo = 0
      <3>1. ~Reading /\ ~Queueing
        BY <2>2 DEF Reading, Queueing
      <3>2. Lo = RingSize - n_reqs_free + 0
        BY <3>1 DEF Lo, Mid
      <3> QED BY <2>2, <3>2, Sizes
    <2>4. vbd = {}
      <3>1. IsFiniteSet(vbd) /\ Cardinality(vbd) = 0
        BY <2>3, SlotsFinite, FS_Subset DEF IInv, Typed, Stack
      <3> QED BY <3>1, FS_EmptySet
    <2>5. Batch = {}
      BY <2>2 DEF Batch, Reading
    <2> QED BY <2>4, <2>5
  <1> QED BY RingInvariance, <1>1, PTL DEF Spec, DisconnectsQuiet
=============================================================================
