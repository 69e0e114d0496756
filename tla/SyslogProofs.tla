--------------------------- MODULE SyslogProofs ---------------------------
(***************************************************************************)
(* Proofs about Syslog, for every size of the ring, of its packets and of   *)
(* the messages, and every number of errors, ticks and outages.             *)
(*                                                                          *)
(* The offsets of the ring are a size_t that wraps.  The log is right when  *)
(* it wraps where the ring does, or when not enough is ever logged to make  *)
(* it wrap (OffsetsFit).                                                    *)
(***************************************************************************)
EXTENDS Syslog, FiniteSetTheorems, TLAPS

-----------------------------------------------------------------------------
(* Remainders.                                                              *)

(* A quotient and a remainder determine the remainder.                      *)
LEMMA ModUnique ==
    ASSUME NEW m \in Nat, m > 0, NEW a \in Int, NEW q \in Int, NEW r \in 0 .. (m - 1), a = q * m + r
    PROVE  a % m = r
  BY SMT

(* The remainder is what is left of some multiple.                          *)
LEMMA ModQuot ==
    ASSUME NEW m \in Nat, m > 0, NEW a \in Int
    PROVE  \E q \in Int : a = q * m + (a % m)
  <1>1. a % m \in 0 .. (m - 1)
    OBVIOUS
  <1> QED BY <1>1

(* A multiple of the modulus does not count.                                *)
LEMMA ModPeriod ==
    ASSUME NEW m \in Nat, m > 0, NEW a \in Int, NEW b \in Int, b % m = 0
    PROVE  (a - b) % m = a % m
  <1> DEFINE r == a % m
  <1>1. PICK q \in Int : a = q * m + r
    BY ModQuot
  <1>2. PICK p \in Int : b = p * m + (b % m)
    BY ModQuot
  <1>3. r \in 0 .. (m - 1)
    OBVIOUS
  <1> HIDE DEF r
  <1>4. a - b = (q - p) * m + r
    BY <1>1, <1>2, <1>3
  <1>5. a - b \in Int /\ q - p \in Int
    OBVIOUS
  <1> QED BY <1>3, <1>4, <1>5, ModUnique DEF r

(* Numbers less than the modulus apart have different remainders.           *)
LEMMA ModDiff ==
    ASSUME NEW m \in Nat, m > 0, NEW a \in Int, NEW j \in 1 .. (m - 1)
    PROVE  (a + j) % m # a % m
  <1> DEFINE r == a % m
  <1>1. PICK q \in Int : a = q * m + r
    BY ModQuot
  <1>2. r \in 0 .. (m - 1)
    OBVIOUS
  <1> HIDE DEF r
  <1>3. a + j \in Int /\ q + 1 \in Int
    OBVIOUS
  <1>4. CASE r + j < m
    <2>1. a + j = q * m + (r + j) /\ r + j \in 0 .. (m - 1)
      BY <1>1, <1>2, <1>4
    <2>2. (a + j) % m = r + j
      BY <1>3, <2>1, ModUnique
    <2> QED BY <1>2, <2>2 DEF r
  <1>5. CASE r + j >= m
    <2>1. a + j = (q + 1) * m + (r + j - m) /\ r + j - m \in 0 .. (m - 1)
      BY <1>1, <1>2, <1>5
    <2>2. (a + j) % m = r + j - m
      BY <1>3, <2>1, ModUnique
    <2> QED BY <1>2, <2>2 DEF r
  <1> QED BY <1>2, <1>4, <1>5

-----------------------------------------------------------------------------
(* The ring: its offsets, its contents, and what is put and taken.          *)

Bytes == [id : Nat, len : Nat, n : Nat]
Logs == [ring : [0 .. RingSize - 1 -> Bytes], prod : 0 .. Word - 1, cons : 0 .. Word - 1,
         oom : Nat, masked : BOOLEAN, last : Nat, closing : BOOLEAN, open : BOOLEAN,
         conn : {"none", "live", "dead"}, out : Seq(Seq(Bytes)), unread : Nat]

Wraps == Word % RingSize = 0

(* The next n bytes are produced at offsets that do not wrap, unless they   *)
(* wrap where the ring does.                                                *)
Reaches(s, n) == Wraps \/ (s.cons <= s.prod /\ s.prod + n < Word)

(* What is in the ring, in the order it is read.                            *)
Content(s) == [i \in 1 .. Used(s) |-> s.ring[RING_PTR(s.cons + i - 1)]]

(* The constants, one by one.                                               *)
LEMMA Consts ==
    /\ RingSize \in Nat /\ Word \in Nat /\ PacketMax \in Nat /\ WarnLen \in Nat /\ Room \in Nat /\ Burst \in Nat
    /\ Interval \in Nat /\ MaxErrors \in Nat /\ MaxTime \in Nat
    /\ 1 < PacketMax /\ PacketMax < RingSize /\ RingSize < Word
    /\ Lens \subseteq 1 .. PacketMax /\ WarnLen \in 1 .. PacketMax
  BY SyslogAssumption

(* Offsets wrap at most once.                                               *)
LEMMA WordMod ==
    ASSUME NEW a \in 0 .. Word - 1, NEW k \in 0 .. Word - 1
    PROVE  /\ (a + k) % Word = IF a + k < Word THEN a + k ELSE a + k - Word
           /\ (a - k) % Word = IF a >= k THEN a - k ELSE a - k + Word
  <1>1. Word \in Nat /\ Word > 0 /\ a \in Int /\ k \in Int
    BY Consts
  <1>2. ASSUME NEW q \in {0, 1, 0 - 1}, NEW x \in Int, NEW r \in 0 .. Word - 1, x = q * Word + r PROVE x % Word = r
    BY <1>1, <1>2, ModUnique
  <1>3. a + k = 0 * Word + (a + k) /\ a + k = 1 * Word + (a + k - Word) /\ a - k = 0 * Word + (a - k) /\ a - k = (0 - 1) * Word + (a - k + Word)
    BY <1>1
  <1>4. a + k \in Int /\ a - k \in Int
    BY <1>1
  <1>5. a + k < Word => (a + k) % Word = a + k
    BY <1>1, <1>2, <1>3, <1>4
  <1>6. ~(a + k < Word) => (a + k) % Word = a + k - Word
    BY <1>1, <1>2, <1>3, <1>4
  <1>7. a >= k => (a - k) % Word = a - k
    BY <1>1, <1>2, <1>3, <1>4
  <1>8. ~(a >= k) => (a - k) % Word = a - k + Word
    BY <1>1, <1>2, <1>3, <1>4
  <1> QED BY <1>5, <1>6, <1>7, <1>8

(* The place of an offset in the ring is the offset modulo the size of the  *)
(* ring.                                                                    *)
LEMMA PtrIs ==
    ASSUME NEW x \in 0 .. 2 * Word - 1, Wraps \/ x < Word
    PROVE  RING_PTR(x) = x % RingSize /\ RING_PTR(x) \in 0 .. RingSize - 1
  <1>1. Word \in Nat /\ Word > 0 /\ RingSize \in Nat /\ RingSize > 0
    BY Consts
  <1>2. CASE x < Word
    <2>1. x % Word = x
      BY <1>1, <1>2
    <2> QED BY <2>1, <1>1 DEF RING_PTR
  <1>3. CASE ~(x < Word)
    <2>1. x % Word = x - Word
      <3>1. x = 1 * Word + (x - Word) /\ x - Word \in 0 .. Word - 1
        BY <1>1, <1>3
      <3> QED BY <3>1, <1>1, ModUnique
    <2>2. (x - Word) % RingSize = x % RingSize
      <3>1. x \in Int /\ Word \in Int /\ Word % RingSize = 0
        BY <1>1, <1>3 DEF Wraps
      <3> QED BY <3>1, <1>1, ModPeriod
    <2> QED BY <2>1, <2>2, <1>1 DEF RING_PTR
  <1> QED BY <1>2, <1>3

(* How much is in the ring: it is empty just when the offsets are equal.    *)
LEMMA UsedIs ==
    ASSUME NEW s \in Logs
    PROVE  /\ Used(s) = IF s.prod >= s.cons THEN s.prod - s.cons ELSE s.prod - s.cons + Word
           /\ Used(s) \in 0 .. Word - 1
           /\ s.prod = IF s.cons + Used(s) < Word THEN s.cons + Used(s) ELSE s.cons + Used(s) - Word
           /\ (Empty(s) <=> Used(s) = 0)
  <1>1. s.prod \in 0 .. Word - 1 /\ s.cons \in 0 .. Word - 1
    BY DEF Logs
  <1>2. Used(s) = IF s.prod >= s.cons THEN s.prod - s.cons ELSE s.prod - s.cons + Word
    BY <1>1, WordMod DEF Used
  <1> QED BY <1>1, <1>2, Consts DEF Empty

(* Where the byte at distance i from cons is: what is produced follows what *)
(* is there.                                                                *)
LEMMA CellIs ==
    ASSUME NEW s \in Logs, Used(s) <= RingSize, NEW n \in 0 .. RingSize, Used(s) + n <= RingSize, Reaches(s, n)
    PROVE  /\ \A i \in 0 .. Used(s) + n - 1 : /\ RING_PTR(s.cons + i) = (s.cons + i) % RingSize
                                              /\ RING_PTR(s.cons + i) \in 0 .. RingSize - 1
           /\ \A i \in 0 .. n - 1 : RING_PTR(s.prod + i) = RING_PTR(s.cons + Used(s) + i)
  <1>1. s.prod \in 0 .. Word - 1 /\ s.cons \in 0 .. Word - 1 /\ RingSize \in Nat /\ RingSize > 0 /\ Word \in Nat /\ RingSize < Word
    BY Consts DEF Logs
  <1>2. Used(s) \in 0 .. RingSize /\ s.prod = IF s.cons + Used(s) < Word THEN s.cons + Used(s) ELSE s.cons + Used(s) - Word
    BY UsedIs, <1>1
  <1>3. ~Wraps => s.prod = s.cons + Used(s) /\ s.prod + n < Word
    BY <1>1, UsedIs DEF Reaches
  <1>4. ASSUME NEW i \in 0 .. Used(s) + n - 1
        PROVE  RING_PTR(s.cons + i) = (s.cons + i) % RingSize /\ RING_PTR(s.cons + i) \in 0 .. RingSize - 1
    <2>1. s.cons + i \in 0 .. 2 * Word - 1 /\ (Wraps \/ s.cons + i < Word)
      BY <1>1, <1>2, <1>3
    <2> QED BY <2>1, PtrIs
  <1>5. ASSUME NEW i \in 0 .. n - 1
        PROVE  RING_PTR(s.prod + i) = RING_PTR(s.cons + Used(s) + i)
    <2>1. s.prod + i \in 0 .. 2 * Word - 1 /\ (Wraps \/ s.prod + i < Word)
      BY <1>1, <1>2, <1>3
    <2>2. RING_PTR(s.prod + i) = (s.prod + i) % RingSize
      BY <2>1, PtrIs
    <2>3. Used(s) + i \in 0 .. Used(s) + n - 1 /\ s.cons + (Used(s) + i) = s.cons + Used(s) + i
      BY <1>1, <1>2
    <2>4. RING_PTR(s.cons + Used(s) + i) = (s.cons + Used(s) + i) % RingSize
      BY <2>3, <1>4
    <2>5. CASE s.cons + Used(s) < Word
      BY <2>2, <2>4, <2>5, <1>2
    <2>6. CASE ~(s.cons + Used(s) < Word)
      <3>1. Wraps /\ s.prod + i = (s.cons + Used(s) + i) - Word /\ s.cons + Used(s) + i \in Int
        BY <2>6, <1>1, <1>2, <1>3
      <3> DEFINE y == s.cons + Used(s) + i
      <3>2. y \in Int /\ Word \in Int /\ Word % RingSize = 0 /\ s.prod + i = y - Word
        BY <3>1, <1>1 DEF Wraps
      <3> HIDE DEF y
      <3>3. (y - Word) % RingSize = y % RingSize
        BY <3>2, <1>1, ModPeriod
      <3>4. (s.prod + i) % RingSize = y % RingSize
        BY <3>2, <3>3
      <3> QED BY <3>4, <2>2, <2>4 DEF y
    <2> QED BY <2>5, <2>6
  <1> QED BY <1>4, <1>5

(* Offsets less than the size of the ring apart have different places in    *)
(* it.                                                                      *)
LEMMA CellsDiffer ==
    ASSUME NEW c \in Nat, NEW i \in 0 .. RingSize - 1, NEW j \in 0 .. RingSize - 1, (c + i) % RingSize = (c + j) % RingSize
    PROVE  i = j
  <1>1. ASSUME NEW x \in 0 .. RingSize - 1, NEW y \in 0 .. RingSize - 1, x < y, (c + x) % RingSize = (c + y) % RingSize
        PROVE  FALSE
    <2>1. y - x \in 1 .. (RingSize - 1) /\ c + x \in Int /\ c + y = (c + x) + (y - x)
      BY <1>1, Consts
    <2>2. ((c + x) + (y - x)) % RingSize # (c + x) % RingSize
      <3>1. RingSize \in Nat /\ RingSize > 0
        BY Consts
      <3> QED BY <2>1, <3>1, ModDiff
    <2> QED BY <1>1, <2>1, <2>2
  <1> QED BY <1>1, Consts

(* An offset advanced.                                                      *)
Plus(a, k) == (a + k) % Word

(* Advancing an offset, without %.                                          *)
LEMMA PlusIs ==
    ASSUME NEW a \in 0 .. Word - 1, NEW k \in 0 .. Word - 1
    PROVE  /\ Plus(a, k) = IF a + k < Word THEN a + k ELSE a + k - Word
           /\ Plus(a, k) \in 0 .. Word - 1
  <1>1. Plus(a, k) = IF a + k < Word THEN a + k ELSE a + k - Word
    BY WordMod DEF Plus
  <1> QED BY ONLY <1>1, Consts

(* s and t differ in the ring, prod and cons alone.                         *)
Others(s, t) ==
    /\ t.oom = s.oom /\ t.masked = s.masked /\ t.last = s.last /\ t.closing = s.closing /\ t.open = s.open
    /\ t.conn = s.conn /\ t.out = s.out /\ t.unread = s.unread

(* The contents of the ring are as many bytes as are used, each at its      *)
(* place.                                                                   *)
LEMMA ContentIs ==
    ASSUME NEW s \in Logs, Used(s) <= RingSize, Reaches(s, 0)
    PROVE  /\ Content(s) \in Seq(Bytes) /\ Len(Content(s)) = Used(s)
           /\ \A i \in 1 .. Used(s) : Content(s)[i] = s.ring[RING_PTR(s.cons + i - 1)]
  <1>1. Used(s) \in Nat /\ RingSize \in Nat /\ s.cons \in Nat /\ s.ring \in [0 .. RingSize - 1 -> Bytes]
    BY UsedIs, Consts DEF Logs
  <1>2. \A i \in 0 .. Used(s) - 1 : RING_PTR(s.cons + i) \in 0 .. RingSize - 1
    BY CellIs, <1>1
  <1>3. ASSUME NEW i \in 1 .. Used(s) PROVE s.ring[RING_PTR(s.cons + i - 1)] \in Bytes
    <2>1. i - 1 \in 0 .. Used(s) - 1 /\ s.cons + (i - 1) = s.cons + i - 1
      BY <1>1
    <2>2. RING_PTR(s.cons + i - 1) \in 0 .. RingSize - 1
      BY <2>1, <1>2
    <2> QED BY <2>2, <1>1
  <1> QED BY <1>1, <1>3 DEF Content

PutWell(s, b, t) ==
    /\ t \in Logs /\ Used(t) = Used(s) + Len(b) /\ Others(s, t)
    /\ t.cons = s.cons /\ t.prod = Plus(s.prod, Len(b))
    /\ Reaches(t, 0)
    /\ \A i \in 1 .. Used(s) : Content(t)[i] = Content(s)[i]
    /\ \A i \in 1 .. Len(b) : Content(t)[Used(s) + i] = b[i]

(* What is put is behind what was there, which stays.                       *)
LEMMA PutIs ==
    ASSUME NEW s \in Logs, Used(s) <= RingSize, NEW b \in Seq(Bytes), Used(s) + Len(b) <= RingSize, Reaches(s, Len(b))
    PROVE  PutWell(s, b, Put(s, b))
  <1> DEFINE t == Put(s, b)
             n == Len(b)
             rn == [p \in 0 .. RingSize - 1 |->
                     IF \E i \in 1 .. n : RING_PTR(s.prod + i - 1) = p
                     THEN b[CHOOSE i \in 1 .. n : RING_PTR(s.prod + i - 1) = p]
                     ELSE s.ring[p]]
  <1> SUFFICES PutWell(s, b, t)
    OBVIOUS
  <1>1. /\ n \in Nat /\ RingSize \in Nat /\ RingSize > 0 /\ Word \in Nat /\ RingSize < Word /\ Word > 0
        /\ s.prod \in 0 .. Word - 1 /\ s.cons \in 0 .. Word - 1 /\ s.ring \in [0 .. RingSize - 1 -> Bytes]
        /\ Used(s) \in 0 .. RingSize
    BY UsedIs, Consts DEF Logs
  <1>2. t = [s EXCEPT !.ring = rn, !.prod = Plus(s.prod, n)]
    BY DEF Put, Plus
  <1>3. rn \in [0 .. RingSize - 1 -> Bytes]
    <2>1. ASSUME NEW p \in 0 .. RingSize - 1, \E i \in 1 .. n : RING_PTR(s.prod + i - 1) = p
          PROVE  (CHOOSE i \in 1 .. n : RING_PTR(s.prod + i - 1) = p) \in 1 .. n
      BY <2>1
    <2>2. \A i \in 1 .. n : b[i] \in Bytes
      BY <1>1
    <2> QED BY <2>1, <2>2, <1>1
  <1>4. Plus(s.prod, n) \in 0 .. Word - 1 /\ Plus(s.prod, n) = IF s.prod + n < Word THEN s.prod + n ELSE s.prod + n - Word
    <2>1. n \in 0 .. Word - 1
      BY <1>1
    <2>2. Plus(s.prod, n) = IF s.prod + n < Word THEN s.prod + n ELSE s.prod + n - Word
      BY <2>1, <1>1, PlusIs
    <2> QED BY <2>1, <2>2, <1>1, PlusIs
  <1>5. t \in Logs /\ t.ring = rn /\ t.prod = Plus(s.prod, n) /\ t.cons = s.cons /\ Others(s, t)
    BY <1>2, <1>3, <1>4 DEF Logs, Others
  <1> HIDE DEF rn, t
  <1> HIDE DEF n
  <1>6. Used(t) = Used(s) + n
    <2>1. Used(t) = IF t.prod >= t.cons THEN t.prod - t.cons ELSE t.prod - t.cons + Word
      BY <1>5, UsedIs
    <2>2. Used(s) = IF s.prod >= s.cons THEN s.prod - s.cons ELSE s.prod - s.cons + Word
      BY UsedIs
    <2>3. Used(s) + n <= RingSize
      BY DEF n
    <2>4. /\ s.prod \in Int /\ s.cons \in Int /\ n \in Nat /\ Word \in Nat /\ RingSize < Word /\ RingSize \in Nat
          /\ 0 <= s.prod /\ s.prod < Word /\ 0 <= s.cons /\ s.cons < Word
          /\ t.prod = IF s.prod + n < Word THEN s.prod + n ELSE s.prod + n - Word
          /\ t.cons = s.cons
      BY <1>1, <1>4, <1>5
    <2>5. CASE s.prod >= s.cons /\ s.prod + n < Word
      BY ONLY <2>1, <2>2, <2>3, <2>4, <2>5
    <2>6. CASE s.prod >= s.cons /\ ~(s.prod + n < Word)
      BY ONLY <2>1, <2>2, <2>3, <2>4, <2>6
    <2>7. CASE ~(s.prod >= s.cons)
      BY ONLY <2>1, <2>2, <2>3, <2>4, <2>7, SMTT(40)
    <2> QED BY <2>5, <2>6, <2>7
  <1>7. Reaches(t, 0)
    <2>1. Reaches(s, n)
      BY DEF n
    <2> QED BY <2>1, <1>1, <1>4, <1>5 DEF Reaches
  <1>8. \A i \in 0 .. Used(s) + n - 1 : /\ RING_PTR(s.cons + i) = (s.cons + i) % RingSize
                                        /\ RING_PTR(s.cons + i) \in 0 .. RingSize - 1
    BY CellIs, <1>1 DEF n
  <1>9. \A i \in 1 .. n : RING_PTR(s.prod + i - 1) = RING_PTR(s.cons + (Used(s) + i - 1))
    <2> TAKE i \in 1 .. n
    <2>1. i - 1 \in 0 .. n - 1 /\ s.prod + (i - 1) = s.prod + i - 1 /\ s.cons + Used(s) + (i - 1) = s.cons + (Used(s) + i - 1)
      BY <1>1
    <2>2. RING_PTR(s.prod + (i - 1)) = RING_PTR(s.cons + Used(s) + (i - 1))
      BY <2>1, CellIs, <1>1, SMTT(40) DEF n
    <2> QED BY <2>1, <2>2
  <1>10. \A i, j \in 0 .. Used(s) + n - 1 : RING_PTR(s.cons + i) = RING_PTR(s.cons + j) => i = j
    <2> TAKE i, j \in 0 .. Used(s) + n - 1
    <2>1. i \in 0 .. RingSize - 1 /\ j \in 0 .. RingSize - 1 /\ s.cons \in Nat
      BY <1>1 DEF n
    <2> QED BY <2>1, <1>8, CellsDiffer
  <1>11. \A i \in 1 .. Used(s) + n : Content(t)[i] = rn[RING_PTR(s.cons + i - 1)]
    BY <1>5, <1>6 DEF Content
  <1>12. ASSUME NEW i \in 1 .. Used(s) PROVE Content(t)[i] = Content(s)[i]
    <2> DEFINE p == RING_PTR(s.cons + i - 1)
    <2>1. i - 1 \in 0 .. Used(s) + n - 1 /\ s.cons + i - 1 = s.cons + (i - 1) /\ i \in 1 .. Used(s) + n
      BY <1>1
    <2>2. p \in 0 .. RingSize - 1
      BY <2>1, <1>8
    <2>3. ASSUME NEW j \in 1 .. n, RING_PTR(s.prod + j - 1) = p PROVE FALSE
      <3>1. RING_PTR(s.cons + (Used(s) + j - 1)) = RING_PTR(s.cons + (i - 1)) /\ Used(s) + j - 1 \in 0 .. Used(s) + n - 1
        <4>1. RING_PTR(s.prod + j - 1) = RING_PTR(s.cons + (Used(s) + j - 1))
          BY <1>9
        <4>2. Used(s) + j - 1 \in 0 .. Used(s) + n - 1
          BY <1>1
        <4> QED BY ONLY <4>1, <4>2, <2>3, <2>1
      <3>2. Used(s) + j - 1 = i - 1
        BY <3>1, <2>1, <1>10
      <3> QED BY <3>2, <1>1
    <2>4. rn[p] = s.ring[p]
      BY <2>2, <2>3 DEF rn
    <2>5. Content(s)[i] = s.ring[p]
      BY DEF Content
    <2> QED BY <2>1, <2>4, <2>5, <1>11
  <1>13. ASSUME NEW i \in 1 .. n PROVE Content(t)[Used(s) + i] = b[i]
    <2> DEFINE p == RING_PTR(s.prod + i - 1)
               h == CHOOSE j \in 1 .. n : RING_PTR(s.prod + j - 1) = p
    <2>1. Used(s) + i - 1 \in 0 .. Used(s) + n - 1 /\ s.cons + (Used(s) + i) - 1 = s.cons + (Used(s) + i - 1) /\ Used(s) + i \in 1 .. Used(s) + n
      <3>1. Used(s) \in Nat /\ s.cons \in Nat /\ n \in Nat
        BY <1>1 DEF n
      <3> QED BY ONLY <3>1
    <2>2. p = RING_PTR(s.cons + (Used(s) + i - 1)) /\ p \in 0 .. RingSize - 1
      BY <2>1, <1>8, <1>9
    <2>3. h \in 1 .. n /\ RING_PTR(s.prod + h - 1) = p
      OBVIOUS
    <2> HIDE DEF h
    <2>4. Used(s) + h - 1 \in 0 .. Used(s) + n - 1 /\ RING_PTR(s.cons + (Used(s) + h - 1)) = RING_PTR(s.cons + (Used(s) + i - 1))
      <3>1. RING_PTR(s.prod + h - 1) = RING_PTR(s.cons + (Used(s) + h - 1))
        BY <2>3, <1>9
      <3>2. Used(s) + h - 1 \in 0 .. Used(s) + n - 1
        BY <2>3, <1>1, SMTT(40)
      <3> QED BY ONLY <3>1, <3>2, <2>2, <2>3
    <2>5. h = i
      <3>1. Used(s) + h - 1 = Used(s) + i - 1
        BY <2>4, <2>1, <1>10
      <3> QED BY <3>1, <1>1, <2>3
    <2>6. rn[p] = b[h]
      BY <2>2 DEF rn, h
    <2>7. RING_PTR(s.cons + (Used(s) + i) - 1) = p
      BY <2>1, <2>2
    <2> QED BY <2>1, <2>5, <2>6, <2>7, <1>11
  <1> QED BY <1>5, <1>6, <1>7, <1>12, <1>13 DEF PutWell, n

TakeWell(s, k, t) ==
    /\ t \in Logs /\ Used(t) = Used(s) - k /\ Others(s, t)
    /\ t.ring = s.ring /\ t.prod = s.prod /\ (s.cons <= s.prod => t.cons <= t.prod)
    /\ Reaches(t, 0)
    /\ \A i \in 1 .. Used(s) - k : Content(t)[i] = Content(s)[i + k]

(* What is taken is from the front, and what is behind it stays.            *)
LEMMA TakeIs ==
    ASSUME NEW s \in Logs, Used(s) <= RingSize, Reaches(s, 0), NEW k \in 0 .. Used(s)
    PROVE  TakeWell(s, k, [s EXCEPT !.cons = Plus(@, k)])
  <1> DEFINE t == [s EXCEPT !.cons = Plus(@, k)]
  <1> SUFFICES TakeWell(s, k, t)
    OBVIOUS
  <1>1. /\ RingSize \in Nat /\ RingSize > 0 /\ Word \in Nat /\ RingSize < Word /\ Word > 0
        /\ s.prod \in 0 .. Word - 1 /\ s.cons \in 0 .. Word - 1
        /\ Used(s) \in 0 .. RingSize
    BY UsedIs, Consts DEF Logs
  <1>2. Plus(s.cons, k) \in 0 .. Word - 1 /\ Plus(s.cons, k) = IF s.cons + k < Word THEN s.cons + k ELSE s.cons + k - Word
    <2>1. k \in 0 .. Word - 1
      BY <1>1
    <2>2. Plus(s.cons, k) = IF s.cons + k < Word THEN s.cons + k ELSE s.cons + k - Word
      BY <2>1, <1>1, PlusIs
    <2> QED BY <2>1, <2>2, <1>1, PlusIs
  <1>3. t \in Logs /\ t.prod = s.prod /\ t.cons = Plus(s.cons, k) /\ t.ring = s.ring /\ Others(s, t)
    BY <1>2 DEF Logs, Others
  <1> HIDE DEF t
  <1>4. Used(s) = IF s.prod >= s.cons THEN s.prod - s.cons ELSE s.prod - s.cons + Word
    BY UsedIs
  <1>5. Used(t) = Used(s) - k /\ (s.cons <= s.prod => t.cons <= t.prod)
    <2>1. Used(t) = IF t.prod >= t.cons THEN t.prod - t.cons ELSE t.prod - t.cons + Word
      BY <1>3, UsedIs
    <2> QED BY <2>1, <1>1, <1>2, <1>3, <1>4
  <1>6. Reaches(t, 0)
    BY <1>1, <1>3, <1>5 DEF Reaches
  <1>7. ASSUME NEW i \in 1 .. Used(s) - k PROVE Content(t)[i] = Content(s)[i + k]
    <2>1. /\ i - 1 \in 0 .. Used(t) - 1 /\ i + k - 1 \in 0 .. Used(s) - 1 /\ i + k \in 1 .. Used(s) /\ i \in 1 .. Used(t)
          /\ t.cons + (i - 1) = t.cons + i - 1 /\ s.cons + (i + k - 1) = s.cons + (i + k) - 1 /\ Used(t) <= RingSize
      BY <1>1, <1>2, <1>3, <1>5
    <2>2. RING_PTR(t.cons + i - 1) = (t.cons + i - 1) % RingSize
      <3>1. Used(t) + 0 <= RingSize /\ 0 \in 0 .. RingSize /\ Used(t) + 0 - 1 = Used(t) - 1
        BY <1>1, <1>5, <2>1
      <3>2. \A j \in 0 .. Used(t) + 0 - 1 : RING_PTR(t.cons + j) = (t.cons + j) % RingSize
        BY <3>1, <1>3, <1>6, CellIs, <2>1
      <3> QED BY <3>1, <3>2, <2>1
    <2>3. RING_PTR(s.cons + (i + k) - 1) = (s.cons + (i + k) - 1) % RingSize
      <3>1. Used(s) + 0 <= RingSize /\ 0 \in 0 .. RingSize /\ Used(s) + 0 - 1 = Used(s) - 1
        BY <1>1
      <3>2. \A j \in 0 .. Used(s) + 0 - 1 : RING_PTR(s.cons + j) = (s.cons + j) % RingSize
        BY <3>1, CellIs
      <3> QED BY <3>1, <3>2, <2>1
    <2>4. (t.cons + i - 1) % RingSize = (s.cons + (i + k) - 1) % RingSize
      <3>1. CASE s.cons + k < Word
        BY <3>1, <1>1, <1>2, <1>3
      <3>2. CASE ~(s.cons + k < Word)
        <4> DEFINE y == s.cons + (i + k) - 1
        <4>1. Wraps
          BY <3>2, <1>1, <1>4 DEF Reaches
        <4>2. y \in Int /\ Word \in Int /\ Word % RingSize = 0 /\ t.cons + i - 1 = y - Word
          BY <4>1, <3>2, <1>1, <1>2, <1>3 DEF Wraps
        <4> HIDE DEF y
        <4>3. (y - Word) % RingSize = y % RingSize
          BY <4>2, <1>1, ModPeriod
        <4> QED BY <4>2, <4>3 DEF y
      <3> QED BY <3>1, <3>2
    <2>5. Content(t)[i] = t.ring[RING_PTR(t.cons + i - 1)] /\ Content(s)[i + k] = s.ring[RING_PTR(s.cons + (i + k) - 1)]
      BY <2>1 DEF Content
    <2> QED BY <2>2, <2>3, <2>4, <2>5, <1>3
  <1> QED BY <1>3, <1>5, <1>6, <1>7 DEF TakeWell

(* A set of numbers has a least one: induction, without an operator for a   *)
(* parameter.                                                               *)
LEMMA Minimum ==
    ASSUME NEW S \in SUBSET Nat, S # {}
    PROVE  \E x \in S : \A y \in S : x <= y
  <1> SUFFICES ASSUME \A x \in S : \E y \in S : y < x PROVE FALSE
    OBVIOUS
  <1>1. PICK n \in S : TRUE
    OBVIOUS
  <1> DEFINE U == {u \in 0 .. n : \E t \in S : t <= u}
             f == [u \in U |-> u - 1]
  <1>2. IsFiniteSet(U) /\ n \in U
    <2>1. IsFiniteSet(0 .. n)
      BY FS_Interval
    <2> QED BY <2>1, <1>1, FS_Subset
  <1>3. \A u \in U : u - 1 \in U \ {n}
    <2> TAKE u \in U
    <2>1. PICK t \in S : t <= u
      OBVIOUS
    <2>2. PICK y \in S : y < t
      OBVIOUS
    <2>3. u \in Nat /\ t \in Nat /\ y \in Nat /\ n \in Nat /\ u <= n
      OBVIOUS
    <2>4. u - 1 \in 0 .. n /\ u - 1 # n /\ y <= u - 1
      BY <2>1, <2>2, <2>3
    <2> QED BY <2>4
  <1>4. /\ IsFiniteSet(U \ {n}) /\ Cardinality(U) \in Nat
        /\ Cardinality(U \ {n}) = Cardinality(U) - 1
    BY <1>2, FS_RemoveElement, FS_CardinalityType
  <1>5. Cardinality(U \ {n}) < Cardinality(U)
    BY <1>4
  <1>6. f \in [U -> U \ {n}] /\ \A u \in U : u \in Int
    BY <1>3
  <1>7. \A x, y \in U : f[x] = f[y] => x = y
    BY <1>6
  <1> DEFINE W == U \ {n}
  <1>8. IsFiniteSet(W) /\ Cardinality(W) < Cardinality(U) /\ f \in [U -> W]
    BY <1>4, <1>5, <1>6
  <1> HIDE DEF U, f, W
  <1>9. \E x, y \in U : x # y /\ f[x] = f[y]
    BY <1>2, <1>8, FS_PigeonHole
  <1> QED BY <1>7, <1>9

-----------------------------------------------------------------------------
(* Messages, whole and in order, in the ring and out of it.                 *)

Messages == [id : Nat, len : 1 .. PacketMax, n : Nat]
TextLen(m) == IF m.len = PacketMax THEN PacketMax - 1 ELSE m.len

(* The byte at e is the 0 that ends a message, which begins where one may.  *)
Ends(c, e) ==
    /\ e > 1 /\ c[e - 1] \in Messages /\ e > TextLen(c[e - 1])
    /\ \A i \in 1 .. TextLen(c[e - 1]) : c[e - i] = c[e - 1]
    /\ e = TextLen(c[e - 1]) + 1 \/ c[e - TextLen(c[e - 1]) - 1] = Nul

Framed(c) ==
    /\ c # <<>> => c[Len(c)] = Nul
    /\ \A e \in 1 .. Len(c) : c[e] = Nul => Ends(c, e)

Before(p, m) == p.n = 0 /\ m.n = 0 => p.id < m.id

(* What is out and what is in the ring, none of it younger than top.        *)
Ordered(out, c, top) ==
    /\ \A j \in 1 .. Len(out) : Whole(out[j]) /\ out[j][1].id <= top
    /\ \A i, j \in 1 .. Len(out) : i < j => Before(out[i][1], out[j][1])
    /\ \A k \in 1 .. Len(c) : c[k].id <= top
    /\ \A i \in 1 .. Len(out), k \in 1 .. Len(c) : c[k] # Nul => Before(out[i][1], c[k])
    /\ \A i, k, j \in 1 .. Len(c) : i < k /\ k < j /\ c[k] = Nul /\ c[i] # Nul /\ c[j] # Nul => Before(c[i], c[j])

Weight(m) == IF m.n = 0 THEN 1 ELSE m.n
Follows(id, m) == m.id = id + Weight(m)
LastOf(out) == IF out = <<>> THEN 0 ELSE out[Len(out)][1].id
EndOf(out, c) == IF c = <<>> THEN LastOf(out) ELSE c[Len(c) - 1].id

(* Each message accounts for those since the one before it.                 *)
InTurn(out, c) ==
    /\ \A j \in 1 .. Len(out) : Follows(IF j = 1 THEN 0 ELSE out[j - 1][1].id, out[j][1])
    /\ c # <<>> => Follows(LastOf(out), c[1])
    /\ \A k \in 2 .. Len(c) - 1 : c[k] = Nul => Follows(c[k - 1].id, c[k + 1])

(* A text and what is staged of it, byte by byte.                           *)
LEMMA TextIs ==
    ASSUME NEW m \in Messages
    PROVE  /\ m \in Bytes /\ m # Nul
           /\ TextLen(m) \in 1 .. PacketMax - 1 /\ m.len \in 1 .. PacketMax
           /\ Text(m) \in Seq(Bytes) /\ Len(Text(m)) = TextLen(m) /\ \A i \in 1 .. TextLen(m) : Text(m)[i] = m
           /\ Staged(m) \in Seq(Bytes) /\ Len(Staged(m)) = TextLen(m) + 1
           /\ \A i \in 1 .. TextLen(m) : Staged(m)[i] = m
           /\ Staged(m)[TextLen(m) + 1] = Nul
           /\ m.len <= Len(Staged(m))
  <1>1. m.len \in 1 .. PacketMax /\ m.id \in Nat /\ m.n \in Nat /\ PacketMax \in Nat /\ 1 < PacketMax
    BY Consts DEF Messages
  <1>2. m \in Bytes /\ m # Nul /\ Nul \in Bytes
    BY <1>1 DEF Bytes, Nul, Messages
  <1>3. TextLen(m) \in 1 .. PacketMax - 1
    BY <1>1 DEF TextLen
  <1>4. Text(m) = [i \in 1 .. TextLen(m) |-> m]
    BY DEF Text, TextLen
  <1>5. Text(m) \in Seq(Bytes) /\ Len(Text(m)) = TextLen(m) /\ \A i \in 1 .. TextLen(m) : Text(m)[i] = m
    BY <1>2, <1>3, <1>4
  <1>6. Staged(m) = Append(Text(m), Nul)
    BY DEF Staged
  <1>7. /\ Staged(m) \in Seq(Bytes) /\ Len(Staged(m)) = TextLen(m) + 1
        /\ \A i \in 1 .. TextLen(m) : Staged(m)[i] = m
        /\ Staged(m)[TextLen(m) + 1] = Nul
    BY <1>2, <1>3, <1>5, <1>6
  <1>8. m.len <= TextLen(m) + 1
    BY <1>1 DEF TextLen
  <1> QED BY <1>1, <1>2, <1>3, <1>5, <1>7, <1>8

(* d is c with a message behind it.                                         *)
Joined(c, m, d) ==
    /\ Len(d) = Len(c) + TextLen(m) + 1
    /\ \A i \in 1 .. Len(c) : d[i] = c[i]
    /\ \A i \in 1 .. TextLen(m) : d[Len(c) + i] = m
    /\ d[Len(c) + TextLen(m) + 1] = Nul

(* A message put behind whole messages leaves whole messages.               *)
LEMMA JoinFramed ==
    ASSUME NEW c \in Seq(Bytes), NEW d \in Seq(Bytes), NEW m \in Messages, Framed(c), Joined(c, m, d)
    PROVE  Framed(d)
  <1> DEFINE l == Len(c)
             n == TextLen(m)
  <1>1. l \in Nat /\ n \in Nat /\ n >= 1 /\ m # Nul /\ Len(d) = l + n + 1
    BY TextIs DEF Joined
  <1>2. /\ \A i \in 1 .. l : d[i] = c[i]
        /\ \A i \in 1 .. n : d[l + i] = m
        /\ d[l + n + 1] = Nul
    BY DEF Joined
  <1> HIDE DEF n
  <1>3. d[Len(d)] = Nul
    BY <1>1, <1>2
  <1>4. ASSUME NEW e \in 1 .. Len(d), d[e] = Nul PROVE Ends(d, e)
    <2>1. CASE e <= l
      <3>1. Ends(c, e) /\ e - 1 \in 1 .. l
        BY <2>1, <1>1, <1>2, <1>4 DEF Framed, Ends
      <3>2. d[e - 1] = c[e - 1] /\ TextLen(c[e - 1]) \in Nat
        BY <3>1, <1>2, TextIs DEF Ends
      <3>3. \A i \in 1 .. TextLen(c[e - 1]) : d[e - i] = c[e - i]
        <4> TAKE i \in 1 .. TextLen(c[e - 1])
        <4>1. TextLen(c[e - 1]) < e
          BY <3>1 DEF Ends
        <4>2. e - i \in 1 .. l
          BY <4>1, <3>2, <2>1, <1>1
        <4> QED BY <4>2, <1>2
      <3>4. e - TextLen(c[e - 1]) - 1 \in 1 .. l => d[e - TextLen(c[e - 1]) - 1] = c[e - TextLen(c[e - 1]) - 1]
        BY <1>2
      <3> QED BY <2>1, <3>1, <3>2, <3>3, <3>4, <1>1 DEF Ends
    <2>2. CASE e > l
      <3>1. e = l + n + 1
        <4>1. SUFFICES ASSUME e # l + n + 1 PROVE FALSE
          OBVIOUS
        <4>2. e - l \in 1 .. n /\ l + (e - l) = e
          BY <1>1, <2>2, <4>1
        <4>3. d[e] = m
          BY <4>2, <1>2
        <4> QED BY <4>3, <1>4, <1>1
      <3>2. d[e - 1] = m /\ e - 1 = l + n
        BY <3>1, <1>1, <1>2
      <3>3. \A i \in 1 .. n : d[e - i] = m
        <4> TAKE i \in 1 .. n
        <4>1. n - i + 1 \in 1 .. n /\ e - i = l + (n - i + 1)
          BY <3>1, <1>1
        <4> QED BY <4>1, <1>2
      <3>4. e = n + 1 \/ d[e - n - 1] = Nul
        <4>1. CASE l = 0
          BY <4>1, <3>1, <1>1
        <4>2. CASE l # 0
          <5>1. c # <<>> /\ l \in 1 .. l
            BY <4>2, <1>1
          <5> QED BY <5>1, <3>1, <1>1, <1>2 DEF Framed
        <4> QED BY <4>1, <4>2
      <3> QED BY <3>1, <3>2, <3>3, <3>4, <1>1 DEF Ends, n
    <2> QED BY <2>1, <2>2, <1>1
  <1> QED BY <1>3, <1>4 DEF Framed

(* .. and messages in order, if it is the youngest.                         *)
LEMMA JoinOrdered ==
    ASSUME NEW c \in Seq(Bytes), NEW d \in Seq(Bytes), NEW m \in Messages, NEW out \in Seq(Seq(Bytes)), NEW top \in Nat, NEW last \in Nat,
           Ordered(out, c, top), Joined(c, m, d), top <= last, m.id = last, m.n = 0 => top < last,
           \A j \in 1 .. Len(out) : out[j][1] \in Bytes
    PROVE  Ordered(out, d, last)
  <1> DEFINE l == Len(c)
             n == TextLen(m)
  <1>1. l \in Nat /\ n \in Nat /\ n >= 1 /\ m # Nul /\ Len(d) = l + n + 1 /\ Len(out) \in Nat
    BY TextIs DEF Joined
  <1>2. /\ \A i \in 1 .. l : d[i] = c[i]
        /\ \A i \in 1 .. n : d[l + i] = m
        /\ d[l + n + 1] = Nul
    BY DEF Joined
  <1> HIDE DEF n
  <1>3. \A k \in 1 .. Len(d) : d[k] # Nul => (k \in 1 .. l /\ d[k] = c[k]) \/ (k > l /\ d[k] = m)
    <2> TAKE k \in 1 .. Len(d)
    <2>1. CASE k <= l
      BY <2>1, <1>1, <1>2
    <2>2. CASE k > l /\ k # l + n + 1
      <3>1. k - l \in 1 .. n /\ k = l + (k - l)
        BY <2>2, <1>1
      <3> QED BY <3>1, <1>2, <2>2
    <2> QED BY <2>1, <2>2, <1>1, <1>2
  <1>4. \A k \in 1 .. l : c[k] \in Bytes /\ c[k].id <= top /\ c[k].id \in Nat
    <2>1. \A k \in 1 .. l : c[k] \in Bytes
      OBVIOUS
    <2> QED BY <2>1 DEF Ordered, Bytes
  <1>5. \A k \in 1 .. Len(d) : d[k].id <= last
    <2> TAKE k \in 1 .. Len(d)
    <2>1. CASE d[k] = Nul
      BY <2>1 DEF Nul
    <2>2. CASE d[k] # Nul
      <3>1. CASE k \in 1 .. l /\ d[k] = c[k]
        BY <3>1, <1>4
      <3>2. CASE d[k] = m
        BY <3>2
      <3> QED BY <2>2, <3>1, <3>2, <1>3
    <2> QED BY <2>1, <2>2
  <1>6. \A j \in 1 .. Len(out) : Whole(out[j]) /\ out[j][1].id <= last /\ out[j][1].id <= top /\ out[j][1].id \in Nat
    BY DEF Ordered, Bytes
  <1>7. \A p \in Bytes : p.id <= top => Before(p, m)
    BY DEF Before, Bytes
  <1>8. ASSUME NEW i \in 1 .. Len(out), NEW k \in 1 .. Len(d), d[k] # Nul PROVE Before(out[i][1], d[k])
    <2>1. CASE k \in 1 .. l /\ d[k] = c[k]
      BY <2>1, <1>8 DEF Ordered
    <2>2. CASE d[k] = m
      BY <2>2, <1>6, <1>7
    <2> QED BY <2>1, <2>2, <1>3, <1>8
  <1>9. ASSUME NEW i \in 1 .. Len(d), NEW k \in 1 .. Len(d), NEW j \in 1 .. Len(d),
               i < k, k < j, d[k] = Nul, d[i] # Nul, d[j] # Nul
        PROVE  Before(d[i], d[j])
    <2>1. CASE j \in 1 .. l /\ d[j] = c[j]
      <3>1. i \in 1 .. l /\ k \in 1 .. l /\ d[i] = c[i] /\ d[k] = c[k]
        BY <2>1, <1>9, <1>1, <1>2
      <3> QED BY <2>1, <3>1, <1>9 DEF Ordered
    <2>2. CASE j > l /\ d[j] = m
      <3>1. i \in 1 .. l /\ d[i] = c[i]
        <4>1. CASE k <= l
          BY <4>1, <1>9, <1>1, <1>2
        <4>2. CASE k > l
          <5>1. k # l + n + 1 /\ k - l \in 1 .. n /\ k = l + (k - l)
            BY <4>2, <1>9, <1>1
          <5>2. d[k] = m
            BY <5>1, <1>2
          <5> QED BY <5>2, <1>9, <1>1
        <4> QED BY <4>1, <4>2, <1>1
      <3> QED BY <3>1, <2>2, <1>4, <1>7
    <2> QED BY <2>1, <2>2, <1>3, <1>9
  <1> QED BY <1>5, <1>6, <1>8, <1>9 DEF Ordered

(* d is what follows the first message in c.                                *)
Left(c, d) ==
    LET n == TextLen(c[1])
    IN  Len(d) = Len(c) - n - 1 /\ \A i \in 1 .. Len(c) - n - 1 : d[i] = c[i + n + 1]

(* The ring begins with a whole message.                                    *)
LEMMA FirstMessage ==
    ASSUME NEW c \in Seq(Bytes), Framed(c), c # <<>>
    PROVE  /\ c[1] \in Messages /\ TextLen(c[1]) + 1 <= Len(c) /\ c[TextLen(c[1]) + 1] = Nul
           /\ \A i \in 1 .. TextLen(c[1]) : c[i] = c[1]
  <1> DEFINE Z == {e \in 1 .. Len(c) : c[e] = Nul}
  <1>1. Len(c) \in Z /\ Z \in SUBSET Nat
    BY DEF Framed
  <1>2. PICK e \in Z : \A f \in Z : e <= f
    BY <1>1, Minimum
  <1>3. e \in 1 .. Len(c) /\ c[e] = Nul /\ Ends(c, e)
    BY <1>2 DEF Framed
  <1> DEFINE m == c[e - 1]
             n == TextLen(m)
  <1>4. m \in Messages /\ n \in Nat /\ n >= 1 /\ e > n /\ e > 1
    BY <1>3, TextIs DEF Ends
  <1>5. \A i \in 1 .. n : c[e - i] = m
    BY <1>3 DEF Ends
  <1>6. e = n + 1 \/ c[e - n - 1] = Nul
    BY <1>3 DEF Ends
  <1> HIDE DEF m, n
  <1>7. e = n + 1
    <2> SUFFICES ASSUME e # n + 1 PROVE FALSE
      OBVIOUS
    <2>1. e - n - 1 \in Z
      BY <1>3, <1>4, <1>6
    <2> QED BY <2>1, <1>2, <1>3, <1>4
  <1>8. \A i \in 1 .. n : c[i] = m
    <2> TAKE i \in 1 .. n
    <2>1. e - i \in 1 .. n /\ e - (e - i) = i
      BY <1>3, <1>4, <1>7
    <2> QED BY <2>1, <1>5
  <1>9. c[1] = m
    BY <1>8, <1>4
  <1> QED BY <1>3, <1>4, <1>7, <1>8, <1>9 DEF n

(* Without its first message the ring still holds whole messages.           *)
LEMMA LeftFramed ==
    ASSUME NEW c \in Seq(Bytes), NEW d \in Seq(Bytes), Framed(c), c # <<>>, Left(c, d)
    PROVE  Framed(d)
  <1> DEFINE n == TextLen(c[1])
  <1>1. n \in Nat /\ n >= 1 /\ n + 1 <= Len(c) /\ c[n + 1] = Nul /\ Len(c) \in Nat
    BY FirstMessage, TextIs
  <1>2. Len(d) = Len(c) - n - 1 /\ \A i \in 1 .. Len(c) - n - 1 : d[i] = c[i + n + 1]
    BY DEF Left
  <1> HIDE DEF n
  <1>3. ASSUME d # <<>> PROVE d[Len(d)] = Nul
    <2>1. Len(d) \in 1 .. Len(c) - n - 1 /\ Len(d) + n + 1 = Len(c)
      BY <1>1, <1>2, <1>3
    <2> QED BY <2>1, <1>2 DEF Framed
  <1>4. ASSUME NEW e \in 1 .. Len(d), d[e] = Nul PROVE Ends(d, e)
    <2> DEFINE f == e + n + 1
               l == TextLen(c[f - 1])
    <2>1. f \in 1 .. Len(c) /\ c[f] = Nul /\ f > n + 1
      BY <1>1, <1>2, <1>4
    <2>2. Ends(c, f)
      BY <2>1 DEF Framed
    <2>3. c[f - 1] \in Messages /\ l \in Nat /\ l >= 1 /\ f > l /\ c[f - 1] # Nul
      BY <2>2, TextIs DEF Ends
    <2>4. \A i \in 1 .. l : c[f - i] = c[f - 1]
      BY <2>2 DEF Ends
    <2>5. f = l + 1 \/ c[f - l - 1] = Nul
      BY <2>2 DEF Ends
    <2> HIDE DEF l
    <2>6. l < e
      <3> SUFFICES ASSUME l >= e PROVE FALSE
        BY <2>3
      <3>1. f - (n + 1) \in 1 .. l /\ f - (f - (n + 1)) = n + 1 /\ f - (n + 1) = e
        BY <1>1, <2>1, <2>3
      <3>2. e \in 1 .. l /\ f - e = n + 1
        BY <3>1, <1>1
      <3>3. c[n + 1] = c[f - 1]
        BY <3>2, <2>4
      <3> QED BY <3>3, <1>1, <2>3
    <2>7. \A i \in 1 .. l : d[e - i] = c[f - i]
      <3> TAKE i \in 1 .. l
      <3>1. e - i \in 1 .. Len(c) - n - 1 /\ (e - i) + n + 1 = f - i
        BY <2>3, <2>6, <1>1, <1>2, <1>4
      <3> QED BY <3>1, <1>2
    <2>8. d[e - 1] = c[f - 1]
      BY <2>7, <2>3
    <2>9. e = l + 1 \/ d[e - l - 1] = Nul
      <3>1. CASE e = l + 1
        BY <3>1
      <3>2. CASE e # l + 1
        <4>1. e - l - 1 \in 1 .. Len(c) - n - 1 /\ (e - l - 1) + n + 1 = f - l - 1 /\ f # l + 1
          BY <3>2, <2>3, <2>6, <1>1, <1>2, <1>4
        <4> QED BY <4>1, <2>5, <1>2
      <3> QED BY <3>1, <3>2
    <2>10. \A i \in 1 .. l : d[e - i] = d[e - 1]
      BY <2>4, <2>7, <2>8
    <2> QED BY <2>3, <2>6, <2>8, <2>9, <2>10 DEF Ends, l
  <1> QED BY <1>3, <1>4 DEF Framed

(* .. in order, also when the first one is sent.                            *)
LEMMA LeftOrdered ==
    ASSUME NEW c \in Seq(Bytes), NEW d \in Seq(Bytes), NEW out \in Seq(Seq(Bytes)), NEW top \in Nat,
           Framed(c), c # <<>>, Left(c, d), Ordered(out, c, top)
    PROVE  /\ Ordered(out, d, top)
           /\ Ordered(Append(out, Text(c[1])), d, top)
  <1> DEFINE n == TextLen(c[1])
             m == c[1]
             o == Append(out, Text(m))
  <1>1. n \in Nat /\ n >= 1 /\ n + 1 <= Len(c) /\ c[n + 1] = Nul /\ Len(c) \in Nat /\ c[1] \in Messages
    BY FirstMessage, TextIs
  <1>2. Len(d) = Len(c) - n - 1 /\ \A i \in 1 .. Len(c) - n - 1 : d[i] = c[i + n + 1]
    BY DEF Left
  <1>3. Text(m) \in Seq(Bytes) /\ Text(m) # <<>> /\ Text(m)[1] = m /\ m # Nul /\ Whole(Text(m))
    <2>1. m \in Messages /\ m # Nul /\ Text(m) \in Seq(Bytes) /\ Len(Text(m)) >= 1 /\ Text(m)[1] = m
      BY <1>1, TextIs
    <2> HIDE DEF m
    <2> QED BY <2>1 DEF Whole
  <1>4. Len(o) = Len(out) + 1 /\ (\A j \in 1 .. Len(out) : o[j] = out[j]) /\ o[Len(out) + 1] = Text(m) /\ Len(out) \in Nat
    BY <1>3
  <1> HIDE DEF n, o, m
  <1>5. \A i \in 1 .. Len(d) : i + n + 1 \in 1 .. Len(c) /\ d[i] = c[i + n + 1] /\ n + 1 \in 1 .. Len(c) /\ 1 \in 1 .. Len(c) /\ 1 < n + 1 /\ n + 1 < i + n + 1
    BY <1>1, <1>2
  <1>6. \A k \in 1 .. Len(d) : d[k].id <= top
    BY <1>5 DEF Ordered
  <1>7. \A i \in 1 .. Len(out), k \in 1 .. Len(d) : d[k] # Nul => Before(out[i][1], d[k])
    BY <1>5 DEF Ordered
  <1>8. \A i, k, j \in 1 .. Len(d) : i < k /\ k < j /\ d[k] = Nul /\ d[i] # Nul /\ d[j] # Nul => Before(d[i], d[j])
    <2> TAKE i, k, j \in 1 .. Len(d)
    <2> HAVE i < k /\ k < j /\ d[k] = Nul /\ d[i] # Nul /\ d[j] # Nul
    <2>1. i + n + 1 < k + n + 1 /\ k + n + 1 < j + n + 1
      BY <1>1
    <2>2. /\ i + n + 1 \in 1 .. Len(c) /\ k + n + 1 \in 1 .. Len(c) /\ j + n + 1 \in 1 .. Len(c)
          /\ d[i] = c[i + n + 1] /\ d[k] = c[k + n + 1] /\ d[j] = c[j + n + 1]
      BY <1>5
    <2>3. \A x, y, z \in 1 .. Len(c) : x < y /\ y < z /\ c[y] = Nul /\ c[x] # Nul /\ c[z] # Nul => Before(c[x], c[z])
      BY DEF Ordered
    <2> QED BY <2>1, <2>2, <2>3
  <1>9. Ordered(out, d, top)
    BY <1>6, <1>7, <1>8 DEF Ordered
  <1>10. \A k \in 1 .. Len(d) : d[k] # Nul => Before(m, d[k])
    BY <1>1, <1>3, <1>5 DEF Ordered, m
  <1>11. m.id <= top /\ \A i \in 1 .. Len(out) : Before(out[i][1], m)
    <2>1. 1 \in 1 .. Len(c) /\ c[1] = m
      BY <1>1 DEF m
    <2> QED BY <2>1, <1>3 DEF Ordered
  <1>12. \A j \in 1 .. Len(o) : Whole(o[j]) /\ o[j][1].id <= top
    <2> TAKE j \in 1 .. Len(o)
    <2>1. CASE j \in 1 .. Len(out)
      BY <2>1, <1>4 DEF Ordered
    <2>2. CASE j = Len(out) + 1
      BY <2>2, <1>3, <1>4, <1>11
    <2> QED BY <2>1, <2>2, <1>4
  <1>13. \A i, j \in 1 .. Len(o) : i < j => Before(o[i][1], o[j][1])
    <2> TAKE i, j \in 1 .. Len(o)
    <2> HAVE i < j
    <2>1. i \in 1 .. Len(out) /\ o[i] = out[i]
      BY <1>4
    <2>2. CASE j \in 1 .. Len(out)
      BY <2>1, <2>2, <1>4 DEF Ordered
    <2>3. CASE j = Len(out) + 1
      BY <2>1, <2>3, <1>3, <1>4, <1>11
    <2>4. j \in 1 .. Len(out) \/ j = Len(out) + 1
      <3>1. Len(o) = Len(out) + 1 /\ Len(out) \in Nat
        BY <1>4
      <3>2. j \in 1 .. Len(o)
        OBVIOUS
      <3> QED BY ONLY <3>1, <3>2
    <2> QED BY <2>2, <2>3, <2>4
  <1>14. ASSUME NEW i \in 1 .. Len(o), NEW k \in 1 .. Len(d), d[k] # Nul PROVE Before(o[i][1], d[k])
    <2>1. CASE i \in 1 .. Len(out)
      BY <2>1, <1>4, <1>7, <1>14
    <2>2. CASE i = Len(out) + 1
      BY <2>2, <1>3, <1>4, <1>10, <1>14
    <2> QED BY <2>1, <2>2, <1>4
  <1>15. Ordered(o, d, top)
    BY <1>6, <1>8, <1>12, <1>13, <1>14 DEF Ordered
  <1> QED BY <1>9, <1>15 DEF o, m

(* What is sent past an empty ring is in order.                             *)
LEMMA SentOrdered ==
    ASSUME NEW m \in Messages, NEW out \in Seq(Seq(Bytes)), NEW top \in Nat, NEW last \in Nat, NEW p \in Seq(Bytes),
           Ordered(out, <<>>, top), top <= last, m.id = last, m.n = 0 => top < last,
           p \in {Text(m), SubSeq(Staged(m), 1, m.len)}, p # <<>>, p[1] = m,
           \A j \in 1 .. Len(out) : out[j][1] \in Bytes
    PROVE  Ordered(Append(out, p), <<>>, last)
  <1> DEFINE o == Append(out, p)
  <1>1. Len(o) = Len(out) + 1 /\ (\A j \in 1 .. Len(out) : o[j] = out[j]) /\ o[Len(out) + 1] = p /\ Len(out) \in Nat
    OBVIOUS
  <1>2. Whole(p)
    BY DEF Whole
  <1> HIDE DEF o
  <1>3. \A j \in 1 .. Len(out) : Whole(out[j]) /\ out[j][1].id <= last /\ Before(out[j][1], m)
    <2> TAKE j \in 1 .. Len(out)
    <2>1. out[j][1].id \in Nat /\ out[j][1].id <= top /\ Whole(out[j])
      BY DEF Ordered, Bytes
    <2> QED BY <2>1, SMTT(40) DEF Before
  <1>4. \A j \in 1 .. Len(o) : Whole(o[j]) /\ o[j][1].id <= last
    <2> TAKE j \in 1 .. Len(o)
    <2>1. CASE j \in 1 .. Len(out)
      BY <2>1, <1>1, <1>3
    <2>2. CASE j = Len(out) + 1
      BY <2>2, <1>1, <1>2
    <2> QED BY <2>1, <2>2, <1>1
  <1>5. \A i, j \in 1 .. Len(o) : i < j => Before(o[i][1], o[j][1])
    <2> TAKE i, j \in 1 .. Len(o)
    <2> HAVE i < j
    <2>1. i \in 1 .. Len(out) /\ o[i] = out[i]
      BY <1>1
    <2>2. CASE j \in 1 .. Len(out)
      BY <2>1, <2>2, <1>1 DEF Ordered
    <2>3. CASE j = Len(out) + 1
      BY <2>1, <2>3, <1>1, <1>3
    <2>4. j \in 1 .. Len(out) \/ j = Len(out) + 1
      BY <1>1
    <2> QED BY <2>2, <2>3, <2>4
  <1>6. Ordered(o, <<>>, last)
    BY <1>4, <1>5 DEF Ordered
  <1> QED BY <1>6 DEF o

(* A message that accounts for all since the last one is in turn behind it. *)
LEMMA JoinInTurn ==
    ASSUME NEW c \in Seq(Bytes), NEW d \in Seq(Bytes), NEW m \in Messages, NEW out \in Seq(Seq(Bytes)),
           InTurn(out, c), Framed(c), Joined(c, m, d), Follows(EndOf(out, c), m)
    PROVE  InTurn(out, d) /\ EndOf(out, d) = m.id
  <1> DEFINE l == Len(c)
             n == TextLen(m)
  <1>1. l \in Nat /\ n \in Nat /\ n >= 1 /\ m # Nul /\ Len(d) = l + n + 1
    BY TextIs DEF Joined
  <1>2. /\ \A i \in 1 .. l : d[i] = c[i]
        /\ \A i \in 1 .. n : d[l + i] = m
        /\ d[l + n + 1] = Nul
    BY DEF Joined
  <1> HIDE DEF n
  <1>3. d # <<>> /\ d[Len(d) - 1] = m
    <2>1. Len(d) - 1 = l + n /\ n \in 1 .. n
      BY <1>1
    <2>2. d[l + n] = m
      BY <2>1, <1>2
    <2> QED BY <2>1, <2>2, <1>1
  <1>4. EndOf(out, d) = m.id
    BY <1>3 DEF EndOf
  <1>5. CASE c = <<>>
    <2>1. l = 0 /\ d[1] = m
      BY <1>5, <1>1, <1>2
    <2>2. Follows(LastOf(out), d[1])
      BY <2>1, <1>5 DEF EndOf
    <2>3. \A k \in 2 .. Len(d) - 1 : d[k] # Nul
      <3> TAKE k \in 2 .. Len(d) - 1
      <3>1. k \in 1 .. n /\ l + k = k
        BY <2>1, <1>1
      <3> QED BY <3>1, <1>1, <1>2
    <2> QED BY <2>2, <2>3, <1>4 DEF InTurn
  <1>6. CASE c # <<>>
    <2>1. l >= 1 /\ d[1] = c[1] /\ c[l] = Nul /\ Ends(c, l) /\ l >= 2
      BY <1>6, <1>1, <1>2 DEF Framed, Ends
    <2>2. Follows(LastOf(out), d[1])
      BY <2>1, <1>6 DEF InTurn
    <2>3. ASSUME NEW k \in 2 .. Len(d) - 1, d[k] = Nul PROVE Follows(d[k - 1].id, d[k + 1])
      <3>1. CASE k < l
        <4>1. k \in 2 .. l - 1 /\ k \in 1 .. l /\ k - 1 \in 1 .. l /\ k + 1 \in 1 .. l
          BY <3>1, <1>1
        <4>2. d[k] = c[k] /\ d[k - 1] = c[k - 1] /\ d[k + 1] = c[k + 1]
          BY <4>1, <1>2
        <4> QED BY <4>1, <4>2, <2>3 DEF InTurn
      <3>2. CASE k = l
        <4>1. l - 1 \in 1 .. l /\ 1 \in 1 .. n
          BY <2>1, <1>1
        <4>2. d[k + 1] = m /\ d[k - 1] = c[l - 1]
          BY <4>1, <3>2, <1>2
        <4> QED BY <4>2, <1>6 DEF EndOf
      <3>3. CASE k > l
        <4>1. k - l \in 1 .. n /\ l + (k - l) = k
          BY <3>3, <1>1
        <4>2. d[k] = m
          BY <4>1, <1>2
        <4> QED BY <4>2, <2>3, <1>1
      <3> QED BY <3>1, <3>2, <3>3, <1>1
    <2> QED BY <2>2, <2>3, <1>4 DEF InTurn
  <1> QED BY <1>5, <1>6

(* What is sent next is in its turn.                                        *)
LEMMA SentInTurn ==
    ASSUME NEW m \in Messages, NEW out \in Seq(Seq(Bytes)), NEW p \in Seq(Bytes), p # <<>>, p[1] = m,
           InTurn(out, <<>>), Follows(LastOf(out), m)
    PROVE  InTurn(Append(out, p), <<>>) /\ LastOf(Append(out, p)) = m.id
  <1> DEFINE o == Append(out, p)
  <1>1. Len(o) = Len(out) + 1 /\ (\A j \in 1 .. Len(out) : o[j] = out[j]) /\ o[Len(out) + 1] = p /\ Len(out) \in Nat
    OBVIOUS
  <1> HIDE DEF o
  <1>2. LastOf(o) = m.id
    <2>1. o # <<>> /\ o[Len(o)] = p
      BY <1>1
    <2> QED BY <2>1 DEF LastOf
  <1>3. ASSUME NEW j \in 1 .. Len(o) PROVE Follows(IF j = 1 THEN 0 ELSE o[j - 1][1].id, o[j][1])
    <2>1. CASE j \in 1 .. Len(out)
      <3>1. o[j] = out[j] /\ (j # 1 => o[j - 1] = out[j - 1])
        <4>1. j # 1 => j - 1 \in 1 .. Len(out)
          BY <2>1, <1>1
        <4> QED BY <4>1, <2>1, <1>1
      <3> QED BY <2>1, <3>1 DEF InTurn
    <2>2. CASE j = Len(out) + 1
      <3>1. (IF j = 1 THEN 0 ELSE o[j - 1][1].id) = LastOf(out)
        BY <2>2, <1>1 DEF LastOf
      <3> QED BY <2>2, <3>1, <1>1
    <2> QED BY <2>1, <2>2, <1>1
  <1>4. InTurn(o, <<>>)
    BY <1>3 DEF InTurn
  <1> QED BY <1>2, <1>4 DEF o

(* Sending the first message of the ring leaves all in turn.                *)
LEMMA LeftInTurn ==
    ASSUME NEW c \in Seq(Bytes), NEW d \in Seq(Bytes), NEW out \in Seq(Seq(Bytes)),
           Framed(c), c # <<>>, Left(c, d), InTurn(out, c)
    PROVE  InTurn(Append(out, Text(c[1])), d) /\ EndOf(Append(out, Text(c[1])), d) = EndOf(out, c)
  <1> DEFINE n == TextLen(c[1])
             m == c[1]
             o == Append(out, Text(m))
  <1>1. n \in Nat /\ n >= 1 /\ n + 1 <= Len(c) /\ c[n + 1] = Nul /\ Len(c) \in Nat /\ m \in Messages /\ \A i \in 1 .. n : c[i] = m
    BY FirstMessage, TextIs
  <1>2. Len(d) = Len(c) - n - 1 /\ \A i \in 1 .. Len(c) - n - 1 : d[i] = c[i + n + 1]
    BY DEF Left
  <1>3. Text(m) \in Seq(Bytes) /\ Text(m) # <<>> /\ Text(m)[1] = m
    BY <1>1, TextIs
  <1> HIDE DEF n
  <1>4. InTurn(out, <<>>) /\ Follows(LastOf(out), m)
    <2>1. /\ \A j \in 1 .. Len(out) : Follows(IF j = 1 THEN 0 ELSE out[j - 1][1].id, out[j][1])
          /\ Follows(LastOf(out), c[1])
      BY DEF InTurn
    <2>2. 2 .. Len(<<>>) - 1 = {}
      OBVIOUS
    <2> QED BY <2>1, <2>2 DEF InTurn
  <1>5. InTurn(o, <<>>) /\ LastOf(o) = m.id
    <2> HIDE DEF m
    <2> QED BY <1>1, <1>3, <1>4, SentInTurn
  <1> HIDE DEF o, m
  <1>6. \A j \in 1 .. Len(o) : Follows(IF j = 1 THEN 0 ELSE o[j - 1][1].id, o[j][1])
    BY <1>5 DEF InTurn
  <1>7. CASE d = <<>>
    <2>1. Len(c) = n + 1
      BY <1>7, <1>1, <1>2
    <2>2. c[Len(c) - 1] = m
      BY <2>1, <1>1
    <2>3. EndOf(out, c) = m.id
      BY <2>2 DEF EndOf
    <2> QED BY <2>3, <1>5, <1>7 DEF EndOf, o, m
  <1>8. CASE d # <<>>
    <2>1. Len(d) >= 1 /\ n + 1 \in 2 .. Len(c) - 1 /\ d[1] = c[n + 2] /\ c[n] = m
      BY <1>8, <1>1, <1>2
    <2>2. Follows(c[n + 1 - 1].id, c[n + 1 + 1])
      BY <2>1, <1>1 DEF InTurn
    <2>3. Follows(LastOf(o), d[1])
      <3>1. n + 1 - 1 = n /\ n + 1 + 1 = n + 2
        BY <1>1
      <3> QED BY <2>1, <2>2, <3>1, <1>5
    <2>4. ASSUME NEW k \in 2 .. Len(d) - 1, d[k] = Nul PROVE Follows(d[k - 1].id, d[k + 1])
      <3> DEFINE h == k + n + 1
      <3>1. h \in 2 .. Len(c) - 1 /\ d[k] = c[h] /\ d[k - 1] = c[h - 1] /\ d[k + 1] = c[h + 1]
        <4>1. k \in 1 .. Len(c) - n - 1 /\ k - 1 \in 1 .. Len(c) - n - 1 /\ k + 1 \in 1 .. Len(c) - n - 1
          BY <1>1, <1>2
        <4>2. k - 1 + n + 1 = h - 1 /\ k + 1 + n + 1 = h + 1 /\ h \in 2 .. Len(c) - 1
          BY <1>1, <1>2
        <4>3. d[k - 1] = c[k - 1 + n + 1] /\ d[k + 1] = c[k + 1 + n + 1] /\ d[k] = c[k + n + 1]
          BY <4>1, <1>2
        <4> QED BY <4>2, <4>3
      <3> HIDE DEF h
      <3> QED BY <3>1, <2>4 DEF InTurn
    <2>5. EndOf(o, d) = EndOf(out, c)
      <3>1. Len(d) >= 2
        <4>1. Framed(d)
          BY LeftFramed
        <4> QED BY <4>1, <2>1, <1>8 DEF Framed, Ends
      <3>2. Len(d) - 1 \in 1 .. Len(c) - n - 1 /\ Len(d) - 1 + n + 1 = Len(c) - 1
        BY <3>1, <1>1, <1>2
      <3>3. d[Len(d) - 1] = c[Len(c) - 1]
        BY <3>2, <1>2
      <3> QED BY <3>3, <1>8 DEF EndOf
    <2>6. InTurn(o, d)
      BY <1>6, <2>3, <2>4 DEF InTurn
    <2> QED BY <2>5, <2>6 DEF o, m
  <1> QED BY <1>7, <1>8

-----------------------------------------------------------------------------
(* The invariant of the log, operation by operation.                        *)

(* What the log is proved under: the offsets wrap where the ring does, or   *)
(* they do not wrap for as long as there are messages.                      *)
OffsetsFit == Wraps \/ PacketMax * (2 * MaxErrors + 1) < Word

Sized(s, w) == Wraps \/ (s.cons <= s.prod /\ s.prod <= PacketMax * (s.last - s.oom - w))

(* The log while it works on a message that weighs w, those before it being *)
(* at most top; calm says that syslogd was never down.                      *)
Kept(s, top, w, calm) ==
    /\ s \in Logs /\ Used(s) <= RingSize /\ s.last <= 2 * MaxErrors + 1 /\ Sized(s, w)
    /\ Framed(Content(s)) /\ Ordered(s.out, Content(s), top)
    /\ Content(s) # <<>> => ~s.masked
    /\ calm => /\ s.conn \in {"none", "live"}
               /\ Content(s) # <<>> => s.conn = "live"
               /\ InTurn(s.out, Content(s))
               /\ EndOf(s.out, Content(s)) + s.oom + w = s.last

(* What the invariant says of the types of its parts.                       *)
LEMMA KeptIs ==
    ASSUME NEW s, NEW top, NEW w, NEW calm, Kept(s, top, w, calm)
    PROVE  /\ s \in Logs /\ Used(s) \in 0 .. RingSize /\ Reaches(s, 0)
           /\ Content(s) \in Seq(Bytes) /\ Len(Content(s)) = Used(s) /\ (Content(s) = <<>> <=> Empty(s))
           /\ s.last \in Nat /\ s.oom \in Nat /\ s.prod \in 0 .. Word - 1 /\ s.cons \in 0 .. Word - 1
           /\ s.out \in Seq(Seq(Bytes)) /\ \A j \in 1 .. Len(s.out) : s.out[j][1] \in Bytes
           /\ s.masked \in BOOLEAN
  <1>1. s \in Logs /\ Used(s) <= RingSize /\ Sized(s, w) /\ Ordered(s.out, Content(s), top)
    BY DEF Kept
  <1>2. /\ s.last \in Nat /\ s.oom \in Nat /\ s.prod \in 0 .. Word - 1 /\ s.cons \in 0 .. Word - 1
        /\ s.out \in Seq(Seq(Bytes)) /\ s.masked \in BOOLEAN
    BY <1>1 DEF Logs
  <1>3. Used(s) \in 0 .. RingSize /\ (Empty(s) <=> Used(s) = 0)
    BY <1>1, UsedIs, Consts
  <1>4. Reaches(s, 0)
    BY <1>1, <1>2, Consts DEF Sized, Reaches
  <1>5. Content(s) \in Seq(Bytes) /\ Len(Content(s)) = Used(s)
    BY <1>1, <1>4, ContentIs
  <1>6. \A j \in 1 .. Len(s.out) : s.out[j][1] \in Bytes
    <2> TAKE j \in 1 .. Len(s.out)
    <2>1. s.out[j] \in Seq(Bytes) /\ s.out[j] # <<>>
      BY <1>1, <1>2 DEF Ordered, Whole
    <2> QED BY <2>1
  <1>7. Content(s) = <<>> <=> Empty(s)
    BY <1>3, <1>5
  <1> QED BY <1>1, <1>2, <1>3, <1>4, <1>5, <1>6, <1>7

(* What is in order stays so as younger messages are numbered.              *)
LEMMA OrderedLater ==
    ASSUME NEW c \in Seq(Bytes), NEW out \in Seq(Seq(Bytes)), NEW top \in Nat, NEW last \in Nat, top <= last, Ordered(out, c, top),
           \A j \in 1 .. Len(out) : out[j][1] \in Bytes
    PROVE  Ordered(out, c, last)
  <1>1. \A p \in Bytes : p.id <= top => p.id <= last
    BY DEF Bytes
  <1>2. \A k \in 1 .. Len(c) : c[k] \in Bytes
    OBVIOUS
  <1> QED BY <1>1, <1>2 DEF Ordered

(* The parts of the log its messages are in.                                *)
LEMMA SameKeeps ==
    ASSUME NEW s, NEW t \in Logs, NEW top \in Nat, NEW w \in Nat, NEW calm \in BOOLEAN, Kept(s, top, w, calm),
           t.ring = s.ring, t.prod = s.prod, t.cons = s.cons, t.oom = s.oom, t.last = s.last, t.out = s.out,
           t.masked = s.masked \/ ~t.masked,
           calm => t.conn = s.conn \/ t.conn = "live"
    PROVE  Kept(t, top, w, calm) /\ Content(t) = Content(s)
  <1>1. Used(t) = Used(s) /\ Content(t) = Content(s) /\ (Sized(t, w) <=> Sized(s, w))
    BY DEF Used, Content, Sized
  <1>2. calm => t.conn \in {"none", "live"} /\ (Content(s) # <<>> => t.conn = "live")
    BY DEF Kept
  <1> QED BY <1>1, <1>2 DEF Kept

(* The end of what is out and in the ring is a number of a message.         *)
LEMMA EndIs ==
    ASSUME NEW c \in Seq(Bytes), NEW out \in Seq(Seq(Bytes)), Framed(c), \A j \in 1 .. Len(out) : out[j][1] \in Bytes
    PROVE  EndOf(out, c) \in Nat
  <1>1. CASE c = <<>>
    <2>1. out # <<>> => out[Len(out)][1] \in Bytes
      OBVIOUS
    <2> QED BY <1>1, <2>1 DEF EndOf, LastOf, Bytes
  <1>2. CASE c # <<>>
    <2>1. Len(c) - 1 \in 1 .. Len(c)
      BY <1>2 DEF Framed, Ends
    <2>2. c[Len(c) - 1] \in Bytes
      BY <2>1
    <2> QED BY <1>2, <2>2 DEF EndOf, Bytes
  <1> QED BY <1>1, <1>2

(* A message that is counted as dropped.                                    *)
LEMMA DropKeeps ==
    ASSUME NEW s, NEW top \in Nat, NEW w \in Nat, NEW calm \in BOOLEAN, Kept(s, top, w, calm), top <= s.last
    PROVE  /\ Kept([s EXCEPT !.oom = @ + w], s.last, 0, calm)
           /\ Content([s EXCEPT !.oom = @ + w]) = Content(s)
  <1> DEFINE t == [s EXCEPT !.oom = @ + w]
  <1>1. s \in Logs /\ s.oom \in Nat /\ s.last \in Nat
    BY KeptIs
  <1>2. /\ t \in Logs /\ t.oom = s.oom + w /\ t.ring = s.ring /\ t.prod = s.prod /\ t.cons = s.cons
        /\ t.last = s.last /\ t.out = s.out /\ t.masked = s.masked /\ t.conn = s.conn
    <2>1. s.oom + w \in Nat
      BY <1>1
    <2> QED BY <2>1, <1>1 DEF Logs
  <1> HIDE DEF t
  <1>3. Used(t) = Used(s) /\ Content(t) = Content(s)
    BY <1>2 DEF Used, Content
  <1>4. Sized(t, 0)
    <2>1. Sized(s, w)
      BY DEF Kept
    <2>2. t.last - t.oom - 0 = s.last - s.oom - w
      BY <1>1, <1>2
    <2> QED BY <2>1, <2>2, <1>2 DEF Sized
  <1>5. Ordered(t.out, Content(t), s.last)
    BY <1>1, <1>2, <1>3, KeptIs, OrderedLater DEF Kept
  <1>6. ASSUME calm PROVE InTurn(t.out, Content(t)) /\ EndOf(t.out, Content(t)) + t.oom + 0 = t.last
    <2>1. InTurn(s.out, Content(s)) /\ EndOf(s.out, Content(s)) + s.oom + w = s.last
      BY <1>6 DEF Kept
    <2>2. EndOf(s.out, Content(s)) \in Int
      <3>1. Content(s) \in Seq(Bytes) /\ s.out \in Seq(Seq(Bytes)) /\ Framed(Content(s)) /\ \A j \in 1 .. Len(s.out) : s.out[j][1] \in Bytes
        BY KeptIs DEF Kept
      <3> QED BY <3>1, EndIs
    <2> QED BY <2>1, <2>2, <1>1, <1>2, <1>3
  <1> QED BY <1>2, <1>3, <1>4, <1>5, <1>6 DEF Kept, t

(* A message that is lost while syslogd is down.                            *)
LEMMA LostKeeps ==
    ASSUME NEW s, NEW top \in Nat, NEW w \in Nat, Kept(s, top, w, FALSE), top <= s.last
    PROVE  Kept(s, s.last, 0, FALSE)
  <1>1. s \in Logs /\ s.oom \in Nat /\ s.last \in Nat /\ PacketMax \in Nat /\ s.prod \in Int
    <2>1. s \in Logs /\ s.oom \in Nat /\ s.last \in Nat /\ s.prod \in 0 .. Word - 1
      BY KeptIs
    <2> QED BY <2>1, Consts
  <1>2. Sized(s, 0)
    <2>1. Sized(s, w)
      BY DEF Kept
    <2>2. PacketMax * (s.last - s.oom - w) <= PacketMax * (s.last - s.oom - 0)
      <3> DEFINE x == s.last - s.oom
      <3>1. x \in Int
        BY <1>1
      <3> HIDE DEF x
      <3>2. PacketMax * (x - w) = PacketMax * x - PacketMax * w /\ PacketMax * w \in Nat /\ x - 0 = x
        BY <3>1, <1>1
      <3>3. PacketMax * x \in Int
        BY <3>1, <1>1
      <3> QED BY <3>2, <3>3 DEF x
    <2>3. PacketMax * (s.last - s.oom - w) \in Int /\ PacketMax * (s.last - s.oom - 0) \in Int
      BY <1>1
    <2> QED BY <2>1, <2>2, <2>3, <1>1 DEF Sized
  <1>3. Ordered(s.out, Content(s), s.last)
    BY <1>1, KeptIs, OrderedLater DEF Kept
  <1> QED BY <1>2, <1>3 DEF Kept

(* A message fits: there is room for it, and its bytes do not wrap where    *)
(* they may not.                                                            *)
LEMMA QueueFits ==
    ASSUME NEW s, NEW top \in Nat, NEW w \in Nat \ {0}, NEW calm \in BOOLEAN, NEW m \in Messages, Kept(s, top, w, calm), OffsetsFit
    PROVE  ~Wraps => s.prod + (TextLen(m) + 1) <= PacketMax * (s.last - s.oom) /\ s.prod + (TextLen(m) + 1) < Word /\ s.cons <= s.prod
  <1> SUFFICES ASSUME ~Wraps
               PROVE  s.prod + (TextLen(m) + 1) <= PacketMax * (s.last - s.oom) /\ s.prod + (TextLen(m) + 1) < Word /\ s.cons <= s.prod
    OBVIOUS
  <1>1. s.oom \in Nat /\ s.last \in Nat /\ s.prod \in Nat /\ s.last <= 2 * MaxErrors + 1 /\ s.cons <= s.prod
        /\ s.prod <= PacketMax * (s.last - s.oom - w)
    <2>1. s.oom \in Nat /\ s.last \in Nat /\ s.prod \in 0 .. Word - 1
      BY KeptIs
    <2> QED BY <2>1, Consts DEF Kept, Sized
  <1>2. TextLen(m) + 1 <= PacketMax /\ TextLen(m) \in Nat /\ PacketMax \in Nat /\ MaxErrors \in Nat /\ Word \in Nat
    BY TextIs, Consts
  <1>3. PacketMax * (2 * MaxErrors + 1) < Word
    BY DEF OffsetsFit
  <1> DEFINE x == s.last - s.oom
             top2 == 2 * MaxErrors + 1
  <1>4. x \in Int /\ x <= top2 /\ top2 \in Nat
    BY <1>1, <1>2
  <1>5. s.prod <= PacketMax * (x - w) /\ PacketMax * top2 < Word
    BY <1>1, <1>3
  <1> HIDE DEF x, top2
  <1>6. PacketMax * (x - w) <= PacketMax * x - PacketMax
    <2>1. w - 1 \in Nat /\ PacketMax * (w - 1) \in Nat
      BY <1>2
    <2>2. PacketMax * (x - w) = PacketMax * x - PacketMax * w /\ PacketMax * (w - 1) = PacketMax * w - PacketMax
      BY <1>2, <1>4
    <2>3. PacketMax * x \in Int /\ PacketMax * w \in Int
      BY <1>2, <1>4
    <2> QED BY <2>1, <2>2, <2>3, <1>2
  <1>7. PacketMax * x <= PacketMax * top2
    <2>1. top2 - x \in Nat
      BY <1>4
    <2>2. PacketMax * (top2 - x) \in Nat /\ PacketMax * (top2 - x) = PacketMax * top2 - PacketMax * x
      BY <2>1, <1>2, <1>4
    <2>3. PacketMax * x \in Int /\ PacketMax * top2 \in Int
      BY <1>2, <1>4
    <2> QED BY <2>2, <2>3
  <1>8. PacketMax * x \in Int /\ PacketMax * top2 \in Int /\ PacketMax * (x - w) \in Int
    BY <1>2, <1>4
  <1>9. s.prod + (TextLen(m) + 1) <= PacketMax * x
    BY <1>1, <1>2, <1>5, <1>6, <1>8
  <1>10. s.prod + (TextLen(m) + 1) < Word
    BY <1>9, <1>7, <1>5, <1>8, <1>1, <1>2
  <1> QED BY <1>1, <1>9, <1>10 DEF x

(* A message fits behind what is in the ring.                               *)
LEMMA WriteKeeps ==
    ASSUME NEW s, NEW top \in Nat, NEW w \in Nat \ {0}, NEW calm \in BOOLEAN, NEW m \in Messages, Kept(s, top, w, calm), OffsetsFit,
           m.id = s.last, w = Weight(m), top <= s.last, m.n = 0 => top < s.last, ~s.masked, calm => s.conn = "live",
           s.oom = 0, Used(s) + TextLen(m) + 1 <= RingSize
    PROVE  LET t == Put(s, Staged(m)) IN Kept(t, s.last, 0, calm) /\ Others(s, t)
  <1> DEFINE b == Staged(m)
             t == Put(s, b)
             c == Content(s)
             d == Content(t)
  <1>1. b \in Seq(Bytes) /\ Len(b) = TextLen(m) + 1 /\ TextLen(m) \in Nat /\ b[TextLen(m) + 1] = Nul /\ \A i \in 1 .. TextLen(m) : b[i] = m
    BY TextIs
  <1>2. /\ s \in Logs /\ Used(s) \in 0 .. RingSize /\ c \in Seq(Bytes) /\ Len(c) = Used(s) /\ s.last \in Nat
        /\ s.prod \in 0 .. Word - 1 /\ s.cons \in 0 .. Word - 1
        /\ s.out \in Seq(Seq(Bytes)) /\ \A j \in 1 .. Len(s.out) : s.out[j][1] \in Bytes
    BY KeptIs
  <1>3. ~Wraps => s.prod + Len(b) <= PacketMax * (s.last - s.oom) /\ s.prod + Len(b) < Word /\ s.cons <= s.prod
    BY <1>1, QueueFits
  <1>4. Reaches(s, Len(b)) /\ Used(s) + Len(b) <= RingSize /\ Used(s) <= RingSize
    BY <1>1, <1>2, <1>3, Consts, SMTT(40) DEF Reaches
  <1> HIDE DEF b
  <1>5. PutWell(s, b, t)
    BY <1>1, <1>2, <1>4, PutIs
  <1> HIDE DEF t
  <1>6. /\ t \in Logs /\ Used(t) = Used(s) + Len(b) /\ Others(s, t)
        /\ t.cons = s.cons /\ t.prod = Plus(s.prod, Len(b)) /\ Reaches(t, 0)
        /\ \A i \in 1 .. Used(s) : d[i] = c[i]
        /\ \A i \in 1 .. Len(b) : d[Used(s) + i] = b[i]
    BY <1>5 DEF PutWell
  <1>7. t.oom = s.oom /\ t.masked = s.masked /\ t.last = s.last /\ t.conn = s.conn /\ t.out = s.out
    BY <1>6 DEF Others
  <1>8. d \in Seq(Bytes) /\ Len(d) = Used(t) /\ Used(t) <= RingSize
    BY <1>4, <1>6, ContentIs
  <1> HIDE DEF c, d
  <1>9. Joined(c, m, d)
    <2>1. \A i \in 1 .. TextLen(m) : d[Len(c) + i] = m
      <3> TAKE i \in 1 .. TextLen(m)
      <3>1. i \in 1 .. Len(b)
        BY <1>1
      <3> QED BY <3>1, <1>1, <1>2, <1>6
    <2>2. d[Len(c) + TextLen(m) + 1] = Nul
      <3>1. TextLen(m) + 1 \in 1 .. Len(b) /\ Used(s) + (TextLen(m) + 1) = Len(c) + TextLen(m) + 1
        BY <1>1, <1>2
      <3> QED BY <3>1, <1>1, <1>6
    <2>3. Len(d) = Len(c) + TextLen(m) + 1
      BY <1>1, <1>2, <1>6, <1>8
    <2> QED BY <2>1, <2>2, <2>3, <1>2, <1>6 DEF Joined
  <1>10. Framed(c) /\ Ordered(s.out, c, top)
    BY DEF Kept, c
  <1>11. Framed(d)
    BY <1>2, <1>8, <1>9, <1>10, JoinFramed
  <1>12. Ordered(t.out, d, s.last)
    BY <1>2, <1>7, <1>8, <1>9, <1>10, JoinOrdered
  <1>13. Sized(t, 0)
    <2>1. CASE Wraps
      BY <2>1 DEF Sized
    <2>2. CASE ~Wraps
      <3>1. Len(b) \in 0 .. Word - 1 /\ t.prod = s.prod + Len(b)
        <4>1. Len(b) \in 0 .. Word - 1
          BY <2>2, <1>1, <1>2, <1>3, Consts
        <4> QED BY <4>1, <2>2, <1>2, <1>3, <1>6, PlusIs
      <3>2. t.last - t.oom - 0 = s.last - s.oom
        BY <1>2, <1>7
      <3>3. t.cons <= t.prod
        <4>1. s.cons <= s.prod /\ t.cons = s.cons /\ Len(b) \in Nat
          BY <2>2, <1>1, <1>3, <1>6
        <4>2. s.cons \in Int /\ s.prod \in Int
          BY <1>2, Consts
        <4> QED BY ONLY <4>1, <4>2, <3>1
      <3> QED BY <3>1, <3>2, <3>3, <2>2, <1>3 DEF Sized
    <2> QED BY <2>1, <2>2
  <1>14. ASSUME calm PROVE InTurn(t.out, d) /\ EndOf(t.out, d) + t.oom + 0 = t.last
    <2>1. InTurn(s.out, c) /\ EndOf(s.out, c) + s.oom + w = s.last
      BY <1>14 DEF Kept, c
    <2>2. EndOf(s.out, c) \in Nat
      BY <1>2, <1>10, EndIs
    <2>3. Follows(EndOf(s.out, c), m)
      BY <2>1, <2>2 DEF Follows
    <2>4. InTurn(s.out, d) /\ EndOf(s.out, d) = m.id
      BY <2>1, <2>3, <1>2, <1>8, <1>9, <1>10, JoinInTurn
    <2> QED BY <2>4, <1>2, <1>7
  <1>15. s.last <= 2 * MaxErrors + 1
    BY DEF Kept
  <1>16. Kept(t, s.last, 0, calm)
    BY <1>6, <1>7, <1>8, <1>11, <1>12, <1>13, <1>14, <1>15 DEF Kept, d
  <1> QED BY <1>6, <1>16 DEF t, b

(* The three ways a message can go; what is said of it when it has gone.    *)
Steady(s, t) == t.last = s.last /\ t.closing = s.closing /\ t.open = s.open

Logged(s, m, calm, r) ==
    /\ r.s \in Logs /\ Steady(s, r.s)
    /\ r.err = OK => Kept(r.s, s.last, 0, calm)
    /\ r.err # OK /\ m.n = 0 => Kept(r.s, s.last, 0, calm)
    /\ r.err # OK /\ m.n # 0 => Kept([r.s EXCEPT !.oom = m.n], s.last, 0, calm)
    /\ calm /\ r.err = OK => r.s.oom = 0
    /\ calm /\ r.err # OK => Content(r.s) # <<>>

(* queue_message: the message goes into the ring or is counted.             *)
LEMMA QueueKeeps ==
    ASSUME NEW s, NEW top \in Nat, NEW w \in Nat \ {0}, NEW calm \in BOOLEAN, NEW m \in Messages, Kept(s, top, w, calm), OffsetsFit,
           m.id = s.last, w = Weight(m), top <= s.last, m.n = 0 => top < s.last, ~s.masked, calm => s.conn = "live",
           m.n # 0 => s.oom = 0, calm /\ Content(s) = <<>> => s.oom = 0
    PROVE  Logged(s, m, calm, queue_message(s, m))
  <1> DEFINE r == ring_write_str(s, m)
             q == queue_message(s, m)
  <1>1. /\ s \in Logs /\ Used(s) \in 0 .. RingSize /\ s.oom \in Nat /\ TextLen(m) + 1 <= m.len + 1 /\ TextLen(m) \in Nat /\ m.len \in 1 .. PacketMax
        /\ (Content(s) = <<>> <=> Used(s) = 0)
    <2>1. TextLen(m) + 1 <= m.len + 1 /\ TextLen(m) \in Nat /\ m.len \in 1 .. PacketMax
      BY TextIs, Consts DEF TextLen
    <2> QED BY <2>1, KeptIs
  <1>2. CASE s.oom = 0 /\ ~(m.len + 1 > RING_FREE(s))
    <2>1. q = [s |-> Put(s, Staged(m)), err |-> OK]
      BY <1>2 DEF queue_message, ring_write_str, OK
    <2>2. Used(s) + TextLen(m) + 1 <= RingSize
      BY <1>1, <1>2, Consts DEF RING_FREE
    <2> DEFINE t == Put(s, Staged(m))
    <2>3. Kept(t, s.last, 0, calm) /\ Others(s, t)
      BY <1>2, <2>2, WriteKeeps
    <2> HIDE DEF t
    <2>4. t \in Logs
      BY <2>3 DEF Kept
    <2>5. q.s = t /\ q.err = OK
      BY <2>1 DEF t
    <2> QED BY <2>3, <2>4, <2>5, <1>2 DEF Logged, Steady, Others
  <1>3. CASE ~(s.oom = 0 /\ ~(m.len + 1 > RING_FREE(s)))
    <2> DEFINE t == [s EXCEPT !.oom = @ + 1]
    <2>1. q = [s |-> t, err |-> "ENOBUFS"]
      BY <1>3 DEF queue_message, ring_write_str, OK
    <2>2. t \in Logs /\ Steady(s, t) /\ t.oom = s.oom + 1 /\ t.conn = s.conn
      <3>1. s.oom + 1 \in Nat
        BY <1>1
      <3> QED BY <3>1, <1>1 DEF Logs, Steady
    <2>3. Content(t) = Content(s)
      BY <1>1 DEF Content, Used, Logs
    <2>4. m.n = 0 => Kept(t, s.last, 0, calm)
      BY DropKeeps DEF Weight
    <2>5. m.n # 0 => Kept([t EXCEPT !.oom = m.n], s.last, 0, calm)
      <3> SUFFICES ASSUME m.n # 0 PROVE Kept([t EXCEPT !.oom = m.n], s.last, 0, calm)
        OBVIOUS
      <3>1. w = m.n /\ s.oom = 0 /\ s.oom + w = m.n
        BY DEF Weight, Messages
      <3>2. [t EXCEPT !.oom = m.n] = [s EXCEPT !.oom = @ + w]
        BY <3>1, <1>1 DEF Logs
      <3> QED BY <3>2, DropKeeps
    <2>6. calm => Content(t) # <<>>
      <3> SUFFICES ASSUME calm, Content(s) = <<>> PROVE FALSE
        BY <2>3
      <3>1. s.oom = 0 /\ Used(s) = 0 /\ m.len + 1 > RING_FREE(s)
        BY <1>1, <1>3
      <3> QED BY <3>1, <1>1, Consts DEF RING_FREE
    <2> HIDE DEF t
    <2>7. q.s = t /\ q.err = "ENOBUFS" /\ q.err # OK
      BY <2>1 DEF OK
    <2> QED BY <2>2, <2>4, <2>5, <2>6, <2>7 DEF Logged
  <1> QED BY <1>2, <1>3

(* sock_send and sock_connect: what is given to syslogd is the message.     *)
LEMMA SendIs ==
    ASSUME NEW s \in Logs, NEW m \in Messages, NEW r, r = send_message(s, m)
    PROVE  LET p == SubSeq(Staged(m), 1, m.len)
           IN  /\ r.s \in Logs /\ Steady(s, r.s)
               /\ r.s.ring = s.ring /\ r.s.prod = s.prod /\ r.s.cons = s.cons /\ r.s.oom = s.oom /\ r.s.masked = s.masked
               /\ r.err = OK => r.s.out = Append(s.out, p) /\ r.s.conn = "live"
               /\ r.err # OK => r.s.out = s.out
               /\ r.err = "EAGAIN" => r.s.conn = "live"
               /\ daemon.up /\ s.conn \in {"none", "live"} => r.err \in {OK, "EAGAIN"}
  <1> DEFINE p == SubSeq(Staged(m), 1, m.len)
             l == [s EXCEPT !.conn = "live"]
             o == [l EXCEPT !.out = Append(@, p), !.unread = @ + 1]
             n == [s EXCEPT !.conn = "none"]
  <1>1. p \in Seq(Bytes)
    BY TextIs
  <1>2. l \in Logs /\ n \in Logs
    BY DEF Logs
  <1>3. o \in Logs
    <2>1. Append(s.out, p) \in Seq(Seq(Bytes)) /\ s.unread + 1 \in Nat
      BY <1>1 DEF Logs
    <2> QED BY <2>1 DEF Logs
  <1>4. s.conn = "live" => l = s
    BY DEF Logs
  <1> HIDE DEF p
  <1>5. o.out = Append(s.out, p) /\ o.conn = "live" /\ l.conn = "live"
    BY DEF Logs
  <1>6. \/ r = [s |-> s, err |-> "ECONNREFUSED"] /\ ~daemon.up
        \/ r = [s |-> n, err |-> "ECONNREFUSED"] /\ s.conn = "dead"
        \/ r = [s |-> l, err |-> "EAGAIN"]
        \/ r = [s |-> o, err |-> OK]
    <2>1. CASE s.conn = "none" /\ ~daemon.up
      BY <2>1 DEF send_message, sock_send, sock_connect, OK
    <2>2. CASE s.conn = "none" /\ daemon.up
      <3>1. sock_connect(s) = [s |-> l, err |-> OK] /\ sock_send(s, p) = [s |-> s, err |-> "ENOTCONN"]
        BY <2>2 DEF sock_connect, sock_send
      <3>2. r = sock_send(l, p)
        BY <3>1 DEF send_message, OK, p
      <3>3. sock_send(l, p) = [s |-> l, err |-> "EAGAIN"] \/ sock_send(l, p) = [s |-> o, err |-> OK]
        BY <1>5 DEF sock_send
      <3> QED BY <3>2, <3>3
    <2>3. CASE s.conn = "dead"
      BY <2>3 DEF send_message, sock_send, OK
    <2>4. CASE s.conn = "live"
      <3>1. r = sock_send(s, p)
        BY <2>4 DEF send_message, sock_send, OK, p
      <3>2. sock_send(s, p) = [s |-> s, err |-> "EAGAIN"] \/ sock_send(s, p) = [s |-> [s EXCEPT !.out = Append(@, p), !.unread = @ + 1], err |-> OK]
        BY <2>4 DEF sock_send
      <3> QED BY <3>1, <3>2, <2>4, <1>4
    <2> QED BY <2>1, <2>2, <2>3, <2>4 DEF Logs
  <1>7. \A t \in {s, n, l, o} : /\ t \in Logs /\ Steady(s, t) /\ t.ring = s.ring /\ t.prod = s.prod /\ t.cons = s.cons
                               /\ t.oom = s.oom /\ t.masked = s.masked
    <2>1. l.oom = s.oom /\ l.ring = s.ring /\ l.prod = s.prod /\ l.cons = s.cons /\ l.masked = s.masked /\ Steady(s, l)
      BY DEF Steady, Logs
    <2>2. n.oom = s.oom /\ n.ring = s.ring /\ n.prod = s.prod /\ n.cons = s.cons /\ n.masked = s.masked /\ Steady(s, n)
      BY DEF Steady, Logs
    <2>3. o.oom = s.oom /\ o.ring = s.ring /\ o.prod = s.prod /\ o.cons = s.cons /\ o.masked = s.masked /\ Steady(s, o)
      BY DEF Steady, Logs
    <2> HIDE DEF l, n, o
    <2> QED BY <1>2, <1>3, <2>1, <2>2, <2>3 DEF Steady
  <1>8. n.out = s.out /\ l.out = s.out
    BY DEF Logs
  <1> HIDE DEF n, l, o
  <1> QED BY <1>5, <1>6, <1>7, <1>8 DEF OK, p

(* A message cut to its length is whole, and its own.                       *)
LEMMA SentIs ==
    ASSUME NEW m \in Messages
    PROVE  LET p == SubSeq(Staged(m), 1, m.len) IN p \in Seq(Bytes) /\ p # <<>> /\ p[1] = m
  <1> DEFINE g == Staged(m)
  <1>1. g \in Seq(Bytes) /\ m.len \in 1 .. PacketMax /\ m.len <= Len(g) /\ PacketMax \in Nat /\ Len(g) \in Nat
    BY TextIs, Consts
  <1>2. g[1] = m
    BY TextIs, Consts
  <1> HIDE DEF g
  <1>3. m.len \in Nat /\ m.len >= 1
    BY <1>1
  <1>4. SubSeq(g, 1, m.len) \in Seq(Bytes) /\ Len(SubSeq(g, 1, m.len)) = m.len /\ SubSeq(g, 1, m.len)[1] = g[1]
    BY <1>1, <1>3
  <1> DEFINE p == SubSeq(g, 1, m.len)
  <1>5. p \in Seq(Bytes) /\ Len(p) = m.len /\ p[1] = m
    BY <1>2, <1>4
  <1> HIDE DEF p
  <1>6. p # <<>>
    BY <1>3, <1>5
  <1> QED BY <1>5, <1>6 DEF g, p

(* A message is given to syslogd while the ring is empty.                   *)
LEMMA SentKeeps ==
    ASSUME NEW s, NEW top \in Nat, NEW w \in Nat, NEW calm \in BOOLEAN, NEW m \in Messages, Kept(s, top, w, calm),
           m.id = s.last, w = Weight(m), top <= s.last, m.n = 0 => top < s.last, Content(s) = <<>>, calm => s.oom = 0,
           NEW t \in Logs, t.ring = s.ring, t.prod = s.prod, t.cons = s.cons, t.oom = s.oom, t.last = s.last, t.conn = "live",
           t.out = Append(s.out, SubSeq(Staged(m), 1, m.len))
    PROVE  Kept(t, s.last, 0, calm)
  <1> DEFINE p == SubSeq(Staged(m), 1, m.len)
  <1>1. p \in Seq(Bytes) /\ p # <<>> /\ p[1] = m
    BY SentIs
  <1>2. p \in {Text(m), SubSeq(Staged(m), 1, m.len)}
    OBVIOUS
  <1>3. t.out = Append(s.out, p)
    OBVIOUS
  <1> HIDE DEF p
  <1>4. Used(t) = Used(s) /\ Content(t) = <<>>
    BY DEF Used, Content
  <1>5. /\ s.last \in Nat /\ s.oom \in Nat /\ s.out \in Seq(Seq(Bytes)) /\ \A j \in 1 .. Len(s.out) : s.out[j][1] \in Bytes
        /\ PacketMax \in Nat /\ Used(s) <= RingSize /\ s.last <= 2 * MaxErrors + 1
    BY KeptIs, Consts DEF Kept
  <1>6. Ordered(t.out, <<>>, s.last)
    <2>1. Ordered(s.out, <<>>, top)
      BY DEF Kept
    <2> QED BY <2>1, <1>1, <1>2, <1>3, <1>5, SentOrdered
  <1>7. Framed(<<>>)
    BY DEF Framed
  <1>8. Sized(t, 0)
    <2>1. Kept(s, top, w, FALSE)
      BY DEF Kept
    <2>2. Sized(s, 0)
      BY <2>1, LostKeeps DEF Kept
    <2> QED BY <2>2 DEF Sized
  <1>9. ASSUME calm PROVE InTurn(t.out, <<>>) /\ EndOf(t.out, <<>>) + t.oom + 0 = t.last
    <2>1. InTurn(s.out, <<>>) /\ EndOf(s.out, <<>>) + s.oom + w = s.last /\ s.oom = 0
      BY <1>9 DEF Kept
    <2>2. EndOf(s.out, <<>>) = LastOf(s.out) /\ EndOf(s.out, <<>>) \in Nat
      <3>1. EndOf(s.out, <<>>) = LastOf(s.out)
        BY DEF EndOf
      <3>2. <<>> \in Seq(Bytes)
        OBVIOUS
      <3> QED BY <3>1, <3>2, <1>5, <1>7, EndIs
    <2>3. Follows(LastOf(s.out), m)
      BY <2>1, <2>2 DEF Follows
    <2>4. InTurn(t.out, <<>>) /\ LastOf(t.out) = m.id
      BY <2>1, <2>3, <1>1, <1>3, <1>5, SentInTurn
    <2> QED BY <2>1, <2>4, <1>5 DEF EndOf
  <1> QED BY <1>4, <1>5, <1>6, <1>7, <1>8, <1>9 DEF Kept

(* tapdisk_vsyslog: the message is sent, queued, counted, or lost to an     *)
(* outage.                                                                  *)
LEMMA VsyslogKeeps ==
    ASSUME NEW s, NEW top \in Nat, NEW w \in Nat \ {0}, NEW calm \in BOOLEAN, NEW m \in Messages, Kept(s, top, w, calm), OffsetsFit,
           m.id = s.last, w = Weight(m), top <= s.last, m.n = 0 => top < s.last,
           m.n # 0 => s.oom = 0, calm /\ Content(s) = <<>> => s.oom = 0, calm => daemon.up
    PROVE  Logged(s, m, calm, tapdisk_vsyslog(s, m))
  <1> DEFINE r == send_message(s, m)
             p == SubSeq(Staged(m), 1, m.len)
             q == tapdisk_vsyslog(s, m)
  <1> SUFFICES Logged(s, m, calm, q)
    OBVIOUS
  <1>1. s \in Logs /\ (Content(s) = <<>> <=> Empty(s)) /\ (Content(s) # <<>> => ~s.masked) /\ s.masked \in BOOLEAN
        /\ (calm /\ Content(s) # <<>> => s.conn = "live") /\ (calm => s.conn \in {"none", "live"}) /\ s.oom \in Nat /\ s.last \in Nat
    BY KeptIs DEF Kept
  <1>2. CASE ~Empty(s)
    <2>1. q = queue_message(s, m)
      BY <1>2 DEF tapdisk_vsyslog
    <2>2. Logged(s, m, calm, queue_message(s, m))
      BY <1>1, <1>2, QueueKeeps
    <2> QED BY <2>1, <2>2
  <1>3. CASE Empty(s)
    <2>1. /\ r.s \in Logs /\ Steady(s, r.s)
          /\ r.s.ring = s.ring /\ r.s.prod = s.prod /\ r.s.cons = s.cons /\ r.s.oom = s.oom /\ r.s.masked = s.masked
          /\ r.err = OK => r.s.out = Append(s.out, p) /\ r.s.conn = "live"
          /\ r.err # OK => r.s.out = s.out
          /\ r.err = "EAGAIN" => r.s.conn = "live"
          /\ daemon.up /\ s.conn \in {"none", "live"} => r.err \in {OK, "EAGAIN"}
      BY <1>1, SendIs
    <2>2. q = IF r.err = "EAGAIN" THEN queue_message([r.s EXCEPT !.masked = FALSE], m) ELSE r
      BY <1>3 DEF tapdisk_vsyslog
    <2>3. Content(s) = <<>> /\ r.s.last = s.last
      BY <1>1, <1>3, <2>1 DEF Steady
    <2> HIDE DEF r, p, q
    <2>4. CASE r.err = OK
      <3>1. Kept(r.s, s.last, 0, calm)
        BY <2>1, <2>3, <2>4, SentKeeps DEF p
      <3> QED BY <3>1, <2>1, <2>2, <2>3, <2>4 DEF Logged, OK
    <2>5. CASE r.err = "EAGAIN"
      <3> DEFINE t == [r.s EXCEPT !.masked = FALSE]
      <3>1. t \in Logs /\ t.ring = s.ring /\ t.prod = s.prod /\ t.cons = s.cons /\ t.oom = s.oom /\ t.masked = FALSE
            /\ t.last = s.last /\ t.out = s.out /\ t.conn = "live" /\ Steady(s, t)
        BY <2>1, <2>5 DEF Logs, Steady, OK
      <3> HIDE DEF t
      <3>2. Kept(t, top, w, calm) /\ Content(t) = <<>>
        BY <3>1, <2>3, SameKeeps
      <3>3. Logged(t, m, calm, queue_message(t, m))
        BY <3>1, <3>2, <2>3, QueueKeeps
      <3>4. q = queue_message(t, m)
        BY <2>2, <2>5 DEF t
      <3> QED BY <3>1, <3>3, <3>4 DEF Logged, Steady
    <2>6. CASE r.err # OK /\ r.err # "EAGAIN"
      <3>1. ~calm /\ calm = FALSE
        BY <1>1, <2>1, <2>6
      <3>2. Kept(r.s, top, w, calm)
        <4> DEFINE t == r.s
        <4>1. Used(t) = Used(s) /\ Content(t) = Content(s) /\ (Sized(t, w) <=> Sized(s, w))
          BY <2>1, <2>3 DEF Used, Content, Sized
        <4> QED BY <4>1, <3>1, <2>1, <2>3, <2>6 DEF Kept
      <3>3. Kept(r.s, s.last, 0, calm)
        BY <3>1, <3>2, <2>3, LostKeeps
      <3>4. m.n # 0 => Kept([r.s EXCEPT !.oom = m.n], s.last, 0, calm)
        <4> SUFFICES ASSUME m.n # 0 PROVE Kept([r.s EXCEPT !.oom = m.n], s.last, 0, calm)
          OBVIOUS
        <4>1. w = m.n /\ r.s.oom = 0 /\ r.s.oom + w = m.n
          BY <2>1 DEF Weight, Messages
        <4>2. [r.s EXCEPT !.oom = m.n] = [r.s EXCEPT !.oom = @ + w]
          BY <4>1, <2>1 DEF Logs
        <4> QED BY <4>2, <3>2, <2>3, DropKeeps
      <3> QED BY <3>1, <3>3, <3>4, <2>1, <2>2, <2>6 DEF Logged
    <2> QED BY <2>4, <2>5, <2>6
  <1> QED BY <1>2, <1>3

(* What is read from the ring is its first message.                         *)
LEMMA ReadIs ==
    ASSUME NEW s \in Logs, Used(s) \in 0 .. RingSize, Content(s) \in Seq(Bytes), Len(Content(s)) = Used(s), Framed(Content(s)), NEW c, c = Content(s)
    PROVE  /\ c = <<>> => ring_read_pkt(s) = <<>>
           /\ c # <<>> => /\ ring_read_pkt(s) # <<>> /\ Len(ring_read_pkt(s)) = TextLen(c[1]) + 1
                         /\ SubSeq(ring_read_pkt(s), 1, Len(ring_read_pkt(s)) - 1) = Text(c[1])
  <1> DEFINE upto == IF Used(s) < PacketMax THEN Used(s) ELSE PacketMax
             byte(i) == s.ring[RING_PTR(s.cons + i - 1)]
             ends == {i \in 1 .. upto : byte(i) = Nul}
             k == IF ends = {} THEN upto ELSE CHOOSE e \in ends : \A f \in ends : e <= f
             pkt == [i \in 1 .. k |-> byte(i)]
  <1>1. ring_read_pkt(s) = pkt
    BY DEF ring_read_pkt
  <1>2. Used(s) \in Nat /\ PacketMax \in Nat /\ upto \in Nat
    BY Consts
  <1>3. \A i \in 1 .. Used(s) : byte(i) = c[i]
    BY DEF Content
  <1> HIDE DEF byte
  <1>4. CASE c = <<>>
    <2>1. upto = 0
      BY <1>2, <1>4, Consts
    <2>2. ends = {} /\ k = 0
      BY <2>1
    <2>3. pkt = <<>>
      BY <2>2
    <2> QED BY <2>3, <1>1, <1>4
  <1>5. CASE c # <<>>
    <2> DEFINE n == TextLen(c[1])
               m == c[1]
    <2>1. m \in Messages /\ n + 1 <= Len(c) /\ c[n + 1] = Nul /\ \A i \in 1 .. n : c[i] = m
      BY <1>5, FirstMessage
    <2>2. n \in 1 .. PacketMax - 1 /\ m # Nul
      BY <2>1, TextIs
    <2>3. Text(m) = [i \in 1 .. n |-> m] /\ m \in Bytes
      BY <2>1, TextIs DEF Text, TextLen
    <2> HIDE DEF n, m
    <2>4. n + 1 \in 1 .. upto /\ n \in Nat /\ n + 1 \in 1 .. Used(s)
      BY <2>1, <2>2, <1>2
    <2>5. \A i \in 1 .. n : i \in 1 .. Used(s) /\ byte(i) = m
      BY <2>1, <2>4, <1>2, <1>3
    <2>6. n + 1 \in ends
      BY <2>1, <2>4, <1>3
    <2>7. \A e \in ends : n + 1 <= e
      <3> TAKE e \in ends
      <3>1. e \in 1 .. upto /\ byte(e) = Nul
        OBVIOUS
      <3>2. e \notin 1 .. n
        BY <3>1, <2>2, <2>5
      <3> QED BY <3>1, <3>2, <2>4, <1>2
    <2>8. k = n + 1
      <3>1. \A e \in ends : (\A f \in ends : e <= f) => e = n + 1
        <4> TAKE e \in ends
        <4> HAVE \A f \in ends : e <= f
        <4>1. e <= n + 1 /\ n + 1 <= e /\ e \in Nat
          BY <2>6, <2>7, <1>2
        <4> QED BY <4>1, <2>4
      <3> QED BY <3>1, <2>6, <2>7
    <2> HIDE DEF k
    <2>9. pkt = [i \in 1 .. n + 1 |-> byte(i)]
      BY <2>8
    <2>10. \A i \in 1 .. n + 1 : byte(i) \in Bytes
      BY <2>4, <1>2, <1>3
    <2> HIDE DEF pkt
    <2>11. pkt \in Seq(Bytes) /\ Len(pkt) = n + 1 /\ \A i \in 1 .. n : pkt[i] = m
      <3>1. n + 1 \in Nat /\ \A i \in 1 .. n : i \in 1 .. n + 1
        BY <2>4
      <3>2. pkt \in [1 .. n + 1 -> Bytes]
        BY <2>9, <2>10
      <3>3. pkt \in Seq(Bytes) /\ Len(pkt) = n + 1
        BY <3>1, <3>2
      <3>4. \A i \in 1 .. n : pkt[i] = byte(i)
        BY <3>1, <2>9
      <3> QED BY <3>3, <3>4, <2>5
    <2>12. SubSeq(pkt, 1, n) = [i \in 1 .. n |-> m]
      <3> DEFINE a == SubSeq(pkt, 1, n)
                 b == [i \in 1 .. n |-> m]
      <3>1. a \in Seq(Bytes) /\ Len(a) = n /\ \A i \in 1 .. n : a[i] = m
        BY <2>4, <2>11
      <3>2. b \in Seq(Bytes) /\ Len(b) = n /\ \A i \in 1 .. n : b[i] = m
        BY <2>3, <2>4
      <3> HIDE DEF a, b
      <3> QED BY <3>1, <3>2 DEF a, b
    <2>13. Len(pkt) - 1 = n /\ pkt # <<>>
      BY <2>4, <2>11
    <2> QED BY <1>1, <1>5, <2>3, <2>11, <2>12, <2>13 DEF m, n
  <1> QED BY <1>4, <1>5

(* ring_dispatch_one: the first message goes out, or is discarded while     *)
(* syslogd is down, or waits.                                               *)
LEMMA DispatchKeeps ==
    ASSUME NEW s, NEW top \in Nat, NEW calm \in BOOLEAN, Kept(s, top, 0, calm), NEW t, t = ring_dispatch_one(s).s
    PROVE  Kept(t, top, 0, calm) /\ Steady(s, t) /\ t.oom = s.oom /\ t.masked = s.masked
  <1> DEFINE c == Content(s)
             pkt == ring_read_pkt(s)
             m == c[1]
             k == TextLen(m) + 1
             q == SubSeq(pkt, 1, Len(pkt) - 1)
             r == sock_send(s, q)
  <1>1. /\ s \in Logs /\ Used(s) \in 0 .. RingSize /\ Reaches(s, 0) /\ c \in Seq(Bytes) /\ Len(c) = Used(s)
        /\ s.last \in Nat /\ s.oom \in Nat /\ s.out \in Seq(Seq(Bytes)) /\ \A j \in 1 .. Len(s.out) : s.out[j][1] \in Bytes
        /\ Framed(c) /\ Ordered(s.out, c, top)
    BY KeptIs DEF Kept
  <1>2. CASE c = <<>>
    <2>1. pkt = <<>>
      BY <1>1, <1>2, ReadIs
    <2>2. t = s
      BY <2>1 DEF ring_dispatch_one
    <2> QED BY <2>2 DEF Steady
  <1>3. CASE c # <<>>
    <2>1. pkt # <<>> /\ Len(pkt) = k /\ q = Text(m)
      BY <1>1, <1>3, ReadIs
    <2>2. m \in Messages /\ k <= Used(s) /\ k \in Nat /\ Text(m) \in Seq(Bytes) /\ Text(m) # <<>>
      <3>1. m \in Messages /\ k <= Used(s)
        BY <1>1, <1>3, FirstMessage
      <3> HIDE DEF m
      <3>2. TextLen(m) \in Nat /\ TextLen(m) >= 1 /\ Text(m) \in Seq(Bytes) /\ Len(Text(m)) = TextLen(m)
        BY <3>1, TextIs, Consts
      <3> QED BY <3>1, <3>2
    <2>0. k = TextLen(c[1]) + 1 /\ TextLen(c[1]) \in Nat
      BY <2>2, TextIs, Consts
    <2> HIDE DEF pkt, q, m, k
    <2>3. t = IF r.err = "EAGAIN" THEN r.s ELSE [r.s EXCEPT !.cons = Plus(@, k)]
      BY <2>1 DEF ring_dispatch_one, Plus, pkt, q
    <2>4. \/ r = [s |-> s, err |-> "ENOTCONN"] /\ s.conn = "none"
          \/ r = [s |-> [s EXCEPT !.conn = "none"], err |-> "ECONNREFUSED"] /\ s.conn = "dead"
          \/ r = [s |-> s, err |-> "EAGAIN"]
          \/ r = [s |-> [s EXCEPT !.out = Append(@, q), !.unread = @ + 1], err |-> OK]
      BY DEF sock_send
    <2> DEFINE e == [s EXCEPT !.cons = Plus(@, k)]
    <2>5. /\ e \in Logs /\ Used(e) = Used(s) - k /\ Others(s, e)
          /\ e.ring = s.ring /\ e.prod = s.prod /\ (s.cons <= s.prod => e.cons <= e.prod)
          /\ Reaches(e, 0)
          /\ \A i \in 1 .. Used(s) - k : Content(e)[i] = c[i + k]
      <3>1. k \in 0 .. Used(s) /\ Used(s) <= RingSize
        BY <2>2, <1>1, Consts
      <3>2. TakeWell(s, k, e)
        BY <3>1, <1>1, TakeIs
      <3> HIDE DEF e
      <3> QED BY <3>2 DEF TakeWell
    <2> DEFINE d == Content(e)
    <2>6. d \in Seq(Bytes) /\ Len(d) = Used(s) - k /\ Used(e) \in 0 .. RingSize
      <3> HIDE DEF e
      <3>1. Used(e) \in 0 .. RingSize
        BY <2>2, <2>5, <1>1, UsedIs, Consts
      <3>2. Used(e) <= RingSize
        BY <3>1, Consts
      <3> QED BY <3>1, <3>2, <2>5, ContentIs
    <2>7. Left(c, d)
      <3>1. Len(d) = Len(c) - TextLen(c[1]) - 1
        BY <2>0, <2>6, <1>1
      <3>2. ASSUME NEW i \in 1 .. Len(c) - TextLen(c[1]) - 1 PROVE d[i] = c[i + TextLen(c[1]) + 1]
        <4>1. i \in 1 .. Used(s) - k /\ i + k = i + TextLen(c[1]) + 1
          <5>1. Used(s) \in Int /\ k \in Int /\ TextLen(c[1]) \in Int /\ Len(c) = Used(s)
            BY <2>0, <2>2, <1>1, Consts
          <5> HIDE DEF c
          <5> QED BY <5>1, <2>0
        <4> QED BY <4>1, <2>5
      <3> QED BY <3>1, <3>2 DEF Left
    <2>8. Framed(d) /\ Ordered(s.out, d, top) /\ Ordered(Append(s.out, q), d, top)
      BY <2>1, <2>6, <2>7, <1>1, <1>3, LeftFramed, LeftOrdered DEF m
    <2>9. calm => s.conn = "live" /\ InTurn(Append(s.out, q), d) /\ EndOf(Append(s.out, q), d) + s.oom + 0 = s.last
      <3> SUFFICES ASSUME calm PROVE s.conn = "live" /\ InTurn(Append(s.out, q), d) /\ EndOf(Append(s.out, q), d) + s.oom + 0 = s.last
        OBVIOUS
      <3>1. s.conn = "live" /\ InTurn(s.out, c) /\ EndOf(s.out, c) + s.oom + 0 = s.last
        BY <1>3 DEF Kept
      <3> QED BY <3>1, <2>1, <2>6, <2>7, <1>1, <1>3, LeftInTurn DEF m
    <2>10. /\ s.last <= 2 * MaxErrors + 1 /\ ~s.masked /\ Used(e) <= RingSize
           /\ (Wraps \/ (s.cons <= s.prod /\ s.prod <= PacketMax * (s.last - s.oom - 0)))
      BY <2>6, <1>3, Consts DEF Kept, Sized
    <2>11. ASSUME NEW f \in Logs, f.ring = e.ring, f.prod = e.prod, f.cons = e.cons, f.oom = s.oom, f.masked = s.masked, f.last = s.last,
                  \/ f.out = Append(s.out, q) /\ f.conn = s.conn
                  \/ f.out = s.out /\ ~calm
           PROVE  Kept(f, top, 0, calm)
      <3>1. Used(f) = Used(e) /\ Content(f) = d
        BY <2>11 DEF Used, Content
      <3>2. Sized(f, 0)
        BY <2>5, <2>10, <2>11 DEF Sized
      <3> HIDE DEF d, e
      <3>3. Ordered(f.out, d, top)
        BY <2>8, <2>11
      <3> QED BY <3>1, <3>2, <3>3, <2>8, <2>9, <2>10, <2>11 DEF Kept
    <2>12. CASE r.err = "EAGAIN"
      <3>1. t = s
        BY <2>3, <2>4, <2>12 DEF OK
      <3> QED BY <3>1 DEF Steady
    <2>13. CASE r = [s |-> s, err |-> "ENOTCONN"] /\ s.conn = "none"
      <3>1. t = e
        BY <2>3, <2>13
      <3>2. ~calm
        BY <2>9, <2>13
      <3> QED BY <3>1, <3>2, <2>5, <2>11 DEF Others, Steady
    <2>14. CASE r = [s |-> [s EXCEPT !.conn = "none"], err |-> "ECONNREFUSED"] /\ s.conn = "dead"
      <3> HIDE DEF r
      <3>0. r.err # "EAGAIN" /\ r.s = [s EXCEPT !.conn = "none"]
        BY <2>14
      <3>1. t = [[s EXCEPT !.conn = "none"] EXCEPT !.cons = Plus(@, k)] /\ e = [s EXCEPT !.cons = Plus(@, k)]
        BY <2>3, <3>0
      <3>2. ~calm
        BY <2>9, <2>14
      <3>3. /\ t \in Logs /\ t.ring = e.ring /\ t.prod = e.prod /\ t.cons = e.cons /\ t.oom = s.oom /\ t.masked = s.masked
            /\ t.last = s.last /\ t.out = s.out /\ Steady(s, t)
        <4> HIDE DEF e
        <4>1. s \in Logs /\ e \in Logs
          BY <1>1, <2>5
        <4> QED BY <4>1, <3>1 DEF Logs, Steady
      <3> QED BY <3>2, <3>3, <2>11
    <2>15. CASE r = [s |-> [s EXCEPT !.out = Append(@, q), !.unread = @ + 1], err |-> OK]
      <3> HIDE DEF r
      <3>0. r.err # "EAGAIN" /\ r.s = [s EXCEPT !.out = Append(@, q), !.unread = @ + 1]
        BY <2>15 DEF OK
      <3>1. t = [[s EXCEPT !.out = Append(@, q), !.unread = @ + 1] EXCEPT !.cons = Plus(@, k)] /\ e = [s EXCEPT !.cons = Plus(@, k)]
        BY <2>3, <3>0
      <3>2. Append(s.out, q) \in Seq(Seq(Bytes)) /\ s.unread + 1 \in Nat
        BY <2>1, <2>2, <1>1 DEF Logs
      <3>3. /\ t \in Logs /\ t.ring = e.ring /\ t.prod = e.prod /\ t.cons = e.cons /\ t.oom = s.oom /\ t.masked = s.masked
            /\ t.last = s.last /\ t.out = Append(s.out, q) /\ t.conn = s.conn /\ Steady(s, t)
        <4> HIDE DEF e
        <4>1. s \in Logs /\ e \in Logs
          BY <1>1, <2>5
        <4> QED BY <4>1, <3>1, <3>2 DEF Logs, Steady
      <3> QED BY <3>3, <2>11
    <2> QED BY <2>4, <2>12, <2>13, <2>14, <2>15
  <1> QED BY <1>2, <1>3

(* The tries of dispatch_all, one after the other, are defined.             *)
LEMMA DispatchDefined ==
    ASSUME NEW s
    PROVE  \E f : f = [k \in 0 .. RingSize |-> IF k = 0 THEN s ELSE ring_dispatch_one(f[k - 1]).s]
  <1> DEFINE step(x) == ring_dispatch_one(x).s
             Good(n, f) == f = [k \in 0 .. n |-> IF k = 0 THEN s ELSE step(f[k - 1])]
             Bad == {n \in Nat : ~ \E f : Good(n, f)}
  <1> HIDE DEF step
  <1>1. \E f : Good(0, f)
    <2> DEFINE f == [k \in 0 .. 0 |-> s]
    <2>1. Good(0, f)
      OBVIOUS
    <2> QED BY <2>1
  <1>2. ASSUME NEW n \in Nat, NEW f, Good(n, f) PROVE \E g : Good(n + 1, g)
    <2> DEFINE g == [k \in 0 .. n + 1 |-> IF k = 0 THEN s ELSE step(f[k - 1])]
    <2>1. \A j \in 0 .. n : g[j] = f[j]
      <3>1. \A j \in 0 .. n : f[j] = IF j = 0 THEN s ELSE step(f[j - 1])
        BY <1>2
      <3>2. \A j \in 0 .. n : j \in 0 .. n + 1
        OBVIOUS
      <3>3. \A j \in 0 .. n : g[j] = IF j = 0 THEN s ELSE step(f[j - 1])
        BY <3>2
      <3> QED BY <3>1, <3>3
    <2>2. \A k \in 0 .. n + 1 : (IF k = 0 THEN s ELSE step(f[k - 1])) = IF k = 0 THEN s ELSE step(g[k - 1])
      <3> TAKE k \in 0 .. n + 1
      <3>1. k = 0 \/ k - 1 \in 0 .. n
        OBVIOUS
      <3> HIDE DEF g
      <3> QED BY <3>1, <2>1
    <2>3. g = [k \in 0 .. n + 1 |-> IF k = 0 THEN s ELSE step(f[k - 1])]
      OBVIOUS
    <2> HIDE DEF g
    <2>4. g = [k \in 0 .. n + 1 |-> IF k = 0 THEN s ELSE step(g[k - 1])]
      BY <2>2, <2>3
    <2> QED BY <2>4
  <1>3. Bad = {}
    <2> SUFFICES ASSUME Bad # {} PROVE FALSE
      OBVIOUS
    <2>1. PICK x \in Bad : \A y \in Bad : x <= y
      BY Minimum
    <2>2. x \in Nat /\ ~ \E f : Good(x, f)
      BY <2>1
    <2>3. x # 0
      BY <2>2, <1>1
    <2>4. x - 1 \in Nat /\ x - 1 + 1 = x /\ ~(x <= x - 1)
      BY <2>2, <2>3
    <2>5. \E f : Good(x - 1, f)
      BY <2>1, <2>4
    <2>6. \E g : Good(x - 1 + 1, g)
      BY <2>4, <2>5, <1>2
    <2> QED BY <2>2, <2>4, <2>6
  <1>4. \E f : Good(RingSize, f)
    BY <1>3, Consts
  <1> QED BY <1>4 DEF step

(* dispatch_all: what holds of the log before a try holds after it.         *)
LEMMA DispatchAllKeeps ==
    ASSUME NEW s, NEW top \in Nat, NEW calm \in BOOLEAN, Kept(s, top, 0, calm), NEW t, t = dispatch_all(s)
    PROVE  Kept(t, top, 0, calm) /\ Steady(s, t) /\ t.oom = s.oom /\ t.masked = s.masked
  <1> DEFINE d == CHOOSE f : f = [k \in 0 .. RingSize |-> IF k = 0 THEN s ELSE ring_dispatch_one(f[k - 1]).s]
             Fine(x) == Kept(x, top, 0, calm) /\ Steady(s, x) /\ x.oom = s.oom /\ x.masked = s.masked
             Bad == {k \in Nat : k \in 0 .. RingSize /\ ~Fine(d[k])}
  <1>1. t = d[RingSize]
    BY DEF dispatch_all
  <1>2. d = [k \in 0 .. RingSize |-> IF k = 0 THEN s ELSE ring_dispatch_one(d[k - 1]).s]
    BY DispatchDefined
  <1> HIDE DEF d
  <1>3. Fine(s)
    BY DEF Steady
  <1>4. ASSUME NEW x, Fine(x) PROVE Fine(ring_dispatch_one(x).s)
    <2> DEFINE y == ring_dispatch_one(x).s
    <2>1. Kept(y, top, 0, calm) /\ Steady(x, y) /\ y.oom = x.oom /\ y.masked = x.masked
      BY <1>4, DispatchKeeps
    <2> QED BY <1>4, <2>1 DEF Steady
  <1>5. Bad = {}
    <2> HIDE DEF Fine
    <2> SUFFICES ASSUME Bad # {} PROVE FALSE
      OBVIOUS
    <2>1. PICK x \in Bad : \A y \in Bad : x <= y
      BY Minimum
    <2>2. x \in 0 .. RingSize /\ ~Fine(d[x]) /\ x \in Nat /\ RingSize \in Nat
      BY <2>1, Consts
    <2>3. CASE x = 0
      <3>1. d[0] = s
        BY <1>2, <2>2, <2>3
      <3> QED BY <3>1, <2>2, <2>3, <1>3
    <2>4. CASE x # 0
      <3>1. x - 1 \in Nat /\ x - 1 \in 0 .. RingSize /\ ~(x <= x - 1)
        BY <2>2, <2>4
      <3>2. Fine(d[x - 1])
        BY <2>1, <3>1
      <3>3. d[x] = ring_dispatch_one(d[x - 1]).s
        BY <1>2, <2>2, <2>4
      <3> QED BY <3>2, <3>3, <2>2, <1>4
    <2> QED BY <2>3, <2>4
  <1>6. RingSize \in 0 .. RingSize /\ RingSize \in Nat
    BY Consts
  <1>7. Fine(d[RingSize])
    BY <1>5, <1>6
  <1> QED BY <1>1, <1>7

(* The end of a log that the invariant holds of.                            *)
LEMMA EndOfLog ==
    ASSUME NEW s, NEW top, NEW w, NEW calm, Kept(s, top, w, calm)
    PROVE  EndOf(s.out, Content(s)) \in Nat
  <1>1. Content(s) \in Seq(Bytes) /\ s.out \in Seq(Seq(Bytes)) /\ Framed(Content(s)) /\ \A j \in 1 .. Len(s.out) : s.out[j][1] \in Bytes
    BY KeptIs DEF Kept
  <1> QED BY <1>1, EndIs

(* While messages are counted as dropped there is something in the ring, so *)
(* that the warning comes.                                                  *)
Waits(s, calm) == calm /\ s.oom > 0 => Content(s) # <<>>

(* ring_warning: the warning goes out in the place of what it counts, or    *)
(* the count stays.                                                         *)
LEMMA WarningKeeps ==
    ASSUME NEW s, NEW calm \in BOOLEAN, Kept(s, s.last, 0, calm), OffsetsFit, calm => daemon.up, s.oom > 0,
           NEW t, t = ring_warning(s)
    PROVE  Kept(t, t.last, 0, calm) /\ Waits(t, calm) /\ Steady(s, t)
  <1> DEFINE w == s.oom
             z == [s EXCEPT !.oom = 0]
             m == [id |-> s.last, len |-> WarnLen, n |-> w]
             r == tapdisk_vsyslog(z, m)
  <1>1. s \in Logs /\ w \in Nat \ {0} /\ s.last \in Nat
    BY KeptIs
  <1>2. /\ z \in Logs /\ z.oom = 0 /\ z.ring = s.ring /\ z.prod = s.prod /\ z.cons = s.cons
        /\ z.last = s.last /\ z.out = s.out /\ z.masked = s.masked /\ z.conn = s.conn /\ Steady(s, z)
    BY <1>1 DEF Logs, Steady
  <1>3. m \in Messages /\ m.id = s.last /\ m.n = w /\ w = Weight(m)
    BY <1>1, Consts DEF Messages, Weight
  <1>4. t = IF r.err = OK THEN r.s ELSE [r.s EXCEPT !.oom = w]
    BY DEF ring_warning
  <1>0. s.oom = w
    OBVIOUS
  <1> HIDE DEF m, z, w
  <1>5. Kept(z, s.last, w, calm)
    <2>1. Used(z) = Used(s) /\ Content(z) = Content(s)
      BY <1>2 DEF Used, Content
    <2>2. Sized(z, w)
      <3>1. Sized(s, 0) /\ z.last - z.oom - w = s.last - s.oom - 0
        BY <1>0, <1>1, <1>2 DEF Kept
      <3> QED BY <3>1, <1>2 DEF Sized
    <2>3. ASSUME calm PROVE EndOf(z.out, Content(z)) + z.oom + w = z.last
      <3>1. EndOf(s.out, Content(s)) + s.oom + 0 = s.last
        BY <2>3 DEF Kept
      <3>2. EndOf(s.out, Content(s)) \in Nat
        BY EndOfLog
      <3> QED BY <3>1, <3>2, <2>1, <1>0, <1>1, <1>2
    <2> QED BY <2>1, <2>2, <2>3, <1>2 DEF Kept
  <1>6. Logged(z, m, calm, r)
    <2>1. s.last \in Nat /\ w \in Nat \ {0} /\ m.id = z.last /\ s.last <= z.last /\ m.n # 0 /\ z.oom = 0
      BY <1>1, <1>2, <1>3
    <2> QED BY <2>1, <1>3, <1>5, VsyslogKeeps
  <1> HIDE DEF r
  <1>7. CASE r.err = OK
    <2>1. t = r.s
      BY <1>4, <1>7
    <2>2. Kept(t, s.last, 0, calm) /\ Steady(z, t) /\ (calm => t.oom = 0)
      BY <2>1, <1>2, <1>6, <1>7 DEF Logged
    <2> QED BY <2>2, <1>2 DEF Steady, Waits
  <1>8. CASE r.err # OK
    <2>1. t = [r.s EXCEPT !.oom = w]
      BY <1>4, <1>8
    <2>2. Kept(t, s.last, 0, calm) /\ Steady(z, r.s) /\ (calm => Content(r.s) # <<>>) /\ r.s \in Logs
      BY <2>1, <1>1, <1>2, <1>3, <1>6, <1>8 DEF Logged
    <2>3. /\ t.ring = r.s.ring /\ t.prod = r.s.prod /\ t.cons = r.s.cons
          /\ t.last = r.s.last /\ t.closing = r.s.closing /\ t.open = r.s.open
      BY <2>1, <2>2 DEF Logs
    <2>4. Content(t) = Content(r.s)
      BY <2>3 DEF Content, Used
    <2> QED BY <2>2, <2>3, <2>4, <1>2 DEF Steady, Waits
  <1> QED BY <1>7, <1>8

(* ring_dispatch                                                            *)
LEMMA RingDispatchKeeps ==
    ASSUME NEW s, NEW calm \in BOOLEAN, Kept(s, s.last, 0, calm), OffsetsFit, calm => daemon.up,
           NEW t, t = ring_dispatch(s)
    PROVE  Kept(t, t.last, 0, calm) /\ Waits(t, calm) /\ Steady(s, t)
  <1> DEFINE d == dispatch_all(s)
  <1>1. t = IF d.oom > 0 THEN ring_warning(d) ELSE d
    BY DEF ring_dispatch
  <1>2. s.last \in Nat
    BY KeptIs
  <1>3. Kept(d, s.last, 0, calm) /\ Steady(s, d)
    BY <1>2, DispatchAllKeeps
  <1> HIDE DEF d
  <1>4. d.last = s.last
    BY <1>3 DEF Steady
  <1>5. CASE d.oom > 0
    <2>1. Kept(t, t.last, 0, calm) /\ Waits(t, calm) /\ Steady(d, t)
      BY <1>1, <1>3, <1>4, <1>5, WarningKeeps
    <2> QED BY <2>1, <1>3 DEF Steady
  <1>6. CASE ~(d.oom > 0)
    BY <1>1, <1>3, <1>4, <1>6 DEF Waits
  <1> QED BY <1>5, <1>6

(* tlog_syslog                                                              *)
LEMMA TlogKeeps ==
    ASSUME NEW s, NEW calm \in BOOLEAN, Kept(s, s.last, 0, calm), Waits(s, calm), OffsetsFit, calm => daemon.up,
           s.last <= 2 * MaxErrors, NEW len \in 1 .. PacketMax, NEW t, t = tlog_syslog(s, len)
    PROVE  Kept(t, t.last, 0, calm) /\ Waits(t, calm) /\ t.last = s.last + 1 /\ t.closing = s.closing /\ t.open = s.open
  <1> DEFINE z == [s EXCEPT !.last = @ + 1]
             m == [id |-> s.last + 1, len |-> len, n |-> 0]
             r == tapdisk_vsyslog(z, m)
  <1>1. s \in Logs /\ s.last \in Nat /\ s.oom \in Nat
    BY KeptIs
  <1>2. /\ z \in Logs /\ z.oom = s.oom /\ z.ring = s.ring /\ z.prod = s.prod /\ z.cons = s.cons
        /\ z.last = s.last + 1 /\ z.out = s.out /\ z.masked = s.masked /\ z.conn = s.conn
        /\ z.closing = s.closing /\ z.open = s.open
    <2>1. s.last + 1 \in Nat
      BY <1>1
    <2> QED BY <2>1, <1>1 DEF Logs
  <1>3. m \in Messages /\ m.id = s.last + 1 /\ m.n = 0 /\ 1 = Weight(m)
    BY <1>1, Consts DEF Messages, Weight
  <1>4. t = r.s
    BY DEF tlog_syslog
  <1> HIDE DEF m, z
  <1>5. Used(z) = Used(s) /\ Content(z) = Content(s)
    BY <1>2 DEF Used, Content
  <1>6. Kept(z, s.last, 1, calm)
    <2>2. Sized(z, 1)
      <3>1. Sized(s, 0) /\ z.last - z.oom - 1 = s.last - s.oom - 0
        BY <1>1, <1>2 DEF Kept
      <3> QED BY <3>1, <1>2 DEF Sized
    <2>3. ASSUME calm PROVE EndOf(z.out, Content(z)) + z.oom + 1 = z.last
      <3>1. EndOf(s.out, Content(s)) + s.oom + 0 = s.last
        BY <2>3 DEF Kept
      <3>2. EndOf(s.out, Content(s)) \in Nat
        BY EndOfLog
      <3> QED BY <3>1, <3>2, <1>5, <1>1, <1>2
    <2>4. z.last <= 2 * MaxErrors + 1
      BY <1>1, <1>2, Consts
    <2> QED BY <2>2, <2>3, <2>4, <1>2, <1>5 DEF Kept
  <1>7. Logged(z, m, calm, r)
    <2>1. /\ s.last \in Nat /\ 1 \in Nat \ {0} /\ m.id = z.last /\ s.last <= z.last /\ s.last < z.last /\ ~(m.n # 0)
          /\ (calm /\ Content(z) = <<>> => z.oom = 0)
      BY <1>1, <1>2, <1>3, <1>5 DEF Waits
    <2> QED BY <2>1, <1>3, <1>6, VsyslogKeeps
  <1> HIDE DEF r
  <1>8. Kept(t, z.last, 0, calm) /\ Steady(z, t)
    BY <1>3, <1>4, <1>7 DEF Logged
  <1>9. Waits(t, calm)
    BY <1>4, <1>7 DEF Logged, Waits
  <1> QED BY <1>2, <1>8, <1>9 DEF Steady

-----------------------------------------------------------------------------
(* The rate limit, and the inductive invariant of all.                      *)

(* The limit: what passed since the burst began is counted, and comes no    *)
(* earlier than it; the burst before began an interval after what came      *)
(* before it.                                                               *)
LimitIn(l, now) ==
    /\ l \in [count : 0 .. Burst, dropped : Nat, ts : Nat, passed : Seq(Nat)]
    /\ l.ts <= now /\ l.count <= Len(l.passed)
    /\ \A i \in 1 .. Len(l.passed) :
          /\ l.passed[i] <= now
          /\ i <= Len(l.passed) - l.count => l.passed[i] <= l.ts
          /\ i <= Len(l.passed) - l.count - Burst => l.passed[i] + Interval < l.ts
    /\ \A i \in 1 .. Len(l.passed) - 2 * Burst : l.passed[i + 2 * Burst] > l.passed[i] + Interval

Calm == ~daemon.outage

LogIn ==
    /\ Kept(log, log.last, 0, Calm) /\ Waits(log, Calm)
    /\ log.last <= 2 * errors + (IF log.closing THEN 1 ELSE 0)
    /\ ~log.open => log.closing /\ Empty(log)

SyslogIInv ==
    /\ errors \in 0 .. MaxErrors /\ time \in Nat
    /\ daemon \in [up : BOOLEAN, outage : BOOLEAN] /\ (Calm => daemon.up)
    /\ LogIn
    /\ LimitIn(limit, time)

(* A burst that began an interval ago is over.                              *)
LEMMA UpdateKeeps ==
    ASSUME NEW rl, time \in Nat, LimitIn(rl, time), rl.count >= Burst, NEW t, t = loglimit_update(rl)
    PROVE  LimitIn(t, time) /\ t.dropped = rl.dropped
  <1>1. /\ rl \in [count : 0 .. Burst, dropped : Nat, ts : Nat, passed : Seq(Nat)]
        /\ Burst \in Nat /\ Interval \in Nat /\ rl.count = Burst
    BY Consts DEF LimitIn
  <1>2. CASE ~(rl.ts + Interval < time)
    BY <1>2 DEF loglimit_update
  <1>3. CASE rl.ts + Interval < time
    <2>1. t = [rl EXCEPT !.count = 0, !.ts = time]
      BY <1>3 DEF loglimit_update
    <2>2. /\ t \in [count : 0 .. Burst, dropped : Nat, ts : Nat, passed : Seq(Nat)]
          /\ t.count = 0 /\ t.ts = time /\ t.passed = rl.passed /\ t.dropped = rl.dropped
      <3>1. 0 \in 0 .. Burst
        BY <1>1
      <3> QED BY <1>1, <2>1, <3>1
    <2>3. ASSUME NEW i \in 1 .. Len(t.passed)
          PROVE  t.passed[i] <= time /\ (i <= Len(t.passed) - 0 - Burst => t.passed[i] + Interval < time)
      <3>1. /\ rl.passed[i] <= time /\ (i <= Len(rl.passed) - rl.count => rl.passed[i] <= rl.ts)
            /\ rl.passed[i] \in Nat /\ rl.ts \in Nat
        BY <1>1, <2>2 DEF LimitIn
      <3> QED BY <3>1, <1>1, <1>3, <2>2, SMTT(40)
    <2> QED BY <1>1, <2>2, <2>3 DEF LimitIn
  <1> QED BY <1>2, <1>3

(* tapdisk_loglimit_pass: what passes is counted, and no burst follows      *)
(* another too soon.                                                        *)
LEMMA LimitPass ==
    ASSUME NEW rl, time \in Nat, LimitIn(rl, time), NEW r, r = tapdisk_loglimit_pass(rl)
    PROVE  LimitIn(r.rl, time) /\ LimitIn([r.rl EXCEPT !.dropped = 0], time)
  <1> DEFINE now == IF rl.count >= Burst THEN loglimit_update(rl) ELSE rl
             T == [count : 0 .. Burst, dropped : Nat, ts : Nat, passed : Seq(Nat)]
  <1>0. Burst \in Nat /\ Interval \in Nat
    BY Consts
  <1>1. LimitIn(now, time)
    BY UpdateKeeps
  <1>2. r = IF now.count >= Burst THEN [rl |-> [now EXCEPT !.dropped = @ + 1], pass |-> FALSE]
            ELSE [rl |-> [now EXCEPT !.count = @ + 1, !.passed = Append(@, time)], pass |-> TRUE]
    BY DEF tapdisk_loglimit_pass
  <1> HIDE DEF now
  <1>3. now \in T
    BY <1>1 DEF LimitIn
  <1>4. LimitIn(r.rl, time)
    <2>1. CASE now.count >= Burst
      <3>1. r.rl = [now EXCEPT !.dropped = @ + 1]
        BY <1>2, <2>1
      <3>2. r.rl \in T /\ r.rl.count = now.count /\ r.rl.ts = now.ts /\ r.rl.passed = now.passed
        BY <3>1, <1>3
      <3> QED BY <3>2, <1>1 DEF LimitIn
    <2>2. CASE ~(now.count >= Burst)
      <3> DEFINE t == r.rl
                 n == Len(now.passed)
      <3>1. t = [now EXCEPT !.count = @ + 1, !.passed = Append(@, time)]
        BY <1>2, <2>2
      <3>2. now.count + 1 \in 0 .. Burst /\ now.count \in Nat /\ n \in Nat /\ Append(now.passed, time) \in Seq(Nat)
        BY <1>0, <1>3, <2>2
      <3>3. t \in T /\ t.count = now.count + 1 /\ t.ts = now.ts /\ t.passed = Append(now.passed, time)
        BY <3>1, <3>2, <1>3
      <3> HIDE DEF t
      <3>4. /\ Len(t.passed) = n + 1 /\ t.passed[n + 1] = time
            /\ \A i \in 1 .. n : t.passed[i] = now.passed[i] /\ now.passed[i] \in Nat
        BY <3>3, <1>3, SMTT(40)
      <3> HIDE DEF n
      <3>5. /\ now.ts <= time /\ now.ts \in Nat /\ now.count <= n
            /\ \A i \in 1 .. n :
                  /\ now.passed[i] <= time
                  /\ i <= n - now.count => now.passed[i] <= now.ts
                  /\ i <= n - now.count - Burst => now.passed[i] + Interval < now.ts
            /\ \A i \in 1 .. n - 2 * Burst : now.passed[i + 2 * Burst] > now.passed[i] + Interval
        BY <1>1, <1>3 DEF LimitIn, n
      <3>6. ASSUME NEW i \in 1 .. n + 1
            PROVE  /\ t.passed[i] <= time
                   /\ i <= (n + 1) - t.count => t.passed[i] <= t.ts
                   /\ i <= (n + 1) - t.count - Burst => t.passed[i] + Interval < t.ts
        <4>1. i \in 1 .. n \/ i = n + 1
          BY <3>2
        <4>2. CASE i = n + 1
          BY <4>2, <3>2, <3>3, <3>4, <1>0
        <4>3. CASE i \in 1 .. n
          <5>1. t.passed[i] = now.passed[i] /\ t.ts = now.ts
            BY <4>3, <3>3, <3>4
          <5>2. (n + 1) - t.count = n - now.count /\ (n + 1) - t.count - Burst = n - now.count - Burst
            <6>1. t.count = now.count + 1
              BY <3>3
            <6>2. n \in Int /\ now.count \in Int /\ Burst \in Int
              BY <3>2, <1>0
            <6>3. \A a, b, x \in Int : (a + 1) - (b + 1) = a - b /\ (a + 1) - (b + 1) - x = a - b - x
              OBVIOUS
            <6> QED BY ONLY <6>1, <6>2, <6>3
          <5> QED BY <4>3, <5>1, <5>2, <3>5
        <4> QED BY <4>1, <4>2, <4>3
      <3>7. ASSUME NEW i \in 1 .. (n + 1) - 2 * Burst
            PROVE  t.passed[i + 2 * Burst] > t.passed[i] + Interval
        <4>1. i \in 1 .. n - 2 * Burst \/ i + 2 * Burst = n + 1
          BY <3>2, <1>0
        <4>2. CASE i \in 1 .. n - 2 * Burst
          <5>1. i \in 1 .. n /\ i + 2 * Burst \in 1 .. n
            BY <4>2, <3>2, <1>0
          <5> QED BY <5>1, <4>2, <3>4, <3>5
        <4>3. CASE i + 2 * Burst = n + 1
          <5>1. i \in 1 .. n /\ i <= n - now.count - Burst
            BY <4>3, <3>2, <1>0
          <5>2. t.passed[i] + Interval < now.ts /\ t.passed[i] \in Nat
            BY <5>1, <3>4, <3>5
          <5> QED BY <5>2, <4>3, <3>4, <3>5, <1>0, SMTT(40)
        <4> QED BY <4>1, <4>2, <4>3
      <3>8. t.ts <= time /\ t.count <= n + 1 /\ Len(t.passed) = n + 1
        BY <3>2, <3>3, <3>4, <3>5
      <3>9. LimitIn(t, time)
        BY <3>3, <3>6, <3>7, <3>8 DEF LimitIn
      <3> QED BY <3>9 DEF t
    <2> QED BY <2>1, <2>2
  <1>5. LimitIn([r.rl EXCEPT !.dropped = 0], time)
    <2> DEFINE t == [r.rl EXCEPT !.dropped = 0]
    <2>1. r.rl \in T
      BY <1>4 DEF LimitIn
    <2>2. t \in T /\ t.count = r.rl.count /\ t.ts = r.rl.ts /\ t.passed = r.rl.passed
      BY <2>1
    <2> HIDE DEF t
    <2>3. LimitIn(t, time)
      BY <2>2, <1>4 DEF LimitIn
    <2> QED BY <2>3 DEF t
  <1> QED BY <1>4, <1>5

(* Time alone breaks nothing.                                               *)
LEMMA LimitLater ==
    ASSUME NEW rl, NEW now \in Nat, LimitIn(rl, now)
    PROVE  LimitIn(rl, now + 1)
  <1>1. rl \in [count : 0 .. Burst, dropped : Nat, ts : Nat, passed : Seq(Nat)]
    BY DEF LimitIn
  <1>2. rl.ts <= now + 1
    BY <1>1 DEF LimitIn
  <1>3. \A i \in 1 .. Len(rl.passed) : rl.passed[i] <= now + 1
    <2> TAKE i \in 1 .. Len(rl.passed)
    <2>1. rl.passed[i] \in Nat /\ rl.passed[i] <= now
      BY <1>1 DEF LimitIn
    <2> QED BY <2>1
  <1> QED BY <1>1, <1>2, <1>3 DEF LimitIn

(* The log begins empty.                                                    *)
LEMMA InitHolds ==
    SyslogInit => SyslogIInv
  <1> SUFFICES ASSUME SyslogInit PROVE SyslogIInv
    OBVIOUS
  <1>1. log \in Logs /\ log.last = 0 /\ log.oom = 0 /\ log.prod = 0 /\ log.cons = 0 /\ log.out = <<>> /\ log.conn = "none" /\ log.open
        /\ ~log.closing
    <2>1. Nul \in Bytes /\ 0 \in 0 .. Word - 1 /\ <<>> \in Seq(Seq(Bytes))
      BY Consts DEF Nul, Bytes
    <2>2. [i \in 0 .. RingSize - 1 |-> Nul] \in [0 .. RingSize - 1 -> Bytes]
      BY <2>1
    <2> QED BY <2>1, <2>2 DEF SyslogInit, Logs
  <1>2. Used(log) = 0 /\ Empty(log)
    BY <1>1, UsedIs, Consts DEF Empty
  <1>3. Content(log) = <<>>
    BY <1>2 DEF Content
  <1>4. Framed(<<>>) /\ Ordered(<<>>, <<>>, 0) /\ InTurn(<<>>, <<>>) /\ EndOf(<<>>, <<>>) = 0
    BY DEF Framed, Ordered, InTurn, EndOf, LastOf
  <1>5. Sized(log, 0)
    BY <1>1, Consts DEF Sized
  <1>6. Kept(log, log.last, 0, Calm) /\ Waits(log, Calm)
    BY <1>1, <1>2, <1>3, <1>4, <1>5, Consts DEF Kept, Waits
  <1>7. LimitIn(limit, time)
    BY Consts DEF SyslogInit, LimitIn
  <1>8. errors \in 0 .. MaxErrors /\ time \in Nat /\ daemon \in [up : BOOLEAN, outage : BOOLEAN] /\ (Calm => daemon.up)
    BY Consts DEF SyslogInit, Calm
  <1> QED BY <1>1, <1>2, <1>6, <1>7, <1>8 DEF SyslogIInv, LogIn, SyslogInit

(* Any step that leaves the log alone, or hurts it no more than syslogd     *)
(* going down does.                                                         *)
LEMMA LessCalm ==
    ASSUME NEW s, NEW top, NEW w, NEW calm, Kept(s, top, w, calm), NEW u \in Nat, NEW c \in {"none", "live", "dead"},
           NEW t, t = [s EXCEPT !.unread = u, !.conn = c]
    PROVE  Kept(t, top, w, FALSE)
  <1>1. s \in Logs
    BY DEF Kept
  <1>2. /\ t \in Logs /\ t.ring = s.ring /\ t.prod = s.prod /\ t.cons = s.cons /\ t.oom = s.oom
        /\ t.last = s.last /\ t.out = s.out /\ t.masked = s.masked
    BY <1>1 DEF Logs
  <1>3. Used(t) = Used(s) /\ Content(t) = Content(s) /\ (Sized(t, w) <=> Sized(s, w))
    BY <1>2 DEF Used, Content, Sized
  <1> QED BY <1>2, <1>3 DEF Kept

(* An error of a driver logs up to two messages.                            *)
LEMMA DriverErrorKeeps ==
    ASSUME SyslogIInv, OffsetsFit, NEW len \in Lens, driver_error(len)
    PROVE  SyslogIInv'
  <1> DEFINE r == tapdisk_loglimit_pass(limit)
             flushed == IF limit.dropped > 0 THEN tlog_syslog(log, WarnLen) ELSE log
  <1>1. /\ log.open /\ ~log.closing /\ errors < MaxErrors /\ errors' = errors + 1
        /\ time' = time /\ daemon' = daemon /\ Calm' = Calm /\ Calm \in BOOLEAN
        /\ errors \in Nat /\ time \in Nat /\ MaxErrors \in Nat
    BY Consts DEF driver_error, SyslogIInv, Calm
  <1>2. \/ limit' = [r.rl EXCEPT !.dropped = 0] /\ log' = tlog_syslog(flushed, len)
        \/ limit' = r.rl /\ log' = IF limit.dropped = 0 THEN tlog_syslog(log, WarnLen) ELSE log
    BY DEF driver_error
  <1>3. LimitIn(limit, time)'
    <2>1. LimitIn(limit, time)
      BY DEF SyslogIInv
    <2>2. LimitIn(r.rl, time) /\ LimitIn([r.rl EXCEPT !.dropped = 0], time)
      BY <2>1, <1>1, LimitPass
    <2> HIDE DEF r
    <2>3. LimitIn(limit', time)
      BY <2>2, <1>2
    <2> QED BY <2>3, <1>1
  <1> HIDE DEF r
  <1> DEFINE Good(s) == Kept(s, s.last, 0, Calm) /\ Waits(s, Calm) /\ s.open /\ ~s.closing /\ s.last \in Nat
  <1>4. Good(log) /\ log.last <= 2 * errors /\ (Calm => daemon.up) /\ WarnLen \in 1 .. PacketMax /\ len \in 1 .. PacketMax
    <2>1. log.last \in Nat
      BY KeptIs DEF SyslogIInv, LogIn
    <2> QED BY <2>1, <1>1, Consts DEF SyslogIInv, LogIn
  <1>5. ASSUME NEW s, Good(s), s.last <= 2 * errors + 1, NEW l \in 1 .. PacketMax
        PROVE  Good(tlog_syslog(s, l)) /\ tlog_syslog(s, l).last = s.last + 1
    <2> DEFINE t == tlog_syslog(s, l)
    <2>1. s.last <= 2 * MaxErrors
      BY <1>5, <1>1
    <2>2. Kept(t, t.last, 0, Calm) /\ Waits(t, Calm) /\ t.last = s.last + 1 /\ t.closing = s.closing /\ t.open = s.open
      BY <1>1, <1>4, <1>5, <2>1, TlogKeeps
    <2> HIDE DEF t
    <2>3. Good(t) /\ t.last = s.last + 1
      BY <1>5, <2>2
    <2> QED BY <2>3 DEF t
  <1> HIDE DEF Good
  <1>6. Good(flushed) /\ flushed.last <= 2 * errors + 1
    <2>1. log.last \in Nat /\ log.last <= 2 * errors + 1
      BY <1>1, <1>4 DEF Good
    <2>2. CASE limit.dropped > 0
      <3>1. Good(tlog_syslog(log, WarnLen)) /\ tlog_syslog(log, WarnLen).last = log.last + 1
        BY <1>4, <1>5, <2>1
      <3> QED BY <3>1, <2>1, <2>2, <1>1, <1>4
    <2>3. CASE ~(limit.dropped > 0)
      BY <2>1, <2>3, <1>1, <1>4
    <2> QED BY <2>2, <2>3
  <1> HIDE DEF flushed
  <1>7. Good(log') /\ log'.last <= 2 * errors + 2
    <2>1. log.last \in Nat /\ log.last <= 2 * errors + 1 /\ flushed.last \in Nat
      BY <1>1, <1>4, <1>6 DEF Good
    <2>2. Good(tlog_syslog(flushed, len)) /\ tlog_syslog(flushed, len).last = flushed.last + 1
      BY <1>4, <1>5, <1>6
    <2>3. Good(tlog_syslog(log, WarnLen)) /\ tlog_syslog(log, WarnLen).last = log.last + 1
      BY <1>4, <1>5, <2>1
    <2>4. flushed.last + 1 <= 2 * errors + 2 /\ log.last + 1 <= 2 * errors + 2 /\ log.last <= 2 * errors + 2
      BY <1>1, <1>6, <2>1
    <2> QED BY <1>2, <1>4, <2>2, <2>3, <2>4
  <1>8. LogIn'
    <2>1. log'.last <= 2 * errors' + 0
      BY <1>1, <1>7 DEF Good
    <2> QED BY <2>1, <1>1, <1>7 DEF Good, LogIn
  <1> QED BY <1>1, <1>3, <1>8 DEF SyslogIInv

(* The socket is ready: the ring goes out, then the warning, and the mask   *)
(* follows the ring.                                                        *)
LEMMA SockEventKeeps ==
    ASSUME SyslogIInv, OffsetsFit, sock_event
    PROVE  SyslogIInv'
  <1> DEFINE d == ring_dispatch(log)
             t == [d EXCEPT !.masked = Empty(d)]
  <1>1. log.open /\ log' = t /\ limit' = limit /\ errors' = errors /\ time' = time /\ daemon' = daemon /\ Calm' = Calm
    BY DEF sock_event, Calm
  <1>2. Kept(log, log.last, 0, Calm) /\ Calm \in BOOLEAN /\ (Calm => daemon.up)
    BY DEF SyslogIInv, LogIn, Calm
  <1>3. Kept(d, d.last, 0, Calm) /\ Waits(d, Calm) /\ Steady(log, d)
    BY <1>2, RingDispatchKeeps
  <1> HIDE DEF d
  <1>4. d \in Logs /\ (Content(d) = <<>> <=> Empty(d)) /\ Empty(d) \in BOOLEAN
    BY <1>3, KeptIs DEF Empty
  <1>5. /\ t \in Logs /\ t.ring = d.ring /\ t.prod = d.prod /\ t.cons = d.cons /\ t.oom = d.oom
        /\ t.last = d.last /\ t.out = d.out /\ t.masked = Empty(d) /\ t.conn = d.conn /\ t.closing = d.closing /\ t.open = d.open
    BY <1>4 DEF Logs
  <1> HIDE DEF t
  <1>6. Used(t) = Used(d) /\ Content(t) = Content(d) /\ (Sized(t, 0) <=> Sized(d, 0))
    BY <1>5 DEF Used, Content, Sized
  <1>7. Kept(t, t.last, 0, Calm) /\ Waits(t, Calm)
    BY <1>3, <1>4, <1>5, <1>6 DEF Kept, Waits
  <1>8. t.last = log.last /\ t.closing = log.closing /\ t.open
    BY <1>1, <1>3, <1>5 DEF Steady
  <1>9. LogIn'
    BY <1>1, <1>7, <1>8 DEF LogIn, SyslogIInv
  <1> QED BY <1>1, <1>9 DEF SyslogIInv

(* The statistics are the last message.                                     *)
LEMMA CloseKeeps ==
    ASSUME SyslogIInv, OffsetsFit, tlog_close
    PROVE  SyslogIInv'
  <1> DEFINE d == tlog_syslog(log, WarnLen)
             t == [d EXCEPT !.closing = TRUE]
  <1>1. log.open /\ ~log.closing /\ log' = t /\ limit' = limit /\ errors' = errors /\ time' = time /\ daemon' = daemon /\ Calm' = Calm
    BY DEF tlog_close, Calm
  <1>2. /\ Kept(log, log.last, 0, Calm) /\ Waits(log, Calm) /\ Calm \in BOOLEAN /\ (Calm => daemon.up)
        /\ log.last <= 2 * errors + 0 /\ errors \in 0 .. MaxErrors /\ WarnLen \in 1 .. PacketMax
    BY <1>1, Consts DEF SyslogIInv, LogIn, Calm
  <1>3. log.last \in Nat
    BY <1>2, KeptIs
  <1>4. log.last <= 2 * MaxErrors
    BY <1>2, <1>3, Consts
  <1>5. Kept(d, d.last, 0, Calm) /\ Waits(d, Calm) /\ d.last = log.last + 1 /\ d.open = log.open
    BY <1>2, <1>4, TlogKeeps
  <1> HIDE DEF d
  <1>6. d \in Logs
    BY <1>5, KeptIs
  <1>7. /\ t \in Logs /\ t.ring = d.ring /\ t.prod = d.prod /\ t.cons = d.cons /\ t.oom = d.oom
        /\ t.last = d.last /\ t.out = d.out /\ t.masked = d.masked /\ t.conn = d.conn /\ t.closing = TRUE /\ t.open = d.open
    BY <1>6 DEF Logs
  <1> HIDE DEF t
  <1>8. Used(t) = Used(d) /\ Content(t) = Content(d) /\ (Sized(t, 0) <=> Sized(d, 0))
    BY <1>7 DEF Used, Content, Sized
  <1>9. Kept(t, t.last, 0, Calm) /\ Waits(t, Calm)
    BY <1>5, <1>7, <1>8 DEF Kept, Waits
  <1>10. log'.last <= 2 * errors' + 1 /\ log'.closing /\ log'.open
    <2>1. log.last + 1 <= 2 * errors + 1
      BY <1>2, <1>3, Consts
    <2> QED BY <2>1, <1>1, <1>5, <1>7
  <1>11. LogIn'
    BY <1>1, <1>9, <1>10 DEF LogIn
  <1> QED BY <1>1, <1>11 DEF SyslogIInv

(* The log is closed when nothing is left in the ring, so that nothing is   *)
(* unreported.                                                              *)
LEMMA SyslogCloseKeeps ==
    ASSUME SyslogIInv, syslog_close
    PROVE  SyslogIInv'
  <1> DEFINE t == [log EXCEPT !.open = FALSE]
  <1>1. log.closing /\ Empty(log) /\ log' = t /\ limit' = limit /\ errors' = errors /\ time' = time /\ daemon' = daemon /\ Calm' = Calm
    BY DEF syslog_close, Calm
  <1>2. Kept(log, log.last, 0, Calm) /\ Waits(log, Calm)
    BY DEF SyslogIInv, LogIn
  <1>3. log \in Logs
    BY <1>2, KeptIs
  <1>4. /\ t \in Logs /\ t.ring = log.ring /\ t.prod = log.prod /\ t.cons = log.cons /\ t.oom = log.oom
        /\ t.last = log.last /\ t.out = log.out /\ t.masked = log.masked /\ t.conn = log.conn /\ t.closing = log.closing
    BY <1>3 DEF Logs
  <1> HIDE DEF t
  <1>5. Used(t) = Used(log) /\ Content(t) = Content(log) /\ (Sized(t, 0) <=> Sized(log, 0)) /\ (Empty(t) <=> Empty(log))
    BY <1>4 DEF Used, Content, Sized, Empty
  <1>6. Kept(t, t.last, 0, Calm) /\ Waits(t, Calm)
    BY <1>2, <1>4, <1>5 DEF Kept, Waits
  <1>7. LogIn'
    BY <1>1, <1>4, <1>5, <1>6 DEF LogIn, SyslogIInv
  <1> QED BY <1>1, <1>7 DEF SyslogIInv

(* syslogd reads, stops or starts.                                          *)
LEMMA DaemonKeeps ==
    ASSUME SyslogIInv, syslogd_reads \/ syslogd_stops \/ syslogd_starts
    PROVE  SyslogIInv'
  <1>1. Kept(log, log.last, 0, Calm) /\ Waits(log, Calm) /\ log \in Logs
    BY KeptIs DEF SyslogIInv, LogIn
  <1>2. CASE syslogd_reads
    <2>1. /\ log' = [log EXCEPT !.unread = @ - 1] /\ log.unread > 0 /\ limit' = limit /\ errors' = errors /\ time' = time
          /\ daemon' = daemon /\ Calm' = Calm
      BY <1>2 DEF syslogd_reads, Calm
    <2>2. log.unread - 1 \in Nat
      BY <1>1, <2>1 DEF Logs
    <2>3. /\ log' \in Logs /\ log'.ring = log.ring /\ log'.prod = log.prod /\ log'.cons = log.cons /\ log'.oom = log.oom
          /\ log'.last = log.last /\ log'.out = log.out /\ log'.masked = log.masked /\ log'.conn = log.conn
          /\ log'.closing = log.closing /\ log'.open = log.open
      BY <1>1, <2>1, <2>2 DEF Logs
    <2> DEFINE t == log'
    <2>4. Used(t) = Used(log) /\ Content(t) = Content(log) /\ (Sized(t, 0) <=> Sized(log, 0)) /\ (Empty(t) <=> Empty(log))
      BY <2>3 DEF Used, Content, Sized, Empty
    <2>5. Kept(t, t.last, 0, Calm) /\ Waits(t, Calm)
      BY <1>1, <2>3, <2>4 DEF Kept, Waits
    <2>6. LogIn'
      BY <2>1, <2>3, <2>4, <2>5 DEF LogIn, SyslogIInv
    <2> QED BY <2>1, <2>6 DEF SyslogIInv
  <1>3. CASE syslogd_stops
    <2> DEFINE c == IF log.conn = "live" THEN "dead" ELSE log.conn
               t == [log EXCEPT !.unread = 0, !.conn = c]
    <2>1. log' = t /\ limit' = limit /\ errors' = errors /\ time' = time /\ daemon' = [up |-> FALSE, outage |-> TRUE] /\ Calm' = FALSE
      BY <1>3 DEF syslogd_stops, Calm
    <2>2. 0 \in Nat /\ c \in {"none", "live", "dead"}
      BY <1>1 DEF Logs
    <2> HIDE DEF c
    <2>3. Kept(t, log.last, 0, FALSE)
      BY <1>1, <2>2, LessCalm
    <2>4. /\ t.last = log.last /\ t.closing = log.closing /\ t.open = log.open /\ t.prod = log.prod /\ t.cons = log.cons
      BY <1>1 DEF Logs
    <2> HIDE DEF t
    <2>5. (Empty(t) <=> Empty(log)) /\ Kept(t, t.last, 0, FALSE) /\ Waits(t, FALSE)
      BY <2>3, <2>4 DEF Empty, Waits
    <2>6. LogIn'
      BY <2>1, <2>4, <2>5 DEF LogIn, SyslogIInv
    <2>7. daemon' \in [up : BOOLEAN, outage : BOOLEAN]
      BY <2>1
    <2> QED BY <2>1, <2>6, <2>7 DEF SyslogIInv
  <1>4. CASE syslogd_starts
    <2>1. /\ daemon' = [daemon EXCEPT !.up = TRUE] /\ log' = log /\ limit' = limit /\ errors' = errors /\ time' = time
      BY <1>4 DEF syslogd_starts
    <2>2. daemon' \in [up : BOOLEAN, outage : BOOLEAN] /\ daemon'.up /\ daemon'.outage = daemon.outage
      BY <2>1 DEF SyslogIInv
    <2>3. Calm' = Calm
      BY <2>2 DEF Calm
    <2>4. LogIn'
      BY <2>1, <2>3 DEF LogIn, SyslogIInv
    <2> QED BY <2>1, <2>2, <2>3, <2>4 DEF SyslogIInv
  <1> QED BY <1>2, <1>3, <1>4

(* A tick of the clock.                                                     *)
LEMMA TickKeeps ==
    ASSUME SyslogIInv, tick
    PROVE  SyslogIInv'
  <1>1. time' = time + 1 /\ log' = log /\ limit' = limit /\ errors' = errors /\ daemon' = daemon /\ Calm' = Calm /\ time \in Nat
    BY DEF tick, Calm, SyslogIInv
  <1>2. LimitIn(limit, time + 1)
    BY <1>1, LimitLater DEF SyslogIInv
  <1>3. LogIn'
    BY <1>1 DEF LogIn, SyslogIInv
  <1> QED BY <1>1, <1>2, <1>3 DEF SyslogIInv

(* Every step keeps the invariant.                                          *)
LEMMA StepHolds ==
    ASSUME SyslogIInv, OffsetsFit, [SyslogNext]_syslogVars
    PROVE  SyslogIInv'
  <1>1. ASSUME NEW len \in Lens, driver_error(len) PROVE SyslogIInv'
    BY <1>1, DriverErrorKeeps
  <1>2. CASE sock_event
    BY <1>2, SockEventKeeps
  <1>3. CASE tlog_close
    BY <1>3, CloseKeeps
  <1>4. CASE syslog_close
    BY <1>4, SyslogCloseKeeps
  <1>5. CASE syslogd_reads \/ syslogd_stops \/ syslogd_starts
    BY <1>5, DaemonKeeps
  <1>6. CASE tick
    BY <1>6, TickKeeps
  <1>7. CASE UNCHANGED syslogVars
    <2>1. log' = log /\ limit' = limit /\ errors' = errors /\ time' = time /\ daemon' = daemon
      BY <1>7 DEF syslogVars
    <2> QED BY <2>1 DEF SyslogIInv, LogIn, Calm
  <1> QED BY <1>1, <1>2, <1>3, <1>4, <1>5, <1>6, <1>7 DEF SyslogNext

(* The invariant says what is to be shown.                                  *)
LEMMA SoundFollows ==
    SyslogIInv => LogSound
  <1> SUFFICES ASSUME SyslogIInv PROVE LogSound
    OBVIOUS
  <1> DEFINE c == Content(log)
  <1>1. /\ Kept(log, log.last, 0, Calm) /\ Waits(log, Calm) /\ (~log.open => Empty(log))
    BY DEF SyslogIInv, LogIn
  <1>2. /\ (c = <<>> <=> Empty(log)) /\ log.out \in Seq(Seq(Bytes)) /\ log.last \in Nat /\ log.oom \in Nat
        /\ \A j \in 1 .. Len(log.out) : log.out[j][1] \in Bytes
    BY <1>1, KeptIs
  <1>3. Ordered(log.out, c, log.last) /\ (c # <<>> => ~log.masked)
    BY <1>1 DEF Kept
  <1>4. LogInOrder
    <2>1. \A j \in 1 .. Len(log.out) : Whole(log.out[j])
      BY <1>3 DEF Ordered
    <2>2. \A i, j \in 1 .. Len(log.out) :
             i < j /\ log.out[i][1].n = 0 /\ log.out[j][1].n = 0 => log.out[i][1].id < log.out[j][1].id
      BY <1>3 DEF Ordered, Before
    <2> QED BY <2>1, <2>2, <1>2, <1>3 DEF LogInOrder
  <1>5. GapsReported
    <2> SUFFICES ASSUME Calm
                 PROVE  /\ \A j \in 1 .. Len(log.out) :
                              log.out[j][1].id = Upto(j - 1) + (IF log.out[j][1].n = 0 THEN 1 ELSE log.out[j][1].n)
                        /\ ~log.open => log.last = Upto(Len(log.out))
      BY DEF GapsReported, Calm
    <2>1. InTurn(log.out, c) /\ EndOf(log.out, c) + log.oom + 0 = log.last
      BY <1>1 DEF Kept
    <2>2. ASSUME NEW j \in 1 .. Len(log.out)
          PROVE  log.out[j][1].id = Upto(j - 1) + (IF log.out[j][1].n = 0 THEN 1 ELSE log.out[j][1].n)
      <3>1. Follows(IF j = 1 THEN 0 ELSE log.out[j - 1][1].id, log.out[j][1])
        BY <2>1 DEF InTurn
      <3>2. Upto(j - 1) = IF j = 1 THEN 0 ELSE log.out[j - 1][1].id
        BY DEF Upto
      <3> QED BY <3>1, <3>2 DEF Follows, Weight
    <2>3. ASSUME ~log.open PROVE log.last = Upto(Len(log.out))
      <3>1. c = <<>> /\ log.oom = 0
        BY <1>1, <1>2, <2>3 DEF Waits
      <3>2. EndOf(log.out, c) = Upto(Len(log.out))
        BY <3>1, <1>2 DEF EndOf, LastOf, Upto
      <3>3. EndOf(log.out, c) \in Nat
        BY <1>1, EndOfLog
      <3> HIDE DEF c
      <3> QED BY <3>1, <3>2, <3>3, <2>1, <1>2
    <2> QED BY <2>2, <2>3
  <1>6. LimitKept
    BY DEF SyslogIInv, LimitIn, LimitKept
  <1> QED BY <1>4, <1>5, <1>6 DEF LogSound

(* The invariant: what is in the ring are whole messages in order, behind   *)
(* what syslogd was given; each message accounts for all since the one      *)
(* before it; and what is counted as dropped has something in the ring to   *)
(* wait for.                                                                *)
THEOREM SyslogInvariance ==
    ASSUME OffsetsFit PROVE SyslogSpec => []SyslogIInv
  <1>1. SyslogInit => SyslogIInv
    BY InitHolds
  <1>2. SyslogIInv /\ [SyslogNext]_syslogVars => SyslogIInv'
    BY StepHolds
  <1> QED BY <1>1, <1>2, PTL DEF SyslogSpec

(* Whatever the sizes of the ring, the packets and the messages, and        *)
(* however drivers, syslogd and the clock interleave: syslogd is given      *)
(* whole messages in order, every message missing is reported in its place  *)
(* unless syslogd was down, and no more than two bursts of errors pass in   *)
(* an interval (tapdisk_vsyslog, tapdisk_syslog_ring_dispatch,              *)
(* tapdisk_loglimit_pass).                                                  *)
THEOREM LogIsSound ==
    ASSUME OffsetsFit PROVE SyslogSpec => []LogSound
  <1>1. SyslogIInv => LogSound
    BY SoundFollows
  <1> QED BY <1>1, SyslogInvariance, PTL
=============================================================================
