--------------------------- MODULE TdQueueProofs ---------------------------
(***************************************************************************)
(* Each tiocb handed to the aio queue is in one place of it and is called  *)
(* back once, with the kernel's result, and the counters are exact, for    *)
(* any number of tiocbs, any size and any positions.                       *)
(***************************************************************************)
EXTENDS TdQueue, FiniteSetTheorems, SequenceTheorems, TLAPS

(* Where io_submit can fail: no callback queues its own tiocb again, and   *)
(* there is room for all tiocbs, so that none is deferred.  Without either *)
(* cancel_tiocbs follows a next pointer that was overwritten or outlived   *)
(* its list, and OnePlace is violated (README, section 13).                *)
SafeToFail == MayFail => ~Reuse /\ Cardinality(Tiocbs) <= Size

-----------------------------------------------------------------------------
(* The invariant                                                           *)

One(s) == \A i, j \in DOMAIN s : s[i] = s[j] => i = j

(* d are the tiocbs reached from p along nxt, none of them twice            *)
Walk(nxt, p, d) ==
    /\ d \in Seq(Tiocbs) /\ One(d)
    /\ p = IF d = <<>> THEN NULL ELSE d[1]
    /\ \A k \in DOMAIN d : nxt[d[k]] = IF k = Len(d) THEN NULL ELSE d[k + 1]

Cancels == pc \in {"cancel", "cancel_cb"}

(* The lists are linked.  Those of the queue need not be where none fails.  *)
Linking ==
    /\ One(iocbs)
    /\ Walk(next, head, Deferred)
    /\ Deferred # <<>> => tail = Deferred[Len(Deferred)]
    /\ MayFail => Walk(next, IF iocbs = <<>> THEN NULL ELSE iocbs[1], iocbs)
    /\ Cancels => MayFail /\ Walk(next, IF pc = "cancel" THEN cur ELSE next[cur], Cancelling)
    /\ pc = "cancel_cb" => cur \in Tiocbs /\ owner[cur] = "driver"

(* A tiocb the queue has is in one of six places, and no other tiocb is.   *)
Queued    == Range(iocbs)
Delayed   == Range(Deferred)
Failed    == Range(Cancelling)
Submitted == Grouped(flying)
Done      == Members(landed)
Split     == Members(events)
Apart ==
    /\ Delayed \cap Queued = {}
    /\ Failed \cap (Queued \cup Delayed) = {}
    /\ Submitted \cap (Queued \cup Delayed \cup Failed) = {}
    /\ Done \cap (Queued \cup Delayed \cup Failed \cup Submitted) = {}
    /\ Split \cap (Queued \cup Delayed \cup Failed \cup Submitted \cup Done) = {}
    /\ \A t \in Tiocbs : owner[t] = "queue"
            <=> t \in Queued \cup Delayed \cup Failed \cup Submitted \cup Done \cup Split

(* Groups have tiocbs, none twice, and share none.                         *)
Group(g) == g # <<>> /\ One(g)
Disjoint(es) ==
    \A i, j \in DOMAIN es : i # j => Range(es[i].group) \cap Range(es[j].group) = {}
Grouping ==
    /\ IsFiniteSet(flying)
    /\ \A g \in flying : Group(g)
    /\ \A g, h \in flying : g # h => Range(g) \cap Range(h) = {}
    /\ \A i \in DOMAIN landed : Group(landed[i].group)
    /\ Disjoint(landed)
    /\ \A i \in DOMAIN events : Group(events[i].group)
    /\ Disjoint(events)

(* The first iocb of a group has the length of all until its event is      *)
(* split, and the result tells whether its tiocbs are transferred.         *)
Results ==
    /\ \A g \in flying :
        /\ nbytes[g[1]] = Len(g)
        /\ \A j \in DOMAIN g : pos[g[j]] = pos[g[1]] + j - 1 /\ g[j] \notin full
    /\ \A i \in DOMAIN landed :
        LET g == landed[i].group IN
        /\ nbytes[g[1]] = Len(g)
        /\ \A t \in Range(g) : t \in full <=> landed[i].res = Len(g)
    /\ \A i \in DOMAIN events : \A t \in Range(events[i].group) :
        nbytes[t] = 1 /\ (t \in full <=> events[i].res = 1)
    /\ \A t \in Failed : t \notin full
    /\ CallbackRuns => /\ cur \in Tiocbs \ Submitted
                       /\ err = 0 <=> cur \in full
    /\ pc = "cancel_cb" => err = 1

Places ==
    /\ pc \notin {"event", "event_cb"} => events = <<>>
    /\ ~Cancels => cancelled = 0

IInv == TypeOK /\ Linking /\ Apart /\ Grouping /\ Results /\ Places /\ CountersExact /\ NoOverflow
-----------------------------------------------------------------------------
(* Numbers, sets and sequences                                             *)

(* A set of numbers with no least element would be closed under             *)
(* subtracting one, which is one-to-one and never yields the greatest.      *)
LEMMA Minimum ==
    ASSUME NEW S \in SUBSET Nat, S # {}
    PROVE  \E x \in S : \A y \in S : x <= y
  <1> SUFFICES ASSUME \A x \in S : \E y \in S : y < x PROVE FALSE
    OBVIOUS
  <1>1. PICK n \in S : TRUE
    OBVIOUS
  <1> DEFINE U == {u \in 0 .. n : \E t \in S : t <= u}
             f == [u \in U |-> u - 1]
  <1>2. IsFiniteSet(U) /\ n \in U
    <2>1. IsFiniteSet(0 .. n)
      BY FS_Interval
    <2> QED BY <2>1, <1>1, FS_Subset
  <1>3. \A u \in U : u - 1 \in U \ {n}
    <2> TAKE u \in U
    <2>1. PICK t \in S : t <= u
      OBVIOUS
    <2>2. PICK y \in S : y < t
      OBVIOUS
    <2>3. u \in Nat /\ t \in Nat /\ y \in Nat /\ n \in Nat /\ u <= n
      OBVIOUS
    <2>4. u - 1 \in 0 .. n /\ u - 1 # n /\ y <= u - 1
      BY <2>1, <2>2, <2>3
    <2> QED BY <2>4
  <1>4. /\ IsFiniteSet(U \ {n}) /\ Cardinality(U) \in Nat
        /\ Cardinality(U \ {n}) = Cardinality(U) - 1
    BY <1>2, FS_RemoveElement, FS_CardinalityType
  <1>5. Cardinality(U \ {n}) < Cardinality(U)
    BY <1>4
  <1>6. f \in [U -> U \ {n}] /\ \A u \in U : u \in Int
    BY <1>3
  <1>7. \A x, y \in U : f[x] = f[y] => x = y
    BY <1>6
  <1> DEFINE W == U \ {n}
  <1>8. IsFiniteSet(W) /\ Cardinality(W) < Cardinality(U) /\ f \in [U -> W]
    BY <1>4, <1>5, <1>6
  <1> HIDE DEF U, f, W
  <1>9. \E x, y \in U : x # y /\ f[x] = f[y]
    BY <1>2, <1>8, FS_PigeonHole
  <1> QED BY <1>7, <1>9

LEMMA UpTo == \A n \in Nat : IsFiniteSet(1 .. n) /\ Cardinality(1 .. n) = n
  <1> TAKE n \in Nat
  <1>1. n \in Int /\ 1 \in Int
    OBVIOUS
  <1> QED BY <1>1, FS_Interval

(* A one-to-one function counts what it maps and what it maps to alike.    *)
LEMMA OneToOne ==
    ASSUME NEW S, NEW T, IsFiniteSet(S), NEW f \in [S -> T],
           \A x, y \in S : f[x] = f[y] => x = y, \A z \in T : \E x \in S : f[x] = z
    PROVE  IsFiniteSet(T) /\ Cardinality(T) = Cardinality(S)
  <1>1. f \in Bijection(S, T)
    BY DEF Bijection, Injection, Surjection, IsInjective
  <1>2. ExistsBijection(S, T)
    BY <1>1 DEF ExistsBijection
  <1> QED BY <1>2, FS_Bijection

LEMMA DisjointUnion ==
    ASSUME NEW S, NEW T, IsFiniteSet(S), IsFiniteSet(T), S \cap T = {}
    PROVE  /\ IsFiniteSet(S \cup T)
           /\ Cardinality(S \cup T) = Cardinality(S) + Cardinality(T)
           /\ Cardinality(S) \in Nat /\ Cardinality(T) \in Nat
  BY FS_Union, FS_EmptySet, FS_CardinalityType, SMTT(30)

(* A sequence in which nothing occurs twice has as many members as places. *)
LEMMA OneCounts ==
    ASSUME NEW s \in Seq(Tiocbs), One(s)
    PROVE  /\ IsFiniteSet(Range(s)) /\ Cardinality(Range(s)) = Len(s)
           /\ Len(s) <= Cardinality(Tiocbs) /\ Cardinality(Tiocbs) \in Nat
  <1>1. IsFiniteSet(1 .. Len(s)) /\ Cardinality(1 .. Len(s)) = Len(s)
    BY UpTo
  <1>2. s \in [1 .. Len(s) -> Range(s)] /\ \A x \in Range(s) : \E i \in 1 .. Len(s) : s[i] = x
    BY DEF Range
  <1>3. \A i, j \in 1 .. Len(s) : s[i] = s[j] => i = j
    BY DEF One
  <1>4. IsFiniteSet(Range(s)) /\ Cardinality(Range(s)) = Cardinality(1 .. Len(s))
    BY <1>1, <1>2, <1>3, OneToOne
  <1>5. Range(s) \in SUBSET Tiocbs
    BY DEF Range
  <1> QED BY <1>1, <1>4, <1>5, TdQueueAssumption, FS_Subset, FS_CardinalityType DEF TdQueueAssumption

LEMMA RangeAppend ==
    ASSUME NEW S, NEW s \in Seq(S), NEW x \in S
    PROVE  Range(Append(s, x)) = Range(s) \cup {x}
  <1> DEFINE a == Append(s, x)
  <1>1. /\ DOMAIN s = 1 .. Len(s) /\ Len(s) \in Nat /\ DOMAIN a = 1 .. Len(s) + 1
        /\ a[Len(s) + 1] = x /\ \A i \in 1 .. Len(s) : a[i] = s[i]
    OBVIOUS
  <1> HIDE DEF a
  <1>2. Range(a) = Range(s) \cup {x}
    <2>1. \A i \in DOMAIN a : i \in DOMAIN s \/ i = Len(s) + 1
      BY <1>1
    <2>2. DOMAIN s \subseteq DOMAIN a /\ Len(s) + 1 \in DOMAIN a
      BY <1>1
    <2> QED BY <1>1, <2>1, <2>2 DEF Range
  <1> QED BY <1>2 DEF a

LEMMA PartOf ==
    ASSUME NEW S, NEW s \in Seq(S), NEW m \in Nat \ {0}, NEW n \in Nat,
           m <= n + 1, n <= Len(s)
    PROVE  /\ SubSeq(s, m, n) \in Seq(S) /\ Len(SubSeq(s, m, n)) = n - m + 1
           /\ \A i \in 1 .. n - m + 1 : SubSeq(s, m, n)[i] = s[i + m - 1]
  <1>1. m \in Int /\ n \in Int /\ \A i \in m .. n : s[i] \in S
    OBVIOUS
  <1>2. /\ SubSeq(s, m, n) \in Seq(S)
        /\ Len(SubSeq(s, m, n)) = IF m <= n THEN n - m + 1 ELSE 0
        /\ \A i \in 1 .. n - m + 1 : SubSeq(s, m, n)[i] = s[m + i - 1]
    BY <1>1, SubSeqProperties
  <1>3. (IF m <= n THEN n - m + 1 ELSE 0) = n - m + 1
    BY <1>1
  <1>4. \A i \in 1 .. n - m + 1 : m + i - 1 = i + m - 1
    BY <1>1
  <1> QED BY <1>2, <1>3, <1>4

(* The chain along nxt is the one sequence it links.                       *)
LEMMA ChainIs ==
    ASSUME NEW nxt, NEW p, NEW d, Walk(nxt, p, d)
    PROVE  ChainOf(nxt, p) = d
  <1> DEFINE N     == Cardinality(Tiocbs)
             Eq(f) == f = [k \in 0 .. N |-> IF k = 0 THEN p ELSE IF f[k - 1] = NULL THEN NULL ELSE nxt[f[k - 1]]]
             at    == CHOOSE f : Eq(f)
             seen  == {k \in 1 .. N : at[k - 1] # NULL}
             e     == [k \in 0 .. N |-> IF k < Len(d) THEN d[k + 1] ELSE NULL]
  <1>1. ChainOf(nxt, p) = [k \in 1 .. Cardinality(seen) |-> at[k - 1]]
    BY Zenon DEF ChainOf
  <1>2. /\ d \in Seq(Tiocbs) /\ One(d) /\ NULL \notin Tiocbs
        /\ p = IF d = <<>> THEN NULL ELSE d[1]
        /\ \A k \in 1 .. Len(d) : nxt[d[k]] = IF k = Len(d) THEN NULL ELSE d[k + 1]
    BY TdQueueAssumption DEF Walk, TdQueueAssumption
  <1>3. N \in Nat /\ Len(d) \in 0 .. N
    BY <1>2, OneCounts
  <1>4. Eq(e)
    <2>1. \A k \in 0 .. N : e[k] = IF k = 0 THEN p ELSE IF e[k - 1] = NULL THEN NULL ELSE nxt[e[k - 1]]
      <3> TAKE k \in 0 .. N
      <3>1. CASE k = 0
        BY <1>2, <1>3, <3>1
      <3>2. CASE k # 0 /\ k - 1 < Len(d)
        <4>1. k - 1 \in 0 .. N /\ k \in 1 .. Len(d) /\ e[k - 1] = d[k] /\ d[k] \in Tiocbs
          BY <1>2, <1>3, <3>2
        <4>2. e[k] = IF k = Len(d) THEN NULL ELSE d[k + 1]
          BY <1>3, <4>1
        <4> QED BY <1>2, <3>2, <4>1, <4>2
      <3>3. CASE k # 0 /\ ~(k - 1 < Len(d))
        <4>1. k - 1 \in 0 .. N /\ e[k - 1] = NULL /\ e[k] = NULL
          BY <1>3, <3>3
        <4> QED BY <3>3, <4>1
      <3> QED BY <3>1, <3>2, <3>3
    <2> HIDE DEF N
    <2> QED BY <2>1
  <1>5. Eq(at)
    BY <1>4
  <1>6. \A k \in 0 .. N : at[k] = e[k]
    <2> DEFINE S == {k \in 0 .. N : at[k] # e[k]}
    <2> SUFFICES ASSUME S # {} PROVE FALSE
      OBVIOUS
    <2>1. PICK k \in S : \A y \in S : k <= y
      <3>1. S \in SUBSET Nat
        BY <1>3
      <3> HIDE DEF S
      <3> QED BY <3>1, Minimum
    <2>2. at[0] = p /\ e[0] = p /\ k \in 0 .. N
      <3> HIDE DEF at, e
      <3> QED BY <1>3, <1>4, <1>5
    <2>3. k # 0
      BY <2>1, <2>2
    <2>4. k - 1 \in 0 .. N /\ k - 1 \notin S
      BY <1>3, <2>1, <2>2, <2>3
    <2>5. at[k - 1] = e[k - 1]
      BY <2>4
    <2>6. at[k] = e[k]
      <3> HIDE DEF at, e
      <3>1. at[k] = IF at[k - 1] = NULL THEN NULL ELSE nxt[at[k - 1]]
        BY <1>5, <2>2, <2>3
      <3>2. e[k] = IF e[k - 1] = NULL THEN NULL ELSE nxt[e[k - 1]]
        BY <1>4, <2>2, <2>3
      <3> QED BY <2>5, <3>1, <3>2
    <2> QED BY <2>1, <2>6
  <1> HIDE DEF at
  <1>7. seen = 1 .. Len(d)
    <2>1. \A k \in 1 .. N : at[k - 1] = IF k <= Len(d) THEN d[k] ELSE NULL
      BY <1>3, <1>6
    <2> QED BY <1>2, <1>3, <2>1
  <1>8. Cardinality(seen) = Len(d)
    <2>1. Len(d) \in Nat
      BY <1>3
    <2> HIDE DEF seen
    <2> QED BY <1>7, <2>1, UpTo
  <1>9. \A k \in 1 .. Len(d) : at[k - 1] = d[k]
    BY <1>3, <1>6
  <1> HIDE DEF seen
  <1> QED BY <1>1, <1>2, <1>8, <1>9

(* A list that is linked otherwise only elsewhere is the same list.        *)
LEMMA WalkFrame ==
    ASSUME NEW nxt, NEW p, NEW d, Walk(nxt, p, d), NEW n2,
           \A t \in Range(d) : n2[t] = nxt[t]
    PROVE  Walk(n2, p, d)
  BY DEF Walk, Range

(* A list and another one, linked behind it.                               *)
LEMMA WalkConcat ==
    ASSUME NEW nxt, NEW p, NEW c, Walk(nxt, p, c), NEW h, NEW d, Walk(nxt, h, d),
           d # <<>>, Range(c) \cap Range(d) = {}, NEW n2,
           \A t \in Range(c) \cup Range(d) :
                n2[t] = IF c # <<>> /\ t = c[Len(c)] THEN h ELSE nxt[t]
    PROVE  Walk(n2, IF c = <<>> THEN h ELSE p, c \o d)
  <1> DEFINE s == c \o d
  <1>1. /\ c \in Seq(Tiocbs) /\ d \in Seq(Tiocbs) /\ s \in Seq(Tiocbs)
        /\ Len(c) \in Nat /\ Len(d) \in Nat /\ Len(s) = Len(c) + Len(d) /\ Len(d) > 0
    BY DEF Walk
  <1>2. \A k \in 1 .. Len(s) : s[k] = IF k <= Len(c) THEN c[k] ELSE d[k - Len(c)]
    BY <1>1
  <1>3. \A k \in 1 .. Len(c) : c[k] \in Range(c)
    BY <1>1 DEF Range
  <1>4. \A k \in 1 .. Len(d) : d[k] \in Range(d)
    BY <1>1 DEF Range
  <1>5. One(s)
    <2> SUFFICES ASSUME NEW i \in 1 .. Len(s), NEW j \in 1 .. Len(s), s[i] = s[j] PROVE i = j
      BY <1>1 DEF One
    <2>1. CASE i <= Len(c) /\ j <= Len(c)
      <3>1. c[i] = c[j] /\ i \in DOMAIN c /\ j \in DOMAIN c
        BY <1>1, <1>2, <2>1
      <3> QED BY <3>1 DEF Walk, One
    <2>2. CASE i > Len(c) /\ j > Len(c)
      <3>1. d[i - Len(c)] = d[j - Len(c)] /\ i - Len(c) \in DOMAIN d /\ j - Len(c) \in DOMAIN d
        BY <1>1, <1>2, <2>2
      <3>2. i - Len(c) = j - Len(c)
        BY <3>1 DEF Walk, One
      <3> QED BY <1>1, <3>2
    <2>3. CASE i <= Len(c) /\ j > Len(c)
      BY <1>1, <1>2, <1>3, <1>4, <2>3
    <2>4. CASE i > Len(c) /\ j <= Len(c)
      BY <1>1, <1>2, <1>3, <1>4, <2>4
    <2> QED BY <1>1, <2>1, <2>2, <2>3, <2>4
  <1>6. (IF c = <<>> THEN h ELSE p) = IF s = <<>> THEN NULL ELSE s[1]
    <2>1. h = d[1] /\ (c # <<>> => p = c[1])
      BY DEF Walk
    <2> QED BY <1>1, <1>2, <2>1
  <1>7. \A k \in 1 .. Len(s) : n2[s[k]] = IF k = Len(s) THEN NULL ELSE s[k + 1]
    <2> TAKE k \in 1 .. Len(s)
    <2>1. CASE k < Len(c)
      <3>1. k \in DOMAIN c /\ Len(c) \in DOMAIN c /\ s[k] = c[k] /\ s[k + 1] = c[k + 1] /\ c[k] \in Range(c)
        BY <1>1, <1>2, <1>3, <2>1
      <3>2. c[k] # c[Len(c)]
        BY <1>1, <2>1, <3>1 DEF Walk, One
      <3>3. nxt[c[k]] = c[k + 1]
        BY <1>1, <2>1, <3>1 DEF Walk
      <3> QED BY <1>1, <2>1, <3>1, <3>2, <3>3
    <2>2. CASE k = Len(c)
      <3>1. c # <<>> /\ s[k] = c[k] /\ s[k + 1] = d[1] /\ c[k] \in Range(c) /\ k # Len(s)
        BY <1>1, <1>2, <1>3, <2>2
      <3>2. h = d[1]
        BY DEF Walk
      <3> QED BY <2>2, <3>1, <3>2
    <2>3. CASE k > Len(c)
      <3> DEFINE m == k - Len(c)
      <3>1. /\ m \in DOMAIN d /\ s[k] = d[m] /\ d[m] \in Range(d)
            /\ m = Len(d) <=> k = Len(s)
            /\ k # Len(s) => s[k + 1] = d[m + 1]
        BY <1>1, <1>2, <1>4, <2>3, SMTT(30)
      <3>2. c # <<>> => c[Len(c)] \in Range(c)
        BY <1>1, <1>3
      <3>3. n2[d[m]] = nxt[d[m]]
        BY <3>1, <3>2
      <3>4. nxt[d[m]] = IF m = Len(d) THEN NULL ELSE d[m + 1]
        BY <3>1 DEF Walk
      <3> QED BY <3>1, <3>3, <3>4
    <2> QED BY <1>1, <2>1, <2>2, <2>3
  <1>8. s \in Seq(Tiocbs) /\ DOMAIN s = 1 .. Len(s)
    BY <1>1
  <1> HIDE DEF s
  <1>9. Walk(n2, IF c = <<>> THEN h ELSE p, s)
    BY <1>5, <1>6, <1>7, <1>8, Zenon DEF Walk
  <1> QED BY <1>9 DEF s

(* What is left of a list behind its first n.                              *)
LEMMA WalkRest ==
    ASSUME NEW nxt, NEW p, NEW d, Walk(nxt, p, d), NEW n \in DOMAIN d
    PROVE  Walk(nxt, nxt[d[n]], SubSeq(d, n + 1, Len(d)))
  <1> DEFINE s == SubSeq(d, n + 1, Len(d))
  <1>1. d \in Seq(Tiocbs) /\ Len(d) \in Nat /\ n \in 1 .. Len(d) /\ DOMAIN d = 1 .. Len(d)
    BY DEF Walk
  <1>2. /\ s \in Seq(Tiocbs) /\ Len(s) = Len(d) - n /\ DOMAIN s = 1 .. Len(s)
        /\ \A k \in 1 .. Len(s) : s[k] = d[k + n] /\ k + n \in 1 .. Len(d)
    <2>1. n + 1 \in Nat \ {0} /\ n + 1 <= Len(d) + 1 /\ Len(d) <= Len(d)
      BY <1>1
    <2>2. /\ s \in Seq(Tiocbs) /\ Len(s) = Len(d) - (n + 1) + 1
          /\ \A i \in 1 .. Len(d) - (n + 1) + 1 : s[i] = d[i + (n + 1) - 1]
      BY <1>1, <2>1, PartOf
    <2>3. Len(d) - (n + 1) + 1 = Len(d) - n /\ \A k \in 1 .. Len(d) - n : k + (n + 1) - 1 = k + n /\ k + n \in 1 .. Len(d)
      BY <1>1
    <2>4. DOMAIN s = 1 .. Len(s)
      BY <2>2
    <2> HIDE DEF s
    <2> QED BY <2>2, <2>3, <2>4
  <1> HIDE DEF s
  <1>3. One(s)
    <2> SUFFICES ASSUME NEW i \in 1 .. Len(s), NEW j \in 1 .. Len(s), s[i] = s[j] PROVE i = j
      BY <1>1, <1>2 DEF One
    <2>1. d[i + n] = d[j + n] /\ i + n \in DOMAIN d /\ j + n \in DOMAIN d
      BY <1>2
    <2>2. i + n = j + n
      BY <2>1 DEF Walk, One
    <2> QED BY <1>1, <1>2, <2>2
  <1>4. nxt[d[n]] = IF s = <<>> THEN NULL ELSE s[1]
    <2>1. nxt[d[n]] = IF n = Len(d) THEN NULL ELSE d[n + 1]
      BY DEF Walk
    <2>2. n # Len(d) => s # <<>> /\ s[1] = d[n + 1]
      BY <1>1, <1>2
    <2>3. n = Len(d) => s = <<>>
      BY <1>1, <1>2
    <2> QED BY <2>1, <2>2, <2>3
  <1>5. \A k \in 1 .. Len(s) : nxt[s[k]] = IF k = Len(s) THEN NULL ELSE s[k + 1]
    <2> TAKE k \in 1 .. Len(s)
    <2>1. nxt[d[k + n]] = IF k + n = Len(d) THEN NULL ELSE d[k + n + 1]
      BY <1>2 DEF Walk
    <2>2. s[k] = d[k + n] /\ (k # Len(s) => s[k + 1] = d[k + 1 + n])
      BY <1>1, <1>2
    <2>3. k = Len(s) <=> k + n = Len(d)
      BY <1>1, <1>2
    <2>4. k + 1 + n = k + n + 1
      BY <1>1, <1>2
    <2> QED BY <2>1, <2>2, <2>3, <2>4
  <1> QED BY <1>1, <1>2, <1>3, <1>4, <1>5, Zenon DEF Walk, s

(* What groups hold is finite, and as much as its splitting yields.        *)
LEMMA CountedGroups ==
    ASSUME NEW gs, gs \subseteq Seq(Tiocbs)
    PROVE  /\ Grouped(gs) \subseteq Tiocbs /\ IsFiniteSet(Grouped(gs))
           /\ Cardinality(Grouped(gs)) \in Nat
  <1>1. Grouped(gs) \in SUBSET Tiocbs
    BY DEF Grouped, Range
  <1> QED BY <1>1, TdQueueAssumption, FS_Subset, FS_CardinalityType DEF TdQueueAssumption

LEMMA CountedEvents ==
    ASSUME NEW es \in Seq([group : Seq(Tiocbs), res : Int]), Disjoint(es),
           \A i \in DOMAIN es : Group(es[i].group)
    PROVE  /\ IsFiniteSet(split(es)) /\ Cardinality(split(es)) \in Nat
           /\ IsFiniteSet(Members(es)) /\ Members(es) \subseteq Tiocbs
           /\ Cardinality(Members(es)) = Cardinality(split(es))
  <1>1. DOMAIN es = 1 .. Len(es) /\ Len(es) \in Nat
    OBVIOUS
  <1>3. \A i \in DOMAIN es : es[i].group \in Seq(Tiocbs)
    <2>1. \A i \in DOMAIN es : es[i] \in [group : Seq(Tiocbs), res : Int]
      BY <1>1, ElementOfSeq
    <2> QED BY <2>1
  <1>4. Members(es) \in SUBSET Tiocbs
    BY <1>3 DEF Members, Range
  <1> DEFINE f == [x \in split(es) |-> es[x[1]].group[x[2]]]
  <1>6. \A x \in split(es) : /\ x = <<x[1], x[2]>> /\ x[1] \in DOMAIN es
                                 /\ x[2] \in DOMAIN es[x[1]].group
    BY DEF split
  <1>7. f \in [split(es) -> Members(es)]
    BY <1>6 DEF Members, Range
  <1>8. \A z \in Members(es) : \E x \in split(es) : f[x] = z
    <2> TAKE z \in Members(es)
    <2>1. PICK i \in DOMAIN es : \E j \in DOMAIN es[i].group : z = es[i].group[j]
      BY DEF Members, Range
    <2>2. PICK j \in DOMAIN es[i].group : z = es[i].group[j]
      BY <2>1
    <2>3. <<i, j>> \in split(es)
      BY <2>2 DEF split
    <2> QED BY <2>2, <2>3
  <1>9. \A x, y \in split(es) : f[x] = f[y] => x = y
    <2> SUFFICES ASSUME NEW x \in split(es), NEW y \in split(es), f[x] = f[y] PROVE x = y
      OBVIOUS
    <2>1. x[1] = y[1]
      <3>1. f[x] \in Range(es[x[1]].group) /\ f[y] \in Range(es[y[1]].group)
        BY <1>6 DEF Range
      <3>2. x[1] # y[1] => Range(es[x[1]].group) \cap Range(es[y[1]].group) = {}
        BY <1>6 DEF Disjoint
      <3> QED BY <3>1, <3>2
    <2>2. x[2] = y[2]
      BY <1>6, <2>1 DEF Group, One
    <2> QED BY <1>6, <2>1, <2>2
  <1>10. IsFiniteSet(split(es))
    <2>1. \A i \in DOMAIN es : IsFiniteSet({i} \X DOMAIN es[i].group)
      <3> TAKE i \in DOMAIN es
      <3>1. DOMAIN es[i].group = 1 .. Len(es[i].group) /\ Len(es[i].group) \in Nat
        BY <1>3
      <3> QED BY <3>1, UpTo, FS_Singleton, FS_Product
    <2> DEFINE X == {{i} \X DOMAIN es[i].group : i \in DOMAIN es}
    <2>2. IsFiniteSet(DOMAIN es)
      BY <1>1, UpTo
    <2>3. IsFiniteSet(X)
      <3> DEFINE h == [i \in DOMAIN es |-> {i} \X DOMAIN es[i].group]
      <3>1. h \in Surjection(DOMAIN es, X)
        BY DEF Surjection
      <3> HIDE DEF h, X
      <3> QED BY <2>2, <3>1, FS_Surjection
    <2>4. \A x \in X : IsFiniteSet(x)
      BY <2>1
    <2>5. split(es) = UNION X
      BY DEF split
    <2> HIDE DEF X
    <2> QED BY <2>3, <2>4, <2>5, FS_UNION
  <1> HIDE DEF f
  <1>11. IsFiniteSet(Members(es)) /\ Cardinality(Members(es)) = Cardinality(split(es))
    BY <1>7, <1>8, <1>9, <1>10, OneToOne
  <1> QED BY <1>4, <1>10, <1>11, FS_CardinalityType

LEMMA Counted ==
    ASSUME TypeOK, Grouping
    PROVE  /\ IsFiniteSet(Submitted) /\ Cardinality(Submitted) \in Nat /\ Submitted = Grouped(flying)
           /\ IsFiniteSet(Done) /\ Done = Members(landed)
           /\ Cardinality(split(landed)) \in Nat /\ Cardinality(Done) = Cardinality(split(landed))
           /\ IsFiniteSet(Split) /\ Split = Members(events)
  BY CountedGroups, CountedEvents DEF TypeOK, Grouping, Submitted, Done, Split

(* The tiocbs of groups.                                                   *)
LEMMA InGroups ==
    ASSUME TypeOK, Grouping
    PROVE  /\ \A g \in flying :
                /\ g \in Seq(Tiocbs) /\ Len(g) \in Nat \ {0} /\ DOMAIN g = 1 .. Len(g)
                /\ \A j \in DOMAIN g : g[j] \in Tiocbs /\ g[j] \in Submitted
                /\ Range(g) \subseteq Submitted
           /\ \A i \in DOMAIN landed :
                /\ landed[i].group \in Seq(Tiocbs) /\ landed[i].res \in Int
                /\ Len(landed[i].group) \in Nat \ {0} /\ landed[i].group[1] \in Done
                /\ Range(landed[i].group) \subseteq Done
           /\ \A i \in DOMAIN events :
                /\ events[i].group \in Seq(Tiocbs) /\ events[i].res \in Int
                /\ Len(events[i].group) \in Nat \ {0} /\ events[i].group[1] \in Split
                /\ Range(events[i].group) \subseteq Split
           /\ Submitted \subseteq Tiocbs /\ Done \subseteq Tiocbs /\ Split \subseteq Tiocbs
  <1>1. ASSUME NEW g \in Seq(Tiocbs), Group(g)
        PROVE  /\ Len(g) \in Nat \ {0} /\ DOMAIN g = 1 .. Len(g)
               /\ \A j \in DOMAIN g : g[j] \in Tiocbs /\ g[j] \in Range(g)
               /\ g[1] \in Range(g) /\ Range(g) \subseteq Tiocbs
    <2>1. Len(g) \in Nat \ {0} /\ DOMAIN g = 1 .. Len(g)
      BY <1>1, EmptySeq DEF Group
    <2>2. 1 \in DOMAIN g
      BY <2>1
    <2> QED BY <2>1, <2>2 DEF Range
  <1>2. \A g \in flying : g \in Seq(Tiocbs) /\ Group(g) /\ Range(g) \subseteq Submitted
    BY DEF TypeOK, Grouping, Submitted, Grouped
  <1>3. ASSUME NEW i \in DOMAIN landed
        PROVE  /\ landed[i].group \in Seq(Tiocbs) /\ landed[i].res \in Int /\ Group(landed[i].group)
               /\ Range(landed[i].group) \subseteq Done
    <2>1. landed[i] \in [group : Seq(Tiocbs), res : Int]
      <3>1. landed \in Seq([group : Seq(Tiocbs), res : Int]) /\ i \in 1 .. Len(landed)
        BY DEF TypeOK
      <3> QED BY <3>1, ElementOfSeq
    <2> QED BY <2>1 DEF Grouping, Done, Members
  <1>4. ASSUME NEW i \in DOMAIN events
        PROVE  /\ events[i].group \in Seq(Tiocbs) /\ events[i].res \in Int /\ Group(events[i].group)
               /\ Range(events[i].group) \subseteq Split
    <2>1. events[i] \in [group : Seq(Tiocbs), res : Int]
      <3>1. events \in Seq([group : Seq(Tiocbs), res : Int]) /\ i \in 1 .. Len(events)
        BY DEF TypeOK
      <3> QED BY <3>1, ElementOfSeq
    <2> QED BY <2>1 DEF Grouping, Split, Members
  <1>5. Submitted \subseteq Tiocbs
    BY <1>2, <1>1 DEF Submitted, Grouped
  <1>6. Done \subseteq Tiocbs
    BY <1>3, <1>1 DEF Done, Members
  <1>7. Split \subseteq Tiocbs
    BY <1>4, <1>1 DEF Split, Members
  <1> QED BY <1>1, <1>2, <1>3, <1>4, <1>5, <1>6, <1>7

LEMMA OneConcat ==
    ASSUME NEW c \in Seq(Tiocbs), NEW d \in Seq(Tiocbs), One(c), One(d),
           Range(c) \cap Range(d) = {}
    PROVE  One(c \o d) /\ Range(c \o d) = Range(c) \cup Range(d)
  <1> DEFINE s == c \o d
  <1>1. /\ Len(c) \in Nat /\ Len(d) \in Nat
        /\ DOMAIN c = 1 .. Len(c) /\ DOMAIN d = 1 .. Len(d) /\ DOMAIN s = 1 .. Len(c) + Len(d)
        /\ \A i \in 1 .. Len(c) : s[i] = c[i]
        /\ \A i \in 1 .. Len(d) : s[i + Len(c)] = d[i]
    OBVIOUS
  <1> HIDE DEF s
  <1>2. \A k \in DOMAIN s : \/ k \in DOMAIN c
                            \/ \E i \in DOMAIN d : k = i + Len(c)
    <2> TAKE k \in DOMAIN s
    <2>1. k <= Len(c) \/ (k - Len(c) \in 1 .. Len(d) /\ k = (k - Len(c)) + Len(c))
      BY <1>1
    <2> QED BY <1>1, <2>1
  <1>3. DOMAIN c \subseteq DOMAIN s /\ \A i \in DOMAIN d : i + Len(c) \in DOMAIN s
    BY <1>1
  <1>4. Range(s) = Range(c) \cup Range(d)
    <2>1. ASSUME NEW x \in Range(s) PROVE x \in Range(c) \cup Range(d)
      BY <1>1, <1>2 DEF Range
    <2>2. ASSUME NEW x \in Range(c) \cup Range(d) PROVE x \in Range(s)
      <3>1. CASE x \in Range(c)
        BY <1>1, <1>3, <3>1 DEF Range
      <3>2. CASE x \in Range(d)
        <4>1. PICK i \in DOMAIN d : x = d[i]
          BY <3>2 DEF Range
        <4>2. s[i + Len(c)] = x /\ i + Len(c) \in DOMAIN s
          BY <1>1, <1>3, <4>1
        <4> QED BY <4>2 DEF Range
      <3> QED BY <2>2, <3>1, <3>2
    <2> QED BY <2>1, <2>2
  <1>5. One(s)
    <2> SUFFICES ASSUME NEW k \in DOMAIN s, NEW m \in DOMAIN s, s[k] = s[m] PROVE k = m
      BY DEF One
    <2>1. CASE k \in DOMAIN c /\ m \in DOMAIN c
      BY <1>1, <2>1 DEF One
    <2>2. CASE k \in DOMAIN c /\ \E i \in DOMAIN d : m = i + Len(c)
      BY <1>1, <2>2 DEF Range
    <2>3. CASE (\E i \in DOMAIN d : k = i + Len(c)) /\ m \in DOMAIN c
      BY <1>1, <2>3, ZenonT(40) DEF Range
    <2>4. CASE (\E i \in DOMAIN d : k = i + Len(c)) /\ (\E i \in DOMAIN d : m = i + Len(c))
      BY <1>1, <2>4 DEF One
    <2> QED BY <1>2, <2>1, <2>2, <2>3, <2>4
  <1> QED BY <1>4, <1>5 DEF s

(* A sequence cut in two.                                                  *)
LEMMA OneCut ==
    ASSUME NEW d \in Seq(Tiocbs), One(d), NEW n \in 0 .. Len(d)
    PROVE  LET a == SubSeq(d, 1, n)  b == SubSeq(d, n + 1, Len(d))
           IN  /\ a \in Seq(Tiocbs) /\ One(a) /\ Len(a) = n /\ \A i \in 1 .. n : a[i] = d[i]
               /\ b \in Seq(Tiocbs) /\ One(b) /\ Len(b) = Len(d) - n
               /\ \A i \in 1 .. Len(d) - n : b[i] = d[i + n]
               /\ Range(a) \cup Range(b) = Range(d) /\ Range(a) \cap Range(b) = {}
  <1> DEFINE a == SubSeq(d, 1, n)
             b == SubSeq(d, n + 1, Len(d))
  <1>1. /\ Len(d) \in Nat /\ n \in Nat /\ n <= Len(d) /\ DOMAIN d = 1 .. Len(d)
        /\ n + 1 \in Nat \ {0} /\ n + 1 <= Len(d) + 1 /\ Len(d) <= Len(d) /\ 1 \in Nat \ {0} /\ 1 <= n + 1
    OBVIOUS
  <1>2. /\ a \in Seq(Tiocbs) /\ Len(a) = n /\ DOMAIN a = 1 .. n /\ \A i \in 1 .. n : a[i] = d[i]
    <2>1. /\ a \in Seq(Tiocbs) /\ Len(a) = n - 1 + 1
          /\ \A i \in 1 .. n - 1 + 1 : a[i] = d[i + 1 - 1]
      BY <1>1, PartOf
    <2>2. n - 1 + 1 = n /\ \A i \in 1 .. n : i + 1 - 1 = i
      BY <1>1
    <2> HIDE DEF a
    <2> QED BY <2>1, <2>2
  <1>3. /\ b \in Seq(Tiocbs) /\ Len(b) = Len(d) - n /\ DOMAIN b = 1 .. Len(d) - n
        /\ \A i \in 1 .. Len(d) - n : b[i] = d[i + n] /\ i + n \in 1 .. Len(d)
    <2>1. /\ b \in Seq(Tiocbs) /\ Len(b) = Len(d) - (n + 1) + 1
          /\ \A i \in 1 .. Len(d) - (n + 1) + 1 : b[i] = d[i + (n + 1) - 1]
      BY <1>1, PartOf, ZenonT(40)
    <2>2. /\ Len(d) - (n + 1) + 1 = Len(d) - n
          /\ \A i \in 1 .. Len(d) - n : i + (n + 1) - 1 = i + n /\ i + n \in 1 .. Len(d)
      BY <1>1
    <2> HIDE DEF b
    <2> QED BY <2>1, <2>2
  <1> HIDE DEF a, b
  <1>4. One(a)
    BY <1>1, <1>2 DEF One
  <1>5. One(b)
    <2> SUFFICES ASSUME NEW i \in 1 .. Len(d) - n, NEW j \in 1 .. Len(d) - n, b[i] = b[j] PROVE i = j
      BY <1>3 DEF One
    <2>1. i + n = j + n
      BY <1>1, <1>3 DEF One
    <2> QED BY <1>1, <2>1
  <1>6. Range(a) \cap Range(b) = {}
    <2> SUFFICES ASSUME NEW i \in 1 .. n, NEW j \in 1 .. Len(d) - n, a[i] = b[j] PROVE FALSE
      BY <1>2, <1>3 DEF Range
    <2>1. d[i] = d[j + n] /\ i \in DOMAIN d /\ j + n \in DOMAIN d
      BY <1>1, <1>2, <1>3
    <2>2. i = j + n
      BY <2>1 DEF One
    <2> QED BY <1>1, <2>2
  <1>7. ASSUME NEW x \in Range(d) PROVE x \in Range(a) \cup Range(b)
    <2>1. PICK k \in 1 .. Len(d) : x = d[k]
      BY <1>1 DEF Range
    <2>2. CASE k <= n
      <3>1. k \in DOMAIN a /\ x = a[k]
        BY <1>1, <1>2, <2>1, <2>2
      <3> QED BY <3>1 DEF Range
    <2>3. CASE k > n
      <3>1. k - n \in DOMAIN b /\ (k - n) + n = k
        BY <1>1, <1>3, <2>3
      <3>2. x = b[k - n]
        BY <1>3, <2>1, <3>1
      <3> QED BY <3>1, <3>2 DEF Range
    <2> QED BY <1>1, <2>1, <2>2, <2>3
  <1>8. Range(a) \subseteq Range(d) /\ Range(b) \subseteq Range(d)
    <2>1. \A i \in DOMAIN a : a[i] = d[i] /\ i \in DOMAIN d
      BY <1>1, <1>2
    <2>2. \A i \in DOMAIN b : b[i] = d[i + n] /\ i + n \in DOMAIN d
      BY <1>1, <1>3
    <2> QED BY <2>1, <2>2 DEF Range
  <1> QED BY <1>2, <1>3, <1>4, <1>5, <1>6, <1>7, <1>8 DEF a, b

(* Without cancelling there is nothing to cancel.                          *)
LEMMA NothingFailed == ~Cancels => Cancelling = <<>>
  BY DEF Cancels, Cancelling

LEMMA TdInit == Init => IInv
  <1> SUFFICES ASSUME Init PROVE IInv
    OBVIOUS
  <1>1. Walk(next, NULL, <<>>)
    BY DEF Walk, One
  <1>2. Deferred = <<>>
    BY <1>1, ChainIs DEF Deferred, Chain, Init
  <1>3. ~Cancels /\ Cancelling = <<>>
    BY NothingFailed DEF Cancels, Init
  <1>4. /\ Queued = {} /\ Delayed = {} /\ Failed = {} /\ Submitted = {}
        /\ Done = {} /\ Split = {}
    BY <1>2, <1>3 DEF Queued, Delayed, Failed, Submitted, Done, Split, Grouped, Members, Range, Init
  <1>5. Cardinality({}) = 0 /\ IsFiniteSet({})
    BY FS_EmptySet
  <1>6. Size \in Nat /\ Cardinality(Tiocbs) \in Nat /\ (Tiocbs # {} => Cardinality(Tiocbs) # 0)
    BY TdQueueAssumption, FS_CardinalityType, FS_EmptySet DEF TdQueueAssumption
  <1>7. TypeOK
    BY <1>6 DEF Init, TypeOK, Ptr
  <1>8. Linking
    BY <1>1, <1>2, <1>3 DEF Init, Linking, One, Cancels
  <1>9. Apart
    BY <1>4 DEF Init, Apart
  <1>10. Grouping
    BY <1>5 DEF Init, Grouping, Disjoint
  <1>11. Results
    BY <1>4 DEF Init, Results, CallbackRuns
  <1>12. Places
    BY DEF Init, Places
  <1>13. split(landed) = {} /\ Grouped(flying) = {} /\ Members(events) = {}
    BY DEF Init, split, Grouped, Members
  <1>14. CountersExact /\ NoOverflow
    <2>1. /\ flying = {} /\ Len(landed) = 0 /\ Len(iocbs) = 0
          /\ tiocbs_pending = 0 /\ iocbs_pending = 0 /\ cancelled = 0
      BY DEF Init
    <2> QED BY <1>5, <1>6, <1>13, <2>1 DEF CountersExact, NoOverflow
  <1> QED BY <1>7, <1>8, <1>9, <1>10, <1>11, <1>12, <1>14 DEF IInv

-----------------------------------------------------------------------------
(* The steps                                                               *)

LEMMA CallbackReturns ==
    ASSUME IInv, callback_returns
    PROVE  IInv'
  <1>1. /\ CallbackRuns /\ TypeOK /\ Linking /\ Apart /\ Grouping /\ Results /\ Places
        /\ CountersExact /\ NoOverflow
        /\ pc' = IF pc = "event_cb" THEN "event" ELSE "cancel"
        /\ cur' = IF pc = "event_cb" THEN NULL ELSE next[cur]
        /\ next' = next /\ iocbs' = iocbs /\ head' = head /\ tail' = tail
        /\ pos' = pos /\ nbytes' = nbytes /\ owner' = owner
        /\ iocbs_pending' = iocbs_pending /\ tiocbs_pending' = tiocbs_pending
        /\ flying' = flying /\ landed' = landed /\ full' = full
        /\ events' = events /\ err' = err /\ cancelled' = cancelled
    BY DEF IInv, callback_returns, lists, kernel
  <1>2. pc = "cancel_cb" => cur \in Tiocbs
    BY <1>1 DEF Linking
  <1>3. Deferred' = Deferred /\ Cancelling' = Cancelling
    BY <1>1 DEF Deferred, Cancelling, Chain, CallbackRuns
  <1>4. /\ Queued' = Queued /\ Delayed' = Delayed /\ Failed' = Failed
        /\ Submitted' = Submitted /\ Done' = Done /\ Split' = Split
    BY <1>1, <1>3 DEF Queued, Delayed, Failed, Submitted, Done, Split
  <1>5. TypeOK'
    <2>1. cur' \in Ptr /\ pc' \in {"event", "cancel"}
      BY <1>1, <1>2 DEF TypeOK, Ptr, CallbackRuns
    <2> QED BY <1>1, <2>1 DEF TypeOK
  <1>6. Linking'
    BY <1>1, <1>3 DEF Linking, Cancels, CallbackRuns
  <1>7. Apart'
    BY <1>1, <1>4 DEF Apart
  <1>8. Grouping'
    BY <1>1 DEF Grouping, Disjoint
  <1>9. Results'
    BY <1>1, <1>4 DEF Results, CallbackRuns
  <1>10. Places'
    BY <1>1 DEF Places, CallbackRuns, Cancels
  <1>11. CountersExact' /\ NoOverflow'
    BY <1>1 DEF CountersExact, NoOverflow
  <1> QED BY <1>5, <1>6, <1>7, <1>8, <1>9, <1>10, <1>11 DEF IInv

LEMMA CancelTiocb ==
    ASSUME IInv, cancel_tiocb
    PROVE  IInv'
  <1>1. /\ TypeOK /\ Linking /\ Apart /\ Grouping /\ Results /\ Places
        /\ CountersExact /\ NoOverflow
        /\ pc = "cancel" /\ cur # NULL /\ pc' = "cancel_cb" /\ err' = 1
        /\ owner' = [owner EXCEPT ![cur] = "driver"]
        /\ next' = next /\ iocbs' = iocbs /\ head' = head /\ tail' = tail
        /\ pos' = pos /\ nbytes' = nbytes
        /\ iocbs_pending' = iocbs_pending /\ tiocbs_pending' = tiocbs_pending
        /\ flying' = flying /\ landed' = landed /\ full' = full
        /\ events' = events /\ cur' = cur /\ cancelled' = cancelled
    BY DEF IInv, cancel_tiocb, lists, kernel
  <1>2. Deferred' = Deferred
    BY <1>1 DEF Deferred, Chain
  <1>3. Walk(next, cur, Cancelling) /\ Cancelling # <<>> /\ cur = Cancelling[1]
        /\ Cancelling \in Seq(Tiocbs)
    BY <1>1 DEF Linking, Cancels, Walk
  <1> DEFINE s == SubSeq(Cancelling, 2, Len(Cancelling))
  <1>4. 1 \in DOMAIN Cancelling /\ cur \in Tiocbs
    BY <1>3
  <1>5. Walk(next, next[cur], s)
    <2>1. Walk(next, next[Cancelling[1]], SubSeq(Cancelling, 1 + 1, Len(Cancelling)))
      BY <1>3, <1>4, WalkRest
    <2> QED BY <1>3, <2>1
  <1>6. Cancelling' = s
    BY <1>1, <1>5, ChainIs DEF Cancelling, Chain
  <1>7. Range(s) = Range(Cancelling) \ {cur} /\ cur \in Range(Cancelling)
    <2>1. Len(Cancelling) \in Nat \ {0} /\ DOMAIN Cancelling = 1 .. Len(Cancelling)
      BY <1>3
    <2>2. s \in Seq(Tiocbs) /\ Len(s) = Len(Cancelling) - 2 + 1
          /\ \A i \in 1 .. Len(Cancelling) - 2 + 1 : s[i] = Cancelling[i + 2 - 1]
      BY <1>3, <2>1, PartOf
    <2>3. DOMAIN s = 1 .. Len(Cancelling) - 1 /\ \A i \in 1 .. Len(Cancelling) - 1 : s[i] = Cancelling[i + 1]
      <3>1. Len(Cancelling) - 2 + 1 = Len(Cancelling) - 1
            /\ \A i \in 1 .. Len(Cancelling) - 1 : i + 2 - 1 = i + 1
        BY <2>1
      <3>2. DOMAIN s = 1 .. Len(s)
        BY <2>2
      <3> HIDE DEF s
      <3> QED BY <2>2, <3>1, <3>2
    <2> HIDE DEF s
    <2>4. \A i \in DOMAIN Cancelling : Cancelling[i] = cur <=> i = 1
      BY <1>3, <1>4 DEF Walk, One
    <2>5. ASSUME NEW x \in Range(s) PROVE x \in Range(Cancelling) \ {cur}
      <3>1. PICK i \in 1 .. Len(Cancelling) - 1 : x = Cancelling[i + 1]
        BY <2>3 DEF Range
      <3>2. i + 1 \in DOMAIN Cancelling /\ i + 1 # 1
        BY <2>1
      <3> QED BY <2>4, <3>1, <3>2 DEF Range
    <2>6. ASSUME NEW x \in Range(Cancelling) \ {cur} PROVE x \in Range(s)
      <3>1. PICK i \in DOMAIN Cancelling : x = Cancelling[i]
        BY DEF Range
      <3>2. i # 1
        BY <1>3, <3>1
      <3>3. i - 1 \in 1 .. Len(Cancelling) - 1 /\ i - 1 + 1 = i
        BY <2>1, <3>2
      <3>4. s[i - 1] = x
        BY <2>3, <3>1, <3>3
      <3> QED BY <2>3, <3>3, <3>4 DEF Range
    <2> QED BY <1>3, <1>4, <2>5, <2>6 DEF Range
  <1> HIDE DEF s
  <1>8. /\ Queued' = Queued /\ Delayed' = Delayed /\ Failed' = Failed \ {cur} /\ cur \in Failed
        /\ Submitted' = Submitted /\ Done' = Done /\ Split' = Split
    BY <1>1, <1>2, <1>6, <1>7 DEF Queued, Delayed, Failed, Submitted, Done, Split
  <1>9. TypeOK'
    BY <1>1 DEF TypeOK
  <1>10. owner'[cur] = "driver" /\ \A t \in Tiocbs \ {cur} : owner'[t] = owner[t]
    BY <1>1, <1>4 DEF TypeOK
  <1>11. Linking'
    BY <1>1, <1>2, <1>4, <1>5, <1>6, <1>10 DEF Linking, Cancels
  <1>12. Apart'
    BY <1>1, <1>8, <1>10, <1>4 DEF Apart
  <1>13. Grouping'
    BY <1>1 DEF Grouping, Disjoint
  <1>14. Results'
    BY <1>1, <1>4, <1>8 DEF Results, CallbackRuns, Apart
  <1>15. Places'
    BY <1>1 DEF Places, Cancels
  <1>16. CountersExact' /\ NoOverflow'
    BY <1>1 DEF CountersExact, NoOverflow
  <1> QED BY <1>9, <1>11, <1>12, <1>13, <1>14, <1>15, <1>16 DEF IInv

LEMMA CancelEnds ==
    ASSUME IInv, cancel_ends
    PROVE  IInv'
  <1>1. /\ TypeOK /\ Linking /\ Apart /\ Grouping /\ Results /\ Places
        /\ CountersExact /\ NoOverflow
        /\ pc = "cancel" /\ cur = NULL /\ pc' = "idle" /\ cancelled' = 0
        /\ tiocbs_pending' = tiocbs_pending - cancelled
        /\ next' = next /\ iocbs' = iocbs /\ head' = head /\ tail' = tail
        /\ pos' = pos /\ nbytes' = nbytes /\ owner' = owner
        /\ iocbs_pending' = iocbs_pending
        /\ flying' = flying /\ landed' = landed /\ full' = full
        /\ events' = events /\ cur' = cur /\ err' = err
    BY DEF IInv, cancel_ends, lists, kernel
  <1>2. Deferred' = Deferred
    BY <1>1 DEF Deferred, Chain
  <1>3. Cancelling = <<>>
    BY <1>1, TdQueueAssumption DEF Linking, Cancels, Walk, TdQueueAssumption
  <1>4. Cancelling' = <<>>
    BY <1>1 DEF Cancelling
  <1>5. /\ Queued' = Queued /\ Delayed' = Delayed /\ Failed' = Failed
        /\ Submitted' = Submitted /\ Done' = Done /\ Split' = Split
    BY <1>1, <1>2, <1>3, <1>4 DEF Queued, Delayed, Failed, Submitted, Done, Split
  <1>6. /\ Cardinality(Grouped(flying)) \in Nat /\ Cardinality(split(landed)) \in Nat
        /\ cancelled \in Nat
    BY <1>1, Counted DEF TypeOK
  <1>7. tiocbs_pending' = Cardinality(Grouped(flying)) + Cardinality(split(landed))
    BY <1>1, <1>6 DEF CountersExact
  <1>8. TypeOK'
    BY <1>1, <1>6, <1>7 DEF TypeOK
  <1>9. Linking'
    BY <1>1, <1>2 DEF Linking, Cancels
  <1>10. Apart'
    BY <1>1, <1>5 DEF Apart
  <1>11. Grouping'
    BY <1>1 DEF Grouping, Disjoint
  <1>12. Results'
    BY <1>1, <1>5 DEF Results, CallbackRuns
  <1>13. Places'
    BY <1>1 DEF Places
  <1>14. CountersExact'
    BY <1>1, <1>6, <1>7 DEF CountersExact
  <1>15. NoOverflow'
    <2>1. tiocbs_pending \in Nat /\ Len(iocbs) \in Nat /\ Size \in Nat
      BY <1>1, TdQueueAssumption DEF TypeOK, TdQueueAssumption
    <2> QED BY <1>1, <1>6, <2>1 DEF NoOverflow
  <1> QED BY <1>8, <1>9, <1>10, <1>11, <1>12, <1>13, <1>14, <1>15 DEF IInv

LEMMA QueueTiocb ==
    ASSUME IInv, SafeToFail, NEW t \in Tiocbs, NEW p \in Positions, queue_tiocb(t, p)
    PROVE  IInv'
  <1> DEFINE prepared == [next EXCEPT ![t] = NULL]
  <1>1. /\ TypeOK /\ Linking /\ Apart /\ Grouping /\ Results /\ Places
        /\ CountersExact /\ NoOverflow
        /\ pc = "idle" \/ CallbackRuns
        /\ owner[t] = "driver" /\ (CallbackRuns /\ t = cur => Reuse)
        /\ pos' = [pos EXCEPT ![t] = p]
        /\ nbytes' = [nbytes EXCEPT ![t] = 1]
        /\ owner' = [owner EXCEPT ![t] = "queue"]
        /\ iocbs_pending' = iocbs_pending /\ tiocbs_pending' = tiocbs_pending
        /\ flying' = flying /\ landed' = landed /\ full' = full
        /\ events' = events /\ pc' = pc /\ cur' = cur /\ err' = err /\ cancelled' = cancelled
    BY DEF IInv, queue_tiocb, kernel, loop
  <1>2. \/ /\ ~queue_full
           /\ next' = Linked(prepared, t)
           /\ iocbs' = Append(iocbs, t)
           /\ head' = head /\ tail' = tail
        \/ /\ queue_full
           /\ defer_tiocb(prepared, t)
           /\ iocbs' = iocbs
    BY DEF queue_tiocb
  <1>3. /\ NULL \notin Tiocbs /\ Positions \subseteq Nat /\ IsFiniteSet(Tiocbs) /\ Size \in Nat
        /\ next \in [Tiocbs -> Ptr] /\ iocbs \in Seq(Tiocbs)
        /\ Len(iocbs) \in Nat /\ tiocbs_pending \in Nat
        /\ prepared \in [Tiocbs -> Ptr] /\ prepared[t] = NULL
        /\ \A x \in Tiocbs \ {t} : prepared[x] = next[x]
    BY <1>1, TdQueueAssumption DEF TypeOK, TdQueueAssumption, Ptr
  <1>4. t \notin Queued \cup Delayed \cup Failed \cup Submitted \cup Done \cup Split
    BY <1>1 DEF Apart
  <1>5. /\ Deferred \in Seq(Tiocbs) /\ Delayed \subseteq Tiocbs /\ Queued \subseteq Tiocbs
        /\ Walk(next, head, Deferred) /\ (head = NULL <=> Deferred = <<>>)
    <2>1. Walk(next, head, Deferred) /\ Deferred \in Seq(Tiocbs)
      BY <1>1 DEF Linking, Walk
    <2>2. Deferred # <<>> => Deferred[1] \in Tiocbs
      BY <2>1
    <2>3. head = NULL <=> Deferred = <<>>
      BY <1>3, <2>1, <2>2 DEF Walk
    <2> QED BY <1>3, <2>1, <2>3 DEF Delayed, Queued, Range
  <1>6. Walk(prepared, head, Deferred)
    BY <1>3, <1>4, <1>5, WalkFrame DEF Delayed
  <1>7. Walk(prepared, t, <<t>>)
    BY <1>3 DEF Walk, One
  <1>8. MayFail => Walk(prepared, IF iocbs = <<>> THEN NULL ELSE iocbs[1], iocbs)
    <2> SUFFICES ASSUME MayFail PROVE Walk(prepared, IF iocbs = <<>> THEN NULL ELSE iocbs[1], iocbs)
      OBVIOUS
    <2>1. Walk(next, IF iocbs = <<>> THEN NULL ELSE iocbs[1], iocbs)
      BY <1>1 DEF Linking
    <2>2. \A x \in Range(iocbs) : prepared[x] = next[x]
      BY <1>3, <1>4, <1>5 DEF Queued
    <2> QED BY <2>1, <2>2, WalkFrame
  <1>9. Cancels => /\ pc = "cancel_cb" /\ cur \in Tiocbs \ (Queued \cup Delayed \cup {t})
                   /\ Walk(prepared, next[cur], Cancelling)
                   /\ Failed \subseteq Tiocbs
    <2> SUFFICES ASSUME Cancels
                 PROVE  /\ pc = "cancel_cb" /\ cur \in Tiocbs \ (Queued \cup Delayed \cup {t})
                        /\ Walk(prepared, next[cur], Cancelling)
                        /\ Failed \subseteq Tiocbs
      OBVIOUS
    <2>1. pc = "cancel_cb" /\ MayFail /\ ~Reuse /\ CallbackRuns /\ t # cur
      BY <1>1 DEF Cancels, CallbackRuns, Linking, SafeToFail
    <2>2. cur \in Tiocbs /\ owner[cur] = "driver" /\ Walk(next, next[cur], Cancelling)
      BY <1>1, <2>1 DEF Linking
    <2>3. cur \notin Queued \cup Delayed
      BY <1>1, <2>2 DEF Apart
    <2>4. Failed \subseteq Tiocbs
      BY <2>2 DEF Walk, Failed, Range
    <2>5. Walk(prepared, next[cur], Cancelling)
      BY <1>3, <1>4, <2>2, <2>4, WalkFrame DEF Failed
    <2> QED BY <2>1, <2>2, <2>3, <2>4, <2>5
  <1>10. ASSUME next' \in [Tiocbs -> Ptr], \A x \in Tiocbs \ (Queued \cup Delayed) : next'[x] = prepared[x]
         PROVE  Cancelling' = Cancelling /\ (Cancels => Walk(next', next'[cur], Cancelling))
    <2>1. CASE ~Cancels
      BY <1>1, <2>1 DEF Cancels, Cancelling
    <2>2. CASE Cancels
      <3>1. next'[cur] = next[cur]
        BY <1>3, <1>9, <1>10, <2>2
      <3>2. \A x \in Range(Cancelling) : next'[x] = prepared[x]
        BY <1>1, <1>9, <1>10, <2>2 DEF Apart, Failed
      <3>3. Walk(next', next[cur], Cancelling)
        BY <1>9, <2>2, <3>2, WalkFrame
      <3>4. Cancelling' = ChainOf(next', next'[cur])
        BY <1>1, <1>9, <2>2 DEF Cancelling, Chain
      <3> QED BY <3>1, <3>3, <3>4, ChainIs
    <2> QED BY <2>1, <2>2
  <1> HIDE DEF prepared
  <1>11. /\ next' \in [Tiocbs -> Ptr] /\ iocbs' \in Seq(Tiocbs) /\ head' \in Ptr /\ tail' \in Ptr
         /\ Linking' /\ NoOverflow'
         /\ \/ Queued' = Queued \cup {t} /\ Delayed' = Delayed
            \/ Queued' = Queued /\ Delayed' = Delayed \cup {t}
         /\ Failed' = Failed
    <2>1. CASE /\ ~queue_full
               /\ next' = Linked(prepared, t)
               /\ iocbs' = Append(iocbs, t)
               /\ head' = head /\ tail' = tail
      <3>1. /\ next' \in [Tiocbs -> Ptr]
            /\ \A x \in Tiocbs : next'[x] = IF iocbs # <<>> /\ x = iocbs[Len(iocbs)] THEN t ELSE prepared[x]
        BY <1>3, <2>1 DEF Linked, Last, Ptr
      <3>2. iocbs # <<>> => iocbs[Len(iocbs)] \in Queued
        BY <1>3 DEF Queued, Range
      <3>3. Walk(next', head', Deferred)
        <4>1. \A x \in Range(Deferred) : next'[x] = prepared[x]
          BY <1>1, <1>5, <3>1, <3>2 DEF Apart, Delayed
        <4> QED BY <1>6, <2>1, <4>1, WalkFrame
      <3>4. Deferred' = Deferred
        BY <3>3, ChainIs DEF Deferred, Chain
      <3>5. Cancelling' = Cancelling /\ (Cancels => Walk(next', next'[cur], Cancelling))
        BY <1>10, <3>1, <3>2
      <3>6. iocbs' \in Seq(Tiocbs) /\ Len(iocbs') = Len(iocbs) + 1 /\ iocbs' = iocbs \o <<t>>
            /\ \A i \in 1 .. Len(iocbs') : iocbs'[i] = IF i <= Len(iocbs) THEN iocbs[i] ELSE t
        BY <1>3, <2>1
      <3>7. Queued' = Queued \cup {t}
        BY <1>3, <2>1, RangeAppend DEF Queued
      <3>8. One(iocbs')
        <4>1. \A i \in 1 .. Len(iocbs) : iocbs[i] # t
          BY <1>3, <1>4 DEF Queued, Range
        <4> QED BY <1>1, <1>3, <3>6, <4>1 DEF Linking, One
      <3>9. MayFail => Walk(next', IF iocbs' = <<>> THEN NULL ELSE iocbs'[1], iocbs')
        <4> SUFFICES ASSUME MayFail PROVE Walk(next', IF iocbs' = <<>> THEN NULL ELSE iocbs'[1], iocbs')
          OBVIOUS
        <4>1. /\ <<t>> # <<>> /\ Range(<<t>>) = {t} /\ Range(iocbs) \cap Range(<<t>>) = {}
              /\ Range(iocbs) \subseteq Tiocbs
          BY <1>4, <1>5 DEF Range, Queued
        <4> DEFINE q == IF iocbs = <<>> THEN NULL ELSE iocbs[1]
        <4>2. Walk(prepared, q, iocbs)
          BY <1>8
        <4>3. \A x \in Range(iocbs) \cup Range(<<t>>) :
                next'[x] = IF iocbs # <<>> /\ x = iocbs[Len(iocbs)] THEN t ELSE prepared[x]
          BY <3>1, <4>1
        <4> HIDE DEF q
        <4>4. Walk(next', IF iocbs = <<>> THEN t ELSE q, iocbs \o <<t>>)
          BY <1>7, <4>1, <4>2, <4>3, WalkConcat
        <4>5. (IF iocbs = <<>> THEN t ELSE q) = IF iocbs' = <<>> THEN NULL ELSE iocbs'[1]
          <5>1. iocbs' # <<>> /\ (iocbs = <<>> => iocbs'[1] = t) /\ (iocbs # <<>> => iocbs'[1] = iocbs[1])
            BY <1>3, <3>6
          <5> QED BY <5>1 DEF q
        <4> QED BY <3>6, <4>4, <4>5
      <3>10. Linking'
        <4>1. Cancels' <=> Cancels
          BY <1>1 DEF Cancels
        <4>2. owner'[cur] = owner[cur] \/ ~Cancels
          BY <1>1, <1>9 DEF TypeOK
        <4> QED BY <1>1, <1>9, <2>1, <3>3, <3>4, <3>5, <3>8, <3>9, <4>1, <4>2 DEF Linking, Cancels
      <3>11. NoOverflow'
        BY <1>1, <1>3, <2>1, <3>6 DEF NoOverflow, queue_full
      <3>12. Failed' = Failed /\ Delayed' = Delayed
        BY <3>4, <3>5 DEF Failed, Delayed
      <3>13. head' \in Ptr /\ tail' \in Ptr
        BY <1>1, <2>1 DEF TypeOK
      <3> QED BY <3>1, <3>6, <3>7, <3>10, <3>11, <3>12, <3>13
    <2>2. CASE queue_full /\ defer_tiocb(prepared, t) /\ iocbs' = iocbs
      <3>0. Deferred # <<>> => tail = Deferred[Len(Deferred)] /\ tail \in Delayed
        <4>1. Deferred # <<>> => Len(Deferred) \in DOMAIN Deferred
          BY <1>5
        <4> QED BY <1>1, <4>1 DEF Linking, Delayed, Range
      <3>1. /\ next' \in [Tiocbs -> Ptr]
            /\ \A x \in Tiocbs : next'[x] = IF Deferred # <<>> /\ x = Deferred[Len(Deferred)] THEN t ELSE prepared[x]
            /\ head' = IF Deferred = <<>> THEN t ELSE head
            /\ tail' = t
        BY <1>3, <1>5, <2>2, <3>0 DEF defer_tiocb, Ptr
      <3>2. Walk(next', head', Deferred \o <<t>>)
        <4>1. /\ <<t>> # <<>> /\ Range(<<t>>) = {t} /\ Range(Deferred) \cap Range(<<t>>) = {}
              /\ Range(Deferred) \subseteq Tiocbs
          BY <1>4, <1>5 DEF Range, Delayed
        <4>2. \A x \in Range(Deferred) \cup Range(<<t>>) :
                next'[x] = IF Deferred # <<>> /\ x = Deferred[Len(Deferred)] THEN t ELSE prepared[x]
          BY <3>1, <4>1
        <4>3. Walk(next', IF Deferred = <<>> THEN t ELSE head, Deferred \o <<t>>)
          BY <1>6, <1>7, <4>1, <4>2, WalkConcat
        <4> QED BY <3>1, <4>3
      <3>3. Deferred' = Deferred \o <<t>>
        BY <3>2, ChainIs DEF Deferred, Chain
      <3>4. Cancelling' = Cancelling /\ (Cancels => Walk(next', next'[cur], Cancelling))
        BY <1>10, <3>0, <3>1
      <3>5. /\ Len(Deferred') = Len(Deferred) + 1 /\ Deferred' \in Seq(Tiocbs)
            /\ \A i \in 1 .. Len(Deferred') : Deferred'[i] = IF i <= Len(Deferred) THEN Deferred[i] ELSE t
            /\ Len(Deferred) \in Nat
        BY <1>5, <3>3
      <3>6. Delayed' = Delayed \cup {t} /\ Queued' = Queued
        <4>1. Range(Deferred') = Range(Deferred) \cup {t}
          BY <1>5, <3>5 DEF Range
        <4> QED BY <2>2, <4>1 DEF Delayed, Queued
      <3>7. MayFail => Walk(next', IF iocbs' = <<>> THEN NULL ELSE iocbs'[1], iocbs')
        <4> SUFFICES ASSUME MayFail PROVE Walk(next', IF iocbs' = <<>> THEN NULL ELSE iocbs'[1], iocbs')
          OBVIOUS
        <4>1. \A x \in Range(iocbs) : next'[x] = prepared[x]
          BY <1>1, <1>5, <3>0, <3>1 DEF Apart, Queued
        <4> QED BY <1>8, <2>2, <4>1, WalkFrame
      <3>8. Linking'
        <4>1. Cancels' <=> Cancels
          BY <1>1 DEF Cancels
        <4>2. owner'[cur] = owner[cur] \/ ~Cancels
          BY <1>1, <1>9 DEF TypeOK
        <4>3. tail' = Deferred'[Len(Deferred')]
          BY <3>1, <3>5
        <4>4. One(iocbs')
          BY <1>1, <2>2 DEF Linking
        <4>5. Walk(next', head', Deferred')
          BY <3>2, <3>3
        <4> QED BY <1>1, <1>9, <3>4, <3>7, <4>1, <4>2, <4>3, <4>4, <4>5 DEF Linking, Cancels
      <3>9. NoOverflow'
        BY <1>1, <2>2 DEF NoOverflow
      <3>10. head' \in Ptr /\ tail' \in Ptr
        BY <1>1, <3>1 DEF TypeOK, Ptr
      <3> QED BY <1>3, <2>2, <3>1, <3>4, <3>6, <3>8, <3>9, <3>10 DEF Failed
    <2> QED BY <1>2, <2>1, <2>2
  <1>12. Submitted' = Submitted /\ Done' = Done /\ Split' = Split
    BY <1>1 DEF Submitted, Done, Split
  <1>13. /\ owner'[t] = "queue" /\ nbytes'[t] = 1 /\ pos'[t] = p
         /\ \A x \in Tiocbs \ {t} : owner'[x] = owner[x] /\ nbytes'[x] = nbytes[x] /\ pos'[x] = pos[x]
    BY <1>1 DEF TypeOK
  <1>14. TypeOK'
    <2>1. 1 \in 1 .. Cardinality(Tiocbs) /\ p \in Nat
      <3>1. Cardinality(Tiocbs) \in Nat /\ Cardinality(Tiocbs) # 0
        BY <1>3, FS_CardinalityType, FS_EmptySet
      <3> QED BY <1>3, <3>1
    <2>2. /\ pos' \in [Tiocbs -> Nat] /\ nbytes' \in [Tiocbs -> 1 .. Cardinality(Tiocbs)]
          /\ owner' \in [Tiocbs -> {"driver", "queue"}]
      BY <1>1, <2>1 DEF TypeOK
    <2> QED BY <1>1, <1>11, <2>2 DEF TypeOK
  <1>15. Apart'
    BY <1>1, <1>4, <1>11, <1>12, <1>13 DEF Apart
  <1>16. Grouping'
    BY <1>1 DEF Grouping, Disjoint
  <1>17. Results'
    <2>1. /\ t \notin Submitted /\ t \notin Done /\ t \notin Split
          /\ Submitted \subseteq Tiocbs /\ Done \subseteq Tiocbs /\ Split \subseteq Tiocbs
      BY <1>1, <1>4, InGroups
    <2>2. \A x \in Submitted \cup Done \cup Split : nbytes'[x] = nbytes[x] /\ pos'[x] = pos[x]
      BY <1>13, <2>1
    <2>3. ASSUME NEW g \in flying
          PROVE  /\ nbytes'[g[1]] = Len(g)
                 /\ \A j \in DOMAIN g : pos'[g[j]] = pos'[g[1]] + j - 1 /\ g[j] \notin full
      <3>1. 1 \in DOMAIN g /\ \A j \in DOMAIN g : g[j] \in Submitted
        BY <1>1, InGroups
      <3>2. /\ nbytes[g[1]] = Len(g)
            /\ \A j \in DOMAIN g : pos[g[j]] = pos[g[1]] + j - 1 /\ g[j] \notin full
        BY <1>1 DEF Results
      <3>3. nbytes'[g[1]] = nbytes[g[1]] /\ \A j \in DOMAIN g : pos'[g[j]] = pos[g[j]]
        BY <2>2, <3>1
      <3> QED BY <3>1, <3>2, <3>3
    <2>4. \A i \in DOMAIN landed : nbytes'[landed[i].group[1]] = nbytes[landed[i].group[1]]
      BY <1>1, <2>2, InGroups
    <2>5. \A i \in DOMAIN events : \A x \in Range(events[i].group) : nbytes'[x] = nbytes[x]
      BY <1>1, <2>2, InGroups
    <2> QED BY <1>1, <1>11, <1>12, <2>3, <2>4, <2>5 DEF Results, CallbackRuns
  <1>18. Places'
    BY <1>1 DEF Places, Cancels
  <1>19. CountersExact'
    BY <1>1 DEF CountersExact
  <1> QED BY <1>11, <1>14, <1>15, <1>16, <1>17, <1>18, <1>19 DEF IInv

LEMMA Lands ==
    ASSUME IInv, NEW group, NEW res, lands(group, res)
    PROVE  IInv'
  <1> DEFINE R == Range(group)
             e == [group |-> group, res |-> res]
  <1>1. /\ TypeOK /\ Linking /\ Apart /\ Grouping /\ Results /\ Places
        /\ CountersExact /\ NoOverflow
        /\ group \in flying /\ res \in Int
        /\ flying' = flying \ {group} /\ landed' = Append(landed, e)
        /\ next' = next /\ iocbs' = iocbs /\ head' = head /\ tail' = tail
        /\ pos' = pos /\ nbytes' = nbytes /\ owner' = owner
        /\ iocbs_pending' = iocbs_pending /\ tiocbs_pending' = tiocbs_pending
        /\ events' = events /\ pc' = pc /\ cur' = cur /\ err' = err /\ cancelled' = cancelled
    BY DEF IInv, lands, lists, loop
  <1>2. /\ group \in Seq(Tiocbs) /\ Group(group) /\ Len(group) \in Nat \ {0}
        /\ DOMAIN group = 1 .. Len(group) /\ R \subseteq Submitted /\ R \subseteq Tiocbs
    BY <1>1, InGroups DEF Grouping
  <1>3. /\ nbytes[group[1]] = Len(group)
        /\ \A j \in DOMAIN group : pos[group[j]] = pos[group[1]] + j - 1 /\ group[j] \notin full
    BY <1>1 DEF Results
  <1>4. full' = full \cup (IF res = Len(group) THEN R ELSE {})
    <2>1. full' = full \cup {group[i] : i \in {j \in 1 .. Len(group) :
                            res = nbytes[group[1]] /\ pos[group[j]] = pos[group[1]] + j - 1}}
      BY DEF lands
    <2>2. {j \in 1 .. Len(group) : res = nbytes[group[1]] /\ pos[group[j]] = pos[group[1]] + j - 1}
          = IF res = Len(group) THEN DOMAIN group ELSE {}
      BY <1>2, <1>3
    <2> QED BY <2>1, <2>2 DEF Range
  <1>5. Deferred' = Deferred /\ Cancelling' = Cancelling
    BY <1>1 DEF Deferred, Cancelling, Chain
  <1>6. /\ landed \in Seq([group : Seq(Tiocbs), res : Int]) /\ e \in [group : Seq(Tiocbs), res : Int]
        /\ landed' \in Seq([group : Seq(Tiocbs), res : Int]) /\ Len(landed) \in Nat
        /\ Len(landed') = Len(landed) + 1 /\ DOMAIN landed = 1 .. Len(landed)
        /\ DOMAIN landed' = 1 .. Len(landed) + 1
        /\ landed'[Len(landed) + 1].group = group /\ landed'[Len(landed) + 1].res = res
        /\ \A i \in DOMAIN landed : landed'[i] = landed[i]
    <2>1. landed \in Seq([group : Seq(Tiocbs), res : Int]) /\ e \in [group : Seq(Tiocbs), res : Int]
      BY <1>1, <1>2 DEF TypeOK
    <2>2. e.group = group /\ e.res = res
      OBVIOUS
    <2> HIDE DEF e
    <2> QED BY <1>1, <2>1, <2>2
  <1> HIDE DEF e
  <1>7. \A i \in DOMAIN landed' : i \in DOMAIN landed \/ i = Len(landed) + 1
    BY <1>6
  <1>8. Submitted' = Submitted \ R
    BY <1>1 DEF Submitted, Grouped, Grouping
  <1>9. Done' = Done \cup R
    <2>1. \A x : x \in Done' <=> \E i \in DOMAIN landed' : x \in Range(landed'[i].group)
      BY DEF Done, Members
    <2>2. \A x : x \in Done <=> \E i \in DOMAIN landed : x \in Range(landed[i].group)
      BY DEF Done, Members
    <2>3. DOMAIN landed \subseteq DOMAIN landed' /\ Len(landed) + 1 \in DOMAIN landed'
      BY <1>6
    <2> QED BY <1>6, <1>7, <2>1, <2>2, <2>3
  <1>10. Queued' = Queued /\ Delayed' = Delayed /\ Failed' = Failed /\ Split' = Split
    BY <1>1, <1>5 DEF Queued, Delayed, Failed, Split
  <1>11. TypeOK'
    <2>1. flying' \subseteq Seq(Tiocbs) /\ full' \subseteq Tiocbs
      BY <1>1, <1>2, <1>4 DEF TypeOK
    <2> QED BY <1>1, <1>6, <2>1 DEF TypeOK
  <1>12. Linking'
    BY <1>1, <1>5 DEF Linking, Cancels
  <1>13. Apart'
    BY <1>1, <1>2, <1>8, <1>9, <1>10 DEF Apart
  <1>14. R \cap Done = {} /\ R \cap Split = {} /\ R \cap Failed = {}
    BY <1>1, <1>2 DEF Apart
  <1>15. Grouping'
    <2>1. /\ IsFiniteSet(flying') /\ \A g \in flying' : Group(g)
          /\ \A g, h \in flying' : g # h => Range(g) \cap Range(h) = {}
      BY <1>1, FS_RemoveElement DEF Grouping
    <2>2. \A i \in DOMAIN landed' : Group(landed'[i].group)
      BY <1>1, <1>2, <1>6, <1>7 DEF Grouping
    <2>3. \A i \in DOMAIN landed : Range(landed[i].group) \subseteq Done
      BY <1>1, InGroups
    <2>4. Disjoint(landed')
      <3> SUFFICES ASSUME NEW i \in DOMAIN landed', NEW j \in DOMAIN landed', i # j
                   PROVE  Range(landed'[i].group) \cap Range(landed'[j].group) = {}
        BY DEF Disjoint
      <3>1. CASE i \in DOMAIN landed /\ j \in DOMAIN landed
        BY <1>1, <1>6, <3>1 DEF Grouping, Disjoint
      <3>2. CASE i \in DOMAIN landed /\ j = Len(landed) + 1
        BY <1>6, <1>14, <2>3, <3>2
      <3>3. CASE i = Len(landed) + 1 /\ j \in DOMAIN landed
        BY <1>6, <1>14, <2>3, <3>3
      <3> QED BY <1>7, <3>1, <3>2, <3>3
    <2> QED BY <1>1, <2>1, <2>2, <2>4 DEF Grouping, Disjoint
  <1>16. Results'
    <2>1. \A g \in flying' :
            /\ nbytes'[g[1]] = Len(g)
            /\ \A j \in DOMAIN g : pos'[g[j]] = pos'[g[1]] + j - 1 /\ g[j] \notin full'
      <3> TAKE g \in flying'
      <3>1. g \in flying /\ g # group /\ Range(g) \cap R = {}
        BY <1>1 DEF Grouping
      <3>2. \A j \in DOMAIN g : g[j] \notin R
        BY <3>1 DEF Range
      <3> QED BY <1>1, <1>4, <3>1, <3>2 DEF Results
    <2>2. ASSUME NEW i \in DOMAIN landed'
          PROVE  /\ nbytes'[landed'[i].group[1]] = Len(landed'[i].group)
                 /\ \A t \in Range(landed'[i].group) : t \in full' <=> landed'[i].res = Len(landed'[i].group)
      <3>1. CASE i \in DOMAIN landed
        <4>1. Range(landed[i].group) \cap R = {}
          BY <1>1, <1>14, <3>1, InGroups
        <4> QED BY <1>1, <1>4, <1>6, <3>1, <4>1 DEF Results
      <3>2. CASE i = Len(landed) + 1
        <4>1. \A t \in R : t \notin full
          BY <1>3 DEF Range
        <4> QED BY <1>1, <1>3, <1>4, <1>6, <3>2, <4>1
      <3> QED BY <1>7, <3>1, <3>2
    <2>3. \A i \in DOMAIN events' : \A t \in Range(events'[i].group) :
            nbytes'[t] = 1 /\ (t \in full' <=> events'[i].res = 1)
      <3>1. \A i \in DOMAIN events : Range(events[i].group) \cap R = {}
        BY <1>1, <1>14, InGroups
      <3> QED BY <1>1, <1>4, <3>1 DEF Results
    <2>4. \A t \in Failed' : t \notin full'
      BY <1>1, <1>4, <1>10, <1>14 DEF Results
    <2>5. CallbackRuns' => cur' \in Tiocbs \ Submitted' /\ (err' = 0 <=> cur' \in full')
      BY <1>1, <1>2, <1>4, <1>8 DEF Results, CallbackRuns
    <2>6. pc' = "cancel_cb" => err' = 1
      BY <1>1 DEF Results
    <2> QED BY <2>1, <2>2, <2>3, <2>4, <2>5, <2>6 DEF Results
  <1>17. Places'
    BY <1>1 DEF Places, Cancels
  <1>18. CountersExact'
    <2>1. /\ IsFiniteSet(Submitted) /\ IsFiniteSet(Done) /\ Submitted = Grouped(flying)
          /\ Cardinality(Done) = Cardinality(split(landed))
      BY <1>1, Counted
    <2>2. IsFiniteSet(R) /\ IsFiniteSet(Submitted \ R)
      BY <1>2, <2>1, FS_Subset
    <2>3. /\ Cardinality(Submitted) = Cardinality(Submitted \ R) + Cardinality(R)
          /\ Cardinality(R) \in Nat /\ Cardinality(Submitted \ R) \in Nat
      <3>1. (Submitted \ R) \cup R = Submitted /\ (Submitted \ R) \cap R = {}
        BY <1>2
      <3> QED BY <2>2, <3>1, DisjointUnion
    <2>4. Cardinality(Done \cup R) = Cardinality(Done) + Cardinality(R) /\ Cardinality(Done) \in Nat
      <3>1. Done \cap R = {}
        BY <1>14
      <3> QED BY <2>1, <2>2, <3>1, DisjointUnion
    <2>5. Cardinality(split(landed')) = Cardinality(Done')
      <3>1. Disjoint(landed') /\ \A i \in DOMAIN landed' : Group(landed'[i].group)
        BY <1>15 DEF Grouping, Disjoint
      <3> QED BY <1>6, <3>1, CountedEvents DEF Done
    <2>6. Cardinality(Grouped(flying')) = Cardinality(Submitted \ R)
      BY <1>8 DEF Submitted
    <2>7. Cardinality(flying') = Cardinality(flying) - 1 /\ Cardinality(flying) \in Nat
      BY <1>1, FS_RemoveElement, FS_CardinalityType DEF Grouping
    <2>8. tiocbs_pending' = Cardinality(Grouped(flying')) + Cardinality(split(landed')) + cancelled'
      <3>1. cancelled \in Nat
        BY <1>1 DEF TypeOK
      <3> QED BY <1>1, <1>9, <2>1, <2>3, <2>4, <2>5, <2>6, <3>1 DEF CountersExact
    <2>9. iocbs_pending' = Cardinality(flying') + Len(landed')
      BY <1>1, <1>6, <2>7 DEF CountersExact
    <2> QED BY <2>8, <2>9 DEF CountersExact
  <1>19. NoOverflow'
    BY <1>1 DEF NoOverflow
  <1> QED BY <1>11, <1>12, <1>13, <1>15, <1>16, <1>17, <1>18, <1>19 DEF IInv

LEMMA LioEvent ==
    ASSUME IInv, lio_event
    PROVE  IInv'
  <1>1. /\ TypeOK /\ Linking /\ Apart /\ Grouping /\ Results /\ Places
        /\ CountersExact /\ NoOverflow
        /\ pc = "idle" /\ pc' = "event" /\ landed' = <<>>
        /\ events' = [i \in DOMAIN landed |-> expand_event(landed[i])]
        /\ nbytes' = [t \in Tiocbs |-> IF t \in Done THEN 1 ELSE nbytes[t]]
        /\ iocbs_pending' = iocbs_pending - Len(landed)
        /\ tiocbs_pending' = tiocbs_pending - Cardinality(split(landed))
        /\ next' = next /\ iocbs' = iocbs /\ head' = head /\ tail' = tail
        /\ pos' = pos /\ owner' = owner /\ flying' = flying /\ full' = full
        /\ cur' = cur /\ err' = err /\ cancelled' = cancelled
    BY DEF IInv, lio_event, lists, restore_iocbs, Done
  <1>2. /\ landed \in Seq([group : Seq(Tiocbs), res : Int]) /\ Len(landed) \in Nat
        /\ DOMAIN landed = 1 .. Len(landed)
        /\ \A i \in DOMAIN landed : landed[i].group \in Seq(Tiocbs)
    <2>1. landed \in Seq([group : Seq(Tiocbs), res : Int])
      BY <1>1 DEF TypeOK
    <2> QED BY <1>1, <2>1, InGroups
  <1>3. /\ events' \in Seq([group : Seq(Tiocbs), res : Int])
        /\ DOMAIN events' = DOMAIN landed
        /\ \A i \in DOMAIN landed :
            /\ events'[i].group = landed[i].group
            /\ events'[i].res = IF landed[i].res = nbytes[landed[i].group[1]] THEN 1 ELSE -1
    <2>1. \A i \in DOMAIN landed : expand_event(landed[i]) \in [group : Seq(Tiocbs), res : Int]
      BY <1>2 DEF expand_event
    <2>2. events' \in Seq([group : Seq(Tiocbs), res : Int])
      BY <1>1, <1>2, <2>1
    <2> QED BY <1>1, <2>2 DEF expand_event
  <1>4. Deferred' = Deferred /\ Cancelling' = Cancelling /\ ~Cancels /\ ~Cancels'
    BY <1>1 DEF Deferred, Cancelling, Chain, Cancels
  <1>5. Done' = {} /\ Split' = Done /\ Split = {}
    BY <1>1, <1>3 DEF Done, Split, Members, Places
  <1>6. Queued' = Queued /\ Delayed' = Delayed /\ Failed' = Failed /\ Submitted' = Submitted
    BY <1>1, <1>4 DEF Queued, Delayed, Failed, Submitted
  <1>7. /\ Cardinality(Grouped(flying)) \in Nat /\ IsFiniteSet(Done) /\ Done = Members(landed)
        /\ Cardinality(split(landed)) \in Nat /\ Cardinality(Done) = Cardinality(split(landed))
        /\ Cardinality(flying) \in Nat /\ cancelled = 0
    BY <1>1, <1>4, Counted, FS_CardinalityType DEF Grouping, Places
  <1>8. TypeOK'
    <2>1. nbytes' \in [Tiocbs -> 1 .. Cardinality(Tiocbs)]
      <3>1. \A t \in Tiocbs : nbytes[t] \in 1 .. Cardinality(Tiocbs)
        BY <1>1 DEF TypeOK
      <3>2. \A t \in Tiocbs : 1 \in 1 .. Cardinality(Tiocbs)
        <4>1. Cardinality(Tiocbs) \in Nat
          BY TdQueueAssumption, FS_CardinalityType DEF TdQueueAssumption
        <4> QED BY <3>1, <4>1
      <3> QED BY <1>1, <3>1, <3>2
    <2>2. iocbs_pending' \in Nat /\ tiocbs_pending' \in Nat
      BY <1>1, <1>2, <1>7 DEF CountersExact
    <2>3. landed' \in Seq([group : Seq(Tiocbs), res : Int])
      BY <1>1
    <2> QED BY <1>1, <1>3, <2>1, <2>2, <2>3 DEF TypeOK
  <1>9. Linking'
    BY <1>1, <1>4 DEF Linking
  <1>10. Apart'
    BY <1>1, <1>5, <1>6 DEF Apart
  <1>11. Grouping'
    <2>1. \A i \in DOMAIN events' : Group(events'[i].group)
      BY <1>1, <1>3 DEF Grouping
    <2>2. Disjoint(events')
      BY <1>1, <1>3, ZenonT(40) DEF Grouping, Disjoint
    <2>3. Disjoint(landed') /\ DOMAIN landed' = {}
      BY <1>1 DEF Disjoint
    <2> QED BY <1>1, <2>1, <2>2, <2>3 DEF Grouping, Disjoint
  <1>12. Results'
    <2>1. \A x \in Submitted : nbytes'[x] = nbytes[x]
      BY <1>1, InGroups DEF Apart
    <2>2. ASSUME NEW g \in flying'
          PROVE  /\ nbytes'[g[1]] = Len(g)
                 /\ \A j \in DOMAIN g : pos'[g[j]] = pos'[g[1]] + j - 1 /\ g[j] \notin full'
      <3>1. g \in flying /\ 1 \in DOMAIN g /\ \A j \in DOMAIN g : g[j] \in Submitted
        BY <1>1, InGroups
      <3> QED BY <1>1, <2>1, <3>1, ZenonT(40) DEF Results
    <2>3. ASSUME NEW i \in DOMAIN events', NEW t \in Range(events'[i].group)
          PROVE  nbytes'[t] = 1 /\ (t \in full' <=> events'[i].res = 1)
      <3>1. t \in Range(landed[i].group) /\ i \in DOMAIN landed
        BY <1>3
      <3>2. t \in Done /\ t \in Tiocbs
        BY <1>1, <3>1, InGroups
      <3>3. nbytes[landed[i].group[1]] = Len(landed[i].group)
            /\ (t \in full <=> landed[i].res = Len(landed[i].group))
        BY <1>1, <3>1 DEF Results
      <3> QED BY <1>1, <1>3, <3>1, <3>2, <3>3
    <2>4. DOMAIN landed' = {}
      BY <1>1
    <2>5. \A t \in Failed' : t \notin full'
      BY <1>1, <1>6 DEF Results
    <2>6. ~CallbackRuns' /\ pc' # "cancel_cb"
      BY <1>1 DEF CallbackRuns
    <2> QED BY <2>2, <2>3, <2>4, <2>5, <2>6 DEF Results
  <1>13. Places'
    BY <1>1, <1>7 DEF Places
  <1>14. CountersExact'
    <2>1. Cardinality(split(landed')) = 0 /\ Len(landed') = 0
      <3>1. split(<<>>) = {}
        BY DEF split
      <3> QED BY <1>1, <3>1, FS_EmptySet
    <2>2. Grouped(flying') = Grouped(flying) /\ Cardinality(flying') = Cardinality(flying)
      BY <1>1
    <2> QED BY <1>1, <1>2, <1>7, <2>1, <2>2 DEF CountersExact
  <1>15. NoOverflow'
    <2>1. tiocbs_pending \in Nat /\ Len(iocbs) \in Nat /\ Size \in Nat
      BY <1>1, TdQueueAssumption DEF TypeOK, TdQueueAssumption
    <2>2. tiocbs_pending' + Len(iocbs') <= Size
      BY <1>1, <1>7, <2>1 DEF NoOverflow
    <2>3. Cardinality(Members(events')) <= Size
      <3>1. Members(events') = Done
        BY <1>5 DEF Split
      <3>2. Cardinality(Done) <= tiocbs_pending
        BY <1>1, <1>7 DEF CountersExact
      <3> QED BY <1>1, <1>7, <2>1, <3>1, <3>2 DEF NoOverflow
    <2> QED BY <2>2, <2>3 DEF NoOverflow
  <1> QED BY <1>8, <1>9, <1>10, <1>11, <1>12, <1>13, <1>14, <1>15 DEF IInv

(* All that the queue has, except what it cancels, are different tiocbs.   *)
LEMMA AllFit ==
    ASSUME IInv
    PROVE  /\ Len(iocbs) + Len(Deferred) + Cardinality(Submitted) + Cardinality(Done) <= Cardinality(Tiocbs)
           /\ Len(iocbs) \in Nat /\ Len(Deferred) \in Nat /\ Cardinality(Submitted) \in Nat
           /\ Cardinality(Done) \in Nat /\ Cardinality(Tiocbs) \in Nat
  <1>1. TypeOK /\ Linking /\ Apart /\ Grouping
    BY DEF IInv
  <1>2. iocbs \in Seq(Tiocbs) /\ One(iocbs) /\ Deferred \in Seq(Tiocbs) /\ One(Deferred)
    BY <1>1 DEF TypeOK, Linking, Walk
  <1>3. /\ IsFiniteSet(Queued) /\ Cardinality(Queued) = Len(iocbs)
        /\ IsFiniteSet(Delayed) /\ Cardinality(Delayed) = Len(Deferred)
    BY <1>2, OneCounts DEF Queued, Delayed
  <1>4. IsFiniteSet(Submitted) /\ IsFiniteSet(Done)
    BY <1>1, Counted
  <1>5. /\ Queued \cap Delayed = {} /\ (Queued \cup Delayed) \cap Submitted = {}
        /\ ((Queued \cup Delayed) \cup Submitted) \cap Done = {}
    BY <1>1 DEF Apart
  <1>6. /\ IsFiniteSet(Queued \cup Delayed)
        /\ Cardinality(Queued \cup Delayed) = Len(iocbs) + Len(Deferred)
    BY <1>3, <1>5, DisjointUnion, ZenonT(40)
  <1>7. /\ IsFiniteSet((Queued \cup Delayed) \cup Submitted)
        /\ Cardinality((Queued \cup Delayed) \cup Submitted) = Len(iocbs) + Len(Deferred) + Cardinality(Submitted)
    BY <1>4, <1>5, <1>6, DisjointUnion
  <1>8. Cardinality(((Queued \cup Delayed) \cup Submitted) \cup Done)
            = Len(iocbs) + Len(Deferred) + Cardinality(Submitted) + Cardinality(Done)
    BY <1>4, <1>5, <1>7, DisjointUnion
  <1>9. ((Queued \cup Delayed) \cup Submitted) \cup Done \in SUBSET Tiocbs
    BY <1>1, <1>2, InGroups DEF Queued, Delayed, Range
  <1>10. IsFiniteSet(Tiocbs)
    BY TdQueueAssumption DEF TdQueueAssumption
  <1>11. Cardinality(((Queued \cup Delayed) \cup Submitted) \cup Done) <= Cardinality(Tiocbs)
    BY <1>9, <1>10, FS_Subset
  <1>12. /\ Len(iocbs) \in Nat /\ Len(Deferred) \in Nat /\ Cardinality(Submitted) \in Nat
         /\ Cardinality(Done) \in Nat /\ Cardinality(Tiocbs) \in Nat
    BY <1>2, <1>4, <1>10, FS_CardinalityType
  <1> QED BY <1>8, <1>11, <1>12

LEMMA LioEventEnds ==
    ASSUME IInv, SafeToFail, lio_event_ends
    PROVE  IInv'
  <1> DEFINE moved == queue_deferred_tiocbs
  <1>1. /\ TypeOK /\ Linking /\ Apart /\ Grouping /\ Results /\ Places
        /\ CountersExact /\ NoOverflow
        /\ pc = "event" /\ events = <<>> /\ pc' = "idle"
        /\ pos' = pos /\ nbytes' = nbytes /\ owner' = owner
        /\ iocbs_pending' = iocbs_pending /\ tiocbs_pending' = tiocbs_pending
        /\ flying' = flying /\ landed' = landed /\ full' = full
        /\ events' = events /\ cur' = cur /\ err' = err /\ cancelled' = cancelled
        /\ ~Cancels /\ ~Cancels' /\ Cancelling = <<>> /\ Cancelling' = <<>>
    BY DEF IInv, lio_event_ends, kernel, Cancels, Cancelling
  <1>2. \/ moved = <<>> /\ next' = next /\ iocbs' = iocbs /\ head' = head /\ tail' = tail
        \/ /\ moved # <<>>
           /\ next' = Linked(next, moved[1])
           /\ iocbs' = iocbs \o moved
           /\ head' = next[Last(moved)]
           /\ tail' = IF head' = NULL THEN NULL ELSE tail
    BY DEF lio_event_ends, lists
  <1> DEFINE room == Size - (tiocbs_pending + Len(iocbs))
             n    == IF room <= 0 THEN 0 ELSE IF room < Len(Deferred) THEN room ELSE Len(Deferred)
             rest == SubSeq(Deferred, n + 1, Len(Deferred))
  <1>3. moved = SubSeq(Deferred, 1, n)
    BY DEF queue_deferred_tiocbs, Deferred
  <1>4. /\ Deferred \in Seq(Tiocbs) /\ One(Deferred) /\ Walk(next, head, Deferred)
        /\ iocbs \in Seq(Tiocbs) /\ One(iocbs) /\ next \in [Tiocbs -> Ptr] /\ NULL \notin Tiocbs
        /\ Len(Deferred) \in Nat /\ Len(iocbs) \in Nat /\ tiocbs_pending \in Nat /\ Size \in Nat
        /\ Size >= tiocbs_pending + Len(iocbs)
    BY <1>1, TdQueueAssumption DEF TypeOK, Linking, Walk, TdQueueAssumption, NoOverflow
  <1>5. n \in 0 .. Len(Deferred) /\ n <= room /\ room \in Nat
    BY <1>4
  <1>6. MayFail => n = Len(Deferred)
    <2> SUFFICES ASSUME MayFail PROVE n = Len(Deferred)
      OBVIOUS
    <2>1. Cardinality(Tiocbs) <= Size
      BY DEF SafeToFail
    <2>2. tiocbs_pending = Cardinality(Submitted) + Cardinality(Done)
      <3>1. /\ Submitted = Grouped(flying) /\ Cardinality(Done) = Cardinality(split(landed))
            /\ Cardinality(Submitted) \in Nat /\ Cardinality(Done) \in Nat /\ cancelled = 0
        BY <1>1, Counted DEF Places
      <3> QED BY <1>1, <3>1 DEF CountersExact
    <2>3. Len(Deferred) <= room
      BY <1>4, <2>1, <2>2, AllFit, SMTT(30)
    <2> QED BY <1>4, <1>5, <2>3
  <1> HIDE DEF n, moved
  <1>7. /\ moved \in Seq(Tiocbs) /\ One(moved) /\ Len(moved) = n /\ \A i \in 1 .. n : moved[i] = Deferred[i]
        /\ rest \in Seq(Tiocbs) /\ One(rest) /\ Len(rest) = Len(Deferred) - n
        /\ \A i \in 1 .. Len(Deferred) - n : rest[i] = Deferred[i + n]
        /\ Range(moved) \cup Range(rest) = Delayed /\ Range(moved) \cap Range(rest) = {}
    BY <1>3, <1>4, <1>5, OneCut DEF Delayed
  <1> HIDE DEF rest
  <1>8. /\ Walk(next', head', Deferred') /\ Deferred' = rest
        /\ next' \in [Tiocbs -> Ptr] /\ head' \in Ptr /\ tail' \in Ptr
        /\ (rest # <<>> => tail' = rest[Len(rest)])
        /\ iocbs' = iocbs \o moved
        /\ (MayFail => Walk(next', IF iocbs' = <<>> THEN NULL ELSE iocbs'[1], iocbs'))
    <2>1. CASE moved = <<>> /\ next' = next /\ iocbs' = iocbs /\ head' = head /\ tail' = tail
      <3>1. n = 0
        BY <1>7, <2>1
      <3>2. rest = Deferred
        BY <1>4, <3>1, SubSeqFull DEF rest
      <3>3. Deferred' = Deferred
        BY <2>1 DEF Deferred, Chain
      <3>4. iocbs' = iocbs \o moved
        BY <1>4, <2>1, ConcatEmptySeq
      <3>5. MayFail => Walk(next', IF iocbs' = <<>> THEN NULL ELSE iocbs'[1], iocbs')
        BY <1>1, <2>1 DEF Linking
      <3> QED BY <1>1, <1>4, <2>1, <3>2, <3>3, <3>4, <3>5 DEF Linking, TypeOK
    <2>2. CASE /\ moved # <<>>
               /\ next' = Linked(next, moved[1])
               /\ iocbs' = iocbs \o moved
               /\ head' = next[Last(moved)]
               /\ tail' = IF head' = NULL THEN NULL ELSE tail
      <3>1. /\ n \in DOMAIN Deferred /\ moved[1] = Deferred[1] /\ Last(moved) = Deferred[n]
            /\ Deferred # <<>> /\ head = Deferred[1] /\ head \in Tiocbs
        <4>1. n # 0 /\ 1 \in 1 .. n /\ n \in 1 .. n
          BY <1>5, <1>7, <2>2
        <4>2. n \in DOMAIN Deferred /\ 1 \in DOMAIN Deferred /\ Deferred # <<>>
          BY <1>4, <1>5, <4>1
        <4> QED BY <1>4, <1>7, <4>1, <4>2 DEF Last, Walk
      <3>2. /\ next' \in [Tiocbs -> Ptr]
            /\ \A x \in Tiocbs : next'[x] = IF iocbs # <<>> /\ x = iocbs[Len(iocbs)] THEN head ELSE next[x]
        BY <1>4, <2>2, <3>1 DEF Linked, Last, Ptr
      <3>3. Walk(next, head', rest)
        BY <1>4, <2>2, <3>1, WalkRest DEF rest
      <3>4. iocbs # <<>> => iocbs[Len(iocbs)] \in Queued
        BY <1>4 DEF Queued, Range
      <3>5. \A x \in Delayed : x \in Tiocbs /\ next'[x] = next[x]
        BY <1>1, <1>4, <3>2, <3>4 DEF Apart, Delayed, Range
      <3>6. Walk(next', head', rest)
        BY <1>7, <3>3, <3>5, WalkFrame
      <3>7. Deferred' = rest
        BY <3>6, ChainIs DEF Deferred, Chain
      <3>8. rest # <<>> => tail' = rest[Len(rest)]
        <4> SUFFICES ASSUME rest # <<>> PROVE tail' = rest[Len(rest)]
          OBVIOUS
        <4>1. Len(rest) \in 1 .. Len(Deferred) - n /\ Len(rest) + n = Len(Deferred) /\ 1 \in 1 .. Len(Deferred) - n
          BY <1>4, <1>5, <1>7
        <4>2. head' = rest[1] /\ rest[1] \in Tiocbs
          BY <1>7, <3>3, <4>1 DEF Walk
        <4>3. tail = Deferred[Len(Deferred)]
          BY <1>1, <3>1 DEF Linking
        <4> QED BY <1>4, <1>7, <2>2, <4>1, <4>2, <4>3
      <3>9. MayFail => Walk(next', IF iocbs' = <<>> THEN NULL ELSE iocbs'[1], iocbs')
        <4> SUFFICES ASSUME MayFail PROVE Walk(next', IF iocbs' = <<>> THEN NULL ELSE iocbs'[1], iocbs')
          OBVIOUS
        <4> DEFINE q == IF iocbs = <<>> THEN NULL ELSE iocbs[1]
        <4>1. moved = Deferred
          BY <1>3, <1>4, <1>6, SubSeqFull
        <4>2. Walk(next, q, iocbs)
          BY <1>1 DEF Linking
        <4>3. Range(iocbs) \cap Range(Deferred) = {} /\ Range(iocbs) \cup Range(Deferred) \subseteq Tiocbs
          BY <1>1, <1>4 DEF Apart, Queued, Delayed, Range
        <4>4. \A x \in Range(iocbs) \cup Range(Deferred) :
                next'[x] = IF iocbs # <<>> /\ x = iocbs[Len(iocbs)] THEN head ELSE next[x]
          BY <3>2, <4>3
        <4> HIDE DEF q
        <4>5. Walk(next', IF iocbs = <<>> THEN head ELSE q, iocbs \o Deferred)
          BY <1>4, <3>1, <4>2, <4>3, <4>4, WalkConcat
        <4>6. (IF iocbs = <<>> THEN head ELSE q) = IF iocbs' = <<>> THEN NULL ELSE iocbs'[1]
          <5>1. /\ iocbs' # <<>> /\ (iocbs = <<>> => iocbs'[1] = Deferred[1])
                /\ (iocbs # <<>> => iocbs'[1] = iocbs[1])
            BY <1>4, <2>2, <3>1, <4>1
          <5> QED BY <3>1, <5>1 DEF q
        <4> QED BY <2>2, <4>1, <4>5, <4>6
      <3>10. head' \in Ptr /\ tail' \in Ptr
        <4>1. Deferred[n] \in Tiocbs
          BY <1>4, <3>1
        <4> QED BY <1>1, <1>4, <2>2, <3>1, <4>1 DEF TypeOK, Ptr
      <3> QED BY <2>2, <3>2, <3>6, <3>7, <3>8, <3>9, <3>10
    <2> QED BY <1>2, <2>1, <2>2
  <1>9. Range(iocbs) \cap Range(moved) = {}
    BY <1>1, <1>7 DEF Apart, Queued
  <1>10. iocbs' \in Seq(Tiocbs) /\ One(iocbs') /\ Queued' = Queued \cup Range(moved) /\ Delayed' = Range(rest)
         /\ Len(iocbs') = Len(iocbs) + n
    <2>1. iocbs \o moved \in Seq(Tiocbs) /\ Len(iocbs \o moved) = Len(iocbs) + n
      <3>1. moved \in Seq(Tiocbs) /\ Len(moved) = n
        BY <1>7
      <3> QED BY <1>4, <3>1, ConcatProperties
    <2> QED BY <1>4, <1>7, <1>8, <1>9, <2>1, OneConcat DEF Queued, Delayed
  <1>11. /\ Failed' = {} /\ Failed = {} /\ Submitted' = Submitted /\ Done' = Done
         /\ Split' = {} /\ Split = {}
    BY <1>1 DEF Failed, Submitted, Done, Split, Members, Range
  <1>12. TypeOK'
    BY <1>1, <1>8, <1>10 DEF TypeOK
  <1>13. Linking'
    BY <1>1, <1>8, <1>10 DEF Linking, Cancels
  <1>14. Apart'
    BY <1>1, <1>7, <1>10, <1>11 DEF Apart
  <1>15. Grouping'
    BY <1>1 DEF Grouping, Disjoint
  <1>16. Results'
    BY <1>1, <1>11 DEF Results, CallbackRuns
  <1>17. Places'
    BY <1>1 DEF Places
  <1>18. CountersExact'
    BY <1>1 DEF CountersExact
  <1>19. NoOverflow'
    BY <1>1, <1>4, <1>5, <1>10 DEF NoOverflow
  <1> QED BY <1>12, <1>13, <1>14, <1>15, <1>16, <1>17, <1>18, <1>19 DEF IInv

LEMMA CompleteTiocb ==
    ASSUME IInv, complete_tiocb
    PROVE  IInv'
  <1> DEFINE e == events[1]
             g == events[1].group
  <1>1. /\ TypeOK /\ Linking /\ Apart /\ Grouping /\ Results /\ Places
        /\ CountersExact /\ NoOverflow
        /\ pc = "event" /\ events # <<>> /\ pc' = "event_cb"
        /\ next' = next /\ iocbs' = iocbs /\ head' = head /\ tail' = tail
        /\ pos' = pos /\ nbytes' = nbytes
        /\ iocbs_pending' = iocbs_pending /\ tiocbs_pending' = tiocbs_pending
        /\ flying' = flying /\ landed' = landed /\ full' = full /\ cancelled' = cancelled
        /\ ~Cancels /\ ~Cancels' /\ Cancelling = <<>> /\ Cancelling' = <<>>
    BY DEF IInv, complete_tiocb, lists, kernel, Cancels, Cancelling
  <1>2. /\ events \in Seq([group : Seq(Tiocbs), res : Int]) /\ Len(events) \in Nat \ {0}
        /\ DOMAIN events = 1 .. Len(events) /\ 1 \in DOMAIN events
        /\ g \in Seq(Tiocbs) /\ e.res \in Int /\ Len(g) \in Nat \ {0} /\ One(g)
        /\ e \in [group : Seq(Tiocbs), res : Int] /\ Head(events) = e
        /\ Range(g) \subseteq Split /\ e = events[1] /\ e.group = g
    <2>1. events \in Seq([group : Seq(Tiocbs), res : Int])
      BY <1>1 DEF TypeOK
    <2>2. Len(events) \in Nat \ {0} /\ DOMAIN events = 1 .. Len(events)
      BY <1>1, <2>1
    <2>3. 1 \in DOMAIN events /\ Head(events) = e
      BY <1>1, <2>1, <2>2
    <2>4. e \in [group : Seq(Tiocbs), res : Int]
      BY <2>1, <2>2, <2>3, ElementOfSeq
    <2> QED BY <1>1, <2>1, <2>2, <2>3, <2>4, InGroups DEF Grouping, Group
  <1>3. /\ cur' = g[1] /\ g[1] \in Tiocbs /\ g[1] \in Split /\ g[1] \in Range(g)
        /\ owner' = [owner EXCEPT ![g[1]] = "driver"]
        /\ err' = IF e.res = nbytes[g[1]] THEN 0 ELSE 1
        /\ events' = (IF Len(g) = 1 THEN <<>> ELSE <<[e EXCEPT !.group = Tail(@)]>>) \o Tail(events)
    <2>1. 1 \in DOMAIN g /\ Head(g) = g[1]
      BY <1>2
    <2> QED BY <1>2, <2>1 DEF complete_tiocb, Range
  <1> DEFINE r == [e EXCEPT !.group = Tail(@)]
             k == IF Len(g) = 1 THEN 1 ELSE 0
  <1> HIDE DEF g, e
  <1>k. k \in {0, 1} /\ (k = 0 <=> Len(g) # 1)
    OBVIOUS
  <1> HIDE DEF k
  <1>4. /\ Tail(g) \in Seq(Tiocbs) /\ One(Tail(g)) /\ Len(Tail(g)) = Len(g) - 1
        /\ Range(Tail(g)) = Range(g) \ {g[1]}
    <2>1. Tail(g) = SubSeq(g, 1 + 1, Len(g)) /\ 1 \in 0 .. Len(g)
      BY <1>2, TailIsSubSeq
    <2> DEFINE a == SubSeq(g, 1, 1)
               b == SubSeq(g, 1 + 1, Len(g))
    <2>2. /\ a \in Seq(Tiocbs) /\ Len(a) = 1 /\ \A i \in 1 .. 1 : a[i] = g[i]
          /\ b \in Seq(Tiocbs) /\ One(b) /\ Len(b) = Len(g) - 1
          /\ Range(a) \cup Range(b) = Range(g) /\ Range(a) \cap Range(b) = {}
      BY <1>2, <2>1, OneCut, ZenonT(40)
    <2> HIDE DEF b
    <2>3. Range(a) = {g[1]}
      <3> HIDE DEF a
      <3>1. DOMAIN a = {1} /\ a[1] = g[1]
        BY <2>2
      <3> QED BY <3>1 DEF Range
    <2>4. Tail(g) = b
      BY <2>1 DEF b
    <2> QED BY <2>2, <2>3, <2>4
  <1>5. /\ r \in [group : Seq(Tiocbs), res : Int] /\ r.group = Tail(g) /\ r.res = e.res
    BY <1>2, <1>4
  <1> HIDE DEF r
  <1>6. /\ events' \in Seq([group : Seq(Tiocbs), res : Int])
        /\ DOMAIN events' = 1 .. Len(events) - k
        /\ \A i \in 1 .. Len(events) - k : events'[i] = IF k = 0 /\ i = 1 THEN r ELSE events[i + k]
    <2>1. /\ Tail(events) \in Seq([group : Seq(Tiocbs), res : Int]) /\ Len(Tail(events)) = Len(events) - 1
          /\ \A i \in 1 .. Len(events) - 1 : Tail(events)[i] = events[i + 1]
      BY <1>1, <1>2
    <2>2. CASE Len(g) = 1
      <3>1. events' = Tail(events)
        BY <1>3, <2>1, <2>2, ConcatEmptySeq
      <3> QED BY <1>2, <1>k, <2>1, <2>2, <3>1
    <2>3. CASE Len(g) # 1
      <3>1. events' = <<r>> \o Tail(events)
        BY <1>3, <2>3 DEF r
      <3>2. /\ <<r>> \in Seq([group : Seq(Tiocbs), res : Int]) /\ Len(<<r>>) = 1 /\ <<r>>[1] = r
        BY <1>5
      <3>3. /\ events' \in Seq([group : Seq(Tiocbs), res : Int])
            /\ Len(events') = 1 + (Len(events) - 1)
            /\ \A i \in 1 .. 1 + (Len(events) - 1) :
                    events'[i] = IF i <= 1 THEN <<r>>[i] ELSE Tail(events)[i - 1]
        BY <2>1, <3>1, <3>2, ConcatProperties
      <3>4. DOMAIN events' = 1 .. Len(events)
        BY <1>2, <3>3
      <3>5. \A i \in 1 .. Len(events) : events'[i] = IF i = 1 THEN r ELSE events[i]
        <4> TAKE i \in 1 .. Len(events)
        <4>1. events'[i] = IF i <= 1 THEN <<r>>[i] ELSE Tail(events)[i - 1]
          <5>1. i \in 1 .. 1 + (Len(events) - 1)
            BY <1>2
          <5> QED BY <3>3, <5>1
        <4>2. i # 1 => i - 1 \in 1 .. Len(events) - 1 /\ i - 1 + 1 = i
          BY <1>2
        <4>3. i <= 1 <=> i = 1
          BY <1>2
        <4>4. i # 1 => Tail(events)[i - 1] = events[i]
          BY <2>1, <4>2
        <4>5. CASE i = 1
          BY <3>2, <4>1, <4>5
        <4>6. CASE i # 1
          BY <4>1, <4>3, <4>4, <4>6
        <4> QED BY <4>5, <4>6
      <3>6. k = 0 /\ Len(events) - k = Len(events) /\ \A i \in 1 .. Len(events) : i + k = i
        <4>1. k = 0
          BY <1>k, <2>3
        <4>2. Len(events) \in Nat
          BY <1>2
        <4> QED BY <4>1, <4>2
      <3> QED BY <3>3, <3>4, <3>5, <3>6
    <2> QED BY <2>2, <2>3
  <1>7. \A i \in DOMAIN events' : i + k \in DOMAIN events
    <2>1. DOMAIN events' = 1 .. Len(events) - k /\ DOMAIN events = 1 .. Len(events)
      BY <1>2, <1>6
    <2>2. \A i \in 1 .. Len(events) - k : i + k \in 1 .. Len(events)
      BY <1>2, <1>k
    <2> QED BY <2>1, <2>2
  \* what is left of each group
  <1>8. \A i \in DOMAIN events' :
            /\ Range(events'[i].group) \subseteq Range(events[i + k].group) \ {g[1]}
            /\ Group(events'[i].group) /\ events'[i].res = events[i + k].res
    <2> TAKE i \in DOMAIN events'
    <2>1. CASE k = 0 /\ i = 1
      <3>1. events'[i] = r /\ i + k = 1 /\ Len(g) # 1
        BY <1>6, <1>k, <2>1
      <3>2. Tail(g) # <<>>
        <4>1. Len(Tail(g)) # 0 /\ Len(<<>>) = 0
          BY <1>2, <1>4, <3>1
        <4> QED BY <4>1
      <3> QED BY <1>2, <1>4, <1>5, <3>1, <3>2 DEF Group
    <2>2. CASE ~(k = 0 /\ i = 1)
      <3>1. events'[i] = events[i + k] /\ i + k # 1 /\ i + k \in DOMAIN events
        BY <1>2, <1>6, <1>7, <1>k, <2>2
      <3>2. Range(events[i + k].group) \cap Range(g) = {}
        BY <1>1, <1>2, <3>1 DEF Grouping, Disjoint
      <3> QED BY <1>1, <1>3, <3>1, <3>2 DEF Grouping
    <2> QED BY <2>1, <2>2
  <1>9. Split' = Split \ {g[1]}
    <2>1. ASSUME NEW x \in Split' PROVE x \in Split \ {g[1]}
      <3>1. PICK i \in DOMAIN events' : x \in Range(events'[i].group)
        BY DEF Split, Members
      <3> QED BY <1>7, <1>8, <3>1 DEF Split, Members
    <2>2. ASSUME NEW x \in Split \ {g[1]} PROVE x \in Split'
      <3>1. PICK j \in DOMAIN events : x \in Range(events[j].group)
        BY DEF Split, Members
      <3>2. CASE j = 1
        <4>1. x \in Range(Tail(g))
          BY <1>2, <1>4, <2>2, <3>1, <3>2
        <4>2. Len(g) # 1
          BY <1>2, <1>4, <4>1 DEF Range
        <4>3. 1 \in DOMAIN events' /\ events'[1].group = Tail(g)
          BY <1>2, <1>5, <1>6, <1>k, <4>2, SMTT(30)
        <4> QED BY <4>1, <4>3 DEF Split, Members
      <3>3. CASE j # 1
        <4>1. j - k \in DOMAIN events' /\ j - k + k = j /\ ~(k = 0 /\ j - k = 1)
          <5>1. DOMAIN events' = 1 .. Len(events) - k /\ j \in 1 .. Len(events)
            BY <1>2, <1>6
          <5>2. j - k \in 1 .. Len(events) - k /\ j - k + k = j /\ ~(k = 0 /\ j - k = 1)
            BY <1>2, <1>k, <3>3, <5>1, SMTT(30)
          <5> QED BY <5>1, <5>2
        <4>2. events'[j - k] = events[j]
          BY <1>6, <4>1
        <4> QED BY <3>1, <4>1, <4>2 DEF Split, Members
      <3> QED BY <3>2, <3>3
    <2> QED BY <2>1, <2>2
  <1>10. Deferred' = Deferred
    BY <1>1 DEF Deferred, Chain
  <1>11. /\ Queued' = Queued /\ Delayed' = Delayed /\ Failed' = Failed
         /\ Submitted' = Submitted /\ Done' = Done
    BY <1>1, <1>10 DEF Queued, Delayed, Failed, Submitted, Done
  <1>12. owner'[g[1]] = "driver" /\ \A t \in Tiocbs \ {g[1]} : owner'[t] = owner[t]
    BY <1>1, <1>3 DEF TypeOK
  <1>13. TypeOK'
    <2>1. owner' \in [Tiocbs -> {"driver", "queue"}] /\ cur' \in Ptr /\ err' \in {0, 1}
      BY <1>1, <1>3 DEF TypeOK, Ptr
    <2> QED BY <1>1, <1>6, <2>1 DEF TypeOK
  <1>14. Linking'
    BY <1>1, <1>10 DEF Linking
  <1>15. Apart'
    BY <1>1, <1>3, <1>9, <1>11, <1>12 DEF Apart
  <1>16. Grouping'
    <2>1. \A i \in DOMAIN events' : Group(events'[i].group)
      BY <1>8
    <2>2. Disjoint(events')
      <3> SUFFICES ASSUME NEW i \in DOMAIN events', NEW j \in DOMAIN events', i # j
                   PROVE  Range(events'[i].group) \cap Range(events'[j].group) = {}
        BY DEF Disjoint
      <3>1. i + k \in DOMAIN events /\ j + k \in DOMAIN events /\ i + k # j + k
        BY <1>2, <1>6, <1>7, <1>k
      <3>2. Range(events[i + k].group) \cap Range(events[j + k].group) = {}
        BY <1>1, <3>1 DEF Grouping, Disjoint
      <3> QED BY <1>8, <3>2
    <2> QED BY <1>1, <2>1, <2>2 DEF Grouping, Disjoint
  <1>17. Results'
    <2>1. \A i \in DOMAIN events' : \A t \in Range(events'[i].group) :
            nbytes'[t] = 1 /\ (t \in full' <=> events'[i].res = 1)
      <3> TAKE i \in DOMAIN events'
      <3> TAKE t \in Range(events'[i].group)
      <3>1. t \in Range(events[i + k].group) /\ events'[i].res = events[i + k].res
        BY <1>8
      <3> QED BY <1>1, <1>7, <3>1 DEF Results
    <2>2. cur' \in Tiocbs \ Submitted' /\ (err' = 0 <=> cur' \in full')
      <3>1. nbytes[g[1]] = 1 /\ (g[1] \in full <=> e.res = 1)
        BY <1>1, <1>2, <1>3, ZenonT(40) DEF Results
      <3>2. g[1] \notin Submitted
        BY <1>1, <1>3 DEF Apart
      <3> QED BY <1>1, <1>2, <1>3, <1>11, <3>1, <3>2
    <2>3. \A t \in Failed' : t \notin full'
      BY <1>1, <1>11 DEF Results
    <2> QED BY <1>1, <2>1, <2>2, <2>3 DEF Results
  <1>18. Places'
    BY <1>1 DEF Places
  <1>19. CountersExact'
    BY <1>1 DEF CountersExact
  <1>20. NoOverflow'
    <2>1. /\ IsFiniteSet(Split) /\ Split = Members(events) /\ Split' = Members(events')
      BY <1>1, Counted DEF Split
    <2>2. Cardinality(Split') <= Cardinality(Split) /\ Cardinality(Split') \in Nat /\ Cardinality(Split) \in Nat
      <3>1. Split' \in SUBSET Split
        BY <1>9
      <3> QED BY <2>1, <3>1, FS_Subset, FS_CardinalityType
    <2>3. Size \in Nat
      BY TdQueueAssumption DEF TdQueueAssumption
    <2> QED BY <1>1, <2>1, <2>2, <2>3 DEF NoOverflow
  <1> QED BY <1>13, <1>14, <1>15, <1>16, <1>17, <1>18, <1>19, <1>20 DEF IInv

(* Merging cuts the queue into intervals of contiguous tiocbs: each place  *)
(* is in one of them, and none reaches across the beginning of another.    *)
LEMMA IoMerge ==
    ASSUME pos \in [Tiocbs -> Nat], NEW q \in Seq(Tiocbs)
    PROVE  /\ heads(q) \subseteq 1 .. Len(q) /\ (Len(q) > 0 => 1 \in heads(q))
           /\ \A r \in io_merge(q) :
                /\ r = <<r[1], r[2]>> /\ r[1] \in heads(q) /\ r[2] \in 1 .. Len(q) /\ r[1] <= r[2]
                /\ \A j \in r[1] .. r[2] : pos[q[j]] = pos[q[r[1]]] + (j - r[1])
                /\ \A h \in heads(q) \cup {Len(q) + 1} : r[2] < h \/ h <= r[1]
           /\ \A r, s \in io_merge(q), k \in 1 .. Len(q) :
                k \in r[1] .. r[2] /\ k \in s[1] .. s[2] => r = s
           /\ \A k \in 1 .. Len(q) : \E r \in io_merge(q) : k \in r[1] .. r[2]
  <1> DEFINE N == Len(q)
  <1>1. /\ N \in Nat /\ heads(q) \subseteq 1 .. N /\ (N > 0 => 1 \in heads(q))
        /\ \A j \in 1 .. N : q[j] \in Tiocbs /\ pos[q[j]] \in Nat
    BY DEF heads
  <1>2. ASSUME NEW r \in io_merge(q)
        PROVE  /\ r = <<r[1], r[2]>> /\ r[1] \in heads(q) /\ r[2] \in 1 .. N /\ r[1] <= r[2]
               /\ (r[1] + 1 .. r[2]) \cap heads(q) = {} /\ r[2] + 1 \in heads(q) \cup {N + 1}
    BY DEF io_merge
  <1>3. ASSUME NEW r \in io_merge(q), NEW h \in heads(q) \cup {N + 1}
        PROVE  r[2] < h \/ h <= r[1]
    <2>1. r[1] \in Nat /\ r[2] \in Nat /\ h \in Nat /\ r[2] <= N
      BY <1>1, <1>2
    <2>2. CASE h \in heads(q)
      <3>1. h \notin r[1] + 1 .. r[2]
        BY <1>2, <2>2
      <3> QED BY <2>1, <3>1
    <2>3. CASE h = N + 1
      BY <1>1, <2>1, <2>3
    <2> QED BY <2>2, <2>3
  <1>4. ASSUME NEW r \in io_merge(q), NEW j \in r[1] .. r[2]
        PROVE  pos[q[j]] = pos[q[r[1]]] + (j - r[1])
    <2> DEFINE S == {i \in r[1] .. r[2] : pos[q[i]] # pos[q[r[1]]] + (i - r[1])}
    <2> SUFFICES ASSUME S # {} PROVE FALSE
      OBVIOUS
    <2>1. r[1] \in 1 .. N /\ r[2] \in 1 .. N
      BY <1>1, <1>2
    <2>2. PICK i \in S : \A y \in S : i <= y
      <3>1. S \in SUBSET Nat
        BY <1>1, <2>1
      <3> HIDE DEF S
      <3> QED BY <3>1, Minimum
    <2>3. i \in r[1] .. r[2] /\ pos[q[i]] # pos[q[r[1]]] + (i - r[1])
      OBVIOUS
    <2>4. i # r[1]
      <3> HIDE DEF S, N
      <3>1. r[1] \in Int /\ pos[q[r[1]]] \in Int
        BY <1>1, <2>1
      <3>2. pos[q[r[1]]] + (r[1] - r[1]) = pos[q[r[1]]]
        BY <3>1
      <3> QED BY <2>3, <3>2
    <2>5. i - 1 \in r[1] .. r[2] /\ i - 1 < i /\ i \in r[1] + 1 .. r[2] /\ i \in 1 .. N /\ i - 1 \in 1 .. N /\ i # 1
      <3>1. r[1] \in Nat /\ r[2] \in Nat /\ 1 <= r[1] /\ r[2] <= N /\ i \in Int
        BY <1>1, <2>1, <2>3, SMTT(30)
      <3>2. r[1] <= i /\ i <= r[2] /\ i # r[1]
        BY <2>3, <2>4, <3>1
      <3>3. N \in Nat
        BY <1>1
      <3> HIDE DEF N, S
      <3> QED BY <3>1, <3>2, <3>3
    <2>6. i - 1 \notin S
      BY <2>2, <2>5
    <2>7. pos[q[i - 1]] = pos[q[r[1]]] + ((i - 1) - r[1])
      BY <2>5, <2>6
    <2>8. i \notin heads(q)
      BY <1>2, <2>5
    <2>9. pos[q[i - 1]] + 1 = pos[q[i]]
      BY <2>5, <2>8 DEF heads, contiguous
    <2> HIDE DEF S
    <2>10. pos[q[r[1]]] \in Nat /\ pos[q[i]] \in Nat /\ pos[q[i - 1]] \in Nat
      BY <1>1, <2>1, <2>5
    <2>11. r[1] \in Int /\ i \in Int
      BY <1>1, <2>1, <2>5
    <2> QED BY <2>3, <2>7, <2>9, <2>10, <2>11, SMTT(30)
  <1>5. ASSUME NEW r \in io_merge(q), NEW s \in io_merge(q), NEW k \in 1 .. N,
               k \in r[1] .. r[2], k \in s[1] .. s[2]
        PROVE  r = s
    <2>1. /\ r[1] \in Nat /\ r[2] \in Nat /\ s[1] \in Nat /\ s[2] \in Nat
          /\ r[1] \in heads(q) /\ s[1] \in heads(q)
          /\ r[2] + 1 \in heads(q) \cup {N + 1} /\ s[2] + 1 \in heads(q) \cup {N + 1}
      <3>1. /\ r[1] \in heads(q) /\ r[2] \in 1 .. N /\ r[2] + 1 \in heads(q) \cup {N + 1}
            /\ s[1] \in heads(q) /\ s[2] \in 1 .. N /\ s[2] + 1 \in heads(q) \cup {N + 1}
        BY <1>2
      <3>2. \A h \in heads(q) \cup 1 .. N : h \in Nat
        BY <1>1
      <3> QED BY <3>1, <3>2
    <2>2. s[1] <= r[1] /\ r[1] <= s[1]
      <3>1. r[2] < s[1] \/ s[1] <= r[1]
        BY <1>3, <2>1
      <3>2. s[2] < r[1] \/ r[1] <= s[1]
        BY <1>3, <2>1
      <3> QED BY <1>5, <2>1, <3>1, <3>2
    <2>3. r[2] <= s[2] /\ s[2] <= r[2]
      <3>1. r[2] < s[2] + 1 \/ s[2] + 1 <= r[1]
        BY <1>3, <2>1
      <3>2. s[2] < r[2] + 1 \/ r[2] + 1 <= s[1]
        BY <1>3, <2>1
      <3>3. k \in Nat /\ k <= r[2] /\ k <= s[2] /\ k >= r[1] /\ k >= s[1]
        BY <1>5, <2>1
      <3> QED BY <2>1, <3>1, <3>2, <3>3, SMTT(30)
    <2>4. r[1] = s[1] /\ r[2] = s[2]
      BY <2>1, <2>2, <2>3
    <2> QED BY <1>2, <2>4
  <1>6. ASSUME NEW k \in 1 .. N
        PROVE  \E r \in io_merge(q) : k \in r[1] .. r[2]
    <2> DEFINE A == {d \in 0 .. k : k - d \in heads(q)}
               B == {j \in k .. N : j + 1 \in heads(q) \cup {N + 1}}
    <2>1. PICK d \in A : \A y \in A : d <= y
      <3>1. A \in SUBSET Nat
        BY <1>1
      <3>2. k - 1 \in A
        BY <1>1
      <3> HIDE DEF A
      <3> QED BY <3>1, <3>2, Minimum
    <2>2. PICK e \in B : \A y \in B : e <= y
      <3>1. B \in SUBSET Nat
        BY <1>1
      <3>2. N \in B
        BY <1>1
      <3> HIDE DEF B
      <3> QED BY <3>1, <3>2, Minimum
    <2>3. /\ k \in Nat /\ d \in Nat /\ e \in Nat /\ k - d \in heads(q) /\ k - d \in 1 .. N
          /\ k <= e /\ e <= N /\ e + 1 \in heads(q) \cup {N + 1}
      BY <1>1
    <2>4. ASSUME NEW h \in (k - d + 1 .. e) \cap heads(q) PROVE FALSE
      <3>1. h \in Nat /\ k - d + 1 <= h /\ h <= e
        BY <1>1, <2>3
      <3>2. CASE h <= k
        <4>1. k - h \in 0 .. k /\ k - (k - h) = h
          BY <2>3, <3>1, <3>2
        <4>2. k - h \in A
          BY <4>1
        <4>3. d <= k - h
          BY <2>1, <4>2
        <4> QED BY <2>3, <3>1, <4>3
      <3>3. CASE h > k
        <4>1. h - 1 \in k .. N /\ (h - 1) + 1 = h
          BY <1>1, <2>3, <3>1, <3>3
        <4>2. h - 1 \in B
          BY <4>1
        <4>3. e <= h - 1
          BY <2>2, <4>2
        <4> QED BY <2>3, <3>1, <4>3
      <3> QED BY <2>3, <3>1, <3>2, <3>3
    <2> HIDE DEF A, B
    <2>5. <<k - d, e>> \in io_merge(q)
      <3>1. k - d \in heads(q) /\ e \in 1 .. N /\ k - d <= e /\ (k - d + 1 .. e) \cap heads(q) = {}
        BY <1>1, <2>3, <2>4
      <3> QED BY <2>3, <3>1 DEF io_merge
    <2>6. k \in k - d .. e
      BY <2>3
    <2> QED BY <2>5, <2>6
  <1> QED BY <1>1, <1>2, <1>3, <1>4, <1>5, <1>6

(* The list from its nth on.                                               *)
LEMMA WalkFrom ==
    ASSUME NEW nxt, NEW p, NEW d, Walk(nxt, p, d), NEW n \in DOMAIN d
    PROVE  Walk(nxt, d[n], SubSeq(d, n, Len(d)))
  <1>1. d \in Seq(Tiocbs) /\ d # <<>> /\ DOMAIN d = 1 .. Len(d) /\ Len(d) \in Nat
    BY DEF Walk
  <1>2. CASE n = 1
    BY <1>1, <1>2, SubSeqFull DEF Walk
  <1>3. CASE n # 1
    <2>1. n - 1 \in DOMAIN d /\ (n - 1) + 1 = n /\ n - 1 # Len(d)
      BY <1>1, <1>3
    <2>2. nxt[d[n - 1]] = d[n]
      <3>1. nxt[d[n - 1]] = IF n - 1 = Len(d) THEN NULL ELSE d[(n - 1) + 1]
        BY <2>1 DEF Walk
      <3> QED BY <2>1, <3>1
    <2>3. Walk(nxt, nxt[d[n - 1]], SubSeq(d, (n - 1) + 1, Len(d)))
      BY <2>1, WalkRest
    <2> QED BY <2>1, <2>2, <2>3
  <1> QED BY <1>2, <1>3

(* A part of a sequence in which nothing occurs twice.                     *)
PartIs(g, q, lo, hi) ==
    /\ g \in Seq(Tiocbs) /\ Len(g) = hi - lo + 1 /\ DOMAIN g = 1 .. hi - lo + 1 /\ One(g)
    /\ \A i \in DOMAIN g : g[i] = q[i + lo - 1] /\ i + lo - 1 \in lo .. hi
    /\ \A x : x \in Range(g) <=> \E k \in lo .. hi : x = q[k]
    /\ lo <= hi => Len(g) \in Nat \ {0} /\ g[1] = q[lo] /\ g # <<>> /\ 1 \in DOMAIN g

LEMMA OnePart ==
    ASSUME NEW q \in Seq(Tiocbs), One(q), NEW lo \in Nat, NEW hi \in Nat,
           1 <= lo, lo <= hi + 1, hi <= Len(q)
    PROVE  PartIs(SubSeq(q, lo, hi), q, lo, hi)
  <1> DEFINE g == SubSeq(q, lo, hi)
  <1>1. /\ g \in Seq(Tiocbs) /\ Len(g) = hi - lo + 1
        /\ \A i \in 1 .. hi - lo + 1 : g[i] = q[i + lo - 1]
    <2>1. lo \in Nat \ {0}
      OBVIOUS
    <2> QED BY <2>1, PartOf
  <1> HIDE DEF g
  <1>2. DOMAIN g = 1 .. hi - lo + 1
    BY <1>1
  <1>3. \A i \in 1 .. hi - lo + 1 : i + lo - 1 \in lo .. hi
    OBVIOUS
  <1>4. \A k \in lo .. hi : k - lo + 1 \in 1 .. hi - lo + 1 /\ (k - lo + 1) + lo - 1 = k
    OBVIOUS
  <1>5. \A k \in lo .. hi : g[k - lo + 1] = q[k]
    BY <1>1, <1>4
  <1>6. ASSUME NEW x PROVE x \in Range(g) <=> \E k \in lo .. hi : x = q[k]
    <2>1. ASSUME NEW k \in lo .. hi, x = q[k] PROVE x \in Range(g)
      BY <1>2, <1>4, <1>5, <2>1 DEF Range
    <2>2. ASSUME x \in Range(g) PROVE \E k \in lo .. hi : x = q[k]
      <3>1. PICK i \in DOMAIN g : x = g[i]
        BY <2>2 DEF Range
      <3> QED BY <1>1, <1>2, <1>3, <3>1
    <2> QED BY <2>1, <2>2
  <1>7. One(g)
    <2> SUFFICES ASSUME NEW i \in 1 .. hi - lo + 1, NEW j \in 1 .. hi - lo + 1, g[i] = g[j] PROVE i = j
      BY <1>2 DEF One
    <2>1. q[i + lo - 1] = q[j + lo - 1]
      BY <1>1
    <2>2. i + lo - 1 \in DOMAIN q /\ j + lo - 1 \in DOMAIN q
      OBVIOUS
    <2>3. i + lo - 1 = j + lo - 1
      BY <2>1, <2>2 DEF One
    <2> QED BY <2>3
  <1>8. lo <= hi => Len(g) \in Nat \ {0} /\ g[1] = q[lo] /\ g # <<>> /\ 1 \in DOMAIN g
    <2> SUFFICES ASSUME lo <= hi PROVE Len(g) \in Nat \ {0} /\ g[1] = q[lo] /\ g # <<>> /\ 1 \in DOMAIN g
      OBVIOUS
    <2>1. Len(g) \in Nat \ {0} /\ 1 \in 1 .. hi - lo + 1 /\ 1 + lo - 1 = lo
      BY <1>1
    <2> QED BY <1>1, <1>2, <2>1
  <1> QED BY <1>1, <1>2, <1>3, <1>6, <1>7, <1>8 DEF PartIs, g

(* The groups that io_submit took: what they hold, their lengths and their *)
(* number.                                                                 *)
Taken(q, rest)   == {r \in io_merge(q) : r[2] < rest}
Groups(q, rest)  == {SubSeq(q, r[1], r[2]) : r \in Taken(q, rest)}
Lengths(q, rest) == restore_iocbs(merge(q), Range(SubSeq(q, rest, Len(q))))

LEMMA Submitting ==
    ASSUME pos \in [Tiocbs -> Nat], nbytes \in [Tiocbs -> 1 .. Cardinality(Tiocbs)],
           NEW q \in Seq(Tiocbs), One(q),
           NEW rest \in heads(q) \cup {Len(q) + 1}
    PROVE  /\ IsFiniteSet(Groups(q, rest)) /\ Cardinality(Groups(q, rest)) = Cardinality(Taken(q, rest)) /\ Groups(q, rest) \subseteq Seq(Tiocbs)
           /\ Grouped(Groups(q, rest)) = Range(SubSeq(q, 1, rest - 1))
           /\ \A g \in Groups(q, rest) : /\ Group(g) /\ Lengths(q, rest)[g[1]] = Len(g)
                           /\ \A j \in DOMAIN g : pos[g[j]] = pos[g[1]] + j - 1
           /\ \A g, h \in Groups(q, rest) : g # h => Range(g) \cap Range(h) = {}
           /\ Lengths(q, rest) \in [Tiocbs -> 1 .. Cardinality(Tiocbs)]
           /\ \A t \in Tiocbs \ Range(q) : Lengths(q, rest)[t] = nbytes[t]
  <1> DEFINE N == Len(q)
             failed == SubSeq(q, rest, N)
             grp(r) == SubSeq(q, r[1], r[2])
             sub == Taken(q, rest)
             G == Groups(q, rest)
             nb == Lengths(q, rest)
  <1>1. /\ N \in Nat /\ heads(q) \subseteq 1 .. N /\ rest \in 1 .. N + 1 /\ DOMAIN q = 1 .. N
        /\ Cardinality(Tiocbs) \in Nat /\ N <= Cardinality(Tiocbs)
        /\ \A j \in 1 .. N : q[j] \in Tiocbs
    <2>1. N \in Nat /\ heads(q) \subseteq 1 .. N
      BY DEF heads
    <2> QED BY <2>1, OneCounts
  <1>2. ASSUME NEW r \in io_merge(q)
        PROVE  /\ r[1] \in 1 .. N /\ r[2] \in 1 .. N /\ r = <<r[1], r[2]>>
               /\ r[1] \in Nat /\ r[2] \in Nat /\ 1 <= r[1] /\ r[1] <= r[2] /\ r[2] <= N
               /\ \A j \in r[1] .. r[2] : pos[q[j]] = pos[q[r[1]]] + (j - r[1])
               /\ r[2] < rest \/ rest <= r[1]
               /\ r[1] \in heads(q)
    <2>1. /\ r = <<r[1], r[2]>> /\ r[1] \in heads(q) /\ r[2] \in 1 .. Len(q) /\ r[1] <= r[2]
          /\ \A j \in r[1] .. r[2] : pos[q[j]] = pos[q[r[1]]] + (j - r[1])
          /\ \A h \in heads(q) \cup {Len(q) + 1} : r[2] < h \/ h <= r[1]
      BY IoMerge
    <2>2. r[1] \in 1 .. N /\ r[2] \in 1 .. N /\ (r[2] < rest \/ rest <= r[1])
      BY <1>1, <2>1
    <2>3. r[1] \in Nat /\ r[2] \in Nat /\ 1 <= r[1] /\ r[2] <= N
      BY <1>1, <2>1, SMTT(30)
    <2> QED BY <1>1, <2>1, <2>2, <2>3
  <1>3. ASSUME NEW r \in io_merge(q)
        PROVE  /\ grp(r) \in Seq(Tiocbs) /\ Len(grp(r)) = r[2] - r[1] + 1 /\ DOMAIN grp(r) = 1 .. r[2] - r[1] + 1
               /\ \A i \in DOMAIN grp(r) : grp(r)[i] = q[i + r[1] - 1] /\ i + r[1] - 1 \in r[1] .. r[2]
               /\ \A x : x \in Range(grp(r)) <=> \E k \in r[1] .. r[2] : x = q[k]
               /\ Len(grp(r)) \in Nat \ {0} /\ grp(r)[1] = q[r[1]] /\ 1 \in DOMAIN grp(r) /\ Group(grp(r))
    <2> DEFINE lo == r[1]
               hi == r[2]
    <2>1. lo \in Nat /\ hi \in Nat /\ 1 <= lo /\ lo <= hi /\ lo <= hi + 1 /\ hi <= Len(q)
      <3>1. lo \in Nat /\ hi \in Nat /\ 1 <= lo /\ lo <= hi /\ hi <= Len(q)
        BY <1>2
      <3> HIDE DEF lo, hi
      <3> QED BY <3>1
    <2>2. PartIs(grp(r), q, lo, hi)
      <3> HIDE DEF lo, hi
      <3>1. PartIs(SubSeq(q, lo, hi), q, lo, hi)
        BY <2>1, OnePart
      <3> QED BY <3>1 DEF lo, hi
    <2> HIDE DEF lo, hi, grp
    <2> QED BY <2>1, <2>2 DEF lo, hi, Group, PartIs
  <1> HIDE DEF grp, sub, G, nb
  <1>6. ASSUME NEW r \in io_merge(q), NEW s \in io_merge(q), Range(grp(r)) \cap Range(grp(s)) # {}
        PROVE  r = s
    <2>1. PICK x : x \in Range(grp(r)) /\ x \in Range(grp(s))
      BY <1>6
    <2>2. PICK k \in r[1] .. r[2] : x = q[k]
      BY <1>3, <2>1
    <2>3. PICK j \in s[1] .. s[2] : x = q[j]
      BY <1>3, <2>1
    <2>4. k \in 1 .. N /\ j \in 1 .. N
      <3>1. /\ r[1] \in Nat /\ r[2] \in Nat /\ 1 <= r[1] /\ r[2] <= N
            /\ s[1] \in Nat /\ s[2] \in Nat /\ 1 <= s[1] /\ s[2] <= N /\ N \in Nat
        BY <1>1, <1>2
      <3> HIDE DEF N
      <3> QED BY <3>1
    <2>5. k = j
      BY <1>1, <2>2, <2>3, <2>4 DEF One
    <2> QED BY <2>2, <2>3, <2>4, <2>5, IoMerge
  <1>7. sub \subseteq io_merge(q) /\ G = {grp(r) : r \in sub}
    BY DEF grp, sub, G, Taken, Groups
  <1>8. /\ IsFiniteSet(G) /\ Cardinality(G) = Cardinality(sub)
    <2>1. IsFiniteSet(sub)
      <3>1. IsFiniteSet(1 .. N)
        BY <1>1, UpTo
      <3>2. IsFiniteSet((1 .. N) \X (1 .. N))
        BY <3>1, FS_Product
      <3>3. sub \in SUBSET ((1 .. N) \X (1 .. N))
        BY <1>2, <1>7
      <3> QED BY <3>2, <3>3, FS_Subset
    <2> DEFINE f == [r \in sub |-> grp(r)]
    <2>2. f \in [sub -> G] /\ \A z \in G : \E r \in sub : f[r] = z
      BY <1>7
    <2>3. \A x, y \in sub : f[x] = f[y] => x = y
      <3> SUFFICES ASSUME NEW x \in sub, NEW y \in sub, grp(x) = grp(y) PROVE x = y
        OBVIOUS
      <3>1. x \in io_merge(q) /\ y \in io_merge(q)
        BY <1>7
      <3>2. Range(grp(x)) # {}
        <4>1. 1 \in DOMAIN grp(x)
          BY <1>3, <3>1
        <4> QED BY <4>1 DEF Range
      <3> QED BY <1>6, <3>1, <3>2
    <2> HIDE DEF f
    <2>4. IsFiniteSet(G) /\ Cardinality(G) = Cardinality(sub)
      BY <2>1, <2>2, <2>3, OneToOne
    <2> QED BY <2>4
  <1>9. G \subseteq Seq(Tiocbs)
    BY <1>3, <1>7
  <1>10. Grouped(G) = Range(SubSeq(q, 1, rest - 1))
    <2> DEFINE a == SubSeq(q, 1, rest - 1)
    <2>1. a \in Seq(Tiocbs) /\ Len(a) = rest - 1 /\ \A i \in 1 .. rest - 1 : a[i] = q[i]
      <3>1. rest - 1 \in 0 .. Len(q)
        BY <1>1
      <3> QED BY <3>1, OneCut
    <2> HIDE DEF a
    <2>2. DOMAIN a = 1 .. rest - 1
      BY <1>1, <2>1
    <2>3. ASSUME NEW x \in Grouped(G) PROVE x \in Range(a)
      <3>1. PICK r \in sub : x \in Range(grp(r))
        BY <1>7 DEF Grouped
      <3>2. r \in io_merge(q) /\ r[2] < rest
        BY DEF sub, Taken
      <3>3. PICK k \in r[1] .. r[2] : x = q[k]
        BY <1>3, <3>1, <3>2
      <3>4. k \in 1 .. rest - 1
        <4>1. r[1] \in Nat /\ r[2] \in Nat /\ 1 <= r[1] /\ r[2] < rest /\ rest \in Nat
          BY <1>1, <1>2, <3>2
        <4> QED BY <4>1
      <3> QED BY <2>1, <2>2, <3>3, <3>4 DEF Range
    <2>4. ASSUME NEW x \in Range(a) PROVE x \in Grouped(G)
      <3>1. PICK k \in 1 .. rest - 1 : x = q[k]
        BY <2>1, <2>2 DEF Range
      <3>2. k \in 1 .. N
        BY <1>1
      <3>3. PICK r \in io_merge(q) : k \in r[1] .. r[2]
        BY <3>2, IoMerge
      <3>4. r[2] < rest
        BY <1>1, <1>2, <3>1, <3>3
      <3>5. r \in sub /\ x \in Range(grp(r))
        BY <1>3, <3>1, <3>3, <3>4 DEF sub, Taken
      <3> QED BY <1>7, <3>5 DEF Grouped
    <2> QED BY <2>3, <2>4 DEF a
  <1>11. \A x : x \in Range(failed) <=> \E k \in rest .. N : x = q[k]
    <2>1. rest \in Nat /\ 1 <= rest /\ N \in Nat /\ rest <= N + 1 /\ N <= Len(q)
      BY <1>1
    <2>2. PartIs(SubSeq(q, rest, N), q, rest, N)
      BY <2>1, OnePart
    <2> QED BY <2>2 DEF PartIs
  <1>12. nb = [t \in Tiocbs |-> IF t \in Range(failed) THEN 1 ELSE merge(q)[t]]
    BY DEF restore_iocbs, nb, Lengths
  <1> HIDE DEF failed
  <1>13. ASSUME NEW r \in io_merge(q)
         PROVE  merge(q)[q[r[1]]] = r[2] - r[1] + 1
    <2> DEFINE c == CHOOSE s \in io_merge(q) : q[s[1]] = q[r[1]]
    <2>1. c \in io_merge(q) /\ q[c[1]] = q[r[1]]
      OBVIOUS
    <2>2. c[1] \in 1 .. N /\ r[1] \in 1 .. N /\ c[1] <= c[2] /\ r[1] <= r[2] /\ c[2] \in 1 .. N /\ r[2] \in 1 .. N
      BY <1>2, <2>1
    <2>3. c[1] = r[1]
      BY <1>1, <2>1, <2>2 DEF One
    <2>4. c[1] \in c[1] .. c[2] /\ c[1] \in r[1] .. r[2]
      <3>1. /\ c[1] \in Nat /\ c[2] \in Nat /\ r[2] \in Nat /\ c[1] <= c[2] /\ c[1] <= r[2]
        BY <1>2, <2>1, <2>3
      <3> HIDE DEF c
      <3> QED BY <2>3, <3>1
    <2>5. c = r
      BY <2>1, <2>2, <2>4, IoMerge
    <2>6. merge(q)[q[r[1]]] = c[2] - c[1] + 1
      <3>1. q[r[1]] \in Tiocbs
        BY <1>1, <2>2
      <3> QED BY <3>1 DEF merge
    <2> QED BY <2>5, <2>6
  <1>14. ASSUME NEW t \in Tiocbs \ Range(q) PROVE nb[t] = nbytes[t]
    <2>1. \A k \in 1 .. N : q[k] # t
      BY <1>1 DEF Range
    <2>2. t \notin Range(failed)
      BY <1>1, <1>11, <2>1
    <2>3. merge(q)[t] = nbytes[t]
      BY <1>2, <2>1 DEF merge
    <2> QED BY <1>12, <2>2, <2>3
  <1>15. nb \in [Tiocbs -> 1 .. Cardinality(Tiocbs)]
    <2>1. ASSUME NEW t \in Tiocbs PROVE merge(q)[t] \in 1 .. Cardinality(Tiocbs)
      <3>1. CASE \E r \in io_merge(q) : q[r[1]] = t
        <4>1. PICK r \in io_merge(q) : q[r[1]] = t
          BY <3>1
        <4>2. r[2] - r[1] + 1 \in 1 .. Cardinality(Tiocbs)
          <5>1. /\ r[1] \in Nat /\ r[2] \in Nat /\ 1 <= r[1] /\ r[1] <= r[2] /\ r[2] <= N /\ N \in Nat
                /\ N <= Cardinality(Tiocbs) /\ Cardinality(Tiocbs) \in Nat
            BY <1>1, <1>2
          <5> HIDE DEF N
          <5> QED BY <5>1, SMTT(30)
        <4> QED BY <1>13, <4>1, <4>2
      <3>2. CASE ~\E r \in io_merge(q) : q[r[1]] = t
        BY <3>2 DEF merge
      <3> QED BY <3>1, <3>2
    <2>2. ASSUME NEW t \in Tiocbs PROVE 1 \in 1 .. Cardinality(Tiocbs)
      BY <1>1, <2>1
    <2> QED BY <1>12, <2>1, <2>2
  <1>16. ASSUME NEW g \in G
         PROVE  /\ Group(g) /\ nb[g[1]] = Len(g)
                /\ \A j \in DOMAIN g : pos[g[j]] = pos[g[1]] + j - 1
    <2>1. PICK r \in sub : g = grp(r)
      BY <1>7
    <2>2. r \in io_merge(q) /\ r[2] < rest
      BY DEF sub, Taken
    <2>3. g[1] = q[r[1]] /\ Group(g) /\ Len(g) = r[2] - r[1] + 1 /\ DOMAIN g = 1 .. r[2] - r[1] + 1
      BY <1>3, <2>1, <2>2
    <2>4. q[r[1]] \notin Range(failed) /\ q[r[1]] \in Tiocbs
      <3>1. r[1] \in 1 .. N /\ r[1] < rest
        BY <1>1, <1>2, <2>2
      <3>2. \A k \in rest .. N : k \in 1 .. N /\ k # r[1]
        BY <1>1, <3>1
      <3>3. \A k \in rest .. N : q[k] # q[r[1]]
        BY <1>1, <3>1, <3>2 DEF One
      <3> QED BY <1>1, <1>11, <3>1, <3>3
    <2>5. nb[g[1]] = Len(g)
      BY <1>12, <1>13, <2>2, <2>3, <2>4
    <2>6. \A j \in DOMAIN g : pos[g[j]] = pos[g[1]] + j - 1
      <3> TAKE j \in DOMAIN g
      <3>1. g[j] = q[j + r[1] - 1] /\ j + r[1] - 1 \in r[1] .. r[2]
        BY <1>3, <2>1, <2>2, <2>3
      <3>2. pos[q[j + r[1] - 1]] = pos[q[r[1]]] + ((j + r[1] - 1) - r[1])
        BY <1>2, <2>2, <3>1
      <3>3. pos[q[r[1]]] \in Nat /\ j \in Int /\ r[1] \in Int
        BY <1>2, <2>2, <2>3, <2>4
      <3>4. pos[q[r[1]]] + ((j + r[1] - 1) - r[1]) = pos[q[r[1]]] + j - 1
        BY <3>3
      <3> QED BY <2>3, <3>1, <3>2, <3>4
    <2> QED BY <2>3, <2>5, <2>6
  <1>17. \A g, h \in G : g # h => Range(g) \cap Range(h) = {}
    BY <1>6, <1>7
  <1> QED BY <1>8, <1>9, <1>10, <1>14, <1>15, <1>16, <1>17 DEF G, sub, nb


LEMMA LioSubmit ==
    ASSUME IInv, NEW rest, lio_submit(rest)
    PROVE  IInv'
  <1> DEFINE n      == rest - 1
             a      == SubSeq(iocbs, 1, n)
             failed == SubSeq(iocbs, rest, Len(iocbs))
             G      == Groups(iocbs, rest)
             nb     == Lengths(iocbs, rest)
  <1>1. /\ TypeOK /\ Linking /\ Apart /\ Grouping /\ Results /\ Places
        /\ CountersExact /\ NoOverflow
        /\ pc = "idle" /\ iocbs # <<>> /\ iocbs' = <<>>
        /\ rest \in heads(iocbs) \cup {Len(iocbs) + 1} /\ (rest <= Len(iocbs) => MayFail)
        /\ next' = next /\ head' = head /\ tail' = tail
        /\ pos' = pos /\ owner' = owner /\ landed' = landed
        /\ full' = full \ Queued
        /\ tiocbs_pending' = tiocbs_pending + Len(iocbs)
        /\ \/ failed = <<>> /\ pc' = pc /\ cur' = cur /\ cancelled' = cancelled
           \/ failed # <<>> /\ pc' = "cancel" /\ cur' = failed[1] /\ cancelled' = Len(failed)
        /\ events' = events /\ err' = err
    BY DEF IInv, lio_submit, loop, Queued
  <1>2. /\ flying' = flying \cup G /\ nbytes' = nb
        /\ iocbs_pending' = iocbs_pending + Cardinality(Taken(iocbs, rest))
    BY DEF lio_submit, Groups, Taken, Lengths
  <1>3. /\ iocbs \in Seq(Tiocbs) /\ One(iocbs) /\ Len(iocbs) \in Nat
        /\ pos \in [Tiocbs -> Nat] /\ nbytes \in [Tiocbs -> 1 .. Cardinality(Tiocbs)]
        /\ cancelled = 0 /\ events = <<>> /\ ~Cancels /\ ~CallbackRuns /\ Cancelling = <<>>
    BY <1>1, NothingFailed DEF TypeOK, Linking, Places, Cancels, CallbackRuns
  <1>4. rest \in Nat /\ n \in 0 .. Len(iocbs) /\ n + 1 = rest
    <2>1. heads(iocbs) \subseteq 1 .. Len(iocbs)
      BY DEF heads
    <2> QED BY <1>1, <1>3, <2>1, SMTT(30)
  <1>5. /\ a \in Seq(Tiocbs) /\ One(a) /\ Len(a) = n
        /\ failed \in Seq(Tiocbs) /\ One(failed) /\ Len(failed) = Len(iocbs) - n
        /\ \A i \in 1 .. Len(iocbs) - n : failed[i] = iocbs[i + n]
        /\ Range(a) \cup Range(failed) = Queued /\ Range(a) \cap Range(failed) = {}
    <2>1. failed = SubSeq(iocbs, n + 1, Len(iocbs))
      BY <1>4
    <2> HIDE DEF failed, n
    <2> QED BY <1>3, <1>4, <2>1, OneCut, SMTT(30) DEF Queued
  <1>6. /\ IsFiniteSet(G) /\ Cardinality(G) = Cardinality(Taken(iocbs, rest)) /\ G \subseteq Seq(Tiocbs)
        /\ Grouped(G) = Range(a)
        /\ \A g \in G : /\ Group(g) /\ nb[g[1]] = Len(g)
                        /\ \A j \in DOMAIN g : pos[g[j]] = pos[g[1]] + j - 1
        /\ \A g, h \in G : g # h => Range(g) \cap Range(h) = {}
        /\ nb \in [Tiocbs -> 1 .. Cardinality(Tiocbs)]
        /\ \A t \in Tiocbs \ Queued : nb[t] = nbytes[t]
    BY <1>1, <1>3, Submitting DEF Queued
  <1> HIDE DEF a, failed, G, nb, n
  <1>7. /\ Deferred' = Deferred /\ Delayed' = Delayed /\ Queued' = {}
        /\ Done' = Done /\ Split' = {} /\ Split = {} /\ Failed = {}
    <2>1. Deferred' = Deferred
      BY <1>1 DEF Deferred, Chain
    <2> QED BY <1>1, <1>3, <2>1 DEF Delayed, Queued, Done, Split, Failed, Members, Range
  <1>8. Submitted' = Submitted \cup Range(a)
    BY <1>2, <1>6 DEF Submitted, Grouped
  <1>9. /\ Cancelling' = failed /\ cancelled' = Len(failed)
        /\ (Cancels' => MayFail /\ pc' = "cancel" /\ Walk(next', cur', failed))
        /\ pc' \in {"idle", "cancel"} /\ cur' \in Ptr
    <2>1. CASE failed = <<>>
      <3>1. pc' = "idle" /\ cur' = cur /\ cancelled' = 0 /\ Len(failed) = 0
        BY <1>1, <1>3, <2>1
      <3> QED BY <1>1, <2>1, <3>1 DEF Cancelling, Cancels, TypeOK
    <2>2. CASE failed # <<>>
      <3>1. pc' = "cancel" /\ cur' = failed[1] /\ cancelled' = Len(failed)
        BY <1>1, <2>2
      <3>2. Len(iocbs) - n \in Nat \ {0}
        BY <1>3, <1>4, <1>5, <2>2, EmptySeq
      <3>3. rest <= Len(iocbs) /\ rest \in DOMAIN iocbs /\ 1 \in 1 .. Len(iocbs) - n /\ 1 + n = rest
        <4>1. n \in Nat /\ Len(iocbs) \in Nat
          BY <1>3, <1>4
        <4>2. rest \in 1 .. Len(iocbs) /\ 1 \in 1 .. Len(iocbs) - n /\ 1 + n = rest
          BY <1>4, <3>2, <4>1
        <4>3. DOMAIN iocbs = 1 .. Len(iocbs)
          BY <1>3
        <4> QED BY <4>1, <4>2, <4>3
      <3>4. failed[1] = iocbs[rest]
        BY <1>5, <3>3
      <3>5. MayFail /\ Walk(next, iocbs[1], iocbs)
        BY <1>1, <3>3 DEF Linking
      <3>6. Walk(next, iocbs[rest], failed)
        BY <3>3, <3>5, WalkFrom DEF failed
      <3>7. Walk(next', cur', failed)
        BY <1>1, <3>1, <3>4, <3>6
      <3>8. Cancelling' = failed
        BY <3>1, <3>7, ChainIs DEF Cancelling, Chain
      <3>9. cur' \in Ptr
        BY <1>5, <3>1, <3>2, <3>3 DEF Ptr
      <3> QED BY <3>1, <3>5, <3>7, <3>8, <3>9
    <2> QED BY <2>1, <2>2
  <1>10. Failed' = Range(failed)
    BY <1>9 DEF Failed
  <1>11. G \cap flying = {}
    <2> SUFFICES ASSUME NEW g \in G, g \in flying PROVE FALSE
      OBVIOUS
    <2>1. Range(g) \subseteq Submitted /\ 1 \in DOMAIN g
      BY <1>1, InGroups
    <2>2. Range(g) \subseteq Queued
      BY <1>5, <1>6 DEF Grouped
    <2>3. g[1] \in Range(g)
      BY <2>1 DEF Range
    <2> QED BY <1>1, <2>1, <2>2, <2>3 DEF Apart
  <1>12. TypeOK'
    <2>1. tiocbs_pending' \in Nat /\ iocbs_pending' \in Nat /\ cancelled' \in Nat
      <3>1. Cardinality(Taken(iocbs, rest)) \in Nat
        BY <1>6, FS_CardinalityType
      <3>2. tiocbs_pending \in Nat /\ iocbs_pending \in Nat /\ Len(failed) \in Nat
        BY <1>1, <1>5 DEF TypeOK
      <3> QED BY <1>1, <1>2, <1>3, <1>9, <3>1, <3>2
    <2>2. iocbs' \in Seq(Tiocbs) /\ flying' \subseteq Seq(Tiocbs) /\ full' \subseteq Tiocbs
      BY <1>1, <1>2, <1>6 DEF TypeOK
    <2>3. nbytes' \in [Tiocbs -> 1 .. Cardinality(Tiocbs)]
      BY <1>2, <1>6
    <2> QED BY <1>1, <1>9, <2>1, <2>2, <2>3 DEF TypeOK
  <1>13. Linking'
    <2>1. One(<<>>) /\ Walk(next, NULL, <<>>)
      BY DEF One, Walk
    <2>2. pc' # "cancel_cb"
      BY <1>9
    <2>3. Cancels' => MayFail /\ Walk(next', IF pc' = "cancel" THEN cur' ELSE next'[cur'], Cancelling')
      BY <1>9
    <2> QED BY <1>1, <1>7, <2>1, <2>2, <2>3 DEF Linking
  <1>14. Apart'
    <2>1. Failed' \subseteq Queued /\ Range(a) \subseteq Queued /\ Failed' \cap Range(a) = {}
          /\ Queued = Failed' \cup Range(a)
      BY <1>5, <1>10
    <2>2. \A t \in Tiocbs : owner'[t] = owner[t]
      BY <1>1
    <2> QED BY <1>1, <1>7, <1>8, <2>1, <2>2 DEF Apart
  <1>15. Grouping'
    <2>1. IsFiniteSet(flying')
      BY <1>1, <1>2, <1>6, FS_Union DEF Grouping
    <2>2. ASSUME NEW g \in flying, NEW h \in G PROVE Range(g) \cap Range(h) = {}
      <3>1. Range(g) \subseteq Submitted
        BY DEF Submitted, Grouped
      <3>2. Range(h) \subseteq Queued
        BY <1>5, <1>6 DEF Grouped
      <3> QED BY <1>1, <3>1, <3>2 DEF Apart
    <2>3. \A g, h \in flying' : g # h => Range(g) \cap Range(h) = {}
      BY <1>1, <1>2, <1>6, <2>2 DEF Grouping
    <2>4. \A g \in flying' : Group(g)
      BY <1>1, <1>2, <1>6 DEF Grouping
    <2> QED BY <1>1, <2>1, <2>3, <2>4 DEF Grouping, Disjoint
  <1>16. Results'
    <2>1. ASSUME NEW g \in flying'
          PROVE  /\ nbytes'[g[1]] = Len(g)
                 /\ \A j \in DOMAIN g : pos'[g[j]] = pos'[g[1]] + j - 1 /\ g[j] \notin full'
      <3>1. CASE g \in flying
        <4>1. /\ 1 \in DOMAIN g /\ \A j \in DOMAIN g : g[j] \in Tiocbs /\ g[j] \in Submitted
          BY <1>1, <3>1, InGroups
        <4>2. g[1] \in Tiocbs \ Queued
          BY <1>1, <4>1 DEF Apart
        <4>3. nbytes'[g[1]] = nbytes[g[1]]
          BY <1>2, <1>6, <4>2
        <4> QED BY <1>1, <3>1, <4>3 DEF Results
      <3>2. CASE g \in G
        <4>1. \A j \in DOMAIN g : g[j] \in Queued
          <5>1. Range(g) \subseteq Queued
            BY <1>5, <1>6, <3>2 DEF Grouped
          <5> QED BY <5>1 DEF Range
        <4> QED BY <1>1, <1>2, <1>6, <3>2, <4>1
      <3> QED BY <1>2, <3>1, <3>2
    <2>2. ASSUME NEW i \in DOMAIN landed'
          PROVE  LET g == landed'[i].group IN
                 /\ nbytes'[g[1]] = Len(g)
                 /\ \A t \in Range(g) : t \in full' <=> landed'[i].res = Len(g)
      <3> DEFINE g == landed[i].group
      <3>1. g[1] \in Done /\ Range(g) \subseteq Done /\ Done \subseteq Tiocbs /\ landed' = landed
        BY <1>1, InGroups
      <3>2. Done \cap Queued = {}
        BY <1>1 DEF Apart
      <3>3. nbytes'[g[1]] = nbytes[g[1]]
        BY <1>2, <1>6, <3>1, <3>2
      <3>4. \A t \in Range(g) : t \in full' <=> t \in full
        BY <1>1, <3>1, <3>2
      <3>5. nbytes[g[1]] = Len(g) /\ \A t \in Range(g) : t \in full <=> landed[i].res = Len(g)
        BY <1>1 DEF Results
      <3> HIDE DEF g
      <3>6. /\ nbytes'[g[1]] = Len(g) /\ \A t \in Range(g) : t \in full' <=> landed[i].res = Len(g)
        BY <3>3, <3>4, <3>5
      <3> QED BY <3>1, <3>6 DEF g
    <2>3. \A t \in Failed' : t \notin full'
      BY <1>1, <1>5, <1>10
    <2>4. ~CallbackRuns' /\ pc' # "cancel_cb" /\ DOMAIN events' = {}
      BY <1>1, <1>3, <1>9 DEF CallbackRuns
    <2> QED BY <2>1, <2>2, <2>3, <2>4 DEF Results
  <1>17. Places'
    <2>1. ~Cancels' => cancelled' = 0
      <3> SUFFICES ASSUME ~Cancels' PROVE cancelled' = 0
        OBVIOUS
      <3>1. failed = <<>>
        BY <1>1 DEF Cancels
      <3> QED BY <1>9, <3>1
    <2> QED BY <1>1, <1>3, <2>1 DEF Places
  <1>18. CountersExact' /\ NoOverflow'
    <2>1. /\ IsFiniteSet(Submitted) /\ Cardinality(Submitted) \in Nat /\ Submitted = Grouped(flying)
          /\ Cardinality(split(landed)) \in Nat
      BY <1>1, Counted
    <2>2. IsFiniteSet(Range(a)) /\ Cardinality(Range(a)) = n
      BY <1>5, OneCounts
    <2>3. Submitted \cap Range(a) = {}
      BY <1>1, <1>5 DEF Apart
    <2>4. Cardinality(Submitted') = Cardinality(Submitted) + n
      BY <1>8, <2>1, <2>2, <2>3, DisjointUnion
    <2>5. Grouped(flying)' = Submitted' /\ split(landed)' = split(landed)
      BY <1>1 DEF Submitted
    <2>6. Cardinality(flying') = Cardinality(flying) + Cardinality(G) /\ Cardinality(flying) \in Nat
          /\ Cardinality(G) \in Nat
      BY <1>1, <1>2, <1>6, <1>11, DisjointUnion DEF Grouping
    <2>7. /\ tiocbs_pending = Cardinality(Submitted) + Cardinality(split(landed)) + 0
          /\ iocbs_pending = Cardinality(flying) + Len(landed)
          /\ tiocbs_pending + Len(iocbs) <= Size /\ Cardinality(Members(events)) <= Size
      BY <1>1, <1>3, <2>1 DEF CountersExact, NoOverflow
    <2>8. /\ n \in Nat /\ Len(landed) \in Nat /\ Size \in Nat /\ cancelled' = Len(iocbs) - n
          /\ tiocbs_pending \in Nat
      BY <1>1, <1>4, <1>5, <1>9, TdQueueAssumption DEF TypeOK, TdQueueAssumption
    <2>9. tiocbs_pending' = Cardinality(Submitted') + Cardinality(split(landed)) + cancelled'
      BY <1>1, <1>3, <2>1, <2>4, <2>7, <2>8, SMTT(30)
    <2>10. iocbs_pending' = Cardinality(flying') + Len(landed')
      BY <1>1, <1>2, <1>6, <2>6, <2>7, <2>8
    <2>11. tiocbs_pending' + Len(iocbs') <= Size /\ Cardinality(Members(events')) <= Size
      <3>1. Len(iocbs') = 0
        BY <1>1
      <3> QED BY <1>1, <1>3, <2>7, <2>8, <3>1
    <2> QED BY <1>1, <2>5, <2>9, <2>10, <2>11 DEF CountersExact, NoOverflow
  <1> QED BY <1>12, <1>13, <1>14, <1>15, <1>16, <1>17, <1>18 DEF IInv

(* Every step keeps the invariant.                                         *)
LEMMA TdStep == SafeToFail /\ IInv /\ [Next]_vars => IInv'
  <1> SUFFICES ASSUME SafeToFail, IInv, [Next]_vars PROVE IInv'
    OBVIOUS
  <1>1. ASSUME NEW t \in Tiocbs, NEW p \in Positions, queue_tiocb(t, p) PROVE IInv'
    BY <1>1, QueueTiocb
  <1>2. CASE callback_returns
    BY <1>2, CallbackReturns
  <1>3. CASE submit
    <2>1. PICK rest : lio_submit(rest)
      BY <1>3 DEF submit
    <2> QED BY <2>1, LioSubmit
  <1>4. CASE cancel_tiocb
    BY <1>4, CancelTiocb
  <1>5. CASE cancel_ends
    BY <1>5, CancelEnds
  <1>6. CASE land
    <2>1. PICK group, res : lands(group, res)
      BY <1>6 DEF land
    <2> QED BY <2>1, Lands
  <1>7. CASE lio_event
    BY <1>7, LioEvent
  <1>8. CASE complete_tiocb
    BY <1>8, CompleteTiocb
  <1>9. CASE lio_event_ends
    BY <1>9, LioEventEnds
  <1>10. CASE UNCHANGED vars
    <2>1. /\ TypeOK /\ Linking /\ Apart /\ Grouping /\ Results /\ Places
          /\ CountersExact /\ NoOverflow
          /\ next' = next /\ iocbs' = iocbs /\ head' = head /\ tail' = tail
          /\ pos' = pos /\ nbytes' = nbytes /\ owner' = owner
          /\ iocbs_pending' = iocbs_pending /\ tiocbs_pending' = tiocbs_pending
          /\ flying' = flying /\ landed' = landed /\ full' = full
          /\ events' = events /\ pc' = pc /\ cur' = cur /\ err' = err /\ cancelled' = cancelled
      BY <1>10 DEF IInv, vars, lists, kernel, loop
    <2>2. Deferred' = Deferred /\ Cancelling' = Cancelling
      BY <2>1 DEF Deferred, Cancelling, Chain
    <2>3. /\ Queued' = Queued /\ Delayed' = Delayed /\ Failed' = Failed
          /\ Submitted' = Submitted /\ Done' = Done /\ Split' = Split
      BY <2>1, <2>2 DEF Queued, Delayed, Failed, Submitted, Done, Split
    <2>4. TypeOK' /\ Places' /\ CountersExact' /\ NoOverflow'
      BY <2>1 DEF TypeOK, Places, CountersExact, NoOverflow, Cancels
    <2>5. Linking'
      BY <2>1, <2>2 DEF Linking, Cancels
    <2>6. Apart' /\ Grouping'
      BY <2>1, <2>3 DEF Apart, Grouping, Disjoint
    <2>7. Results'
      BY <2>1, <2>3 DEF Results, CallbackRuns
    <2> QED BY <2>4, <2>5, <2>6, <2>7 DEF IInv
  <1> QED BY <1>1, <1>2, <1>3, <1>4, <1>5, <1>6, <1>7, <1>8, <1>9, <1>10 DEF Next

-----------------------------------------------------------------------------
(* What follows                                                            *)

(* A tiocb occurs once in a sequence without repetitions that holds it.    *)
LEMMA OccursOnce ==
    ASSUME NEW s \in Seq(Tiocbs), One(s), NEW t
    PROVE  Occurs(t, s) = IF t \in Range(s) THEN 1 ELSE 0
  <1> DEFINE S == {i \in 1 .. Len(s) : s[i] = t}
  <1>1. CASE t \in Range(s)
    <2>1. PICK k \in 1 .. Len(s) : s[k] = t
      BY <1>1 DEF Range
    <2>2. S = {k}
      BY <2>1 DEF One
    <2> HIDE DEF S
    <2>3. Cardinality(S) = 1
      BY <2>2, FS_Singleton
    <2> QED BY <1>1, <2>3 DEF Occurs, S
  <1>2. CASE t \notin Range(s)
    <2>1. S = {}
      BY <1>2 DEF Range
    <2> HIDE DEF S
    <2>2. Cardinality(S) = 0
      BY <2>1, FS_EmptySet
    <2> QED BY <1>2, <2>2 DEF Occurs, S
  <1> QED BY <1>1, <1>2

(* It is in one group of those that share none.                            *)
LEMMA InOne ==
    ASSUME NEW S, NEW in, \A x, y \in S : x \in in /\ y \in in => x = y
    PROVE  Cardinality({x \in S : x \in in}) = IF \E x \in S : x \in in THEN 1 ELSE 0
  <1> DEFINE T == {x \in S : x \in in}
  <1>1. CASE \E x \in S : x \in in
    <2>1. PICK z \in S : z \in in
      BY <1>1
    <2>2. T = {z}
      BY <2>1
    <2> HIDE DEF T
    <2> QED BY <1>1, <2>2, FS_Singleton DEF T
  <1>2. CASE ~\E x \in S : x \in in
    <2>1. T = {}
      BY <1>2
    <2> HIDE DEF T
    <2> QED BY <1>2, <2>1, FS_EmptySet DEF T
  <1> QED BY <1>1, <1>2

LEMMA TdOnePlace == IInv => OnePlace
  <1> SUFFICES ASSUME IInv, NEW t \in Tiocbs
               PROVE  Times(t) = IF owner[t] = "queue" THEN 1 ELSE 0
    BY DEF OnePlace
  <1>1. TypeOK /\ Linking /\ Apart /\ Grouping
    BY DEF IInv
  <1> DEFINE n(S) == IF t \in S THEN 1 ELSE 0
             F    == {g \in flying : t \in Range(g)}
             L    == {i \in DOMAIN landed : t \in Range(landed[i].group)}
             E    == {i \in DOMAIN events : t \in Range(events[i].group)}
  <1>2. Cancelling \in Seq(Tiocbs) /\ One(Cancelling)
    <2>1. CASE Cancels
      BY <1>1, <2>1 DEF Linking, Walk
    <2>2. CASE ~Cancels
      <3>1. Cancelling = <<>>
        BY <2>2, NothingFailed
      <3> QED BY <3>1 DEF One
    <2> QED BY <2>1, <2>2
  <1>3. /\ Occurs(t, iocbs) = n(Queued) /\ Occurs(t, Deferred) = n(Delayed)
        /\ Occurs(t, Cancelling) = n(Failed)
    BY <1>1, <1>2, OccursOnce DEF TypeOK, Linking, Walk, Queued, Delayed, Failed
  <1>4. Cardinality(F) = n(Submitted)
    <2> DEFINE in == {g \in flying : t \in Range(g)}
    <2>1. \A x, y \in flying : x \in in /\ y \in in => x = y
      BY <1>1 DEF Grouping
    <2>2. F = {x \in flying : x \in in} /\ (t \in Submitted <=> \E x \in flying : x \in in)
      BY DEF Submitted, Grouped
    <2> HIDE DEF in, F
    <2> QED BY <2>1, <2>2, InOne
  <1>5. Cardinality(L) = n(Done)
    <2> DEFINE in == {i \in DOMAIN landed : t \in Range(landed[i].group)}
    <2>1. \A x, y \in DOMAIN landed : x \in in /\ y \in in => x = y
      BY <1>1 DEF Grouping, Disjoint
    <2>2. L = {x \in DOMAIN landed : x \in in} /\ (t \in Done <=> \E x \in DOMAIN landed : x \in in)
      BY DEF Done, Members
    <2> HIDE DEF in, L
    <2> QED BY <2>1, <2>2, InOne
  <1>6. Cardinality(E) = n(Split)
    <2> DEFINE in == {i \in DOMAIN events : t \in Range(events[i].group)}
    <2>1. \A x, y \in DOMAIN events : x \in in /\ y \in in => x = y
      BY <1>1 DEF Grouping, Disjoint
    <2>2. E = {x \in DOMAIN events : x \in in} /\ (t \in Split <=> \E x \in DOMAIN events : x \in in)
      BY DEF Split, Members
    <2> HIDE DEF in, E
    <2> QED BY <2>1, <2>2, InOne
  <1>7. Times(t) = n(Queued) + n(Delayed) + n(Failed) + n(Submitted) + n(Done) + n(Split)
    BY <1>3, <1>4, <1>5, <1>6, Zenon DEF Times
  <1>8. /\ ~(t \in Delayed /\ t \in Queued)
        /\ t \in Failed => t \notin Queued /\ t \notin Delayed
        /\ t \in Submitted => t \notin Queued /\ t \notin Delayed /\ t \notin Failed
        /\ t \in Done => t \notin Queued /\ t \notin Delayed /\ t \notin Failed /\ t \notin Submitted
        /\ t \in Split => /\ t \notin Queued /\ t \notin Delayed /\ t \notin Failed
                          /\ t \notin Submitted /\ t \notin Done
    BY <1>1 DEF Apart
  <1>9. owner[t] = "queue" <=> \/ t \in Queued \/ t \in Delayed \/ t \in Failed
                               \/ t \in Submitted \/ t \in Done \/ t \in Split
    BY <1>1 DEF Apart
  <1> QED BY <1>7, <1>8, <1>9

(* Every state of the queue satisfies the invariant, for any tiocbs,       *)
(* positions and size, callbacks that queue others and their own, and a    *)
(* kernel that completes groups in any order and in part; where io_submit  *)
(* fails, under the conditions without which cancel_tiocbs is wrong.       *)
THEOREM QueueInvariant == SafeToFail => (Spec => []IInv)
  <1> SUFFICES ASSUME SafeToFail PROVE Spec => []IInv
    OBVIOUS
  <1>1. IInv /\ [Next]_vars => IInv'
    BY TdStep
  <1> QED BY <1>1, TdInit, PTL DEF Spec

(* Every tiocb that a driver handed to tapdisk_queue_tiocb is in exactly   *)
(* one of the queue, the deferred list, the cancelled list, the kernel and *)
(* the events, and tiocbs_pending and iocbs_pending are exact, so that the *)
(* arrays of the queue never overflow.                                     *)
THEOREM QueueOnceAndCounted == SafeToFail => (Spec => []OnceAndCounted)
  <1> SUFFICES ASSUME SafeToFail PROVE Spec => []OnceAndCounted
    OBVIOUS
  <1>1. IInv => OnceAndCounted
    BY TdOnePlace DEF IInv, OnceAndCounted
  <1> QED BY <1>1, QueueInvariant, PTL

(* A callback is told of success exactly when the kernel transferred the   *)
(* whole of its tiocb, whatever io_merge put into one iocb with it.        *)
THEOREM QueueResultHonest == SafeToFail => (Spec => []ResultHonest)
  <1> SUFFICES ASSUME SafeToFail PROVE Spec => []ResultHonest
    OBVIOUS
  <1>1. IInv => ResultHonest
    BY DEF IInv, Results, ResultHonest
  <1> QED BY <1>1, QueueInvariant, PTL

=============================================================================
