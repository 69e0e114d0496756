---------------------------- MODULE CacheProofs ----------------------------
(* Proofs about BlockCache, the read cache: no link leads to a page that    *)
(* was freed, no page is kept that nothing leads to, and the memory in use  *)
(* stays below its bound, for every shape of the tree and every size.       *)
EXTENDS BlockCache, FiniteSetTheorems, TLAPS

-----------------------------------------------------------------------------
(* The shape of the tree: above, for every height.                          *)

(* A set of numbers has a least one: induction, without an operator for a   *)
(* parameter.                                                               *)
LEMMA Minimum ==
    ASSUME NEW S \in SUBSET Nat, S # {}
    PROVE  \E x \in S : \A y \in S : x <= y
  <1> SUFFICES ASSUME \A x \in S : \E y \in S : y < x PROVE FALSE
    OBVIOUS
  <1>1. PICK n \in S : TRUE
    OBVIOUS
  <1> DEFINE U == {u \in 0 .. n : \E t \in S : t <= u}
             f == [u \in U |-> u - 1]
  <1>2. IsFiniteSet(U) /\ n \in U
    <2>1. IsFiniteSet(0 .. n)
      BY FS_Interval
    <2> QED BY <2>1, <1>1, FS_Subset
  <1>3. \A u \in U : u - 1 \in U \ {n}
    <2> TAKE u \in U
    <2>1. PICK t \in S : t <= u
      OBVIOUS
    <2>2. PICK y \in S : y < t
      OBVIOUS
    <2>3. u \in Nat /\ t \in Nat /\ y \in Nat /\ n \in Nat /\ u <= n
      OBVIOUS
    <2>4. u - 1 \in 0 .. n /\ u - 1 # n /\ y <= u - 1
      BY <2>1, <2>2, <2>3
    <2> QED BY <2>4
  <1>4. /\ IsFiniteSet(U \ {n}) /\ Cardinality(U) \in Nat
        /\ Cardinality(U \ {n}) = Cardinality(U) - 1
    BY <1>2, FS_RemoveElement, FS_CardinalityType
  <1>5. Cardinality(U \ {n}) < Cardinality(U)
    BY <1>4
  <1>6. f \in [U -> U \ {n}] /\ \A u \in U : u \in Int
    BY <1>3
  <1>7. \A x, y \in U : f[x] = f[y] => x = y
    BY <1>6
  <1> DEFINE W == U \ {n}
  <1>8. IsFiniteSet(W) /\ Cardinality(W) < Cardinality(U) /\ f \in [U -> W]
    BY <1>4, <1>5, <1>6
  <1> HIDE DEF U, f, W
  <1>9. \E x, y \in U : x # y /\ f[x] = f[y]
    BY <1>2, <1>8, FS_PigeonHole
  <1> QED BY <1>7, <1>9

(* The first n entries of above are as above[k] is defined.                 *)
UpTo(n, f) ==
    f = [k \in 0 .. n |-> IF k = 0 THEN [i \in Nat |-> i]
                          ELSE [i \in Nat |-> f[k - 1][i] \div Fan]]

(* There are such entries, for every n.                                     *)
LEMMA UpToExists ==
    ASSUME NEW n \in Nat
    PROVE  \E f : UpTo(n, f)
  <1> DEFINE B == {m \in Nat : ~ \E f : UpTo(m, f)}
  <1> SUFFICES B = {} OBVIOUS
  <1> SUFFICES ASSUME B # {} PROVE FALSE OBVIOUS
  <1>1. PICK m \in B : \A y \in B : m <= y
    BY Minimum
  <1>2. CASE m = 0
    <2> DEFINE f == [k \in 0 .. 0 |-> [i \in Nat |-> i]]
    <2>1. f = [k \in 0 .. 0 |-> IF k = 0 THEN [i \in Nat |-> i]
                                ELSE [i \in Nat |-> f[k - 1][i] \div Fan]]
      OBVIOUS
    <2>2. UpTo(0, f) BY <2>1 DEF UpTo
    <2> QED BY <2>2, <1>2, <1>1
  <1>3. CASE m # 0
    <2>1. m - 1 \in Nat /\ m - 1 \notin B /\ m \in Nat
      BY <1>1, <1>3
    <2>2. PICK f : UpTo(m - 1, f)
      BY <2>1
    <2>0. f = [k \in 0 .. m - 1 |-> IF k = 0 THEN [i \in Nat |-> i]
                               ELSE [i \in Nat |-> f[k - 1][i] \div Fan]]
      BY <2>2 DEF UpTo
    <2> DEFINE g == [k \in 0 .. m |-> IF k = m THEN [i \in Nat |-> f[m - 1][i] \div Fan] ELSE f[k]]
               h == [k \in 0 .. m |-> IF k = 0 THEN [i \in Nat |-> i]
                                      ELSE [i \in Nat |-> g[k - 1][i] \div Fan]]
    <2>3. ASSUME NEW k \in 0 .. m PROVE g[k] = h[k]
      <3>1. CASE k = 0
        <4>1. 0 \in 0 .. m - 1 /\ g[0] = f[0] BY <1>3, <2>1
        <4>2. f[0] = [i \in Nat |-> i] BY <4>1, <2>0
        <4> QED BY <4>1, <4>2, <3>1
      <3>2. CASE k # 0 /\ k # m
        <4>1. k \in 0 .. m - 1 /\ k - 1 \in 0 .. m - 1 /\ k - 1 # m /\ k - 1 \in 0 .. m BY <3>2, <2>1
        <4>2. f[k] = [i \in Nat |-> f[k - 1][i] \div Fan] BY <4>1, <2>0, <3>2
        <4>3. g[k] = f[k] /\ g[k - 1] = f[k - 1] BY <4>1, <3>2
        <4> QED BY <4>2, <4>3, <3>2
      <3>3. CASE k = m
        <4>1. m - 1 \in 0 .. m /\ m \in 0 .. m /\ m - 1 # m BY <2>1
        <4>2. g[m - 1] = f[m - 1] BY <4>1
        <4> QED BY <4>1, <4>2, <3>3, <1>3
      <3> QED BY <3>1, <3>2, <3>3
    <2>4. g = h BY <2>3
    <2>5. UpTo(m, g) BY <2>4 DEF UpTo
    <2> QED BY <2>5, <1>1
  <1> QED BY <1>2, <1>3

(* They do not depend on how many there are.                                *)
LEMMA UpToAgree ==
    ASSUME NEW m \in Nat, NEW n \in Nat, NEW f, NEW g, UpTo(m, f), UpTo(n, g),
           NEW k \in Nat, k <= m, k <= n
    PROVE  f[k] = g[k]
  <1> DEFINE B == {j \in Nat : j <= m /\ j <= n /\ f[j] # g[j]}
  <1> SUFFICES B = {} OBVIOUS
  <1> SUFFICES ASSUME B # {} PROVE FALSE OBVIOUS
  <1>1. PICK j \in B : \A y \in B : j <= y
    BY Minimum
  <1>2. j \in 0 .. m /\ j \in 0 .. n /\ f[j] # g[j] BY <1>1
  <1>0. /\ f = [i \in 0 .. m |-> IF i = 0 THEN [s \in Nat |-> s] ELSE [s \in Nat |-> f[i - 1][s] \div Fan]]
        /\ g = [i \in 0 .. n |-> IF i = 0 THEN [s \in Nat |-> s] ELSE [s \in Nat |-> g[i - 1][s] \div Fan]]
    BY DEF UpTo
  <1>3. CASE j = 0
    BY <1>0, <1>2, <1>3
  <1>4. CASE j # 0
    <2>1. j - 1 \in Nat /\ j - 1 \notin B /\ j - 1 <= m /\ j - 1 <= n
      BY <1>1, <1>4
    <2>2. f[j - 1] = g[j - 1] BY <2>1
    <2>3. f[j] = [s \in Nat |-> f[j - 1][s] \div Fan] /\ g[j] = [s \in Nat |-> g[j - 1][s] \div Fan]
      BY <1>0, <1>2, <1>4
    <2> QED BY <2>2, <2>3, <1>2
  <1> QED BY <1>3, <1>4

(* above is what its definition says.                                       *)
LEMMA UpIs ==
    above = [k \in Nat |-> IF k = 0 THEN [i \in Nat |-> i]
                        ELSE [i \in Nat |-> above[k - 1][i] \div Fan]]
  <1> DEFINE F(k) == CHOOSE f : UpTo(k, f)
             G == [k \in Nat |-> F(k)[k]]
             H == [k \in Nat |-> IF k = 0 THEN [i \in Nat |-> i]
                                 ELSE [i \in Nat |-> G[k - 1][i] \div Fan]]
  <1>1. \A k \in Nat : UpTo(k, F(k))
    BY UpToExists
  <1>2. ASSUME NEW k \in Nat PROVE G[k] = H[k]
    <2>1. UpTo(k, F(k)) /\ G[k] = F(k)[k]
      BY <1>1
    <2> DEFINE f == F(k)
    <2> HIDE DEF F
    <2>2. f = [j \in 0 .. k |-> IF j = 0 THEN [i \in Nat |-> i] ELSE [i \in Nat |-> f[j - 1][i] \div Fan]]
      BY <2>1 DEF UpTo
    <2> HIDE DEF f
    <2>3. k \in 0 .. k OBVIOUS
    <2>4. f[k] = IF k = 0 THEN [i \in Nat |-> i] ELSE [i \in Nat |-> f[k - 1][i] \div Fan]
      BY <2>2, <2>3
    <2>5. CASE k = 0
      BY <2>5, <2>4, <2>1 DEF f
    <2>6. CASE k # 0
      <3>1. k - 1 \in Nat /\ k - 1 <= k BY <2>6
      <3>2. UpTo(k - 1, F(k - 1)) /\ G[k - 1] = F(k - 1)[k - 1] BY <1>1, <3>1
      <3>3. f[k - 1] = G[k - 1]
        <4>1. F(k)[k - 1] = F(k - 1)[k - 1]
          BY <3>1, <3>2, <2>1, UpToAgree
        <4> QED BY <4>1, <3>2 DEF f
      <3> QED BY <2>6, <2>4, <3>3, <2>1 DEF f
    <2> QED BY <2>5, <2>6
  <1>3. G = H BY <1>2
  <1> HIDE DEF F
  <1>4. \E u : u = [k \in Nat |-> IF k = 0 THEN [i \in Nat |-> i]
                                  ELSE [i \in Nat |-> u[k - 1][i] \div Fan]]
    BY <1>3
  <1> QED BY <1>4 DEF above

(* The first steps of above.                                                *)
LEMMA UpStep ==
    /\ \A i \in Nat : above[0][i] = i
    /\ \A k, i \in Nat : above[k + 1][i] = above[k][i] \div Fan
  <1>1. above[0] = [i \in Nat |-> i]
    BY UpIs
  <1>2. ASSUME NEW k \in Nat PROVE above[k + 1] = [i \in Nat |-> above[k][i] \div Fan]
    <2>1. k + 1 \in Nat /\ k + 1 # 0 /\ k + 1 - 1 = k OBVIOUS
    <2> QED BY <2>1, UpIs
  <1>3. \A i \in Nat : above[0][i] = i BY <1>1
  <1>4. ASSUME NEW k \in Nat, NEW i \in Nat PROVE above[k + 1][i] = above[k][i] \div Fan
    <2> HIDE DEF above
    <2>1. above[k + 1] = [j \in Nat |-> above[k][j] \div Fan] BY <1>2
    <2> QED BY ONLY <2>1
  <1> QED BY <1>3, <1>4

(* Division by Fan.                                                         *)
LEMMA DivFan ==
    ASSUME NEW i \in Nat, NEW j \in Nat
    PROVE  /\ Fan \in Nat /\ Fan > 1 /\ PageSectors <= Fan
           /\ i \div Fan \in Nat
           /\ i > 0 => i \div Fan < i
           /\ i <= j => i \div Fan <= j \div Fan
           /\ j - i <= Fan => j \div Fan <= i \div Fan + 1
  <1>1. Fan \in Nat /\ Fan > 1 /\ PageSectors <= Fan
    BY CacheConstants
  <1> DEFINE F == Fan
             a == i \div F
             b == j \div F
  <1>2. F \in Nat /\ F > 1 BY <1>1
  <1> HIDE DEF F
  <1>3. a \in Nat /\ b \in Nat /\ F * a <= i /\ i < F * a + F /\ F * b <= j /\ j < F * b + F
    BY <1>2, Z3
  <1> HIDE DEF a, b
  <1>4. i > 0 => a < i
    <2> DEFINE G == F - 2
    <2>0. G \in Nat /\ F = G + 2 BY <1>2
    <2> HIDE DEF G
    <2>2. G * a \in Nat BY <2>0, <1>3
    <2>3. F * a = G * a + 2 * a BY <2>0, <1>3
    <2> DEFINE P == G * a
               Q == F * a
    <2>4. P \in Nat /\ Q = P + 2 * a /\ a \in Nat /\ Q <= i /\ i \in Nat BY <2>2, <2>3, <1>3
    <2> HIDE DEF P, Q
    <2> QED BY ONLY <2>4
  <1>5. i <= j => a <= b
    <2>1. a >= b + 1 => F * a >= F * b + F BY <1>2, <1>3, Z3
    <2> QED BY <2>1, <1>3, <1>2
  <1>6. j - i <= F => b <= a + 1
    <2>1. b >= a + 2 => F * b >= F * a + 2 * F BY <1>2, <1>3, Z3
    <2> QED BY <2>1, <1>3, <1>2
  <1> QED BY <1>1, <1>3, <1>4, <1>5, <1>6 DEF a, b, F

(* above is a number, of a number and a height.                             *)
LEMMA UpNat ==
    ASSUME NEW k \in Nat, NEW i \in Nat
    PROVE  above[k][i] \in Nat
  <1> DEFINE B == {m \in Nat : above[m][i] \notin Nat}
  <1> SUFFICES B = {} OBVIOUS
  <1> SUFFICES ASSUME B # {} PROVE FALSE OBVIOUS
  <1>1. PICK m \in B : \A y \in B : m <= y BY Minimum
  <1>2. m # 0 BY <1>1, UpStep
  <1>3. m - 1 \in Nat /\ m - 1 \notin B /\ (m - 1) + 1 = m BY <1>1, <1>2
  <1>4. above[m - 1][i] \in Nat BY <1>3
  <1>5. above[m][i] = above[m - 1][i] \div Fan BY <1>3, UpStep
  <1>6. above[m][i] \in Nat BY <1>4, <1>5, DivFan
  <1> QED BY <1>6, <1>1

(* One height first or last is the same.                                    *)
LEMMA UpShift ==
    ASSUME NEW k \in Nat, NEW i \in Nat
    PROVE  above[k + 1][i] = above[k][i \div Fan]
  <1> DEFINE B == {m \in Nat : above[m + 1][i] # above[m][i \div Fan]}
  <1> SUFFICES B = {} OBVIOUS
  <1> SUFFICES ASSUME B # {} PROVE FALSE OBVIOUS
  <1>0. i \div Fan \in Nat BY DivFan
  <1>1. PICK m \in B : \A y \in B : m <= y BY Minimum
  <1>2. m # 0
    <2>1. above[0 + 1][i] = above[0][i] \div Fan BY UpStep
    <2>2. above[0][i] = i /\ above[0][i \div Fan] = i \div Fan BY <1>0, UpStep
    <2> QED BY <2>1, <2>2, <1>1
  <1>3. m - 1 \in Nat /\ m - 1 \notin B /\ (m - 1) + 1 = m BY <1>1, <1>2
  <1>4. above[m][i] = above[m - 1][i \div Fan] BY <1>3
  <1>5. above[m + 1][i] = above[m][i] \div Fan /\ above[m][i \div Fan] = above[m - 1][i \div Fan] \div Fan
    BY <1>3, <1>0, UpStep
  <1> QED BY <1>4, <1>5, <1>1

(* Every height takes at least one off, down to zero.                       *)
LEMMA UpSmall ==
    ASSUME NEW k \in Nat, NEW i \in Nat
    PROVE  above[k][i] = 0 \/ above[k][i] + k <= i
  <1> DEFINE B == {m \in Nat : ~(above[m][i] = 0 \/ above[m][i] + m <= i)}
  <1> SUFFICES B = {} OBVIOUS
  <1> SUFFICES ASSUME B # {} PROVE FALSE OBVIOUS
  <1>1. PICK m \in B : \A y \in B : m <= y BY Minimum
  <1>2. m # 0 BY <1>1, UpStep
  <1>3. m - 1 \in Nat /\ m - 1 \notin B /\ (m - 1) + 1 = m BY <1>1, <1>2
  <1> DEFINE x == above[m - 1][i]
  <1>4. (x = 0 \/ x + (m - 1) <= i) /\ x \in Nat BY <1>3, UpNat
  <1>5. above[m][i] = x \div Fan BY <1>3, UpStep
  <1> HIDE DEF x
  <1>7. 0 \div Fan = 0 BY DivFan
  <1>8. x \div Fan \in Nat /\ (x > 0 => x \div Fan < x) BY <1>4, DivFan
  <1>9. above[m][i] = 0 \/ above[m][i] + m <= i
    BY <1>4, <1>5, <1>7, <1>8, <1>3
  <1> QED BY <1>9, <1>1

(* Sectors of a page lie below two nodes of a height that are neighbours, or *)
(* below one.                                                               *)
LEMMA UpNear ==
    ASSUME NEW k \in Nat, NEW i \in Nat, NEW j \in Nat, i <= j, j - i <= Fan
    PROVE  above[k + 1][i] <= above[k + 1][j] /\ above[k + 1][j] <= above[k + 1][i] + 1
  <1> DEFINE P(m) == above[m + 1][i] <= above[m + 1][j] /\ above[m + 1][j] <= above[m + 1][i] + 1
             B == {m \in Nat : ~P(m)}
  <1> SUFFICES B = {} OBVIOUS
  <1> SUFFICES ASSUME B # {} PROVE FALSE OBVIOUS
  <1>1. PICK m \in B : \A y \in B : m <= y BY Minimum
  <1> DEFINE x == above[m][i]
             y == above[m][j]
  <1>2. x \in Nat /\ y \in Nat /\ above[m + 1][i] = x \div Fan /\ above[m + 1][j] = y \div Fan
    BY <1>1, UpNat, UpStep
  <1>3. x <= y /\ y - x <= Fan
    <2>1. CASE m = 0
      BY <2>1, UpStep
    <2>2. CASE m # 0
      <3>1. m - 1 \in Nat /\ m - 1 \notin B /\ (m - 1) + 1 = m BY <1>1, <2>2
      <3>2. x <= y /\ y <= x + 1 BY <3>1
      <3>3. Fan \in Nat /\ Fan > 1 BY CacheConstants
      <3> HIDE DEF x, y
      <3> QED BY <3>2, <3>3, <1>2
    <2> QED BY <2>1, <2>2
  <1> HIDE DEF x, y
  <1>4. x \div Fan <= y \div Fan /\ y \div Fan <= x \div Fan + 1
    BY <1>2, <1>3, DivFan
  <1> QED BY <1>4, <1>2, <1>1

(* The tree is high enough for the disk.                                    *)
LEMMA HeightFits ==
    /\ Height \in Nat /\ Height >= 1 /\ Height <= DiskSectors
    /\ \A s \in ImageSectors : s \in Nat /\ above[Height + 1][s] = 0
  <1>0. DiskSectors \in Nat /\ DiskSectors > 0 BY CacheConstants
  <1> DEFINE S == {h \in 1 .. DiskSectors : Fits(h)}
  <1>1. DiskSectors \in S
    <2>1. ASSUME NEW s \in ImageSectors PROVE above[DiskSectors + 1][s] = 0
      <3>1. s \in Nat /\ s < DiskSectors /\ DiskSectors + 1 \in Nat BY <1>0 DEF ImageSectors
      <3> DEFINE x == above[DiskSectors + 1][s]
      <3>2. x \in Nat BY <3>1, UpNat
      <3>3. x = 0 \/ x + (DiskSectors + 1) <= s
        BY <3>1, UpSmall
      <3> HIDE DEF x
      <3>4. x = 0 BY <3>1, <3>2, <3>3, <1>0
      <3> QED BY <3>4 DEF x
    <2> QED BY <2>1, <1>0 DEF Fits
  <1>2. PICK h \in S : \A g \in S : h <= g
    BY <1>1, Minimum, S \in SUBSET Nat
  <1>3. \E x \in 1 .. DiskSectors : Fits(x) /\ \A g \in 1 .. DiskSectors : Fits(g) => x <= g
    BY <1>2
  <1>4. Height \in 1 .. DiskSectors /\ Fits(Height)
    BY <1>3 DEF Height
  <1> QED BY <1>4, <1>0 DEF Fits, ImageSectors

-----------------------------------------------------------------------------
(* The inductive invariant.                                                 *)

\* The nodes hang together, and from the root.
TreeOK ==
    /\ nodes \subseteq (0 .. Height) \X Nat
    /\ \A n \in nodes : n[1] = Height => n = Root
    /\ \A n \in nodes \ {Root} : NodeOf(LinkTo(n)) \in nodes
    /\ IsFiniteSet(nodes)
    /\ nodes # {} => Root \in nodes
    /\ nodes = {} => DOMAIN reqs = {} /\ run = Rest

\* Leaves lead to pages, and pages know their leaves.
LeavesOK ==
    /\ DOMAIN leaf \subseteq ImageSectors
    /\ \A s \in DOMAIN leaf :
        /\ leaf[s].page \in DOMAIN page
        /\ page[leaf[s].page].sec + leaf[s].off = s
        /\ s \in page[leaf[s].page].owners
    /\ \A p \in DOMAIN page : \A s \in page[p].owners :
        s \in DOMAIN leaf /\ leaf[s].page = p

LeafNodes == \A s \in DOMAIN leaf : NodeOf(<<0, s>>) \in nodes

\* So many sectors, all of them in the image.
Read(r) ==
    /\ r.sec \in Nat /\ r.secs \in Nat /\ r.secs >= 1 /\ r.secs <= PageSectors
    /\ r.sec + r.secs <= DiskSectors

PagesOK ==
    /\ DOMAIN page \subseteq 1 .. DiskSectors + 1
    /\ \A p \in DOMAIN page :
        /\ Read(page[p]) /\ "owners" \in DOMAIN page[p]
        /\ page[p].owners = page[p].sec .. page[p].sec + Filled(p) - 1

ReqsOK ==
    /\ DOMAIN reqs \subseteq 1 .. Pool
    /\ \A i \in DOMAIN reqs : Read(reqs[i])

FillOK ==
    run.op = "fill" =>
       /\ run = Fill(run.slot, run.page, run.done)
       /\ run.slot \in DOMAIN reqs /\ run.page \in DOMAIN page
       /\ run.done \in Nat /\ run.done <= page[run.page].secs

\* The links that lead somewhere, and those of them that pruning has passed in
\* a node on its way that it holds to be empty: none.
Down == {<<0, s>> : s \in DOMAIN leaf} \cup {LinkTo(n) : n \in nodes}

Passed(low, at, kept, over, D) ==
    \A l \in D :
        l[1] \in low .. Height /\ l[1] \notin kept /\ l[2] \div Fan = at[l[1]] \div Fan
          => l[2] > at[l[1]] \/ (l[2] = at[l[1]] /\ (l[1] = low => ~over))

PruneOK(low, at, kept, over, ns, D) ==
    /\ low \in 0 .. Height /\ over \in BOOLEAN /\ kept \subseteq 0 .. Height
    /\ at \in [low .. Height -> Nat]
    /\ \A h \in low .. Height : <<h, at[h] \div Fan>> \in ns
    /\ \A h \in low .. Height : h # Height => at[h] \div Fan = at[h + 1]
    /\ over => IsLast(<<low, at[low]>>)
    /\ Passed(low, at, kept, over, D)

Pruning(r, ns, D) ==
    /\ r = Prune(r.low, r.at, r.kept, r.over)
    /\ PruneOK(r.low, r.at, r.kept, r.over, ns, D)

RunOK ==
    /\ run = Rest \/ run.op = "fill" \/ run.op = "prune"
    /\ FillOK
    /\ run.op = "prune" => Pruning(run, nodes, Down)

\* The nodes there are, or that the page being filled may still need.
WayNodes(r) == {<<h, above[h + 1][s]>> : h \in 0 .. Height - 1, s \in r.sec .. r.sec + r.secs - 1}
Nodes    == nodes \cup (IF run.op = "fill" THEN WayNodes(page[run.page]) ELSE {})
Promised == {c \in SectorsOf(reqs) : c[1] \in Waiting}

Total(S, K, P, W) ==
    Cardinality(S) + Cardinality(K) * NodeSize + Cardinality(P) + Cardinality(W) * PageNodes
Bound  == MaxSize + (Pool - 1) * PageSectors + Pool * PageNodes
SizeOK == Total(SectorsOf(page), Nodes, Promised, Waiting) < Bound

CacheInv == TreeOK /\ LeavesOK /\ LeafNodes /\ PagesOK /\ ReqsOK /\ RunOK /\ SizeOK

-----------------------------------------------------------------------------
(* Division and the order of the links of a node.                           *)

(* The links of a node come one after the other, the last one last.         *)
LEMMA LastFan ==
    ASSUME NEW j \in Nat, NEW m \in Nat
    PROVE  /\ (j + 1) % Fan # 0 => (j + 1) \div Fan = j \div Fan
           /\ (j + 1) % Fan = 0 /\ m \div Fan = j \div Fan => m <= j
           /\ j * Fan \in Nat /\ (j * Fan) \div Fan = j
           /\ m \div Fan = j => m >= j * Fan
  <1> DEFINE F == Fan
             a == j \div F
             b == (j + 1) \div F
             c == m \div F
             p == (j + 1) % F
             q == (j * F) \div F
  <1>1. F \in Nat /\ F > 1 BY CacheConstants
  <1> HIDE DEF F
  <1>2. /\ a \in Nat /\ F * a <= j /\ j < F * a + F
        /\ b \in Nat /\ p \in Nat /\ p < F /\ j + 1 = F * b + p
        /\ c \in Nat /\ F * c <= m /\ m < F * c + F
    BY <1>1, Z3
  <1>3. j * F \in Nat BY <1>1
  <1>4. q \in Nat /\ F * q <= j * F /\ j * F < F * q + F
    <2> DEFINE y == j * F
    <2>1. y \in Nat BY <1>3
    <2> HIDE DEF y
    <2>2. (y \div F) \in Nat /\ F * (y \div F) <= y /\ y < F * (y \div F) + F
      BY <2>1, <1>1, Z3
    <2> QED BY <2>2 DEF y
  <1> HIDE DEF a, b, c, p, q
  <1>5. p # 0 => b = a
    <2> SUFFICES ASSUME p # 0, b # a PROVE FALSE OBVIOUS
    <2>1. a >= b + 1 => F * a >= F * b + F BY <1>1, <1>2, Z3
    <2>2. b >= a + 1 => F * b >= F * a + F BY <1>1, <1>2, Z3
    <2> DEFINE Fa == F * a
               Fb == F * b
    <2>3. /\ Fa \in Int /\ Fb \in Int /\ a \in Nat /\ b \in Nat /\ Fa <= j /\ j < Fa + F
          /\ j + 1 = Fb + p /\ p > 0 /\ p < F /\ j \in Nat /\ F \in Nat /\ p \in Nat
          /\ (a >= b + 1 => Fa >= Fb + F) /\ (b >= a + 1 => Fb >= Fa + F) /\ a # b
      BY <1>1, <1>2, <2>1, <2>2
    <2> HIDE DEF Fa, Fb
    <2> QED BY ONLY <2>3
  <1>6. p = 0 /\ c = a => m <= j
    <2> SUFFICES ASSUME p = 0, c = a PROVE m <= j OBVIOUS
    <2>2. b >= a + 1 => F * b >= F * a + F BY <1>1, <1>2, Z3
    <2>1. b <= a => F * b <= F * a BY <1>1, <1>2, Z3
    <2> DEFINE Fa == F * a
               Fb == F * b
    <2>3. /\ Fa \in Int /\ Fb \in Int /\ a \in Nat /\ b \in Nat /\ Fa <= j /\ j < Fa + F
          /\ j + 1 = Fb /\ m < Fa + F /\ j \in Nat /\ F \in Nat /\ m \in Nat
          /\ (b <= a => Fb <= Fa) /\ (b >= a + 1 => Fb >= Fa + F)
      BY <1>1, <1>2, <2>1, <2>2
    <2> HIDE DEF Fa, Fb
    <2> QED BY ONLY <2>3
  <1>7. q = j
    <2>1. q >= j + 1 => F * q >= F * j + F BY <1>1, <1>4, Z3
    <2>2. j >= q + 1 => F * j >= F * q + F BY <1>1, <1>4, Z3
    <2>4. j * F = F * j BY <1>1
    <2> DEFINE Fq == F * q
               Fj == F * j
    <2>3. /\ Fq \in Int /\ Fj \in Int /\ q \in Nat /\ j \in Nat /\ Fq <= Fj /\ Fj < Fq + F
          /\ F \in Nat /\ F > 1
          /\ (q >= j + 1 => Fq >= Fj + F) /\ (j >= q + 1 => Fj >= Fq + F)
      BY <1>1, <1>4, <2>1, <2>2, <2>4
    <2> HIDE DEF Fq, Fj
    <2> QED BY ONLY <2>3
  <1>8. c = j => m >= j * F
    BY <1>1, <1>2
  <1> QED BY <1>3, <1>5, <1>6, <1>7, <1>8 DEF F, a, b, c, p, q

-----------------------------------------------------------------------------
(* Where pruning is.                                                        *)

(* What was passed stays passed while nodes and leaves go, but for the nodes *)
(* on the way.                                                              *)
LEMMA PruneLess ==
    ASSUME NEW low, NEW at, NEW kept, NEW over, NEW ns, NEW D, NEW ms, NEW E,
           PruneOK(low, at, kept, over, ns, D), E \subseteq D,
           \A h \in low .. Height : <<h, at[h] \div Fan>> \in ms
    PROVE  PruneOK(low, at, kept, over, ms, E)
  <1>1. Passed(low, at, kept, over, E)
    BY DEF PruneOK, Passed
  <1> QED BY <1>1 DEF PruneOK

(* A link that leads nowhere, or keeps its node, has been seen.             *)
LEMMA SeenOK ==
    ASSUME NEW low, NEW at, NEW kept, NEW ns, NEW D,
           D \subseteq Nat \X Nat,
           PruneOK(low, at, kept, FALSE, ns, D),
           low \in kept \/ <<low, at[low]>> \notin D
    PROVE  Pruning(SeenLink(low, at, kept), ns, D)
  <1>0. /\ low \in 0 .. Height /\ kept \subseteq 0 .. Height /\ at \in [low .. Height -> Nat]
        /\ \A h \in low .. Height : <<h, at[h] \div Fan>> \in ns
        /\ \A h \in low .. Height : h # Height => at[h] \div Fan = at[h + 1]
        /\ Passed(low, at, kept, FALSE, D)
    BY DEF PruneOK
  <1>1. low \in low .. Height /\ low \in Nat /\ at[low] \in Nat
    BY <1>0, HeightFits
  <1>2. ASSUME NEW l \in D, l[1] = low, low \notin kept, l[2] \div Fan = at[low] \div Fan
        PROVE  l[2] > at[low] /\ l[2] \in Nat
    <2>1. l[2] > at[low] \/ l[2] = at[low]
      BY <1>0, <1>1, <1>2 DEF Passed
    <2>2. l = <<l[1], l[2]>> /\ l[2] \in Nat
      OBVIOUS
    <2>3. l[2] # at[low]
      BY <2>2, <1>2
    <2> QED BY <2>1, <2>2, <2>3
  <1>3. CASE IsLast(<<low, at[low]>>)
    <2>1. Passed(low, at, kept, TRUE, D)
      <3> SUFFICES ASSUME NEW l \in D, l[1] \in low .. Height, l[1] \notin kept,
                          l[2] \div Fan = at[l[1]] \div Fan
                   PROVE  l[2] > at[l[1]] \/ (l[2] = at[l[1]] /\ l[1] # low)
        BY DEF Passed
      <3>1. CASE l[1] = low
        BY <3>1, <1>2
      <3>2. CASE l[1] # low
        BY <3>2, <1>0 DEF Passed
      <3> QED BY <3>1, <3>2
    <2>2. PruneOK(low, at, kept, TRUE, ns, D)
      BY <2>1, <1>3, <1>0 DEF PruneOK
    <2>3. SeenLink(low, at, kept) = Prune(low, at, kept, TRUE)
      BY <1>3 DEF SeenLink
    <2>4. Pruning(Prune(low, at, kept, TRUE), ns, D)
      BY <2>2 DEF Pruning, Prune
    <2> QED BY <2>3, <2>4
  <1>4. CASE ~IsLast(<<low, at[low]>>)
    <2> DEFINE bt == [at EXCEPT ![low] = @ + 1]
    <2>1. /\ bt \in [low .. Height -> Nat] /\ bt[low] = at[low] + 1
          /\ \A h \in low .. Height : h # low => bt[h] = at[h]
      BY <1>0, <1>1
    <2>2. bt[low] \div Fan = at[low] \div Fan
      <3>1. (at[low] + 1) % Fan # 0 BY <1>4 DEF IsLast
      <3> QED BY <3>1, <2>1, <1>1, LastFan
    <2> HIDE DEF bt
    <2>3. \A h \in low .. Height : bt[h] \div Fan = at[h] \div Fan
      BY <2>1, <2>2
    <2>4. Passed(low, bt, kept, FALSE, D)
      <3> SUFFICES ASSUME NEW l \in D, l[1] \in low .. Height, l[1] \notin kept,
                          l[2] \div Fan = bt[l[1]] \div Fan
                   PROVE  l[2] > bt[l[1]] \/ l[2] = bt[l[1]]
        BY DEF Passed
      <3>0. l[2] \div Fan = at[l[1]] \div Fan BY <2>3
      <3>1. CASE l[1] = low
        <4>1. l[2] > at[low] /\ l[2] \in Nat BY <3>1, <3>0, <1>2
        <4> QED BY <4>1, <2>1, <3>1, <1>1
      <3>2. CASE l[1] # low
        BY <3>2, <3>0, <2>1, <1>0 DEF Passed
      <3> QED BY <3>1, <3>2
    <2>5. \A h \in low .. Height : h # Height => bt[h] \div Fan = bt[h + 1]
      <3> TAKE h \in low .. Height
      <3> HAVE h # Height
      <3>1. h + 1 \in low .. Height /\ h + 1 # low BY <1>0, HeightFits
      <3> QED BY <3>1, <2>3, <2>1, <1>0
    <2>6. PruneOK(low, bt, kept, FALSE, ns, D)
      BY <2>1, <2>3, <2>4, <2>5, <1>0 DEF PruneOK
    <2>7. SeenLink(low, at, kept) = Prune(low, bt, kept, FALSE)
      BY <1>4 DEF SeenLink, bt
    <2>8. Pruning(Prune(low, bt, kept, FALSE), ns, D)
      BY <2>6 DEF Pruning, Prune
    <2> QED BY <2>7, <2>8
  <1> QED BY <1>3, <1>4

(* Down to the first link of a node.                                        *)
LEMMA DownOK ==
    ASSUME NEW low, NEW at, NEW kept, NEW ns, NEW D,
           D \subseteq Nat \X Nat,
           PruneOK(low, at, kept, FALSE, ns, D), low > 0, <<low - 1, at[low]>> \in ns
    PROVE  Pruning(Prune(low - 1, [h \in low - 1 .. Height |->
                                     IF h = low - 1 THEN at[low] * Fan ELSE at[h]],
                         kept \ {low - 1}, FALSE), ns, D)
  <1>0. /\ low \in 0 .. Height /\ kept \subseteq 0 .. Height /\ at \in [low .. Height -> Nat]
        /\ \A h \in low .. Height : <<h, at[h] \div Fan>> \in ns
        /\ \A h \in low .. Height : h # Height => at[h] \div Fan = at[h + 1]
        /\ Passed(low, at, kept, FALSE, D)
    BY DEF PruneOK
  <1>1. low \in low .. Height /\ low \in Nat /\ at[low] \in Nat /\ Height \in Nat /\ low - 1 \in 0 .. Height
    BY <1>0, HeightFits
  <1> DEFINE w == low - 1
             bt == [h \in w .. Height |-> IF h = w THEN at[low] * Fan ELSE at[h]]
  <1>2. /\ bt \in [w .. Height -> Nat] /\ bt[w] = at[low] * Fan /\ bt[w] \div Fan = at[low]
        /\ \A h \in low .. Height : bt[h] = at[h] /\ h # w
    <2>1. at[low] * Fan \in Nat /\ (at[low] * Fan) \div Fan = at[low]
      BY <1>1, LastFan
    <2> QED BY <2>1, <1>0, <1>1
  <1>3. w \in 0 .. Height /\ w \in Nat /\ w + 1 = low /\ \A h \in w .. Height : h = w \/ h \in low .. Height
    BY <1>1
  <1> HIDE DEF bt, w
  <1>4. Passed(w, bt, kept \ {w}, FALSE, D)
    <2> SUFFICES ASSUME NEW l \in D, l[1] \in w .. Height, l[1] \notin kept \ {w},
                        l[2] \div Fan = bt[l[1]] \div Fan
                 PROVE  l[2] > bt[l[1]] \/ l[2] = bt[l[1]]
      BY DEF Passed
    <2>0. l[2] \in Nat OBVIOUS
    <2>1. CASE l[1] = w
      <3>1. l[2] >= at[low] * Fan BY <2>0, <2>1, <1>2, <1>1, LastFan
      <3> QED BY <3>1, <2>0, <2>1, <1>2, <1>3
    <2>2. CASE l[1] # w
      BY <2>2, <1>2, <1>3, <1>0 DEF Passed
    <2> QED BY <2>1, <2>2
  <1>5. \A h \in w .. Height : <<h, bt[h] \div Fan>> \in ns
    BY <1>0, <1>2, <1>3 DEF w
  <1>6. \A h \in w .. Height : h # Height => bt[h] \div Fan = bt[h + 1]
    <2> TAKE h \in w .. Height
    <2> HAVE h # Height
    <2>1. CASE h = w
      BY <2>1, <1>2, <1>3, <1>1
    <2>2. CASE h # w
      <3>1. h \in low .. Height /\ h + 1 \in low .. Height BY <2>2, <1>3, <1>1
      <3> QED BY <3>1, <1>2, <1>0
    <2> QED BY <2>1, <2>2
  <1>7. PruneOK(w, bt, kept \ {w}, FALSE, ns, D)
    BY <1>2, <1>3, <1>4, <1>5, <1>6, <1>0 DEF PruneOK
  <1>8. Pruning(Prune(w, bt, kept \ {w}, FALSE), ns, D)
    BY <1>7 DEF Pruning, Prune
  <1> QED BY <1>8 DEF w, bt

(* Back to the link that led to the node.                                   *)
LEMMA UpOK ==
    ASSUME NEW low, NEW at, NEW kept, NEW ns, NEW D,
           PruneOK(low, at, kept, TRUE, ns, D), low < Height
    PROVE  PruneOK(low + 1, [g \in low + 1 .. Height |-> at[g]], kept, FALSE, ns, D)
  <1>0. /\ low \in 0 .. Height /\ kept \subseteq 0 .. Height /\ at \in [low .. Height -> Nat]
        /\ \A h \in low .. Height : <<h, at[h] \div Fan>> \in ns
        /\ \A h \in low .. Height : h # Height => at[h] \div Fan = at[h + 1]
        /\ Passed(low, at, kept, TRUE, D)
    BY DEF PruneOK
  <1> DEFINE w == low + 1
             bt == [g \in w .. Height |-> at[g]]
  <1>1. /\ w \in 0 .. Height /\ \A h \in w .. Height : h \in low .. Height /\ h # low /\ bt[h] = at[h]
        /\ bt \in [w .. Height -> Nat]
    BY <1>0, HeightFits
  <1>2. \A h \in w .. Height : h # Height => h + 1 \in w .. Height
    BY <1>1, HeightFits
  <1> HIDE DEF bt
  <1>3. Passed(w, bt, kept, FALSE, D)
    BY <1>0, <1>1 DEF Passed
  <1>4. \A h \in w .. Height : h # Height => bt[h] \div Fan = bt[h + 1]
    BY <1>0, <1>1, <1>2
  <1>5. PruneOK(w, bt, kept, FALSE, ns, D)
    BY <1>0, <1>1, <1>3, <1>4 DEF PruneOK
  <1> QED BY <1>5 DEF bt

(* What is kept is not held to be empty.                                    *)
LEMMA KeepOK ==
    ASSUME NEW low, NEW at, NEW kept, NEW over, NEW ns, NEW D,
           PruneOK(low, at, kept, over, ns, D)
    PROVE  PruneOK(low, at, kept \cup {low}, over, ns, D)
  BY DEF PruneOK, Passed

-----------------------------------------------------------------------------
(* The size.                                                                *)

(* More of one is not less in all.                                          *)
LEMMA TimesLess ==
    ASSUME NEW a \in Nat, NEW b \in Nat, NEW n \in Nat, a <= b
    PROVE  a * n \in Nat /\ b * n \in Nat /\ a * n <= b * n
  <1> DEFINE d == b - a
  <1>1. d \in Nat /\ b = a + d OBVIOUS
  <1> HIDE DEF d
  <1>2. a * n \in Nat /\ d * n \in Nat BY <1>1
  <1>3. b * n = a * n + d * n BY <1>1
  <1> DEFINE x == a * n
             y == d * n
             z == b * n
  <1>4. x \in Nat /\ y \in Nat /\ z = x + y BY <1>2, <1>3
  <1> HIDE DEF x, y, z
  <1>5. z \in Nat /\ x <= z BY ONLY <1>4
  <1> QED BY <1>5, <1>4 DEF x, z

(* The constants of the size.                                               *)
LEMMA SizeConstants ==
    /\ NodeSize \in Nat /\ NodeSize > 0 /\ MaxSize \in Nat /\ MaxSize > 0
    /\ PageSectors \in Nat /\ PageSectors > 0 /\ Pool \in Nat /\ Pool > 0
    /\ PageNodes \in Nat /\ PageNodes >= 2 * NodeSize
  <1>1. /\ NodeSize \in Nat /\ NodeSize > 0 /\ MaxSize \in Nat /\ MaxSize > 0
        /\ PageSectors \in Nat /\ PageSectors > 0 /\ Pool \in Nat /\ Pool > 0
    BY CacheConstants
  <1> DEFINE H == Height
             G == H - 1
  <1>2. H \in Nat /\ G \in Nat /\ H = G + 1 BY HeightFits
  <1> HIDE DEF H, G
  <1>3. G * NodeSize \in Nat BY <1>1, <1>2
  <1>4. 2 * H * NodeSize = 2 * (G * NodeSize) + 2 * NodeSize BY <1>1, <1>2
  <1>5. PageNodes = 2 * H * NodeSize BY DEF PageNodes, H
  <1> DEFINE x == G * NodeSize
  <1>6. x \in Nat /\ PageNodes = 2 * x + 2 * NodeSize BY <1>3, <1>4, <1>5
  <1> HIDE DEF x
  <1> QED BY <1>1, <1>6

(* The total of less is not more.                                           *)
LEMMA TotalLess ==
    ASSUME NEW S, NEW K, NEW P, NEW W, NEW S2, NEW K2, NEW P2, NEW W2,
           IsFiniteSet(S), IsFiniteSet(K), IsFiniteSet(P), IsFiniteSet(W),
           S2 \subseteq S, K2 \subseteq K, P2 \subseteq P, W2 \subseteq W
    PROVE  Total(S2, K2, P2, W2) <= Total(S, K, P, W)
  <1> DEFINE a == Cardinality(S)
             a2 == Cardinality(S2)
             b == Cardinality(K)
             b2 == Cardinality(K2)
             c == Cardinality(P)
             c2 == Cardinality(P2)
             d == Cardinality(W)
             d2 == Cardinality(W2)
  <1>1. a \in Nat /\ b \in Nat /\ c \in Nat /\ d \in Nat
    BY FS_CardinalityType
  <1>2. a2 \in Nat /\ a2 <= a BY FS_Subset, FS_CardinalityType
  <1>3. b2 \in Nat /\ b2 <= b BY FS_Subset, FS_CardinalityType
  <1>4. c2 \in Nat /\ c2 <= c BY FS_Subset, FS_CardinalityType
  <1>5. d2 \in Nat /\ d2 <= d BY FS_Subset, FS_CardinalityType
  <1>6. /\ Total(S, K, P, W) = a + b * NodeSize + c + d * PageNodes
        /\ Total(S2, K2, P2, W2) = a2 + b2 * NodeSize + c2 + d2 * PageNodes
    BY DEF Total
  <1> HIDE DEF a, b, c, d, a2, b2, c2, d2
  <1> DEFINE x == b * NodeSize
             x2 == b2 * NodeSize
             y == d * PageNodes
             y2 == d2 * PageNodes
  <1>7. x \in Nat /\ x2 \in Nat /\ x2 <= x BY <1>1, <1>3, SizeConstants, TimesLess
  <1>8. y \in Nat /\ y2 \in Nat /\ y2 <= y BY <1>1, <1>5, SizeConstants, TimesLess
  <1> HIDE DEF x, x2, y, y2
  <1>9. a2 + x2 + c2 + y2 <= a + x + c + y BY <1>1, <1>2, <1>4, <1>7, <1>8
  <1> QED BY <1>9, <1>6 DEF x, x2, y, y2

(* What is counted is finite.                                               *)
LEMMA WayFinite ==
    ASSUME NEW r, Read(r)
    PROVE  IsFiniteSet(WayNodes(r)) /\ Cardinality(WayNodes(r)) <= 2 * Height
  <1> DEFINE S == WayNodes(r)
             T == (0 .. Height - 1) \X (0 .. 1)
             f == [n \in S |-> <<n[1], n[2] - above[n[1] + 1][r.sec]>>]
  <1>0. Height \in Nat /\ Height >= 1 /\ r.sec \in Nat /\ r.secs \in Nat /\ r.secs <= PageSectors
    BY HeightFits DEF Read
  <1>1. IsFiniteSet(T) /\ Cardinality(T) = 2 * Height
    <2> DEFINE G == Height - 1
    <2>0. G \in Int /\ 0 \in Int /\ ~(0 > G) /\ G - 0 + 1 = Height BY <1>0
    <2> HIDE DEF G
    <2>1. IsFiniteSet(0 .. G) /\ Cardinality(0 .. G) = Height
      BY <2>0, FS_Interval
    <2>2. IsFiniteSet(0 .. 1) /\ Cardinality(0 .. 1) = 2
      <3>1. 0 \in Int /\ 1 \in Int /\ ~(0 > 1) OBVIOUS
      <3>2. IsFiniteSet(0 .. 1) /\ Cardinality(0 .. 1) = IF 0 > 1 THEN 0 ELSE 1 - 0 + 1 BY <3>1, FS_Interval
      <3> QED BY <3>2, <3>1
    <2>3. /\ IsFiniteSet((0 .. G) \X (0 .. 1))
          /\ Cardinality((0 .. G) \X (0 .. 1)) = Cardinality(0 .. G) * Cardinality(0 .. 1)
      BY <2>1, <2>2, FS_Product
    <2>4. Cardinality((0 .. G) \X (0 .. 1)) = 2 * Height BY <2>1, <2>2, <2>3, <1>0
    <2> QED BY <2>3, <2>4 DEF G
  <1>2. ASSUME NEW n \in S
        PROVE  /\ n = <<n[1], n[2]>> /\ n[1] \in 0 .. Height - 1 /\ n[2] \in Nat /\ above[n[1] + 1][r.sec] \in Nat
               /\ above[n[1] + 1][r.sec] <= n[2] /\ n[2] <= above[n[1] + 1][r.sec] + 1
    <2>1. PICK h \in 0 .. Height - 1, s \in r.sec .. r.sec + r.secs - 1 : n = <<h, above[h + 1][s]>>
      BY DEF WayNodes
    <2>2. h \in Nat /\ s \in Nat /\ r.sec <= s /\ s - r.sec <= Fan /\ n[1] = h /\ n[2] = above[h + 1][s]
      BY <2>1, <1>0, CacheConstants
    <2>3. above[h + 1][s] \in Nat /\ above[h + 1][r.sec] \in Nat
      BY <2>2, <1>0, UpNat
    <2>4. above[h + 1][r.sec] <= above[h + 1][s] /\ above[h + 1][s] <= above[h + 1][r.sec] + 1
      BY <2>2, <1>0, UpNear
    <2> QED BY <2>1, <2>2, <2>3, <2>4
  <1>3. f \in [S -> T]
    <2> SUFFICES ASSUME NEW n \in S PROVE <<n[1], n[2] - above[n[1] + 1][r.sec]>> \in T
      OBVIOUS
    <2> DEFINE u == above[n[1] + 1][r.sec]
    <2>1. n[1] \in 0 .. Height - 1 /\ n[2] \in Nat /\ u \in Nat /\ u <= n[2] /\ n[2] <= u + 1
      BY <1>2
    <2> HIDE DEF u, S
    <2>2. n[2] - u \in 0 .. 1 BY <2>1
    <2> QED BY <2>1, <2>2 DEF u
  <1>4. \A m, n \in S : f[m] = f[n] => m = n
    <2> SUFFICES ASSUME NEW m \in S, NEW n \in S, f[m] = f[n] PROVE m = n
      OBVIOUS
    <2>1. m[1] = n[1] /\ m[2] - above[m[1] + 1][r.sec] = n[2] - above[n[1] + 1][r.sec]
      OBVIOUS
    <2> DEFINE u == above[m[1] + 1][r.sec]
    <2>2. m[2] - u = n[2] - u /\ u \in Nat /\ m[2] \in Nat /\ n[2] \in Nat
      BY <2>1, <1>2
    <2> HIDE DEF u
    <2>3. m[2] = n[2] BY ONLY <2>2
    <2>4. m = <<m[1], m[2]>> /\ n = <<n[1], n[2]>> BY <1>2
    <2> QED BY <2>1, <2>3, <2>4
  <1> HIDE DEF S, T, f
  <1>5. f \in Injection(S, T)
    BY <1>3, <1>4 DEF Injection, IsInjective
  <1>6. IsFiniteSet(S) /\ Cardinality(S) <= Cardinality(T)
    BY <1>1, <1>5, FS_Injection
  <1> QED BY <1>6, <1>1 DEF S

(* Sectors are finitely many.                                               *)
LEMMA SectorsFinite ==
    ASSUME NEW f, IsFiniteSet(DOMAIN f)
    PROVE  IsFiniteSet(SectorsOf(f))
  <1>1. PageSectors \in Nat BY CacheConstants
  <1>2. IsFiniteSet(1 .. PageSectors) BY <1>1, FS_Interval
  <1>3. IsFiniteSet((DOMAIN f) \X (1 .. PageSectors)) BY <1>2, FS_Product
  <1> QED BY <1>3, FS_Subset DEF SectorsOf

(* All that the total counts.                                               *)
LEMMA AllFinite ==
    ASSUME TreeOK, PagesOK, ReqsOK, FillOK
    PROVE  /\ IsFiniteSet(DOMAIN page) /\ IsFiniteSet(DOMAIN reqs)
           /\ IsFiniteSet(SectorsOf(page)) /\ IsFiniteSet(Nodes)
           /\ IsFiniteSet(Promised) /\ IsFiniteSet(Waiting)
  <1>1. IsFiniteSet(DOMAIN page)
    <2>1. DiskSectors \in Nat BY CacheConstants
    <2>2. IsFiniteSet(1 .. DiskSectors + 1) BY <2>1, FS_Interval
    <2> QED BY <2>2, FS_Subset DEF PagesOK
  <1>2. IsFiniteSet(DOMAIN reqs)
    <2>1. Pool \in Nat BY CacheConstants
    <2>2. IsFiniteSet(1 .. Pool) BY <2>1, FS_Interval
    <2> QED BY <2>2, FS_Subset DEF ReqsOK
  <1>3. IsFiniteSet(SectorsOf(page)) /\ IsFiniteSet(SectorsOf(reqs))
    BY <1>1, <1>2, SectorsFinite
  <1>4. IsFiniteSet(Promised)
    BY <1>3, FS_Subset DEF Promised
  <1>5. IsFiniteSet(Waiting)
    BY <1>2, FS_Subset DEF Waiting
  <1>6. IsFiniteSet(Nodes)
    <2>1. CASE run.op = "fill"
      <3>1. Read(page[run.page]) BY <2>1 DEF FillOK, PagesOK
      <3>2. IsFiniteSet(WayNodes(page[run.page])) BY <3>1, WayFinite
      <3>3. IsFiniteSet(nodes) BY DEF TreeOK
      <3> QED BY <3>2, <3>3, <2>1, FS_Union DEF Nodes
    <2>2. CASE run.op # "fill"
      BY <2>2, FS_EmptySet DEF Nodes, TreeOK
    <2> QED BY <2>1, <2>2
  <1> QED BY <1>1, <1>2, <1>3, <1>4, <1>5, <1>6

(* A total is a number.                                                     *)
LEMMA TotalNat ==
    ASSUME NEW S, NEW K, NEW P, NEW W,
           IsFiniteSet(S), IsFiniteSet(K), IsFiniteSet(P), IsFiniteSet(W)
    PROVE  /\ Total(S, K, P, W) \in Nat
           /\ Cardinality(S) \in Nat /\ Cardinality(K) \in Nat /\ Cardinality(P) \in Nat
           /\ Cardinality(W) \in Nat /\ Cardinality(K) * NodeSize \in Nat /\ Cardinality(W) * PageNodes \in Nat
  <1>1. /\ Cardinality(S) \in Nat /\ Cardinality(K) \in Nat /\ Cardinality(P) \in Nat
        /\ Cardinality(W) \in Nat
    BY FS_CardinalityType
  <1>2. Cardinality(K) * NodeSize \in Nat /\ Cardinality(W) * PageNodes \in Nat
    BY <1>1, SizeConstants, TimesLess
  <1> QED BY <1>1, <1>2 DEF Total

(* The bound is a number, and more than a node.                             *)
LEMMA BoundNat ==
    Bound \in Nat /\ Bound > NodeSize
  <1> DEFINE P == Pool - 1
             x == P * PageSectors
             y == P * PageNodes
  <1>1. P \in Nat /\ Pool = P + 1 /\ PageSectors \in Nat /\ PageNodes \in Nat
    BY SizeConstants
  <1>2. x \in Nat /\ y \in Nat BY <1>1
  <1>3. Pool * PageNodes = y + PageNodes BY <1>1
  <1>4. Bound = MaxSize + x + (y + PageNodes) BY <1>3 DEF Bound
  <1> HIDE DEF x, y, P
  <1> QED BY <1>2, <1>4, SizeConstants

(* A step that adds nothing to what is counted.                             *)
LEMMA LessOK ==
    ASSUME CacheInv, SectorsOf(page)' \subseteq SectorsOf(page), Nodes' \subseteq Nodes,
           Promised' \subseteq Promised, Waiting' \subseteq Waiting
    PROVE  SizeOK'
  <1> DEFINE t == Total(SectorsOf(page), Nodes, Promised, Waiting)
             u == Total(SectorsOf(page)', Nodes', Promised', Waiting')
  <1>1. /\ IsFiniteSet(SectorsOf(page)) /\ IsFiniteSet(Nodes)
        /\ IsFiniteSet(Promised) /\ IsFiniteSet(Waiting)
    BY AllFinite DEF CacheInv, RunOK
  <1>2. /\ IsFiniteSet(SectorsOf(page)') /\ IsFiniteSet(Nodes')
        /\ IsFiniteSet(Promised') /\ IsFiniteSet(Waiting')
    BY <1>1, FS_Subset
  <1>3. u <= t BY <1>1, TotalLess
  <1>4. t \in Nat /\ u \in Nat BY <1>1, <1>2, TotalNat
  <1>5. t < Bound BY DEF CacheInv, SizeOK
  <1> HIDE DEF t, u
  <1>6. u < Bound BY <1>3, <1>4, <1>5, BoundNat
  <1> QED BY <1>6 DEF SizeOK, u, Total, Bound

-----------------------------------------------------------------------------
(* Pages and nodes that go.                                                 *)

(* Freeing pages leaves what leads to others.                               *)
LEMMA FreeOK ==
    ASSUME LeavesOK, PagesOK, NEW ps \in SUBSET DOMAIN page,
           page' = Without(page, ps), leaf' = Without(leaf, Owned(ps)),
           \A p \in DOMAIN page \ ps : Filled(p)' = Filled(p)
    PROVE  /\ LeavesOK' /\ PagesOK' /\ SectorsOf(page)' \subseteq SectorsOf(page)
           /\ DOMAIN leaf' \subseteq DOMAIN leaf
           /\ \A s \in DOMAIN leaf' : leaf[s].page \notin ps
  <1>1. /\ DOMAIN page' = DOMAIN page \ ps /\ \A p \in DOMAIN page' : page'[p] = page[p]
        /\ DOMAIN leaf' = DOMAIN leaf \ Owned(ps) /\ \A s \in DOMAIN leaf' : leaf'[s] = leaf[s]
    BY DEF Without
  <1>2. ASSUME NEW s \in DOMAIN leaf' PROVE leaf[s].page \notin ps
    BY <1>1 DEF LeavesOK, Owned
  <1>3. LeavesOK'
    <2>1. ASSUME NEW p \in DOMAIN page', NEW s \in page'[p].owners
          PROVE  s \in DOMAIN leaf' /\ leaf'[s].page = p
      <3>1. p \in DOMAIN page /\ p \notin ps /\ page'[p] = page[p] BY <1>1
      <3>2. s \in DOMAIN leaf /\ leaf[s].page = p BY <3>1 DEF LeavesOK
      <3>3. s \notin Owned(ps)
        <4> SUFFICES ASSUME NEW q \in ps, s \in page[q].owners PROVE FALSE
          BY DEF Owned
        <4>1. leaf[s].page = q BY DEF LeavesOK
        <4> QED BY <4>1, <3>1, <3>2
      <3> QED BY <3>2, <3>3, <1>1
    <2>2. ASSUME NEW s \in DOMAIN leaf'
          PROVE  /\ s \in ImageSectors /\ leaf'[s].page \in DOMAIN page'
                 /\ page'[leaf'[s].page].sec + leaf'[s].off = s
                 /\ s \in page'[leaf'[s].page].owners
      <3>1. s \in DOMAIN leaf /\ leaf'[s] = leaf[s] /\ leaf[s].page \in DOMAIN page \ ps
        BY <1>1, <1>2 DEF LeavesOK
      <3>2. page'[leaf[s].page] = page[leaf[s].page] BY <3>1, <1>1
      <3> QED BY <3>1, <3>2, <1>1 DEF LeavesOK
    <2> QED BY <2>1, <2>2 DEF LeavesOK, ImageSectors
  <1>4. PagesOK'
    BY <1>1 DEF PagesOK, Read
  <1>5. SectorsOf(page)' \subseteq SectorsOf(page)
    BY <1>1 DEF SectorsOf
  <1> QED BY <1>1, <1>2, <1>3, <1>4, <1>5

(* The tree without some of its nodes.                                      *)
LEMMA TreeLess ==
    ASSUME TreeOK, NEW gone \in SUBSET nodes, nodes' = nodes \ gone,
           \A n \in nodes \ gone : n # Root => NodeOf(LinkTo(n)) \notin gone,
           Root \notin gone \/ nodes' = {},
           nodes' = {} => DOMAIN reqs' = {} /\ run' = Rest
    PROVE  TreeOK'
  <1>1. IsFiniteSet(nodes') BY FS_Difference DEF TreeOK
  <1>2. \A n \in nodes' \ {Root} : NodeOf(LinkTo(n)) \in nodes'
    BY DEF TreeOK
  <1> QED BY <1>1, <1>2 DEF TreeOK, Root, NodeOf, LinkTo, Rest

(* Nodes are pairs, and hang below others.                                  *)
LEMMA NodeIs ==
    ASSUME TreeOK, NEW n \in nodes
    PROVE  /\ n = <<n[1], n[2]>> /\ n[1] \in Nat /\ n[1] <= Height /\ n[2] \in Nat
           /\ n # Root => n[1] < Height /\ <<n[1] + 1, n[2] \div Fan>> \in nodes
  <1>1. n \in (0 .. Height) \X Nat BY DEF TreeOK
  <1>2. n = <<n[1], n[2]>> /\ n[1] \in 0 .. Height /\ n[2] \in Nat BY <1>1
  <1>3. n # Root => n[1] # Height /\ NodeOf(LinkTo(n)) \in nodes BY DEF TreeOK
  <1> QED BY <1>2, <1>3, HeightFits DEF NodeOf, LinkTo

(* A branch that is deleted leaves no node that hangs from it.              *)
LEMMA BranchOK ==
    ASSUME TreeOK, NEW n, n[1] \in Nat, NEW gone, gone = {m \in nodes : IsUnder(m, n)}
    PROVE  \A m \in nodes \ gone : m # Root => NodeOf(LinkTo(m)) \notin gone
  <1> SUFFICES ASSUME NEW m \in nodes, m # Root, NodeOf(LinkTo(m)) \in gone
               PROVE  m \in gone
    OBVIOUS
  <1>1. m[1] \in Nat /\ m[2] \in Nat /\ m = <<m[1], m[2]>> BY NodeIs
  <1>2. NodeOf(LinkTo(m)) = <<m[1] + 1, m[2] \div Fan>> BY DEF NodeOf, LinkTo
  <1>3. m[1] + 1 <= n[1] /\ above[n[1] - (m[1] + 1)][m[2] \div Fan] = n[2]
    BY <1>2 DEF IsUnder
  <1> DEFINE k == n[1] - (m[1] + 1)
  <1>4. k \in Nat /\ k + 1 = n[1] - m[1] /\ m[1] <= n[1] BY <1>1, <1>3
  <1>5. above[k + 1][m[2]] = above[k][m[2] \div Fan] BY <1>4, <1>1, UpShift
  <1> QED BY <1>3, <1>4, <1>5 DEF IsUnder

(* All nodes are below the root.                                            *)
LEMMA AllUnderRoot ==
    ASSUME TreeOK
    PROVE  \A m \in nodes : IsUnder(m, Root)
  <1> DEFINE B == {k \in Nat : \E m \in nodes : m[1] = Height - k /\ above[k][m[2]] # 0}
  <1>1. B = {}
    <2> SUFFICES ASSUME B # {} PROVE FALSE OBVIOUS
    <2>1. PICK k \in B : \A j \in B : k <= j BY Minimum
    <2>2. PICK m \in nodes : m[1] = Height - k /\ above[k][m[2]] # 0 BY <2>1
    <2>3. m[1] \in Nat /\ m[2] \in Nat /\ k \in Nat /\ Height \in Nat BY <2>1, NodeIs, HeightFits
    <2>4. CASE m = Root
      <3>1. k = 0 /\ m[2] = 0 BY <2>4, <2>2, <2>3 DEF Root
      <3> QED BY <3>1, <2>2, UpStep
    <2>5. CASE m # Root
      <3>1. m[1] < Height /\ <<m[1] + 1, m[2] \div Fan>> \in nodes BY <2>5, NodeIs
      <3>2. k - 1 \in Nat /\ m[1] + 1 = Height - (k - 1) /\ (k - 1) + 1 = k BY <3>1, <2>2, <2>3
      <3>3. above[k][m[2]] = above[k - 1][m[2] \div Fan] BY <3>2, <2>3, UpShift
      <3>4. k - 1 \in B
        <4> DEFINE q == <<m[1] + 1, m[2] \div Fan>>
        <4>1. q \in nodes /\ q[1] = Height - (k - 1) /\ above[k - 1][q[2]] # 0 BY <3>1, <3>2, <3>3, <2>2
        <4> QED BY <4>1, <3>2
      <3> QED BY <3>4, <3>2, <2>1
    <2> QED BY <2>4, <2>5
  <1> TAKE m \in nodes
  <1> DEFINE k == Height - m[1]
  <1>2. m[1] \in Nat /\ m[1] <= Height /\ m[2] \in Nat /\ Height \in Nat BY NodeIs, HeightFits
  <1>3. k \in Nat /\ m[1] = Height - k BY <1>2
  <1>4. above[k][m[2]] = 0 BY <1>1, <1>3
  <1> QED BY <1>2, <1>4 DEF IsUnder, Root

-----------------------------------------------------------------------------
(* Every step keeps the invariant: pruning.                                 *)

(* Links are numbered.                                                      *)
LEMMA DownType ==
    ASSUME TreeOK, LeavesOK
    PROVE  Down \subseteq Nat \X Nat
  <1>1. \A s \in DOMAIN leaf : s \in Nat BY HeightFits DEF LeavesOK
  <1>2. \A n \in nodes : LinkTo(n) \in Nat \X Nat
    <2> TAKE n \in nodes
    <2>1. n[1] \in Nat /\ n[2] \in Nat BY NodeIs
    <2>2. n[1] + 1 \in Nat BY <2>1
    <2> QED BY <2>1, <2>2 DEF LinkTo
  <1> QED BY <1>1, <1>2 DEF Down

(* A step between functions, or within one that does not fill.              *)
LEMMA QuietSize ==
    ASSUME CacheInv, run.op # "fill", run'.op # "fill", reqs' = reqs,
           SectorsOf(page)' \subseteq SectorsOf(page), nodes' \subseteq nodes
    PROVE  SizeOK'
  <1>1. Waiting' = Waiting BY DEF Waiting
  <1>2. Promised' = Promised BY <1>1 DEF Promised, SectorsOf
  <1>3. Nodes' \subseteq Nodes BY DEF Nodes
  <1> QED BY <1>1, <1>2, <1>3, LessOK

(* A step of pruning.                                                       *)
LEMMA PruneStep ==
    ASSUME CacheInv, run.op # "fill", run'.op = "prune", reqs' = reqs,
           TreeOK', LeavesOK', PagesOK', LeafNodes',
           SectorsOf(page)' \subseteq SectorsOf(page), nodes' \subseteq nodes,
           Pruning(run', nodes', Down')
    PROVE  CacheInv'
  <1>1. SizeOK' BY QuietSize
  <1>2. RunOK' BY DEF RunOK, FillOK
  <1>3. ReqsOK' BY DEF CacheInv, ReqsOK, Read
  <1> QED BY <1>1, <1>2, <1>3 DEF CacheInv

(* Nothing but run changes.                                                 *)
LEMMA SameTree ==
    ASSUME CacheInv, UNCHANGED <<nodes, leaf, page, reqs>>,
           run.op # "fill", run'.op # "fill", nodes # {} \/ run' = run
    PROVE  /\ TreeOK' /\ LeavesOK' /\ PagesOK' /\ LeafNodes' /\ ReqsOK'
           /\ SectorsOf(page)' = SectorsOf(page) /\ nodes' = nodes /\ Down' = Down
  <1>1. TreeOK' BY DEF CacheInv, TreeOK
  <1>2. LeavesOK' /\ LeafNodes' /\ ReqsOK' BY DEF CacheInv, LeavesOK, LeafNodes, ReqsOK, Read
  <1>3. PagesOK' BY DEF CacheInv, PagesOK, Filled, Read
  <1>4. SectorsOf(page)' = SectorsOf(page) /\ Down' = Down BY DEF SectorsOf, Down
  <1> QED BY <1>1, <1>2, <1>3, <1>4

(* What is known where a link is visited.                                   *)
LEMMA VisitIs ==
    ASSUME CacheInv, Visits
    PROVE  /\ run.op = "prune" /\ run.op # "fill" /\ run # Rest
           /\ PruneOK(run.low, run.at, run.kept, FALSE, nodes, Down)
           /\ run.low \in Nat /\ run.low <= Height /\ run.low \in run.low .. Height
           /\ run.at[run.low] \in Nat /\ AtLink = <<run.low, run.at[run.low]>>
           /\ Down \subseteq Nat \X Nat /\ nodes # {}
  <1>1. run.op = "prune" /\ run.over = FALSE /\ Pruning(run, nodes, Down)
    BY DEF CacheInv, RunOK, Visits, Pruning, PruneOK
  <1>2. PruneOK(run.low, run.at, run.kept, FALSE, nodes, Down)
    BY <1>1 DEF Pruning
  <1>3. run # Rest /\ run.op # "fill" BY <1>1 DEF Rest
  <1>4. run.low \in 0 .. Height /\ run.at \in [run.low .. Height -> Nat]
    BY <1>2 DEF PruneOK
  <1>5. run.low \in Nat /\ run.low <= Height /\ run.low \in run.low .. Height
    BY <1>4, HeightFits
  <1>6. Down \subseteq Nat \X Nat BY DownType DEF CacheInv
  <1>7. nodes # {} BY <1>3 DEF CacheInv, TreeOK
  <1> QED BY <1>1, <1>2, <1>3, <1>4, <1>5, <1>6, <1>7 DEF AtLink

(* SeenLink is a place where pruning is.                                        *)
LEMMA SeenOp ==
    ASSUME NEW low, NEW at, NEW kept
    PROVE  SeenLink(low, at, kept).op = "prune"
  BY DEF SeenLink, Prune

(* prune_keep                                                               *)
LEMMA KeepStep == CacheInv /\ prune_keep => CacheInv'
  <1> SUFFICES ASSUME CacheInv, prune_keep PROVE CacheInv' OBVIOUS
  <1>1. Visits /\ run.low = 0 /\ run' = SeenLink(run.low, run.at, run.kept \cup {run.low})
    BY DEF prune_keep
  <1>2. UNCHANGED <<nodes, leaf, page, reqs>> BY DEF prune_keep
  <1>3. PruneOK(run.low, run.at, run.kept \cup {run.low}, FALSE, nodes, Down)
    BY <1>1, VisitIs, KeepOK
  <1>4. Pruning(SeenLink(run.low, run.at, run.kept \cup {run.low}), nodes, Down)
    BY <1>3, <1>1, VisitIs, SeenOK
  <1>5. run'.op = "prune" /\ run.op # "fill" /\ nodes # {} BY <1>1, SeenOp, VisitIs
  <1>6. /\ TreeOK' /\ LeavesOK' /\ PagesOK' /\ LeafNodes' /\ ReqsOK'
        /\ SectorsOf(page)' = SectorsOf(page) /\ nodes' = nodes /\ Down' = Down
    BY <1>2, <1>5, SameTree
  <1>7. Pruning(run', nodes', Down') BY <1>4, <1>6, <1>1
  <1> QED BY <1>2, <1>5, <1>6, <1>7, PruneStep

(* prune_down                                                               *)
LEMMA DownStep == CacheInv /\ prune_down => CacheInv'
  <1> SUFFICES ASSUME CacheInv, prune_down PROVE CacheInv' OBVIOUS
  <1> DEFINE r == Prune(run.low - 1, [h \in run.low - 1 .. Height |->
                                        IF h = run.low - 1 THEN run.at[run.low] * Fan ELSE run.at[h]],
                        run.kept \ {run.low - 1}, FALSE)
  <1>1. Visits /\ run.low > 0 /\ Below(AtLink) \in nodes
    BY DEF prune_down
  <1>8. AtLink[2] = run.at[run.low]
    BY <1>1, VisitIs
  <1>0. run' = r
    BY <1>8 DEF prune_down
  <1>2. UNCHANGED <<nodes, leaf, page, reqs>> BY DEF prune_down
  <1>3. <<run.low - 1, run.at[run.low]>> \in nodes
    BY <1>1, VisitIs DEF Below
  <1>4. Pruning(r, nodes, Down)
    BY <1>1, <1>3, VisitIs, DownOK
  <1>5. run'.op = "prune" /\ run.op # "fill" /\ nodes # {} BY <1>0, <1>1, VisitIs DEF Prune
  <1>6. /\ TreeOK' /\ LeavesOK' /\ PagesOK' /\ LeafNodes' /\ ReqsOK'
        /\ SectorsOf(page)' = SectorsOf(page) /\ nodes' = nodes /\ Down' = Down
    BY <1>2, <1>5, SameTree
  <1> HIDE DEF r
  <1>7. Pruning(run', nodes', Down') BY <1>4, <1>6, <1>0
  <1> QED BY <1>2, <1>5, <1>6, <1>7, PruneStep

(* prune_none                                                               *)
LEMMA NoneStep == CacheInv /\ prune_none => CacheInv'
  <1> SUFFICES ASSUME CacheInv, prune_none PROVE CacheInv' OBVIOUS
  <1>1. /\ Visits /\ run.low > 0 /\ Below(AtLink) \notin nodes
        /\ run' = SeenLink(run.low, run.at, run.kept)
    BY DEF prune_none
  <1>2. UNCHANGED <<nodes, leaf, page, reqs>> BY DEF prune_none
  <1>3. <<run.low, run.at[run.low]>> \notin Down
    <2> SUFFICES ASSUME <<run.low, run.at[run.low]>> \in Down PROVE FALSE OBVIOUS
    <2>1. run.low # 0 /\ run.low \in Nat BY <1>1, VisitIs
    <2>2. PICK n \in nodes : <<run.low, run.at[run.low]>> = LinkTo(n)
      BY <2>1 DEF Down
    <2>3. n = <<n[1], n[2]>> /\ n[1] \in Nat BY NodeIs DEF CacheInv
    <2>4. n[1] + 1 = run.low /\ n[2] = run.at[run.low] BY <2>2 DEF LinkTo
    <2>5. n[1] = run.low - 1 BY <2>3, <2>4
    <2>6. Below(AtLink) = <<run.low - 1, run.at[run.low]>> BY <1>1, VisitIs DEF Below
    <2> QED BY <2>3, <2>4, <2>5, <2>6, <1>1
  <1>4. Pruning(SeenLink(run.low, run.at, run.kept), nodes, Down)
    BY <1>3, <1>1, VisitIs, SeenOK
  <1>5. run'.op = "prune" /\ run.op # "fill" /\ nodes # {} BY <1>1, SeenOp, VisitIs
  <1>6. /\ TreeOK' /\ LeavesOK' /\ PagesOK' /\ LeafNodes' /\ ReqsOK'
        /\ SectorsOf(page)' = SectorsOf(page) /\ nodes' = nodes /\ Down' = Down
    BY <1>2, <1>5, SameTree
  <1>7. Pruning(run', nodes', Down') BY <1>4, <1>6, <1>1
  <1> QED BY <1>2, <1>5, <1>6, <1>7, PruneStep

(* prune_leaf                                                               *)
LEMMA LeafStep == CacheInv /\ prune_leaf => CacheInv'
  <1> SUFFICES ASSUME CacheInv, prune_leaf PROVE CacheInv' OBVIOUS
  <1> DEFINE s == run.at[run.low]
             ps == PageAt(s)
  <1>1. /\ Visits /\ run.low = 0 /\ run' = SeenLink(run.low, run.at, run.kept)
        /\ nodes' = nodes /\ reqs' = reqs
    BY DEF prune_leaf
  <1>0. AtLink[2] = s BY <1>1, VisitIs
  <1>2. page' = Without(page, ps) /\ leaf' = Without(leaf, Owned(ps))
    BY <1>0 DEF prune_leaf, radix_tree_remove_page
  <1>3. ps \in SUBSET DOMAIN page BY DEF PageAt, CacheInv, LeavesOK
  <1>4. run.op # "fill" /\ run'.op = "prune" BY <1>1, SeenOp, VisitIs
  <1>5. \A p \in DOMAIN page \ ps : Filled(p)' = Filled(p)
    BY <1>4, <1>2 DEF Filled, Without
  <1>6. /\ LeavesOK' /\ PagesOK' /\ SectorsOf(page)' \subseteq SectorsOf(page)
        /\ DOMAIN leaf' \subseteq DOMAIN leaf
        /\ \A x \in DOMAIN leaf' : leaf[x].page \notin ps
    <2> HIDE DEF ps
    <2> QED BY <1>2, <1>3, <1>5, FreeOK DEF CacheInv
  <1>7. s \notin DOMAIN leaf' BY <1>6 DEF PageAt
  <1> HIDE DEF ps, s
  <1>8. TreeOK' BY <1>1, <1>4, VisitIs DEF CacheInv, TreeOK
  <1>9. LeafNodes' BY <1>6, <1>1 DEF CacheInv, LeafNodes
  <1>10. Down' \subseteq Down BY <1>6, <1>1 DEF Down
  <1>11. <<run.low, run.at[run.low]>> \notin Down'
    <2> SUFFICES ASSUME NEW n \in nodes', <<run.low, run.at[run.low]>> = LinkTo(n) PROVE FALSE
      BY <1>7, <1>1 DEF Down, s
    <2>1. n[1] \in Nat /\ n[1] + 1 = 0 BY <1>1, NodeIs DEF CacheInv, LinkTo
    <2> QED BY <2>1
  <1>12. PruneOK(run.low, run.at, run.kept, FALSE, nodes', Down')
    <2>1. PruneOK(run.low, run.at, run.kept, FALSE, nodes, Down) BY <1>1, VisitIs
    <2>2. \A h \in run.low .. Height : <<h, run.at[h] \div Fan>> \in nodes'
      BY <2>1, <1>1 DEF PruneOK
    <2> QED BY <2>1, <2>2, <1>10, PruneLess
  <1>13. Pruning(SeenLink(run.low, run.at, run.kept), nodes', Down')
    <2>1. Down' \subseteq Nat \X Nat BY <1>10, <1>1, VisitIs
    <2> QED BY <2>1, <1>12, <1>11, SeenOK
  <1>14. Pruning(run', nodes', Down') BY <1>13, <1>1
  <1> QED BY <1>1, <1>4, <1>6, <1>8, <1>9, <1>14, PruneStep

(* A branch that is deleted.                                                *)
LEMMA DeleteOK ==
    ASSUME CacheInv, run.op # "fill", run'.op # "fill", NEW n, n[1] \in Nat, NEW ls,
           radix_tree_delete_branch(n, ls), reqs' = reqs
    PROVE  /\ LeavesOK' /\ PagesOK' /\ LeafNodes' /\ SectorsOf(page)' \subseteq SectorsOf(page)
           /\ nodes' = nodes \ {m \in nodes : IsUnder(m, n)} /\ Down' \subseteq Down
           /\ \A m \in nodes' : m # Root => NodeOf(LinkTo(m)) \in nodes'
  <1> DEFINE gone == {m \in nodes : IsUnder(m, n)}
             ps   == {leaf[s].page : s \in {x \in DOMAIN leaf : NodeOf(<<0, x>>) \in gone}}
  <1>1. nodes' = nodes \ gone /\ page' = Without(page, ps) /\ leaf' = Without(leaf, Owned(ps))
    BY DEF radix_tree_delete_branch, radix_tree_remove_page
  <1>2. ps \in SUBSET DOMAIN page
    <2> SUFFICES ASSUME NEW s \in DOMAIN leaf PROVE leaf[s].page \in DOMAIN page
      OBVIOUS
    <2> QED BY DEF CacheInv, LeavesOK
  <1>3. \A p \in DOMAIN page \ ps : Filled(p)' = Filled(p)
    BY <1>1 DEF Filled, Without
  <1>4. \A s \in DOMAIN leaf : NodeOf(<<0, s>>) \in gone => leaf[s].page \in ps
    OBVIOUS
  <1> HIDE DEF ps
  <1>5. /\ LeavesOK' /\ PagesOK' /\ SectorsOf(page)' \subseteq SectorsOf(page)
        /\ DOMAIN leaf' \subseteq DOMAIN leaf
        /\ \A s \in DOMAIN leaf' : leaf[s].page \notin ps
    BY <1>1, <1>2, <1>3, FreeOK DEF CacheInv
  <1>6. \A m \in nodes \ gone : m # Root => NodeOf(LinkTo(m)) \notin gone
    BY BranchOK DEF CacheInv
  <1> HIDE DEF gone
  <1>7. LeafNodes' BY <1>1, <1>4, <1>5 DEF CacheInv, LeafNodes
  <1>8. Down' \subseteq Down BY <1>1, <1>5 DEF Down
  <1>9. \A m \in nodes' : m # Root => NodeOf(LinkTo(m)) \in nodes'
    BY <1>1, <1>6 DEF CacheInv, TreeOK
  <1> QED BY <1>1, <1>5, <1>7, <1>8, <1>9 DEF gone

(* prune_idle                                                               *)
LEMMA IdleStep == CacheInv /\ prune_idle => CacheInv'
  <1> SUFFICES ASSUME CacheInv, prune_idle PROVE CacheInv' OBVIOUS
  <1> DEFINE n == Below(AtLink)
             gone == {m \in nodes : IsUnder(m, n)}
  <1>1. /\ Visits /\ run.low > 0 /\ run' = SeenLink(run.low, run.at, run.kept) /\ reqs' = reqs
        /\ radix_tree_delete_branch(n, {AtLink})
    BY DEF prune_idle
  <1>2. /\ run.op # "fill" /\ run'.op = "prune" /\ run' # Rest /\ run.low \in Nat
        /\ n = <<run.low - 1, run.at[run.low]>> /\ run.at[run.low] \in Nat
        /\ PruneOK(run.low, run.at, run.kept, FALSE, nodes, Down)
        /\ Down \subseteq Nat \X Nat /\ run.low \in run.low .. Height /\ run.low <= Height
    <2>1. run'.op = "prune" BY <1>1, SeenOp
    <2>2. run' # Rest BY <2>1 DEF Rest
    <2>3. n = <<run.low - 1, run.at[run.low]>> BY <1>1, VisitIs DEF Below
    <2> HIDE DEF n
    <2> QED BY <1>1, <2>1, <2>2, <2>3, VisitIs
  <1>3. n[1] \in Nat /\ n[1] = run.low - 1 /\ n[2] = run.at[run.low] BY <1>1, <1>2
  <1>4. /\ LeavesOK' /\ PagesOK' /\ LeafNodes' /\ SectorsOf(page)' \subseteq SectorsOf(page)
        /\ nodes' = nodes \ gone /\ Down' \subseteq Down
        /\ \A m \in nodes' : m # Root => NodeOf(LinkTo(m)) \in nodes'
    <2> HIDE DEF n
    <2>1. run'.op # "fill" BY <1>2
    <2> QED BY <1>1, <1>2, <1>3, <2>1, DeleteOK
  <1>5. ASSUME NEW m \in nodes, m[1] \in Nat, m[1] >= run.low PROVE m \in nodes'
    BY <1>4, <1>5, <1>3, <1>2 DEF IsUnder
  <1>6. n \notin nodes'
    <2> SUFFICES ASSUME n \in nodes PROVE n \in gone BY <1>4
    <2>1. n[1] - n[1] = 0 /\ n[1] <= n[1] BY <1>3
    <2>2. above[0][n[2]] = n[2] BY <1>3, <1>2, UpStep
    <2> HIDE DEF n
    <2> QED BY <2>1, <2>2 DEF IsUnder
  <1> HIDE DEF n, gone
  <1>7. \A h \in run.low .. Height : <<h, run.at[h] \div Fan>> \in nodes'
    <2> TAKE h \in run.low .. Height
    <2>1. <<h, run.at[h] \div Fan>> \in nodes BY <1>2 DEF PruneOK
    <2>2. h \in Nat /\ h >= run.low BY <1>2, HeightFits
    <2> QED BY <2>1, <2>2, <1>5
  <1>8. Root \in nodes'
    <2>1. Root \in nodes BY <1>1, VisitIs DEF CacheInv, TreeOK
    <2>2. Root[1] = Height /\ Height \in Nat BY HeightFits DEF Root
    <2> QED BY <2>1, <2>2, <1>5, <1>2
  <1>9. TreeOK'
    <2>1. IsFiniteSet(nodes') BY <1>4, FS_Difference DEF CacheInv, TreeOK
    <2>2. nodes' \subseteq nodes BY <1>4
    <2> QED BY <2>1, <2>2, <1>4, <1>8 DEF CacheInv, TreeOK, Root, NodeOf, LinkTo
  <1>10. <<run.low, run.at[run.low]>> \notin Down'
    <2> SUFFICES ASSUME NEW m \in nodes', <<run.low, run.at[run.low]>> = LinkTo(m) PROVE FALSE
      BY <1>1, <1>2 DEF Down
    <2>1. m \in nodes BY <1>4
    <2>2. m = <<m[1], m[2]>> /\ m[1] \in Nat BY <2>1, NodeIs DEF CacheInv
    <2>3. m[1] + 1 = run.low /\ m[2] = run.at[run.low] BY DEF LinkTo
    <2>4. m[1] = run.low - 1 BY <2>2, <2>3
    <2>5. m = n BY <2>2, <2>3, <2>4, <1>2
    <2> QED BY <2>5, <1>6
  <1>11. PruneOK(run.low, run.at, run.kept, FALSE, nodes', Down')
    BY <1>2, <1>4, <1>7, PruneLess
  <1>12. Down' \subseteq Nat \X Nat BY <1>2, <1>4
  <1>13. Pruning(SeenLink(run.low, run.at, run.kept), nodes', Down')
    BY <1>10, <1>11, <1>12, SeenOK
  <1>14. Pruning(run', nodes', Down') /\ nodes' \subseteq nodes BY <1>13, <1>1, <1>4
  <1> QED BY <1>1, <1>2, <1>4, <1>9, <1>14, PruneStep

(* prune_up                                                                 *)
LEMMA UpperStep == CacheInv /\ prune_up => CacheInv'
  <1> SUFFICES ASSUME CacheInv, prune_up PROVE CacheInv' OBVIOUS
  <1> DEFINE w == run.low + 1
             bt == [g \in w .. Height |-> run.at[g]]
             n == NodeOf(AtLink)
  <1>1. run.op = "prune" /\ run.over /\ run.low < Height /\ leaf' = leaf /\ page' = page /\ reqs' = reqs
    BY DEF prune_up
  <1>2. Pruning(run, nodes, Down) BY <1>1 DEF CacheInv, RunOK
  <1>3. PruneOK(run.low, run.at, run.kept, TRUE, nodes, Down)
    BY <1>2, <1>1 DEF Pruning, PruneOK
  <1>4. /\ run.low \in 0 .. Height /\ run.at \in [run.low .. Height -> Nat]
        /\ \A h \in run.low .. Height : <<h, run.at[h] \div Fan>> \in nodes
        /\ \A h \in run.low .. Height : h # Height => run.at[h] \div Fan = run.at[h + 1]
        /\ IsLast(<<run.low, run.at[run.low]>>)
        /\ Passed(run.low, run.at, run.kept, TRUE, Down)
    BY <1>3 DEF PruneOK
  <1>5. /\ run.low \in Nat /\ Height \in Nat /\ run.low \in run.low .. Height /\ w \in run.low .. Height
        /\ w \in w .. Height /\ w \in Nat /\ run.at[run.low] \in Nat /\ run.at[w] \in Nat
    <2>1. Height \in Nat /\ run.low \in 0 .. Height /\ run.low < Height BY <1>4, <1>1, HeightFits
    <2>2. /\ run.low \in Nat /\ run.low \in run.low .. Height /\ w \in run.low .. Height
          /\ w \in w .. Height /\ w \in Nat
      BY ONLY <2>1
    <2> HIDE DEF w
    <2> QED BY <2>1, <2>2, <1>4
  <1>6. n = <<run.low, run.at[run.low] \div Fan>> /\ n = <<run.low, bt[w]>> /\ n \in nodes
    <2>1. run.at[run.low] \div Fan = run.at[w] BY <1>4, <1>5, <1>1
    <2>2. bt[w] = run.at[w] BY <1>5
    <2>3. n = <<run.low, run.at[run.low] \div Fan>> BY DEF NodeOf, AtLink
    <2> QED BY <2>1, <2>2, <2>3, <1>4, <1>5
  <1>7. PruneOK(w, bt, run.kept, FALSE, nodes, Down)
    BY <1>1, <1>3, UpOK
  <1>8. run # Rest /\ run.op # "fill" /\ Down \subseteq Nat \X Nat /\ nodes # {}
    BY <1>1, <1>6, DownType DEF Rest, CacheInv
  <1>9. CASE run.low \in run.kept
    <2>1. run' = SeenLink(w, bt, run.kept \cup {w}) /\ nodes' = nodes
      BY <1>9 DEF prune_up
    <2> HIDE DEF bt, w
    <2>2. PruneOK(w, bt, run.kept \cup {w}, FALSE, nodes, Down) BY <1>7, KeepOK
    <2>3. Pruning(SeenLink(w, bt, run.kept \cup {w}), nodes, Down)
      BY <2>2, <1>8, SeenOK
    <2>4. run'.op = "prune" BY <2>1, SeenOp
    <2>5. /\ TreeOK' /\ LeavesOK' /\ PagesOK' /\ LeafNodes' /\ ReqsOK'
          /\ SectorsOf(page)' = SectorsOf(page) /\ nodes' = nodes /\ Down' = Down
      BY <2>1, <2>4, <1>1, <1>8, SameTree
    <2>6. Pruning(run', nodes', Down') BY <2>1, <2>3, <2>5
    <2> QED BY <1>1, <1>8, <2>4, <2>5, <2>6, PruneStep
  <1>10. CASE run.low \notin run.kept
    <2>1. run' = SeenLink(w, bt, run.kept) /\ nodes' = nodes \ {n}
      BY <1>10 DEF prune_up
    <2>2. ASSUME NEW l \in Down, l[1] = run.low, l[2] \div Fan = run.at[run.low] \div Fan PROVE FALSE
      <3>1. l[2] > run.at[run.low] BY <2>2, <1>4, <1>5, <1>10 DEF Passed
      <3>2. l[2] \in Nat BY <1>8
      <3>3. l[2] <= run.at[run.low]
        BY <3>2, <1>4, <1>5, <2>2, LastFan DEF IsLast
      <3> QED BY <3>1, <3>2, <3>3, <1>5
    <2> HIDE DEF bt, w, n
    <2>3. LeafNodes'
      <3> SUFFICES ASSUME NEW s \in DOMAIN leaf PROVE NodeOf(<<0, s>>) \in nodes'
        BY <1>1 DEF LeafNodes
      <3>1. NodeOf(<<0, s>>) \in nodes BY DEF CacheInv, LeafNodes
      <3>2. NodeOf(<<0, s>>) # n
        <4> SUFFICES ASSUME <<0, s \div Fan>> = <<run.low, run.at[run.low] \div Fan>> PROVE FALSE
          BY <1>6 DEF NodeOf
        <4>1. <<0, s>> \in Down BY DEF Down
        <4> QED BY <4>1, <2>2
      <3> QED BY <3>1, <3>2, <2>1
    <2>4. \A m \in nodes \ {n} : m # Root => NodeOf(LinkTo(m)) \notin {n}
      <3> SUFFICES ASSUME NEW m \in nodes, NodeOf(LinkTo(m)) = n PROVE FALSE
        OBVIOUS
      <3>1. LinkTo(m) \in Down BY DEF Down
      <3>2. LinkTo(m)[1] = run.low /\ LinkTo(m)[2] \div Fan = run.at[run.low] \div Fan
        BY <1>6 DEF NodeOf, LinkTo
      <3> QED BY <3>1, <3>2, <2>2
    <2>5. Root # n BY <1>6, <1>1, <1>5 DEF Root
    <2>6. nodes' # {} BY <2>5, <2>1, <1>8 DEF CacheInv, TreeOK
    <2>7. TreeOK'
      <3> DEFINE gone == {n}
      <3>1. gone \in SUBSET nodes /\ nodes' = nodes \ gone /\ Root \notin gone
        BY <1>6, <2>1, <2>5
      <3>2. \A m \in nodes \ gone : m # Root => NodeOf(LinkTo(m)) \notin gone
        BY <2>4
      <3> HIDE DEF gone
      <3> QED BY <3>1, <3>2, <2>6, TreeLess DEF CacheInv
    <2>8. Down' \subseteq Down BY <2>1, <1>1 DEF Down
    <2>9. run'.op = "prune" BY <2>1, SeenOp
    <2>10. LeavesOK' BY <1>1 DEF CacheInv, LeavesOK
    <2>11. PagesOK' BY <1>1, <1>8, <2>9 DEF CacheInv, PagesOK, Filled, Read
    <2>12. SectorsOf(page)' \subseteq SectorsOf(page) BY <1>1 DEF SectorsOf
    <2>13. \A h \in w .. Height : <<h, bt[h] \div Fan>> \in nodes'
      <3> TAKE h \in w .. Height
      <3>1. <<h, bt[h] \div Fan>> \in nodes BY <1>7 DEF PruneOK
      <3>2. h # run.low BY <1>5 DEF w
      <3> QED BY <3>1, <3>2, <2>1, <1>6
    <2>14. PruneOK(w, bt, run.kept, FALSE, nodes', Down')
      BY <1>7, <2>8, <2>13, PruneLess
    <2>15. <<w, bt[w]>> \notin Down'
      <3> SUFFICES ASSUME NEW m \in nodes', <<w, bt[w]>> = LinkTo(m) PROVE FALSE
        BY <1>5, <1>1 DEF Down, w
      <3>1. m \in nodes BY <2>1
      <3>2. m = <<m[1], m[2]>> /\ m[1] \in Nat BY <3>1, NodeIs DEF CacheInv
      <3>3. m[1] + 1 = w /\ m[2] = bt[w] BY DEF LinkTo
      <3>4. m[1] = run.low BY <3>2, <3>3, <1>5 DEF w
      <3>5. m = n BY <3>2, <3>3, <3>4, <1>6
      <3> QED BY <3>5, <2>1
    <2>16. Pruning(SeenLink(w, bt, run.kept), nodes', Down')
      <3>1. Down' \subseteq Nat \X Nat BY <2>8, <1>8
      <3> QED BY <3>1, <2>14, <2>15, SeenOK
    <2>17. Pruning(run', nodes', Down') /\ nodes' \subseteq nodes BY <2>16, <2>1
    <2> QED BY <1>1, <1>8, <2>3, <2>7, <2>9, <2>10, <2>11, <2>12, <2>17, PruneStep
  <1> QED BY <1>9, <1>10

(* block_cache_prune_event                                                  *)
LEMMA PruneEventStep == CacheInv /\ block_cache_prune_event => CacheInv'
  <1> SUFFICES ASSUME CacheInv, block_cache_prune_event PROVE CacheInv' OBVIOUS
  <1> DEFINE at == [h \in {Height} |-> 0]
             r == Prune(Height, at, {}, FALSE)
  <1>1. run = Rest /\ nodes # {} /\ run' = r /\ UNCHANGED <<nodes, leaf, page, reqs>>
    BY DEF block_cache_prune_event
  <1>2. run.op # "fill" /\ run'.op = "prune" BY <1>1 DEF Rest, Prune
  <1>3. Height \in Nat /\ Height .. Height = {Height} /\ Height \in 0 .. Height BY HeightFits
  <1>4. at \in [Height .. Height -> Nat] /\ at[Height] = 0 /\ 0 \div Fan = 0
    <2>1. 0 \div Fan = 0 BY DivFan
    <2> QED BY <1>3, <2>1
  <1>5. Root \in nodes /\ Down \subseteq Nat \X Nat BY <1>1, DownType DEF CacheInv, TreeOK
  <1> HIDE DEF at
  <1>6. Passed(Height, at, {}, FALSE, Down)
    <2> SUFFICES ASSUME NEW l \in Down, l[1] = Height PROVE l[2] > at[l[1]] \/ l[2] = at[l[1]]
      BY <1>3 DEF Passed
    <2>1. l[2] \in Nat BY <1>5
    <2> QED BY <2>1, <1>4
  <1>7. \A h \in Height .. Height : <<h, at[h] \div Fan>> \in nodes
    BY <1>3, <1>4, <1>5 DEF Root
  <1>8. PruneOK(Height, at, {}, FALSE, nodes, Down)
    BY <1>3, <1>4, <1>6, <1>7 DEF PruneOK
  <1>9. Pruning(r, nodes, Down) BY <1>8 DEF Pruning, Prune
  <1>10. /\ TreeOK' /\ LeavesOK' /\ PagesOK' /\ LeafNodes' /\ ReqsOK'
         /\ SectorsOf(page)' = SectorsOf(page) /\ nodes' = nodes /\ Down' = Down
    <2>1. run'.op # "fill" BY <1>2
    <2> QED BY <1>1, <1>2, <2>1, SameTree
  <1> HIDE DEF r
  <1>11. Pruning(run', nodes', Down') BY <1>9, <1>10, <1>1
  <1> QED BY <1>1, <1>2, <1>10, <1>11, PruneStep

(* pruned, and a step that changes only ages.                               *)
LEMMA RestStep ==
    ASSUME CacheInv, UNCHANGED <<nodes, leaf, page, reqs>>, run.op # "fill", run' = Rest,
           nodes # {} \/ run' = run
    PROVE  CacheInv'
  <1>1. run'.op # "fill" /\ run'.op # "prune" BY DEF Rest
  <1>2. /\ TreeOK' /\ LeavesOK' /\ PagesOK' /\ LeafNodes' /\ ReqsOK'
        /\ SectorsOf(page)' = SectorsOf(page) /\ nodes' = nodes
    BY <1>1, SameTree
  <1>3. SizeOK' BY <1>1, <1>2, QuietSize
  <1>4. RunOK' BY <1>1 DEF RunOK, FillOK
  <1> QED BY <1>2, <1>3, <1>4 DEF CacheInv

(* pruned                                                                   *)
LEMMA PrunedStep == CacheInv /\ pruned => CacheInv'
  <1> SUFFICES ASSUME CacheInv, pruned PROVE CacheInv' OBVIOUS
  <1>1. run.op # "fill" /\ run # Rest /\ run' = Rest BY DEF pruned, Rest
  <1>2. nodes # {} BY <1>1 DEF CacheInv, TreeOK
  <1> QED BY <1>1, <1>2, RestStep DEF pruned

(* CacheTick                                                                *)
LEMMA TickStep == CacheInv /\ CacheTick => CacheInv'
  <1> SUFFICES ASSUME CacheInv, CacheTick PROVE CacheInv' OBVIOUS
  <1>1. run = Rest /\ run' = run /\ run.op # "fill" BY DEF CacheTick, Rest
  <1> QED BY <1>1, RestStep DEF CacheTick

-----------------------------------------------------------------------------
(* Every step keeps the invariant: opening, closing and reading.            *)

(* An empty tree has no pages.                                              *)
LEMMA EmptyIs ==
    ASSUME CacheInv, nodes = {}
    PROVE  DOMAIN leaf = {} /\ DOMAIN page = {} /\ DOMAIN reqs = {} /\ run = Rest
  <1>1. DOMAIN leaf = {} BY DEF CacheInv, LeafNodes
  <1>2. DOMAIN reqs = {} /\ run = Rest BY DEF CacheInv, TreeOK
  <1>3. ASSUME NEW p \in DOMAIN page PROVE FALSE
    <2>1. Read(page[p]) /\ page[p].owners = page[p].sec .. page[p].sec + page[p].secs - 1
      BY <1>2 DEF CacheInv, PagesOK, Filled, Rest
    <2>2. page[p].sec \in page[p].owners BY <2>1 DEF Read
    <2> QED BY <2>2, <1>1 DEF CacheInv, LeavesOK
  <1> QED BY <1>1, <1>2, <1>3

(* CacheInit                                                                *)
LEMMA InitOK == CacheInit => CacheInv
  <1> SUFFICES ASSUME CacheInit PROVE CacheInv OBVIOUS
  <1>1. /\ DOMAIN leaf = {} /\ DOMAIN page = {} /\ DOMAIN reqs = {} /\ run = Rest
        /\ nodes = {}
    BY DEF CacheInit, Nothing
  <1>2. TreeOK
    BY <1>1, FS_EmptySet DEF TreeOK
  <1>3. LeavesOK /\ LeafNodes /\ PagesOK /\ ReqsOK
    BY <1>1 DEF LeavesOK, LeafNodes, PagesOK, ReqsOK
  <1>4. RunOK BY <1>1 DEF RunOK, FillOK, Rest
  <1>5. SizeOK
    <2>1. SectorsOf(page) = {} /\ Promised = {} /\ Waiting = {} /\ Nodes = {}
      BY <1>1 DEF SectorsOf, Promised, Waiting, Nodes, Rest
    <2>2. Cardinality({}) = 0 BY FS_EmptySet
    <2>3. 0 * PageNodes = 0 /\ 0 * NodeSize = 0 BY SizeConstants
    <2>4. Total({}, {}, {}, {}) = 0 + 0 + 0 + 0 BY <2>2, <2>3 DEF Total
    <2>5. 0 + 0 + 0 + 0 < Bound BY BoundNat, SizeConstants
    <2> QED BY <2>1, <2>4, <2>5 DEF SizeOK
  <1> QED BY <1>2, <1>3, <1>4, <1>5 DEF CacheInv

(* block_cache_open                                                         *)
LEMMA OpenStep == CacheInv /\ block_cache_open => CacheInv'
  <1> SUFFICES ASSUME CacheInv, block_cache_open PROVE CacheInv' OBVIOUS
  <1>1. nodes = {} /\ nodes' = {Root} /\ UNCHANGED <<leaf, page, reqs, run>>
    BY DEF block_cache_open
  <1>2. DOMAIN leaf = {} /\ DOMAIN page = {} /\ DOMAIN reqs = {} /\ run = Rest
    BY <1>1, EmptyIs
  <1>3. /\ DOMAIN leaf' = {} /\ DOMAIN page' = {} /\ DOMAIN reqs' = {} /\ run' = Rest
        /\ nodes' = {Root}
    BY <1>1, <1>2
  <1>4. TreeOK'
    <2>1. IsFiniteSet({Root}) BY FS_Singleton
    <2>2. Root \in (0 .. Height) \X Nat BY HeightFits DEF Root
    <2>3. nodes' \subseteq (0 .. Height) \X Nat /\ IsFiniteSet(nodes') BY <1>1, <2>1, <2>2
    <2> QED BY <2>3, <1>1 DEF TreeOK, Root
  <1>5. LeavesOK' /\ LeafNodes' /\ PagesOK' /\ ReqsOK'
    BY <1>3 DEF LeavesOK, LeafNodes, PagesOK, ReqsOK
  <1>6. RunOK' BY <1>3 DEF RunOK, FillOK, Rest
  <1>7. SizeOK'
    <2>1. SectorsOf(page)' = {} /\ Promised' = {} /\ Waiting' = {} /\ Nodes' = {Root}
      BY <1>3 DEF SectorsOf, Promised, Waiting, Nodes, Rest
    <2>2. Cardinality({}) = 0 /\ Cardinality({Root}) = 1 BY FS_EmptySet, FS_Singleton
    <2>3. 0 * PageNodes = 0 /\ 1 * NodeSize = NodeSize BY SizeConstants
    <2>4. Total({}, {Root}, {}, {}) = 0 + NodeSize + 0 + 0 BY <2>2, <2>3 DEF Total
    <2>5. 0 + NodeSize + 0 + 0 < Bound BY BoundNat, SizeConstants
    <2> QED BY <2>1, <2>4, <2>5 DEF SizeOK, Total, Bound
  <1> QED BY <1>4, <1>5, <1>6, <1>7 DEF CacheInv

(* block_cache_close                                                        *)
LEMMA CloseStep == CacheInv /\ block_cache_close => CacheInv'
  <1> SUFFICES ASSUME CacheInv, block_cache_close PROVE CacheInv' OBVIOUS
  <1>1. /\ run = Rest /\ run' = Rest /\ reqs' = reqs /\ DOMAIN reqs = {}
        /\ radix_tree_delete_branch(Root, {})
    BY DEF block_cache_close
  <1>2. run.op # "fill" /\ run'.op # "fill" /\ run'.op # "prune" /\ Root[1] \in Nat
    BY <1>1, HeightFits DEF Rest, Root
  <1>3. /\ LeavesOK' /\ PagesOK' /\ LeafNodes' /\ SectorsOf(page)' \subseteq SectorsOf(page)
        /\ nodes' = nodes \ {m \in nodes : IsUnder(m, Root)}
    BY <1>1, <1>2, DeleteOK
  <1>4. nodes' = {} BY <1>3, AllUnderRoot DEF CacheInv
  <1>5. TreeOK' BY <1>4, <1>1, FS_EmptySet DEF TreeOK, Rest
  <1>6. ReqsOK' BY <1>1 DEF ReqsOK, CacheInv, Read
  <1>7. RunOK' BY <1>1, <1>2 DEF RunOK, FillOK
  <1>8. SizeOK' BY <1>1, <1>2, <1>3, <1>4, QuietSize
  <1> QED BY <1>3, <1>5, <1>6, <1>7, <1>8 DEF CacheInv

(* The sectors counted after a page or a request has come.                  *)
LEMMA SectorsMore ==
    ASSUME NEW f, NEW g, NEW p, NEW secs \in Nat, IsFiniteSet(DOMAIN f), p \notin DOMAIN f,
           DOMAIN g = DOMAIN f \cup {p}, \A q \in DOMAIN f : g[q].secs = f[q].secs,
           g[p].secs = secs, secs <= PageSectors
    PROVE  /\ IsFiniteSet(SectorsOf(g))
           /\ Cardinality(SectorsOf(g)) = Cardinality(SectorsOf(f)) + secs
  <1> DEFINE T == {p} \X (1 .. secs)
  <1>0. PageSectors \in Nat BY CacheConstants
  <1>1. IsFiniteSet(T) /\ Cardinality(T) = secs
    <2>1. IsFiniteSet(1 .. secs) /\ Cardinality(1 .. secs) = secs
      <3>1. 1 \in Int /\ secs \in Int OBVIOUS
      <3>2. Cardinality(1 .. secs) = IF 1 > secs THEN 0 ELSE secs - 1 + 1 BY <3>1, FS_Interval
      <3> QED BY <3>1, <3>2, FS_Interval
    <2>2. IsFiniteSet({p}) /\ Cardinality({p}) = 1 BY FS_Singleton
    <2>3. Cardinality(T) = Cardinality({p}) * Cardinality(1 .. secs) /\ IsFiniteSet(T)
      BY <2>1, <2>2, FS_Product
    <2> QED BY <2>1, <2>2, <2>3
  <1>2. SectorsOf(g) = SectorsOf(f) \cup T
    <2>1. ASSUME NEW c \in SectorsOf(g) PROVE c \in SectorsOf(f) \cup T
      <3>1. /\ c = <<c[1], c[2]>> /\ c[1] \in DOMAIN g /\ c[2] \in 1 .. PageSectors /\ c[2] <= g[c[1]].secs
        BY DEF SectorsOf
      <3>2. CASE c[1] = p
        BY <3>1, <3>2
      <3>3. CASE c[1] # p
        BY <3>1, <3>3 DEF SectorsOf
      <3> QED BY <3>2, <3>3
    <2>2. ASSUME NEW c \in SectorsOf(f) PROVE c \in SectorsOf(g)
      BY DEF SectorsOf
    <2>3. ASSUME NEW c \in T PROVE c \in SectorsOf(g)
      <3>1. c = <<p, c[2]>> /\ c[2] \in 1 .. secs OBVIOUS
      <3>2. c[2] \in 1 .. PageSectors /\ c[2] <= g[p].secs /\ c \in (DOMAIN g) \X (1 .. PageSectors)
        BY <3>1, <1>0
      <3> QED BY <3>1, <3>2 DEF SectorsOf
    <2> QED BY <2>1, <2>2, <2>3
  <1>3. SectorsOf(f) \cap T = {}
    BY DEF SectorsOf
  <1>4. IsFiniteSet(SectorsOf(f)) BY SectorsFinite
  <1> HIDE DEF T
  <1>5. /\ IsFiniteSet(SectorsOf(f) \cup T)
        /\ Cardinality(SectorsOf(f) \cup T) =
             Cardinality(SectorsOf(f)) + Cardinality(T) - Cardinality(SectorsOf(f) \cap T)
    BY <1>1, <1>4, FS_Union
  <1>6. Cardinality(SectorsOf(f)) \in Nat BY <1>4, FS_CardinalityType
  <1>7. Cardinality(SectorsOf(f) \cap T) = 0 BY <1>3, FS_EmptySet
  <1> DEFINE a == Cardinality(SectorsOf(f))
  <1>8. Cardinality(SectorsOf(g)) = a + secs - 0 /\ a \in Nat
    BY <1>1, <1>2, <1>5, <1>6, <1>7
  <1> HIDE DEF a
  <1>9. Cardinality(SectorsOf(g)) = a + secs BY <1>8
  <1> QED BY <1>2, <1>5, <1>9 DEF a

(* How much the requests that wait can have been promised.                  *)
LEMMA PromisedLess ==
    ASSUME CacheInv
    PROVE  /\ Cardinality(Promised) \in Nat /\ Cardinality(Waiting) \in Nat
           /\ Cardinality(Promised) <= Cardinality(Waiting) * PageSectors
  <1>0. PageSectors \in Nat BY CacheConstants
  <1>1. IsFiniteSet(Promised) /\ IsFiniteSet(Waiting) BY AllFinite DEF CacheInv, RunOK
  <1>2. IsFiniteSet(1 .. PageSectors) /\ Cardinality(1 .. PageSectors) = PageSectors
    <2>1. 1 \in Int /\ PageSectors \in Int BY <1>0
    <2>2. Cardinality(1 .. PageSectors) = IF 1 > PageSectors THEN 0 ELSE PageSectors - 1 + 1
      BY <2>1, FS_Interval
    <2> QED BY <2>1, <2>2, <1>0, FS_Interval
  <1>3. /\ IsFiniteSet(Waiting \X (1 .. PageSectors))
        /\ Cardinality(Waiting \X (1 .. PageSectors)) = Cardinality(Waiting) * PageSectors
    BY <1>1, <1>2, FS_Product
  <1>4. Promised \in SUBSET (Waiting \X (1 .. PageSectors))
    BY DEF Promised, SectorsOf
  <1>5. Cardinality(Promised) <= Cardinality(Waiting \X (1 .. PageSectors))
    BY <1>3, <1>4, FS_Subset
  <1> QED BY <1>1, <1>3, <1>5, FS_CardinalityType

(* A request of a sound size that passed the test: the total stays below.   *)
LEMMA Arith ==
    ASSUME NEW t \in Nat, NEW n \in Nat, NEW w \in Nat, NEW secs \in Nat,
           t + secs < MaxSize, w <= Pool - 1, n <= w * PageSectors
    PROVE  t + (n + secs) + (w + 1) * PageNodes < Bound
  <1> DEFINE P == Pool - 1
             a == w * PageSectors
             b == P * PageSectors
             c == w * PageNodes
             d == P * PageNodes
  <1>1. P \in Nat /\ Pool = P + 1 /\ PageSectors \in Nat /\ PageNodes \in Nat /\ MaxSize \in Nat
    BY SizeConstants
  <1>2. a \in Nat /\ b \in Nat /\ a <= b BY <1>1, TimesLess
  <1>3. c \in Nat /\ d \in Nat /\ c <= d BY <1>1, TimesLess
  <1>4. (w + 1) * PageNodes = c + PageNodes /\ Pool * PageNodes = d + PageNodes BY <1>1
  <1>5. Bound = MaxSize + b + (d + PageNodes) BY <1>4 DEF Bound
  <1>6. n <= a OBVIOUS
  <1> HIDE DEF a, b, c, d, P
  <1>7. t + (n + secs) + (c + PageNodes) < MaxSize + b + (d + PageNodes)
    BY <1>1, <1>2, <1>3, <1>6
  <1> QED BY <1>4, <1>5, <1>7

(* A request is taken.                                                      *)
LEMMA MissSize ==
    ASSUME CacheInv, UNCHANGED <<nodes, leaf, page, run>>, run = Rest,
           NEW sec, NEW secs \in Nat, secs >= 1, secs <= PageSectors, sec \in Nat,
           sec + secs <= DiskSectors,
           radix_tree_size + secs < MaxSize, block_cache_get_request(sec, secs)
    PROVE  ReqsOK' /\ SizeOK'
  <1>1. PICK i \in FreeSlots :
          reqs' = [j \in DOMAIN reqs \cup {i} |->
                    IF j = i THEN [sec |-> sec, secs |-> secs, left |-> secs, err |-> FALSE]
                             ELSE reqs[j]]
    BY DEF block_cache_get_request
  <1>2. i \in 1 .. Pool /\ i \notin DOMAIN reqs BY DEF FreeSlots
  <1>3. /\ DOMAIN reqs' = DOMAIN reqs \cup {i} /\ \A j \in DOMAIN reqs : reqs'[j] = reqs[j]
        /\ reqs'[i].sec = sec /\ reqs'[i].secs = secs
    BY <1>1, <1>2
  <1>4. ReqsOK' BY <1>2, <1>3 DEF ReqsOK, CacheInv, Read
  <1>5. /\ Waiting = DOMAIN reqs /\ Waiting' = DOMAIN reqs' /\ Nodes = nodes /\ Nodes' = nodes
        /\ Promised = SectorsOf(reqs) /\ Promised' = SectorsOf(reqs)' /\ SectorsOf(page)' = SectorsOf(page)
    BY DEF Waiting, Nodes, Promised, SectorsOf, Rest
  <1>6. /\ IsFiniteSet(DOMAIN reqs) /\ IsFiniteSet(nodes) /\ IsFiniteSet(SectorsOf(page))
        /\ IsFiniteSet(SectorsOf(reqs))
    BY <1>5, AllFinite DEF CacheInv, RunOK
  <1> DEFINE t == radix_tree_size
             n == Cardinality(SectorsOf(reqs))
             w == Cardinality(DOMAIN reqs)
  <1>7. n \in Nat /\ w \in Nat /\ n <= w * PageSectors BY <1>5, PromisedLess
  <1>8. Cardinality(SectorsOf(reqs')) = n + secs
    BY <1>2, <1>3, <1>6, SectorsMore
  <1>9. Cardinality(DOMAIN reqs') = w + 1 BY <1>2, <1>3, <1>6, FS_AddElement
  <1>10. w <= Pool - 1
    <2>1. Pool \in Nat BY SizeConstants
    <2>2. 1 \in Int /\ Pool \in Int /\ ~(1 > Pool) BY <2>1, SizeConstants
    <2>3. IsFiniteSet(1 .. Pool) /\ Cardinality(1 .. Pool) = Pool
      <3>1. Cardinality(1 .. Pool) = IF 1 > Pool THEN 0 ELSE Pool - 1 + 1 BY <2>2, FS_Interval
      <3> QED BY <3>1, <2>1, <2>2, FS_Interval
    <2>4. DOMAIN reqs' \in SUBSET (1 .. Pool) BY <1>2, <1>3 DEF CacheInv, ReqsOK
    <2>5. Cardinality(DOMAIN reqs') <= Pool BY <2>3, <2>4, FS_Subset
    <2> HIDE DEF w
    <2> QED BY <2>1, <2>5, <1>7, <1>9
  <1>11. t \in Nat /\ t = Cardinality(SectorsOf(page)) + Cardinality(nodes) * NodeSize
    <2>1. Cardinality(SectorsOf(page)) \in Nat /\ Cardinality(nodes) \in Nat BY <1>6, FS_CardinalityType
    <2>2. Cardinality(nodes) * NodeSize \in Nat BY <2>1, SizeConstants, TimesLess
    <2> QED BY <2>1, <2>2 DEF radix_tree_size
  <1> HIDE DEF t, n, w
  <1>12. t + secs < MaxSize BY DEF t
  <1>13. t + (n + secs) + (w + 1) * PageNodes < Bound
    BY <1>7, <1>10, <1>11, <1>12, Arith
  <1>14. Total(SectorsOf(page), nodes, SectorsOf(reqs'), DOMAIN reqs') = t + (n + secs) + (w + 1) * PageNodes
    BY <1>8, <1>9, <1>11 DEF Total
  <1>15. Total(SectorsOf(page)', Nodes', Promised', Waiting') = Total(SectorsOf(page), nodes, SectorsOf(reqs'), DOMAIN reqs')
    BY <1>5 DEF SectorsOf
  <1> QED BY <1>4, <1>13, <1>14, <1>15 DEF SizeOK, Total, Bound

(* block_cache_queue_read                                                   *)
LEMMA ReadStep == CacheInv /\ block_cache_queue_read => CacheInv'
  <1> SUFFICES ASSUME CacheInv, block_cache_queue_read PROVE CacheInv' OBVIOUS
  <1>1. PICK sec \in ImageSectors, secs \in 1 .. PageSectors :
          /\ run = Rest /\ nodes # {} /\ sec + secs <= DiskSectors
          /\ block_cache_hit(sec, secs) \/ block_cache_miss(sec, secs)
    BY DEF block_cache_queue_read
  <1>2. run.op # "fill" /\ run.op # "prune" BY <1>1 DEF Rest
  <1>3. UNCHANGED <<nodes, leaf, page, run>>
    BY <1>1 DEF block_cache_hit, block_cache_miss
  <1>4. CASE reqs' = reqs
    BY <1>1, <1>2, <1>3, <1>4, RestStep
  <1>5. CASE reqs' # reqs
    <2>1. radix_tree_size + secs < MaxSize /\ block_cache_get_request(sec, secs)
      BY <1>1, <1>5 DEF block_cache_hit, block_cache_miss
    <2>2. secs \in Nat /\ secs >= 1 /\ secs <= PageSectors /\ sec \in Nat
      BY CacheConstants, HeightFits
    <2>3. ReqsOK' /\ SizeOK' BY <1>1, <1>3, <2>1, <2>2, MissSize
    <2>4. TreeOK' BY <1>1, <1>3 DEF CacheInv, TreeOK
    <2>5. LeavesOK' /\ LeafNodes' BY <1>3 DEF CacheInv, LeavesOK, LeafNodes
    <2>6. PagesOK' BY <1>3 DEF CacheInv, PagesOK, Filled, Read
    <2>7. RunOK' BY <1>1, <1>2, <1>3 DEF RunOK, FillOK
    <2> QED BY <2>3, <2>4, <2>5, <2>6, <2>7 DEF CacheInv
  <1> QED BY <1>4, <1>5

-----------------------------------------------------------------------------
(* Every step keeps the invariant: filling.                                 *)

(* Fewer requests, or the same with other marks.                            *)
LEMMA ReqsLess ==
    ASSUME CacheInv, UNCHANGED <<nodes, leaf, page, run>>, run = Rest,
           DOMAIN reqs' \subseteq DOMAIN reqs,
           \A i \in DOMAIN reqs' : reqs'[i].sec = reqs[i].sec /\ reqs'[i].secs = reqs[i].secs
    PROVE  CacheInv'
  <1>0. run.op # "fill" /\ run.op # "prune" /\ run' = Rest BY DEF Rest
  <1>1. ReqsOK' BY DEF CacheInv, ReqsOK, Read
  <1>2. SizeOK'
    <2>1. Waiting' \subseteq Waiting /\ Waiting' = DOMAIN reqs' BY <1>0 DEF Waiting
    <2>2. Promised' \subseteq Promised
      <3> SUFFICES ASSUME NEW c \in Promised' PROVE c \in Promised OBVIOUS
      <3>1. c \in (DOMAIN reqs') \X (1 .. PageSectors) /\ c[2] <= reqs'[c[1]].secs /\ c[1] \in Waiting'
        BY DEF Promised, SectorsOf
      <3> QED BY <3>1, <2>1 DEF Promised, SectorsOf
    <2>3. SectorsOf(page)' \subseteq SectorsOf(page) /\ Nodes' \subseteq Nodes
      BY DEF SectorsOf, Nodes
    <2> QED BY <2>1, <2>2, <2>3, LessOK
  <1>3. TreeOK' BY <1>0 DEF CacheInv, TreeOK
  <1>4. LeavesOK' /\ LeafNodes' BY DEF CacheInv, LeavesOK, LeafNodes
  <1>5. PagesOK' BY DEF CacheInv, PagesOK, Filled, Read
  <1>6. RunOK' BY <1>0 DEF RunOK, FillOK
  <1> QED BY <1>1, <1>2, <1>3, <1>4, <1>5, <1>6 DEF CacheInv

(* radix_tree_add_leaves: the page is counted for the request.              *)
LEMMA AddLeavesStep ==
    ASSUME CacheInv, run = Rest, NEW i \in DOMAIN reqs, radix_tree_add_leaves(i),
           UNCHANGED <<nodes, age, leaf>>
    PROVE  CacheInv'
  <1>1. PICK p \in FreshPages :
          /\ page' = [q \in DOMAIN page \cup {p} |->
                       IF q = p THEN [sec |-> reqs[i].sec, secs |-> reqs[i].secs, owners |-> {}]
                                ELSE page[q]]
          /\ run' = Fill(i, p, 0) /\ reqs' = reqs
    BY DEF radix_tree_add_leaves
  <1>2. p \in 1 .. DiskSectors + 1 /\ p \notin DOMAIN page BY DEF FreshPages
  <1>3. /\ DOMAIN page' = DOMAIN page \cup {p} /\ \A q \in DOMAIN page : page'[q] = page[q]
        /\ page'[p].sec = reqs[i].sec /\ page'[p].secs = reqs[i].secs /\ page'[p].owners = {}
    BY <1>1, <1>2
  <1>4. Read(reqs[i]) BY DEF CacheInv, ReqsOK
  <1>5. /\ run.op # "fill" /\ run'.op = "fill" /\ run'.page = p /\ run'.slot = i /\ run'.done = 0
        /\ run' = Fill(run'.slot, run'.page, run'.done) /\ run'.op # "prune"
    BY <1>1 DEF Fill, Rest
  <1>6. ReqsOK' BY <1>1 DEF CacheInv, ReqsOK, Read
  <1>7. LeavesOK' /\ LeafNodes' BY <1>2, <1>3 DEF CacheInv, LeavesOK, LeafNodes
  <1>8. PagesOK'
    <2>1. \A q \in DOMAIN page : Filled(q) = page[q].secs BY <1>5 DEF Filled
    <2>2. \A q \in DOMAIN page : Filled(q)' = page[q].secs BY <1>2, <1>3, <1>5 DEF Filled
    <2>3. Filled(p)' = 0 BY <1>5 DEF Filled
    <2>4. page'[p].owners = page'[p].sec .. page'[p].sec + 0 - 1 BY <1>3, <1>4 DEF Read
    <2>5. Read(page'[p]) /\ "owners" \in DOMAIN page'[p] BY <1>1, <1>3, <1>4 DEF Read
    <2>6. DOMAIN page' \subseteq 1 .. DiskSectors + 1 BY <1>2, <1>3 DEF CacheInv, PagesOK
    <2> QED BY <2>1, <2>2, <2>3, <2>4, <2>5, <2>6, <1>2, <1>3 DEF CacheInv, PagesOK
  <1>9. nodes # {} BY DEF CacheInv, TreeOK
  <1>10. TreeOK' BY <1>9 DEF CacheInv, TreeOK
  <1>11. RunOK' BY <1>1, <1>3, <1>4, <1>5 DEF RunOK, FillOK, Read
  <1>12. SizeOK'
    <2>1. /\ IsFiniteSet(DOMAIN page) /\ IsFiniteSet(DOMAIN reqs) /\ IsFiniteSet(SectorsOf(page))
          /\ IsFiniteSet(Promised) /\ IsFiniteSet(Waiting) /\ IsFiniteSet(Nodes)
      BY AllFinite DEF CacheInv, RunOK
    <2>2. Waiting = DOMAIN reqs /\ Waiting' = DOMAIN reqs \ {i} /\ Nodes = nodes /\ Promised = SectorsOf(reqs)
      BY <1>1, <1>5 DEF Waiting, Nodes, Promised, SectorsOf
    <2> DEFINE secs == reqs[i].secs
               g == Without(reqs, {i})
               way == WayNodes(page'[p])
    <2>3. secs \in Nat /\ secs <= PageSectors BY <1>4 DEF Read
    <2>4. Cardinality(SectorsOf(page')) = Cardinality(SectorsOf(page)) + secs
      BY <2>1, <2>3, <1>2, <1>3, SectorsMore
    <2>5. /\ DOMAIN g = DOMAIN reqs \ {i} /\ \A j \in DOMAIN g : g[j] = reqs[j]
          /\ IsFiniteSet(DOMAIN g) /\ i \notin DOMAIN g /\ DOMAIN reqs = DOMAIN g \cup {i}
      BY <2>1, FS_RemoveElement DEF Without
    <2> HIDE DEF g
    <2>6. Cardinality(SectorsOf(reqs)) = Cardinality(SectorsOf(g)) + secs
      <3>1. (\A q \in DOMAIN g : reqs[q].secs = g[q].secs) /\ reqs[i].secs = secs
        BY <2>5
      <3>2. IsFiniteSet(DOMAIN g) /\ i \notin DOMAIN g /\ DOMAIN reqs = DOMAIN g \cup {i}
        BY <2>5
      <3> HIDE DEF secs
      <3> QED BY ONLY <2>3, <3>1, <3>2, SectorsMore, ZenonT(40)
    <2>7. Promised' = SectorsOf(g)
      <3>1. Promised' = {c \in SectorsOf(reqs) : c[1] \in DOMAIN reqs \ {i}}
        BY <1>1, <2>2 DEF Promised, SectorsOf
      <3> QED BY <3>1, <2>5 DEF SectorsOf
    <2>8. Cardinality(Waiting') = Cardinality(Waiting) - 1 /\ Cardinality(Waiting) \in Nat
      BY <2>1, <2>2, FS_RemoveElement, FS_CardinalityType
    <2>9. Nodes' = nodes \cup way BY <1>5 DEF Nodes, WayNodes
    <2>10. IsFiniteSet(way) /\ Cardinality(way) <= 2 * Height
      <3>1. Read(page'[p]) BY <1>3, <1>4 DEF Read
      <3> QED BY <3>1, WayFinite
    <2> HIDE DEF way
    <2> DEFINE a == Cardinality(nodes)
               b == Cardinality(nodes \cup way)
               H == 2 * Height
    <2>11. a \in Nat /\ b \in Nat /\ H \in Nat /\ b <= a + H
      <3>1. /\ IsFiniteSet(nodes) /\ Cardinality(nodes \cup way) = Cardinality(nodes) + Cardinality(way) - Cardinality(nodes \cap way)
            /\ IsFiniteSet(nodes \cup way)
        BY <2>1, <2>2, <2>10, FS_Union
      <3>2. IsFiniteSet(nodes \cap way) BY <3>1, FS_Subset
      <3>3. /\ Cardinality(nodes) \in Nat /\ Cardinality(way) \in Nat /\ Cardinality(nodes \cap way) \in Nat
            /\ Cardinality(nodes \cup way) \in Nat /\ Height \in Nat
        BY <3>1, <3>2, <2>10, FS_CardinalityType, HeightFits
      <3> DEFINE x == Cardinality(nodes)
                 y == Cardinality(way)
                 z == Cardinality(nodes \cap way)
                 h == Height
      <3>4. x \in Nat /\ y \in Nat /\ z \in Nat /\ h \in Nat /\ y <= 2 * h /\ b = x + y - z /\ b \in Nat
        BY <3>1, <3>3, <2>10
      <3> HIDE DEF x, y, z, h, b
      <3>5. b <= x + 2 * h BY ONLY <3>4
      <3> QED BY <3>4, <3>5 DEF x, h
    <2> DEFINE N == NodeSize
               s == Cardinality(SectorsOf(page))
               n == Cardinality(SectorsOf(g))
               w == Cardinality(Waiting)
               w1 == w - 1
    <2>12. s \in Nat /\ n \in Nat /\ w \in Nat /\ w1 \in Nat /\ N \in Nat /\ PageNodes = H * N
      <3>1. IsFiniteSet(SectorsOf(g)) BY <2>5, SectorsFinite
      <3>2. Waiting # {} BY <2>2
      <3>3. w # 0 BY <3>2, <2>1, FS_EmptySet
      <3>4. s \in Nat /\ n \in Nat BY <3>1, <2>1, FS_CardinalityType
      <3>5. w \in Nat BY <2>8
      <3> HIDE DEF w
      <3>6. w - 1 \in Nat BY <3>3, <3>5
      <3> QED BY <3>4, <3>5, <3>6, SizeConstants DEF PageNodes
    <2>13. /\ Total(SectorsOf(page), Nodes, Promised, Waiting) = s + a * N + (n + secs) + w * PageNodes
           /\ Total(SectorsOf(page'), nodes \cup way, SectorsOf(g), Waiting') = (s + secs) + b * N + n + w1 * PageNodes
      BY <2>2, <2>4, <2>6, <2>8 DEF Total
    <2>14. Total(SectorsOf(page), Nodes, Promised, Waiting) < Bound BY DEF CacheInv, SizeOK
    <2> HIDE DEF a, b, H, s, n, w, N, secs
    <2> DEFINE an == a * N
               bn == b * N
               wn == w1 * PageNodes
    <2>15. an \in Nat /\ bn \in Nat /\ wn \in Nat /\ bn <= an + PageNodes
      <3>1. a + H \in Nat BY <2>11
      <3>2. bn \in Nat /\ bn <= (a + H) * N BY <3>1, <2>11, <2>12, TimesLess
      <3>3. (a + H) * N = an + PageNodes BY <2>11, <2>12
      <3>4. an \in Nat /\ wn \in Nat BY <2>11, <2>12, SizeConstants
      <3> QED BY <3>2, <3>3, <3>4
    <2>16. w * PageNodes = wn + PageNodes BY <2>12, SizeConstants
    <2> HIDE DEF an, bn, wn, w1
    <2>17. (s + secs) + bn + n + wn < Bound
      <3>1. s + an + (n + secs) + (wn + PageNodes) < Bound BY <2>13, <2>14, <2>16 DEF an
      <3> QED BY <3>1, <2>3, <2>12, <2>15, BoundNat, SizeConstants
    <2>18. Total(SectorsOf(page'), nodes \cup way, SectorsOf(g), Waiting') < Bound
      BY <2>13, <2>17 DEF bn, wn
    <2> QED BY <2>7, <2>9, <2>18 DEF SizeOK, Total, Bound, SectorsOf
  <1> QED BY <1>6, <1>7, <1>8, <1>10, <1>11, <1>12 DEF CacheInv

(* block_cache_populate_cache                                               *)
LEMMA PopulateStep == CacheInv /\ block_cache_populate_cache => CacheInv'
  <1> SUFFICES ASSUME CacheInv, block_cache_populate_cache PROVE CacheInv' OBVIOUS
  <1>1. PICK i \in DOMAIN reqs, n \in 1 .. PageSectors, bad \in BOOLEAN :
          /\ run = Rest
          /\ \/ /\ reqs' = [reqs EXCEPT ![i].left = @ - n, ![i].err = reqs[i].err \/ bad]
                /\ UNCHANGED <<page, run>>
             \/ block_cache_put_request(i) /\ UNCHANGED <<page, run>>
             \/ radix_tree_add_leaves(i)
          /\ UNCHANGED <<nodes, age, leaf>>
    BY ZenonT(40) DEF block_cache_populate_cache
  <1>2. CASE reqs' = [reqs EXCEPT ![i].left = @ - n, ![i].err = reqs[i].err \/ bad] /\ UNCHANGED <<page, run>>
    <2>1. DOMAIN reqs' = DOMAIN reqs BY <1>2
    <2>2. \A j \in DOMAIN reqs' : reqs'[j].sec = reqs[j].sec /\ reqs'[j].secs = reqs[j].secs
      BY <1>2
    <2> QED BY <1>1, <1>2, <2>1, <2>2, ReqsLess
  <1>3. CASE block_cache_put_request(i) /\ UNCHANGED <<page, run>>
    <2>1. DOMAIN reqs' \subseteq DOMAIN reqs /\ \A j \in DOMAIN reqs' : reqs'[j] = reqs[j]
      BY <1>3 DEF block_cache_put_request, Without
    <2> QED BY <1>1, <1>3, <2>1, ReqsLess
  <1>4. CASE radix_tree_add_leaves(i)
    BY <1>1, <1>4, AddLeavesStep
  <1> QED BY <1>1, <1>2, <1>3, <1>4

(* What is known while the cache is filled.                                 *)
LEMMA FillIs ==
    ASSUME CacheInv, run.op = "fill"
    PROVE  /\ run # Rest /\ run = Fill(run.slot, run.page, run.done)
           /\ run.slot \in DOMAIN reqs /\ run.page \in DOMAIN page
           /\ run.done \in Nat /\ run.done <= page[run.page].secs
           /\ Read(page[run.page])
           /\ page[run.page].owners = page[run.page].sec .. page[run.page].sec + run.done - 1
           /\ nodes # {} /\ Root \in nodes
           /\ Waiting = DOMAIN reqs \ {run.slot}
           /\ Nodes = nodes \cup WayNodes(page[run.page])
  <1>1. run # Rest BY DEF Rest
  <1>2. FillOK BY DEF CacheInv, RunOK
  <1>3. nodes # {} /\ Root \in nodes BY <1>1 DEF CacheInv, TreeOK
  <1>4. Filled(run.page) = run.done BY DEF Filled
  <1>5. Waiting = DOMAIN reqs \ {run.slot} /\ Nodes = nodes \cup WayNodes(page[run.page])
    BY DEF Waiting, Nodes
  <1> QED BY <1>1, <1>2, <1>3, <1>4, <1>5 DEF FillOK, CacheInv, PagesOK

(* The request is done with.                                                *)
LEMMA PutOK ==
    ASSUME CacheInv, run.op = "fill", block_cache_put_request(run.slot), run' = Rest
    PROVE  /\ ReqsOK' /\ RunOK' /\ Waiting' = Waiting /\ Promised' = Promised
  <1>1. DOMAIN reqs' = DOMAIN reqs \ {run.slot} /\ \A i \in DOMAIN reqs' : reqs'[i] = reqs[i]
    BY DEF block_cache_put_request, Without
  <1>2. run'.op # "fill" /\ run'.op # "prune" BY DEF Rest
  <1>3. Waiting' = Waiting BY <1>1, <1>2, FillIs DEF Waiting
  <1>4. Promised' = Promised
    <2>1. ASSUME NEW c PROVE c \in Promised' <=> c \in Promised
      <3>1. c \in Promised' <=> /\ c \in (DOMAIN reqs') \X (1 .. PageSectors) /\ c[2] <= reqs'[c[1]].secs
                                /\ c[1] \in Waiting'
        BY DEF Promised, SectorsOf
      <3>2. c \in Promised <=> /\ c \in (DOMAIN reqs) \X (1 .. PageSectors) /\ c[2] <= reqs[c[1]].secs
                               /\ c[1] \in Waiting
        BY DEF Promised, SectorsOf
      <3>3. Waiting = DOMAIN reqs' /\ DOMAIN reqs' \subseteq DOMAIN reqs BY <1>1, FillIs
      <3> QED BY <3>1, <3>2, <3>3, <1>1, <1>3
    <2> QED BY <2>1
  <1>5. ReqsOK' BY <1>1 DEF CacheInv, ReqsOK, Read
  <1>6. RunOK' BY <1>2 DEF RunOK, FillOK
  <1> QED BY <1>3, <1>4, <1>5, <1>6

(* filled                                                                   *)
LEMMA FilledStep == CacheInv /\ filled => CacheInv'
  <1> SUFFICES ASSUME CacheInv, filled PROVE CacheInv' OBVIOUS
  <1>1. /\ run.op = "fill" /\ ~(run.done < page[run.page].secs) /\ run' = Rest
        /\ block_cache_put_request(run.slot) /\ UNCHANGED <<nodes, leaf, page>>
    BY DEF filled, Filling
  <1>2. run.done = page[run.page].secs BY <1>1, FillIs DEF Read
  <1>3. ReqsOK' /\ RunOK' /\ Waiting' = Waiting /\ Promised' = Promised BY <1>1, PutOK
  <1>4. LeavesOK' /\ LeafNodes' BY <1>1 DEF CacheInv, LeavesOK, LeafNodes
  <1>5. PagesOK'
    <2>1. \A p \in DOMAIN page : Filled(p)' = Filled(p) BY <1>1, <1>2 DEF Filled, Rest
    <2> QED BY <2>1, <1>1 DEF CacheInv, PagesOK, Read
  <1>6. TreeOK' BY <1>1, FillIs DEF CacheInv, TreeOK
  <1>7. SizeOK'
    <2>1. Nodes' = nodes BY <1>1 DEF Nodes, Rest
    <2>2. SectorsOf(page)' = SectorsOf(page) BY <1>1 DEF SectorsOf
    <2> QED BY <2>1, <2>2, <1>1, <1>3, FillIs, LessOK
  <1> QED BY <1>3, <1>4, <1>5, <1>6, <1>7 DEF CacheInv

(* The nodes on the way to a sector.                                        *)
LEMMA WayIs ==
    ASSUME NEW s \in ImageSectors, NEW l \in Way(s)
    PROVE  /\ l = <<l[1], above[l[1]][s]>> /\ l[1] \in Nat /\ l[1] <= Height
           /\ NodeOf(l) = <<l[1], above[l[1] + 1][s]>> /\ above[l[1] + 1][s] \in Nat
           /\ l[1] = Height => NodeOf(l) = Root
           /\ l[1] < Height => NodeOf(LinkTo(NodeOf(l))) = NodeOf(LinkAt(l[1] + 1, s))
                              /\ LinkAt(l[1] + 1, s) \in Way(s) /\ LinkAt(l[1] + 1, s)[1] = l[1] + 1
  <1>0. s \in Nat /\ above[Height + 1][s] = 0 /\ Height \in Nat BY HeightFits
  <1>1. PICK h \in 0 .. Height : l = <<h, above[h][s]>> BY DEF Way, LinkAt
  <1>2. h \in Nat /\ h <= Height /\ l[1] = h /\ l[2] = above[h][s] BY <1>1, <1>0
  <1>3. above[h + 1][s] = above[h][s] \div Fan /\ above[h + 1][s] \in Nat /\ h + 1 \in Nat
    BY <1>0, <1>2, UpStep, UpNat
  <1>4. NodeOf(l) = <<h, above[h + 1][s]>> BY <1>2, <1>3 DEF NodeOf
  <1>5. h < Height => /\ NodeOf(LinkTo(NodeOf(l))) = NodeOf(LinkAt(h + 1, s))
                      /\ LinkAt(h + 1, s) \in Way(s) /\ LinkAt(h + 1, s)[1] = h + 1
    <2> SUFFICES ASSUME h < Height
                 PROVE  /\ NodeOf(LinkTo(NodeOf(l))) = NodeOf(LinkAt(h + 1, s))
                        /\ LinkAt(h + 1, s) \in Way(s) /\ LinkAt(h + 1, s)[1] = h + 1
      OBVIOUS
    <2>1. h + 1 \in 0 .. Height BY <1>0, <1>2
    <2> QED BY <2>1, <1>4 DEF Way, LinkAt, NodeOf, LinkTo
  <1> QED BY <1>0, <1>1, <1>2, <1>3, <1>4, <1>5 DEF Root

(* More nodes on the way to a sector, from the root.                        *)
LEMMA TreeMore ==
    ASSUME TreeOK, Root \in nodes, NEW s \in ImageSectors, NEW ls \in SUBSET Way(s),
           \A l \in ls : l[1] < Height => LinkAt(l[1] + 1, s) \in ls,
           nodes' = nodes \cup {NodeOf(l) : l \in ls}
    PROVE  TreeOK'
  <1>0. Height \in Nat /\ Height >= 1 BY HeightFits
  <1>1. \A l \in ls : NodeOf(l) \in (0 .. Height) \X Nat /\ (NodeOf(l)[1] = Height => NodeOf(l) = Root)
    <2> TAKE l \in ls
    <2>1. l[1] \in 0 .. Height /\ NodeOf(l) = <<l[1], above[l[1] + 1][s]>> /\ above[l[1] + 1][s] \in Nat
      BY WayIs, <1>0
    <2>2. l[1] = Height => NodeOf(l) = Root BY WayIs
    <2> QED BY <2>1, <2>2
  <1>2. \A n \in nodes' : n # Root => NodeOf(LinkTo(n)) \in nodes'
    <2> SUFFICES ASSUME NEW l \in ls, NodeOf(l) # Root PROVE NodeOf(LinkTo(NodeOf(l))) \in nodes'
      BY DEF TreeOK
    <2>1. l[1] < Height BY WayIs, <1>0
    <2>2. NodeOf(LinkTo(NodeOf(l))) = NodeOf(LinkAt(l[1] + 1, s)) BY <2>1, WayIs
    <2>3. LinkAt(l[1] + 1, s) \in ls BY <2>1
    <2> QED BY <2>2, <2>3
  <1>3. IsFiniteSet(nodes')
    <2> DEFINE f == [h \in 0 .. Height |-> NodeOf(LinkAt(h, s))]
               T == {NodeOf(l) : l \in Way(s)}
    <2>1. IsFiniteSet(0 .. Height)
      <3>1. 0 \in Int /\ Height \in Int BY <1>0
      <3> QED BY <3>1, FS_Interval
    <2>2. f \in Surjection(0 .. Height, T)
      <3>1. \A h \in 0 .. Height : f[h] \in T BY DEF Way
      <3>2. \A t \in T : \E h \in 0 .. Height : f[h] = t BY DEF Way
      <3> HIDE DEF T
      <3> QED BY <3>1, <3>2 DEF Surjection
    <2> HIDE DEF f
    <2>3. IsFiniteSet(T) BY <2>1, <2>2, FS_Surjection
    <2>4. {NodeOf(l) : l \in ls} \in SUBSET T OBVIOUS
    <2>5. IsFiniteSet({NodeOf(l) : l \in ls}) BY <2>3, <2>4, FS_Subset
    <2> QED BY <2>5, FS_Union DEF TreeOK
  <1> QED BY <1>1, <1>2, <1>3 DEF TreeOK, Root, NodeOf, LinkTo

(* The nodes on the way to a sector of the page are counted already.        *)
LEMMA WayCounted ==
    ASSUME NEW r, Read(r), NEW s \in r.sec .. r.sec + r.secs - 1
    PROVE  /\ s \in ImageSectors
           /\ \A l \in Way(s) : NodeOf(l) = Root \/ NodeOf(l) \in WayNodes(r)
  <1>1. s \in ImageSectors BY CacheConstants DEF Read, ImageSectors
  <1>2. ASSUME NEW l \in Way(s), NodeOf(l) # Root PROVE NodeOf(l) \in WayNodes(r)
    <2>1. l[1] \in Nat /\ l[1] < Height /\ NodeOf(l) = <<l[1], above[l[1] + 1][s]>>
      BY <1>1, <1>2, WayIs, HeightFits
    <2>2. l[1] \in 0 .. Height - 1 BY <2>1, HeightFits
    <2> QED BY <2>1, <2>2 DEF WayNodes
  <1> QED BY <1>1, <1>2

\* What putting a leaf in for sector s, into page p, leaves.
InsertedAt(s, p) ==
    /\ LeavesOK' /\ p \in DOMAIN page'
    /\ DOMAIN page' \subseteq DOMAIN page /\ DOMAIN leaf' \subseteq DOMAIN leaf \cup {s}
    /\ \A q \in DOMAIN page' :
        /\ page'[q].sec = page[q].sec /\ page'[q].secs = page[q].secs
        /\ page'[q].owners = IF q = p THEN page[q].owners \cup {s} ELSE page[q].owners
        /\ Read(page[q]) => Read(page'[q])
        /\ "owners" \in DOMAIN page'[q]

(* A leaf that is put in takes the place of the page that was there.        *)
LEMMA InsertOK ==
    ASSUME LeavesOK, PagesOK, NEW s \in ImageSectors, NEW p \in DOMAIN page, NEW off,
           page[p].sec + off = s, s \notin page[p].owners,
           radix_tree_insert_leaf(s, p, off, PageAt(s))
    PROVE  InsertedAt(s, p)
  <1> DEFINE ps == PageAt(s)
  <1>1. /\ page' = [q \in DOMAIN page \ ps |->
                       IF q = p THEN [page[q] EXCEPT !.owners = @ \cup {s}] ELSE page[q]]
        /\ leaf' = [x \in (DOMAIN leaf \ Owned(ps)) \cup {s} |->
                       IF x = s THEN [page |-> p, off |-> off] ELSE leaf[x]]
    BY DEF radix_tree_insert_leaf
  <1>2. p \notin ps BY DEF PageAt, LeavesOK
  <1>3. \A q \in DOMAIN page : s \in page[q].owners => q \in ps BY DEF PageAt, LeavesOK
  <1> HIDE DEF ps
  <1>4. DOMAIN page' = DOMAIN page \ ps /\ DOMAIN leaf' = (DOMAIN leaf \ Owned(ps)) \cup {s}
    BY <1>1
  <1>5. \A q \in DOMAIN page' :
           /\ page'[q].sec = page[q].sec /\ page'[q].secs = page[q].secs
           /\ page'[q].owners = IF q = p THEN page[q].owners \cup {s} ELSE page[q].owners
           /\ "owners" \in DOMAIN page'[q]
    <2> TAKE q \in DOMAIN page'
    <2>1. page'[q] = IF q = p THEN [page[q] EXCEPT !.owners = @ \cup {s}] ELSE page[q] BY <1>1
    <2>2. CASE q = p
      <3>1. page'[p] = [page[p] EXCEPT !.owners = @ \cup {s}] BY <2>1, <2>2
      <3>2. page'[p].sec = page[p].sec /\ page'[p].secs = page[p].secs BY <3>1
      <3>3. page'[p].owners = page[p].owners \cup {s} /\ "owners" \in DOMAIN page'[p]
        BY <3>1 DEF PagesOK
      <3> QED BY <3>2, <3>3, <2>2
    <2>3. CASE q # p
      <3>1. page'[q] = page[q] /\ q \in DOMAIN page BY <2>1, <2>3, <1>4
      <3> QED BY <3>1, <2>3 DEF PagesOK
    <2> QED BY <2>2, <2>3
  <1>6. ASSUME NEW x \in DOMAIN leaf'
        PROVE  /\ x \in ImageSectors /\ leaf'[x].page \in DOMAIN page'
               /\ page'[leaf'[x].page].sec + leaf'[x].off = x
               /\ x \in page'[leaf'[x].page].owners
    <2>1. CASE x = s
      <3>1. leaf'[x].page = p /\ leaf'[x].off = off BY <2>1, <1>1
      <3>2. p \in DOMAIN page' BY <1>2, <1>4
      <3> QED BY <3>1, <3>2, <2>1, <1>5
    <2>2. CASE x # s
      <3>1. x \in DOMAIN leaf /\ x \notin Owned(ps) /\ leaf'[x] = leaf[x] BY <2>2, <1>1, <1>4
      <3>2. /\ leaf[x].page \in DOMAIN page /\ page[leaf[x].page].sec + leaf[x].off = x
            /\ x \in page[leaf[x].page].owners /\ x \in ImageSectors
        BY <3>1 DEF LeavesOK
      <3>3. leaf[x].page \notin ps BY <3>1, <3>2 DEF Owned
      <3>4. leaf[x].page \in DOMAIN page' BY <3>2, <3>3, <1>4
      <3>5. x \in page'[leaf[x].page].owners BY <3>2, <3>4, <1>5
      <3> QED BY <3>1, <3>2, <3>4, <3>5, <1>5
    <2> QED BY <2>1, <2>2
  <1>7. ASSUME NEW q \in DOMAIN page', NEW x \in page'[q].owners
        PROVE  x \in DOMAIN leaf' /\ leaf'[x].page = q
    <2>0. q \in DOMAIN page /\ q \notin ps BY <1>4
    <2>1. CASE x = s
      <3>1. q = p BY <2>0, <2>1, <1>3, <1>5
      <3> QED BY <3>1, <2>1, <1>1, <1>4
    <2>2. CASE x # s
      <3>1. x \in page[q].owners BY <2>2, <1>5
      <3>2. x \in DOMAIN leaf /\ leaf[x].page = q BY <2>0, <3>1 DEF LeavesOK
      <3>3. x \notin Owned(ps)
        <4> SUFFICES ASSUME NEW r \in ps, x \in page[r].owners PROVE FALSE BY DEF Owned
        <4>1. ps \subseteq DOMAIN page BY DEF ps, PageAt, LeavesOK
        <4>2. leaf[x].page = r BY <4>1 DEF LeavesOK
        <4> QED BY <4>2, <3>2, <2>0
      <3> QED BY <3>2, <3>3, <2>2, <1>1, <1>4
    <2> QED BY <2>1, <2>2
  <1>8. DOMAIN leaf' \subseteq ImageSectors BY <1>6
  <1>9. LeavesOK' BY <1>6, <1>7, <1>8 DEF LeavesOK, ImageSectors
  <1>10. p \in DOMAIN page' /\ DOMAIN page' \subseteq DOMAIN page
         /\ DOMAIN leaf' \subseteq DOMAIN leaf \cup {s}
    BY <1>2, <1>4
  <1>11. \A q \in DOMAIN page' : Read(page[q]) => Read(page'[q]) BY <1>5 DEF Read
  <1> QED BY <1>5, <1>9, <1>10, <1>11 DEF InsertedAt

(* radix_tree_add_leaf                                                      *)
LEMMA AddLeafStep == CacheInv /\ radix_tree_add_leaf => CacheInv'
  <1> SUFFICES ASSUME CacheInv, radix_tree_add_leaf PROVE CacheInv' OBVIOUS
  <1> DEFINE s == NextSector
             p == run.page
             r == page[p]
  <1>1. /\ run.op = "fill" /\ run.done < r.secs /\ run' = [run EXCEPT !.done = @ + 1]
        /\ nodes' = nodes \cup {NodeOf(l) : l \in Way(s)}
        /\ radix_tree_insert_leaf(s, p, run.done, PageAt(s)) /\ reqs' = reqs
    BY DEF radix_tree_add_leaf, Filling
  <1>2. /\ run = Fill(run.slot, p, run.done) /\ run.slot \in DOMAIN reqs /\ p \in DOMAIN page
        /\ run.done \in Nat /\ Read(r) /\ r.owners = r.sec .. r.sec + run.done - 1
        /\ nodes # {} /\ Root \in nodes /\ Waiting = DOMAIN reqs \ {run.slot}
        /\ Nodes = nodes \cup WayNodes(r)
    BY <1>1, FillIs
  <1>3. s = r.sec + run.done /\ s \in r.sec .. r.sec + r.secs - 1 /\ s \notin r.owners
    <2>1. s = r.sec + run.done BY DEF NextSector
    <2> HIDE DEF s, r
    <2> QED BY <2>1, <1>1, <1>2 DEF Read
  <1>4. /\ s \in ImageSectors
        /\ \A l \in Way(s) : NodeOf(l) = Root \/ NodeOf(l) \in WayNodes(r)
    <2> HIDE DEF s, r
    <2> QED BY <1>2, <1>3, WayCounted
  <1>5. run' = Fill(run.slot, p, run.done + 1)
    BY <1>1, <1>2 DEF Fill
  <1>6. run'.op = "fill" /\ run'.page = p /\ run'.slot = run.slot /\ run'.done = run.done + 1 /\ run' # Rest
    BY <1>5 DEF Fill, Rest
  <1>7. InsertedAt(s, p)
    <2>1. LeavesOK /\ PagesOK BY DEF CacheInv
    <2>2. p \in DOMAIN page BY <1>2
    <2>3. page[p].sec + run.done = s /\ s \notin page[p].owners BY <1>3
    <2> HIDE DEF s, p
    <2> QED BY <2>1, <2>2, <2>3, <1>1, <1>4, InsertOK
  <1> HIDE DEF s, p
  <1>8. LeavesOK' BY <1>7 DEF InsertedAt
  <1>9. ASSUME NEW q \in DOMAIN page'
        PROVE  /\ Read(page'[q]) /\ "owners" \in DOMAIN page'[q]
               /\ page'[q].owners = page'[q].sec .. page'[q].sec + Filled(q)' - 1
    <2>1. /\ q \in DOMAIN page /\ page'[q].sec = page[q].sec /\ page'[q].secs = page[q].secs
          /\ page'[q].owners = IF q = p THEN page[q].owners \cup {s} ELSE page[q].owners
          /\ "owners" \in DOMAIN page'[q] /\ (Read(page[q]) => Read(page'[q]))
      BY <1>7 DEF InsertedAt
    <2>2. Read(page[q]) /\ page[q].owners = page[q].sec .. page[q].sec + Filled(q) - 1
      BY <2>1 DEF CacheInv, PagesOK
    <2>3. CASE q = p
      <3>1. Filled(q)' = run.done + 1 BY <2>3, <1>6 DEF Filled
      <3>2. page'[q].owners = (r.sec .. r.sec + run.done - 1) \cup {r.sec + run.done}
        BY <2>1, <2>3, <1>2, <1>3
      <3>3. r.sec \in Nat /\ run.done \in Nat BY <1>2 DEF Read
      <3>4. r.sec = page'[q].sec BY <2>1, <2>3
      <3> HIDE DEF r
      <3>5. (r.sec .. r.sec + run.done - 1) \cup {r.sec + run.done} = r.sec .. r.sec + (run.done + 1) - 1
        BY <3>3
      <3> QED BY <3>1, <3>2, <3>4, <3>5, <2>1, <2>2
    <2>4. CASE q # p
      <3>1. Filled(q)' = page'[q].secs /\ Filled(q) = page[q].secs BY <2>4, <1>6 DEF Filled, p
      <3> QED BY <3>1, <2>1, <2>2, <2>4
    <2> QED BY <2>3, <2>4
  <1>10. PagesOK' BY <1>7, <1>9 DEF PagesOK, CacheInv, InsertedAt
  <1>11. LeafNodes'
    <2> SUFFICES ASSUME NEW x \in DOMAIN leaf' PROVE NodeOf(<<0, x>>) \in nodes' BY DEF LeafNodes
    <2>1. CASE x = s
      <3>1. LinkAt(0, s) = <<0, s>>
        <4>1. s \in Nat BY <1>4, HeightFits
        <4> QED BY <4>1, UpStep DEF LinkAt
      <3>2. 0 \in 0 .. Height BY HeightFits
      <3>3. <<0, s>> \in Way(s) BY <3>1, <3>2 DEF Way
      <3> QED BY <3>3, <2>1, <1>1
    <2>2. CASE x # s
      <3>1. x \in DOMAIN leaf BY <2>2, <1>7 DEF InsertedAt
      <3> QED BY <3>1, <1>1 DEF CacheInv, LeafNodes
    <2> QED BY <2>1, <2>2
  <1>12. TreeOK'
    <2>1. \A l \in Way(s) : l[1] < Height => LinkAt(l[1] + 1, s) \in Way(s) BY <1>4, WayIs
    <2>2. Way(s) \in SUBSET Way(s) OBVIOUS
    <2> QED BY <2>1, <2>2, <1>1, <1>2, <1>4, TreeMore DEF CacheInv
  <1>13. RunOK'
    <2>1. run'.done \in Nat /\ run'.done <= page'[p].secs
      <3>1. page'[p].secs = page[p].secs BY <1>7 DEF InsertedAt
      <3>2. page[p].secs \in Nat BY <1>2 DEF Read
      <3> QED BY <3>1, <3>2, <1>1, <1>2, <1>6
    <2>2. FillOK' BY <2>1, <1>1, <1>2, <1>5, <1>6, <1>7 DEF FillOK, InsertedAt, p
    <2> QED BY <2>2, <1>6 DEF RunOK
  <1>14. SizeOK'
    <2>1. Waiting' = Waiting BY <1>1, <1>6 DEF Waiting
    <2>2. Promised' = Promised BY <2>1, <1>1 DEF Promised, SectorsOf
    <2>3. SectorsOf(page)' \subseteq SectorsOf(page) BY <1>7 DEF SectorsOf, InsertedAt
    <2>4. Nodes' \subseteq Nodes
      <3>0. page'[p].sec = r.sec /\ page'[p].secs = r.secs BY <1>7 DEF InsertedAt
      <3>1. WayNodes(page'[p]) = WayNodes(r) BY ONLY <3>0 DEF WayNodes
      <3>2. Nodes' = nodes' \cup WayNodes(page'[p]) BY <1>6 DEF Nodes
      <3>3. Nodes = nodes \cup WayNodes(r) BY <1>2
      <3>4. \A l \in Way(s) : NodeOf(l) \in nodes \cup WayNodes(r) BY <1>2, <1>4
      <3> HIDE DEF r
      <3> QED BY <3>1, <3>2, <3>3, <3>4, <1>1
    <2> QED BY <2>1, <2>2, <2>3, <2>4, LessOK
  <1>15. ReqsOK' BY <1>1 DEF CacheInv, ReqsOK, Read
  <1> QED BY <1>8, <1>10, <1>11, <1>12, <1>13, <1>14, <1>15 DEF CacheInv

(* add_leaves_fail                                                          *)
LEMMA FailStep == CacheInv /\ add_leaves_fail => CacheInv'
  <1> SUFFICES ASSUME CacheInv, add_leaves_fail PROVE CacheInv' OBVIOUS
  <1> DEFINE s == NextSector
             p == run.page
             r == page[p]
             ps == {p}
  <1>1. PICK h \in 0 .. Height - 1 :
           LET made == {l \in Way(s) : l[1] > h}
           IN  /\ nodes' = nodes \cup {NodeOf(l) : l \in made}
               /\ radix_tree_remove_page(ps, Fresh(age, made), {})
    BY DEF add_leaves_fail
  <1> DEFINE made == {l \in Way(s) : l[1] > h}
  <1>2. /\ run.op = "fill" /\ run.done < r.secs /\ run' = Rest
        /\ nodes' = nodes \cup {NodeOf(l) : l \in made}
        /\ page' = Without(page, ps) /\ leaf' = Without(leaf, Owned(ps))
        /\ block_cache_put_request(run.slot)
    BY <1>1 DEF add_leaves_fail, Filling, radix_tree_remove_page
  <1>3. /\ p \in DOMAIN page /\ run.done \in Nat /\ Read(r) /\ nodes # {} /\ Root \in nodes
        /\ Nodes = nodes \cup WayNodes(r)
    BY <1>2, FillIs
  <1>4. s = r.sec + run.done /\ s \in r.sec .. r.sec + r.secs - 1
    <2>1. s = r.sec + run.done BY DEF NextSector
    <2> HIDE DEF s, r
    <2> QED BY <2>1, <1>2, <1>3 DEF Read
  <1>5. /\ s \in ImageSectors
        /\ \A l \in Way(s) : NodeOf(l) = Root \/ NodeOf(l) \in WayNodes(r)
    <2> HIDE DEF s, r
    <2> QED BY <1>3, <1>4, WayCounted
  <1> HIDE DEF s
  <1>6. ReqsOK' /\ RunOK' /\ Waiting' = Waiting /\ Promised' = Promised BY <1>2, PutOK
  <1>7. \A q \in DOMAIN page \ ps : Filled(q)' = Filled(q)
    <2> TAKE q \in DOMAIN page \ ps
    <2>1. page'[q] = page[q] /\ q # run.page BY <1>2 DEF Without
    <2>2. run'.op # "fill" BY <1>2 DEF Rest
    <2> QED BY <2>1, <2>2 DEF Filled
  <1>8. ps \in SUBSET DOMAIN page BY <1>3
  <1> HIDE DEF ps
  <1>9. /\ LeavesOK' /\ PagesOK' /\ SectorsOf(page)' \subseteq SectorsOf(page)
        /\ DOMAIN leaf' \subseteq DOMAIN leaf
    BY <1>2, <1>7, <1>8, FreeOK DEF CacheInv
  <1>10. LeafNodes' BY <1>2, <1>9 DEF CacheInv, LeafNodes
  <1>11. TreeOK'
    <2>1. \A l \in made : l[1] < Height => LinkAt(l[1] + 1, s) \in made
      <3> SUFFICES ASSUME NEW l \in Way(s), l[1] > h, l[1] < Height
                   PROVE  LinkAt(l[1] + 1, s) \in made
        OBVIOUS
      <3>1. /\ l[1] \in Nat /\ LinkAt(l[1] + 1, s) \in Way(s) /\ LinkAt(l[1] + 1, s)[1] = l[1] + 1
        BY <1>5, WayIs
      <3>2. h \in Int BY HeightFits
      <3> QED BY <3>1, <3>2
    <2>2. made \in SUBSET Way(s) OBVIOUS
    <2> HIDE DEF made
    <2> QED BY <2>1, <2>2, <1>2, <1>3, <1>5, TreeMore DEF CacheInv
  <1>12. SizeOK'
    <2>1. Nodes' = nodes' BY <1>2 DEF Nodes, Rest
    <2>2. \A l \in made : NodeOf(l) \in Nodes BY <1>3, <1>5
    <2>3. nodes' \subseteq Nodes
      <3> HIDE DEF made
      <3> QED BY <2>2, <1>2, <1>3
    <2> QED BY <2>1, <2>3, <1>6, <1>9, LessOK
  <1> QED BY <1>6, <1>9, <1>10, <1>11, <1>12 DEF CacheInv

(* Nothing happens.                                                         *)
LEMMA StillStep == CacheInv /\ UNCHANGED cacheVars => CacheInv'
  <1> SUFFICES ASSUME CacheInv, UNCHANGED cacheVars PROVE CacheInv' OBVIOUS
  <1>1. UNCHANGED <<nodes, leaf, page, reqs, run>> BY DEF cacheVars
  <1>2. TreeOK' /\ LeavesOK' /\ LeafNodes' /\ ReqsOK'
    BY <1>1 DEF CacheInv, TreeOK, LeavesOK, LeafNodes, ReqsOK, Read
  <1>3. PagesOK' BY <1>1 DEF CacheInv, PagesOK, Read, Filled
  <1>4. Down' = Down BY <1>1 DEF Down
  <1>5. RunOK' BY <1>1, <1>4 DEF CacheInv, RunOK, FillOK, Pruning
  <1>6. Waiting' = Waiting BY <1>1 DEF Waiting
  <1>7. Promised' = Promised /\ Nodes' = Nodes /\ SectorsOf(page)' = SectorsOf(page)
    BY <1>1, <1>6 DEF Promised, SectorsOf, Nodes, WayNodes
  <1>8. SizeOK' BY <1>6, <1>7, LessOK
  <1> QED BY <1>2, <1>3, <1>5, <1>8 DEF CacheInv

(* Whatever the cache does next keeps the invariant.                        *)
LEMMA StepOK == CacheInv /\ [CacheNext]_cacheVars => CacheInv'
  BY StillStep, OpenStep, CloseStep, ReadStep, PopulateStep, AddLeafStep, FailStep, FilledStep,
     PruneEventStep, KeepStep, LeafStep, IdleStep, DownStep, NoneStep, UpperStep, PrunedStep,
     TickStep DEF CacheNext

(* The inductive invariant: the tree of radix_tree_t hangs together, leaves *)
(* and pages name each other, and what block_cache_miss promised fits.      *)
THEOREM CacheInvariance == CacheSpec => []CacheInv
  BY InitOK, StepOK, PTL DEF CacheSpec

-----------------------------------------------------------------------------
(* What follows from the invariant.                                         *)

(* The nodes on the way to a leaf are there.                                *)
LEMMA WayThere ==
    ASSUME TreeOK, LeavesOK, LeafNodes, NEW s \in DOMAIN leaf
    PROVE  \A h \in 0 .. Height : NodeOf(LinkAt(h, s)) \in nodes
  <1> DEFINE B == {h \in Nat : h <= Height /\ NodeOf(LinkAt(h, s)) \notin nodes}
  <1>0. s \in ImageSectors /\ s \in Nat /\ Height \in Nat BY HeightFits DEF LeavesOK
  <1>1. B = {}
    <2> SUFFICES ASSUME B # {} PROVE FALSE OBVIOUS
    <2>1. PICK h \in B : \A j \in B : h <= j BY Minimum
    <2>2. h \in Nat /\ h <= Height /\ NodeOf(LinkAt(h, s)) \notin nodes BY <2>1
    <2>3. CASE h = 0
      <3>1. LinkAt(0, s) = <<0, s>> BY <1>0, UpStep DEF LinkAt
      <3> QED BY <3>1, <2>2, <2>3 DEF LeafNodes
    <2>4. CASE h # 0
      <3> DEFINE g == h - 1
                 l == LinkAt(g, s)
      <3>1. g \in Nat /\ g < Height /\ g + 1 = h /\ g \notin B BY <2>1, <2>2, <2>4, <1>0
      <3>2. g \in 0 .. Height /\ NodeOf(l) \in nodes BY <3>1, <1>0
      <3>3. l \in Way(s) /\ l[1] = g BY <3>2 DEF Way, LinkAt
      <3> HIDE DEF g, l
      <3>4. NodeOf(LinkTo(NodeOf(l))) = NodeOf(LinkAt(h, s)) /\ NodeOf(l)[1] = g
        BY <3>1, <3>3, <1>0, WayIs
      <3>5. NodeOf(l) # Root BY <3>1, <3>4, <1>0 DEF Root
      <3> QED BY <3>2, <3>4, <3>5, <2>2 DEF TreeOK
    <2> QED BY <2>3, <2>4
  <1> TAKE h \in 0 .. Height
  <1>2. h \in Nat /\ h <= Height BY <1>0
  <1> QED BY <1>1, <1>2

(* The memory in use and promised is below the bound.                       *)
LEMMA InUseBounded ==
    ASSUME CacheInv
    PROVE  radix_tree_size + Cardinality({c \in SectorsOf(reqs) : c[1] \in Waiting})
             + Cardinality(Waiting) * PageNodes
           < MaxSize + (Pool - 1) * PageSectors + Pool * PageNodes
  <1>1. /\ IsFiniteSet(SectorsOf(page)) /\ IsFiniteSet(Nodes)
        /\ IsFiniteSet(Promised) /\ IsFiniteSet(Waiting)
    BY AllFinite DEF CacheInv, RunOK
  <1>2. nodes \subseteq Nodes BY DEF Nodes
  <1> DEFINE t == Total(SectorsOf(page), Nodes, Promised, Waiting)
             u == Total(SectorsOf(page), nodes, Promised, Waiting)
  <1>3. u <= t BY <1>1, <1>2, TotalLess
  <1>4. t \in Nat /\ u \in Nat
    <2>1. IsFiniteSet(nodes) BY DEF CacheInv, TreeOK
    <2> QED BY <2>1, <1>1, TotalNat
  <1>5. t < Bound BY DEF CacheInv, SizeOK
  <1> HIDE DEF t, u
  <1>6. u < Bound BY <1>3, <1>4, <1>5, BoundNat
  <1> QED BY <1>6 DEF u, Total, Bound, radix_tree_size, Promised

(* The invariant says that the cache is kept.                               *)
LEMMA KeptOK == CacheInv => CacheKept
  <1> SUFFICES ASSUME CacheInv PROVE CacheKept OBVIOUS
  <1>1. CacheSound
    <2>1. \A s \in DOMAIN leaf :
             /\ leaf[s].page \in DOMAIN page /\ page[leaf[s].page].sec + leaf[s].off = s
             /\ \A h \in 0 .. Height : NodeOf(LinkAt(h, s)) \in nodes
      BY WayThere DEF CacheInv, LeavesOK
    <2>2. \A p \in DOMAIN page :
             /\ page[p].owners = page[p].sec .. page[p].sec + Filled(p) - 1
             /\ \A s \in page[p].owners : s \in DOMAIN leaf /\ leaf[s].page = p
      BY DEF CacheInv, LeavesOK, PagesOK
    <2> QED BY <2>1, <2>2 DEF CacheSound
  <1>2. CacheBounded
    <2>1. \A n \in nodes \ {Root} : NodeOf(LinkTo(n)) \in nodes BY DEF CacheInv, TreeOK
    <2> QED BY <2>1, InUseBounded DEF CacheBounded
  <1> QED BY <1>1, <1>2 DEF CacheKept

(* The cache is kept: no link of the tree leads to a page or a node that    *)
(* radix_tree_remove_page, radix_tree_prune_branch or                       *)
(* radix_tree_delete_branch freed, a page is known by all the links of its  *)
(* sectors or is not there, and the memory in use stays within              *)
(* BLOCK_CACHE_MAX_SIZE but for what block_cache_miss does not count.       *)
THEOREM CacheIsKept == CacheSpec => []CacheKept
  BY CacheInvariance, KeptOK, PTL
====
