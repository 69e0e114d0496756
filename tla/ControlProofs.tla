--------------------------- MODULE ControlProofs ---------------------------
(***************************************************************************)
(* Proofs about Control for every number of connections, clients and vbds, *)
(* every set of requests and every size of the output buffer.              *)
(***************************************************************************)
EXTENDS Control, FiniteSetTheorems, SequenceTheorems, TLAPS

-----------------------------------------------------------------------------
(* The inductive invariant.  Beside the properties it says that a          *)
(* connection with output pending is no longer read (so that sending it    *)
(* may close it), that at most one handler waits and td_control.busy and   *)
(* conn->busy are its marks, and that the scheduler runs again under it    *)
(* only after it has looked at its connection, which it does before any    *)
(* other client can be accepted on it.                                     *)

(* The array of connections                                                *)
Pool(s) ==
    /\ s \in Pools
    /\ IsInjective(s.order)
    /\ \A c \in Conns : s.conn[c].fd # NONE <=> \E i \in 1 .. s.n_conn : s.order[i] = c
    /\ s.masked <=> s.n_conn = MaxConns

(* Sending the output of c does not leave an event on a closed descriptor. *)
WriteAfterRead(s) ==
    \A c \in Conns : s.conn[c].fd # NONE /\ s.conn[c].out # <<>> => ~s.conn[c].in_event

NoStaleEvent(s) == \A c \in Conns : s.conn[c].in_event => s.conn[c].fd # NONE

Waiting == frames # <<>>

OneHandler ==
    /\ Len(frames) <= 1
    /\ Waiting => /\ phase \in {"select", "events", "check"}
                  /\ phase # "check" => frames[1].iterated
                  /\ vbd[frames[1].vbd] # "absent"
    /\ phase = "check" => Waiting

Marked(s) ==
    /\ s.busy <=> Waiting
    /\ \A c \in Conns : s.conn[c].busy <=> (Waiting /\ frames[1].conn = c)

(* The connection of the handler is the asker's, or free and not yet       *)
(* accepted for another client.                                            *)
AskerOrNone(s) ==
    Waiting => LET fd == s.conn[frames[1].conn].fd
               IN  \/ fd = frames[1].asker
                   \/ fd = NONE /\ frames[1].iterated /\ phase \in {"events", "check"}

OwnReplies(s) ==
    \A c \in Conns : s.conn[c].fd # NONE =>
        \A i \in 1 .. Len(s.conn[c].out) : s.conn[c].out[i] = s.conn[c].fd

IInv ==
    /\ TypeOK
    /\ Pool(td_control)
    /\ WriteAfterRead(td_control)
    /\ phase \in {"select", "events", "check"} => NoStaleEvent(td_control)
    /\ OneHandler
    /\ Marked(td_control)
    /\ ~Enotty => AskerOrNone(td_control) /\ OwnReplies(td_control)

-----------------------------------------------------------------------------
(* The operations on the pool                                              *)

LEMMA MaxConnsType == MaxConns \in Nat \ {0}
  <1>1. Cardinality(Conns) \in Nat
    BY ControlAssumption, FS_CardinalityType
  <1>2. Cardinality(Conns) # 0
    BY ControlAssumption, FS_EmptySet
  <1> QED BY <1>1, <1>2 DEF MaxConns

(* tapdisk_control_initialize lists every connection.                      *)
LEMMA SetToSeqListsAll ==
    /\ SetToSeq(Conns) \in [1 .. MaxConns -> Conns]
    /\ IsInjective(SetToSeq(Conns))
  <1>1. ExistsBijection(1 .. MaxConns, Conns)
    BY ControlAssumption, FS_CardinalityType DEF MaxConns
  <1>2. PICK f : f \in Bijection(1 .. MaxConns, Conns)
    BY <1>1 DEF ExistsBijection
  <1>3. f \in [1 .. Cardinality(Conns) -> Conns] /\ IsInjective(f)
    BY <1>2 DEF Bijection, Injection, MaxConns
  <1> QED BY <1>3 DEF SetToSeq, MaxConns

(* From s to t at most connection c changes.                               *)
Others(s, t, c) == \A d \in Conns \ {c} : t.conn[d] = s.conn[d]

(* ... and the array does not                                              *)
Update(s, t, c) ==
    /\ t \in Pools
    /\ t.order = s.order /\ t.n_conn = s.n_conn /\ t.masked = s.masked
    /\ Others(s, t, c)

(* What does not open or close a descriptor keeps the pool.                *)
LEMMA PoolKept ==
    ASSUME NEW s, Pool(s), NEW t, NEW c \in Conns, Update(s, t, c),
           t.conn[c].fd = NONE <=> s.conn[c].fd = NONE
    PROVE  Pool(t)
  BY DEF Pool, Update, Others

(* tapdisk_ctl_conn_free moves c behind the connections in use, which keep *)
(* their order.                                                            *)
LEMMA FreedOrder ==
    ASSUME NEW s, Pool(s), NEW c \in Conns, s.conn[c].fd # NONE
    PROVE  LET t == conn_free(s, c)
           IN  /\ s.n_conn \in 1 .. MaxConns
               /\ t.n_conn = s.n_conn - 1
               /\ t.order \in [1 .. MaxConns -> Conns]
               /\ IsInjective(t.order)
               /\ \A d \in Conns : (\E i \in 1 .. t.n_conn : t.order[i] = d)
                      <=> (d # c /\ \E i \in 1 .. s.n_conn : s.order[i] = d)
  <1> DEFINE n == s.n_conn
             p == CHOOSE i \in 1 .. n : s.order[i] = c
             o == [i \in 1 .. MaxConns |-> IF i < p \/ i > n THEN s.order[i]
                                           ELSE IF i = n THEN c ELSE s.order[i + 1]]
             t == conn_free(s, c)
  <1>1. \E i \in 1 .. n : s.order[i] = c
    BY DEF Pool
  <1>2. p \in 1 .. n /\ s.order[p] = c
    BY <1>1
  <1>3. n \in 0 .. MaxConns /\ s.order \in [1 .. MaxConns -> Conns] /\ MaxConns \in Nat
    BY MaxConnsType DEF Pool, Pools
  <1>4. n \in 1 .. MaxConns
    BY <1>2, <1>3
  <1>5. t.n_conn = n - 1 /\ t.order = o
    BY DEF Pool, Pools, conn_free
  <1>6. \A i, j \in 1 .. MaxConns : s.order[i] = s.order[j] => i = j
    BY <1>3 DEF Pool, IsInjective
  <1> HIDE DEF n, p, t
  <1>7. o \in [1 .. MaxConns -> Conns]
    BY <1>2, <1>3, <1>4
  <1>8. \A i, j \in 1 .. MaxConns : o[i] = o[j] => i = j
    BY <1>2, <1>3, <1>4, <1>6
  <1>9. ASSUME NEW d \in Conns
        PROVE  (\E i \in 1 .. n - 1 : o[i] = d) <=> (d # c /\ \E i \in 1 .. n : s.order[i] = d)
    <2>1. ASSUME NEW i \in 1 .. n - 1, o[i] = d
          PROVE  d # c /\ \E j \in 1 .. n : s.order[j] = d
      <3>1. CASE i < p
        BY <3>1, <2>1, <1>2, <1>3, <1>4, <1>6
      <3>2. CASE ~(i < p)
        <4>1. o[i] = s.order[i + 1] /\ i + 1 \in 1 .. n /\ i + 1 # p /\ i + 1 \in 1 .. MaxConns
          BY <3>2, <1>2, <1>3, <1>4
        <4>2. p \in 1 .. MaxConns
          BY <1>2, <1>3, <1>4
        <4> QED BY <4>1, <4>2, <2>1, <1>2, <1>6
      <3> QED BY <3>1, <3>2
    <2>2. ASSUME NEW i \in 1 .. n, s.order[i] = d, d # c
          PROVE  \E j \in 1 .. n - 1 : o[j] = d
      <3>1. CASE i < p
        <4>1. i \in 1 .. n - 1 /\ o[i] = d
          BY <3>1, <2>2, <1>2, <1>3, <1>4
        <4> QED BY <4>1
      <3>2. CASE ~(i < p)
        <4>1. i # p /\ i - 1 \in 1 .. n - 1 /\ i - 1 \in 1 .. MaxConns /\ ~(i - 1 < p)
          BY <3>2, <2>2, <1>2, <1>3, <1>4
        <4>2. o[i - 1] = s.order[i]
          BY <4>1, <1>2, <1>3, <1>4
        <4> QED BY <4>1, <4>2, <2>2
      <3> QED BY <3>1, <3>2
    <2> QED BY <2>1, <2>2
  <1>10. IsInjective(o)
    BY <1>8 DEF IsInjective
  <1> HIDE DEF o
  <1> QED BY <1>4, <1>5, <1>7, <1>9, <1>10 DEF n, t

(* tapdisk_ctl_conn_close                                                  *)
LEMMA Closed ==
    ASSUME NEW s, Pool(s), NEW c \in Conns
    PROVE  LET t == conn_close(s, c)
           IN  /\ Pool(t) /\ Others(s, t, c) /\ t.busy = s.busy
               /\ t.conn[c] = [s.conn[c] EXCEPT !.fd = NONE]
  <1> DEFINE t == conn_close(s, c)
             z == [s EXCEPT !.conn[c].fd = NONE, !.masked = FALSE]
  <1>0. s \in Pools /\ s.conn[c] \in Connections
    BY DEF Pool, Pools
  <1>1. CASE s.conn[c].fd = NONE
    <2>1. t = s
      BY <1>1 DEF conn_close
    <2>2. [s.conn[c] EXCEPT !.fd = NONE] = s.conn[c]
      BY <1>0, <1>1 DEF Connections
    <2> QED BY <2>1, <2>2 DEF Others
  <1>2. CASE s.conn[c].fd # NONE
    <2>1. t = conn_free(z, c)
      BY <1>2 DEF conn_close
    <2>2. z \in Pools /\ z.order = s.order /\ z.n_conn = s.n_conn /\ ~z.masked /\ z.busy = s.busy
          /\ z.conn = [s.conn EXCEPT ![c].fd = NONE]
      <3>1. [s.conn EXCEPT ![c].fd = NONE] \in [Conns -> Connections]
        BY <1>0 DEF Pools, Connections
      <3>2. z = [s EXCEPT !.conn = [s.conn EXCEPT ![c].fd = NONE], !.masked = FALSE]
        BY <1>0 DEF Pools
      <3> QED BY <1>0, <3>1, <3>2 DEF Pools
    <2>3. /\ t.order = conn_free(s, c).order /\ t.n_conn = conn_free(s, c).n_conn
          /\ t.conn = z.conn /\ t.busy = z.busy /\ t.masked = z.masked
      BY <1>0, <2>1, <2>2 DEF conn_free, Pools
    <2>4. /\ s.n_conn \in 1 .. MaxConns
          /\ t.n_conn = s.n_conn - 1
          /\ t.order \in [1 .. MaxConns -> Conns]
          /\ IsInjective(t.order)
          /\ \A d \in Conns : (\E i \in 1 .. t.n_conn : t.order[i] = d)
                <=> (d # c /\ \E i \in 1 .. s.n_conn : s.order[i] = d)
      BY <1>2, <2>3, FreedOrder
    <2>5. t \in Pools
      <3>1. t.n_conn \in 0 .. MaxConns
        BY <2>4, MaxConnsType
      <3>2. t = [z EXCEPT !.n_conn = t.n_conn, !.order = t.order]
        BY <2>1, <2>2 DEF conn_free, Pools
      <3> HIDE DEF t, z
      <3> QED BY <2>2, <2>4, <3>1, <3>2 DEF Pools
    <2>6. Others(s, t, c) /\ t.conn[c] = [s.conn[c] EXCEPT !.fd = NONE] /\ t.conn[c].fd = NONE
      BY <1>0, <2>2, <2>3 DEF Others, Pools, Connections
    <2>7. \A d \in Conns : t.conn[d].fd # NONE <=> \E i \in 1 .. t.n_conn : t.order[i] = d
      <3>1. \A d \in Conns : t.conn[d].fd # NONE <=> d # c /\ s.conn[d].fd # NONE
        BY <2>6 DEF Others
      <3> HIDE DEF t
      <3> QED BY <2>4, <3>1 DEF Pool
    <2>8. ~t.masked /\ t.n_conn # MaxConns
      BY <2>2, <2>3, <2>4, MaxConnsType
    <2>9. Pool(t)
      BY <2>4, <2>5, <2>7, <2>8 DEF Pool
    <2> QED BY <2>2, <2>3, <2>6, <2>9
  <1> QED BY <1>1, <1>2

(* One connection set to r                                                 *)
LEMMA ConnSet ==
    ASSUME NEW s, Pool(s), NEW c \in Conns, NEW r \in Connections, r.fd = s.conn[c].fd
    PROVE  LET t == [s EXCEPT !.conn[c] = r]
           IN  Pool(t) /\ Others(s, t, c) /\ t.busy = s.busy /\ t.conn[c] = r
  <1> DEFINE t == [s EXCEPT !.conn[c] = r]
  <1>1. s \in Pools
    BY DEF Pool
  <1>2. Update(s, t, c) /\ t.conn[c] = r /\ t.busy = s.busy
    BY <1>1 DEF Pools, Update, Others
  <1>3. Others(s, t, c)
    BY <1>2 DEF Update
  <1> HIDE DEF t
  <1>4. Pool(t)
    BY <1>2, PoolKept
  <1> QED BY <1>2, <1>3, <1>4 DEF t

(* tapdisk_control_release_connection: closed unless output is pending     *)
LEMMA Released ==
    ASSUME NEW s, Pool(s), NEW c \in Conns
    PROVE  LET t == release_connection(s, c)
           IN  /\ Pool(t) /\ Others(s, t, c) /\ t.busy = s.busy
               /\ t.conn[c] = [s.conn[c] EXCEPT !.in_event = FALSE, !.done = TRUE,
                                 !.fd = IF s.conn[c].out = <<>> THEN NONE ELSE @]
  <1> DEFINE r == [s.conn[c] EXCEPT !.in_event = FALSE, !.done = TRUE]
             z == [s EXCEPT !.conn[c] = r]
             q == [s EXCEPT !.conn[c].in_event = FALSE]
             t == release_connection(s, c)
  <1>0. s \in Pools /\ s.conn[c] \in Connections
    BY DEF Pool, Pools
  <1>1. r \in Connections /\ r.fd = s.conn[c].fd
    BY <1>0 DEF Connections
  <1>2. Pool(z) /\ Others(s, z, c) /\ z.busy = s.busy /\ z.conn[c] = r
    <2> HIDE DEF r
    <2> QED BY <1>1, ConnSet
  <1>3. [q EXCEPT !.conn[c].done = TRUE] = z /\ q.conn[c].out = s.conn[c].out
    BY <1>0 DEF Pools, Connections
  <1>4. t = IF s.conn[c].out = <<>> THEN conn_close(z, c) ELSE z
    BY <1>3 DEF release_connection, conn_release
  <1>5. CASE s.conn[c].out = <<>>
    <2>1. t = conn_close(z, c)
      BY <1>4, <1>5
    <2> HIDE DEF z, t
    <2>2. Pool(t) /\ Others(z, t, c) /\ t.busy = z.busy /\ t.conn[c] = [z.conn[c] EXCEPT !.fd = NONE]
      BY <1>2, <2>1, Closed
    <2>3. t.conn[c] = [s.conn[c] EXCEPT !.in_event = FALSE, !.done = TRUE, !.fd = NONE]
      BY <1>0, <1>2, <2>2 DEF Connections
    <2>4. Others(s, t, c)
      BY <1>2, <2>2 DEF Others
    <2> QED BY <1>2, <1>5, <2>2, <2>3, <2>4 DEF t
  <1>6. CASE s.conn[c].out # <<>>
    <2>1. t = z
      BY <1>4, <1>6
    <2> HIDE DEF z, t
    <2>2. t.conn[c] = [s.conn[c] EXCEPT !.in_event = FALSE, !.done = TRUE, !.fd = @]
      BY <1>0, <1>2, <2>1 DEF Connections
    <2> QED BY <1>2, <1>6, <2>1, <2>2 DEF t
  <1> QED BY <1>5, <1>6

(* tapdisk_control_close_connection                                        *)
LEMMA ConnectionClosed ==
    ASSUME NEW s, Pool(s), NEW c \in Conns
    PROVE  LET t == close_connection(s, c)
           IN  /\ Pool(t) /\ Others(s, t, c) /\ t.busy = s.busy
               /\ t.conn[c] = [s.conn[c] EXCEPT !.in_event = FALSE, !.done = TRUE,
                                                !.out = <<>>, !.fd = NONE]
  <1> DEFINE t == close_connection(s, c)
             u == release_connection(s, c)
             r == [u.conn[c] EXCEPT !.out = <<>>]
             z == [u EXCEPT !.conn[c] = r]
  <1>1. /\ Pool(u) /\ Others(s, u, c) /\ u.busy = s.busy
        /\ u.conn[c] = [s.conn[c] EXCEPT !.in_event = FALSE, !.done = TRUE,
                          !.fd = IF s.conn[c].out = <<>> THEN NONE ELSE @]
    BY Released
  <1>2. t = conn_close([u EXCEPT !.conn[c].out = <<>>], c)
    BY DEF close_connection
  <1> HIDE DEF u, t
  <1>3. s.conn[c] \in Connections /\ u \in Pools /\ u.conn[c] \in Connections
    BY <1>1 DEF Pool, Pools
  <1>4. r \in Connections /\ r.fd = u.conn[c].fd
    <2>1. <<>> \in Seq(Clients)
      OBVIOUS
    <2> QED BY <1>3, <2>1 DEF Connections
  <1>5. Pool(z) /\ Others(u, z, c) /\ z.busy = u.busy /\ z.conn[c] = r
    <2> HIDE DEF r
    <2>1. Pool(u) /\ r \in Connections /\ r.fd = u.conn[c].fd
      BY <1>1, <1>4
    <2> QED BY <2>1, ConnSet
  <1>6. t = conn_close(z, c)
    BY <1>2, <1>3 DEF Pools
  <1> HIDE DEF z
  <1>7. Pool(t) /\ Others(z, t, c) /\ t.busy = z.busy /\ t.conn[c] = [z.conn[c] EXCEPT !.fd = NONE]
    BY <1>5, <1>6, Closed
  <1>8. t.conn[c] = [s.conn[c] EXCEPT !.in_event = FALSE, !.done = TRUE, !.out = <<>>, !.fd = NONE]
    <2>1. t.conn[c] = [u.conn[c] EXCEPT !.out = <<>>, !.fd = NONE]
      BY <1>3, <1>5, <1>7 DEF Connections
    <2> QED BY <1>1, <1>3, <2>1 DEF Connections
  <1>9. Others(s, t, c)
    BY <1>1, <1>5, <1>7 DEF Others
  <1> QED BY <1>1, <1>5, <1>7, <1>8, <1>9 DEF t

(* Connection c is the same but for its output.                            *)
SameConnection(s, t, c) ==
    /\ t.conn[c].fd = s.conn[c].fd /\ t.conn[c].busy = s.conn[c].busy
    /\ t.conn[c].in_event = s.conn[c].in_event

(* tapdisk_ctl_conn_write puts at least one more message into the buffer,  *)
(* or finds it full.                                                       *)
LEMMA Written ==
    ASSUME NEW s, Pool(s), NEW c \in Conns, NEW k \in Clients, NEW n \in Nat \ {0}
    PROVE  LET t == conn_write(s, c, k, n)
               o == t.conn[c].out
           IN  /\ Pool(t) /\ Others(s, t, c) /\ t.busy = s.busy
               /\ SameConnection(s, t, c)
               /\ o \in Seq(Clients) /\ o # <<>>
               /\ \A i \in 1 .. Len(o) : o[i] = k \/ (i \in 1 .. Len(s.conn[c].out) /\ o[i] = s.conn[c].out[i])
  <1> DEFINE out == s.conn[c].out
             room == OutRoom - Len(out)
             m == IF n < room THEN n ELSE room
             w == [i \in 1 .. m |-> k]
             o == out \o w
             cut == s.conn[c].cut \/ n > room
             r == [s.conn[c] EXCEPT !.out = o, !.cut = cut]
             z == [s EXCEPT !.conn[c] = r]
             t == conn_write(s, c, k, n)
  <1>0. s \in Pools /\ s.conn[c] \in Connections
    BY DEF Pool, Pools
  <1>1. out \in Seq(Clients) /\ Len(out) \in Nat /\ OutRoom \in Nat /\ OutRoom > 0
    BY <1>0, ControlAssumption DEF Connections
  <1>2. t = z
    BY <1>0 DEF conn_write, Pools, Connections
  <1>3. m \in Int /\ (m > 0 \/ Len(out) > 0)
    BY <1>1
  <1> HIDE DEF m, out
  <1>4. w \in Seq(Clients) /\ Len(w) = IF m > 0 THEN m ELSE 0
    <2>1. CASE m > 0
      BY <2>1, <1>3
    <2>2. CASE ~(m > 0)
      <3>1. w = <<>>
        BY <2>2, <1>3
      <3>2. <<>> \in Seq(Clients) /\ Len(<<>>) = 0
        OBVIOUS
      <3> HIDE DEF w
      <3> QED BY <3>1, <3>2, <2>2
    <2> QED BY <2>1, <2>2
  <1>5. /\ o \in Seq(Clients) /\ Len(o) = Len(out) + Len(w)
        /\ \A i \in 1 .. Len(o) : o[i] = IF i <= Len(out) THEN out[i] ELSE w[i - Len(out)]
    <2> HIDE DEF w
    <2> QED BY <1>1, <1>4
  <1>6. o # <<>>
    <2>1. Len(o) > 0
      <3> HIDE DEF o, w
      <3> QED BY <1>1, <1>3, <1>4, <1>5
    <2> HIDE DEF o
    <2> QED BY <2>1
  <1>7. \A i \in 1 .. Len(o) : o[i] = k \/ (i \in 1 .. Len(out) /\ o[i] = out[i])
    <2> SUFFICES ASSUME NEW i \in 1 .. Len(o), ~(i <= Len(out))
                 PROVE  o[i] = k
      <3> HIDE DEF o, w
      <3> QED BY <1>1, <1>5
    <2>1. i - Len(out) \in 1 .. m /\ o[i] = w[i - Len(out)]
      <3> HIDE DEF o, w
      <3> QED BY <1>1, <1>3, <1>4, <1>5
    <2> QED BY <2>1
  <1> HIDE DEF o, room
  <1>8. cut \in BOOLEAN
    BY <1>0 DEF Connections
  <1> HIDE DEF cut
  <1>9. r \in Connections /\ r.fd = s.conn[c].fd /\ r.out = o
    BY <1>0, <1>5, <1>8 DEF Connections
  <1>10. Pool(z) /\ Others(s, z, c) /\ z.busy = s.busy /\ z.conn[c] = r
    <2> HIDE DEF r
    <2> QED BY <1>9, ConnSet
  <1>11. t.conn[c].out = o
    <2> HIDE DEF z, r
    <2> QED BY <1>2, <1>9, <1>10
  <1> HIDE DEF z, t
  <1>12. SameConnection(s, t, c)
    BY <1>0, <1>2, <1>10 DEF SameConnection, r, Connections
  <1>13. \A i \in 1 .. Len(t.conn[c].out) :
            t.conn[c].out[i] = k \/ (i \in 1 .. Len(s.conn[c].out) /\ t.conn[c].out[i] = s.conn[c].out[i])
    BY <1>7, <1>11 DEF out
  <1> QED BY <1>2, <1>5, <1>6, <1>10, <1>11, <1>12, <1>13 DEF t

(* Marking a connection and the server busy, or no longer so               *)
LEMMA StartedPool ==
    ASSUME NEW s, Pool(s), NEW c \in Conns, NEW m
    PROVE  LET t == Started(s, c, m)
           IN  /\ Pool(t) /\ Others(s, t, c)
               /\ (t.busy <=> (s.busy \/ m \notin Reenter))
               /\ t.conn[c] = [s.conn[c] EXCEPT !.busy = TRUE, !.info = TRUE]
  <1> DEFINE r == [s.conn[c] EXCEPT !.busy = TRUE, !.info = TRUE]
             b == s.busy \/ m \notin Reenter
             z == [s EXCEPT !.conn[c] = r, !.busy = b]
  <1>0. s \in Pools /\ s.conn[c] \in Connections
    BY DEF Pool, Pools
  <1>1. r \in Connections /\ r.fd = s.conn[c].fd /\ b \in BOOLEAN
    BY <1>0 DEF Connections, Pools
  <1>2. Started(s, c, m) = z
    BY <1>0 DEF Started, Pools, Connections
  <1> HIDE DEF r, b
  <1>3. Update(s, z, c) /\ Others(s, z, c) /\ z.conn[c] = r /\ z.busy = b
    BY <1>0, <1>1 DEF Pools, Update, Others
  <1> HIDE DEF z
  <1>4. Pool(z)
    BY <1>1, <1>3, PoolKept
  <1> QED BY <1>2, <1>3, <1>4 DEF r, b

LEMMA EndedPool ==
    ASSUME NEW s, Pool(s), NEW c \in Conns, NEW excl, s.conn[c].out # <<>>
    PROVE  LET t == Ended(s, c, excl)
           IN  /\ Pool(t) /\ Others(s, t, c)
               /\ (t.busy <=> (s.busy /\ ~excl))
               /\ t.conn[c].fd = s.conn[c].fd /\ t.conn[c].out = s.conn[c].out
               /\ ~t.conn[c].busy /\ ~t.conn[c].in_event
  <1> DEFINE r == [s.conn[c] EXCEPT !.busy = FALSE]
             b == s.busy /\ ~excl
             z == [s EXCEPT !.conn[c] = r, !.busy = b]
             t == Ended(s, c, excl)
  <1>0. s \in Pools /\ s.conn[c] \in Connections
    BY DEF Pool, Pools
  <1>1. r \in Connections /\ r.fd = s.conn[c].fd /\ r.out = s.conn[c].out /\ b \in BOOLEAN
    BY <1>0 DEF Pools, Connections
  <1>2. t = release_connection(z, c)
    BY <1>0 DEF Ended, Pools, Connections
  <1> HIDE DEF r, b
  <1>3. Update(s, z, c) /\ Others(s, z, c) /\ z.conn[c] = r /\ z.busy = b
    BY <1>0, <1>1 DEF Pools, Update, Others
  <1> HIDE DEF z, t
  <1>4. Pool(z)
    BY <1>1, <1>3, PoolKept
  <1>5. /\ Pool(t) /\ Others(z, t, c) /\ t.busy = z.busy
        /\ t.conn[c] = [z.conn[c] EXCEPT !.in_event = FALSE, !.done = TRUE,
                          !.fd = IF z.conn[c].out = <<>> THEN NONE ELSE @]
    BY <1>2, <1>4, Released
  <1>6. /\ t.conn[c].fd = s.conn[c].fd /\ t.conn[c].out = s.conn[c].out
        /\ ~t.conn[c].busy /\ ~t.conn[c].in_event
    BY <1>0, <1>1, <1>3, <1>5 DEF r, Connections
  <1>7. Others(s, t, c)
    BY <1>3, <1>5 DEF Others
  <1> QED BY <1>3, <1>5, <1>6, <1>7 DEF b, t
(* tapdisk_control_accept takes the first free connection.                 *)
LEMMA Opened ==
    ASSUME NEW s, Pool(s), NEW k \in Clients, s.n_conn < MaxConns
    PROVE  LET c == s.order[s.n_conn + 1]
               t == [conn_open(s, c, k) EXCEPT !.conn[c].in_event = TRUE]
           IN  /\ c \in Conns /\ s.conn[c].fd = NONE
               /\ Pool(t) /\ Others(s, t, c) /\ t.busy = s.busy
               /\ t.conn[c] = [s.conn[c] EXCEPT !.fd = k, !.out = <<>>, !.cut = FALSE, !.in_event = TRUE]
  <1> DEFINE c == s.order[s.n_conn + 1]
             n == s.n_conn
             t == [conn_open(s, c, k) EXCEPT !.conn[c].in_event = TRUE]
             r == [s.conn[c] EXCEPT !.fd = k, !.out = <<>>, !.cut = FALSE, !.in_event = TRUE]
             r0 == [s.conn[c] EXCEPT !.fd = k, !.out = <<>>, !.cut = FALSE]
             n1 == s.n_conn + 1
             full == s.n_conn + 1 >= MaxConns
             z0 == [s EXCEPT !.conn[c] = r0, !.n_conn = n1, !.masked = full]
             z == [s EXCEPT !.conn[c] = r, !.n_conn = n1, !.masked = full]
  <1>1. s \in Pools /\ n \in 0 .. MaxConns /\ MaxConns \in Nat /\ n + 1 \in 1 .. MaxConns
        /\ s.order \in [1 .. MaxConns -> Conns]
    BY MaxConnsType DEF Pool, Pools
  <1>2. c \in Conns
    BY <1>1
  <1>3. \A i, j \in 1 .. MaxConns : s.order[i] = s.order[j] => i = j
    BY <1>1 DEF Pool, IsInjective
  <1>4. s.conn[c].fd = NONE
    <2> SUFFICES ASSUME NEW i \in 1 .. n, s.order[i] = c
                 PROVE  FALSE
      BY <1>2 DEF Pool
    <2>1. i \in 1 .. MaxConns /\ i # n + 1
      BY <1>1
    <2> QED BY <1>1, <1>3, <2>1
  <1> HIDE DEF c
  <1>5. s.conn[c] \in Connections /\ <<>> \in Seq(Clients)
    BY <1>1, <1>2 DEF Pools
  <1>6. r \in Connections /\ r.fd = k /\ k # NONE
    BY <1>5, ControlAssumption DEF Connections
  <1>7. t = z
    <2> DEFINE a == [s EXCEPT !.conn[c].fd = k, !.conn[c].out = <<>>, !.conn[c].cut = FALSE]
    <2>1. conn_open(s, c, k) = z0
      <3>1. conn_open(s, c, k) = [a EXCEPT !.n_conn = @ + 1, !.masked = full]
        BY <1>1 DEF conn_open, Pools
      <3>2. a = [s EXCEPT !.conn[c] = r0]
        BY <1>1, <1>2, <1>5 DEF Pools, Connections
      <3>3. a.n_conn = s.n_conn
        BY <1>1 DEF Pools
      <3> HIDE DEF a, r0, full
      <3> QED BY <1>1, <3>1, <3>2, <3>3 DEF Pools
    <2> HIDE DEF full, n1
    <2>3. [z0 EXCEPT !.conn[c].in_event = TRUE] = z
      BY <1>1, <1>2, <1>5 DEF Pools, Connections
    <2> QED BY <2>1, <2>3
  <1>7a. full \in BOOLEAN /\ n1 \in 0 .. MaxConns
    BY <1>1
  <1> HIDE DEF r, full, n1
  <1>8. /\ z \in Pools /\ z.order = s.order /\ z.n_conn = n + 1 /\ (z.masked <=> n + 1 >= MaxConns)
        /\ Others(s, z, c) /\ z.conn[c] = r /\ z.busy = s.busy
    <2>1. /\ z \in Pools /\ z.order = s.order /\ z.n_conn = n1 /\ (z.masked <=> full)
          /\ Others(s, z, c) /\ z.conn[c] = r /\ z.busy = s.busy
      BY <1>1, <1>2, <1>6, <1>7a DEF Pools, Others
    <2> HIDE DEF z
    <2> QED BY <2>1 DEF full, n1
  <1> HIDE DEF z
  <1>9. \A d \in Conns : z.conn[d].fd # NONE <=> \E i \in 1 .. z.n_conn : z.order[i] = d
    <2>1. \A d \in Conns : z.conn[d].fd # NONE <=> d = c \/ s.conn[d].fd # NONE
      BY <1>6, <1>8 DEF Others
    <2>2. \A d \in Conns : (\E i \in 1 .. n + 1 : s.order[i] = d)
                              <=> (d = c \/ \E i \in 1 .. n : s.order[i] = d)
      BY <1>1 DEF c
    <2> QED BY <1>8, <2>1, <2>2 DEF Pool
  <1>10. z.masked <=> z.n_conn = MaxConns
    BY <1>1, <1>8
  <1>11. Pool(z)
    BY <1>8, <1>9, <1>10 DEF Pool
  <1> QED BY <1>2, <1>4, <1>7, <1>8, <1>11 DEF c, r

(* What Settle does to clients                                             *)
LEMMA Settled ==
    ASSUME NEW now \in [Clients -> Sockets], NEW s, NEW c, NEW sent, Settle(now, s, c, sent)
    PROVE  td_control' = s /\ client' \in [Clients -> Sockets]
  BY DEF Settle, Sockets
-----------------------------------------------------------------------------
(* The inductive invariant holds initially and is preserved.               *)

LEMMA InitIInv == Init => IInv
  <1> SUFFICES ASSUME Init PROVE IInv
    OBVIOUS
  <1> USE DEF Init
  <1>1. NewConn \in Connections /\ NewConn.fd = NONE /\ ~NewConn.in_event /\ ~NewConn.busy
    <2>1. <<>> \in Seq(Clients)
      OBVIOUS
    <2> QED BY <2>1 DEF NewConn, Connections
  <1>2. td_control \in Pools
    BY <1>1, SetToSeqListsAll, MaxConnsType DEF Pools
  <1>3. \A c \in Conns : td_control.conn[c] = NewConn
    OBVIOUS
  <1>4. Pool(td_control)
    BY <1>1, <1>2, <1>3, SetToSeqListsAll, MaxConnsType DEF Pool
  <1>5. TypeOK
    <2>1. <<>> \in Seq(Frames)
      OBVIOUS
    <2> QED BY <1>2, <2>1 DEF TypeOK, Sockets
  <1>6. WriteAfterRead(td_control) /\ NoStaleEvent(td_control) /\ OwnReplies(td_control)
    BY <1>1, <1>3 DEF WriteAfterRead, NoStaleEvent, OwnReplies
  <1>7. OneHandler /\ Marked(td_control) /\ AskerOrNone(td_control)
    BY <1>1, <1>3 DEF OneHandler, Marked, AskerOrNone, Waiting
  <1> QED BY <1>4, <1>5, <1>6, <1>7 DEF IInv
(* A change of connection c alone                                          *)
LEMMA OneConnection ==
    ASSUME NEW s, NEW t, NEW c \in Conns, Others(s, t, c)
    PROVE  /\ WriteAfterRead(s) /\ (t.conn[c].fd # NONE /\ t.conn[c].out # <<>> => ~t.conn[c].in_event)
                => WriteAfterRead(t)
           /\ NoStaleEvent(s) /\ (t.conn[c].in_event => t.conn[c].fd # NONE)
                => NoStaleEvent(t)
           /\ OwnReplies(s) /\ (t.conn[c].fd # NONE =>
                   \A i \in 1 .. Len(t.conn[c].out) : t.conn[c].out[i] = t.conn[c].fd)
                => OwnReplies(t)
  BY DEF Others, WriteAfterRead, NoStaleEvent, OwnReplies

(* What leaves the connections and the handlers alone                      *)
LEMMA ConnectionsAlone ==
    ASSUME IInv, td_control' = td_control, frames' = frames, TypeOK',
           frames # <<>> => vbd'[frames[1].vbd] # "absent",
           \/ phase' = phase
           \/ phase = "select" /\ phase' = "events"
           \/ phase = "closing" /\ phase' = "exited"
    PROVE  IInv'
  <1> USE DEF IInv
  <1>1. Pool(td_control)' /\ WriteAfterRead(td_control)' /\ OwnReplies(td_control)' <=>
        Pool(td_control) /\ WriteAfterRead(td_control) /\ OwnReplies(td_control)
    BY DEF Pool, WriteAfterRead, OwnReplies
  <1>2. NoStaleEvent(td_control)' <=> NoStaleEvent(td_control)
    BY DEF NoStaleEvent
  <1>3. Marked(td_control)'
    BY DEF Marked, Waiting
  <1>4. OneHandler'
    BY DEF OneHandler, Waiting
  <1>5. ~Enotty => AskerOrNone(td_control)'
    BY DEF AskerOrNone, Waiting, OneHandler
  <1> QED BY <1>1, <1>2, <1>3, <1>4, <1>5, Zenon DEF OwnReplies, Pool
LEMMA ClientsStep ==
    ASSUME IInv, NEW k \in Clients, connect(k) \/ hangup(k) \/ \E m \in Requests : send(k, m)
    PROVE  IInv'
  <1>1. UNCHANGED <<td_control, vbd, frames, phase, run, crash>>
    BY DEF connect, hangup, send
  <1>2. client' \in [Clients -> Sockets]
    <2>1. client \in [Clients -> Sockets] /\ client[k] \in Sockets
      BY DEF IInv, TypeOK
    <2>2. CASE connect(k)
      BY <2>1, <2>2 DEF connect, Sockets
    <2>3. CASE hangup(k)
      BY <2>1, <2>3 DEF hangup, Sockets
    <2>4. ASSUME NEW m \in Requests, send(k, m)
          PROVE  client' \in [Clients -> Sockets]
      <3>1. CASE client' = [client EXCEPT ![k].req = "sent", ![k].msg = m]
        <4>1. client' = [client EXCEPT ![k] = [@ EXCEPT !.req = "sent", !.msg = m]]
          BY <2>1, <3>1
        <4>2. [client[k] EXCEPT !.req = "sent", !.msg = m] \in Sockets
          BY <2>1 DEF Sockets
        <4> QED BY <2>1, <4>1, <4>2
      <3>2. CASE client' = [client EXCEPT ![k].again = TRUE]
        BY <2>1, <3>2 DEF Sockets
      <3> QED BY <2>4, <3>1, <3>2 DEF send
    <2> QED BY <2>2, <2>3, <2>4
  <1>3. TypeOK'
    BY <1>1, <1>2 DEF IInv, TypeOK
  <1> QED BY <1>1, <1>3, ConnectionsAlone DEF IInv, OneHandler, Waiting

LEMMA AcceptStep ==
    ASSUME IInv, NEW k \in Clients, accept(k)
    PROVE  IInv'
  <1> DEFINE c == td_control.order[td_control.n_conn + 1]
             t == [conn_open(td_control, c, k) EXCEPT !.conn[c].in_event = TRUE]
  <1>1. /\ phase = "select" /\ phase' = "events" /\ UNCHANGED <<vbd, frames, run, crash>>
        /\ client' \in [Clients -> Sockets]
    BY DEF accept, IInv, TypeOK, Sockets
  <1>2. td_control.n_conn \in 0 .. MaxConns /\ MaxConns \in Nat
    BY MaxConnsType DEF IInv, TypeOK, Pools
  <1>3. CASE td_control.n_conn >= MaxConns
    <2>1. td_control' = td_control
      BY <1>3 DEF accept
    <2>2. TypeOK'
      BY <1>1, <2>1 DEF IInv, TypeOK
    <2> QED BY <1>1, <2>1, <2>2, ConnectionsAlone DEF IInv, OneHandler, Waiting
  <1>4. CASE ~(td_control.n_conn >= MaxConns)
    <2>1. td_control' = t
      BY <1>4 DEF accept
    <2>2. /\ c \in Conns /\ td_control.conn[c].fd = NONE
          /\ Pool(t) /\ Others(td_control, t, c) /\ t.busy = td_control.busy
          /\ t.conn[c] = [td_control.conn[c] EXCEPT !.fd = k, !.out = <<>>, !.cut = FALSE, !.in_event = TRUE]
      <3>1. Pool(td_control) /\ td_control.n_conn < MaxConns
        BY <1>2, <1>4 DEF IInv
      <3> QED BY <3>1, Opened
    <2> HIDE DEF c, t
    <2>3. td_control.conn[c] \in Connections /\ t \in Pools
      BY <2>2 DEF IInv, TypeOK, Pools, Pool
    <2>4. /\ t.conn[c].fd = k /\ t.conn[c].out = <<>> /\ t.conn[c].in_event
          /\ t.conn[c].busy = td_control.conn[c].busy
          /\ k # NONE
      BY <2>2, <2>3, ControlAssumption DEF Connections
    <2>5. WriteAfterRead(t) /\ NoStaleEvent(t) /\ (~Enotty => OwnReplies(t))
      <3>1. WriteAfterRead(td_control) /\ NoStaleEvent(td_control) /\ (~Enotty => OwnReplies(td_control))
        BY <1>1 DEF IInv
      <3>2. WriteAfterRead(t) /\ NoStaleEvent(t)
        BY <2>2, <2>4, <3>1, OneConnection
      <3>3. \A i \in 1 .. Len(t.conn[c].out) : t.conn[c].out[i] = t.conn[c].fd
        BY <2>4
      <3>4. ~Enotty => OwnReplies(t)
        BY <2>2, <3>1, <3>3, OneConnection
      <3> QED BY <3>2, <3>4
    <2>6. TypeOK'
      BY <1>1, <2>1, <2>3 DEF IInv, TypeOK
    <2>7. OneHandler'
      BY <1>1 DEF IInv, OneHandler, Waiting
    <2>8. Marked(td_control)'
      BY <1>1, <2>1, <2>2, <2>4 DEF IInv, Marked, Others, Waiting
    <2>9. ~Enotty => AskerOrNone(td_control)'
      <3> SUFFICES ASSUME ~Enotty, Waiting
                   PROVE  t.conn[frames[1].conn].fd = frames[1].asker
        BY <1>1, <2>1 DEF AskerOrNone, Waiting
      <3>1. frames[1] \in Frames
        BY DEF IInv, TypeOK, Waiting
      <3>2. td_control.conn[frames[1].conn].fd = frames[1].asker
        BY <1>1 DEF IInv, AskerOrNone
      <3>3. frames[1].conn \in Conns \ {c}
        BY <2>2, <3>1, <3>2, ControlAssumption DEF Frames
      <3> QED BY <2>2, <3>2, <3>3 DEF Others
    <2>10. Pool(td_control') /\ WriteAfterRead(td_control') /\ NoStaleEvent(td_control')
           /\ (~Enotty => OwnReplies(td_control'))
      BY <2>1, <2>2, <2>5
    <2> QED BY <2>6, <2>7, <2>8, <2>9, <2>10 DEF IInv
  <1> QED BY <1>3, <1>4

(* What a step does to connection c alone, not to the waiting handler      *)
LEMMA ConnectionServed ==
    ASSUME IInv, NEW c \in Conns, Pool(td_control'), Others(td_control, td_control', c),
           client' \in [Clients -> Sockets],
           vbd' \in [Vbds -> {"absent", "attached", "open"}], run' \in BOOLEAN,
           crash' \in {NONE, "info", "assert"},
           frames' = frames, phase' = phase,
           frames # <<>> => vbd'[frames[1].vbd] # "absent",
           td_control'.busy = td_control.busy,
           td_control'.conn[c].busy = td_control.conn[c].busy,
           td_control'.conn[c].fd \in {td_control.conn[c].fd, NONE},
           td_control'.conn[c].fd = NONE => phase = "events" \/ ~Waiting,
           td_control'.conn[c].out # <<>> => ~td_control'.conn[c].in_event,
           phase \in {"select", "events", "check"} =>
              (td_control'.conn[c].in_event => td_control'.conn[c].fd # NONE),
           ~Enotty /\ td_control'.conn[c].fd # NONE =>
              \A i \in 1 .. Len(td_control'.conn[c].out) : td_control'.conn[c].out[i] = td_control'.conn[c].fd
    PROVE  IInv'
  <1>1. TypeOK'
    BY DEF IInv, TypeOK, Pool
  <1>2. WriteAfterRead(td_control')
    BY OneConnection DEF IInv
  <1>3. phase' \in {"select", "events", "check"} => NoStaleEvent(td_control')
    BY OneConnection DEF IInv
  <1>4. OneHandler'
    BY DEF IInv, OneHandler, Waiting
  <1>5. Marked(td_control)'
    BY DEF IInv, Marked, Others, Waiting
  <1>6. ~Enotty => OwnReplies(td_control')
    <2>1. ~Enotty => OwnReplies(td_control)
      BY DEF IInv
    <2> QED BY <2>1, OneConnection
  <1>7. ~Enotty => AskerOrNone(td_control)'
    <2> SUFFICES ASSUME ~Enotty, Waiting
                 PROVE  AskerOrNone(td_control)'
      BY DEF AskerOrNone, Waiting
    <2>1. frames[1] \in Frames
      BY DEF IInv, TypeOK, Waiting
    <2>2. AskerOrNone(td_control)
      BY DEF IInv
    <2>3. CASE frames[1].conn # c
      <3>1. td_control'.conn[frames[1].conn] = td_control.conn[frames[1].conn]
        BY <2>1, <2>3 DEF Others, Frames
      <3> QED BY <2>2, <3>1 DEF AskerOrNone, Waiting
    <2>4. CASE frames[1].conn = c
      <3>1. td_control'.conn[c].fd = NONE => phase = "events" /\ frames[1].iterated
        BY DEF IInv, OneHandler, Waiting
      <3> QED BY <2>2, <2>4, <3>1 DEF AskerOrNone, Waiting
    <2> QED BY <2>3, <2>4
  <1> QED BY <1>1, <1>2, <1>3, <1>4, <1>5, <1>6, <1>7 DEF IInv

(* Sending and closing                                                     *)
LEMMA ConnectionEmptied ==
    ASSUME IInv, NEW c \in Conns, Pool(td_control'), Others(td_control, td_control', c),
           client' \in [Clients -> Sockets],
           vbd' = vbd, frames' = frames, phase' = phase, run' = run, crash' \in {NONE, "info", "assert"},
           td_control'.busy = td_control.busy,
           td_control'.conn[c].busy = td_control.conn[c].busy,
           td_control'.conn[c].fd \in {td_control.conn[c].fd, NONE},
           td_control'.conn[c].fd = NONE => phase = "events" \/ ~Waiting,
           td_control'.conn[c].out = <<>>,
           phase \in {"select", "events", "check"} => ~td_control'.conn[c].in_event
    PROVE  IInv'
  <1>1. vbd' \in [Vbds -> {"absent", "attached", "open"}] /\ run' \in BOOLEAN
    BY DEF IInv, TypeOK
  <1>2. frames # <<>> => vbd'[frames[1].vbd] # "absent"
    BY DEF IInv, OneHandler, Waiting
  <1>3. \A i \in 1 .. Len(td_control'.conn[c].out) : td_control'.conn[c].out[i] = td_control'.conn[c].fd
    OBVIOUS
  <1> QED BY <1>1, <1>2, <1>3, ConnectionServed

LEMMA SendStep ==
    ASSUME IInv, NEW c \in Conns, conn_send_event(c)
    PROVE  IInv'
  <1> DEFINE r == [td_control.conn[c] EXCEPT !.out = <<>>]
             z == [td_control EXCEPT !.conn[c] = r]
             k == td_control.conn[c].fd
             t == IF td_control.conn[c].done \/ client[k].sock = "gone" THEN conn_close(z, c) ELSE z
  <1>1. Pool(td_control) /\ td_control \in Pools /\ td_control.conn[c] \in Connections
        /\ client \in [Clients -> Sockets] /\ <<>> \in Seq(Clients) /\ crash \in {NONE, "info", "assert"}
    BY DEF IInv, TypeOK, Pools
  <1>2. /\ phase = "events" /\ UNCHANGED <<vbd, frames, phase, run, crash>>
        /\ td_control.conn[c].fd # NONE /\ td_control.conn[c].out # <<>>
    BY DEF conn_send_event
  <1>3. Settle(client, t, c, TRUE)
    <2>1. [td_control EXCEPT !.conn[c].out = <<>>] = z
      BY <1>1 DEF Pools
    <2> QED BY <2>1 DEF conn_send_event
  <1>4. r \in Connections /\ r.fd = td_control.conn[c].fd
    BY <1>1 DEF Connections
  <1>5. Pool(z) /\ Others(td_control, z, c) /\ z.busy = td_control.busy /\ z.conn[c] = r
    <2> HIDE DEF r
    <2> QED BY <1>1, <1>4, ConnSet
  <1> HIDE DEF z
  <1>6. LET u == conn_close(z, c)
        IN  Pool(u) /\ Others(z, u, c) /\ u.busy = z.busy /\ u.conn[c] = [z.conn[c] EXCEPT !.fd = NONE]
    BY <1>5, Closed
  <1>7. /\ Pool(t) /\ Others(td_control, t, c) /\ t.busy = td_control.busy
        /\ t.conn[c] = [r EXCEPT !.fd = NONE] \/ t.conn[c] = r
    BY <1>5, <1>6 DEF Others
  <1> HIDE DEF t
  <1>8. td_control' = t /\ client' \in [Clients -> Sockets]
    BY <1>1, <1>3, Settled
  <1>9. ~td_control.conn[c].in_event
    BY <1>2 DEF IInv, WriteAfterRead
  <1>10. /\ t.conn[c].busy = td_control.conn[c].busy
         /\ t.conn[c].fd \in {td_control.conn[c].fd, NONE}
         /\ t.conn[c].out = <<>> /\ ~t.conn[c].in_event
    BY <1>1, <1>7, <1>9 DEF Connections
  <1> QED BY <1>1, <1>2, <1>7, <1>8, <1>10, ConnectionEmptied

LEMMA ReadFailsStep ==
    ASSUME IInv, NEW c \in Conns, read_fails(c)
    PROVE  IInv'
  <1> DEFINE t == close_connection(td_control, c)
  <1>1. Pool(td_control) /\ td_control \in Pools /\ td_control.conn[c] \in Connections
        /\ client \in [Clients -> Sockets] /\ crash \in {NONE, "info", "assert"}
    BY DEF IInv, TypeOK, Pools
  <1>2. /\ phase = "events" /\ UNCHANGED <<vbd, frames, phase, run, crash>>
        /\ Settle(client, t, c, FALSE)
    BY DEF read_fails, Readable
  <1>3. /\ Pool(t) /\ Others(td_control, t, c) /\ t.busy = td_control.busy
        /\ t.conn[c] = [td_control.conn[c] EXCEPT !.in_event = FALSE, !.done = TRUE,
                                         !.out = <<>>, !.fd = NONE]
    BY <1>1, ConnectionClosed
  <1> HIDE DEF t
  <1>4. td_control' = t /\ client' \in [Clients -> Sockets]
    BY <1>1, <1>2, Settled
  <1>5. /\ t.conn[c].busy = td_control.conn[c].busy
        /\ t.conn[c].fd = NONE
        /\ t.conn[c].out = <<>> /\ ~t.conn[c].in_event
    BY <1>1, <1>3 DEF Connections
  <1> QED BY <1>1, <1>2, <1>3, <1>4, <1>5, ConnectionEmptied

LEMMA RejectStep ==
    ASSUME IInv, NEW c \in Conns, reject(c)
    PROVE  IInv'
  <1> DEFINE k == td_control.conn[c].fd
             w == conn_write(td_control, c, k, 1)
             t == close_connection(w, c)
  <1>1. Pool(td_control) /\ td_control \in Pools /\ td_control.conn[c] \in Connections
        /\ client \in [Clients -> Sockets] /\ crash \in {NONE, "info", "assert"}
    BY DEF IInv, TypeOK, Pools
  <1>2. phase = "events" /\ k # NONE /\ UNCHANGED <<vbd, frames, phase, run>>
    BY DEF reject, Readable
  <1>3. CASE crash' = "info" /\ UNCHANGED <<td_control, client>>
    <2>1. TypeOK'
      BY <1>2, <1>3 DEF IInv, TypeOK
    <2> QED BY <1>2, <1>3, <2>1, ConnectionsAlone DEF IInv, OneHandler, Waiting
  <1>4. CASE Settle(client, t, c, TRUE) /\ UNCHANGED crash
    <2>1. k \in Clients
      BY <1>1, <1>2 DEF Connections
    <2>2. /\ Pool(w) /\ Others(td_control, w, c) /\ w.busy = td_control.busy
          /\ SameConnection(td_control, w, c)
      <3>1. Pool(td_control) /\ 1 \in Nat \ {0}
        BY <1>1
      <3> HIDE DEF k
      <3> QED BY <3>1, <2>1, Written
    <2> HIDE DEF w
    <2>3. /\ Pool(t) /\ Others(w, t, c) /\ t.busy = w.busy
          /\ t.conn[c] = [w.conn[c] EXCEPT !.in_event = FALSE, !.done = TRUE,
                                         !.out = <<>>, !.fd = NONE]
      BY <2>2, ConnectionClosed
    <2> HIDE DEF t
    <2>4. td_control' = t /\ client' \in [Clients -> Sockets]
      BY <1>1, <1>4, Settled
    <2>5. Others(td_control, t, c) /\ t.busy = td_control.busy
      BY <2>2, <2>3 DEF Others
    <2>6. w.conn[c] \in Connections /\ w.conn[c].busy = td_control.conn[c].busy
      BY <1>1, <2>2 DEF Pool, Pools, SameConnection
    <2>7. /\ t.conn[c].busy = td_control.conn[c].busy
          /\ t.conn[c].fd = NONE
          /\ t.conn[c].out = <<>> /\ ~t.conn[c].in_event
      BY <2>3, <2>6 DEF Connections
    <2> QED BY <1>1, <1>2, <1>4, <2>3, <2>4, <2>5, <2>7, ConnectionEmptied
  <1> QED BY <1>3, <1>4 DEF reject

LEMMA DrainStep ==
    ASSUME IInv, NEW c \in Conns, drain(c)
    PROVE  IInv'
  <1> DEFINE r == [td_control.conn[c] EXCEPT !.out = <<>>]
             z == [td_control EXCEPT !.conn[c] = r]
             t == conn_close(z, c)
  <1>1. Pool(td_control) /\ td_control \in Pools /\ td_control.conn[c] \in Connections
        /\ client \in [Clients -> Sockets] /\ <<>> \in Seq(Clients) /\ crash \in {NONE, "info", "assert"}
    BY DEF IInv, TypeOK, Pools
  <1>2. phase = "closing" /\ ~Waiting /\ UNCHANGED <<vbd, frames, phase, run>>
    BY DEF drain, IInv, OneHandler
  <1>3. CASE crash' = "assert" /\ UNCHANGED <<td_control, client>>
    <2>1. TypeOK'
      BY <1>2, <1>3 DEF IInv, TypeOK
    <2> QED BY <1>2, <1>3, <2>1, ConnectionsAlone DEF IInv, OneHandler, Waiting
  <1>4. CASE Settle(client, conn_close([td_control EXCEPT !.conn[c].out = <<>>], c), c,
                    td_control.conn[c].out # <<>>) /\ UNCHANGED crash
    <2>1. [td_control EXCEPT !.conn[c].out = <<>>] = z
      BY <1>1 DEF Pools
    <2>2. r \in Connections /\ r.fd = td_control.conn[c].fd
      BY <1>1 DEF Connections
    <2>3. Pool(z) /\ Others(td_control, z, c) /\ z.busy = td_control.busy /\ z.conn[c] = r
      <3> HIDE DEF r
      <3> QED BY <1>1, <2>2, ConnSet
    <2>4. Settle(client, t, c, td_control.conn[c].out # <<>>)
      BY <1>4, <2>1
    <2> HIDE DEF z
    <2>5. Pool(t) /\ Others(z, t, c) /\ t.busy = z.busy /\ t.conn[c] = [z.conn[c] EXCEPT !.fd = NONE]
      BY <2>3, Closed
    <2> HIDE DEF t
    <2>6. td_control' = t /\ client' \in [Clients -> Sockets]
      BY <1>1, <2>4, Settled
    <2>7. Others(td_control, t, c) /\ t.busy = td_control.busy
      BY <2>3, <2>5 DEF Others
    <2>8. /\ t.conn[c].busy = td_control.conn[c].busy
          /\ t.conn[c].fd = NONE /\ t.conn[c].out = <<>>
      BY <1>1, <2>2, <2>3, <2>5 DEF Connections
    <2> QED BY <1>1, <1>2, <1>4, <2>5, <2>6, <2>7, <2>8, ConnectionEmptied
  <1> QED BY <1>3, <1>4 DEF drain
LEMMA PhaseStep ==
    ASSUME IInv, nothing_to_accept \/ iterate_returns \/ closed
    PROVE  IInv'
  <1>1. UNCHANGED <<td_control, vbd, frames, run, crash>> /\ client' \in [Clients -> Sockets]
    <2>1. client \in [Clients -> Sockets]
      BY DEF IInv, TypeOK
    <2>2. CASE nothing_to_accept \/ iterate_returns
      BY <2>1, <2>2 DEF nothing_to_accept, iterate_returns
    <2>3. CASE closed
      BY <2>1, <2>3 DEF closed, Sockets
    <2> QED BY <2>2, <2>3
  <1>2. CASE nothing_to_accept \/ closed
    <2>1. TypeOK'
      BY <1>1, <1>2 DEF IInv, TypeOK, nothing_to_accept, closed
    <2> QED BY <1>1, <1>2, <2>1, ConnectionsAlone DEF nothing_to_accept, closed, IInv, OneHandler, Waiting
  <1>3. CASE iterate_returns
    <2>1. phase = "events" /\ phase' = IF Waiting THEN "check" ELSE IF run THEN "select" ELSE "closing"
      BY <1>3 DEF iterate_returns, Waiting
    <2>2. TypeOK'
      BY <1>1, <2>1 DEF IInv, TypeOK
    <2>3. NoStaleEvent(td_control)
      BY <2>1 DEF IInv
    <2>4. OneHandler'
      BY <1>1, <2>1 DEF IInv, OneHandler, Waiting
    <2>5. Marked(td_control)'
      BY <1>1 DEF IInv, Marked, Waiting
    <2>6. ~Enotty => AskerOrNone(td_control)'
      BY <1>1, <2>1 DEF IInv, OneHandler, AskerOrNone, Waiting
    <2> QED BY <1>1, <2>2, <2>3, <2>4, <2>5, <2>6 DEF IInv
  <1> QED BY <1>2, <1>3

(* The innermost handler is the only one.                                  *)
LEMMA HandlerFacts ==
    ASSUME IInv, phase = "check"
    PROVE  /\ Waiting /\ Len(frames) = 1
           /\ Handler = frames[1] /\ Handler \in Frames
           /\ Front(frames) = <<>>
  <1>1. Waiting /\ Len(frames) <= 1 /\ frames \in Seq(Frames)
    BY DEF IInv, OneHandler, TypeOK
  <1>2. Len(frames) = 1
    <2>1. Len(frames) \in Nat \ {0}
      BY <1>1, EmptySeq DEF Waiting
    <2>2. PICK n \in Nat : n = Len(frames) /\ n # 0 /\ n <= 1
      BY <1>1, <2>1
    <2>3. n = 1
      BY <2>2
    <2> QED BY <2>2, <2>3
  <1>3. Handler = frames[1] /\ frames[1] \in Frames
    BY <1>1, <1>2 DEF Handler, Last
  <1>4. Front(frames) = <<>>
    BY <1>1, <1>2 DEF Front
  <1> QED BY <1>1, <1>2, <1>3, <1>4

LEMMA WaitStep ==
    ASSUME IInv, wait
    PROVE  IInv'
  <1>1. phase = "check" /\ phase' = "select" /\ ~hung_up
        /\ UNCHANGED <<td_control, client, vbd, run, crash>>
    BY DEF wait
  <1>2. /\ Waiting /\ Len(frames) = 1
        /\ Handler = frames[1] /\ Handler \in Frames
    BY <1>1, HandlerFacts
  <1>3. /\ frames' \in Seq(Frames) /\ frames' # <<>> /\ Len(frames') = 1
        /\ frames'[1] = [frames[1] EXCEPT !.iterated = TRUE]
    <2>1. frames' = [frames EXCEPT ![1].iterated = TRUE] /\ frames \in Seq(Frames)
      BY <1>2 DEF wait, IInv, TypeOK
    <2>2. [frames[1] EXCEPT !.iterated = TRUE] \in Frames
      BY <1>2 DEF Frames
    <2>3. frames' \in Seq(Frames) /\ Len(frames') = 1 /\ frames'[1] = [frames[1] EXCEPT !.iterated = TRUE]
      BY <1>2, <2>1, <2>2
    <2> QED BY <2>3
  <1>4. /\ frames'[1].conn = frames[1].conn /\ frames'[1].asker = frames[1].asker
        /\ frames'[1].vbd = frames[1].vbd /\ frames'[1].msg = frames[1].msg /\ frames'[1].iterated
    BY <1>2, <1>3 DEF Frames
  <1>5. TypeOK'
    BY <1>1, <1>3 DEF IInv, TypeOK
  <1>6. OneHandler'
    BY <1>1, <1>2, <1>3, <1>4 DEF IInv, OneHandler, Waiting
  <1>7. Marked(td_control)'
    BY <1>1, <1>2, <1>3, <1>4 DEF IInv, Marked, Waiting
  <1>8. ~Enotty => AskerOrNone(td_control)'
    BY <1>1, <1>2, <1>3, <1>4 DEF IInv, AskerOrNone, hung_up, Waiting
  <1>9. NoStaleEvent(td_control)
    BY <1>1 DEF IInv
  <1> QED BY <1>1, <1>5, <1>6, <1>7, <1>8, <1>9 DEF IInv
(* What a handler that does not wait leaves: its answer in the output      *)
(* buffer, the connection released                                         *)
LEMMA Answering ==
    ASSUME NEW s, Pool(s), NEW c \in Conns, NEW k \in Clients, NEW n \in Nat \ {0}, NEW excl
    PROVE  LET t == Ended(conn_write(s, c, k, n), c, excl)
           IN  /\ Pool(t) /\ Others(s, t, c) /\ (t.busy <=> (s.busy /\ ~excl))
               /\ t.conn[c].fd = s.conn[c].fd /\ ~t.conn[c].busy /\ ~t.conn[c].in_event
               /\ t.conn[c].out # <<>>
               /\ (s.conn[c].fd = k /\ \A i \in 1 .. Len(s.conn[c].out) : s.conn[c].out[i] = k)
                     => \A i \in 1 .. Len(t.conn[c].out) : t.conn[c].out[i] = k
  <1> DEFINE w == conn_write(s, c, k, n)
             t == Ended(w, c, excl)
  <1>1. /\ Pool(w) /\ Others(s, w, c) /\ w.busy = s.busy
        /\ SameConnection(s, w, c)
        /\ w.conn[c].out # <<>>
        /\ \A i \in 1 .. Len(w.conn[c].out) :
              \/ w.conn[c].out[i] = k
              \/ i \in 1 .. Len(s.conn[c].out) /\ w.conn[c].out[i] = s.conn[c].out[i]
    BY Written
  <1> HIDE DEF w
  <1>2. /\ Pool(t) /\ Others(w, t, c) /\ (t.busy <=> (w.busy /\ ~excl))
        /\ t.conn[c].fd = w.conn[c].fd /\ t.conn[c].out = w.conn[c].out
        /\ ~t.conn[c].busy /\ ~t.conn[c].in_event
    <2>1. Pool(w) /\ w.conn[c].out # <<>>
      BY <1>1
    <2> QED BY <2>1, EndedPool
  <1> HIDE DEF t
  <1>3. w.conn[c] \in Connections
    BY <1>1 DEF Pool, Pools
  <1>4. t.conn[c].fd = s.conn[c].fd /\ ~t.conn[c].busy /\ ~t.conn[c].in_event /\ t.conn[c].out = w.conn[c].out
    BY <1>1, <1>2, <1>3 DEF Connections, SameConnection
  <1>5. Others(s, t, c)
    BY <1>1, <1>2 DEF Others
  <1> QED BY <1>1, <1>2, <1>4, <1>5 DEF t, w

LEMMA HandleStep ==
    ASSUME IInv, NEW c \in Conns, NEW v \in Vbds, handle_request(c, v)
    PROVE  IInv'
  <1> DEFINE k == td_control.conn[c].fd
             m == client[k].msg
             n == IF m = "list" THEN Cardinality(Attached) + 1 ELSE 1
             a == Started(td_control, c, m)
             x == m \notin Reenter
             t == Ended(conn_write(a, c, k, n), c, x)
  <1>1. Pool(td_control) /\ td_control \in Pools /\ td_control.conn[c] \in Connections
        /\ client \in [Clients -> Sockets] /\ crash \in {NONE, "info", "assert"} /\ run \in BOOLEAN
        /\ vbd \in [Vbds -> {"absent", "attached", "open"}]
    BY DEF IInv, TypeOK, Pools
  <1>2. /\ phase = "events" /\ k # NONE /\ UNCHANGED crash
        /\ m # "bad" /\ ~excluded(c, m)
    BY DEF handle_request, Readable
  <1>3. k \in Clients /\ Reading(k) \in [Clients -> Sockets]
    <2>1. k \in Clients
      BY <1>1, <1>2 DEF Connections
    <2>2. [client[k] EXCEPT !.req = "read", !.msg = NONE] \in Sockets
      <3>1. client[k] \in Sockets
        BY <1>1, <2>1
      <3> QED BY <3>1 DEF Sockets
    <2>3. Reading(k) = [client EXCEPT ![k] = [@ EXCEPT !.req = "read", !.msg = NONE]]
      BY <1>1, <2>1 DEF Reading
    <2> QED BY <1>1, <2>1, <2>2, <2>3
  <1>4. /\ ~td_control.conn[c].busy
        /\ m \notin Reenter => ~td_control.busy
    BY <1>2 DEF excluded
  <1>5. /\ Pool(a) /\ Others(td_control, a, c)
        /\ (a.busy <=> (td_control.busy \/ m \notin Reenter))
        /\ a.conn[c] = [td_control.conn[c] EXCEPT !.busy = TRUE, !.info = TRUE]
    <2>1. Pool(td_control)
      BY <1>1
    <2> HIDE DEF m
    <2> QED BY <2>1, StartedPool
  <1>6. n \in Nat \ {0}
    <2>1. IsFiniteSet(Attached)
      BY ControlAssumption, FS_Subset DEF Attached
    <2>2. Cardinality(Attached) \in Nat
      BY <2>1, FS_CardinalityType
    <2> QED BY <2>2
  <1> HIDE DEF a, n
  <1>7. a.conn[c].fd = k /\ a.conn[c].busy /\ a.conn[c].out = td_control.conn[c].out
        /\ a.conn[c].in_event = td_control.conn[c].in_event
    BY <1>1, <1>5 DEF Connections
  <1>8. CASE /\ Settle(Reading(k), t, c, FALSE) /\ Effect(m, v)
             /\ UNCHANGED <<frames, phase>>
    <2>1. /\ Pool(t) /\ Others(a, t, c) /\ (t.busy <=> (a.busy /\ ~x))
          /\ t.conn[c].fd = a.conn[c].fd /\ ~t.conn[c].busy /\ ~t.conn[c].in_event
          /\ (a.conn[c].fd = k /\ \A i \in 1 .. Len(a.conn[c].out) : a.conn[c].out[i] = k)
                => \A i \in 1 .. Len(t.conn[c].out) : t.conn[c].out[i] = k
      <3>1. k \in Clients /\ Pool(a) /\ n \in Nat \ {0}
        BY <1>3, <1>5, <1>6
      <3> HIDE DEF k, m, x
      <3> QED BY <3>1, Answering
    <2> HIDE DEF t
    <2>2. td_control' = t /\ client' \in [Clients -> Sockets]
      <3> HIDE DEF k
      <3> QED BY <1>3, <1>8, Settled
    <2>3. Others(td_control, t, c)
      BY <1>5, <2>1 DEF Others
    <2>4. t.busy = td_control.busy /\ t.conn[c].busy = td_control.conn[c].busy
      BY <1>1, <1>4, <1>5, <2>1 DEF Pools, Connections, Pool
    <2>5. ~Enotty => \A i \in 1 .. Len(t.conn[c].out) : t.conn[c].out[i] = k
      <3>1. ~Enotty => \A i \in 1 .. Len(a.conn[c].out) : a.conn[c].out[i] = k
        BY <1>2, <1>7 DEF IInv, OwnReplies
      <3> QED BY <1>7, <2>1, <3>1
    <2>6. vbd' \in [Vbds -> {"absent", "attached", "open"}] /\ run' \in BOOLEAN
      BY <1>1, <1>8 DEF Effect
    <2>7. frames # <<>> => vbd'[frames[1].vbd] # "absent"
      <3>1. Waiting => m \in Reenter
        BY <1>4 DEF IInv, Marked
      <3>2. m \in Reenter => vbd' = vbd
        BY <1>8 DEF Effect, Reenter
      <3> QED BY <3>1, <3>2 DEF IInv, OneHandler, Waiting
    <2>8. t.conn[c].fd = k
      BY <1>7, <2>1
    <2> HIDE DEF m
    <2> QED BY <1>1, <1>2, <1>8, <2>1, <2>2, <2>3, <2>4, <2>5, <2>6, <2>7, <2>8, ConnectionServed
  <1>9. CASE /\ m \in Blocking /\ vbd[v] # "absent"
             /\ Settle(Reading(k), a, c, FALSE)
             /\ frames' = Append(frames, [conn |-> c, asker |-> k, msg |-> m, vbd |-> v, iterated |-> FALSE])
             /\ phase' = "check"
             /\ UNCHANGED <<vbd, run>>
    <2> DEFINE f == [conn |-> c, asker |-> k, msg |-> m, vbd |-> v, iterated |-> FALSE]
    <2>1. ~td_control.busy /\ m \notin Reenter
      BY <1>4, <1>9 DEF Blocking, Reenter
    <2>2. frames = <<>>
      BY <2>1 DEF IInv, Marked, Waiting
    <2>3. f \in Frames /\ f.conn = c /\ f.asker = k /\ f.vbd = v /\ ~f.iterated
      BY <1>3, <1>9 DEF Frames
    <2> HIDE DEF f
    <2>4. frames' = <<f>>
      BY <1>9, <2>2 DEF f
    <2>5. frames' \in Seq(Frames) /\ frames' # <<>> /\ Len(frames') = 1 /\ frames'[1] = f
      BY <2>3, <2>4
    <2>6. td_control' = a /\ client' \in [Clients -> Sockets]
      <3> HIDE DEF k
      <3> QED BY <1>3, <1>9, Settled
    <2>7. TypeOK'
      BY <1>1, <1>2, <1>5, <1>9, <2>5, <2>6 DEF TypeOK, Pool
    <2>8. WriteAfterRead(a) /\ NoStaleEvent(a) /\ (~Enotty => OwnReplies(a))
      <3>1. WriteAfterRead(td_control) /\ NoStaleEvent(td_control) /\ (~Enotty => OwnReplies(td_control))
        BY <1>2 DEF IInv
      <3>2. a.conn[c].fd # NONE /\ a.conn[c].out # <<>> => ~a.conn[c].in_event
        BY <1>7, <3>1 DEF WriteAfterRead
      <3>3. ~Enotty => \A i \in 1 .. Len(a.conn[c].out) : a.conn[c].out[i] = a.conn[c].fd
        BY <1>2, <1>7, <3>1 DEF OwnReplies
      <3> QED BY <1>2, <1>5, <1>7, <3>1, <3>2, <3>3, OneConnection
    <2>9. OneHandler'
      BY <1>9, <2>3, <2>5 DEF OneHandler, Waiting
    <2>10. Marked(td_control)'
      BY <1>5, <1>7, <2>1, <2>2, <2>3, <2>5, <2>6 DEF IInv, Marked, Others, Waiting
    <2>11. AskerOrNone(td_control)'
      BY <1>7, <2>3, <2>5, <2>6 DEF AskerOrNone, Waiting
    <2>12. Pool(td_control') /\ WriteAfterRead(td_control') /\ NoStaleEvent(td_control')
           /\ (~Enotty => OwnReplies(td_control'))
      BY <1>5, <2>6, <2>8
    <2> QED BY <2>7, <2>9, <2>10, <2>11, <2>12 DEF IInv
  <1> QED BY <1>8, <1>9 DEF handle_request, a, n
LEMMA ReturnStep ==
    ASSUME IInv, phase = "check", handler_returns, vbd' \in [Vbds -> {"absent", "attached", "open"}]
    PROVE  IInv'
  <1> DEFINE c == Handler.conn
             k == Handler.asker
             excl == TRUE
             t == Ended(conn_write(td_control, c, k, 1), c, excl)
  <1>1. Pool(td_control) /\ client \in [Clients -> Sockets] /\ run \in BOOLEAN
        /\ crash \in {NONE, "info", "assert"} /\ 1 \in Nat \ {0}
    BY DEF IInv, TypeOK
  <1>2. Waiting /\ Handler = frames[1] /\ Handler \in Frames /\ Front(frames) = <<>>
    BY HandlerFacts
  <1>3. c \in Conns /\ k \in Clients /\ c = frames[1].conn /\ k = frames[1].asker
    BY <1>2 DEF Frames
  <1>4. phase' = "events" /\ frames' = <<>> /\ UNCHANGED <<run, crash>> /\ Settle(client, t, c, FALSE)
    BY <1>2 DEF handler_returns
  <1> HIDE DEF c, k
  <1>5. /\ Pool(t) /\ Others(td_control, t, c) /\ ~t.busy
        /\ t.conn[c].fd = td_control.conn[c].fd /\ ~t.conn[c].busy /\ ~t.conn[c].in_event
        /\ (td_control.conn[c].fd = k
              /\ \A i \in 1 .. Len(td_control.conn[c].out) : td_control.conn[c].out[i] = k)
              => \A i \in 1 .. Len(t.conn[c].out) : t.conn[c].out[i] = k
    <2>1. Pool(td_control) /\ 1 \in Nat \ {0}
      BY <1>1
    <2> HIDE DEF excl
    <2>2. /\ Pool(t) /\ Others(td_control, t, c) /\ (t.busy <=> (td_control.busy /\ ~excl))
          /\ t.conn[c].fd = td_control.conn[c].fd /\ ~t.conn[c].busy /\ ~t.conn[c].in_event
          /\ (td_control.conn[c].fd = k
                /\ \A i \in 1 .. Len(td_control.conn[c].out) : td_control.conn[c].out[i] = k)
                => \A i \in 1 .. Len(t.conn[c].out) : t.conn[c].out[i] = k
      BY <1>3, <2>1, Answering
    <2> HIDE DEF t
    <2> QED BY <2>2 DEF excl
  <1> HIDE DEF t
  <1>6. td_control' = t /\ client' \in [Clients -> Sockets]
    BY <1>1, <1>4, Settled
  <1>7. TypeOK'
    <2>1. <<>> \in Seq(Frames)
      OBVIOUS
    <2> QED BY <1>1, <1>4, <1>5, <1>6, <2>1 DEF TypeOK, Pool
  <1>8. WriteAfterRead(t) /\ NoStaleEvent(t)
    <2>1. WriteAfterRead(td_control) /\ NoStaleEvent(td_control)
      BY DEF IInv
    <2> QED BY <1>3, <1>5, <2>1, OneConnection
  <1>9. ~Enotty => OwnReplies(t)
    <2> SUFFICES ASSUME ~Enotty PROVE OwnReplies(t)
      OBVIOUS
    <2>1. OwnReplies(td_control) /\ AskerOrNone(td_control)
      BY DEF IInv
    <2>2. td_control.conn[c].fd = k \/ td_control.conn[c].fd = NONE
      BY <1>2, <1>3, <2>1 DEF AskerOrNone
    <2>3. CASE td_control.conn[c].fd = NONE
      BY <1>3, <1>5, <2>1, <2>3, OneConnection
    <2>4. CASE td_control.conn[c].fd = k
      <3>1. k # NONE
        BY <1>3, ControlAssumption
      <3>2. \A i \in 1 .. Len(td_control.conn[c].out) : td_control.conn[c].out[i] = k
        BY <1>3, <2>1, <2>4, <3>1 DEF OwnReplies
      <3>3. \A i \in 1 .. Len(t.conn[c].out) : t.conn[c].out[i] = t.conn[c].fd
        BY <1>5, <2>4, <3>2
      <3> QED BY <1>3, <1>5, <2>1, <3>3, OneConnection
    <2> QED BY <2>2, <2>3, <2>4
  <1>10. OneHandler'
    <2>1. Len(<<>>) = 0
      OBVIOUS
    <2> QED BY <1>4, <2>1 DEF OneHandler, Waiting
  <1>11. Marked(td_control)'
    <2>1. \A d \in Conns \ {c} : ~t.conn[d].busy
      BY <1>3, <1>5 DEF IInv, Marked, Others
    <2> QED BY <1>4, <1>5, <1>6, <2>1 DEF Marked, Waiting
  <1>12. AskerOrNone(td_control)'
    BY <1>4 DEF AskerOrNone, Waiting
  <1>13. Pool(td_control') /\ WriteAfterRead(td_control') /\ NoStaleEvent(td_control')
         /\ (~Enotty => OwnReplies(td_control'))
    BY <1>5, <1>6, <1>8, <1>9
  <1> QED BY <1>7, <1>10, <1>11, <1>12, <1>13 DEF IInv

LEMMA HandlerStep ==
    ASSUME IInv, done_waiting \/ gives_up
    PROVE  IInv'
  <1>1. vbd \in [Vbds -> {"absent", "attached", "open"}]
    BY DEF IInv, TypeOK
  <1>2. CASE done_waiting
    <2>1. vbd' \in [Vbds -> {"absent", "attached", "open"}]
      BY <1>1, <1>2 DEF done_waiting
    <2> QED BY <1>2, <2>1, ReturnStep DEF done_waiting
  <1>3. CASE gives_up
    BY <1>1, <1>3, ReturnStep DEF gives_up
  <1> QED BY <1>2, <1>3

LEMMA StepIInv == IInv /\ [Next]_vars => IInv'
  <1> SUFFICES ASSUME IInv, [Next]_vars
               PROVE  IInv'
    OBVIOUS
  <1>1. ASSUME NEW k \in Clients, connect(k) \/ hangup(k) \/ \E m \in Requests : send(k, m)
        PROVE  IInv'
    BY <1>1, ClientsStep
  <1>2. ASSUME NEW k \in Clients, accept(k)
        PROVE  IInv'
    BY <1>2, AcceptStep
  <1>3. ASSUME NEW c \in Conns, conn_send_event(c)
        PROVE  IInv'
    BY <1>3, SendStep
  <1>4. ASSUME NEW c \in Conns, read_fails(c)
        PROVE  IInv'
    BY <1>4, ReadFailsStep
  <1>5. ASSUME NEW c \in Conns, reject(c)
        PROVE  IInv'
    BY <1>5, RejectStep
  <1>6. ASSUME NEW c \in Conns, NEW v \in Vbds, handle_request(c, v)
        PROVE  IInv'
    BY <1>6, HandleStep
  <1>7. ASSUME NEW c \in Conns, drain(c)
        PROVE  IInv'
    BY <1>7, DrainStep
  <1>8. CASE nothing_to_accept \/ iterate_returns \/ closed
    BY <1>8, PhaseStep
  <1>9. CASE wait
    BY <1>9, WaitStep
  <1>10. CASE done_waiting \/ gives_up
    BY <1>10, HandlerStep
  <1>11. CASE UNCHANGED vars
    <2>1. TypeOK'
      BY <1>11 DEF IInv, TypeOK, vars
    <2> QED BY <1>11, <2>1, ConnectionsAlone DEF IInv, OneHandler, Waiting, vars
  <1> QED BY <1>1, <1>2, <1>3, <1>4, <1>5, <1>6, <1>7, <1>8, <1>9, <1>10, <1>11 DEF Next, Serving

(* Every state tapdisk-control.c can be in satisfies the inductive         *)
(* invariant.                                                              *)
THEOREM Invariance == Spec => []IInv
  BY InitIInv, StepIInv, PTL DEF Spec
-----------------------------------------------------------------------------
(* Every connection is in the array once, those in use first, and new      *)
(* clients are kept waiting exactly while all are in use                   *)
(* (tapdisk_ctl_conn_open, tapdisk_ctl_conn_free).                         *)
THEOREM PoolCorrect == Spec => []PoolSound
  <1>1. IInv => PoolSound
    <2> SUFFICES ASSUME IInv PROVE PoolExact
      BY DEF PoolSound, IInv
    <2>1. /\ td_control \in Pools /\ IsInjective(td_control.order)
          /\ \A c \in Conns : td_control.conn[c].fd # NONE
                <=> \E i \in 1 .. td_control.n_conn : td_control.order[i] = c
          /\ td_control.masked <=> td_control.n_conn = MaxConns
      BY DEF IInv, Pool
    <2>2. /\ td_control.order \in [1 .. MaxConns -> Conns]
          /\ td_control.n_conn \in 0 .. MaxConns /\ MaxConns \in Nat
      BY <2>1, MaxConnsType DEF Pools
    <2>3. Range(td_control.order) = Conns
      <3>1. IsFiniteSet(1 .. MaxConns) /\ Cardinality(1 .. MaxConns) = MaxConns
        BY MaxConnsType, FS_Interval
      <3>2. td_control.order \in Injection(1 .. MaxConns, Conns)
        BY <2>1, <2>2 DEF Injection
      <3>3. td_control.order \in Surjection(1 .. MaxConns, Conns)
        BY <3>1, <3>2, ControlAssumption, FS_Injection DEF MaxConns
      <3> QED BY <2>2, <3>3 DEF Range, Surjection
    <2>4. {c \in Conns : td_control.conn[c].fd # NONE}
             = {td_control.order[i] : i \in 1 .. td_control.n_conn}
      BY <2>1, <2>2
    <2> QED BY <2>1, <2>3, <2>4 DEF PoolExact, IInv, NoStaleEvent
  <1> QED BY <1>1, Invariance, PTL

(* The vbd a waiting PAUSE or CLOSE points to is not freed, and both the   *)
(* connection and the server stay marked busy                              *)
(* (tapdisk_control_pause_vbd, tapdisk_control_close_image).               *)
THEOREM VbdsKept == Spec => []HandlersKeepVbds
  <1>1. IInv => HandlersKeepVbds
    <2> SUFFICES ASSUME IInv, NEW i \in 1 .. Len(frames)
                 PROVE  /\ vbd[frames[i].vbd] # "absent"
                        /\ td_control.conn[frames[i].conn].busy /\ td_control.busy
      BY DEF HandlersKeepVbds
    <2>1. frames \in Seq(Frames) /\ Len(frames) <= 1
      BY DEF IInv, TypeOK, OneHandler
    <2>2. i = 1 /\ Waiting /\ frames[1] \in Frames
      BY <2>1 DEF Waiting
    <2> QED BY <2>2 DEF IInv, OneHandler, Marked, Frames
  <1> QED BY <1>1, Invariance, PTL

(* Where the ioctl that removes devices is implemented, what a client is   *)
(* sent answers its own request, although connections are reused while     *)
(* handlers wait (tapdisk_ctl_conn_write).                                 *)
THEOREM RepliesCorrect ==
    ASSUME ~Enotty PROVE Spec => []RepliesReachAsker
  <1>1. IInv => RepliesReachAsker
    BY DEF IInv, OwnReplies, RepliesReachAsker
  <1> QED BY <1>1, Invariance, PTL-----------------------------------------------------------------------------
(* A client whose socket closes in an action on connection c had it.       *)
LEMMA OnlyOneCloses ==
    ASSUME NEW now, NEW s, NEW c \in Conns, NEW sent, Settle(now, s, c, sent),
           Others(td_control, s, c), NEW k \in Clients, now[k] \in Sockets,
           now[k].sock = "open", client'[k].sock = "off"
    PROVE  td_control.conn[c].fd = k /\ s.conn[c].fd # k
  <1> DEFINE had == \E d \in Conns : td_control.conn[d].fd = k
             has == \E d \in Conns : s.conn[d].fd = k
  <1>1. client'[k].sock = IF had /\ ~has THEN "off" ELSE now[k].sock
    BY DEF Settle, Sockets
  <1> HIDE DEF had, has
  <1>2. had /\ ~has
    BY <1>1
  <1> QED BY <1>2 DEF had, has, Others

(* ... and was answered, if the output buffer was sent.                    *)
LEMMA CloserIsAnswered ==
    ASSUME NEW now, NEW s, NEW c \in Conns, NEW sent, Settle(now, s, c, sent),
           Others(td_control, s, c), NEW k \in Clients, now[k] \in Sockets, s.conn[c].out = <<>>,
           now[k].sock = "open", client'[k].sock = "off"
    PROVE  sent = TRUE => client'[k].req = "answered"
  <1>1. td_control.conn[c].fd = k
    BY OnlyOneCloses
  <1> QED BY <1>1 DEF Settle, Sockets

Silent(k) == client[k].sock = "open" /\ client'[k].sock = "off" /\ phase \notin {"closing", "exited"}

LEMMA NoSilentStep ==
    ASSUME IInv, Next, NEW k \in Clients, Silent(k)
    PROVE  client'[k].req = "answered"
  <1>1. /\ Pool(td_control) /\ client \in [Clients -> Sockets] /\ td_control \in Pools
        /\ client[k].sock = "open" /\ client'[k].sock = "off" /\ phase \notin {"closing", "exited"}
        /\ 1 \in Nat \ {0} /\ client[k] \in Sockets
    BY DEF IInv, TypeOK, Silent
  <1>0. client[k] \in Sockets /\ client[k].sock = "open" /\ client'[k].sock = "off"
    BY <1>1
  <1>2. ASSUME UNCHANGED client PROVE FALSE
    BY <1>1, <1>2
  <1>3. ASSUME NEW j \in Clients, connect(j) \/ hangup(j) \/ accept(j) \/ \E m \in Requests : send(j, m)
        PROVE  FALSE
    <2>1. CASE connect(j)
      BY <1>1, <2>1 DEF connect
    <2>2. CASE hangup(j)
      BY <1>1, <2>2 DEF hangup, Sockets
    <2>3. CASE accept(j)
      BY <1>1, <2>3 DEF accept, Sockets
    <2>4. ASSUME NEW m \in Requests, send(j, m)
          PROVE  FALSE
      <3>1. client[j] \in Sockets
        BY <1>1
      <3>2. client'[j].sock = client[j].sock /\ \A i \in Clients \ {j} : client'[i] = client[i]
        <4>1. CASE client' = [client EXCEPT ![j].req = "sent", ![j].msg = m]
          BY <1>1, <3>1, <4>1 DEF Sockets
        <4>2. CASE client' = [client EXCEPT ![j].again = TRUE]
          BY <1>1, <3>1, <4>2 DEF Sockets
        <4> QED BY <2>4, <4>1, <4>2 DEF send
      <3> QED BY <1>1, <3>2
    <2> QED BY <1>3, <2>1, <2>2, <2>3, <2>4
  <1>4. ASSUME NEW c \in Conns, conn_send_event(c)
        PROVE  client'[k].req = "answered"
    <2> DEFINE r == [td_control.conn[c] EXCEPT !.out = <<>>]
               z == [td_control EXCEPT !.conn[c] = r]
               j == td_control.conn[c].fd
               t == IF td_control.conn[c].done \/ client[j].sock = "gone" THEN conn_close(z, c) ELSE z
               yes == TRUE
    <2>1. td_control.conn[c] \in Connections /\ <<>> \in Seq(Clients)
      BY <1>1 DEF Pools
    <2>2. Settle(client, t, c, yes)
      <3>1. [td_control EXCEPT !.conn[c].out = <<>>] = z
        BY <1>1 DEF Pools
      <3> QED BY <1>4, <3>1 DEF conn_send_event
    <2>3. r \in Connections /\ r.fd = td_control.conn[c].fd /\ r.out = <<>>
      BY <2>1 DEF Connections
    <2>4. Pool(z) /\ Others(td_control, z, c) /\ z.conn[c] = r
      <3>1. Pool(td_control)
        BY <1>1
      <3> HIDE DEF r
      <3> QED BY <3>1, <2>3, ConnSet
    <2> HIDE DEF z
    <2>5. LET u == conn_close(z, c)
          IN  Others(z, u, c) /\ u.conn[c] = [z.conn[c] EXCEPT !.fd = NONE]
      BY <2>4, Closed
    <2>6. Others(td_control, t, c) /\ (t.conn[c] = [r EXCEPT !.fd = NONE] \/ t.conn[c] = r)
      BY <2>4, <2>5 DEF Others
    <2>7. t.conn[c].out = <<>>
      BY <2>3, <2>6 DEF Connections
    <2> HIDE DEF t, yes
    <2>8. yes = TRUE => client'[k].req = "answered"
      <3>1. Others(td_control, t, c)
        BY <2>6
      <3> QED BY <1>0, <2>2, <2>7, <3>1, CloserIsAnswered
    <2> QED BY <2>8 DEF yes
  <1>5. ASSUME NEW c \in Conns, read_fails(c)
        PROVE  FALSE
    <2> DEFINE t == close_connection(td_control, c)
               no == FALSE
    <2>1. Others(td_control, t, c)
      BY <1>1, ConnectionClosed
    <2>2. Settle(client, t, c, no) /\ client[td_control.conn[c].fd].sock = "gone"
      BY <1>5 DEF read_fails
    <2> HIDE DEF t, no
    <2>3. td_control.conn[c].fd = k
      BY <1>0, <2>1, <2>2, OnlyOneCloses
    <2> QED BY <1>1, <2>2, <2>3
  <1>6. ASSUME NEW c \in Conns, reject(c), ~(UNCHANGED client)
        PROVE  client'[k].req = "answered"
    <2> DEFINE j == td_control.conn[c].fd
               w == conn_write(td_control, c, j, 1)
               t == close_connection(w, c)
               yes == TRUE
    <2>1. j \in Clients
      <3>1. td_control.conn[c] \in Connections /\ j # NONE
        BY <1>1, <1>6 DEF reject, Readable, Pools
      <3> QED BY <3>1 DEF Connections
    <2>2. Settle(client, t, c, yes)
      BY <1>6 DEF reject
    <2>3. Pool(w) /\ Others(td_control, w, c)
      <3>1. Pool(td_control) /\ 1 \in Nat \ {0}
        BY <1>1
      <3> HIDE DEF j
      <3> QED BY <3>1, <2>1, Written
    <2> HIDE DEF w
    <2>4. Others(w, t, c) /\ t.conn[c] = [w.conn[c] EXCEPT !.in_event = FALSE, !.done = TRUE,
                                                     !.out = <<>>, !.fd = NONE]
      BY <2>3, ConnectionClosed
    <2>5. w.conn[c] \in Connections
      BY <2>3 DEF Pool, Pools
    <2> HIDE DEF t
    <2>6. Others(td_control, t, c)
      BY <2>3, <2>4 DEF Others
    <2>7. t.conn[c].out = <<>>
      BY <2>4, <2>5 DEF Connections
    <2> HIDE DEF yes
    <2>8. yes = TRUE => client'[k].req = "answered"
      BY <1>0, <2>2, <2>6, <2>7, CloserIsAnswered
    <2> QED BY <2>8 DEF yes
  <1>7. ASSUME NEW c \in Conns, NEW v \in Vbds, handle_request(c, v)
        PROVE  FALSE
    <2> DEFINE j == td_control.conn[c].fd
               m == client[j].msg
               n == IF m = "list" THEN Cardinality(Attached) + 1 ELSE 1
               a == Started(td_control, c, m)
               x == m \notin Reenter
               t == Ended(conn_write(a, c, j, n), c, x)
               no == FALSE
    <2>1. j \in Clients /\ td_control.conn[c] \in Connections
      <3>1. td_control.conn[c] \in Connections /\ j # NONE
        BY <1>1, <1>7 DEF handle_request, Readable, Pools
      <3> QED BY <3>1 DEF Connections
    <2>2. /\ Reading(j) \in [Clients -> Sockets]
          /\ Reading(j)[k].sock = "open" /\ Reading(j)[k] \in Sockets
      <3>1. client[j] \in Sockets
        BY <1>1, <2>1
      <3>2. Reading(j) = [client EXCEPT ![j] = [@ EXCEPT !.req = "read", !.msg = NONE]]
        BY <1>1, <2>1 DEF Reading
      <3>3. [client[j] EXCEPT !.req = "read", !.msg = NONE] \in Sockets
        BY <3>1 DEF Sockets
      <3>4. [client[j] EXCEPT !.req = "read", !.msg = NONE].sock = client[j].sock
        BY <3>1 DEF Sockets
      <3> QED BY <1>1, <2>1, <3>2, <3>3, <3>4
    <2>3. Settle(Reading(j), t, c, no) \/ Settle(Reading(j), a, c, no)
      BY <1>7 DEF handle_request
    <2>4. n \in Nat \ {0}
      <3>1. IsFiniteSet(Attached)
        BY ControlAssumption, FS_Subset DEF Attached
      <3>2. Cardinality(Attached) \in Nat
        BY <3>1, FS_CardinalityType
      <3> QED BY <3>2
    <2>5. Pool(a) /\ Others(td_control, a, c)
          /\ a.conn[c] = [td_control.conn[c] EXCEPT !.busy = TRUE, !.info = TRUE]
      <3>1. Pool(td_control)
        BY <1>1
      <3> HIDE DEF m
      <3> QED BY <3>1, StartedPool
    <2> HIDE DEF a, n, x
    <2>6. Others(a, t, c) /\ t.conn[c].fd = a.conn[c].fd
      <3>1. j \in Clients /\ n \in Nat \ {0} /\ Pool(a)
        BY <2>1, <2>4, <2>5
      <3> HIDE DEF j, m
      <3> QED BY <3>1, Answering
    <2> HIDE DEF t
    <2>7. Others(td_control, t, c)
      BY <2>5, <2>6 DEF Others
    <2>8. a.conn[c].fd = td_control.conn[c].fd /\ t.conn[c].fd = td_control.conn[c].fd
      BY <2>1, <2>5, <2>6 DEF Connections
    <2> DEFINE now == Reading(j)
    <2> HIDE DEF now, no
    <2>9. ASSUME Settle(now, t, c, no) PROVE FALSE
      BY <1>0, <2>2, <2>7, <2>8, <2>9, OnlyOneCloses DEF now
    <2>10. ASSUME Settle(now, a, c, no) PROVE FALSE
      <3>1. Others(td_control, a, c)
        BY <2>5
      <3> QED BY <1>0, <2>2, <2>8, <2>10, <3>1, OnlyOneCloses DEF now
    <2> QED BY <2>3, <2>9, <2>10 DEF now
  <1>8. ASSUME phase = "check", handler_returns
        PROVE  FALSE
    <2> DEFINE c == Handler.conn
               j == Handler.asker
               excl == TRUE
               t == Ended(conn_write(td_control, c, j, 1), c, excl)
               no == FALSE
    <2>1. Settle(client, t, c, no)
      BY <1>8 DEF handler_returns
    <2>2. c \in Conns /\ j \in Clients
      BY <1>8, HandlerFacts DEF Frames
    <2> HIDE DEF c, j, excl
    <2>3. Others(td_control, t, c) /\ t.conn[c].fd = td_control.conn[c].fd
      <3>1. Pool(td_control) /\ 1 \in Nat \ {0}
        BY <1>1
      <3> QED BY <2>2, <3>1, Answering
    <2> HIDE DEF t, no
    <2> QED BY <1>0, <2>1, <2>2, <2>3, OnlyOneCloses
  <1>9. CASE nothing_to_accept \/ iterate_returns \/ wait
    BY <1>2, <1>9 DEF nothing_to_accept, iterate_returns, wait
  <1>10. CASE closed
    BY <1>1, <1>10 DEF closed
  <1>11. ASSUME NEW c \in Conns, drain(c) PROVE FALSE
    BY <1>1, <1>11 DEF drain
  <1>12. CASE done_waiting \/ gives_up
    BY <1>8, <1>12 DEF done_waiting, gives_up
  <1> QED BY <1>2, <1>3, <1>4, <1>5, <1>6, <1>7, <1>9, <1>10, <1>11, <1>12 DEF Next, Serving

(* While the server runs, the connection of a client that sent a complete  *)
(* request and stayed is not closed before something was sent to it        *)
(* (tapdisk_control_release_connection, tapdisk_ctl_conn_send_event).      *)
THEOREM ClosesAreHeard == Spec => NoSilentClose
  <1>1. IInv /\ [Next]_vars =>
          [\A k \in Clients :
              (client[k].sock = "open" /\ client'[k].sock = "off" /\ phase \notin {"closing", "exited"})
                  => client'[k].req = "answered"]_vars
    BY NoSilentStep DEF Silent
  <1> QED BY <1>1, Invariance, PTL DEF Spec, NoSilentClose
=============================================================================
