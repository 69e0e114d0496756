---- MODULE Ratelimit ----
(***************************************************************************)
(* Rate limiting: td-rated.c, the bridge, and block-valve.c, the driver    *)
(* that asks it for leave to write.                                        *)
(*                                                                         *)
(* A valve stores a write, tells the bridge what it needs, and forwards it *)
(* when the bridge has granted as much; it reports later what is done.     *)
(* The bridge grants what a token bucket allows, or, as long as memory is  *)
(* not congested, what is left below a mark for dirty memory.              *)
(*                                                                         *)
(* One unit of time is a microsecond, Second of them a second; sizes are   *)
(* small numbers.  The requests of a valve are kept on tail queues with    *)
(* their pointers, see Tailq: completing or resetting frees requests that  *)
(* stay on them.  A connection that is closed while it does not wait was   *)
(* never on the wait queue, and the bridge dies, or was, and stale         *)
(* pointers are written: the bridge is not followed any further.           *)
(***************************************************************************)
EXTENDS Integers, Sequences, SequencesExt, FiniteSets, Tailq

CONSTANTS
  Valves,     \* the valves
  Pool,       \* MAX_REQUESTS
  Sizes,      \* the sizes of writes
  Writes,     \* how many writes are made
  ConnMax,    \* RLB_CONN_MAX
  RequestMax, \* TD_RLB_REQUEST_MAX
  Kinds,      \* the kinds of bridge: "token", "meminfo"
  Rate, Cap,  \* of the token bucket
  Second,     \* microseconds in a second
  HiMark, LoMark, Dirty, Kilo, Period,  \* of meminfo: marks, what is read, the unit, the time between scans
  MaxTime,    \* how long the clock runs
  Ends        \* how often the bridge is stopped

VARIABLES
  bridge,     \* struct ratelimit_bridge, its conns and its bucket
  valve,      \* struct td_valve of every valve
  up,         \* what valves have sent
  down,       \* what the bridge has sent
  backlog,    \* connections not accepted yet
  flying,     \* forwarded requests
  time,
  granted,    \* history: what the bucket has given since it was full
  since,      \* history: when that was
  forwarded,  \* history: how often each write was forwarded
  refused,    \* history: the valves whose first connection either side ended over a message
  writes, ends

vars == <<bridge, valve, up, down, backlog, flying, time, granted, since, forwarded, refused, writes, ends>>

SumOf(s) == FoldSeq(LAMBDA x, y : x + y, 0, s)
Lesser(a, b) == IF a < b THEN a ELSE b

----------------------------------------------------------------------------
\* The bridge.  A connection is named by its valve.  s is the bridge with what
\* it does to the sockets: down, and the connections it has shut.
NoConn == [open |-> FALSE, need |-> 0, gntd |-> 0, waiting |-> FALSE, waited |-> FALSE]

\* The memory was last scanned at time 0, long ago.
rlb_create(kind, now) ==
  [up |-> TRUE, path |-> TRUE, lost |-> FALSE, kind |-> kind, open |-> <<>>, wait |-> <<>>,
   conn |-> [v \in Valves |-> NoConn], ts |-> now, now |-> now,
   cred |-> Cap, congested |-> FALSE, dirty |-> 0, scanned |-> now - Period - 1, bug |-> FALSE]

BUG_ON(s, p) == [s EXCEPT !.b.bug = @ \/ p]

\* rlb_conn_close takes the connection off the wait queue, whether it is there
\* or not.
rlb_conn_close(s, v) ==
  LET c == s.b.conn[v]
  IN  [s EXCEPT !.shut = @ \cup {v}, !.b.conn[v] = NoConn,
                !.b.open = SelectSeq(@, LAMBDA x : x # v), !.b.wait = SelectSeq(@, LAMBDA x : x # v),
                !.b.up = @ /\ (c.waiting \/ c.waited), !.b.lost = @ \/ (~c.waiting /\ c.waited)]

\* rlb_conn_receive: all that has arrived; a request that makes no sense closes
\* the connection.
RECURSIVE rlb_conn_receive(_, _, _)
rlb_conn_receive(s, v, msgs) ==
  LET c == s.b.conn[v]  m == Head(msgs)
      bad == m.need > RequestMax \/ m.done > c.gntd \/ c.need + m.need > RequestMax
      s1 == [s EXCEPT !.b.conn[v].need = @ + m.need, !.b.conn[v].gntd = @ - m.done]
      s2 == [s EXCEPT !.b.wait = Append(@, v), !.b.conn[v].waiting = TRUE, !.b.conn[v].waited = TRUE]
  IN  IF msgs = <<>> THEN (IF c.need > 0 /\ ~c.waiting THEN s2 ELSE s)
      ELSE IF bad THEN rlb_conn_close([s EXCEPT !.bad = @ \cup {v}], v)
      ELSE rlb_conn_receive(s1, v, Tail(msgs))

\* Writing to a connection that the valve has closed fails.
rlb_conn_respond(s, v, need) ==
  LET s0 == BUG_ON(s, need > s.b.conn[v].need)
      s1 == [s0 EXCEPT !.b.conn[v].need = @ - need, !.b.conn[v].gntd = @ + need,
                       !.down[v] = Append(@, need)]
  IN  IF s.closed[v] THEN rlb_conn_close(s0, v)
      ELSE IF s1.b.conn[v].need > 0 THEN s1
      ELSE [s1 EXCEPT !.b.wait = SelectSeq(@, LAMBDA x : x # v), !.b.conn[v].waiting = FALSE]

rlb_pending(b) == SumOf([i \in 1 .. Len(b.open) |-> b.conn[b.open[i]].gntd])

\* The time until the debt of the bucket is paid.
rlb_token_settimeo(b) == (-b.cred * Second) \div Rate

\* Mutant: what a part of a microsecond earns is rounded up.
rlb_token_refill_up(b) ==
  LET most == ((Cap - b.cred) * Second + Rate - 1) \div Rate
      gain == (Lesser(b.now - b.ts, most) * Rate + Second - 1) \div Second
  IN  [b EXCEPT !.cred = Lesser(@ + gain, Cap)]

rlb_token_refill(b) ==
  LET most == ((Cap - b.cred) * Second + Rate - 1) \div Rate
      gain == (Lesser(b.now - b.ts, most) * Rate) \div Second
  IN  [b EXCEPT !.cred = Lesser(@ + gain, Cap)]

\* As long as there is credit the connection that waits longest gets all it needs.
RECURSIVE token_loop(_, _)
token_loop(s, todo) ==
  IF todo = <<>> \/ s.b.cred < 0 THEN s
  ELSE LET v == Head(todo)  need == s.b.conn[v].need
       IN  token_loop(rlb_conn_respond([s EXCEPT !.b.cred = @ - need, !.given = @ + need], v, need), Tail(todo))

rlb_token_dispatch(s) ==
  LET s1 == [s EXCEPT !.b = rlb_token_refill(s.b)]
  IN  token_loop([s1 EXCEPT !.full = @ \/ s1.b.cred = Cap], s1.b.wait)

rlb_token_reset(s) == [s EXCEPT !.b.cred = Cap, !.full = TRUE]

\* With meminfo the bucket is used only while memory is congested, and reset
\* when it gets so.
rlb_meminfo_test_high(s, cred) ==
  IF s.b.congested THEN [s EXCEPT !.b.congested = cred < LoMark]
  ELSE IF cred <= 0 THEN [rlb_token_reset(s) EXCEPT !.b.congested = TRUE]
  ELSE s

\* Mutant: congestion is not looked at again after the grants.
rlb_meminfo_test_again_never(s, cred) == s

rlb_meminfo_test_again(s, cred) == rlb_meminfo_test_high(s, cred)

RECURSIVE rlb_meminfo_dispatch_low(_, _, _)
rlb_meminfo_dispatch_low(s, todo, cred) ==
  IF todo = <<>> \/ cred <= 0 THEN rlb_meminfo_test_again(s, cred)
  ELSE LET v == Head(todo)  grant == Lesser(cred, s.b.conn[v].need)
       IN  rlb_meminfo_dispatch_low(rlb_conn_respond(s, v, grant), Tail(todo), cred - grant)

rlb_meminfo_scan(b, dirty) == IF b.now - b.scanned > Period THEN [b EXCEPT !.dirty = dirty, !.scanned = b.now] ELSE b

rlb_meminfo_dispatch(s0, dirty) ==
  LET s == [s0 EXCEPT !.b = rlb_meminfo_scan(s0.b, dirty)]
      cred == (HiMark - s.b.dirty) * Kilo - rlb_pending(s.b)
      s1 == rlb_meminfo_test_high(s, cred)
      s2 == IF s1.b.congested THEN s1 ELSE rlb_meminfo_dispatch_low(s1, s1.b.wait, cred)
  IN  IF s2.b.congested THEN rlb_token_dispatch(s2) ELSE s2

dispatch(s, dirty) == IF s.b.kind = "token" THEN rlb_token_dispatch(s) ELSE rlb_meminfo_dispatch(s, dirty)

\* rlb_meminfo_timeout leaves out everything but the bucket.
timeout(s) == IF s.b.kind = "meminfo" /\ ~s.b.congested THEN s ELSE rlb_token_dispatch(s)

\* settimeo: whether there is a timeout, before the time it takes is known.
Timed(b) == b.wait # <<>> /\ (b.kind = "meminfo" => b.congested)

Closed(v) == ~valve[v].sock
Readable(v) == up[v] # <<>> \/ Closed(v)

RECURSIVE receive_all(_, _)
receive_all(s, todo) ==
  IF todo = <<>> THEN s
  ELSE LET v == Head(todo)
       IN  receive_all(IF up[v] # <<>> THEN [rlb_conn_receive(s, v, up[v]) EXCEPT !.read = @ \cup {v}]
                       ELSE IF Closed(v) THEN rlb_conn_close(s, v) ELSE s, Tail(todo))

\* accept: with no connection free it is closed at once.
rlb_accept_conn(s) ==
  IF backlog = <<>> THEN s
  ELSE LET v == Head(backlog)
       IN  IF Len(s.b.open) >= ConnMax THEN [s EXCEPT !.shut = @ \cup {v}]
           ELSE [s EXCEPT !.b.open = Append(@, v), !.b.conn[v] = [NoConn EXCEPT !.open = TRUE]]

Alive(b) == b.up /\ ~b.lost /\ ~b.bug

\* What the valves see of the bridge's step.  A bridge that dies closes all.
Seen(s, accepted) ==
  LET gone == IF s.b.up THEN s.shut ELSE Valves
  IN  /\ bridge' = s.b
      /\ down' = [v \in Valves |-> s.down[v] \o (IF v \in gone /\ valve[v].sock THEN <<-1>> ELSE <<>>)]
      /\ up' = [v \in Valves |-> IF v \in s.read \cup gone THEN <<>> ELSE up[v]]
      /\ backlog' = IF ~s.b.up THEN <<>> ELSE IF accepted THEN Tail(backlog) ELSE backlog
      /\ granted' = IF s.full THEN s.given ELSE granted + s.given
      /\ since' = IF s.full THEN s.b.now ELSE since
      /\ refused' = refused \cup {v \in s.bad : ~valve[v].again}

S(b) == [b |-> b, down |-> down, shut |-> {}, read |-> {}, given |-> 0, full |-> FALSE, bad |-> {},
         closed |-> [v \in Valves |-> Closed(v)]]

\* rlb_main_iterate: what is ready is received, then what can be is granted, then
\* one connection is accepted; or the time has passed.
iterate ==
  /\ Alive(bridge)
  /\ backlog # <<>> \/ \E i \in 1 .. Len(bridge.open) : Readable(bridge.open[i])
  /\ \E dirty \in Dirty :
       LET s == S([bridge EXCEPT !.ts = bridge.now, !.now = time])
           s1 == dispatch(receive_all(s, bridge.open), dirty)
       IN  Seen(rlb_accept_conn(s1), backlog # <<>>)
  /\ UNCHANGED <<valve, flying, time, forwarded, writes, ends>>

iterate_timeout ==
  /\ Alive(bridge) /\ Timed(bridge) /\ time >= bridge.now + rlb_token_settimeo(bridge)
  /\ ~(backlog # <<>> \/ \E i \in 1 .. Len(bridge.open) : Readable(bridge.open[i]))
  /\ Seen(timeout(S([bridge EXCEPT !.ts = bridge.now, !.now = time])), FALSE)
  /\ UNCHANGED <<valve, flying, time, forwarded, writes, ends>>

RECURSIVE close_all(_, _)
close_all(s, todo) == IF todo = <<>> THEN s ELSE close_all(rlb_conn_close(s, Head(todo)), Tail(todo))

\* SIGTERM: rlb_shutdown closes every connection and unlinks the socket, if it
\* gets that far.  To bound the model this happens after the last write was made.
shutdown ==
  /\ Alive(bridge) /\ writes = Writes /\ ends < Ends /\ ends' = ends + 1
  /\ LET s == close_all(S(bridge), bridge.open)
     IN  Seen([s EXCEPT !.b.up = FALSE, !.b.path = ~s.b.up, !.shut = Valves], FALSE)
  /\ UNCHANGED <<valve, flying, time, forwarded, writes>>

\* A bridge is started again: bind fails when the socket is still there.
start ==
  /\ ~bridge.up /\ ~bridge.path
  /\ bridge' = rlb_create(bridge.kind, time)
  /\ granted' = 0 /\ since' = time
  /\ UNCHANGED <<valve, up, down, backlog, flying, time, forwarded, refused, writes, ends>>

tick == time < MaxTime /\ time' = time + 1 /\ UNCHANGED <<bridge, valve, up, down, backlog, flying, granted, since, forwarded, refused, writes, ends>>

----------------------------------------------------------------------------
\* The valve.  w is the valve with what it does: the messages it sends, what it
\* forwards, and whether it connects.  Queue 1 is stor, queue 2 is forw.
Stor == 1
Forw == 2
valve_init ==
  [sock |-> FALSE, killed |-> FALSE, retry |-> FALSE, cred |-> 0, need |-> 0, done |-> 0, pend |-> FALSE, again |-> FALSE,
   q |-> TAILQ_INIT(Pool, 2), free |-> [i \in 1 .. Pool |-> Pool + 1 - i], panic |-> FALSE,
   req |-> [r \in 1 .. Pool |-> [id |-> 0, size |-> 0, left |-> 0]]]

Panic(w, p) == [w EXCEPT !.v.panic = @ \/ p]
Listening == bridge.up /\ ~bridge.lost

valve_sock_open(w) ==
  [w EXCEPT !.v.sock = TRUE, !.v.cred = 0, !.v.need = 0, !.v.done = 0, !.v.pend = FALSE, !.connect = TRUE]
valve_schedule_retry(w) == [Panic(w, w.v.sock) EXCEPT !.v.retry = TRUE]
valve_conn_open(w) ==
  IF Listening THEN valve_sock_open(Panic(w, w.v.killed)) ELSE valve_schedule_retry(Panic(w, w.v.killed))

valve_free_request(w, r) ==
  IF Len(w.v.free) >= Pool THEN Panic(w, TRUE) ELSE [w EXCEPT !.v.free = Append(@, r)]

\* td_forward_request, with the callback of the valve (r) or of the caller (0).
forward(w, id, size, r) == [w EXCEPT !.fly = Append(@, [id |-> id, size |-> size, r |-> r])]

\* valve_conn_close forwards what is stored and frees it; it stays on the queue.
RECURSIVE reset_stored(_, _)
reset_stored(w, rs) ==
  IF rs = <<>> THEN w
  ELSE LET r == Head(rs)
       IN  reset_stored(valve_free_request(forward(w, w.v.req[r].id, w.v.req[r].size, 0), r), Tail(rs))

valve_sock_close(w) == [w EXCEPT !.v.sock = FALSE, !.v.again = TRUE, !.v.pend = FALSE, !.connect = FALSE, !.drop = TRUE]
valve_conn_close(w) ==
  LET rs == TAILQ_FOREACH(w.v.q, Stor)
      w1 == valve_sock_close(w)
  IN  IF Len(rs) > Pool THEN Panic(w1, TRUE) ELSE reset_stored(w1, rs)
valve_conn_reset(w) == valve_conn_open(valve_conn_close(w))
valve_kill(w) == valve_conn_close([w EXCEPT !.v.killed = TRUE])

\* Sending fails when the bridge has closed the connection.
valve_conn_request(w, size) ==
  LET w1 == [w EXCEPT !.v.need = @ + size, !.v.done = 0, !.v.pend = FALSE]
  IN  IF w.dead THEN valve_conn_reset(w1)
      ELSE [w1 EXCEPT !.send = Append(@, [need |-> size, done |-> w.v.done])]

valve_conn_receive(w, msgs) ==
  LET got == SelectSeq(msgs, LAMBDA x : x # -1)
      cred == SumOf(got)
  IN  IF got = <<>> THEN valve_conn_reset(w)
      ELSE IF \E i \in 1 .. Len(got) : got[i] >= RequestMax THEN valve_kill([w EXCEPT !.bad = TRUE])
      ELSE IF cred > w.v.need THEN valve_conn_reset([w EXCEPT !.bad = TRUE])
      ELSE [w EXCEPT !.v.cred = @ + cred, !.v.need = @ - cred]

\* valve_expend_request
Limited(v) == ~v.killed /\ v.sock
CanExpend(v, size) == ~Limited(v) \/ v.cred >= size
valve_expend_request(w, size) == IF Limited(w.v) THEN [w EXCEPT !.v.cred = @ - size] ELSE w

\* Mutant: a request is forwarded without its credit being spent.
forward_first_free(w, r) ==
  LET w1 == forward(w, w.v.req[r].id, w.v.req[r].size, r)
  IN  [w1 EXCEPT !.v.q = TAILQ_MOVE_HEAD(@, r, Stor, Forw)]

forward_first(w, r) ==
  LET w1 == forward(valve_expend_request(w, w.v.req[r].size), w.v.req[r].id, w.v.req[r].size, r)
  IN  [w1 EXCEPT !.v.q = TAILQ_MOVE_HEAD(@, r, Stor, Forw)]

RECURSIVE valve_forward_stored_requests(_, _, _)
valve_forward_stored_requests(w, r, fuel) ==
  IF r = 0 \/ w.v.panic THEN w
  ELSE IF fuel = 0 THEN Panic(w, TRUE)
  ELSE IF ~CanExpend(w.v, w.v.req[r].size) THEN w
  ELSE valve_forward_stored_requests(forward_first(w, r), TAILQ_NEXT(w.v.q, r), fuel - 1)

valve_store_request(w, id, size) ==
  LET r == Last(w.v.free)
      w1 == valve_conn_request([w EXCEPT !.v.free = Front(@)], size)
  IN  [w1 EXCEPT !.v.req[r] = [id |-> id, size |-> size, left |-> size],
                 !.v.q = TAILQ_INSERT_TAIL(@, Stor, r)]

td_valve_queue_request(w, id, size) ==
  IF CanExpend(w.v, size) THEN forward(valve_expend_request(w, size), id, size, 0)
  ELSE IF w.v.free = <<>> THEN w
  ELSE valve_store_request(w, id, size)

\* __valve_complete_treq: k sectors are done; the model completes them all at once.
complete_treq(w, r, k) ==
  LET w1 == [Panic(w, w.v.req[r].left < k) EXCEPT !.v.req[r].left = @ - k, !.v.done = @ + k, !.v.pend = TRUE]
  IN  IF w1.v.req[r].left = 0 THEN valve_free_request(w1, r) ELSE w1

----------------------------------------------------------------------------
W(v) == [v |-> valve[v], fly |-> <<>>, send |-> <<>>, connect |-> FALSE, drop |-> FALSE, bad |-> FALSE,
         dead |-> Contains(down[v], -1)]

\* What a step of valve v does to its socket.  Data a closed socket still holds
\* can be read by the bridge.
Done(v, w, gone) ==
  /\ valve' = [valve EXCEPT ![v] = w.v]
  /\ up' = [up EXCEPT ![v] = IF w.drop THEN <<>> ELSE @ \o w.send]
  /\ backlog' = (IF w.drop THEN SelectSeq(backlog, LAMBDA x : x # v) ELSE backlog) \o (IF w.connect THEN <<v>> ELSE <<>>)
  /\ flying' = (flying \ gone) \cup {[v |-> v, id |-> w.fly[i].id, left |-> w.fly[i].size, r |-> w.fly[i].r, n |-> i] : i \in 1 .. Len(w.fly)}
  /\ forwarded' = [id \in DOMAIN forwarded |-> forwarded[id] + Cardinality({i \in 1 .. Len(w.fly) : w.fly[i].id = id})]
  /\ refused' = IF w.bad /\ ~valve[v].again THEN refused \cup {v} ELSE refused

Works(v) == ~valve[v].panic
\* A connection the valve has left must be closed by the bridge before the next.
Gone(v) == ~bridge.conn[v].open

td_valve_open(v) ==
  /\ Works(v) /\ ~valve[v].sock /\ ~valve[v].retry /\ ~valve[v].killed /\ Gone(v)
  /\ Done(v, valve_conn_open(W(v)), {})
  /\ down' = [down EXCEPT ![v] = <<>>]
  /\ UNCHANGED <<bridge, time, granted, since, writes, ends>>

retry_timeout(v) ==
  /\ Works(v) /\ valve[v].retry /\ Listening /\ Gone(v)
  /\ Done(v, valve_sock_open([W(v) EXCEPT !.v.retry = FALSE]), {})
  /\ down' = [down EXCEPT ![v] = <<>>]
  /\ UNCHANGED <<bridge, time, granted, since, writes, ends>>

queue_write(v) ==
  /\ Works(v) /\ writes < Writes /\ writes' = writes + 1
  /\ \E size \in Sizes :
       LET w == td_valve_queue_request(W(v), writes + 1, size)
       IN  Done(v, w, {}) /\ down' = IF w.drop THEN [down EXCEPT ![v] = <<>>] ELSE down
  /\ UNCHANGED <<bridge, time, granted, since, ends>>

sock_event(v) ==
  /\ Works(v) /\ valve[v].sock /\ down[v] # <<>>
  /\ LET w == valve_conn_receive(W(v), down[v])
         w1 == valve_forward_stored_requests(w, TAILQ_FIRST(w.v.q, Stor), Pool + 1)
     IN  /\ Done(v, w1, {})
         /\ down' = [down EXCEPT ![v] = IF w1.drop \/ ~Contains(@, -1) THEN <<>> ELSE <<-1>>]
  /\ UNCHANGED <<bridge, time, granted, since, writes, ends>>

\* __valve_sched_event reports what is done.
sched_event(v) ==
  /\ Works(v) /\ valve[v].pend /\ valve[v].sock
  /\ LET w == valve_conn_request(W(v), 0)
     IN  Done(v, w, {}) /\ down' = IF w.drop THEN [down EXCEPT ![v] = <<>>] ELSE down
  /\ UNCHANGED <<bridge, time, granted, since, writes, ends>>

complete(v) ==
  /\ Works(v)
  /\ \E f \in flying :
       /\ f.v = v
       /\ valve' = [valve EXCEPT ![v] = IF f.r = 0 THEN @ ELSE complete_treq(W(v), f.r, f.left).v]
       /\ flying' = flying \ {f}
  /\ UNCHANGED <<bridge, up, down, backlog, time, granted, since, forwarded, refused, writes, ends>>

td_valve_close(v) ==
  /\ Works(v) /\ valve[v].sock /\ writes = Writes /\ ~\E f \in flying : f.v = v
  /\ TAILQ_EMPTY(valve[v].q, Stor)
  /\ valve' = [valve EXCEPT ![v] = [valve_sock_close(W(v)).v EXCEPT !.killed = TRUE]]
  /\ backlog' = SelectSeq(backlog, LAMBDA x : x # v)
  /\ down' = [down EXCEPT ![v] = <<>>]
  /\ UNCHANGED <<bridge, up, flying, time, granted, since, forwarded, refused, writes, ends>>

Init ==
  /\ \E kind \in Kinds : bridge = rlb_create(kind, 0)
  /\ valve = [v \in Valves |-> valve_init]
  /\ up = [v \in Valves |-> <<>>] /\ down = [v \in Valves |-> <<>>] /\ backlog = <<>> /\ flying = {}
  /\ time = 0 /\ granted = 0 /\ since = 0 /\ forwarded = [id \in 1 .. Writes |-> 0] /\ refused = {}
  /\ writes = 0 /\ ends = 0

Next ==
  \/ iterate \/ iterate_timeout \/ shutdown \/ start \/ tick
  \/ \E v \in Valves : \/ td_valve_open(v) \/ retry_timeout(v) \/ queue_write(v) \/ sock_event(v)
                       \/ sched_event(v) \/ complete(v) \/ td_valve_close(v)

Spec == Init /\ [][Next]_vars

----------------------------------------------------------------------------
\* The token bucket lets no more through than its capacity and what its rate has
\* earned since it was full; a debt is credit that was given in advance, and is
\* paid before anyone is served again.  Nor does less come back: what was given is
\* earned again at the rate, of which a step loses the part of a unit, as long as
\* the bucket is what limits.
RateKept ==
  /\ granted + bridge.cred <= Cap + (Rate * (bridge.now - since)) \div Second
  /\ bridge.kind = "token" \/ bridge.congested =>
        granted + bridge.cred >= Cap + (Rate \div Second) * (bridge.now - since)

\* The bridge sleeps only when there is nobody to serve: while a connection waits
\* the bucket is in debt and, with meminfo, memory is congested, so that there is
\* a time to wake up at.
SleepsSafely ==
  Alive(bridge) /\ bridge.wait # <<>> => bridge.cred < 0 /\ (bridge.kind = "meminfo" => bridge.congested)

\* Valve and bridge agree on what is needed and granted, so that neither refuses
\* a message of the other.  This is so for the first connection of a valve: on a
\* later one it reports what it was granted on an earlier one.
NeverRefused == refused = {}

\* A write is stored or was forwarded, and not both, and none is lost, unless the
\* bridge went away, after which writes that were forwarded are still stored.
ForwardedOnce ==
  (\A v \in Valves : ~valve[v].again) =>
      \A id \in 1 .. writes :
          LET kept(v) == {r \in ToSet(TAILQ_FOREACH(valve[v].q, Stor)) : valve[v].req[r].id = id}
          IN  forwarded[id] + Cardinality(UNION {{v} \X kept(v) : v \in Valves}) = 1
====
