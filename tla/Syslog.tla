------------------------------- MODULE Syslog -------------------------------
(* The error log of tapdisk: drivers report errors through a rate limit     *)
(* (tapdisk-driver.c, tapdisk-loglimit.c) to a client of syslogd that never *)
(* blocks and has a ring for what syslogd does not take at once             *)
(* (tapdisk-log.c, tapdisk-syslog.c).                                       *)
(*                                                                          *)
(* A message is its number, its length and, for a warning of the client     *)
(* itself, how many messages it says were dropped; its text is len times    *)
(* the message.                                                             *)
EXTENDS Integers, Sequences

CONSTANTS
    RingSize,    \* log->ringsz
    Word,        \* prod and cons wrap on the range of size_t
    PacketMax,   \* TD_SYSLOG_PACKET_MAX
    Lens,        \* lengths of messages
    WarnLen,     \* the length of what the client itself says
    Room,        \* the receive buffer of syslogd, in messages
    Burst,       \* tapdisk_loglimit_init: burst
    Interval,    \* tapdisk_loglimit_init: interval, in ticks
    MaxErrors,   \* bound: errors of drivers
    MaxTime      \* bound: ticks

\* tapdisk-log.c asks for 8K: a packet to stage messages in, and seven of ring.
ASSUME SyslogAssumption ==
    /\ {RingSize, Word, PacketMax, WarnLen, Room, Burst, Interval, MaxErrors, MaxTime} \subseteq Nat
    /\ 1 < PacketMax /\ PacketMax < RingSize /\ RingSize < Word
    /\ Lens \subseteq 1 .. PacketMax /\ WarnLen \in 1 .. PacketMax

VARIABLES
    log,      \* td_syslog_t, with the socket: conn, out (all it was given), unread
    limit,    \* driver->loglimit, and when messages passed (passed)
    errors,   \* errors of drivers so far
    time,
    daemon    \* syslogd runs (up), was ever down (outage)

syslogVars == <<log, limit, errors, time, daemon>>

Nul  == [id |-> 0, len |-> 0, n |-> 0]
OK   == "0"
Text(m) == [i \in 1 .. (IF m.len = PacketMax THEN PacketMax - 1 ELSE m.len) |-> m]

\* tapdisk_syslog_vsprintf: a long text is cut for its 0, but not its length
Staged(m) == Append(Text(m), Nul)

\* tapdisk_syslog_open
SyslogInit ==
    /\ log = [ring |-> [i \in 0 .. RingSize - 1 |-> Nul], prod |-> 0, cons |-> 0,
              oom |-> 0, masked |-> TRUE, last |-> 0, closing |-> FALSE, open |-> TRUE,
              conn |-> "none", out |-> <<>>, unread |-> 0]
    /\ limit = [count |-> 0, dropped |-> 0, ts |-> 0, passed |-> <<>>]
    /\ errors = 0 /\ time = 0
    /\ daemon = [up |-> TRUE, outage |-> FALSE]
-----------------------------------------------------------------------------
(* The ring: new values of log                                             *)

Empty(s) == s.cons = s.prod
Used(s)  == (s.prod - s.cons) % Word
RING_FREE(s) == RingSize - Used(s)
RING_PTR(idx) == (idx % Word) % RingSize

Put(s, bytes) ==
    [s EXCEPT !.ring = [p \in 0 .. RingSize - 1 |->
                 IF \E i \in 1 .. Len(bytes) : RING_PTR(s.prod + i - 1) = p
                 THEN bytes[CHOOSE i \in 1 .. Len(bytes) : RING_PTR(s.prod + i - 1) = p]
                 ELSE @[p]],
              !.prod = (@ + Len(bytes)) % Word]

\* room is asked for the length, what is copied ends at the 0
ring_write_str(s, m) ==
    IF m.len + 1 > RING_FREE(s) THEN [s |-> s, err |-> "ENOBUFS"]
    ELSE [s |-> Put(s, Staged(m)), err |-> OK]

\* the bytes up to a 0, the end of the ring's contents or PacketMax
ring_read_pkt(s) ==
    LET upto == IF Used(s) < PacketMax THEN Used(s) ELSE PacketMax
        byte(i) == s.ring[RING_PTR(s.cons + i - 1)]
        ends == {i \in 1 .. upto : byte(i) = Nul}
    IN  [i \in 1 .. (IF ends = {} THEN upto ELSE CHOOSE e \in ends : \A f \in ends : e <= f) |-> byte(i)]

(* external: a datagram socket without a buffer of its own                 *)
sock_send(s, pkt) ==
    CASE s.conn = "none" -> [s |-> s, err |-> "ENOTCONN"]
      [] s.conn = "dead" -> [s |-> [s EXCEPT !.conn = "none"], err |-> "ECONNREFUSED"]
      [] s.conn = "live" /\ s.unread = Room -> [s |-> s, err |-> "EAGAIN"]
      [] OTHER -> [s |-> [s EXCEPT !.out = Append(@, pkt), !.unread = @ + 1], err |-> OK]

sock_connect(s) ==
    IF daemon.up THEN [s |-> [s EXCEPT !.conn = "live"], err |-> OK]
    ELSE [s |-> s, err |-> "ECONNREFUSED"]

\* busy: once a message was dropped all are, until the warning is out
queue_message(s, m) ==
    LET r == ring_write_str(s, m)
    IN  IF s.oom = 0 /\ r.err = OK THEN r
        ELSE [s |-> [s EXCEPT !.oom = @ + 1], err |-> "ENOBUFS"]

\* send: an unconnected socket is connected and tried again
send_message(s, m) ==
    LET pkt == SubSeq(Staged(m), 1, m.len)
        r   == sock_send(s, pkt)
        c   == sock_connect(s)
    IN  IF r.err # "ENOTCONN" THEN r ELSE IF c.err = OK THEN sock_send(c.s, pkt) ELSE c

\* mutant: messages are sent past the ring
vsyslog_overtakes(s, m) ==
    LET r == send_message(s, m)
    IN  IF r.err = "EAGAIN" THEN queue_message([r.s EXCEPT !.masked = FALSE], m) ELSE r

tapdisk_vsyslog(s, m) ==
    LET r == send_message(s, m)
    IN  IF ~Empty(s) THEN queue_message(s, m)
        ELSE IF r.err = "EAGAIN" THEN queue_message([r.s EXCEPT !.masked = FALSE], m) ELSE r

\* messages of others, numbered
tlog_syslog(s, len) ==
    tapdisk_vsyslog([s EXCEPT !.last = @ + 1], [id |-> s.last + 1, len |-> len, n |-> 0]).s

ring_warning(s) ==
    LET r == tapdisk_vsyslog([s EXCEPT !.oom = 0], [id |-> s.last, len |-> WarnLen, n |-> s.oom])
    IN  IF r.err = OK THEN r.s ELSE [r.s EXCEPT !.oom = s.oom]

\* what cannot be sent is discarded, but for EAGAIN
ring_dispatch_one(s) ==
    LET pkt == ring_read_pkt(s)
        r   == sock_send(s, SubSeq(pkt, 1, Len(pkt) - 1))
    IN  IF pkt = <<>> THEN [s |-> s, err |-> "ENOMSG"]
        ELSE IF r.err = "EAGAIN" THEN r
        ELSE [s |-> [r.s EXCEPT !.cons = (@ + Len(pkt)) % Word], err |-> OK]

\* what cannot be dispatched is left, and so is what follows: RingSize tries
\* are enough
dispatch_all(s) ==
    LET d[k \in 0 .. RingSize] == IF k = 0 THEN s ELSE ring_dispatch_one(d[k - 1]).s
    IN  d[RingSize]

\* mutant: what was dropped is forgotten
ring_dispatch_silent(s) == [dispatch_all(s) EXCEPT !.oom = 0]

ring_dispatch(s) ==
    LET d == dispatch_all(s) IN IF d.oom > 0 THEN ring_warning(d) ELSE d
-----------------------------------------------------------------------------
(* The rate limit                                                          *)

\* mutant: the time of the first burst is kept
loglimit_update_stale(rl) ==
    IF rl.ts + Interval < time THEN [rl EXCEPT !.count = 0] ELSE rl

\* tapdisk_loglimit_update_now
loglimit_update(rl) ==
    IF rl.ts + Interval < time THEN [rl EXCEPT !.count = 0, !.ts = time] ELSE rl

tapdisk_loglimit_pass(rl) ==
    LET now == IF rl.count >= Burst THEN loglimit_update(rl) ELSE rl
    IN  IF now.count >= Burst THEN [rl |-> [now EXCEPT !.dropped = @ + 1], pass |-> FALSE]
        ELSE [rl |-> [now EXCEPT !.count = @ + 1, !.passed = Append(@, time)], pass |-> TRUE]

\* tapdisk_driver_log_pass, and the message if it passes
driver_error(len) ==
    /\ log.open /\ ~log.closing /\ errors < MaxErrors
    /\ errors' = errors + 1
    /\ LET r == tapdisk_loglimit_pass(limit)
           flushed == IF limit.dropped > 0 THEN tlog_syslog(log, WarnLen) ELSE log
       IN  IF r.pass
           THEN /\ limit' = [r.rl EXCEPT !.dropped = 0]
                /\ log' = tlog_syslog(flushed, len)
           ELSE /\ limit' = r.rl
                /\ log' = IF limit.dropped = 0 THEN tlog_syslog(log, WarnLen) ELSE log
    /\ UNCHANGED <<time, daemon>>
-----------------------------------------------------------------------------
(* Events                                                                  *)

sock_event ==
    /\ log.open /\ ~log.masked
    /\ log.conn = "live" => log.unread < Room
    /\ LET d == ring_dispatch(log) IN log' = [d EXCEPT !.masked = Empty(d)]
    /\ UNCHANGED <<limit, errors, time, daemon>>

\* tlog_syslog_close: the statistics, then tapdisk_syslog_flush ..
tlog_close ==
    /\ log.open /\ ~log.closing
    /\ log' = [tlog_syslog(log, WarnLen) EXCEPT !.closing = TRUE]
    /\ UNCHANGED <<limit, errors, time, daemon>>

\* .. until nothing is left
syslog_close ==
    /\ log.open /\ log.closing /\ Empty(log)
    /\ log' = [log EXCEPT !.open = FALSE]
    /\ UNCHANGED <<limit, errors, time, daemon>>

syslogd_reads ==
    /\ daemon.up /\ log.unread > 0
    /\ log' = [log EXCEPT !.unread = @ - 1]
    /\ UNCHANGED <<limit, errors, time, daemon>>

syslogd_stops ==
    /\ daemon.up
    /\ daemon' = [up |-> FALSE, outage |-> TRUE]
    /\ log' = [log EXCEPT !.unread = 0, !.conn = IF @ = "live" THEN "dead" ELSE @]
    /\ UNCHANGED <<limit, errors, time>>

syslogd_starts ==
    /\ ~daemon.up
    /\ daemon' = [daemon EXCEPT !.up = TRUE]
    /\ UNCHANGED <<log, limit, errors, time>>

tick ==
    /\ time < MaxTime
    /\ time' = time + 1
    /\ UNCHANGED <<log, limit, errors, daemon>>

SyslogNext ==
    \/ \E len \in Lens : driver_error(len)
    \/ sock_event \/ tlog_close \/ syslog_close
    \/ syslogd_reads \/ syslogd_stops \/ syslogd_starts
    \/ tick

SyslogSpec == SyslogInit /\ [][SyslogNext]_syslogVars
-----------------------------------------------------------------------------
Whole(pkt) == pkt # <<>> /\ LET m == pkt[1] IN pkt \in {Text(m), SubSeq(Staged(m), 1, m.len)}

\* What the log is at after its k-th packet: the last message it accounts for.
Upto(k) == IF k = 0 THEN 0 ELSE log.out[k][1].id

(* What syslogd is given are whole messages, in the order they were logged, *)
(* however the ring wraps and whatever was dropped or discarded; and while  *)
(* the ring has something the socket is watched.                            *)
LogInOrder ==
    /\ \A j \in 1 .. Len(log.out) : Whole(log.out[j])
    /\ \A i, j \in 1 .. Len(log.out) :
         i < j /\ log.out[i][1].n = 0 /\ log.out[j][1].n = 0 => log.out[i][1].id < log.out[j][1].id
    /\ ~Empty(log) => ~log.masked

(* Unless syslogd was down, every message missing from the log is counted   *)
(* by a warning in its place: what comes next is the next message, or says  *)
(* how many there were since.  When the log is closed nothing is missing    *)
(* that was not reported.                                                   *)
GapsReported ==
    ~daemon.outage =>
        /\ \A j \in 1 .. Len(log.out) :
              LET m == log.out[j][1] IN m.id = Upto(j - 1) + (IF m.n = 0 THEN 1 ELSE m.n)
        /\ ~log.open => log.last = Upto(Len(log.out))

(* At most two bursts of errors of a driver pass in an interval.            *)
LimitKept ==
    \A i \in 1 .. Len(limit.passed) - 2 * Burst :
        limit.passed[i + 2 * Burst] > limit.passed[i] + Interval

(* The three together, which MCParts checks.                                *)
LogSound == LogInOrder /\ GapsReported /\ LimitKept
=============================================================================
