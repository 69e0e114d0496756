------------------------------ MODULE Control ------------------------------
(***************************************************************************)
(* The control interface of tapdisk: tapdisk-control.c.                    *)
(*                                                                         *)
(* Clients (tap-ctl) connect, send one request and read the answer.  The   *)
(* server has a pool of connections.  Handlers run in the scheduler; those *)
(* of PAUSE and CLOSE wait by running the scheduler again from within, so  *)
(* that connections come and go, and are reused, under a waiting handler.  *)
(* What PAUSE and CLOSE wait for is modelled in Vbd; here it is a choice.  *)
(***************************************************************************)
EXTENDS Integers, FiniteSets, SequencesExt

CONSTANTS
    Conns,         \* td_control.__conn, TD_CTL_MAX_CONNECTIONS of them
    Clients,
    Vbds,
    Requests,      \* the kinds of messages clients send
    OutRoom,       \* messages that fit into TD_CTL_SEND_BUFSZ
    Enotty,        \* BLKTAP_IOCTL_REMOVE_DEVICE is not implemented
    NONE

ASSUME ControlAssumption ==
    /\ IsFiniteSet(Conns) /\ Conns # {} /\ NONE \notin Conns
    /\ IsFiniteSet(Clients) /\ NONE \notin Clients
    /\ IsFiniteSet(Vbds)
    /\ Requests \subseteq {"pid", "list", "attach", "open", "pause", "resume", "close", "detach", "bad"}
    /\ OutRoom \in Nat \ {0} /\ Enotty \in BOOLEAN

VARIABLES
    td_control,    \* conn, order (the array td_control.conn), n_conn, busy,
                   \* masked (the accept event)
    client,        \* sock, req, msg (unread), again (a second unread request)
    vbd,           \* absent, attached or open
    frames,        \* the handlers that wait, innermost last
    phase,         \* of the innermost tapdisk_server_iterate
    run,           \* server.run
    crash          \* why tapdisk died

vars == <<td_control, client, vbd, frames, phase, run, crash>>

(* requests by what their handlers do: pid also stands for STATS and       *)
(* XENBLKIF_DISCONNECT, resume for XENBLKIF_CONNECT and DISK_INFO          *)
Reenter  == {"pid", "list"}
Blocking == {"pause", "close"}

MaxConns == Cardinality(Conns)
NewConn == [fd |-> NONE, out |-> <<>>, done |-> FALSE, in_event |-> FALSE,
            busy |-> FALSE, info |-> FALSE, cut |-> FALSE]

(* tapdisk_control_initialize                                              *)
Init ==
    /\ td_control = [conn |-> [c \in Conns |-> NewConn], order |-> SetToSeq(Conns),
                     n_conn |-> 0, busy |-> FALSE, masked |-> FALSE]
    /\ client = [k \in Clients |-> [sock |-> "off", req |-> "none", msg |-> NONE, again |-> FALSE]]
    /\ vbd = [v \in Vbds |-> "absent"]
    /\ frames = <<>> /\ phase = "select" /\ run = TRUE /\ crash = NONE
-----------------------------------------------------------------------------
(* Connections: new values of td_control                                   *)

(* mutant: the last connection on the array is taken for the freed one     *)
conn_free_last(s, c) == [s EXCEPT !.n_conn = @ - 1]

(* the freed connection is moved behind the active ones                    *)
conn_free(s, c) ==
    [s EXCEPT !.n_conn = @ - 1,
              !.order = LET n == s.n_conn
                            p == CHOOSE i \in 1 .. n : s.order[i] = c
                        IN  [i \in 1 .. MaxConns |-> IF i < p \/ i > n THEN s.order[i]
                                                   ELSE IF i = n THEN c ELSE s.order[i + 1]]]

(* mutant: a connection that is closed already is freed again              *)
conn_close_twice(s, c) == conn_free([s EXCEPT !.conn[c].fd = NONE, !.masked = FALSE], c)

conn_close(s, c) ==
    IF s.conn[c].fd = NONE THEN s
    ELSE conn_free([s EXCEPT !.conn[c].fd = NONE, !.masked = FALSE], c)

(* mutant: a released connection is closed with output pending             *)
conn_release_closes(s, c) == conn_close([s EXCEPT !.conn[c].done = TRUE], c)

conn_release(s, c) ==
    LET released == [s EXCEPT !.conn[c].done = TRUE]
    IN  IF s.conn[c].out = <<>> THEN conn_close(released, c) ELSE released

release_connection(s, c) == conn_release([s EXCEPT !.conn[c].in_event = FALSE], c)

(* send what there is, as far as the client takes it, and close            *)
close_connection(s, c) ==
    conn_close([release_connection(s, c) EXCEPT !.conn[c].out = <<>>], c)

(* n messages for client k; what does not fit is cut off                   *)
conn_write(s, c, k, n) ==
    LET room == OutRoom - Len(s.conn[c].out)
    IN  [s EXCEPT !.conn[c].out = @ \o [i \in 1 .. (IF n < room THEN n ELSE room) |-> k],
                  !.conn[c].cut = @ \/ n > room]

conn_open(s, c, k) ==
    [s EXCEPT !.conn[c].fd = k, !.conn[c].out = <<>>, !.conn[c].cut = FALSE,
              !.n_conn = @ + 1,
              !.masked = s.n_conn + 1 >= MaxConns]

(* an action ends with s; what connection c had to send is received by its *)
(* client (now is client but for that), and clients whose connections were *)
(* closed know it                                                          *)
Settle(now, s, c, sent) ==
    /\ td_control' = s
    /\ client' = [k \in Clients |->
          LET had == \E d \in Conns : td_control.conn[d].fd = k
              has == \E d \in Conns : s.conn[d].fd = k
              got == sent /\ s.conn[c].out = <<>> /\ td_control.conn[c].fd = k
          IN  [now[k] EXCEPT
                 !.req  = IF got /\ now[k].sock = "open" THEN "answered" ELSE @,
                 !.sock = IF had /\ ~has THEN "off" ELSE @]]
-----------------------------------------------------------------------------
(* Clients (external)                                                      *)

connect(k) ==
    /\ client[k].sock = "off"
    /\ client' = [client EXCEPT ![k] = [sock |-> "backlog", req |-> "none", msg |-> NONE, again |-> FALSE]]
    /\ UNCHANGED <<td_control, vbd, frames, phase, run, crash>>

send(k, m) ==
    /\ client[k].sock = "open"
    /\ \/ /\ client[k].req = "none"
          /\ client' = [client EXCEPT ![k].req = "sent", ![k].msg = m]
       \/ /\ client[k].req = "read" /\ ~client[k].again
          /\ client' = [client EXCEPT ![k].again = TRUE]
    /\ UNCHANGED <<td_control, vbd, frames, phase, run, crash>>

hangup(k) ==
    /\ client[k].sock = "open"
    /\ client' = [client EXCEPT ![k].sock = "gone"]
    /\ UNCHANGED <<td_control, vbd, frames, phase, run, crash>>
-----------------------------------------------------------------------------
(* tapdisk_server_iterate: the accept event is the first of the list, the  *)
(* events of connections come later                                        *)

Alive == crash = NONE

(* with all connections taken, accept would close the client's socket      *)
accept(k) ==
    /\ Alive /\ phase = "select"
    /\ ~td_control.masked /\ client[k].sock = "backlog"
    /\ LET full == td_control.n_conn >= MaxConns
           c    == td_control.order[td_control.n_conn + 1]
       IN
        /\ td_control' = IF full THEN td_control
                         ELSE [conn_open(td_control, c, k) EXCEPT !.conn[c].in_event = TRUE]
        /\ client' = [client EXCEPT ![k].sock = IF full THEN "off" ELSE "open"]
    /\ phase' = "events"
    /\ UNCHANGED <<vbd, frames, run, crash>>

nothing_to_accept ==
    /\ Alive /\ phase = "select"
    /\ phase' = "events"
    /\ UNCHANGED <<td_control, client, vbd, frames, run, crash>>

(* out events: all is sent, or sending fails; an output buffer of a closed *)
(* connection has no event                                                 *)
conn_send_event(c) ==
    /\ Alive /\ phase = "events"
    /\ td_control.conn[c].fd # NONE /\ td_control.conn[c].out # <<>>
    /\ LET k    == td_control.conn[c].fd
           sent == [td_control EXCEPT !.conn[c].out = <<>>]
       IN  Settle(client,
                  IF td_control.conn[c].done \/ client[k].sock = "gone"
                  THEN conn_close(sent, c) ELSE sent,
                  c, TRUE)
    /\ UNCHANGED <<vbd, frames, phase, run, crash>>

iterate_returns ==
    /\ Alive /\ phase = "events"
    /\ phase' = IF frames # <<>> THEN "check" ELSE IF run THEN "select" ELSE "closing"
    /\ UNCHANGED <<td_control, client, vbd, frames, run, crash>>
-----------------------------------------------------------------------------
(* tapdisk_control_handle_request                                          *)

Readable(c) ==
    /\ Alive /\ phase = "events"
    /\ td_control.conn[c].in_event
    /\ td_control.conn[c].fd # NONE

(* mutant: requests on other connections are not kept out                  *)
excluded_never(c, m) == td_control.conn[c].busy

(* busy                                                                    *)
excluded(c, m) == td_control.conn[c].busy \/ (m \notin Reenter /\ m # "bad" /\ td_control.busy)

Unread(k) == client[k].req = "sent" \/ client[k].again

(* the client hung up; clients send whole messages, whose rest the code    *)
(* would wait 2 s for                                                      *)
read_fails(c) ==
    /\ Readable(c)
    /\ LET k == td_control.conn[c].fd IN client[k].sock = "gone" /\ ~Unread(k)
    /\ Settle(client, close_connection(td_control, c), c, FALSE)
    /\ UNCHANGED <<vbd, frames, phase, run, crash>>

(* the error message is written with the flags of conn->info, which is     *)
(* NULL until a request was handled on this connection                     *)
reject(c) ==
    /\ Readable(c)
    /\ LET k == td_control.conn[c].fd IN
        /\ Unread(k)
        /\ excluded(c, client[k].msg) \/ client[k].msg = "bad"
        /\ \/ /\ ~td_control.conn[c].info
              /\ crash' = "info"
              /\ UNCHANGED <<td_control, client>>
           \/ /\ td_control.conn[c].info
              /\ Settle(client, close_connection(conn_write(td_control, c, k, 1), c), c, TRUE)
              /\ UNCHANGED crash
    /\ UNCHANGED <<vbd, frames, phase, run>>

Attached == {v \in Vbds : vbd[v] # "absent"}

(* what the handlers that do not wait do to vbds; any may fail             *)
Effect(m, v) ==
    \/ UNCHANGED <<vbd, run>>
    \/ /\ m = "attach" /\ vbd[v] = "absent"
       /\ vbd' = [vbd EXCEPT ![v] = "attached"] /\ UNCHANGED run
    \/ /\ m = "open" /\ vbd[v] = "attached"
       /\ vbd' = [vbd EXCEPT ![v] = "open"] /\ UNCHANGED run
    \/ /\ m = "detach" /\ vbd[v] = "attached"
       /\ vbd' = [vbd EXCEPT ![v] = "absent"]
       /\ run' = (run /\ Attached # {v})

Started(s, c, m) == [s EXCEPT !.conn[c].busy = TRUE, !.conn[c].info = TRUE,
                              !.busy = @ \/ m \notin Reenter]
Ended(s, c, excl) == release_connection([s EXCEPT !.conn[c].busy = FALSE,
                                                  !.busy = @ /\ ~excl], c)

Reading(k) == [client EXCEPT ![k].req = "read", ![k].msg = NONE]

handle_request(c, v) ==
    /\ Readable(c)
    /\ LET k == td_control.conn[c].fd
           m == client[k].msg
           n == IF m = "list" THEN Cardinality(Attached) + 1 ELSE 1
       IN
        /\ client[k].req = "sent" /\ m # "bad" /\ ~excluded(c, m)
        /\ \/ /\ m \notin Blocking \/ vbd[v] = "absent"
              /\ Settle(Reading(k), Ended(conn_write(Started(td_control, c, m), c, k, n), c, m \notin Reenter), c, FALSE)
              /\ Effect(m, v)
              /\ UNCHANGED <<frames, phase>>
           \/ /\ m \in Blocking /\ vbd[v] # "absent"
              /\ Settle(Reading(k), Started(td_control, c, m), c, FALSE)
              /\ frames' = Append(frames, [conn |-> c, asker |-> k, msg |-> m, vbd |-> v, iterated |-> FALSE])
              /\ phase' = "check"
              /\ UNCHANGED <<vbd, run>>
    /\ UNCHANGED crash
-----------------------------------------------------------------------------
(* The loops of tapdisk_control_pause_vbd and tapdisk_control_close_image  *)

Handler == Last(frames)

(* mutant: the loops do not notice that the client hung up                 *)
hung_up_ignored == FALSE

(* while (conn->fd >= 0); the loop for ENOTTY does not look                *)
hung_up ==
    /\ Handler.iterated
    /\ ~(Handler.msg = "close" /\ Enotty)
    /\ td_control.conn[Handler.conn].fd = NONE

(* not quiesced, EBUSY, or requests pending                                *)
wait ==
    /\ Alive /\ phase = "check" /\ ~hung_up
    /\ frames' = [frames EXCEPT ![Len(frames)].iterated = TRUE]
    /\ phase' = "select"
    /\ UNCHANGED <<td_control, client, vbd, run, crash>>

(* the answer is written and the connection released, whoever has it now   *)
handler_returns ==
    /\ Settle(client, Ended(conn_write(td_control, Handler.conn, Handler.asker, 1), Handler.conn, TRUE),
              Handler.conn, FALSE)
    /\ frames' = Front(frames)
    /\ phase' = "events"
    /\ UNCHANGED <<run, crash>>

(* what the handler waits for is there                                     *)
done_waiting ==
    /\ Alive /\ phase = "check" /\ ~hung_up
    /\ vbd' = IF Handler.msg = "close" THEN [vbd EXCEPT ![Handler.vbd] = "attached"] ELSE vbd
    /\ handler_returns

(* the client hung up, or the device cannot be removed                     *)
gives_up ==
    /\ Alive /\ phase = "check"
    /\ hung_up \/ ~Enotty \/ Handler.msg = "pause"
    /\ UNCHANGED vbd
    /\ handler_returns
-----------------------------------------------------------------------------
(* tapdisk_control_close, after the server has stopped                     *)

drain(c) ==
    /\ Alive /\ phase = "closing"
    /\ td_control.n_conn > 0 /\ c = td_control.order[td_control.n_conn]
    /\ \/ /\ ~td_control.conn[c].done
          /\ crash' = "assert"
          /\ UNCHANGED <<td_control, client>>
       \/ /\ td_control.conn[c].done
          /\ Settle(client, conn_close([td_control EXCEPT !.conn[c].out = <<>>], c),
                    c, td_control.conn[c].out # <<>>)
          /\ UNCHANGED crash
    /\ UNCHANGED <<vbd, frames, phase, run>>

closed ==
    /\ Alive /\ phase = "closing" /\ td_control.n_conn = 0
    /\ phase' = "exited"
    /\ client' = [k \in Clients |-> [client[k] EXCEPT !.sock = "off"]]
    /\ UNCHANGED <<td_control, vbd, frames, run, crash>>
-----------------------------------------------------------------------------
Serving(c) == conn_send_event(c) \/ read_fails(c) \/ reject(c) \/ \E v \in Vbds : handle_request(c, v)

Next ==
    \/ \E k \in Clients :
        \/ connect(k) \/ hangup(k) \/ \E m \in Requests : send(k, m)
        \/ accept(k)
    \/ nothing_to_accept \/ iterate_returns
    \/ \E c \in Conns : Serving(c) \/ drain(c)
    \/ wait \/ done_waiting \/ gives_up
    \/ closed

Spec == Init /\ [][Next]_vars

(* The server keeps iterating and takes ready events; what a handler waits *)
(* for happens (Vbd shows it for PAUSE).  Nothing is asked of clients.     *)
Fairness ==
    /\ WF_vars(nothing_to_accept) /\ WF_vars(iterate_returns)
    /\ \A k \in Clients : SF_vars(accept(k))
    /\ \A c \in Conns : SF_vars(Serving(c)) /\ WF_vars(drain(c))
    /\ WF_vars(wait) /\ SF_vars(done_waiting \/ gives_up) /\ WF_vars(closed)

FairSpec == Spec /\ Fairness
-----------------------------------------------------------------------------
Connections == [fd : Clients \cup {NONE}, out : Seq(Clients), done : BOOLEAN, in_event : BOOLEAN,
                busy : BOOLEAN, info : BOOLEAN, cut : BOOLEAN]
Pools == [conn : [Conns -> Connections], order : [1 .. MaxConns -> Conns], n_conn : 0 .. MaxConns,
          busy : BOOLEAN, masked : BOOLEAN]
Sockets == [sock : {"off", "backlog", "open", "gone"}, req : {"none", "sent", "read", "answered"},
            msg : Requests \cup {NONE}, again : BOOLEAN]
Frames == [conn : Conns, asker : Clients, msg : Blocking, vbd : Vbds, iterated : BOOLEAN]

TypeOK ==
    /\ td_control \in Pools
    /\ client \in [Clients -> Sockets]
    /\ vbd \in [Vbds -> {"absent", "attached", "open"}]
    /\ frames \in Seq(Frames)
    /\ phase \in {"select", "events", "check", "closing", "exited"}
    /\ run \in BOOLEAN /\ crash \in {NONE, "info", "assert"}

(* The array of connections has every connection once, the ones in use     *)
(* first; new clients are kept waiting exactly while all are in use, and   *)
(* no event is left on a closed descriptor.                                *)
PoolExact ==
    /\ Range(td_control.order) = Conns
    /\ {c \in Conns : td_control.conn[c].fd # NONE}
         = {td_control.order[i] : i \in 1 .. td_control.n_conn}
    /\ td_control.masked <=> td_control.n_conn = MaxConns
    /\ phase \in {"select", "events", "check"} =>
        \A c \in Conns : td_control.conn[c].in_event => td_control.conn[c].fd # NONE

(* Every connection is in the array once and new clients wait exactly while *)
(* all connections are in use: what accept and conn_free assume.            *)
PoolSound == TypeOK /\ PoolExact

(* What a client is sent answers its own request, although connections are *)
(* reused while handlers wait.                                             *)
RepliesReachAsker ==
    \A c \in Conns : td_control.conn[c].fd # NONE =>
        \A i \in 1 .. Len(td_control.conn[c].out) : td_control.conn[c].out[i] = td_control.conn[c].fd

(* The vbd a waiting handler has a pointer to is not freed by another      *)
(* request, and its connection stays marked busy.                          *)
HandlersKeepVbds ==
    \A i \in 1 .. Len(frames) :
        /\ vbd[frames[i].vbd] # "absent"
        /\ td_control.conn[frames[i].conn].busy /\ td_control.busy

(* While the server runs, the connection of a client that sent a complete  *)
(* request and stayed is not closed before something was sent to it.       *)
NoSilentClose ==
    [][\A k \in Clients :
        (client[k].sock = "open" /\ client'[k].sock = "off" /\ phase \notin {"closing", "exited"})
            => client'[k].req = "answered"]_vars

(* Every request of a client that stays is answered, or tapdisk ends.      *)
Answered ==
    \A k \in Clients :
        client[k].sock = "open" /\ client[k].req = "sent"
            ~> \/ client[k].req = "answered" \/ client[k].sock = "gone"
               \/ phase \in {"closing", "exited"} \/ ~Alive

(* "ASSERT(conn->out.done)": when the last vbd is gone, all connections    *)
(* there are only have responses to be drained.                            *)
DrainAsserts == crash # "assert"

(* "rejecting message while busy": a request that cannot be handled is     *)
(* answered with an error.                                                 *)
RejectAnswers == crash # "info"

(* "WARN_ON(count != size)": responses fit into the output buffer.         *)
RepliesWhole == \A c \in Conns : ~td_control.conn[c].cut
=============================================================================
