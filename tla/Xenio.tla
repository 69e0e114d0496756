------------------------------- MODULE Xenio -------------------------------
(* The xenio daemon, xenio/xenio.c: it watches the backend directory of     *)
(* xenstore and the state of every frontend, and tells tapdisks to connect  *)
(* to the rings guests publish.  A watch event is handled in a transaction: *)
(* what the handler writes is lost when the handler fails or another client *)
(* got in between (then the event is handled again), what it did to its own *)
(* devices and to the tapdisk is not.                                       *)
(*                                                                          *)
(* A ring stands for the grant references and event channel a frontend      *)
(* publishes; rings are numbered, 0 is none.  Writing below a backend       *)
(* directory makes it if it is not there.  Equal events in a row are one.   *)
EXTENDS Naturals, Sequences, FiniteSets

CONSTANTS
    Devs,        \* domid/device name pairs
    MaxRings,    \* rings published, in all
    MaxAdds,     \* devices added by the toolstack, in all
    Conflicts,   \* kinds of event whose transaction may meet another's
    Orderly,     \* the toolstack adds a device, and removes a closed one,
                 \* when xenio is idle
    WritesFail,  \* xenstore may refuse a write
    MaxRestarts  \* restarts of the daemon

\* The watch on the backend directory names a device or the directory itself.
ASSUME XenioAssumption ==
    /\ IsFiniteSet(Devs) /\ "scan" \notin Devs
    /\ {MaxRings, MaxAdds, MaxRestarts} \subseteq Nat
    /\ Orderly \in BOOLEAN /\ WritesFail \in BOOLEAN

VARIABLES
    be,       \* backend/xenio/<domid>/<name>: xenio-serial, state, info
    fe,       \* the frontend's state and ring
    watches,  \* watch events not read yet
    dev,      \* backend.devices, with their serial and the ring of bdev->gref
    serial,   \* backend.serial
    tap,      \* per device, the ring its tapdisk is connected to
    alive,    \* the daemon has not aborted
    adds, rings, restarts

xenioVars == <<be, fe, watches, dev, serial, tap, alive, adds, rings, restarts>>

NoDir == [there |-> FALSE, serial |-> 0, state |-> "none", info |-> FALSE]
NoDev == [there |-> FALSE, serial |-> 0, gref |-> 0]
NoSerial == 0

\* What a list of events becomes when others follow.
Posted(q, es) == IF q # <<>> /\ es # <<>> /\ q[Len(q)] = es[1] THEN q \o Tail(es) ELSE q \o es
Post(q, e) == Posted(q, <<e>>)

\* The orders a directory may be read in, or its changes reported.
Orders(S) == {q \in [1 .. Cardinality(S) -> S] : \A d \in S : \E i \in 1 .. Cardinality(S) : q[i] = d}
Events(kind, q) == [i \in 1 .. Len(q) |-> <<kind, q[i]>>]

XenioInit ==
    /\ be = [d \in Devs |-> NoDir]
    /\ fe = [d \in Devs |-> [state |-> "none", ring |-> 0]]
    /\ watches = <<<<"backend", "scan">>>>
    /\ dev = [d \in Devs |-> NoDev]
    /\ serial = 1
    /\ tap = [d \in Devs |-> 0]
    /\ alive = TRUE
    /\ adds = 0 /\ rings = 0 /\ restarts = 0

(****************************** the handlers *****************************)
(* A handler maps the state w it finds, with the staged directories w.be,   *)
(* to the one it leaves, w.err if it fails; c is what others answer it:     *)
(* c.found the tapdisk is listed, c.ok it can connect, c.write xenstore     *)
(* takes the writes, c.busy requests are under way on the ring.             *)
xenio_device_printf(w, d, e) == [w EXCEPT !.be[d] = [e EXCEPT !.there = TRUE]]
Fail(w) == [w EXCEPT !.err = TRUE]

\* blkback_probe: fails unless a tapdisk is found, whatever it says of itself
blkback_probe(c) == c.found

\* xenio_device_scanf: what the backend's directory has for the daemon
DeviceSerial(w, d) == w.be[d].serial

\* xenio_device_scanf_otherend: ring-ref, event-channel, protocol, all or none
OtherendRing(d) == fe[d].ring
xenio_device_check_frontend_state(d) == fe[d].state

\* tap_ctl_connect_xenblkif: a tapdisk has one ring at a time for a device
TapConnects(w, d, c) == w.tap[d] = 0 /\ c.ok

\* tap_ctl_disconnect_xenblkif: a tapdisk with requests under way refuses
Disconnected(w, d, c) == IF c.busy THEN w ELSE [w EXCEPT !.tap[d] = 0]

\* mutant: the serial is not written
create_device_noserial(w, d, c) ==
    IF ~blkback_probe(c) THEN Fail([w EXCEPT !.serial = @ + 1])
    ELSE [w EXCEPT !.serial = @ + 1,
                   !.dev[d] = [there |-> TRUE, serial |-> w.serial, gref |-> 0],
                   !.watch = Post(@, <<"otherend", d>>)]

\* The watch on the frontend's state fires when it is set.
xenio_backend_create_device(w, d, c) ==
    LET v == [xenio_device_printf(w, d, [w.be[d] EXCEPT !.serial = w.serial]) EXCEPT !.serial = @ + 1]
    IN  IF ~blkback_probe(c) THEN Fail(v)
        ELSE [v EXCEPT !.dev[d] = [there |-> TRUE, serial |-> w.serial, gref |-> 0],
                       !.watch = Post(@, <<"otherend", d>>)]

\* The tapdisk of a device that is removed is left as it is.
xenio_backend_remove_device(w, d) == [w EXCEPT !.dev[d] = NoDev]

xenio_device_check_serial(w, d) == DeviceSerial(w, d) = w.dev[d].serial

\* A device that was replaced is to be removed and created: the assertion fails.
xenio_backend_probe_device(w, d, c) ==
    LET exists == w.be[d].there
        known  == w.dev[d].there
    IN  CASE exists /\ known /\ ~xenio_device_check_serial(w, d) ->
                 [w EXCEPT !.alive = FALSE]
          [] exists /\ ~known -> xenio_backend_create_device(w, d, c)
          [] ~exists /\ known -> xenio_backend_remove_device(w, d)
          [] OTHER -> w

\* Every device is probed as xenio_backend_probe_device does it, in the order q
\* for those it creates; their errors are dropped.
xenio_backend_scan(w, c, q) ==
    LET clash == {d \in Devs : w.be[d].there /\ w.dev[d].there /\ ~xenio_device_check_serial(w, d)}
        nr(d) == w.serial + (CHOOSE i \in 1 .. Len(q) : q[i] = d) - 1
        is(d) == \E i \in 1 .. Len(q) : q[i] = d
    IN  [w EXCEPT
           !.alive = clash = {},
           !.serial = @ + Len(q),
           !.be = [d \in Devs |-> IF is(d) THEN [@[d] EXCEPT !.serial = nr(d)] ELSE @[d]],
           !.dev = [d \in Devs |-> IF is(d) /\ blkback_probe(c) THEN [there |-> TRUE, serial |-> nr(d), gref |-> 0]
                                   ELSE IF ~w.be[d].there THEN NoDev ELSE @[d]],
           !.watch = IF blkback_probe(c) THEN Posted(@, Events("otherend", q)) ELSE @]

\* mutant: a refusal of the tapdisk is not seen
connect_tap_anyway(w, d, c) ==
    LET r == OtherendRing(d)
    IN  IF r = 0 THEN Fail(w)
        ELSE xenio_device_printf([w EXCEPT !.dev[d].gref = r, !.tap[d] = IF @ = 0 THEN r ELSE @],
                                 d, [w.be[d] EXCEPT !.info = TRUE, !.state = "Connected"])

blkback_connect_tap(w, d, c) ==
    LET r    == OtherendRing(d)
        new  == w.dev[d].gref = 0
        v    == IF new THEN [w EXCEPT !.dev[d].gref = r, !.tap[d] = r] ELSE w
    IN  CASE new /\ (r = 0 \/ ~TapConnects(w, d, c)) -> Fail(w)
          [] (~new \/ (r # 0 /\ TapConnects(w, d, c))) /\ ~c.write ->
                 Fail([Disconnected(v, d, c) EXCEPT !.dev[d].gref = 0])
          [] OTHER -> xenio_device_printf(v, d, [w.be[d] EXCEPT !.info = TRUE, !.state = "Connected"])

\* The answer to a disconnect is never of the type the caller looks for, so
\* that the call fails whatever the tapdisk did.
blkback_disconnect_tap(w, d, c) ==
    IF w.dev[d].gref = 0 THEN w ELSE Fail(Disconnected(w, d, c))

xenio_device_switch_state(w, d, c, state) ==
    IF c.write THEN xenio_device_printf(w, d, [w.be[d] EXCEPT !.state = state]) ELSE Fail(w)

blkback_frontend_changed(w, d, c) ==
    LET state == xenio_device_check_frontend_state(d)
    IN  CASE state = "none" -> Fail(w)
          [] state = "Initialising" -> xenio_device_switch_state(w, d, c, "InitWait")
          [] state \in {"Initialised", "Connected"} -> blkback_connect_tap(w, d, c)
          [] state = "Closing" -> xenio_device_switch_state(w, d, c, "Closing")
          [] state = "Closed" -> blkback_disconnect_tap(w, d, c)

xenio_backend_handle_otherend_watch(w, d, c) ==
    IF w.dev[d].there THEN blkback_frontend_changed(w, d, c)
    ELSE [w EXCEPT !.alive = FALSE]

xenio_backend_handle_backend_watch(w, d, c) ==
    IF d = "scan" THEN {xenio_backend_scan(w, c, q) : q \in Orders({x \in Devs : w.be[x].there /\ ~w.dev[x].there})}
    ELSE {xenio_backend_probe_device(w, d, c)}

(****************************** the daemon *******************************)
Answers == [found : BOOLEAN, ok : BOOLEAN, busy : BOOLEAN,
            write : IF WritesFail THEN BOOLEAN ELSE {TRUE}]

\* The state a transaction begins with.
Begun == [be |-> be, dev |-> dev, serial |-> serial, tap |-> tap, watch |-> watches, alive |-> TRUE, err |-> FALSE]

Handled(e, c) ==
    IF e[1] = "backend" THEN xenio_backend_handle_backend_watch(Begun, e[2], c)
    ELSE {xenio_backend_handle_otherend_watch(Begun, e[2], c)}

xenio_backend_read_watch ==
    /\ alive /\ watches # <<>>
    /\ \E c \in Answers : \E v \in Handled(Head(watches), c) :
         /\ dev' = v.dev /\ serial' = v.serial /\ tap' = v.tap /\ alive' = v.alive
         /\ \/ /\ v.err \/ ~v.alive
               /\ watches' = Tail(v.watch) /\ UNCHANGED be
            \/ /\ ~v.err /\ v.alive
               /\ be' = v.be
               \* the events of a commit: those of the directories it changed
               /\ \E q \in Orders({d \in Devs : v.be[d] # be[d]}) :
                     watches' = Posted(Tail(v.watch), Events("backend", q))
            \/ /\ ~v.err /\ v.alive /\ Head(watches)[1] \in Conflicts
               /\ watches' = v.watch /\ UNCHANGED be
    /\ UNCHANGED <<fe, adds, rings, restarts>>

\* The daemon dies, between two events or in one, and is started again.
Restart ==
    /\ restarts < MaxRestarts
    /\ restarts' = restarts + 1
    /\ alive' = TRUE
    /\ dev' = [d \in Devs |-> NoDev] /\ serial' = 1
    /\ watches' = <<<<"backend", "scan">>>>
    /\ UNCHANGED <<be, fe, tap, adds, rings>>

(****************************** the others (external) ********************)
FrontendWatched(q, d) == IF dev[d].there THEN Post(q, <<"otherend", d>>) ELSE q

ToolstackAdd(d) ==
    /\ ~be[d].there /\ adds < MaxAdds
    /\ Orderly => watches = <<>>
    /\ adds' = adds + 1
    /\ be' = [be EXCEPT ![d] = [NoDir EXCEPT !.there = TRUE, !.state = "Initialising"]]
    /\ fe' = [fe EXCEPT ![d] = [state |-> "Initialising", ring |-> 0]]
    /\ watches' = FrontendWatched(Post(watches, <<"backend", d>>), d)
    /\ UNCHANGED <<dev, serial, tap, alive, rings, restarts>>

ToolstackRemove(d) ==
    /\ be[d].there
    /\ Orderly => watches = <<>> /\ fe[d].state = "Closed"
    /\ be' = [be EXCEPT ![d] = NoDir]
    /\ watches' = Post(watches, <<"backend", d>>)
    /\ UNCHANGED <<fe, dev, serial, tap, alive, adds, rings, restarts>>

Guest(d, from, to, ring) ==
    /\ fe[d].state \in from
    /\ fe' = [fe EXCEPT ![d] = [state |-> to, ring |-> ring]]
    /\ watches' = FrontendWatched(watches, d)
    /\ UNCHANGED <<be, dev, serial, tap, alive, adds, restarts>>

GuestInitialises(d) ==
    /\ be[d].state = "InitWait" /\ rings < MaxRings
    /\ rings' = rings + 1
    /\ Guest(d, {"Initialising"}, "Initialised", rings + 1)
GuestConnects(d) ==
    /\ be[d].state = "Connected" /\ UNCHANGED rings
    /\ Guest(d, {"Initialised"}, "Connected", fe[d].ring)
GuestCloses(d, to) ==
    /\ be[d].there /\ UNCHANGED rings
    /\ Guest(d, {"Initialised", "Connected", "Closing"} \ {to}, to, fe[d].ring)

XenioNext ==
    \/ xenio_backend_read_watch
    \/ Restart
    \/ \E d \in Devs :
          \/ ToolstackAdd(d)
          \/ ToolstackRemove(d)
          \/ GuestInitialises(d)
          \/ GuestConnects(d)
          \/ \E to \in {"Closing", "Closed"} : GuestCloses(d, to)

XenioSpec == XenioInit /\ [][XenioNext]_xenioVars

(****************************** properties *******************************)
(* A guest that waits for its backend, or uses it, and reads that it is     *)
(* Connected is served: the tapdisk is on the ring the guest published, not *)
(* on that of an earlier life of the device, and what the guest reads next  *)
(* (sectors, sector-size, info) has been written.  A handler run again      *)
(* after a conflict and a restart may not break it.                         *)
XenioServes ==
    \A d \in Devs :
        be[d].there /\ be[d].state = "Connected" /\ fe[d].state \in {"Initialised", "Connected"}
            => be[d].info /\ tap[d] = fe[d].ring

(* The daemon does not fail its own assertions (xenio_backend_probe_device, *)
(* BUG in xenio_backend_handle_otherend_watch) however the events of        *)
(* devices that come and go in order, its own writes and its restarts       *)
(* follow each other.                                                       *)
XenioSurvives == alive

(* The two together, which MCParts checks.                                  *)
XenioSound == XenioServes /\ XenioSurvives
=============================================================================
