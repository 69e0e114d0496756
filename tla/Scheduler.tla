----------------------------- MODULE Scheduler -----------------------------
(***************************************************************************)
(* The event loop of tapdisk: scheduler.c.                                 *)
(*                                                                         *)
(* The events are a list in the order of their ids (an event is appended   *)
(* with the next id).  A callback may register, unregister and mask        *)
(* events, and may itself wait for events: the stack has one frame for     *)
(* each invocation of scheduler_wait_for_events that has not returned.     *)
(*                                                                         *)
(* A source is a file descriptor with a direction (read, write, except).   *)
(* Times are relative: left is what remains of an event's deadline, sleep  *)
(* of the time-out given to select; -1 stands for every deadline that has  *)
(* passed.                                                                 *)
(***************************************************************************)
EXTENDS Integers, Sequences, FiniteSetsExt

CONSTANTS
    MaxId,         \* bound: events registered over the life of the process
    MaxDepth,      \* bound: nested invocations of the scheduler
    Sources,       \* what an event can poll
    Timeouts,      \* the time-outs of the timer events
    MaxTimeout,    \* SCHEDULER_MAX_TIMEOUT
    MaskTimers     \* do clients mask timer events (block-valve.c does)?

ASSUME SchedulerAssumption ==
    /\ MaxId \in Nat /\ MaxDepth \in Nat \ {0}
    /\ Timeouts \subseteq Nat /\ MaxTimeout \in Nat
    /\ "timeout" \notin Sources
    /\ MaskTimers \in BOOLEAN

Ids   == 1 .. MaxId
Modes == Sources \cup {"timeout"}

(* event_t                                                                 *)
Events == [polls: SUBSET Sources, timer: BOOLEAN, timeout: Nat, left: Int,
           dead: BOOLEAN, masked: BOOLEAN, pending: SUBSET Modes]

NewEvent(polls, timer, timeout) ==
    [polls |-> polls, timer |-> timer, timeout |-> timeout, left |-> timeout,
     dead |-> FALSE, masked |-> FALSE, pending |-> {}]

Freed == NewEvent({}, FALSE, 0)

(* one invocation of scheduler_wait_for_events: the loop over the events   *)
(* that comes first in a nested one ("nested"), select, the loop after it  *)
(* ("run").  cur is the event the loop stands at, cb: is its callback      *)
(* running?                                                                *)
Frames == [pc: {"nested", "select", "run"}, cur: 0 .. MaxId,
           dispatched: BOOLEAN, cb: BOOLEAN]

VARIABLES
    events,        \* the ids on s->events
    ev,            \* what the events hold
    uuid, max_timeout,
    sleep,         \* s->timeout, counting down during select
    fds,           \* s->read_fds, s->write_fds, s->except_fds
    stack,         \* its length is s->depth
    panicked

vars == <<events, ev, uuid, max_timeout, sleep, fds, stack, panicked>>

(* scheduler_initialize: max_timeout is zero, too                          *)
Init ==
    /\ events = {} /\ ev = [id \in Ids |-> Freed] /\ uuid = 1
    /\ max_timeout = 0 /\ sleep = 0 /\ fds = {}
    /\ stack = <<>> /\ panicked = FALSE

Depth == Len(stack)
Top   == stack[Depth]
Live(id) == id \in events /\ ~ev[id].dead
Frame(pc) == [pc |-> pc, cur |-> 0, dispatched |-> FALSE, cb |-> FALSE]

(* code outside the scheduler runs: between two iterations of the server,  *)
(* or in a callback                                                        *)
ClientRuns == ~panicked /\ (stack # <<>> => Top.cb)
Running(pc) == ~panicked /\ stack # <<>> /\ Top.pc = pc /\ ~Top.cb
-----------------------------------------------------------------------------
(* What clients do                                                         *)

(* file descriptors are not shared by events in use                        *)
register_event(polls, timer, timeout) ==
    /\ ClientRuns /\ uuid <= MaxId
    /\ timer \/ polls # {}
    /\ \A id \in events : Live(id) => ev[id].polls \cap polls = {}
    /\ ev' = [ev EXCEPT ![uuid] = NewEvent(polls, timer, timeout)]
    /\ events' = events \cup {uuid}
    /\ uuid' = uuid + 1
    /\ UNCHANGED <<max_timeout, sleep, fds, stack, panicked>>

(* the event stays on the list, for loops may stand at it                  *)
unregister_event(id) ==
    /\ ClientRuns /\ Live(id)
    /\ ev' = [ev EXCEPT ![id].dead = TRUE]
    /\ UNCHANGED <<events, uuid, max_timeout, sleep, fds, stack, panicked>>

(* events that poll are masked when registered and by their own callback;  *)
(* the valve masks its timer at any time                                   *)
MayMask(id) ==
    IF ev[id].timer THEN MaskTimers
    ELSE ev[id].pending = {} \/ (stack # <<>> /\ Top.cur = id)

mask_event(id, masked) ==
    /\ ClientRuns /\ Live(id)
    /\ masked => MayMask(id)
    /\ ev' = [ev EXCEPT ![id].masked = masked]
    /\ UNCHANGED <<events, uuid, max_timeout, sleep, fds, stack, panicked>>

set_max_timeout(timeout) ==
    /\ ClientRuns
    /\ max_timeout' = Min({max_timeout, timeout})
    /\ UNCHANGED <<events, ev, uuid, sleep, fds, stack, panicked>>

callback_returns ==
    /\ ~panicked /\ stack # <<>> /\ Top.cb
    /\ stack' = [stack EXCEPT ![Depth].cb = FALSE]
    /\ UNCHANGED <<events, ev, uuid, max_timeout, sleep, fds, panicked>>

-----------------------------------------------------------------------------
(* scheduler_wait_for_events                                               *)

(* mutant: dead events are watched until they are freed                    *)
Watched_dead == {id \in events : ~ev[id].masked}

Watched == {id \in events : ~ev[id].masked /\ ~ev[id].dead}

Timers  == {id \in Watched : ev[id].timer}

(* mutant: a deadline that has passed is not taken for zero                *)
prepare_events_late(below) ==
    /\ fds' = UNION {ev[id].polls : id \in Watched}
    /\ sleep' = Min({max_timeout, MaxTimeout} \cup {ev[id].left : id \in Timers})
    /\ stack' = Append(below, Frame("select"))
    /\ UNCHANGED <<events, ev, uuid, max_timeout, panicked>>

(* mutant: select may sleep past the nearest deadline                      *)
prepare_events_sleeps(below) ==
    /\ fds' = UNION {ev[id].polls : id \in Watched}
    /\ sleep' = Min({max_timeout, MaxTimeout})
    /\ stack' = Append(below, Frame("select"))
    /\ UNCHANGED <<events, ev, uuid, max_timeout, panicked>>

(* into select with the stack below                                        *)
prepare_events(below) ==
    /\ fds' = UNION {ev[id].polls : id \in Watched}
    /\ sleep' = Min({max_timeout, MaxTimeout}
                    \cup {IF ev[id].left > 0 THEN ev[id].left ELSE 0 : id \in Timers})
    /\ stack' = Append(below, Frame("select"))
    /\ UNCHANGED <<events, ev, uuid, max_timeout, panicked>>

(* mutant: nested invocations go straight to select                        *)
wait_for_events_selects ==
    /\ ClientRuns /\ Depth < MaxDepth
    /\ prepare_events(stack)

wait_for_events ==
    /\ ClientRuns /\ Depth < MaxDepth
    /\ \/ stack = <<>> /\ prepare_events(stack)
       \/ /\ stack # <<>>
          /\ stack' = Append(stack, Frame("nested"))
          /\ UNCHANGED <<events, ev, uuid, max_timeout, sleep, fds, panicked>>

(* live events that wait to be dispatched beyond cur                       *)
Ahead(cur) == {id \in events : id > cur /\ ~ev[id].dead /\ ev[id].pending # {}}

(* pending is cleared before the callback; a timer starts again (the       *)
(* deadline of an event that is no timer is never used)                    *)
event_callback(id) ==
    [ev[id] EXCEPT !.pending = {},
                   !.left = ev[id].timeout]

run_event ==
    /\ Running("nested") \/ Running("run")
    /\ \E id \in Ahead(Top.cur) :
        /\ \A other \in Ahead(Top.cur) : id <= other
        /\ ev' = [ev EXCEPT ![id] = event_callback(id)]
        /\ stack' = [stack EXCEPT ![Depth] =
                       [pc |-> Top.pc, cur |-> id, dispatched |-> TRUE,
                        cb |-> ~ev[id].masked]]
    /\ UNCHANGED <<events, uuid, max_timeout, sleep, fds, panicked>>

Below == SubSeq(stack, 1, Depth - 1)

(* the first loop of a nested invocation: progress is enough, otherwise it *)
(* waits like the others                                                   *)
nested_run_ends ==
    /\ Running("nested") /\ Ahead(Top.cur) = {}
    /\ \/ /\ Top.dispatched
          /\ stack' = Below
          /\ UNCHANGED <<events, ev, uuid, max_timeout, sleep, fds, panicked>>
       \/ /\ ~Top.dispatched
          /\ prepare_events(Below)

(* what the events hold after scheduler_check_fd_events found ready        *)
AfterFds(ready) ==
    [id \in Ids |-> IF Live(id) THEN [ev[id] EXCEPT !.pending = @ \cup (ev[id].polls \cap ready)]
                                ELSE ev[id]]

Expired(e) == e.timer /\ e.left <= 0 /\ e.pending = {}

(* mutant: time-outs are only looked at when no descriptor is ready        *)
check_timeouts_idle(now, ready) ==
    [id \in Ids |-> IF Live(id) /\ Expired(now[id]) /\ ready = {}
                    THEN [now[id] EXCEPT !.pending = {"timeout"}] ELSE now[id]]

check_timeouts(now, ready) ==
    [id \in Ids |-> IF Live(id) /\ Expired(now[id])
                    THEN [now[id] EXCEPT !.pending = {"timeout"}] ELSE now[id]]

(* the two BUG_ONs: an event both pending and masked, dead or not; a ready *)
(* descriptor no event polls                                               *)
BUG_ON(now, ready) ==
    \/ \E id \in events : now[id].pending # {} /\ now[id].masked
    \/ ~(ready \subseteq UNION {ev[id].polls : id \in {e \in events : ~ev[e].dead}})

(* select returns the ready descriptors, or none after the time-out        *)
select_returns(ready) ==
    /\ Running("select")
    /\ ready \subseteq fds
    /\ ready # {} \/ sleep = 0
    /\ LET now == AfterFds(ready) IN
        /\ panicked' = BUG_ON(now, ready)
        /\ ev' = check_timeouts(now, ready)
    /\ max_timeout' = MaxTimeout
    /\ sleep' = MaxTimeout
    /\ stack' = [stack EXCEPT ![Depth] = Frame("run")]
    /\ UNCHANGED <<events, uuid, fds>>

(* a signal interrupts select                                              *)
select_fails ==
    /\ Running("select")
    /\ stack' = Below
    /\ UNCHANGED <<events, ev, uuid, max_timeout, sleep, fds, panicked>>

Dead == {id \in events : ev[id].dead}

(* mutant: dead events are freed by nested invocations, too                *)
gc_events_always ==
    /\ events' = events \ Dead
    /\ ev' = [id \in Ids |-> IF id \in Dead THEN Freed ELSE ev[id]]

(* only the outermost invocation frees dead events                         *)
gc_events ==
    /\ events' = IF Depth = 1 THEN events \ Dead ELSE events
    /\ ev' = IF Depth = 1 THEN [id \in Ids |-> IF id \in Dead THEN Freed ELSE ev[id]]
                          ELSE ev

run_ends ==
    /\ Running("run") /\ Ahead(Top.cur) = {}
    /\ gc_events
    /\ stack' = Below
    /\ UNCHANGED <<uuid, max_timeout, sleep, fds, panicked>>

(* a second passes: what is left of deadlines, and of select's time-out    *)
tick ==
    /\ ~panicked
    /\ ev' = [id \in Ids |-> [ev[id] EXCEPT !.left = IF ev[id].timer /\ @ >= 0 THEN @ - 1 ELSE @]]
    /\ sleep' = IF Running("select") /\ sleep > 0 THEN sleep - 1 ELSE sleep
    /\ UNCHANGED <<events, uuid, max_timeout, fds, stack, panicked>>
-----------------------------------------------------------------------------
Client ==
    \/ \E polls \in SUBSET Sources : register_event(polls, FALSE, 0)
    \/ \E polls \in SUBSET Sources, timeout \in Timeouts : register_event(polls, TRUE, timeout)
    \/ \E id \in Ids : unregister_event(id)
    \/ \E id \in Ids, masked \in BOOLEAN : mask_event(id, masked)
    \/ \E timeout \in Timeouts : set_max_timeout(timeout)

Loop ==
    \/ run_event
    \/ nested_run_ends
    \/ run_ends
    \/ \E ready \in SUBSET Sources : select_returns(ready)

Next ==
    \/ Client
    \/ wait_for_events
    \/ callback_returns
    \/ Loop
    \/ select_fails
    \/ tick

Spec == Init /\ [][Next]_vars

(* the server iterates until it exits, callbacks return, time passes, and  *)
(* signals do not interrupt every select                                   *)
Fairness ==
    /\ WF_vars(stack = <<>> /\ wait_for_events)
    /\ WF_vars(callback_returns)
    /\ WF_vars(run_event) /\ WF_vars(nested_run_ends) /\ WF_vars(run_ends)
    /\ SF_vars(\E ready \in SUBSET Sources : select_returns(ready))
    /\ WF_vars(tick)

FairSpec == Spec /\ Fairness
-----------------------------------------------------------------------------
TypeOK ==
    /\ events \in SUBSET Ids
    /\ ev \in [Ids -> Events]
    /\ uuid \in 1 .. (MaxId + 1)
    /\ max_timeout \in Nat /\ sleep \in Nat
    /\ fds \in SUBSET Sources
    /\ stack \in Seq(Frames) /\ Depth <= MaxDepth
    /\ panicked \in BOOLEAN

(* No loop over the events stands at an event that was freed, however deep *)
(* callbacks nest and whatever they unregister (scheduler_gc_events runs   *)
(* at depth one only).                                                     *)
CursorOnList ==
    \A i \in 1 .. Depth : stack[i].cur # 0 => stack[i].cur \in events

(* "recursive invocations continue with the pending event set": an event   *)
(* in use that is pending is still ahead of the innermost loop, so that    *)
(* nothing is pending during select or when the outermost invocation has   *)
(* returned, and no event is dispatched twice for one readiness.           *)
NothingLeftBehind ==
    \A id \in events :
        Live(id) /\ ev[id].pending # {} =>
            /\ stack # <<>>
            /\ Top.pc # "select"
            /\ id > Top.cur

(* BUG_ON(event->pending && event->masked) and BUG_ON(ret) never trigger.  *)
NoPanic == ~panicked

(* select never sleeps past the nearest deadline of an unmasked timer, nor *)
(* longer than the retry interval the server asked for.                    *)
NeverOversleeps ==
    stack # <<>> /\ Top.pc = "select" =>
        /\ sleep <= max_timeout
        /\ \A id \in Watched : ev[id].timer => sleep <= Max({ev[id].left, 0})

(* A timer that stays registered and unmasked fires again and again, also  *)
(* when descriptors are ready all the time and when callbacks nest.        *)
TimersFire ==
    \A id \in Ids :
        []<>( \/ ~(Live(id) /\ ev[id].timer /\ ~ev[id].masked)
              \/ \E i \in 1 .. Depth : stack[i].cur = id /\ stack[i].cb )
=============================================================================
