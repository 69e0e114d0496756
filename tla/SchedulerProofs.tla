-------------------------- MODULE SchedulerProofs --------------------------
(***************************************************************************)
(* Proofs about Scheduler for every number of events, every depth of       *)
(* nesting and every set of sources and time-outs.                         *)
(***************************************************************************)
EXTENDS Scheduler, SequenceTheorems, WellFoundedInduction, TLAPS

-----------------------------------------------------------------------------
(* The inductive invariant                                                 *)

(* an event that is not on the list holds nothing and ids are not reused   *)
Listed ==
    /\ \A id \in events : id < uuid
    /\ \A id \in Ids \ events : ev[id] = Freed

(* events in use poll different sources                                    *)
DistinctSources ==
    \A id, other \in events :
        Live(id) /\ Live(other) /\ id # other => ev[id].polls \cap ev[other].polls = {}

(* all invocations but the innermost are in a callback, and a callback is  *)
(* called from a loop                                                      *)
Nested ==
    /\ \A i \in 1 .. Depth : stack[i].cb => stack[i].pc # "select"
    /\ \A i \in 1 .. (Depth - 1) : stack[i].cb

(* during select its arguments are those of the watched events             *)
Selecting ==
    stack # <<>> /\ Top.pc = "select" => fds = UNION {ev[id].polls : id \in Watched}

(* without masked timers a masked event is never pending                   *)
MaskedIdle ==
    ~MaskTimers => \A id \in events : ev[id].masked => ~ev[id].timer /\ ev[id].pending = {}

Quiet == ~MaskTimers => ~panicked

IInv ==
    /\ TypeOK /\ CursorOnList /\ NothingLeftBehind
    /\ Listed /\ DistinctSources /\ Nested /\ Selecting
    /\ MaskedIdle /\ Quiet /\ NeverOversleeps

-----------------------------------------------------------------------------
(* A set of natural numbers that is not empty has a least element.         *)
LEMMA MinOfNats ==
    ASSUME NEW S, S \subseteq Nat, S # {}
    PROVE  Min(S) \in S /\ \A x \in S : Min(S) <= x
  <1>1. PICK m \in S : \A y \in S : ~(<<y, m>> \in OpToRel(<, Nat))
    BY NatLessThanWellFounded, WFMin, Zenon
  <1>2. \A y \in S : ~(<<y, m>> \in {ss \in Nat \X Nat : ss[1] < ss[2]})
    BY <1>1, Zenon DEF OpToRel
  <1>3. ASSUME NEW y \in S PROVE m <= y
    <2>1. y \in Nat /\ m \in Nat
      OBVIOUS
    <2>2. <<y, m>> \in Nat \X Nat
      BY <2>1
    <2>3. ~(<<y, m>>[1] < <<y, m>>[2])
      BY <1>2, <2>2
    <2> QED BY <2>1, <2>3
  <1> QED BY <1>3 DEF Min

(* The last number of an interval.                                         *)
LEMMA UpTo ==
    ASSUME NEW n \in Nat \ {0}
    PROVE  \A i \in 1 .. n : i = n \/ i \in 1 .. (n - 1)
  OBVIOUS

(* Entering, leaving and changing an invocation of the scheduler.          *)
LEMMA TopFacts ==
    ASSUME TypeOK, stack # <<>>
    PROVE  Depth \in Nat \ {0} /\ Top \in Frames /\ stack \in [1 .. Depth -> Frames]
  BY DEF TypeOK, Depth, Top

LEMMA Pop ==
    ASSUME TypeOK, stack # <<>>, stack' = Below
    PROVE  /\ stack' \in Seq(Frames)
           /\ Depth' = Depth - 1
           /\ \A i \in 1 .. (Depth - 1) : stack'[i] = stack[i]
           /\ Depth > 1 <=> stack' # <<>>
           /\ Depth > 1 => Top' = stack[Depth - 1]
  <1>1. Depth \in Nat \ {0} /\ stack \in [1 .. Depth -> Frames]
    BY TopFacts
  <1>2. \A i \in 1 .. (Depth - 1) : stack[i] \in Frames
    BY <1>1
  <1>3. /\ stack' \in Seq(Frames)
        /\ Len(stack') = IF 1 <= Depth - 1 THEN (Depth - 1) - 1 + 1 ELSE 0
        /\ \A i \in 1 .. ((Depth - 1) - 1 + 1) : stack'[i] = stack[1 + i - 1]
    <2> DEFINE d == Depth - 1
    <2>1. d \in Int /\ 1 \in Int
      BY <1>1
    <2>2. stack' = SubSeq(stack, 1, d)
      BY DEF Below
    <2> QED BY <1>2, <2>1, <2>2, SubSeqProperties
  <1>4. Len(stack') = Depth - 1
    BY <1>1, <1>3
  <1>5. \A i \in 1 .. (Depth - 1) : stack'[i] = stack[i]
    BY <1>1, <1>3
  <1>6. Depth' = Depth - 1 /\ Top' = stack'[Depth - 1]
    BY <1>4 DEF Depth, Top
  <1>7. Depth > 1 <=> stack' # <<>>
    BY <1>1, <1>3, <1>4
  <1> QED BY <1>1, <1>3, <1>5, <1>6, <1>7

LEMMA Push ==
    ASSUME TypeOK, NEW f \in Frames, stack' = Append(stack, f)
    PROVE  /\ stack' \in Seq(Frames)
           /\ Depth' = Depth + 1
           /\ \A i \in 1 .. Depth : stack'[i] = stack[i]
           /\ stack' # <<>> /\ Top' = f
  BY DEF TypeOK, Depth, Top

LEMMA Replace ==
    ASSUME TypeOK, stack # <<>>, NEW f \in Frames, stack' = [stack EXCEPT ![Depth] = f]
    PROVE  /\ stack' \in Seq(Frames)
           /\ Depth' = Depth
           /\ \A i \in 1 .. (Depth - 1) : stack'[i] = stack[i]
           /\ stack' # <<>> /\ Top' = f
  BY DEF TypeOK, Depth, Top

LEMMA PopPush ==
    ASSUME TypeOK, stack # <<>>, NEW f \in Frames, stack' = Append(Below, f)
    PROVE  /\ stack' \in Seq(Frames)
           /\ Depth' = Depth
           /\ \A i \in 1 .. (Depth - 1) : stack'[i] = stack[i]
           /\ stack' # <<>> /\ Top' = f
  <1>1. Depth \in Nat \ {0} /\ stack \in [1 .. Depth -> Frames]
    BY TopFacts
  <1>2. \A i \in 1 .. (Depth - 1) : stack[i] \in Frames
    BY <1>1
  <1>3. /\ Below \in Seq(Frames)
        /\ Len(Below) = IF 1 <= Depth - 1 THEN (Depth - 1) - 1 + 1 ELSE 0
        /\ \A i \in 1 .. ((Depth - 1) - 1 + 1) : Below[i] = stack[1 + i - 1]
    <2> DEFINE d == Depth - 1
    <2>1. d \in Int /\ 1 \in Int
      BY <1>1
    <2>2. Below = SubSeq(stack, 1, d)
      BY DEF Below
    <2> QED BY <1>2, <2>1, <2>2, SubSeqProperties
  <1>4. Len(Below) = Depth - 1
    BY <1>1, <1>3
  <1>5. \A i \in 1 .. (Depth - 1) : Below[i] = stack[i]
    BY <1>1, <1>3
  <1>6. Len(stack') = Depth /\ stack' \in Seq(Frames)
    BY <1>1, <1>3, <1>4
  <1>7. \A i \in 1 .. (Depth - 1) : stack'[i] = stack[i]
    BY <1>1, <1>3, <1>4, <1>5
  <1>8. stack' # <<>> /\ stack'[Depth] = f
    BY <1>1, <1>3, <1>4
  <1>9. Depth' = Depth /\ Top' = stack'[Depth]
    BY <1>6 DEF Depth, Top
  <1> QED BY <1>6, <1>7, <1>8, <1>9

(* The clamped time to a deadline is a natural number.                     *)
LEMMA SleepFacts ==
    ASSUME TypeOK, NEW below, prepare_events(below)
    PROVE  /\ sleep' \in Nat
           /\ sleep' <= max_timeout
           /\ \A id \in Timers : /\ ev[id].left > 0 => sleep' <= ev[id].left
                                 /\ ev[id].left <= 0 => sleep' = 0
  <1> DEFINE clamped(id) == IF ev[id].left > 0 THEN ev[id].left ELSE 0
             S == {max_timeout, MaxTimeout} \cup {clamped(id) : id \in Timers}
  <1>1. \A id \in Timers : ev[id].left \in Int
    BY DEF TypeOK, Timers, Watched, Events
  <1>2. S \subseteq Nat /\ S # {}
    BY <1>1, SchedulerAssumption DEF TypeOK
  <1>3. sleep' = Min(S)
    BY DEF prepare_events
  <1>4. \A id \in Timers : clamped(id) \in S
    OBVIOUS
  <1> HIDE DEF S
  <1>5. sleep' \in S /\ \A x \in S : sleep' <= x
    BY <1>2, <1>3, MinOfNats
  <1>6. max_timeout \in S
    BY DEF S
  <1>7. sleep' \in Nat
    BY <1>2, <1>5
  <1>8. \A id \in Timers : sleep' <= clamped(id)
    BY <1>4, <1>5
  <1> QED BY <1>1, <1>5, <1>6, <1>7, <1>8

(* The two maxima of NeverOversleeps.                                      *)
LEMMA MaxZero ==
    ASSUME NEW a \in Int
    PROVE  Max({a, 0}) = IF a > 0 THEN a ELSE 0
  BY DEF Max

(* Initially.                                                              *)
LEMMA InitIInv == Init => IInv
  <1> SUFFICES ASSUME Init PROVE IInv
    OBVIOUS
  <1> USE DEF Init
  <1>1. Freed \in Events
    BY DEF Freed, NewEvent, Events, Modes
  <1>2. Depth = 0
    BY DEF Depth
  <1>3. TypeOK
    <2>1. ev \in [Ids -> Events] /\ events \in SUBSET Ids
      BY <1>1
    <2>2. stack \in Seq(Frames)
      OBVIOUS
    <2>3. uuid \in 1 .. (MaxId + 1)
      BY SchedulerAssumption
    <2>4. Depth <= MaxDepth
      BY <1>2, SchedulerAssumption
    <2> QED BY <2>1, <2>2, <2>3, <2>4 DEF TypeOK
  <1>4. CursorOnList /\ NothingLeftBehind /\ Nested /\ Selecting /\ NeverOversleeps
    BY <1>2 DEF CursorOnList, NothingLeftBehind, Nested, Selecting, NeverOversleeps
  <1>5. Listed /\ DistinctSources /\ MaskedIdle /\ Quiet
    BY DEF Listed, DistinctSources, MaskedIdle, Quiet
  <1> QED BY <1>3, <1>4, <1>5 DEF IInv

(* Steps.  Each preserves the inductive invariant.                         *)

(* Registering appends an event that is not pending.                       *)
LEMMA RegisterStep ==
    ASSUME IInv, NEW polls \in SUBSET Sources, NEW timer \in BOOLEAN, NEW timeout \in Nat,
           register_event(polls, timer, timeout)
    PROVE  IInv'
  <1>T. TypeOK /\ CursorOnList /\ NothingLeftBehind /\ Listed /\ DistinctSources /\ Nested
    BY DEF IInv
  <1>U. Selecting /\ MaskedIdle /\ Quiet /\ NeverOversleeps
    BY DEF IInv
  <1>S. stack' = stack /\ panicked' = panicked /\ fds' = fds /\ sleep' = sleep
    BY DEF register_event
  <1>D. Depth' = Depth /\ Top' = Top
    BY <1>S DEF Depth, Top
  <1>C. stack # <<>> => Top.cb /\ Top.pc # "select" /\ Depth \in Nat \ {0} /\ Top \in Frames
    BY <1>T, TopFacts DEF register_event, ClientRuns, Nested, Top
  <1> DEFINE new == NewEvent(polls, timer, timeout)
  <1>N. /\ new \in Events /\ new.polls = polls /\ ~new.dead /\ ~new.masked /\ new.pending = {}
    BY DEF NewEvent, Events, Modes
  <1>I. uuid \in Ids /\ uuid \notin events
    BY <1>T, SchedulerAssumption DEF TypeOK, Listed, Ids, register_event
  <1>X. /\ events' = events \cup {uuid} /\ uuid' = uuid + 1 /\ max_timeout' = max_timeout
        /\ \A id \in events : Live(id) => ev[id].polls \cap polls = {}
        /\ ev' = [ev EXCEPT ![uuid] = new]
    BY DEF register_event
  <1> HIDE DEF new
  <1>E. /\ events' = events \cup {uuid} /\ events' \in SUBSET Ids
        /\ uuid \notin events
        /\ ev' \in [Ids -> Events] /\ ev'[uuid] = new
        /\ new.polls = polls /\ ~new.dead /\ ~new.masked /\ new.pending = {}
        /\ \A id \in Ids : id # uuid => ev'[id] = ev[id]
        /\ \A id \in events : id # uuid /\ id \in Ids
        /\ \A id \in events : ~ev[id].dead => ev[id].polls \cap polls = {}
    BY <1>T, <1>N, <1>I, <1>X DEF TypeOK, Live
  <1>TypeOK. TypeOK'
    BY <1>T, <1>S, <1>D, <1>E, SchedulerAssumption DEF TypeOK, register_event
  <1>CursorOnList. CursorOnList'
    BY <1>T, <1>S, <1>D, <1>E DEF CursorOnList
  <1>NothingLeftBehind. NothingLeftBehind'
    BY <1>T, <1>S, <1>D, <1>E DEF NothingLeftBehind, Live
  <1>Listed. Listed'
    BY <1>T, <1>S, <1>E, SchedulerAssumption DEF Listed, TypeOK, Ids, register_event
  <1>DistinctSources. DistinctSources'
    BY <1>T, <1>E DEF DistinctSources, Live
  <1>Nested. Nested'
    BY <1>T, <1>S, <1>D DEF Nested
  <1>Selecting. Selecting'
    BY <1>S, <1>D, <1>C DEF Selecting
  <1>MaskedIdle. MaskedIdle'
    BY <1>T, <1>U, <1>E, <1>C DEF MaskedIdle, NothingLeftBehind, Live
  <1>Quiet. Quiet'
    BY <1>U, <1>S DEF Quiet
  <1>NeverOversleeps. NeverOversleeps'
    BY <1>S, <1>D, <1>C DEF NeverOversleeps
  <1> QED BY <1>TypeOK, <1>CursorOnList, <1>NothingLeftBehind, <1>Listed, <1>DistinctSources, <1>Nested, <1>Selecting, <1>MaskedIdle, <1>Quiet, <1>NeverOversleeps DEF IInv

(* An unregistered event stays on the list.                                *)
LEMMA UnregisterStep ==
    ASSUME IInv, NEW id \in Ids, unregister_event(id)
    PROVE  IInv'
  <1>T. TypeOK /\ CursorOnList /\ NothingLeftBehind /\ Listed /\ DistinctSources /\ Nested
    BY DEF IInv
  <1>U. Selecting /\ MaskedIdle /\ Quiet /\ NeverOversleeps
    BY DEF IInv
  <1>S. stack' = stack /\ panicked' = panicked /\ fds' = fds /\ sleep' = sleep
    BY DEF unregister_event
  <1>D. Depth' = Depth /\ Top' = Top
    BY <1>S DEF Depth, Top
  <1>C. stack # <<>> => Top.cb /\ Top.pc # "select" /\ Depth \in Nat \ {0} /\ Top \in Frames
    BY <1>T, TopFacts DEF unregister_event, ClientRuns, Nested, Top
  <1>E. /\ events' = events /\ id \in events /\ events \in SUBSET Ids /\ ~ev[id].dead
        /\ ev' \in [Ids -> Events] /\ max_timeout' = max_timeout
        /\ \A other \in Ids : other # id => ev'[other] = ev[other]
        /\ ev'[id] = [ev[id] EXCEPT !.dead = TRUE]
        /\ ev'[id].polls = ev[id].polls /\ ev'[id].pending = ev[id].pending
        /\ ev'[id].timer = ev[id].timer
        /\ ev'[id].dead /\ ev'[id].masked = ev[id].masked
    <2>1. id \in events /\ events \in SUBSET Ids /\ ev \in [Ids -> Events] /\ ev[id] \in Events /\ ~ev[id].dead
      BY <1>T DEF TypeOK, unregister_event, Live
    <2>2. ev' = [ev EXCEPT ![id].dead = TRUE] /\ events' = events /\ max_timeout' = max_timeout
      BY DEF unregister_event
    <2> QED BY <2>1, <2>2 DEF Events
  <1>TypeOK. TypeOK'
    BY <1>T, <1>S, <1>D, <1>E, SchedulerAssumption DEF TypeOK, unregister_event
  <1>CursorOnList. CursorOnList'
    BY <1>T, <1>S, <1>D, <1>E DEF CursorOnList
  <1>NothingLeftBehind. NothingLeftBehind'
    BY <1>T, <1>S, <1>D, <1>E DEF NothingLeftBehind, Live
  <1>Listed. Listed'
    BY <1>T, <1>S, <1>E, SchedulerAssumption DEF Listed, TypeOK, Ids, unregister_event
  <1>DistinctSources. DistinctSources'
    <2>1. \A o \in events : ev'[o].polls = ev[o].polls /\ (ev[o].dead => ev'[o].dead)
      BY <1>E
    <2> QED BY <1>T, <1>E, <2>1 DEF DistinctSources, Live
  <1>Nested. Nested'
    BY <1>T, <1>S, <1>D DEF Nested
  <1>Selecting. Selecting'
    BY <1>S, <1>D, <1>C DEF Selecting
  <1>MaskedIdle. MaskedIdle'
    BY <1>T, <1>U, <1>E, <1>C DEF MaskedIdle, NothingLeftBehind, Live
  <1>Quiet. Quiet'
    BY <1>U, <1>S DEF Quiet
  <1>NeverOversleeps. NeverOversleeps'
    BY <1>S, <1>D, <1>C DEF NeverOversleeps
  <1> QED BY <1>TypeOK, <1>CursorOnList, <1>NothingLeftBehind, <1>Listed, <1>DistinctSources, <1>Nested, <1>Selecting, <1>MaskedIdle, <1>Quiet, <1>NeverOversleeps DEF IInv

(* A masked event that is no timer is not pending.                         *)
LEMMA MaskStep ==
    ASSUME IInv, NEW id \in Ids, NEW masked \in BOOLEAN, mask_event(id, masked)
    PROVE  IInv'
  <1>T. TypeOK /\ CursorOnList /\ NothingLeftBehind /\ Listed /\ DistinctSources /\ Nested
    BY DEF IInv
  <1>U. Selecting /\ MaskedIdle /\ Quiet /\ NeverOversleeps
    BY DEF IInv
  <1>S. stack' = stack /\ panicked' = panicked /\ fds' = fds /\ sleep' = sleep
    BY DEF mask_event
  <1>D. Depth' = Depth /\ Top' = Top
    BY <1>S DEF Depth, Top
  <1>C. stack # <<>> => Top.cb /\ Top.pc # "select" /\ Depth \in Nat \ {0} /\ Top \in Frames
    BY <1>T, TopFacts DEF mask_event, ClientRuns, Nested, Top
  <1>E. /\ events' = events /\ id \in events /\ events \in SUBSET Ids /\ ~ev[id].dead
        /\ ev' \in [Ids -> Events] /\ max_timeout' = max_timeout
        /\ \A other \in Ids : other # id => ev'[other] = ev[other]
        /\ ev'[id] = [ev[id] EXCEPT !.masked = masked]
        /\ ev'[id].polls = ev[id].polls /\ ev'[id].pending = ev[id].pending
        /\ ev'[id].timer = ev[id].timer
        /\ ev'[id].dead = ev[id].dead /\ ev'[id].masked = masked
    <2>1. id \in events /\ events \in SUBSET Ids /\ ev \in [Ids -> Events] /\ ev[id] \in Events /\ ~ev[id].dead
      BY <1>T DEF TypeOK, mask_event, Live
    <2>2. ev' = [ev EXCEPT ![id].masked = masked] /\ events' = events /\ max_timeout' = max_timeout
      BY DEF mask_event
    <2> QED BY <2>1, <2>2 DEF Events
  <1>M. masked /\ ~MaskTimers => ~ev[id].timer /\ ev[id].pending = {}
    <2> SUFFICES ASSUME masked, ~MaskTimers PROVE ~ev[id].timer /\ ev[id].pending = {}
      OBVIOUS
    <2>1. MayMask(id)
      BY DEF mask_event
    <2>2. ~ev[id].timer
      BY <2>1 DEF MayMask
    <2>3. ev[id].pending = {} \/ (stack # <<>> /\ Top.cur = id)
      BY <2>1, <2>2 DEF MayMask
    <2>4. CASE stack # <<>> /\ Top.cur = id
      <3>1. ev[id].pending # {} => id > Top.cur
        BY <1>T, <1>E, <2>4 DEF NothingLeftBehind, Live
      <3>2. id \in Int
        BY SchedulerAssumption DEF Ids
      <3> QED BY <2>2, <2>4, <3>1, <3>2
    <2> QED BY <2>2, <2>3, <2>4
  <1>TypeOK. TypeOK'
    BY <1>T, <1>S, <1>D, <1>E, SchedulerAssumption DEF TypeOK, mask_event
  <1>CursorOnList. CursorOnList'
    BY <1>T, <1>S, <1>D, <1>E DEF CursorOnList
  <1>NothingLeftBehind. NothingLeftBehind'
    BY <1>T, <1>S, <1>D, <1>E DEF NothingLeftBehind, Live
  <1>Listed. Listed'
    BY <1>T, <1>S, <1>E, SchedulerAssumption DEF Listed, TypeOK, Ids, mask_event
  <1>DistinctSources. DistinctSources'
    <2>1. \A o \in events : ev'[o].polls = ev[o].polls /\ (ev[o].dead => ev'[o].dead)
      BY <1>E
    <2> QED BY <1>T, <1>E, <2>1 DEF DistinctSources, Live
  <1>Nested. Nested'
    BY <1>T, <1>S, <1>D DEF Nested
  <1>Selecting. Selecting'
    BY <1>S, <1>D, <1>C DEF Selecting
  <1>MaskedIdle. MaskedIdle'
    BY <1>T, <1>U, <1>E, <1>C, <1>M DEF MaskedIdle, NothingLeftBehind, Live
  <1>Quiet. Quiet'
    BY <1>U, <1>S DEF Quiet
  <1>NeverOversleeps. NeverOversleeps'
    BY <1>S, <1>D, <1>C DEF NeverOversleeps
  <1> QED BY <1>TypeOK, <1>CursorOnList, <1>NothingLeftBehind, <1>Listed, <1>DistinctSources, <1>Nested, <1>Selecting, <1>MaskedIdle, <1>Quiet, <1>NeverOversleeps DEF IInv

(* The retry interval is set before select is entered.                     *)
LEMMA SetMaxTimeoutStep ==
    ASSUME IInv, NEW timeout \in Nat, set_max_timeout(timeout)
    PROVE  IInv'
  <1>T. TypeOK /\ CursorOnList /\ NothingLeftBehind /\ Listed /\ DistinctSources /\ Nested
    BY DEF IInv
  <1>U. Selecting /\ MaskedIdle /\ Quiet /\ NeverOversleeps
    BY DEF IInv
  <1>E. events' = events /\ ev' = ev /\ uuid' = uuid /\ panicked' = panicked
    BY DEF set_max_timeout
  <1>S. stack' = stack /\ fds' = fds /\ sleep' = sleep
    BY DEF set_max_timeout
  <1>D. Depth' = Depth /\ Top' = Top
    BY <1>S DEF Depth, Top
  <1>C. stack # <<>> => Top.pc # "select"
    BY <1>T, TopFacts DEF set_max_timeout, ClientRuns, Nested, Top
  <1>M. max_timeout' \in Nat
    <2>1. {max_timeout, timeout} \subseteq Nat /\ {max_timeout, timeout} # {}
      BY <1>T DEF TypeOK
    <2> QED BY <2>1, MinOfNats DEF set_max_timeout
  <1>TypeOK. TypeOK'
    BY <1>T, <1>S, <1>D, <1>E, <1>M DEF TypeOK
  <1>CursorOnList. CursorOnList'
    BY <1>T, <1>S, <1>D, <1>E DEF CursorOnList
  <1>NothingLeftBehind. NothingLeftBehind'
    BY <1>T, <1>S, <1>D, <1>E DEF NothingLeftBehind, Live
  <1>Listed. Listed'
    BY <1>T, <1>E DEF Listed
  <1>DistinctSources. DistinctSources'
    BY <1>T, <1>E DEF DistinctSources, Live
  <1>Nested. Nested'
    BY <1>T, <1>S, <1>D DEF Nested
  <1>Selecting. Selecting'
    BY <1>D, <1>S, <1>C DEF Selecting
  <1>MaskedIdle. MaskedIdle'
    BY <1>U, <1>E DEF MaskedIdle
  <1>Quiet. Quiet'
    BY <1>U, <1>E DEF Quiet
  <1>NeverOversleeps. NeverOversleeps'
    BY <1>D, <1>S, <1>C DEF NeverOversleeps
  <1> QED BY <1>TypeOK, <1>CursorOnList, <1>NothingLeftBehind, <1>Listed, <1>DistinctSources, <1>Nested, <1>Selecting, <1>MaskedIdle, <1>Quiet, <1>NeverOversleeps DEF IInv

(* A callback returns to its loop.                                         *)
LEMMA CallbackReturnsStep ==
    ASSUME IInv, callback_returns
    PROVE  IInv'
  <1>T. TypeOK /\ CursorOnList /\ NothingLeftBehind /\ Listed /\ DistinctSources /\ Nested
    BY DEF IInv
  <1>U. Selecting /\ MaskedIdle /\ Quiet /\ NeverOversleeps
    BY DEF IInv
  <1>E. events' = events /\ ev' = ev /\ uuid' = uuid /\ panicked' = panicked
    BY DEF callback_returns
  <1> DEFINE f == [Top EXCEPT !.cb = FALSE]
  <1>G. stack # <<>> /\ Depth \in Nat \ {0} /\ Top \in Frames /\ stack \in [1 .. Depth -> Frames] /\ Top.pc # "select"
    BY <1>T, TopFacts DEF callback_returns, Nested, Top
  <1>F. f \in Frames /\ stack' = [stack EXCEPT ![Depth] = f] /\ f.cur = Top.cur /\ f.pc = Top.pc /\ ~f.cb
    BY <1>G DEF callback_returns, Frames, Top
  <1> HIDE DEF f
  <1>R. /\ stack' \in Seq(Frames) /\ Depth' = Depth /\ stack' # <<>> /\ Top' = f
        /\ \A i \in 1 .. (Depth - 1) : stack'[i] = stack[i]
    BY <1>T, <1>F, <1>G, Replace
  <1>V. \A i \in 1 .. Depth : stack'[i] = IF i = Depth THEN f ELSE stack[i]
    BY <1>G, <1>R DEF Top
  <1>TypeOK. TypeOK'
    BY <1>T, <1>E, <1>R DEF TypeOK, callback_returns
  <1>CursorOnList. CursorOnList'
    BY <1>T, <1>E, <1>R, <1>V, <1>F, <1>G DEF CursorOnList, Top
  <1>NothingLeftBehind. NothingLeftBehind'
    BY <1>T, <1>E, <1>R, <1>F, <1>G DEF NothingLeftBehind, Live
  <1>Listed. Listed'
    BY <1>T, <1>E DEF Listed
  <1>DistinctSources. DistinctSources'
    BY <1>T, <1>E DEF DistinctSources, Live
  <1>Nested. Nested'
    BY <1>T, <1>R, <1>V, <1>F, <1>G DEF Nested
  <1>Selecting. Selecting'
    BY <1>R, <1>F, <1>G DEF Selecting
  <1>MaskedIdle. MaskedIdle'
    BY <1>U, <1>E DEF MaskedIdle
  <1>Quiet. Quiet'
    BY <1>U, <1>E DEF Quiet
  <1>NeverOversleeps. NeverOversleeps'
    BY <1>R, <1>F, <1>G DEF NeverOversleeps
  <1> QED BY <1>TypeOK, <1>CursorOnList, <1>NothingLeftBehind, <1>Listed, <1>DistinctSources, <1>Nested, <1>Selecting, <1>MaskedIdle, <1>Quiet, <1>NeverOversleeps DEF IInv

(* Select is entered when nothing is pending.                              *)
LEMMA PrepareStep ==
    ASSUME IInv, NEW below, prepare_events(below),
           stack' \in Seq(Frames), stack' # <<>>, Top' = Frame("select"), Depth' <= MaxDepth,
           \A i \in 1 .. (Depth' - 1) : /\ i \in 1 .. Depth /\ stack'[i] = stack[i]
                                        /\ stack[i].cb,
           \A id \in events : Live(id) => ev[id].pending = {}
    PROVE  IInv'
  <1>T. TypeOK /\ CursorOnList /\ NothingLeftBehind /\ Listed /\ DistinctSources /\ Nested
    BY DEF IInv
  <1>U. Selecting /\ MaskedIdle /\ Quiet /\ NeverOversleeps
    BY DEF IInv
  <1>E. events' = events /\ ev' = ev /\ uuid' = uuid /\ panicked' = panicked
    BY DEF prepare_events
  <1>F. /\ Top'.pc = "select" /\ Top'.cur = 0 /\ ~Top'.cb
        /\ Depth' \in Nat \ {0} /\ stack'[Depth'] = Top'
    BY DEF Frame, Depth, Top
  <1>M. max_timeout' = max_timeout /\ fds' = UNION {ev[id].polls : id \in Watched}
    BY DEF prepare_events
  <1>W. Watched' = Watched
    BY <1>E DEF Watched
  <1>Y. fds' \in SUBSET Sources
    BY <1>T, <1>M DEF TypeOK, Watched, Events
  <1>Z. /\ sleep' \in Nat /\ sleep' <= max_timeout
        /\ \A id \in Timers : /\ ev[id].left > 0 => sleep' <= ev[id].left
                              /\ ev[id].left <= 0 => sleep' = 0
    BY <1>T, SleepFacts
  <1>TypeOK. TypeOK'
    BY <1>T, <1>E, <1>Y, <1>Z, <1>M DEF TypeOK
  <1>CursorOnList. CursorOnList'
    BY <1>T, <1>E, <1>F DEF CursorOnList
  <1>NothingLeftBehind. NothingLeftBehind'
    BY <1>E DEF NothingLeftBehind, Live
  <1>Listed. Listed'
    BY <1>T, <1>E DEF Listed
  <1>DistinctSources. DistinctSources'
    BY <1>T, <1>E DEF DistinctSources, Live
  <1>Nested. Nested'
    <2>1. \A i \in 1 .. Depth' : i = Depth' \/ i \in 1 .. (Depth' - 1)
      <3>1. Depth' \in Nat \ {0}
        BY <1>F
      <3> QED BY <3>1, UpTo
    <2>2. \A i \in 1 .. (Depth' - 1) : stack'[i].cb /\ stack'[i].pc # "select"
      BY <1>T DEF Nested
    <2>3. \A i \in 1 .. Depth' : stack'[i].cb => stack'[i].pc # "select"
      BY <1>F, <2>1, <2>2
    <2> QED BY <2>2, <2>3 DEF Nested
  <1>Selecting. Selecting'
    BY <1>E, <1>M, <1>W DEF Selecting
  <1>MaskedIdle. MaskedIdle'
    BY <1>U, <1>E DEF MaskedIdle
  <1>Quiet. Quiet'
    BY <1>U, <1>E DEF Quiet
  <1>NeverOversleeps. NeverOversleeps'
    <2>1. sleep' <= max_timeout'
      BY <1>M, <1>Z
    <2>2. ASSUME NEW id \in Watched, ev[id].timer PROVE sleep' <= Max({ev[id].left, 0})
      <3>1. id \in Timers /\ ev[id].left \in Int
        BY <1>T, <2>2 DEF Timers, Watched, TypeOK, Events
      <3> QED BY <1>Z, <3>1, MaxZero
    <2> QED BY <1>E, <1>W, <2>1, <2>2 DEF NeverOversleeps
  <1> QED BY <1>TypeOK, <1>CursorOnList, <1>NothingLeftBehind, <1>Listed, <1>DistinctSources, <1>Nested, <1>Selecting, <1>MaskedIdle, <1>Quiet, <1>NeverOversleeps DEF IInv

(* Waiting, from the server's loop or from a callback.                     *)
LEMMA WaitStep ==
    ASSUME IInv, wait_for_events
    PROVE  IInv'
  <1>T. TypeOK /\ CursorOnList /\ NothingLeftBehind /\ Listed /\ DistinctSources /\ Nested
    BY DEF IInv
  <1>U. Selecting /\ MaskedIdle /\ Quiet /\ NeverOversleeps
    BY DEF IInv
  <1>K. Depth \in Nat /\ Depth < MaxDepth /\ MaxDepth \in Nat /\ stack \in Seq(Frames)
    BY <1>T, SchedulerAssumption DEF TypeOK, wait_for_events, Depth
  <1>Fr. \A pc \in {"nested", "select", "run"} : Frame(pc) \in Frames
    BY SchedulerAssumption DEF Frame, Frames
  <1>1. CASE stack = <<>> /\ prepare_events(stack)
    <2>1. stack' = Append(stack, Frame("select"))
      BY <1>1 DEF prepare_events
    <2>2. /\ stack' \in Seq(Frames) /\ Depth' = Depth + 1 /\ stack' # <<>> /\ Top' = Frame("select")
      BY <1>T, <1>Fr, <2>1, Push
    <2>3. Depth = 0
      BY <1>1 DEF Depth
    <2>4. \A id \in events : Live(id) => ev[id].pending = {}
      BY <1>1, <1>T DEF NothingLeftBehind
    <2>5. Depth' <= MaxDepth /\ \A i \in 1 .. (Depth' - 1) : FALSE
      BY <1>K, <2>2, <2>3
    <2> QED BY <1>1, <2>2, <2>4, <2>5, PrepareStep
  <1>2. CASE /\ stack # <<>>
             /\ stack' = Append(stack, Frame("nested"))
             /\ UNCHANGED <<events, ev, uuid, max_timeout, sleep, fds, panicked>>
    <2>1. /\ stack' \in Seq(Frames) /\ Depth' = Depth + 1 /\ stack' # <<>> /\ Top' = Frame("nested")
          /\ \A i \in 1 .. Depth : stack'[i] = stack[i]
      BY <1>T, <1>Fr, <1>2, Push
    <2>2. Top'.pc = "nested" /\ Top'.cur = 0 /\ ~Top'.cb /\ stack'[Depth'] = Top'
      BY <2>1 DEF Frame, Top
    <2>3. stack[Depth].cb
      BY <1>2 DEF wait_for_events, ClientRuns, Top
    <2>4. TypeOK'
      BY <1>T, <1>K, <1>2, <2>1 DEF TypeOK
    <2>50. \A i \in 1 .. Depth' : i = Depth' \/ (i \in 1 .. Depth /\ stack'[i] = stack[i])
      BY <1>K, <2>1
    <2>51. \A i \in 1 .. Depth : stack[i].cb
      BY <1>T, <1>K, <2>3 DEF Nested
    <2>5. CursorOnList'
      BY <1>T, <1>2, <2>2, <2>50 DEF CursorOnList
    <2>6. NothingLeftBehind'
      <3>1. \A id \in events : id > 0
        BY <1>T DEF TypeOK, Ids
      <3> QED BY <1>2, <2>1, <2>2, <3>1 DEF NothingLeftBehind, Live
    <2>7. Nested'
      <3>1. \A i \in 1 .. Depth' : stack'[i].cb => stack'[i].pc # "select"
        BY <1>T, <2>2, <2>50 DEF Nested
      <3>2. \A i \in 1 .. (Depth' - 1) : stack'[i].cb
        BY <1>K, <2>1, <2>51
      <3> QED BY <3>1, <3>2 DEF Nested
    <2>8. Selecting' /\ NeverOversleeps'
      BY <2>2 DEF Selecting, NeverOversleeps
    <2>9. Listed' /\ DistinctSources' /\ MaskedIdle' /\ Quiet'
      BY <1>T, <1>U, <1>2 DEF Listed, DistinctSources, MaskedIdle, Quiet, Live
    <2> QED BY <2>4, <2>5, <2>6, <2>7, <2>8, <2>9 DEF IInv
  <1> QED BY <1>1, <1>2 DEF wait_for_events

(* The first pending event ahead is dispatched.                            *)
LEMMA RunEventStep ==
    ASSUME IInv, run_event
    PROVE  IInv'
  <1>T. TypeOK /\ CursorOnList /\ NothingLeftBehind /\ Listed /\ DistinctSources /\ Nested
    BY DEF IInv
  <1>U. Selecting /\ MaskedIdle /\ Quiet /\ NeverOversleeps
    BY DEF IInv
  <1>G. stack # <<>> /\ Depth \in Nat \ {0} /\ Top \in Frames /\ stack \in [1 .. Depth -> Frames] /\ Top.pc # "select" /\ ~panicked
    BY <1>T, TopFacts DEF run_event, Running
  <1>P. PICK id \in Ahead(Top.cur) :
          /\ \A other \in Ahead(Top.cur) : id <= other
          /\ ev' = [ev EXCEPT ![id] = event_callback(id)]
          /\ stack' = [stack EXCEPT ![Depth] =
                       [pc |-> Top.pc, cur |-> id, dispatched |-> TRUE, cb |-> ~ev[id].masked]]
    BY DEF run_event
  <1>I. id \in events /\ id \in Ids /\ id \in Nat /\ id # 0 /\ ~ev[id].dead /\ id > Top.cur /\ ev[id] \in Events
    <2>1. id \in events /\ ~ev[id].dead /\ id > Top.cur
      BY <1>P DEF Ahead
    <2>2. id \in Ids /\ ev[id] \in Events
      BY <1>T, <2>1 DEF TypeOK
    <2>3. id \in Nat /\ id # 0
      BY <2>2, SchedulerAssumption DEF Ids
    <2> QED BY <2>1, <2>2, <2>3
  <1> DEFINE f == [pc |-> Top.pc, cur |-> id, dispatched |-> TRUE, cb |-> ~ev[id].masked]
  <1>F. f \in Frames /\ stack' = [stack EXCEPT ![Depth] = f] /\ f.cur = id /\ f.pc = Top.pc
    <2>1. f \in Frames
      BY <1>G, <1>I DEF Frames, Ids, Events
    <2>2. stack' = [stack EXCEPT ![Depth] = f]
      BY <1>P
    <2> QED BY <2>1, <2>2
  <1> HIDE DEF f
  <1>R. /\ stack' \in Seq(Frames) /\ Depth' = Depth /\ stack' # <<>> /\ Top' = f
        /\ \A i \in 1 .. (Depth - 1) : stack'[i] = stack[i]
    BY <1>T, <1>F, <1>G, Replace
  <1>V. \A i \in 1 .. Depth : stack'[i] = IF i = Depth THEN f ELSE stack[i]
    BY <1>G, <1>R DEF Top
  <1>E. /\ events' = events /\ uuid' = uuid /\ panicked' = panicked /\ max_timeout' = max_timeout
        /\ sleep' = sleep /\ fds' = fds
        /\ ev' \in [Ids -> Events]
        /\ \A o \in Ids : o # id => ev'[o] = ev[o]
        /\ ev'[id].pending = {} /\ ev'[id].polls = ev[id].polls /\ ev'[id].timer = ev[id].timer
        /\ ev'[id].dead = ev[id].dead /\ ev'[id].masked = ev[id].masked
    <2>1. events' = events /\ uuid' = uuid /\ panicked' = panicked /\ max_timeout' = max_timeout /\ sleep' = sleep /\ fds' = fds
      BY DEF run_event
    <2>2. /\ event_callback(id) \in Events /\ event_callback(id).pending = {}
          /\ event_callback(id).polls = ev[id].polls /\ event_callback(id).timer = ev[id].timer
          /\ event_callback(id).dead = ev[id].dead /\ event_callback(id).masked = ev[id].masked
      <3> DEFINE e1 == [ev[id] EXCEPT !.pending = {}]
                 e2 == [e1 EXCEPT !.left = ev[id].timeout]
      <3>1. e1 \in Events /\ ev[id].timeout \in Int
        BY <1>I DEF Events, Modes
      <3>2. e2 = event_callback(id)
        BY <1>I DEF event_callback, Events
      <3>3. e2 \in Events
        <4> HIDE DEF e1
        <4> QED BY <3>1 DEF Events
      <3>4. /\ event_callback(id).pending = {}
            /\ event_callback(id).polls = ev[id].polls /\ event_callback(id).timer = ev[id].timer
            /\ event_callback(id).dead = ev[id].dead /\ event_callback(id).masked = ev[id].masked
        BY <1>I DEF event_callback, Events
      <3> QED BY <3>2, <3>3, <3>4
    <2>3. ev \in [Ids -> Events]
      BY <1>T DEF TypeOK
    <2> QED BY <1>P, <1>I, <2>1, <2>2, <2>3
  <1>L. events \subseteq Ids
    BY <1>T DEF TypeOK
  <1>TypeOK. TypeOK'
    BY <1>T, <1>E, <1>R DEF TypeOK
  <1>CursorOnList. CursorOnList'
    BY <1>T, <1>E, <1>R, <1>V, <1>F, <1>G, <1>I DEF CursorOnList
  <1>NothingLeftBehind. NothingLeftBehind'
    <2> SUFFICES ASSUME NEW o \in events, ~ev'[o].dead, ev'[o].pending # {} PROVE o > id
      BY <1>E, <1>R, <1>F, <1>G DEF NothingLeftBehind, Live
    <2>1. o # id /\ ev'[o] = ev[o] /\ o \in Nat
      BY <1>E, <1>L, SchedulerAssumption DEF Ids
    <2>2. o > Top.cur
      BY <1>T, <2>1 DEF NothingLeftBehind, Live
    <2>3. o \in Ahead(Top.cur)
      BY <2>1, <2>2 DEF Ahead
    <2> QED BY <1>P, <1>I, <2>1, <2>3
  <1>Listed. Listed'
    BY <1>T, <1>E, <1>L, <1>I DEF Listed
  <1>DistinctSources. DistinctSources'
    <2>1. \A o \in events : ev'[o].polls = ev[o].polls /\ ev'[o].dead = ev[o].dead
      BY <1>E, <1>L
    <2> QED BY <1>T, <1>E, <2>1 DEF DistinctSources, Live
  <1>Nested. Nested'
    <2>1. \A i \in 1 .. (Depth - 1) : stack'[i] = stack[i]
      BY <1>R
    <2>2. \A i \in 1 .. Depth : i = Depth \/ i \in 1 .. (Depth - 1)
      BY <1>G
    <2> QED BY <1>T, <1>R, <1>V, <1>F, <1>G, <2>1, <2>2 DEF Nested
  <1>Selecting. Selecting'
    BY <1>R, <1>F, <1>G DEF Selecting
  <1>MaskedIdle. MaskedIdle'
    <2>1. \A o \in events : /\ ev'[o].masked = ev[o].masked /\ ev'[o].timer = ev[o].timer
                            /\ ev'[o].pending = ev[o].pending \/ ev'[o].pending = {}
      BY <1>E, <1>L
    <2> QED BY <1>U, <1>E, <2>1 DEF MaskedIdle
  <1>Quiet. Quiet'
    BY <1>U, <1>E DEF Quiet
  <1>NeverOversleeps. NeverOversleeps'
    BY <1>R, <1>F, <1>G DEF NeverOversleeps
  <1> QED BY <1>TypeOK, <1>CursorOnList, <1>NothingLeftBehind, <1>Listed, <1>DistinctSources, <1>Nested, <1>Selecting, <1>MaskedIdle, <1>Quiet, <1>NeverOversleeps DEF IInv

(* Returning to the callback that waited, with nothing pending.            *)
LEMMA PopStep ==
    ASSUME IInv, stack # <<>>, stack' = Below,
           UNCHANGED <<events, ev, uuid, max_timeout, sleep, fds, panicked>>,
           \A id \in events : Live(id) => ev[id].pending = {}
    PROVE  IInv'
  <1>T. TypeOK /\ CursorOnList /\ NothingLeftBehind /\ Listed /\ DistinctSources /\ Nested
    BY DEF IInv
  <1>U. Selecting /\ MaskedIdle /\ Quiet /\ NeverOversleeps
    BY DEF IInv
  <1>G. Depth \in Nat \ {0}
    BY <1>T, TopFacts
  <1>R. /\ stack' \in Seq(Frames) /\ Depth' = Depth - 1
        /\ \A i \in 1 .. (Depth - 1) : stack'[i] = stack[i]
        /\ Depth > 1 <=> stack' # <<>>
        /\ Depth > 1 => Top' = stack[Depth - 1]
    BY <1>T, Pop
  <1>N. stack' # <<>> => Top'.pc # "select"
    BY <1>T, <1>G, <1>R DEF Nested
  <1>1. TypeOK'
    BY <1>T, <1>G, <1>R, SchedulerAssumption DEF TypeOK
  <1>2. CursorOnList'
    BY <1>T, <1>G, <1>R DEF CursorOnList
  <1>3. NothingLeftBehind'
    BY DEF NothingLeftBehind, Live
  <1>4. Nested'
    <2>1. \A i \in 1 .. Depth' : i \in 1 .. (Depth - 1) /\ i \in 1 .. Depth
      BY <1>G, <1>R
    <2>2. \A i \in 1 .. (Depth' - 1) : i \in 1 .. (Depth - 1)
      BY <1>G, <1>R
    <2> QED BY <1>T, <1>R, <2>1, <2>2 DEF Nested
  <1>5. Selecting' /\ NeverOversleeps'
    BY <1>N DEF Selecting, NeverOversleeps
  <1>6. Listed' /\ DistinctSources' /\ MaskedIdle' /\ Quiet'
    BY <1>T, <1>U DEF Listed, DistinctSources, MaskedIdle, Quiet, Live
  <1> QED BY <1>1, <1>2, <1>3, <1>4, <1>5, <1>6 DEF IInv

(* At the end of a loop nothing is pending.                                *)
LEMMA LoopDone ==
    ASSUME IInv, stack # <<>>, Ahead(Top.cur) = {}
    PROVE  \A id \in events : Live(id) => ev[id].pending = {}
  BY DEF IInv, NothingLeftBehind, Ahead, Live

(* The first loop of a nested invocation ends.                             *)
LEMMA NestedRunEndsStep ==
    ASSUME IInv, nested_run_ends
    PROVE  IInv'
  <1>T. TypeOK /\ CursorOnList /\ NothingLeftBehind /\ Listed /\ DistinctSources /\ Nested
    BY DEF IInv
  <1>U. Selecting /\ MaskedIdle /\ Quiet /\ NeverOversleeps
    BY DEF IInv
  <1>1. stack # <<>> /\ Ahead(Top.cur) = {}
    BY DEF nested_run_ends, Running
  <1>2. \A id \in events : Live(id) => ev[id].pending = {}
    BY <1>1, LoopDone
  <1>3. CASE stack' = Below /\ UNCHANGED <<events, ev, uuid, max_timeout, sleep, fds, panicked>>
    BY <1>1, <1>2, <1>3, PopStep
  <1>4. CASE prepare_events(Below)
    <2>1. stack' = Append(Below, Frame("select"))
      BY <1>4 DEF prepare_events
    <2>2. Frame("select") \in Frames
      BY SchedulerAssumption DEF Frame, Frames
    <2>3. /\ stack' \in Seq(Frames) /\ Depth' = Depth
          /\ \A i \in 1 .. (Depth - 1) : stack'[i] = stack[i]
          /\ stack' # <<>> /\ Top' = Frame("select")
      BY <1>T, <1>1, <2>1, <2>2, PopPush
    <2>4. Depth \in Nat \ {0} /\ Depth <= MaxDepth
      BY <1>T, <1>1, TopFacts DEF TypeOK
    <2>5. \A i \in 1 .. (Depth' - 1) : i \in 1 .. Depth /\ stack'[i] = stack[i] /\ stack[i].cb
      BY <1>T, <2>3, <2>4 DEF Nested
    <2> QED BY <1>2, <1>4, <2>3, <2>4, <2>5, PrepareStep
  <1> QED BY <1>3, <1>4 DEF nested_run_ends

(* An interrupted select.                                                  *)
LEMMA SelectFailsStep ==
    ASSUME IInv, select_fails
    PROVE  IInv'
  <1>1. stack # <<>> /\ Top.pc = "select"
    BY DEF select_fails, Running
  <1>2. \A id \in events : Live(id) => ev[id].pending = {}
    BY <1>1 DEF IInv, NothingLeftBehind
  <1> QED BY <1>1, <1>2, PopStep DEF select_fails

(* Ready events become pending; no masked one does unless it is a timer.   *)
LEMMA SelectReturnsStep ==
    ASSUME IInv, NEW ready \in SUBSET Sources, select_returns(ready)
    PROVE  IInv'
  <1>T. TypeOK /\ CursorOnList /\ NothingLeftBehind /\ Listed /\ DistinctSources /\ Nested
    BY DEF IInv
  <1>U. Selecting /\ MaskedIdle /\ Quiet /\ NeverOversleeps
    BY DEF IInv
  <1>G. stack # <<>> /\ Depth \in Nat \ {0} /\ Top \in Frames /\ stack \in [1 .. Depth -> Frames] /\ Top.pc = "select" /\ ready \subseteq fds /\ ~panicked
    BY <1>T, TopFacts DEF select_returns, Running
  <1> DEFINE f == Frame("run")
             now == AfterFds(ready)
  <1>F. f \in Frames /\ stack' = [stack EXCEPT ![Depth] = f] /\ f.cur = 0 /\ f.pc = "run" /\ ~f.cb
    BY SchedulerAssumption DEF select_returns, Frames, Frame
  <1> HIDE DEF f
  <1>R. /\ stack' \in Seq(Frames) /\ Depth' = Depth /\ stack' # <<>> /\ Top' = f
        /\ \A i \in 1 .. (Depth - 1) : stack'[i] = stack[i]
    BY <1>T, <1>F, <1>G, Replace
  <1>V. \A i \in 1 .. Depth : stack'[i] = IF i = Depth THEN f ELSE stack[i]
    BY <1>G, <1>R DEF Top
  <1>X. /\ events' = events /\ uuid' = uuid /\ max_timeout' = MaxTimeout /\ sleep' = MaxTimeout /\ fds' = fds
        /\ panicked' = BUG_ON(now, ready) /\ ev' = check_timeouts(now, ready)
    BY DEF select_returns
  <1>L. events \subseteq Ids /\ ev \in [Ids -> Events] /\ \A id \in Ids : ev[id] \in Events
    BY <1>T DEF TypeOK
  <1>N. \A id \in Ids :
          /\ now[id] \in Events
          /\ now[id].polls = ev[id].polls /\ now[id].dead = ev[id].dead
          /\ now[id].masked = ev[id].masked /\ now[id].timer = ev[id].timer
          /\ ~Live(id) => now[id] = ev[id]
          /\ Live(id) => now[id].pending = ev[id].pending \cup (ev[id].polls \cap ready)
    <2> SUFFICES ASSUME NEW id \in Ids
                 PROVE  /\ now[id] \in Events
                        /\ now[id].polls = ev[id].polls /\ now[id].dead = ev[id].dead
                        /\ now[id].masked = ev[id].masked /\ now[id].timer = ev[id].timer
                        /\ ~Live(id) => now[id] = ev[id]
                        /\ Live(id) => now[id].pending = ev[id].pending \cup (ev[id].polls \cap ready)
      OBVIOUS
    <2>1. now[id] = IF Live(id) THEN [ev[id] EXCEPT !.pending = @ \cup (ev[id].polls \cap ready)] ELSE ev[id]
      BY DEF AfterFds
    <2>2. ev[id] \in Events
      BY <1>L
    <2> HIDE DEF now
    <2>3. CASE Live(id)
      BY <2>1, <2>2, <2>3 DEF Events, Modes
    <2> QED BY <2>1, <2>2, <2>3
  <1> HIDE DEF now
  <1>E. /\ ev' \in [Ids -> Events]
        /\ \A id \in Ids :
             /\ ev'[id].polls = ev[id].polls /\ ev'[id].dead = ev[id].dead
             /\ ev'[id].masked = ev[id].masked /\ ev'[id].timer = ev[id].timer
             /\ ~Live(id) => ev'[id] = ev[id]
             /\ ~ev[id].timer => ev'[id] = now[id]
    <2>1. \A id \in Ids : ev'[id] = IF Live(id) /\ Expired(now[id])
                                    THEN [now[id] EXCEPT !.pending = {"timeout"}] ELSE now[id]
      BY <1>X DEF check_timeouts
    <2>2. \A id \in Ids : [now[id] EXCEPT !.pending = {"timeout"}] \in Events
      BY <1>N DEF Events, Modes
    <2>3. ev' \in [Ids -> Events]
      BY <1>N, <1>X, <2>2 DEF check_timeouts
    <2>4. \A id \in Ids : ~ev[id].timer => ~Expired(now[id])
      BY <1>N DEF Expired
    <2>5. ASSUME NEW id \in Ids
          PROVE  /\ ev'[id].polls = ev[id].polls /\ ev'[id].dead = ev[id].dead
                 /\ ev'[id].masked = ev[id].masked /\ ev'[id].timer = ev[id].timer
      <3>1. now[id] \in Events
        BY <1>N
      <3> QED BY <1>N, <2>1, <3>1 DEF Events
    <2> QED BY <1>N, <2>1, <2>3, <2>4, <2>5
  <1>M. ~MaskTimers => \A id \in events : ev[id].masked => ~ev[id].timer /\ now[id].pending = {}
    <2> SUFFICES ASSUME ~MaskTimers, NEW id \in events, ev[id].masked
                 PROVE  ~ev[id].timer /\ now[id].pending = {}
      OBVIOUS
    <2>1. ~ev[id].timer /\ ev[id].pending = {} /\ id \in Ids
      BY <1>U, <1>L DEF MaskedIdle
    <2>2. CASE Live(id)
      <3>1. fds = UNION {ev[w].polls : w \in Watched}
        BY <1>U, <1>G DEF Selecting
      <3>2. ASSUME NEW s \in ready, s \in ev[id].polls PROVE FALSE
        <4>1. PICK w \in Watched : s \in ev[w].polls
          BY <1>G, <3>1
        <4>2. w # id /\ Live(w) /\ w \in events
          BY <4>1 DEF Watched, Live
        <4> QED BY <1>T, <2>2, <3>2, <4>1, <4>2 DEF DistinctSources
      <3>3. ev[id].polls \cap ready = {}
        BY <3>2
      <3> QED BY <1>N, <2>1, <2>2, <3>3
    <2> QED BY <1>N, <2>1, <2>2
  <1>TypeOK. TypeOK'
    BY <1>T, <1>E, <1>R, <1>X, SchedulerAssumption DEF TypeOK, BUG_ON
  <1>CursorOnList. CursorOnList'
    <2>1. \A i \in 1 .. Depth : i = Depth \/ i \in 1 .. (Depth - 1)
      BY <1>G, UpTo
    <2> QED BY <1>T, <1>X, <1>R, <1>V, <1>F, <1>G, <2>1 DEF CursorOnList
  <1>NothingLeftBehind. NothingLeftBehind'
    <2>1. \A id \in events : id > 0
      BY <1>L, SchedulerAssumption DEF Ids
    <2> QED BY <1>X, <1>R, <1>F, <2>1 DEF NothingLeftBehind
  <1>Listed. Listed'
    BY <1>T, <1>E, <1>X, <1>L DEF Listed, Live
  <1>DistinctSources. DistinctSources'
    BY <1>T, <1>E, <1>X, <1>L DEF DistinctSources, Live
  <1>Nested. Nested'
    <2>1. \A i \in 1 .. Depth : i = Depth \/ i \in 1 .. (Depth - 1)
      BY <1>G, UpTo
    <2> QED BY <1>T, <1>R, <1>V, <1>F, <1>G, <2>1 DEF Nested
  <1>Selecting. Selecting'
    BY <1>R, <1>F DEF Selecting
  <1>MaskedIdle. MaskedIdle'
    BY <1>E, <1>X, <1>L, <1>M DEF MaskedIdle
  <1>Quiet. Quiet'
    <2>1. \A s \in fds : \E id \in events : ~ev[id].dead /\ s \in ev[id].polls
      <3>1. fds = UNION {ev[w].polls : w \in Watched}
        BY <1>U, <1>G DEF Selecting
      <3> QED BY <3>1 DEF Watched
    <2>2. ready \subseteq UNION {ev[id].polls : id \in {e \in events : ~ev[e].dead}}
      BY <1>G, <2>1
    <2>3. ~MaskTimers => ~BUG_ON(now, ready)
      BY <1>L, <1>N, <1>M, <2>2 DEF BUG_ON
    <2> QED BY <1>X, <2>3 DEF Quiet
  <1>NeverOversleeps. NeverOversleeps'
    BY <1>R, <1>F DEF NeverOversleeps
  <1> QED BY <1>TypeOK, <1>CursorOnList, <1>NothingLeftBehind, <1>Listed, <1>DistinctSources, <1>Nested, <1>Selecting, <1>MaskedIdle, <1>Quiet, <1>NeverOversleeps DEF IInv

(* The loop after select ends; the outermost invocation frees dead events. *)
LEMMA RunEndsStep ==
    ASSUME IInv, run_ends
    PROVE  IInv'
  <1>T. TypeOK /\ CursorOnList /\ NothingLeftBehind /\ Listed /\ DistinctSources /\ Nested
    BY DEF IInv
  <1>U. Selecting /\ MaskedIdle /\ Quiet /\ NeverOversleeps
    BY DEF IInv
  <1>1. stack # <<>> /\ Ahead(Top.cur) = {} /\ Depth \in Nat \ {0}
    BY <1>T, TopFacts DEF run_ends, Running
  <1>2. \A id \in events : Live(id) => ev[id].pending = {}
    BY <1>1, LoopDone
  <1>3. CASE Depth # 1
    BY <1>1, <1>2, <1>3, PopStep DEF run_ends, gc_events
  <1>4. CASE Depth = 1
    <2>1. /\ events' = events \ Dead
          /\ ev' = [id \in Ids |-> IF id \in Dead THEN Freed ELSE ev[id]]
          /\ stack' = Below
          /\ UNCHANGED <<uuid, max_timeout, sleep, fds, panicked>>
      BY <1>4 DEF run_ends, gc_events
    <2>2. stack' \in Seq(Frames) /\ Depth' = 0 /\ stack' = <<>>
      BY <1>T, <1>1, <1>4, <2>1, Pop
    <2>3. Freed \in Events
      BY DEF Freed, NewEvent, Events, Modes
    <2>4. events \subseteq Ids /\ ev \in [Ids -> Events] /\ Dead \subseteq events
      BY <1>T DEF TypeOK, Dead
    <2>5. \A id \in events' : ev'[id] = ev[id] /\ id \in events /\ ~ev[id].dead
      BY <2>1, <2>4 DEF Dead
    <2>6. TypeOK'
      BY <1>T, <2>1, <2>2, <2>3, <2>4, SchedulerAssumption DEF TypeOK
    <2>7. CursorOnList' /\ Nested' /\ Selecting' /\ NeverOversleeps'
      BY <2>2 DEF CursorOnList, Nested, Selecting, NeverOversleeps
    <2>8. NothingLeftBehind'
      BY <1>2, <2>5 DEF NothingLeftBehind, Live
    <2>9. Listed'
      BY <1>T, <2>1, <2>4, <2>5 DEF Listed
    <2>10. DistinctSources'
      BY <1>T, <2>5 DEF DistinctSources, Live
    <2>11. MaskedIdle' /\ Quiet'
      BY <1>U, <2>1, <2>5 DEF MaskedIdle, Quiet
    <2> QED BY <2>6, <2>7, <2>8, <2>9, <2>10, <2>11 DEF IInv
  <1> QED BY <1>3, <1>4

(* Time passes for deadlines and for select alike.                         *)
LEMMA TickStep ==
    ASSUME IInv, tick
    PROVE  IInv'
  <1>T. TypeOK /\ CursorOnList /\ NothingLeftBehind /\ Listed /\ DistinctSources /\ Nested
    BY DEF IInv
  <1>U. Selecting /\ MaskedIdle /\ Quiet /\ NeverOversleeps
    BY DEF IInv
  <1>S. stack' = stack /\ panicked' = panicked /\ fds' = fds /\ events' = events /\ uuid' = uuid /\ max_timeout' = max_timeout
    BY DEF tick
  <1>D. Depth' = Depth /\ Top' = Top
    BY <1>S DEF Depth, Top
  <1>L. events \subseteq Ids /\ ev \in [Ids -> Events] /\ \A id \in Ids : ev[id] \in Events
    BY <1>T DEF TypeOK
  <1>N. sleep \in Nat /\ sleep' \in Nat
    BY <1>T DEF TypeOK, tick
  <1>E. /\ ev' \in [Ids -> Events]
        /\ \A id \in Ids :
             /\ ev'[id].polls = ev[id].polls /\ ev'[id].dead = ev[id].dead
             /\ ev'[id].masked = ev[id].masked /\ ev'[id].timer = ev[id].timer
             /\ ev'[id].pending = ev[id].pending /\ (~ev[id].timer => ev'[id] = ev[id])
             /\ ev[id].left \in Int
             /\ ev[id].timer => ev'[id].left = IF ev[id].left >= 0 THEN ev[id].left - 1 ELSE ev[id].left
    <2> DEFINE l(id) == IF ev[id].timer /\ ev[id].left >= 0 THEN ev[id].left - 1 ELSE ev[id].left
               e(id) == [ev[id] EXCEPT !.left = l(id)]
    <2>1. ev' = [id \in Ids |-> e(id)]
      BY DEF tick
    <2>2. ASSUME NEW id \in Ids
          PROVE  /\ e(id) \in Events
                 /\ e(id).polls = ev[id].polls /\ e(id).dead = ev[id].dead
                 /\ e(id).masked = ev[id].masked /\ e(id).timer = ev[id].timer
                 /\ e(id).pending = ev[id].pending /\ ev[id].left \in Int
                 /\ e(id).left = l(id)
                 /\ l(id) = ev[id].left => e(id) = ev[id]
      <3>1. ev[id] \in Events
        BY <1>L
      <3>2. ev[id].left \in Int /\ ev[id].timer \in BOOLEAN
        BY <3>1 DEF Events
      <3>3. l(id) \in Int
        BY <3>2
      <3> HIDE DEF l
      <3> QED BY <3>1, <3>2, <3>3 DEF Events
    <2> HIDE DEF e
    <2>3. ev' \in [Ids -> Events] /\ \A id \in Ids : ev'[id] = e(id)
      BY <2>1, <2>2
    <2> QED BY <2>2, <2>3
  <1>TypeOK. TypeOK'
    BY <1>T, <1>S, <1>D, <1>E, <1>N DEF TypeOK
  <1>CursorOnList. CursorOnList'
    BY <1>T, <1>S, <1>D DEF CursorOnList
  <1>NothingLeftBehind. NothingLeftBehind'
    BY <1>T, <1>S, <1>D, <1>E, <1>L DEF NothingLeftBehind, Live
  <1>Listed. Listed'
    <2>1. ~Freed.timer
      BY DEF Freed, NewEvent
    <2> QED BY <1>T, <1>S, <1>E, <1>L, <2>1 DEF Listed
  <1>DistinctSources. DistinctSources'
    BY <1>T, <1>S, <1>E, <1>L DEF DistinctSources, Live
  <1>Nested. Nested'
    BY <1>T, <1>S, <1>D DEF Nested
  <1>Selecting. Selecting'
    <2>1. Watched' = Watched
      BY <1>S, <1>E, <1>L DEF Watched
    <2>2. \A id \in Watched : ev'[id].polls = ev[id].polls
      BY <1>E, <1>L DEF Watched
    <2>3. {ev'[id].polls : id \in Watched} = {ev[id].polls : id \in Watched}
      BY <2>2
    <2> QED BY <1>U, <1>S, <1>D, <2>1, <2>3 DEF Selecting
  <1>MaskedIdle. MaskedIdle'
    BY <1>U, <1>S, <1>E, <1>L DEF MaskedIdle
  <1>Quiet. Quiet'
    BY <1>U, <1>S DEF Quiet
  <1>NeverOversleeps. NeverOversleeps'
    <2> SUFFICES ASSUME stack # <<>>, Top.pc = "select"
                 PROVE  /\ sleep' <= max_timeout
                        /\ \A id \in Watched' : ev'[id].timer => sleep' <= Max({ev'[id].left, 0})
      BY <1>S, <1>D DEF NeverOversleeps
    <2>1. ~Top.cb
      BY <1>T, TopFacts DEF Nested, Top
    <2>2. sleep' = IF sleep > 0 THEN sleep - 1 ELSE sleep
      BY <2>1 DEF tick, Running
    <2>3. sleep' <= max_timeout /\ max_timeout \in Nat
      BY <1>T, <1>U, <1>N, <2>2 DEF NeverOversleeps, TypeOK
    <2>4. Watched' = Watched
      BY <1>S, <1>E, <1>L DEF Watched
    <2>5. ASSUME NEW id \in Watched, ev'[id].timer PROVE sleep' <= Max({ev'[id].left, 0})
      <3>1. id \in Ids /\ ev[id].timer /\ ev[id].left \in Int
        BY <1>E, <1>L, <2>5 DEF Watched
      <3>2. sleep <= Max({ev[id].left, 0})
        BY <1>U, <2>5, <3>1 DEF NeverOversleeps
      <3>3. Max({ev[id].left, 0}) = IF ev[id].left > 0 THEN ev[id].left ELSE 0
        BY <3>1, MaxZero
      <3>4. ev'[id].left = IF ev[id].left >= 0 THEN ev[id].left - 1 ELSE ev[id].left
        BY <1>E, <3>1
      <3>5. ev'[id].left \in Int
        BY <3>1, <3>4
      <3>6. Max({ev'[id].left, 0}) = IF ev'[id].left > 0 THEN ev'[id].left ELSE 0
        BY <3>5, MaxZero
      <3> QED BY <1>N, <2>2, <3>1, <3>2, <3>3, <3>4, <3>6
    <2> QED BY <2>3, <2>4, <2>5
  <1> QED BY <1>TypeOK, <1>CursorOnList, <1>NothingLeftBehind, <1>Listed, <1>DistinctSources, <1>Nested, <1>Selecting, <1>MaskedIdle, <1>Quiet, <1>NeverOversleeps DEF IInv

-----------------------------------------------------------------------------
(* The inductive invariant holds in every state: the loops of nested       *)
(* invocations, the pending events and select's arguments fit together.    *)
THEOREM Invariance == Spec => []IInv
  <1>1. Init => IInv
    BY InitIInv
  <1>2. IInv /\ [Next]_vars => IInv'
    <2> SUFFICES ASSUME IInv, [Next]_vars PROVE IInv'
      OBVIOUS
    <2>1. CASE Client
      <3>1. CASE \E polls \in SUBSET Sources : register_event(polls, FALSE, 0)
        BY <3>1, RegisterStep
      <3>2. CASE \E polls \in SUBSET Sources, timeout \in Timeouts : register_event(polls, TRUE, timeout)
        BY <3>2, RegisterStep, SchedulerAssumption
      <3>3. CASE \E id \in Ids : unregister_event(id)
        BY <3>3, UnregisterStep
      <3>4. CASE \E id \in Ids, masked \in BOOLEAN : mask_event(id, masked)
        BY <3>4, MaskStep
      <3>5. CASE \E timeout \in Timeouts : set_max_timeout(timeout)
        BY <3>5, SetMaxTimeoutStep, SchedulerAssumption
      <3> QED BY <2>1, <3>1, <3>2, <3>3, <3>4, <3>5 DEF Client
    <2>2. CASE Loop
      BY <2>2, RunEventStep, NestedRunEndsStep, RunEndsStep, SelectReturnsStep DEF Loop
    <2>3. CASE wait_for_events \/ callback_returns \/ select_fails \/ tick
      BY <2>3, WaitStep, CallbackReturnsStep, SelectFailsStep, TickStep
    <2>4. CASE UNCHANGED vars
      BY <2>4 DEF vars, IInv, TypeOK, CursorOnList, NothingLeftBehind, Listed, DistinctSources,
         Nested, Selecting, MaskedIdle, Quiet, NeverOversleeps, Live, Depth, Top, Watched
    <2> QED BY <2>1, <2>2, <2>3, <2>4 DEF Next
  <1> QED BY <1>1, <1>2, PTL DEF Spec

(* The scheduler's state is well typed; in particular the time-out given   *)
(* to select is never negative.                                            *)
THEOREM TypeCorrect == Spec => []TypeOK
  <1>1. IInv => TypeOK
    BY DEF IInv
  <1> QED BY <1>1, Invariance, PTL

(* No loop of scheduler_run_events stands at an event that was freed.      *)
THEOREM CursorsSafe == Spec => []CursorOnList
  <1>1. IInv => CursorOnList
    BY DEF IInv
  <1> QED BY <1>1, Invariance, PTL

(* Nested invocations neither lose nor repeat an event.                    *)
THEOREM PendingDelivered == Spec => []NothingLeftBehind
  <1>1. IInv => NothingLeftBehind
    BY DEF IInv
  <1> QED BY <1>1, Invariance, PTL

(* select wakes up in time for every timer.                                *)
THEOREM WakesInTime == Spec => []NeverOversleeps
  <1>1. IInv => NeverOversleeps
    BY DEF IInv
  <1> QED BY <1>1, Invariance, PTL

(* Without masked timers no BUG_ON of the scheduler triggers.              *)
THEOREM NeverPanics ==
    ASSUME ~MaskTimers
    PROVE  Spec => []NoPanic
  <1>1. IInv => NoPanic
    BY DEF IInv, Quiet, NoPanic
  <1> QED BY <1>1, Invariance, PTL
=============================================================================
