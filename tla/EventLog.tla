------------------------------ MODULE EventLog ------------------------------
(***************************************************************************)
(* The event log of one task (packet28-daemon-core storage.rs and          *)
(* storage/event_tail.rs), its publication to subscribers of the daemon    *)
(* (packet28d broker/support.rs and server.rs) and its readers in MCP      *)
(* sessions (suite-cli cmd_mcp_notifications.rs, cmd_mcp.rs).              *)
(*                                                                         *)
(* The log, not the registry, allocates sequence numbers.  An append is a  *)
(* write and a sync under the exclusive lock of the file; a kill or a      *)
(* power failure may come between them.  A subscriber gets what the log    *)
(* holds up to the high-water mark at its registration, and then what is   *)
(* published through a bounded queue; a session polls the file by offset.  *)
(***************************************************************************)
EXTENDS Naturals, Sequences, FiniteSets

CONSTANTS
    Clients,            \* subscribers of the daemon
    Sessions,           \* MCP sessions
    QueueCapacity,      \* subscriber_queue_capacity
    PageFrames,         \* MAX_TASK_EVENT_PAGE_FRAMES
    MaxEvents,          \* bound on events submitted
    Scenarios,          \* who reads, and bounds on what the environment does
    None

ASSUME EventLogAssumption ==
    /\ IsFiniteSet(Clients) /\ IsFiniteSet(Sessions)
    /\ QueueCapacity \in Nat \ {0} /\ PageFrames \in Nat \ {0}
    /\ MaxEvents \in Nat
    /\ \A s \in Scenarios :
          /\ s.readers \subseteq Clients \cup Sessions
          /\ s.events \in 0 .. MaxEvents
          /\ s.faults \in Nat       \* failed appends
          /\ s.kills \in Nat        \* kills of the daemon
          /\ s.powers \in Nat       \* power failures
          /\ s.drops \in Nat        \* connections that break
          /\ s.inits \in Nat        \* MCP initialize requests
          /\ s.rollbacks \in Nat    \* removals of the log of a failed admission

VARIABLES
    log,        \* complete frames in the file
    torn,       \* the file ends in a partial frame
    synced,     \* number of frames that a power failure cannot take
    writing,    \* the event whose append holds the lock of the file, or None
    registry,   \* last_event_seq in the durable registry
    up,         \* the daemon serves
    high,       \* last_event_seq in memory
    lane,       \* frame appended and not yet published, or None
    stream,     \* state of each client's subscription
    listed,     \* clients in the subscriber list of the daemon
    queue,      \* frames in each subscriber's channel
    replay,     \* frames of the log still to be sent to each client
    got,        \* frames each client has received
    session,    \* state of each MCP session: untracked, idle, polling, reading, failed
    initializing,   \* sessions whose initialize request holds their mutex
    seen, offset,   \* their tracked_tasks and tracked_task_offsets entries
    page,       \* what the notification pass of each remembers and has read
    from,       \* ghost: frames that it was told to skip
    heard,      \* frames it has passed on
    acked,      \* ghost: frames whose publisher was told Ok
    limits,     \* the scenario
    events, faults, kills, powers, drops, inits, rollbacks

file == <<log, torn, synced, writing>>
daemon == <<registry, up, high, lane, acked>>
subs == <<stream, listed, queue, replay, got>>
mcp == <<session, initializing, seen, offset, page, from, heard>>
bounds == <<events, faults, kills, powers, drops, inits, rollbacks>>
moves == <<file, daemon, subs, mcp, bounds>>
vars == <<moves, limits>>

Frames == [seq : 1 .. MaxEvents, event : 1 .. MaxEvents]
Offsets == [log : Nat, frames : Nat, mid : BOOLEAN]
Passes == [seen : Nat, offset : Offsets, next : Offsets, frames : Seq(Frames)]

ASSUME NoneIsNoValue ==
    /\ None \notin Nat /\ None \notin Frames /\ None \notin Seq(Frames) /\ None \notin Passes

-----------------------------------------------------------------------------
(* Appending *)

\* Sequence number of the last complete frame.
TailSequence == IF log = <<>> THEN 0 ELSE log[Len(log)].seq

NextSequence == TailSequence + 1

\* inspect_locked_task_event_tail: every complete frame continues the one before.
Contiguous == \A i \in DOMAIN log : log[i].seq = i

Unlocked == writing = None

\* The lock is taken, the log is inspected, a partial frame is cut off and that is
\* synced, and the new frame is handed to the file system.
WriteEvent ==
    /\ up /\ lane = None /\ Unlocked /\ Contiguous
    /\ events < limits.events
    /\ events' = events + 1
    /\ log' = Append(log, [seq |-> NextSequence, event |-> events + 1])
    /\ torn' = FALSE
    /\ writing' = events + 1
    /\ UNCHANGED <<synced, daemon, subs, mcp, faults, kills, powers, drops, inits, rollbacks>>

\* Fault: the frame is acknowledged before it is synced.
Unsynced == synced' = synced

SyncEvent == synced' = Len(log)

\* The append succeeds.
Synced ==
    /\ ~Unlocked /\ up
    /\ SyncEvent
    /\ writing' = None
    /\ lane' = log[Len(log)]
    /\ UNCHANGED <<log, torn, registry, up, high, acked, subs, mcp, bounds>>

\* What an append that does not end leaves: nothing, a partial frame or the frame.
Interrupted(frames, partial) ==
    IF Unlocked THEN frames = log /\ partial = torn
    ELSE \/ frames = log /\ ~partial
         \/ frames = SubSeq(log, 1, Len(log) - 1) /\ partial \in BOOLEAN

\* The write or the sync fails; the caller gets an error and nothing is published.
AppendFails ==
    /\ ~Unlocked /\ up
    /\ faults < limits.faults
    /\ faults' = faults + 1
    /\ \E frames \in {log, SubSeq(log, 1, Len(log) - 1)}, partial \in BOOLEAN :
          /\ Interrupted(frames, partial)
          /\ log' = frames
          /\ torn' = partial
    /\ writing' = None
    /\ UNCHANGED <<synced, daemon, subs, mcp, events, kills, powers, drops, inits, rollbacks>>

-----------------------------------------------------------------------------
(* Publication *)

\* Fault: a subscriber that lags loses the frame and stays.
KeepsLagging(c) == TRUE

\* try_send: a subscriber with a full queue is dropped from the list.
KeepsUp(c) == Len(queue[c]) < QueueCapacity

\* The section of emit_task_event_for_generation after the append.
Publish ==
    /\ up /\ lane # None /\ lane.seq >= high
    /\ high' = lane.seq
    /\ queue' = [c \in Clients |->
                   IF c \in listed /\ Len(queue[c]) < QueueCapacity
                   THEN Append(queue[c], lane) ELSE queue[c]]
    /\ listed' = {c \in listed : KeepsUp(c)}
    /\ acked' = acked \cup {lane}
    /\ lane' = None
    /\ UNCHANGED <<file, registry, up, stream, replay, got, mcp, bounds>>

\* Fault: the high-water mark is durable before the frame is.
PersistEarly ==
    /\ up /\ registry # TailSequence
    /\ registry' = TailSequence
    /\ UNCHANGED <<file, up, high, lane, acked, subs, mcp, bounds>>

\* The staged high-water mark becomes durable.
Persist ==
    /\ up /\ registry # high
    /\ registry' = high
    /\ UNCHANGED <<file, up, high, lane, acked, subs, mcp, bounds>>

-----------------------------------------------------------------------------
(* Subscriptions *)

Cursor(c) == IF got[c] = <<>> THEN 0 ELSE got[c][Len(got[c])].seq

\* handle_task_subscribe: registration and the snapshot of the high-water mark.
Subscribe(c) ==
    /\ up /\ stream[c] = None
    /\ stream' = [stream EXCEPT ![c] = high]
    /\ listed' = listed \cup {c}
    /\ queue' = [queue EXCEPT ![c] = <<>>]
    /\ replay' = [replay EXCEPT ![c] = None]
    /\ UNCHANGED <<file, daemon, got, mcp, bounds>>

\* Fault: the replay is not cut at the snapshot.
SelectReplayAll(frames, snapshot, after) == SubSeq(frames, after + 1, Len(frames))

\* select_replay_events, for the whole log after the client's cursor: the frames with
\* after < seq <= snapshot.  The log is contiguous, so that they are a range of places.
SelectReplay(frames, snapshot, after) ==
    SubSeq(frames, after + 1, IF snapshot < Len(frames) THEN snapshot ELSE Len(frames))

LoadReplay(c) ==
    /\ stream[c] # None /\ replay[c] = None
    /\ Unlocked /\ Contiguous
    /\ replay' = [replay EXCEPT ![c] = SelectReplay(log, stream[c], Cursor(c))]
    /\ UNCHANGED <<file, daemon, stream, listed, queue, got, mcp, bounds>>

SendReplay(c) ==
    /\ stream[c] # None /\ replay[c] \notin {None, <<>>}
    /\ got' = [got EXCEPT ![c] = Append(@, Head(replay[c]))]
    /\ replay' = [replay EXCEPT ![c] = Tail(@)]
    /\ UNCHANGED <<file, daemon, stream, listed, queue, mcp, bounds>>

SendLive(c) ==
    /\ stream[c] # None /\ replay[c] = <<>> /\ queue[c] # <<>>
    /\ got' = [got EXCEPT ![c] = Append(@, Head(queue[c]))]
    /\ queue' = [queue EXCEPT ![c] = Tail(@)]
    /\ UNCHANGED <<file, daemon, stream, listed, replay, mcp, bounds>>

\* Fault: the registration of a closed stream stays in the list.
ClosedListed(gone) ==
    /\ stream' = [c \in Clients |-> IF c \in gone THEN None ELSE stream[c]]
    /\ queue' = [c \in Clients |-> IF c \in gone THEN <<>> ELSE queue[c]]
    /\ replay' = [c \in Clients |-> IF c \in gone THEN None ELSE replay[c]]
    /\ UNCHANGED <<got, listed>>

Closed(gone) ==
    /\ stream' = [c \in Clients |-> IF c \in gone THEN None ELSE stream[c]]
    /\ listed' = listed \ gone
    /\ queue' = [c \in Clients |-> IF c \in gone THEN <<>> ELSE queue[c]]
    /\ replay' = [c \in Clients |-> IF c \in gone THEN None ELSE replay[c]]
    /\ UNCHANGED got

\* The queue of a dropped subscriber is drained, then the stream ends.
EndStream(c) ==
    /\ stream[c] # None /\ replay[c] = <<>> /\ queue[c] = <<>> /\ c \notin listed
    /\ Closed({c})
    /\ UNCHANGED <<file, daemon, mcp, bounds>>

\* The peer goes away or a write deadline expires.
Disconnect(c) ==
    /\ stream[c] # None
    /\ drops < limits.drops
    /\ drops' = drops + 1
    /\ Closed({c})
    /\ UNCHANGED <<file, daemon, mcp, events, faults, kills, powers, inits, rollbacks>>

-----------------------------------------------------------------------------
(* MCP sessions *)

\* An offset in bytes: the log it was measured in, a number of its complete frames, and
\* whether it lies beyond them in a partial one.
At(n) == [log |-> rollbacks, frames |-> n, mid |-> FALSE]

\* Where a page that starts after n frames ends.
PageEnd(n) == IF n + PageFrames < Len(log) THEN n + PageFrames ELSE Len(log)

\* track_task reads the first page.
Track(s) ==
    /\ session[s] = "untracked" /\ Unlocked /\ Contiguous
    /\ session' = [session EXCEPT ![s] = "idle"]
    /\ seen' = [seen EXCEPT ![s] = PageEnd(0)]
    /\ offset' = [offset EXCEPT ![s] = At(PageEnd(0))]
    /\ from' = [from EXCEPT ![s] = PageEnd(0)]
    /\ UNCHANGED <<file, daemon, subs, initializing, page, heard, bounds>>

\* initialize, under the mutex of the session, reads the last sequence number ...
InitializeSeen(s) ==
    /\ session[s] \in {"idle", "polling", "reading"} /\ s \notin initializing
    /\ Unlocked /\ Contiguous
    /\ inits < limits.inits
    /\ inits' = inits + 1
    /\ initializing' = initializing \cup {s}
    /\ seen' = [seen EXCEPT ![s] = IF log = <<>> THEN @ ELSE TailSequence]
    /\ UNCHANGED <<file, daemon, subs, session, offset, page, from, heard,
                   events, faults, kills, powers, drops, rollbacks>>

\* ... and then the length of the file.
InitializeOffset(s) ==
    /\ s \in initializing /\ Unlocked
    /\ initializing' = initializing \ {s}
    /\ offset' = [offset EXCEPT ![s] = [At(Len(log)) EXCEPT !.mid = torn]]
    /\ from' = [from EXCEPT ![s] = Len(log)]
    /\ UNCHANGED <<file, daemon, subs, session, seen, page, heard, bounds>>

\* A notification pass takes the session's entries under its mutex ...
BeginPass(s) ==
    /\ session[s] = "idle" /\ s \notin initializing
    /\ session' = [session EXCEPT ![s] = "polling"]
    /\ page' = [page EXCEPT ![s] = [seen |-> seen[s], offset |-> offset[s],
                                    next |-> offset[s], frames |-> <<>>]]
    /\ UNCHANGED <<file, daemon, subs, initializing, seen, offset, from, heard, bounds>>

\* Complete frames that surely lie before an offset.
Base(o) == IF o.log = rollbacks THEN o.frames ELSE 0

IsBoundary(o) == o.frames = Base(o) /\ ~o.mid

\* Where a read at an offset finds its first frame.  An offset past the end is cut to
\* the end; one in what was a partial frame, or in a log that was removed, is a
\* boundary only if a later frame happens to end there.
Starts(o) ==
    IF IsBoundary(o) THEN {o.frames}
    ELSE IF Len(log) > Base(o) THEN Base(o) + 1 .. Len(log)
    ELSE IF torn THEN {} ELSE {Base(o)}

\* ... reads a page of the log (load_task_events_from_offset) ...
ReadPage(s) ==
    /\ session[s] = "polling" /\ Unlocked /\ Contiguous
    /\ \E n \in Starts(page[s].offset) :
          /\ page' = [page EXCEPT ![s].next = At(PageEnd(n)),
                                  ![s].frames = SubSeq(log, n + 1, PageEnd(n))]
          /\ from' = [from EXCEPT ![s] = IF page[s].offset.mid /\ n > @ THEN n ELSE @]
    /\ session' = [session EXCEPT ![s] = "reading"]
    /\ UNCHANGED <<file, daemon, subs, initializing, seen, offset, heard, bounds>>

\* The offset is not a frame boundary: the notification task ends with the error.
ReadFails(s) ==
    /\ session[s] = "polling" /\ Unlocked
    /\ ~IsBoundary(page[s].offset) /\ (Len(log) > Base(page[s].offset) \/ torn)
    /\ session' = [session EXCEPT ![s] = "failed"]
    /\ page' = [page EXCEPT ![s] = None]
    /\ UNCHANGED <<file, daemon, subs, initializing, seen, offset, from, heard, bounds>>

\* Of the first n frames of a page, which is contiguous, those that are new.
New(p, n) ==
    LET start == p.next.frames - Len(p.frames)
    IN  SubSeq(p.frames, (IF p.seen > start THEN p.seen - start ELSE 0) + 1, n)

\* Fault: the offset moves although delivery stopped at backpressure.
OffsetAfterAll(s, n) == page[s].next

OffsetAfter(s, n) == IF n = Len(page[s].frames) THEN page[s].next ELSE offset[s]

\* ... and passes on the new ones among its first n frames; the rest met backpressure.
\* Both entries are assigned under the mutex when one moves.
DeliverSome(s, n) ==
    /\ LET new == New(page[s], n)
           moved == new # <<>> \/ (n = Len(page[s].frames) /\ page[s].next # page[s].offset)
       IN  /\ heard' = [heard EXCEPT ![s] = @ \o new]
           /\ seen' = [seen EXCEPT ![s] = IF new # <<>> THEN new[Len(new)].seq
                                          ELSE IF moved THEN page[s].seen ELSE @]
           /\ offset' = [offset EXCEPT ![s] = IF moved THEN OffsetAfter(s, n) ELSE @]
    /\ session' = [session EXCEPT ![s] = "idle"]
    /\ page' = [page EXCEPT ![s] = None]
    /\ UNCHANGED <<file, daemon, subs, initializing, from, bounds>>

Delivers(s) == session[s] = "reading" /\ s \notin initializing

DeliverAll(s) == Delivers(s) /\ DeliverSome(s, Len(page[s].frames))

Deliver(s) == Delivers(s) /\ \E n \in 0 .. Len(page[s].frames) : DeliverSome(s, n)

-----------------------------------------------------------------------------
(* Rollback, kills, restarts and power failures *)

\* The rollback of a failed admission removes the record, its log and its subscribers,
\* whose streams end when they are drained; the task may be submitted again under the
\* same id.
RollBack ==
    /\ up /\ lane = None /\ Unlocked /\ log # <<>>
    /\ rollbacks < limits.rollbacks
    /\ rollbacks' = rollbacks + 1
    /\ log' = <<>> /\ torn' = FALSE /\ synced' = 0
    /\ high' = 0 /\ registry' = 0
    /\ acked' = {}
    /\ listed' = {}
    /\ UNCHANGED <<writing, up, lane, stream, queue, replay, got, mcp,
                   events, faults, kills, powers, drops, inits>>

Down ==
    /\ up' = FALSE
    /\ high' = 0
    /\ lane' = None
    /\ writing' = None
    /\ Closed(Clients)
    /\ UNCHANGED <<registry, acked>>

Kill ==
    /\ up
    /\ kills < limits.kills
    /\ kills' = kills + 1
    /\ \E frames \in {log, SubSeq(log, 1, Len(log) - 1)}, partial \in BOOLEAN :
          Interrupted(frames, partial) /\ log' = frames /\ torn' = partial
    /\ Down
    /\ UNCHANGED <<synced, mcp, events, faults, powers, drops, inits, rollbacks>>

\* The machine stops: frames that are not synced may be gone, and sessions are.
PowerFailure ==
    /\ powers < limits.powers
    /\ powers' = powers + 1
    /\ \E n \in synced .. Len(log) :
          /\ log' = SubSeq(log, 1, n)
          /\ synced' = n
          /\ IF n < Len(log) THEN torn' \in BOOLEAN ELSE torn' \in {FALSE, torn}
    /\ Down
    /\ session' = [s \in Sessions |-> "untracked"]
    /\ initializing' = {}
    /\ seen' = [s \in Sessions |-> 0]
    /\ offset' = [s \in Sessions |-> At(0)]
    /\ page' = [s \in Sessions |-> None]
    /\ from' = [s \in Sessions |-> 0]
    /\ heard' = [s \in Sessions |-> <<>>]
    /\ UNCHANGED <<events, faults, kills, drops, inits, rollbacks>>

\* reconcile_task_event_high_waters: a registry that lags is advanced to the tail of
\* the log and checkpointed; one that is ahead ends the startup.
Start ==
    /\ ~up /\ Contiguous
    /\ registry <= TailSequence
    /\ up' = TRUE
    /\ high' = TailSequence
    /\ registry' = TailSequence
    /\ UNCHANGED <<file, lane, acked, subs, mcp, bounds>>

-----------------------------------------------------------------------------
Init ==
    /\ limits \in Scenarios
    /\ events = 0 /\ faults = 0 /\ kills = 0 /\ powers = 0 /\ drops = 0
    /\ inits = 0 /\ rollbacks = 0
    /\ log = <<>> /\ torn = FALSE /\ synced = 0 /\ writing = None
    /\ registry = 0 /\ up = TRUE /\ high = 0 /\ lane = None
    /\ stream = [c \in Clients |-> None]
    /\ listed = {}
    /\ queue = [c \in Clients |-> <<>>]
    /\ replay = [c \in Clients |-> None]
    /\ got = [c \in Clients |-> <<>>]
    /\ session = [s \in Sessions |-> "untracked"]
    /\ initializing = {}
    /\ seen = [s \in Sessions |-> 0]
    /\ offset = [s \in Sessions |-> At(0)]
    /\ page = [s \in Sessions |-> None]
    /\ from = [s \in Sessions |-> 0]
    /\ heard = [s \in Sessions |-> <<>>]
    /\ acked = {}

ClientStep(c) ==
    \/ Subscribe(c) \/ LoadReplay(c) \/ SendReplay(c) \/ SendLive(c) \/ EndStream(c)

SessionStep(s) ==
    \/ Track(s) \/ InitializeOffset(s)
    \/ BeginPass(s) \/ ReadPage(s) \/ ReadFails(s) \/ Deliver(s)

Next ==
    /\ \/ WriteEvent \/ Synced \/ AppendFails \/ Publish \/ Persist
       \/ RollBack \/ Kill \/ PowerFailure \/ Start
       \/ \E c \in Clients \cap limits.readers : ClientStep(c) \/ Disconnect(c)
       \/ \E s \in Sessions \cap limits.readers :
             SessionStep(s) \/ InitializeSeen(s)
    /\ UNCHANGED limits

Spec == Init /\ [][Next]_vars

\* Operations end, a stopped daemon is started again by the next client, a client
\* subscribes again when its stream ends, a session polls, and its peer does not refuse
\* notifications for ever.
FairSpec ==
    /\ Spec
    /\ WF_moves(Synced \/ AppendFails) /\ WF_moves(Publish) /\ WF_moves(Start)
    /\ \A c \in Clients : WF_moves(c \in limits.readers /\ ClientStep(c))
    /\ \A s \in Sessions :
          /\ WF_moves(s \in limits.readers /\ SessionStep(s))
          /\ SF_moves(s \in limits.readers /\ DeliverAll(s))

-----------------------------------------------------------------------------
(* Properties *)

\* The log that was acknowledged stays: no admission is rolled back and no power fails.
Kept == limits.rollbacks = 0 /\ limits.powers = 0

TypeOK ==
    /\ \A i \in DOMAIN log : log[i] \in Frames
    /\ Len(log) <= events
    /\ torn \in BOOLEAN
    /\ synced \in 0 .. Len(log)
    /\ writing \in 1 .. MaxEvents \cup {None}
    /\ up \in BOOLEAN
    /\ high \in 0 .. MaxEvents /\ registry \in 0 .. MaxEvents
    /\ lane \in Frames \cup {None}
    /\ listed \subseteq {c \in Clients : stream[c] # None}
    /\ \A c \in Clients : Len(queue[c]) <= QueueCapacity
    /\ \A s \in Sessions :
          /\ session[s] \in {"untracked", "idle", "polling", "reading", "failed"}
          /\ session[s] \in {"polling", "reading"} <=> page[s] # None

Received(c) == {got[c][i] : i \in DOMAIN got[c]}

Increasing(frames) == \A i, j \in DOMAIN frames : i < j => frames[i].seq < frames[j].seq

\* What a client receives over all its subscriptions is in order and without
\* repetition, and no acknowledged event before its cursor is missing: replay and live
\* frames meet exactly, and after a lag the cursor resumes where the queue ended.
StreamHasNoHole ==
    Kept => \A c \in Clients :
        /\ Increasing(got[c])
        /\ \A f \in acked : f.seq <= Cursor(c) => f \in Received(c)

\* A client whose replay and queue are empty and who is still in the list has received
\* every acknowledged event.
CaughtUp ==
    Kept => \A c \in Clients :
        c \in listed /\ replay[c] = <<>> /\ queue[c] = <<>> => acked \subseteq Received(c)

Heard(s) == {heard[s][i] : i \in DOMAIN heard[s]}

\* A session passes on every frame behind the one where it began, once and in order,
\* through backpressure, failed appends, restarts of the daemon and initialize requests
\* that overtake a pass.
SessionHearsAll ==
    Kept => \A s \in Sessions :
        /\ Increasing(heard[s])
        /\ s \notin initializing =>
              \A i \in from[s] + 1 .. Len(log) : log[i].seq <= seen[s] <=> log[i] \in Heard(s)

\* Startup never finds the registry ahead of the log.
RegistryNotAhead == Kept => registry <= TailSequence

\* An acknowledged event stays at its place in the log, whatever fails after it.
AckedEventsKept == \A f \in acked : f.seq <= Len(log) /\ log[f.seq] = f

\* Every event that is published reaches a client who subscribes again when it lags,
\* is disconnected or the daemon restarts, and every session that tracks the task,
\* was not told to skip it and did not take its offset in the middle of a frame.
EventsArrive ==
    \A n \in 1 .. MaxEvents :
        /\ \A c \in Clients :
              Kept /\ c \in limits.readers /\ (\E f \in acked : f.event = n)
                  ~> \E f \in Received(c) : f.event = n
        /\ \A s \in Sessions :
              Kept /\ session[s] # "untracked" /\ Unlocked /\ Len(log) >= n
                  ~> seen[s] >= n \/ from[s] >= n \/ session[s] = "failed"

\* A subscriber's stream is complete up to its cursor, and complete altogether when
\* nothing is queued: registration, replay and live frames leave no gap.
StreamIsExact == TypeOK /\ StreamHasNoHole /\ CaughtUp

\* The log is what lasts: it keeps what was acknowledged, and the registry, advanced
\* after the append or by startup, never knows more.
LogIsAuthority == RegistryNotAhead /\ AckedEventsKept
=============================================================================
