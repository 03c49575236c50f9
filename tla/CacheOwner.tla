----------------------------- MODULE CacheOwner -----------------------------
(***************************************************************************)
(* The persistence owner of the kernel cache inside one process            *)
(* (context-memory-core: persistence_owner.rs).  Kernels share one owner   *)
(* per root: a live cache, a bounded map of dirty deltas and a worker      *)
(* thread that writes them.  Owners of one root follow each other; they    *)
(* are numbered by the generation of the root slot.                        *)
(*                                                                         *)
(* A step is one critical section: of the slot, of the lifecycle, of the   *)
(* dirty map, of the live cache.  The files are one map from keys to the   *)
(* last delta written; what they are made of is the subject of CacheStore. *)
(***************************************************************************)
EXTENDS Naturals, Sequences, FiniteSets

CONSTANTS
    Threads,        \* request threads of the process
    Keys,           \* cache keys
    QueueCapacity,  \* PERSISTENCE_QUEUE_CAPACITY
    MaxOwners,      \* bound on the generations of the root slot
    Scenarios,      \* operations called, keys used, and bounds
    None            \* no delta, no holder

Ops == {"open", "commit", "prune", "flush", "shutdown", "drop", "die"}

ASSUME CacheOwnerAssumption ==
    /\ IsFiniteSet(Threads) /\ IsFiniteSet(Keys)
    /\ {QueueCapacity, MaxOwners} \subseteq Nat \ {0}
    /\ \A s \in Scenarios :
          /\ s.ops \subseteq Ops /\ s.keys \subseteq Keys
          /\ s.capacity \in Nat \ {0}     \* MAX_DIRTY_DELTAS
          /\ s.threshold \in Nat \ {0}    \* CHECKPOINT_DELTA_THRESHOLD
          /\ s.calls \in Nat              \* operations called
          /\ s.faults \in Nat             \* I/O faults and worker panics
          /\ s.timeouts \in Nat           \* expired waits
    /\ None \notin Threads

VARIABLES
    phase,      \* RootPersistencePhase: kind and generation
    nextGen,    \* next_generation of the root slot
    own,        \* the owner of each generation
    memory,     \* its live cache: the value of each key
    guard,      \* holder of the live cache mutex
    dirty,      \* its pending deltas
    queue,      \* its command channel
    wk,         \* its worker thread
    taken,      \* deltas the worker took from the dirty map
    persisted,  \* persisted_revisions of the worker
    durable,    \* the last delta on disk of each key
    pc, fr,     \* where each thread is, and its locals
    limits,     \* the scenario
    calls, faults, timeouts

slot == <<phase, nextGen>>
data == <<memory, guard, dirty>>
worker == <<wk, taken, persisted, durable>>
threads == <<pc, fr>>
bounds == <<calls, faults, timeouts>>
moves == <<slot, own, data, queue, worker, threads, bounds>>
vars == <<moves, limits>>

Owners == 1..MaxOwners

-----------------------------------------------------------------------------
(* Data *)

NoDeltas == [k \in Keys |-> None]

\* A value is named by the commit that wrote it; None is an absent key, and the
\* delta that removes it.
Delta(g, r, v) == [gen |-> g, rev |-> r, val |-> v]

Pending(d) == {k \in Keys : d[k] # None}

\* An owner with n handles, and its worker runs if it is open.
Owner(n, open) ==
    [count |-> n, strong |-> n, requested |-> FALSE, sent |-> FALSE, reserving |-> 0,
     sender |-> open, joinable |-> open, rev |-> 0, slots |-> 0, completion |-> "none"]

\* An owner that open has just made, and one that is not made yet.
Opened == Owner(1, TRUE)

Unopened == Owner(0, FALSE)

\* The worker: where it is, why it flushes, for whom, and what it wrote since
\* the last checkpoint.
Worker(at) == [pc |-> at, why |-> "none", for |-> None, since |-> 0]

\* The receiver is dropped when run() returns.
Receiving(g) == wk[g].pc \notin {"none", "exiting", "finished"}

Finished(g) == wk[g].pc = "finished"

Fault == faults < limits.faults /\ faults' = faults + 1

NoFault == UNCHANGED faults

Expire == timeouts < limits.timeouts /\ timeouts' = timeouts + 1

-----------------------------------------------------------------------------
(* Threads *)

\* op: the operation; gen: the owner it borrows; batch: keys it changes, and the
\* key it writes; rev: its reservation; want: pending revisions when it flushes;
\* reply: the answer to its command.
NoFrame == [op |-> "none", gen |-> 0, batch |-> {}, key |-> None, rev |-> 0,
            want |-> [k \in Keys |-> 0], reply |-> "none"]

At(c, label) == pc[c] = label

Goto(c, label) == pc' = [pc EXCEPT ![c] = label]

Return(c) == Goto(c, "idle") /\ fr' = [fr EXCEPT ![c] = NoFrame]

\* A thread inside a call holds a handle; one that drops has given its handle up.
Borrowed(g) == \E c \in Threads : fr[c].gen = g /\ fr[c].op # "drop"

\* A thread calls an operation of an owner through a handle that is alive.
Begin(c, op, g) ==
    /\ At(c, "idle")
    /\ op \in limits.ops
    /\ calls < limits.calls
    /\ calls' = calls + 1
    /\ own[g].count > 0

-----------------------------------------------------------------------------
(* CachePersistence::open *)

CallOpen(c) ==
    /\ At(c, "idle")
    /\ "open" \in limits.ops
    /\ calls < limits.calls
    /\ calls' = calls + 1
    /\ Goto(c, "open")
    /\ UNCHANGED <<slot, own, data, queue, worker, fr, faults, timeouts>>

\* A live owner gets another handle.
OpenShared(c) ==
    /\ At(c, "open")
    /\ phase.kind = "Live"
    /\ own[phase.gen].strong > 0
    /\ own' = [own EXCEPT ![phase.gen].count = @ + 1, ![phase.gen].strong = @ + 1]
    /\ Return(c)
    /\ UNCHANGED <<slot, data, queue, worker, bounds>>

\* A vacant root gets a new owner, loaded from disk; anything else is waited for.
OpenVacant(c) ==
    LET g == nextGen + 1
    IN  /\ At(c, "open")
        /\ phase.kind = "Vacant"
        /\ g \in Owners
        /\ nextGen' = g
        /\ \/ /\ phase' = [kind |-> "Live", gen |-> g]
              /\ own' = [own EXCEPT ![g] = Opened]
              /\ memory' = [memory EXCEPT ![g] =
                              [k \in Keys |-> IF durable[k] = None THEN None ELSE durable[k].val]]
              /\ wk' = [wk EXCEPT ![g] = Worker("poll")]
              /\ NoFault
           \/ Fault /\ UNCHANGED <<phase, own, memory, wk>>
        /\ Return(c)
        /\ UNCHANGED <<guard, dirty, queue, taken, persisted, durable, calls, timeouts>>

-----------------------------------------------------------------------------
(* commit_prepared_update and prune *)

\* The keys an operation removes (expired or pruned) are keys of the live cache.
Present(g) == {k \in Keys : memory[g][k] # None}

\* reserve_mutation, with the live cache locked: the lifecycle admits it and the
\* slots of its keys are free.
Admits(g) == ~own[g].requested /\ own[g].sender /\ own[g].joinable /\ ~Finished(g)

\* Fault: the bound on pending deltas is not checked.
FitsAny(g, n) == TRUE

Fits(g, n) == own[g].slots + n <= limits.capacity

Reserve(c, op, g, batch, key) ==
    /\ Begin(c, op, g)
    /\ guard[g] = None
    /\ IF Admits(g) /\ Fits(g, Cardinality(batch))
       THEN /\ own' = [own EXCEPT ![g].reserving = @ + 1, ![g].rev = @ + 1,
                                  ![g].slots = @ + Cardinality(batch)]
            /\ guard' = [guard EXCEPT ![g] = c]
            /\ fr' = [fr EXCEPT ![c] = [NoFrame EXCEPT !.op = op, !.gen = g,
                         !.batch = batch, !.key = key, !.rev = own[g].rev + 1]]
            /\ Goto(c, "record")
       ELSE \* a rejected reservation has used up a revision all the same
            /\ own' = [own EXCEPT ![g].rev = IF Admits(g) THEN @ + 1 ELSE @]
            /\ UNCHANGED <<guard, threads>>
    /\ UNCHANGED <<slot, memory, dirty, queue, worker, faults, timeouts>>

CallCommit(c) ==
    \E g \in Owners, k \in limits.keys :
        \E expired \in SUBSET (Present(g) \ {k}) :
            Reserve(c, "commit", g, expired \cup {k}, k)

CallPrune(c) ==
    \E g \in Owners :
        \E pruned \in SUBSET Present(g) : Reserve(c, "prune", g, pruned, None)

\* The delta of a key in the batch of a thread.
Incoming(c, k) ==
    LET f == fr[c]
    IN  Delta(f.gen, f.rev, IF k = f.key THEN <<f.gen, f.rev>> ELSE None)

\* The newer revision wins.
Newer(old, new) == IF old = None \/ old.rev <= new.rev THEN new ELSE old

Recorded(c) ==
    LET f == fr[c]
    IN  [k \in Keys |-> IF k \in f.batch THEN Newer(dirty[f.gen][k], Incoming(c, k))
                        ELSE dirty[f.gen][k]]

\* Fault: the worker is not woken.
WokenNot(g) == queue[g]

\* wake_worker: a full queue is as good as a wake-up.
Wakes(g) == own[g].sender /\ Receiving(g)

Woken(g) == IF Len(queue[g]) < QueueCapacity THEN Append(queue[g], <<"wake">>) ELSE queue[g]

\* Fault: a rejected batch keeps its reservation.
finish_recorded(c) == own[fr[c].gen].reserving - IF Wakes(fr[c].gen) THEN 1 ELSE 0

\* The reservation is dropped on every way out.
finish_reservation(c) == own[fr[c].gen].reserving - 1

\* record_reserved_batch: the deltas become pending and the worker is woken; the
\* deltas are rolled back if it is gone.  The reservation ends either way.
Record(c) ==
    LET f == fr[c]
        g == f.gen
        kept == {k \in f.batch : dirty[g][k] = None}
        n == Cardinality(f.batch)
    IN  /\ At(c, "record")
        /\ IF f.batch = {} \/ Wakes(g)
           THEN /\ dirty' = [dirty EXCEPT ![g] = Recorded(c)]
                /\ own' = [own EXCEPT ![g].reserving = finish_reservation(c),
                                      ![g].slots = @ - (n - Cardinality(kept))]
                /\ queue' = IF f.batch = {} THEN queue ELSE [queue EXCEPT ![g] = Woken(g)]
                /\ Goto(c, "publish")
                /\ UNCHANGED <<fr, guard>>
           ELSE /\ own' = [own EXCEPT ![g].reserving = finish_reservation(c), ![g].slots = @ - n]
                /\ guard' = [guard EXCEPT ![g] = None]
                /\ Return(c)
                /\ UNCHANGED <<dirty, queue>>
        /\ UNCHANGED <<slot, memory, worker, bounds>>

\* Revisions that must be on disk before a flush called now succeeds.
Outstanding(g) ==
    [k \in Keys |-> CASE dirty[g][k] # None -> dirty[g][k].rev
                      [] dirty[g][k] = None /\ taken[g][k] # None -> taken[g][k].rev
                      [] OTHER -> 0]

\* The live cache changes and is unlocked; a prune flushes.
Publish(c) ==
    LET f == fr[c]
        g == f.gen
    IN  /\ At(c, "publish")
        /\ memory' = [memory EXCEPT ![g] =
                        [k \in Keys |-> IF k \in f.batch THEN Incoming(c, k).val ELSE @[k]]]
        /\ guard' = [guard EXCEPT ![g] = None]
        /\ IF f.op = "prune"
           THEN /\ Goto(c, "flush")
                /\ fr' = [fr EXCEPT ![c].want = Outstanding(g)]
           ELSE Return(c)
        /\ UNCHANGED <<slot, own, dirty, queue, worker, bounds>>

-----------------------------------------------------------------------------
(* flush *)

CallFlush(c) ==
    /\ \E g \in Owners :
          /\ Begin(c, "flush", g)
          /\ fr' = [fr EXCEPT ![c] = [NoFrame EXCEPT !.op = "flush", !.gen = g,
                                                     !.want = Outstanding(g)]]
    /\ Goto(c, "flush")
    /\ UNCHANGED <<slot, own, data, queue, worker, faults, timeouts>>

\* send_before_deadline: sent, refused because the worker is gone, or expired
\* while the queue stays full.
Send(c, g, command) ==
    /\ own[g].sender /\ Receiving(g)
    /\ Len(queue[g]) < QueueCapacity
    /\ queue' = [queue EXCEPT ![g] = Append(@, command)]

FlushSend(c) ==
    LET g == fr[c].gen
    IN  /\ At(c, "flush")
        /\ \/ /\ Send(c, g, <<"flush", c>>)
              /\ Goto(c, "await")
              /\ UNCHANGED <<fr, timeouts>>
           \/ /\ ~(own[g].sender /\ Receiving(g))
              /\ Return(c)
              /\ UNCHANGED <<queue, timeouts>>
           \/ /\ own[g].sender /\ Receiving(g) /\ Len(queue[g]) = QueueCapacity
              /\ Expire
              /\ Return(c)
              /\ UNCHANGED queue
        /\ UNCHANGED <<slot, own, data, worker, calls, faults>>

FlushDone(c) ==
    /\ At(c, "await")
    /\ fr[c].reply # "none"
    /\ Return(c)
    /\ UNCHANGED <<slot, own, data, queue, worker, bounds>>

\* The answer of an expired call has no receiver any more.
FlushExpires(c) ==
    LET g == fr[c].gen
    IN  /\ At(c, "await")
        /\ fr[c].reply = "none"
        /\ Expire
        /\ queue' = [queue EXCEPT ![g] =
                       [i \in DOMAIN @ |-> IF @[i] = <<"flush", c>> THEN <<"flush", None>> ELSE @[i]]]
        /\ wk' = [wk EXCEPT ![g].for = IF @ = c THEN None ELSE @]
        /\ Return(c)
        /\ UNCHANGED <<slot, own, data, taken, persisted, durable, calls, faults>>

-----------------------------------------------------------------------------
(* shutdown *)

\* Only the last handle stops the owner, and fences the root while it does.
CallShutdown(c) ==
    /\ \E g \in Owners :
          /\ Begin(c, "shutdown", g)
          /\ fr' = [fr EXCEPT ![c] = [NoFrame EXCEPT !.op = "shutdown", !.gen = g,
                                                     !.want = Outstanding(g)]]
          /\ IF own[g].count > 1
             THEN Goto(c, "flush") /\ UNCHANGED phase
             ELSE /\ Goto(c, "stop")
                  /\ phase' = IF phase = [kind |-> "Live", gen |-> g]
                              THEN [phase EXCEPT !.kind = "Closing"] ELSE phase
    /\ UNCHANGED <<nextGen, own, data, queue, worker, faults, timeouts>>

StopRequest(c) ==
    LET g == fr[c].gen
    IN  /\ At(c, "stop")
        /\ IF own[g].joinable
           THEN /\ own' = [own EXCEPT ![g].requested = TRUE]
                /\ Goto(c, "stop_wait")
                /\ UNCHANGED fr
           ELSE /\ Goto(c, "stop_complete")
                /\ fr' = [fr EXCEPT ![c].reply =
                            IF own[g].completion = "none" THEN "ok" ELSE own[g].completion]
                /\ UNCHANGED own
        /\ UNCHANGED <<slot, data, queue, worker, bounds>>

\* Fault: the reservations are not waited for.
DrainIgnored(g) == TRUE

Drained(g) == own[g].reserving = 0

\* The wait for reservations; one caller sends the command.
StopWait(c) ==
    LET g == fr[c].gen
    IN  /\ At(c, "stop_wait")
        /\ \/ /\ Drained(g)
              /\ Goto(c, IF own[g].sent THEN "stop_await" ELSE "stop_send")
              /\ own' = [own EXCEPT ![g].sent = TRUE]
              /\ UNCHANGED <<fr, timeouts>>
           \/ /\ ~Drained(g)
              /\ Expire
              /\ Return(c)
              /\ UNCHANGED own
        /\ UNCHANGED <<slot, data, queue, worker, calls, faults>>

StopSend(c) ==
    LET g == fr[c].gen
    IN  /\ At(c, "stop_send")
        /\ \/ /\ Send(c, g, <<"shutdown">>)
              /\ Goto(c, "stop_await")
              /\ UNCHANGED <<own, fr, timeouts>>
           \/ /\ ~(own[g].sender /\ Receiving(g))
              /\ own' = [own EXCEPT ![g].sent = FALSE]
              /\ Return(c)
              /\ UNCHANGED <<queue, timeouts>>
           \/ /\ own[g].sender /\ Receiving(g) /\ Len(queue[g]) = QueueCapacity
              /\ Expire
              /\ own' = [own EXCEPT ![g].sent = FALSE]
              /\ Return(c)
              /\ UNCHANGED queue
        /\ UNCHANGED <<slot, data, worker, calls, faults>>

\* join_worker takes the sender and the join handle.
Joining(g) == [own EXCEPT ![g].sender = FALSE, ![g].joinable = FALSE]

\* wait_for_shutdown; a caller whose wait expires joins a finished worker.  A wait
\* that nothing else can end (the worker died, or the caller that was to send the
\* command gave up) expires without counting.
StopAwait(c) ==
    LET g == fr[c].gen
    IN  /\ At(c, "stop_await")
        /\ \/ /\ own[g].completion # "none"
              /\ own' = Joining(g)
              /\ fr' = [fr EXCEPT ![c].reply = own[g].completion]
              /\ Goto(c, IF own[g].joinable THEN "stop_join" ELSE "stop_complete")
              /\ UNCHANGED timeouts
           \/ /\ own[g].completion = "none"
              /\ IF Finished(g) \/ ~own[g].sent THEN UNCHANGED timeouts ELSE Expire
              /\ own' = IF Finished(g) THEN Joining(g) ELSE own
              /\ Return(c)
        /\ UNCHANGED <<slot, data, queue, worker, calls, faults>>

StopJoin(c) ==
    /\ At(c, "stop_join")
    /\ Finished(fr[c].gen)
    /\ Goto(c, "stop_complete")
    /\ UNCHANGED <<slot, own, data, queue, worker, fr, bounds>>

\* complete_root_shutdown, after a successful shutdown.
StopComplete(c) ==
    LET g == fr[c].gen
    IN  /\ At(c, "stop_complete")
        /\ phase' = IF fr[c].reply = "ok" /\ phase.gen = g /\ phase.kind \in {"Closing", "Faulted"}
                    THEN [kind |-> "Vacant", gen |-> 0] ELSE phase
        /\ Return(c)
        /\ UNCHANGED <<nextGen, own, data, queue, worker, bounds>>

-----------------------------------------------------------------------------
(* Drop of a handle and of the owner *)

\* The count goes down first; the reference to the owner is dropped later.
CallDrop(c) ==
    /\ \E g \in Owners :
          /\ Begin(c, "drop", g)
          /\ own[g].count > 1 \/ ~Borrowed(g)
          /\ own' = [own EXCEPT ![g].count = @ - 1]
          /\ fr' = [fr EXCEPT ![c] = [NoFrame EXCEPT !.op = "drop", !.gen = g]]
    /\ Goto(c, "drop")
    /\ UNCHANGED <<slot, data, queue, worker, faults, timeouts>>

DropReference(c) ==
    LET g == fr[c].gen
    IN  /\ At(c, "drop")
        /\ own' = [own EXCEPT ![g].strong = @ - 1]
        /\ IF own[g].strong = 1 THEN Goto(c, "release") /\ UNCHANGED fr ELSE Return(c)
        /\ UNCHANGED <<slot, data, queue, worker, bounds>>

\* release_root_owner
DropRelease(c) ==
    /\ At(c, "release")
    /\ phase' = CASE phase = [kind |-> "Live", gen |-> fr[c].gen] -> [phase EXCEPT !.kind = "Closing"]
                  [] phase = [kind |-> "Faulted", gen |-> fr[c].gen] -> [kind |-> "Vacant", gen |-> 0]
                  [] OTHER -> phase
    /\ Goto(c, "signal")
    /\ UNCHANGED <<nextGen, own, data, queue, worker, fr, bounds>>

\* shutdown_on_drop: the worker is told, if the queue has room, and detached.
DropSignal(c) ==
    LET g == fr[c].gen
        tell == ~own[g].sent /\ own[g].sender /\ Receiving(g) /\ Len(queue[g]) < QueueCapacity
    IN  /\ At(c, "signal")
        /\ IF own[g].joinable
           THEN /\ queue' = IF tell THEN [queue EXCEPT ![g] = Append(@, <<"shutdown">>)] ELSE queue
                /\ own' = [own EXCEPT ![g].requested = TRUE, ![g].sent = @ \/ tell,
                                      ![g].sender = FALSE, ![g].joinable = FALSE]
           ELSE UNCHANGED <<own, queue>>
        /\ Return(c)
        /\ UNCHANGED <<slot, data, worker, bounds>>

-----------------------------------------------------------------------------
(* The worker of generation g *)

WorkerGoto(g, at) == wk' = [wk EXCEPT ![g].pc = at]

Flush(g, why, c) == wk' = [wk EXCEPT ![g].pc = "take", ![g].why = why, ![g].for = c]

\* The loop of run(): the worker looks at the dirty map and then waits, with the
\* debounce as its timeout if it saw something.
Poll(g) ==
    /\ wk[g].pc = "poll"
    /\ WorkerGoto(g, IF Pending(dirty[g]) = {} THEN "recv" ELSE "recv_timeout")
    /\ UNCHANGED <<slot, own, data, queue, taken, persisted, durable, threads, bounds>>

Receive(g) ==
    /\ wk[g].pc \in {"recv", "recv_timeout"}
    /\ \/ /\ queue[g] # <<>>
          /\ queue' = [queue EXCEPT ![g] = Tail(@)]
          /\ \/ Head(queue[g]) = <<"wake">> /\ WorkerGoto(g, "poll")
             \/ \E c \in Threads \cup {None} :
                   Head(queue[g]) = <<"flush", c>> /\ Flush(g, "flush", c)
             \/ Head(queue[g]) = <<"shutdown">> /\ Flush(g, "shutdown", None)
       \/ /\ queue[g] = <<>> /\ own[g].sender
          /\ wk[g].pc = "recv_timeout"
          /\ Flush(g, "debounce", None)
          /\ UNCHANGED queue
       \/ /\ queue[g] = <<>> /\ ~own[g].sender
          /\ Flush(g, "shutdown", None)
          /\ UNCHANGED queue
    /\ UNCHANGED <<slot, own, data, taken, persisted, durable, threads, bounds>>

\* flush_dirty takes the map; deltas that a newer one overtook are dropped.
Take(g) ==
    LET fresh == {k \in Pending(dirty[g]) : persisted[g][k] < dirty[g][k].rev}
    IN  /\ wk[g].pc = "take"
        /\ taken' = [taken EXCEPT ![g] = [k \in Keys |-> IF k \in fresh THEN dirty[g][k] ELSE None]]
        /\ dirty' = [dirty EXCEPT ![g] = NoDeltas]
        /\ own' = [own EXCEPT ![g].slots = @ - Cardinality(Pending(dirty[g]) \ fresh)]
        /\ WorkerGoto(g, IF fresh = {} THEN "flushed" ELSE "persist")
        /\ UNCHANGED <<slot, memory, guard, queue, persisted, durable, threads, bounds>>

Written(g, keys) == [k \in Keys |-> IF k \in keys THEN taken[g][k] ELSE durable[k]]

\* Fault: a restored delta replaces the one that arrived meanwhile.
RestoredFirst(g) ==
    [k \in Keys |-> IF taken[g][k] = None THEN dirty[g][k] ELSE taken[g][k]]

\* restore_pending_deltas: the newer of the two stays.
Restored(g) ==
    [k \in Keys |-> IF taken[g][k] = None THEN dirty[g][k]
                    ELSE Newer(dirty[g][k], taken[g][k])]

\* Fault: the slot of a retired delta is kept.
RetiredKept(g) == 0

\* One of two deltas of a key is retired, and its slot is free again.
Retired(g) == Cardinality(Pending(taken[g]) \cap Pending(dirty[g]))

\* The deltas are appended, or some of them and then an error restores them all.
Persist(g) ==
    LET keys == Pending(taken[g])
    IN  /\ wk[g].pc = "persist"
        /\ taken' = [taken EXCEPT ![g] = NoDeltas]
        /\ \/ /\ durable' = Written(g, keys)
              /\ persisted' = [persisted EXCEPT ![g] =
                                 [k \in Keys |-> IF k \in keys THEN taken[g][k].rev ELSE @[k]]]
              /\ own' = [own EXCEPT ![g].slots = @ - Cardinality(keys)]
              /\ wk' = [wk EXCEPT ![g].since = @ + Cardinality(keys),
                                  ![g].pc = IF wk[g].since + Cardinality(keys) >= limits.threshold
                                            THEN "checkpoint" ELSE "flushed"]
              /\ UNCHANGED <<dirty, faults>>
           \/ /\ Fault
              /\ \E some \in SUBSET keys : durable' = Written(g, some)
              /\ dirty' = [dirty EXCEPT ![g] = Restored(g)]
              /\ own' = [own EXCEPT ![g].slots = @ - Retired(g)]
              /\ WorkerGoto(g, "failed")
              /\ UNCHANGED persisted
        /\ UNCHANGED <<slot, memory, guard, queue, threads, calls, timeouts>>

\* The checkpoint changes nothing that a load would see.
Checkpoint(g) ==
    /\ wk[g].pc = "checkpoint"
    /\ \/ wk' = [wk EXCEPT ![g].pc = "flushed", ![g].since = 0] /\ NoFault
       \/ WorkerGoto(g, "failed") /\ Fault
    /\ UNCHANGED <<slot, own, data, queue, taken, persisted, durable, threads, calls, timeouts>>

Answered(c, result) ==
    IF c = None THEN fr ELSE [fr EXCEPT ![c].reply = result]

\* Fault: a failed flush is reported as done.
ResultOk(g) == "ok"

Result(g) == IF wk[g].pc = "failed" THEN "error" ELSE "ok"

\* A flush was for a debounce, for a caller, or the last one of the worker.
Flushed(g) ==
    LET result == Result(g)
        w == wk[g]
    IN  /\ w.pc \in {"flushed", "failed"}
        /\ CASE w.why = "debounce" ->
                  wk' = [wk EXCEPT ![g] = [Worker("poll") EXCEPT !.since = w.since]]
                  /\ UNCHANGED <<own, fr, queue>>
             [] w.why = "flush" ->
                  /\ wk' = [wk EXCEPT ![g] = [Worker("poll") EXCEPT !.since = w.since]]
                  /\ fr' = Answered(w.for, result)
                  /\ UNCHANGED <<own, queue>>
             [] w.why = "shutdown" /\ result = "ok" /\ w.since > 0 ->
                  WorkerGoto(g, "checkpoint") /\ UNCHANGED <<own, fr, queue>>
             [] OTHER ->
                  /\ own' = [own EXCEPT ![g].completion = result]
                  /\ WorkerGoto(g, "leaving")
                  /\ UNCHANGED <<fr, queue>>
        /\ UNCHANGED <<slot, data, taken, persisted, durable, pc, bounds>>

\* The receiver goes: commands that wait in it are never answered.
Hangup(g) ==
    /\ queue' = [queue EXCEPT ![g] = <<>>]
    /\ fr' = [c \in Threads |->
                IF At(c, "await") /\ \E i \in DOMAIN queue[g] : queue[g][i] = <<"flush", c>>
                THEN [fr[c] EXCEPT !.reply = "error"] ELSE fr[c]]
    /\ WorkerGoto(g, "exiting")

Leave(g) ==
    /\ wk[g].pc = "leaving"
    /\ Hangup(g)
    /\ UNCHANGED <<slot, own, data, taken, persisted, durable, pc, bounds>>

\* A worker that panics answers nobody.
Die(g) ==
    /\ "die" \in limits.ops
    /\ wk[g].pc = "poll"
    /\ Fault
    /\ Hangup(g)
    /\ UNCHANGED <<slot, own, data, taken, persisted, durable, pc, calls, timeouts>>

\* Fault: the generations are not compared.
FinishedAny(g) ==
    IF phase.kind \in {"Live", "Closing"}
    THEN IF own[g].strong = 0 THEN [kind |-> "Vacant", gen |-> 0]
         ELSE [kind |-> "Faulted", gen |-> phase.gen]
    ELSE phase

\* Fault: a finished worker faults the root whether or not its owner is gone.
FinishedFaulted(g) ==
    IF phase.kind \in {"Live", "Closing"} /\ phase.gen = g
    THEN [kind |-> "Faulted", gen |-> g]
    ELSE phase

\* The fence of a worker releases its own generation only.
worker_finished(g) ==
    IF phase.kind \in {"Live", "Closing"} /\ phase.gen = g
    THEN IF own[g].strong = 0 THEN [kind |-> "Vacant", gen |-> 0]
         ELSE [kind |-> "Faulted", gen |-> g]
    ELSE phase

Exit(g) ==
    /\ wk[g].pc = "exiting"
    /\ phase' = worker_finished(g)
    /\ WorkerGoto(g, "finished")
    /\ UNCHANGED <<nextGen, own, data, queue, taken, persisted, durable, threads, bounds>>

-----------------------------------------------------------------------------
Calls(c) ==
    \/ CallOpen(c) \/ CallCommit(c) \/ CallPrune(c) \/ CallFlush(c)
    \/ CallShutdown(c) \/ CallDrop(c)

Step(c) ==
    \/ OpenShared(c) \/ OpenVacant(c) \/ Record(c) \/ Publish(c)
    \/ FlushSend(c) \/ FlushDone(c)
    \/ StopRequest(c) \/ StopWait(c) \/ StopSend(c) \/ StopAwait(c) \/ StopJoin(c)
    \/ StopComplete(c) \/ DropReference(c) \/ DropRelease(c) \/ DropSignal(c)

Work(g) ==
    \/ Poll(g) \/ Receive(g) \/ Take(g) \/ Persist(g) \/ Checkpoint(g) \/ Flushed(g)
    \/ Leave(g) \/ Exit(g)

\* One owner is open; the root holds what an earlier process left.
Init ==
    /\ limits \in Scenarios
    /\ phase = [kind |-> "Live", gen |-> 1]
    /\ nextGen = 1
    /\ own = [g \in Owners |-> IF g = 1 THEN Opened ELSE Unopened]
    /\ durable \in [Keys -> {None, Delta(0, 0, <<0, 0>>)}]
    /\ \A k \in Keys \ limits.keys : durable[k] = None
    /\ memory = [g \in Owners |-> [k \in Keys |->
                   IF g = 1 /\ durable[k] # None THEN durable[k].val ELSE None]]
    /\ guard = [g \in Owners |-> None]
    /\ dirty = [g \in Owners |-> NoDeltas]
    /\ taken = [g \in Owners |-> NoDeltas]
    /\ persisted = [g \in Owners |-> [k \in Keys |-> 0]]
    /\ queue = [g \in Owners |-> <<>>]
    /\ wk = [g \in Owners |-> Worker(IF g = 1 THEN "poll" ELSE "none")]
    /\ pc = [c \in Threads |-> "idle"]
    /\ fr = [c \in Threads |-> NoFrame]
    /\ calls = 0 /\ faults = 0 /\ timeouts = 0

Next ==
    /\ \/ \E c \in Threads : Calls(c) \/ Step(c) \/ FlushExpires(c)
       \/ \E g \in Owners : Work(g) \/ Die(g)
    /\ UNCHANGED limits

Spec == Init /\ [][Next]_vars

\* Threads and the worker are scheduled; opens are notified of every change of
\* the phase.  Nobody has to call, and no wait has to expire.
FairSpec ==
    /\ Spec
    /\ \A c \in Threads : WF_moves(Step(c))
    /\ \A g \in Owners : WF_moves(Work(g))

-----------------------------------------------------------------------------
(* Properties *)

Values == {None, <<0, 0>>} \cup (Owners \X Nat)

Deltas == {None} \cup [gen : 0..MaxOwners, rev : Nat, val : Values]

\* The absence of a delta is not a delta.
ASSUME NoneIsNoDelta == None \notin [gen : 0..MaxOwners, rev : Nat, val : Values]

Labels == {"idle", "open", "record", "publish", "flush", "await", "stop", "stop_wait",
           "stop_send", "stop_await", "stop_join", "stop_complete", "drop", "release", "signal"}

WorkerLabels == {"none", "poll", "recv", "recv_timeout", "take", "persist", "checkpoint",
                 "flushed", "failed", "leaving", "exiting", "finished"}

\* Every variable has the shape that the code gives it.
TypeOK ==
    /\ phase \in [kind : {"Vacant", "Live", "Closing", "Faulted"}, gen : 0..MaxOwners]
    /\ nextGen \in 0..MaxOwners
    /\ own \in [Owners -> [count : Nat, strong : Nat, requested : BOOLEAN, sent : BOOLEAN,
                           reserving : Nat, sender : BOOLEAN, joinable : BOOLEAN, rev : Nat,
                           slots : 0..limits.capacity, completion : {"none", "ok", "error"}]]
    /\ memory \in [Owners -> [Keys -> Values]]
    /\ guard \in [Owners -> Threads \cup {None}]
    /\ dirty \in [Owners -> [Keys -> Deltas]] /\ taken \in [Owners -> [Keys -> Deltas]]
    /\ \A g \in Owners : Len(queue[g]) <= QueueCapacity
    /\ wk \in [Owners -> [pc : WorkerLabels, why : {"none", "debounce", "flush", "shutdown"},
                          for : Threads \cup {None}, since : Nat]]
    /\ persisted \in [Owners -> [Keys -> Nat]]
    /\ durable \in [Keys -> Deltas]
    /\ pc \in [Threads -> Labels]
    /\ fr \in [Threads -> [op : Ops \cup {"none"}, gen : 0..MaxOwners, batch : SUBSET Keys,
                           key : Keys \cup {None}, rev : Nat, want : [Keys -> Nat],
                           reply : {"none", "ok", "error"}]]

\* The slots of a reservation not yet recorded.
Reserved(g) ==
    LET holders == {c \in Threads : At(c, "record") /\ fr[c].gen = g}
    IN  IF holders = {} THEN 0 ELSE Cardinality(fr[CHOOSE c \in holders : TRUE].batch)

\* Whatever is retired, superseded, restored, rolled back or written, the bound on
\* dirty deltas counts exactly the deltas that are pending, in flight or reserved:
\* none leaks, and none is freed twice (pending_slots).
SlotsAccounted ==
    \A g \in Owners :
        own[g].slots = Cardinality(Pending(dirty[g])) + Cardinality(Pending(taken[g])) + Reserved(g)

Overlay(g, k) ==
    LET d == IF dirty[g][k] # None THEN dirty[g][k]
             ELSE IF taken[g][k] # None THEN taken[g][k] ELSE durable[k]
    IN  IF d = None THEN None ELSE d.val

\* What requests read from the live cache is what the root would hold once the
\* pending deltas are written, also after a flush that failed half way and left
\* its deltas to be merged with the ones that arrived meanwhile.
LiveCacheIsPersistable ==
    \A g \in Owners, k \in Keys :
        (g = nextGen /\ own[g].strong > 0 /\ ~\E c \in Threads : At(c, "publish") /\ fr[c].gen = g)
            => memory[g][k] = Overlay(g, k)

\* A worker that may still touch the files of the root.
Working(g) == wk[g].pc \notin {"none", "leaving", "exiting", "finished"}

\* Only the worker of the generation the root is bound to may write, and none when
\* the root is vacant or faulted: a late worker neither writes next to its
\* successor nor changes the phase that its successor is in.
RootFenced ==
    \A g \in Owners : Working(g) => phase.gen = g /\ phase.kind \in {"Live", "Closing"}

\* "Waits ... for all previously queued deltas to reach the WAL": an acknowledged
\* flush covers everything that was pending or in flight when it was called.
FlushCovers ==
    \A c \in Threads : (At(c, "await") /\ fr[c].reply = "ok") =>
        \A k \in Keys : fr[c].want[k] > 0 =>
            /\ durable[k] # None
            /\ durable[k].gen > fr[c].gen
                 \/ (durable[k].gen = fr[c].gen /\ durable[k].rev >= fr[c].want[k])

\* An acknowledged shutdown left nothing behind, and nothing becomes pending after
\* it: it waited for the reservations that were admitted before it.
ShutdownCovers ==
    \A g \in Owners : own[g].completion = "ok" =>
        Pending(dirty[g]) = {} /\ Pending(taken[g]) = {} /\ Reserved(g) = 0

\* A pending delta is taken by a worker that runs: its wake-up cannot be lost
\* between the look at the map and the wait.
DirtyIsTaken ==
    \A g \in Owners : Pending(dirty[g]) # {} ~> (Pending(dirty[g]) = {} \/ ~Receiving(g))

\* No operation waits for ever for the worker, a reservation or a lock, even if no
\* timeout ever expires.
CallsEnd ==
    \A c \in Threads : pc[c] \notin {"idle", "open"} ~> At(c, "idle")

\* An open waits only as long as somebody holds a handle of the root.
OpenEnds ==
    \A c \in Threads : []<>(~At(c, "open") \/ \E g \in Owners : own[g].count > 0)

\* The bounds of owner, queue and dirty map hold, and the count of slots is exact.
WithinBounds == TypeOK /\ SlotsAccounted

\* What a flush or a shutdown acknowledged is in the log, with nothing left behind.
AcknowledgedIsDurable == FlushCovers /\ ShutdownCovers

\* Neither a caller, an open, nor a pending delta waits for ever: no wake-up, reply or
\* release of the root is lost.
NobodyWaitsForever == DirtyIsTaken /\ CallsEnd /\ OpenEnds
=============================================================================
