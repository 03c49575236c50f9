-------------------------- MODULE PersistenceOwner --------------------------
(***************************************************************************)
(* The daemon's persistence owner (packet28d, persistence.rs): request     *)
(* threads stage registry deltas and wait on barriers, one worker thread   *)
(* drains them into the registry store, a bounded channel connects them.   *)
(* The store is the one of RegistryStore; a power failure may happen at    *)
(* any point and a new owner is started from what it leaves.               *)
(*                                                                         *)
(* A delta is identified with its revision.  Thread t stages records of    *)
(* the task t, so `staged' (which thread staged revision r) is the content *)
(* of the registry.  Deadlines are Booleans: time only decides when an     *)
(* armed deadline fires.                                                   *)
(***************************************************************************)
EXTENDS RegistryStore, FiniteSets

CONSTANTS
    Threads,        \* request threads; each owns one task
    Boot,           \* the thread that runs startup before the others may act
    MaxRevision,    \* bound on staged revisions
    MaxFaults,      \* bound on I/O faults in a behaviour
    MaxCrashes,     \* bound on power failures
    None            \* no batch, no command

ASSUME OwnerAssumption ==
    /\ Boot \in Threads
    /\ IsFiniteSet(Threads)
    /\ MaxRevision \in Nat
    /\ MaxFaults \in Nat
    /\ MaxCrashes \in Nat
    /\ None \notin [first : Nat, last : Nat]

COMMAND_CAPACITY == 1

VARIABLES
    \* the disk
    store,         \* what a reader of the daemon directory sees
    survivors,     \* what it may hold after a power failure
    \* PersistenceState, shared by all threads
    accepting,     \* the flag shutdown clears
    nextRevision,  \* pending.next_revision
    pending,       \* pending.delta, as its range of revisions, or None
    unsurfaced,    \* pending.unsurfaced_error is set
    fatal,         \* pending.fatal_error is set
    admitted,      \* pending.durable_task_ids
    admissionLane, \* holder of the admission mutex, or None
    channel,       \* the command channel
    \* the worker thread
    wpc,           \* where the worker is
    command,       \* the command it serves, or None
    batch,         \* the batch being appended, or None
    retry,         \* retry_delta
    durable,       \* image.durable_revision
    checkpointed,  \* image.checkpoint_revision
    armed,         \* the checkpoint deadline is set
    appended,      \* the command appended something
    result,        \* what append_pending or the command returned
    \* the request threads and the owner's shutdown
    tpc,           \* where each thread is
    trev,          \* the revision the thread staged last
    request,       \* the command the thread sends, or None
    boot,          \* progress of startup
    shutdown,      \* progress of shutdown
    \* bounds and history
    faults,        \* I/O faults so far
    crashes,       \* power failures so far
    staged,        \* which thread staged each revision of this registry
    promised,      \* highest revision reported durable to a caller, or that an
                   \* event in a log depends on
    finished       \* revision up to which shutdown reported success, or None

disk == <<store, survivors>>
shared == <<accepting, nextRevision, pending, unsurfaced, fatal, admitted>>
worker == <<wpc, command, batch, retry, durable, checkpointed, armed, appended,
            result>>
threads == <<tpc, trev, request, admissionLane>>
history == <<promised, finished>>
bounds == <<faults, crashes>>
vars == <<disk, shared, channel, worker, threads, boot, shutdown, history,
          bounds, staged>>

-----------------------------------------------------------------------------
(* Commands *)

Kinds == {"Wake", "Barrier", "Checkpoint", "AppendEvent",
          "AppendAdmittedEvent", "Cleanup", "Shutdown", "Deadline",
          "Disconnect"}

\* `target' is the revision a command requires; -1 when it requires none.
Command(kind, target, sender) ==
    [kind |-> kind, target |-> target, sender |-> sender]

Requires(c) == c.kind \notin {"Wake", "Deadline"}

\* Callers that wait get an earlier background error; background work does not.
Surfaces(c) == c.kind \notin {"Wake", "Deadline", "Disconnect"}

ChannelFull == Len(channel) >= COMMAND_CAPACITY

WorkerStopped == wpc = "stopped"

-----------------------------------------------------------------------------
(* Request threads *)

\* Startup runs alone, in order; afterwards every thread may act.
MayCall(t) == boot = "ready"

\* stage: accepting is checked before and under the pending lock.
StageBegin(t) ==
    /\ tpc[t] = "idle"
    /\ MayCall(t) \/ (t = Boot /\ boot = "stage")
    /\ accepting
    /\ tpc' = [tpc EXCEPT ![t] = "staging"]
    /\ UNCHANGED <<disk, shared, channel, worker, trev, request, admissionLane,
                   boot, shutdown, history, bounds, staged>>

\* The locked section assigns the next revision and coalesces the delta.
StageDelta(t) ==
    /\ tpc[t] = "staging"
    /\ ~fatal
    /\ nextRevision < MaxRevision
    /\ nextRevision' = nextRevision + 1
    /\ pending' = IF pending = None
                  THEN [first |-> nextRevision + 1, last |-> nextRevision + 1]
                  ELSE [pending EXCEPT !.last = nextRevision + 1]
    /\ staged' = Append(staged, t)
    /\ trev' = [trev EXCEPT ![t] = nextRevision + 1]
    /\ tpc' = [tpc EXCEPT ![t] = "waking"]
    /\ UNCHANGED <<disk, accepting, unsurfaced, fatal, admitted, channel, worker,
                   request, admissionLane, boot, shutdown, history, bounds>>

\* Fault: accepting is not checked again under the lock.
StageLockedUnchecked(t) == StageDelta(t)

StageLocked(t) == accepting /\ StageDelta(t)

\* Shutting down, a fatal error or an exhausted revision: nothing is staged.
StageRefused(t) ==
    /\ tpc[t] = "staging"
    /\ ~accepting \/ fatal \/ nextRevision = MaxRevision
    /\ tpc' = [tpc EXCEPT ![t] = "idle"]
    /\ boot' = IF t = Boot /\ boot = "stage" THEN "failed" ELSE boot
    /\ UNCHANGED <<disk, shared, channel, worker, trev, request, admissionLane,
                   shutdown, history, bounds, staged>>

\* Fault: the channel has no bound.
TryWakeUnbounded(t) ==
    /\ tpc[t] = "waking"
    /\ channel' = Append(channel, Command("Wake", -1, None))
    /\ tpc' = [tpc EXCEPT ![t] = "staged"]
    /\ boot' = IF t = Boot /\ boot = "stage" THEN "flush" ELSE boot
    /\ UNCHANGED <<disk, shared, worker, trev, request, admissionLane, shutdown,
                   history, bounds, staged>>

\* try_send(Wake): dropped when the channel is full.
TryWake(t) ==
    /\ tpc[t] = "waking"
    /\ channel' = IF ChannelFull \/ WorkerStopped THEN channel
                  ELSE Append(channel, Command("Wake", -1, None))
    /\ tpc' = [tpc EXCEPT ![t] = IF WorkerStopped THEN "idle" ELSE "staged"]
    /\ trev' = [trev EXCEPT ![t] = IF WorkerStopped THEN 0 ELSE @]
    /\ boot' = IF t = Boot /\ boot = "stage"
               THEN IF WorkerStopped THEN "failed" ELSE "flush"
               ELSE boot
    /\ UNCHANGED <<disk, shared, worker, request, admissionLane, shutdown,
                   history, bounds, staged>>

\* Startup has nothing to reconcile: stage_and_flush of an empty delta waits
\* for the latest revision.
BootNothingToStage(t) ==
    /\ t = Boot
    /\ boot = "stage"
    /\ tpc[t] = "idle"
    /\ tpc' = [tpc EXCEPT ![t] = "staged"]
    /\ trev' = [trev EXCEPT ![t] = nextRevision]
    /\ boot' = "flush"
    /\ UNCHANGED <<disk, shared, channel, worker, request, admissionLane,
                   shutdown, history, bounds, staged>>

\* A caller that does not wait for its revision.
Proceed(t) ==
    /\ tpc[t] = "staged"
    /\ MayCall(t)
    /\ tpc' = [tpc EXCEPT ![t] = "idle"]
    /\ trev' = [trev EXCEPT ![t] = 0]
    /\ UNCHANGED <<disk, shared, channel, worker, request, admissionLane, boot,
                   shutdown, history, bounds, staged>>

\* The calls that send a command and wait for its reply: flush_through (of the
\* revision just staged), flush and checkpoint_current (of the latest one),
\* append_event, cleanup_failed_initial_task_storage.
Call(t, kind, target) ==
    /\ accepting
    /\ request' = [request EXCEPT ![t] = Command(kind, target, t)]
    /\ tpc' = [tpc EXCEPT ![t] = "sending"]
    /\ trev' = [trev EXCEPT ![t] = 0]

CallStaged(t) ==
    /\ tpc[t] = "staged"
    /\ \/ /\ MayCall(t)
          /\ \E kind \in {"Barrier", "AppendAdmittedEvent"} :
                Call(t, kind, trev[t])
       \/ /\ t = Boot
          /\ boot = "flush"
          /\ Call(t, "Barrier", trev[t])
    /\ UNCHANGED <<disk, shared, channel, worker, admissionLane, boot, shutdown,
                   history, bounds, staged>>

CallIdle(t) ==
    /\ tpc[t] = "idle"
    /\ \/ /\ MayCall(t)
          /\ \/ \E kind \in {"Barrier", "AppendEvent"} :
                   Call(t, kind, nextRevision)
             \/ Call(t, "Cleanup", -1)
       \/ /\ t = Boot
          /\ boot = "checkpoint"
          /\ Call(t, "Checkpoint", nextRevision)
    /\ UNCHANGED <<disk, shared, channel, worker, admissionLane, boot, shutdown,
                   history, bounds, staged>>

\* ensure_task_admitted holds the admission lane over its checkpoint.
Admit(t) ==
    /\ tpc[t] = "staged"
    /\ MayCall(t)
    /\ admissionLane = None
    /\ IF t \in admitted
       THEN /\ tpc' = [tpc EXCEPT ![t] = "idle"]
            /\ trev' = [trev EXCEPT ![t] = 0]
            /\ UNCHANGED <<request, admissionLane>>
       ELSE /\ Call(t, "Checkpoint", trev[t])
            /\ admissionLane' = t
    /\ UNCHANGED <<disk, shared, channel, worker, boot, shutdown, history,
                   bounds, staged>>

\* ensure_accepting refuses the call.
CallRefused(t) ==
    /\ tpc[t] = "staged"
    /\ ~accepting
    /\ tpc' = [tpc EXCEPT ![t] = "idle"]
    /\ trev' = [trev EXCEPT ![t] = 0]
    /\ UNCHANGED <<disk, shared, channel, worker, request, admissionLane, boot,
                   shutdown, history, bounds, staged>>

\* The blocking send of a synchronous channel.
Send(t) ==
    /\ tpc[t] = "sending"
    /\ ~WorkerStopped
    /\ ~ChannelFull
    /\ channel' = Append(channel, request[t])
    /\ tpc' = [tpc EXCEPT ![t] = "waiting"]
    /\ UNCHANGED <<disk, shared, worker, trev, request, admissionLane, boot,
                   shutdown, history, bounds, staged>>

\* What a caller does when its call returned.
Returned(t, ok) ==
    /\ tpc' = [tpc EXCEPT ![t] = "idle"]
    /\ request' = [request EXCEPT ![t] = None]
    /\ admissionLane' = IF admissionLane = t THEN None ELSE admissionLane
    /\ boot' = IF t # Boot \/ boot = "ready" THEN boot
               ELSE IF ~ok THEN "failed"
               ELSE IF boot = "flush" THEN "checkpoint" ELSE "ready"

\* Fault: a caller whose command is queued behind the shutdown is not told.
DisconnectedSending(t) ==
    /\ tpc[t] = "sending"
    /\ WorkerStopped
    /\ Returned(t, FALSE)
    /\ UNCHANGED <<disk, shared, channel, worker, trev, shutdown, history,
                   bounds, staged>>

\* The worker is gone: the receiver or the reply channel is disconnected.
Disconnected(t) ==
    /\ tpc[t] \in {"sending", "waiting"}
    /\ WorkerStopped
    /\ Returned(t, FALSE)
    /\ UNCHANGED <<disk, shared, channel, worker, trev, shutdown, history,
                   bounds, staged>>

-----------------------------------------------------------------------------
(* The worker *)

TasksThrough(revision) == {staged[r] : r \in 1..revision}

\* The loop of run_worker: a command, else an expired deadline.
Recv ==
    /\ wpc = "recv"
    /\ channel # <<>>
    /\ command' = Head(channel)
    /\ channel' = Tail(channel)
    /\ wpc' = IF Head(channel).kind = "Cleanup" THEN "cleanup" ELSE "take"
    /\ UNCHANGED <<disk, shared, batch, retry, durable, checkpointed, armed,
                   appended, result, threads, boot, shutdown, history, bounds, staged>>

DeadlineExpires ==
    /\ wpc = "recv"
    /\ channel = <<>>
    /\ armed
    /\ command' = Command("Deadline", -1, None)
    /\ wpc' = "take"
    /\ UNCHANGED <<disk, shared, channel, batch, retry, durable, checkpointed,
                   armed, appended, result, threads, boot, shutdown, history,
                   bounds, staged>>

\* Every handle was dropped by a shutdown that did not wait for the worker.
HandlesDropped ==
    /\ wpc = "recv"
    /\ channel = <<>>
    /\ shutdown.pc = "detached"
    /\ \A t \in Threads : tpc[t] = "idle"
    /\ command' = Command("Disconnect", nextRevision, None)
    /\ wpc' = "take"
    /\ UNCHANGED <<disk, shared, channel, batch, retry, durable, checkpointed,
                   armed, appended, result, threads, boot, shutdown, history,
                   bounds, staged>>

\* RemoveFailedInitialTaskStorage touches no registry revision.
Cleanup ==
    /\ wpc = "cleanup"
    /\ \/ result' = "ok" /\ UNCHANGED faults
       \/ result' = "io" /\ faults < MaxFaults /\ faults' = faults + 1
    /\ wpc' = "reply"
    /\ UNCHANGED <<disk, shared, channel, command, batch, retry, durable,
                   checkpointed, armed, appended, threads, boot, shutdown,
                   history, crashes, staged>>

\* What follows append_pending when it returned r.
AfterAppend(r, anyAppended, durableNow) ==
    LET k == command.kind IN
    IF r # "ok" THEN "reply"
    ELSE IF k \in {"Checkpoint", "AppendAdmittedEvent"} THEN "save"
    ELSE IF k = "AppendEvent" THEN "event"
    ELSE IF /\ k \in {"Shutdown", "Disconnect", "Deadline"}
            /\ k = "Deadline" => ~anyAppended
            /\ checkpointed # durableNow THEN "save"
    ELSE "reply"

\* Fault: a batch that may already be in the log is merged with newer deltas
\* before it is retried.
TakeBatchMerged ==
    /\ wpc = "take"
    /\ retry # None \/ (pending # None /\ ~fatal
                        /\ (Requires(command) => durable < command.target))
    /\ batch' = IF retry = None THEN pending
                ELSE IF pending = None THEN retry
                ELSE [first |-> retry.first, last |-> pending.last]
    /\ retry' = None
    /\ pending' = None
    /\ wpc' = "append"
    /\ UNCHANGED <<disk, accepting, nextRevision, unsurfaced, fatal, admitted,
                   channel, command, durable, checkpointed, armed, appended,
                   result, threads, boot, shutdown, history, bounds, staged>>

\* Head of the append_pending loop: the retry first and unchanged, else what is
\* pending unless the required revision is already durable.
TakeBatch ==
    /\ wpc = "take"
    /\ \/ /\ retry # None
          /\ batch' = retry
          /\ retry' = None
          /\ UNCHANGED pending
       \/ /\ retry = None
          /\ ~fatal
          /\ Requires(command) => durable < command.target
          /\ pending # None
          /\ batch' = pending
          /\ pending' = None
          /\ UNCHANGED retry
    /\ wpc' = "append"
    /\ UNCHANGED <<disk, accepting, nextRevision, unsurfaced, fatal, admitted,
                   channel, command, durable, checkpointed, armed, appended,
                   result, threads, boot, shutdown, history, bounds, staged>>

\* Nothing to append: append_pending returns.
NothingToAppend ==
    /\ wpc = "take"
    /\ retry = None
    /\ \/ fatal
       \/ pending = None
       \/ Requires(command) /\ durable >= command.target
    /\ LET r == IF fatal THEN "fatal"
                ELSE IF Requires(command) /\ durable < command.target
                THEN "unavailable"
                ELSE IF Surfaces(command) /\ unsurfaced THEN "prior"
                ELSE "ok"
       IN /\ result' = r
          /\ unsurfaced' = IF r = "prior" THEN FALSE ELSE unsurfaced
          /\ wpc' = AfterAppend(r, appended, durable)
    /\ UNCHANGED <<disk, accepting, nextRevision, pending, fatal, admitted,
                   channel, command, batch, retry, durable, checkpointed, armed,
                   appended, threads, boot, shutdown, history, bounds, staged>>

\* The store operation a step performs, with the outcome of a fault only while
\* the bound on faults allows one.
Perform(o) ==
    /\ o.fault => faults < MaxFaults
    /\ faults' = IF o.fault THEN faults + 1 ELSE faults
    /\ store' = o.store
    /\ survivors' = SurvivorsAfter(survivors, o)

\* The authority admits only the revision after the one it last committed.
AppendDelta ==
    IF batch.first # durable + 1
    THEN {Outcome(store, "mismatch", FALSE, FALSE, {})}
    ELSE AppendOutcomes(store, batch)

AppendSucceeds ==
    /\ wpc = "append"
    /\ \E o \in AppendDelta : o.result = "ok" /\ Perform(o)
    /\ durable' = batch.last
    /\ appended' = TRUE
    /\ batch' = None
    /\ IF Requires(command)
       THEN wpc' = "take" /\ UNCHANGED result
       ELSE wpc' = AfterAppend("ok", TRUE, batch.last) /\ result' = "ok"
    /\ UNCHANGED <<shared, channel, command, retry, checkpointed, armed, threads,
                   boot, shutdown, history, crashes, staged>>

\* The frame is durable but the in-memory image rejects it: fail stop.
MaterializeFails ==
    /\ wpc = "append"
    /\ faults < MaxFaults
    /\ \E o \in AppendDelta :
          /\ o.result = "ok"
          /\ store' = o.store
          /\ survivors' = SurvivorsAfter(survivors, o)
    /\ faults' = faults + 1
    /\ durable' = batch.last
    /\ appended' = TRUE
    /\ batch' = None
    /\ fatal' = TRUE
    /\ unsurfaced' = FALSE
    /\ result' = "fatal"
    /\ wpc' = "reply"
    /\ UNCHANGED <<accepting, nextRevision, pending, admitted, channel, command,
                   retry, checkpointed, armed, threads, boot, shutdown, history,
                   crashes, staged>>

\* Fault: the batch that failed is not kept.
AppendFailsDropping ==
    /\ wpc = "append"
    /\ \E o \in AppendDelta :
          /\ o.result # "ok"
          /\ Perform(o)
          /\ result' = o.result
          /\ unsurfaced' = ~Surfaces(command)
    /\ wpc' = "reply"
    /\ batch' = None
    /\ UNCHANGED <<accepting, nextRevision, pending, fatal, admitted, channel,
                   command, retry, durable, checkpointed, armed, appended,
                   threads, boot, shutdown, history, crashes, staged>>

\* A full log is checkpointed first when the checkpoint trails it; any other
\* error keeps the exact batch for a retry.
AppendFails ==
    /\ wpc = "append"
    /\ \E o \in AppendDelta :
          /\ o.result # "ok"
          /\ Perform(o)
          /\ IF o.result = "tooLarge" /\ durable > checkpointed
             THEN /\ wpc' = "pressure"
                  /\ UNCHANGED <<unsurfaced, result>>
             ELSE /\ wpc' = "reply"
                  /\ result' = o.result
                  /\ unsurfaced' = ~Surfaces(command)
    /\ retry' = batch
    /\ batch' = None
    /\ UNCHANGED <<accepting, nextRevision, pending, fatal, admitted, channel,
                   command, durable, checkpointed, armed, appended, threads,
                   boot, shutdown, history, crashes, staged>>

\* Fault: tasks that are staged only count as admitted.
CheckpointSavedStaged ==
    /\ checkpointed' = durable
    /\ admitted' = TasksThrough(nextRevision)

\* save_current_image
CheckpointSaved ==
    /\ checkpointed' = durable
    /\ admitted' = TasksThrough(durable)

SaveForPressure ==
    /\ wpc = "pressure"
    /\ \E o \in SaveOutcomes(store, durable) :
          /\ Perform(o)
          /\ IF o.result = "ok"
             THEN /\ CheckpointSaved
                  /\ wpc' = "take"
                  /\ UNCHANGED <<result, unsurfaced>>
             ELSE /\ result' = o.result
                  /\ unsurfaced' = ~Surfaces(command)
                  /\ wpc' = "reply"
                  /\ UNCHANGED <<checkpointed, admitted>>
    /\ UNCHANGED <<accepting, nextRevision, pending, fatal, channel, command,
                   batch, retry, durable, armed, appended, threads, boot,
                   shutdown, history, crashes, staged>>

SaveImage ==
    /\ wpc = "save"
    /\ \E o \in SaveOutcomes(store, durable) :
          /\ Perform(o)
          /\ result' = o.result
          /\ IF o.result = "ok"
             THEN /\ CheckpointSaved
                  /\ wpc' = IF command.kind = "AppendAdmittedEvent"
                            THEN "event" ELSE "reply"
             ELSE /\ wpc' = "reply"
                  /\ UNCHANGED <<checkpointed, admitted>>
    /\ UNCHANGED <<accepting, nextRevision, pending, unsurfaced, fatal, channel,
                   command, batch, retry, durable, armed, appended, threads,
                   boot, shutdown, history, crashes, staged>>

Promised(revision) == IF revision > promised THEN revision ELSE promised

\* The event is written to its own log after everything it depends on.
AppendEvent ==
    /\ wpc = "event"
    /\ \/ /\ result' = "ok"
          /\ promised' = Promised(command.target)
          /\ UNCHANGED faults
       \/ /\ result' = "io"
          /\ faults < MaxFaults
          /\ faults' = faults + 1
          /\ UNCHANGED promised
    /\ wpc' = "reply"
    /\ UNCHANGED <<disk, shared, channel, command, batch, retry, durable,
                   checkpointed, armed, appended, threads, boot, shutdown,
                   finished, crashes, staged>>

\* Fault: a failed append does not arm the deadline.
DeadlineOnlyAfterSuccess == appended \/ armed

\* update_deadline_after_append
DeadlineAfterAppend ==
    IF appended THEN TRUE
    ELSE IF retry # None \/ result # "ok" THEN TRUE
    ELSE IF durable > checkpointed THEN TRUE
    ELSE armed

\* update_deadline_after_explicit_checkpoint and service_deadline
NewDeadline ==
    CASE command.kind = "Checkpoint" ->
            IF result = "ok" /\ durable = checkpointed THEN FALSE
            ELSE DeadlineAfterAppend \/ durable > checkpointed
      [] command.kind = "Deadline" ->
            result # "ok" \/ appended
      [] command.kind = "Cleanup" -> armed
      [] OTHER -> DeadlineAfterAppend

\* The end of one command: the deadline, the reply, and the end of the worker
\* after a shutdown or a disconnect.
Reply ==
    /\ wpc = "reply"
    /\ armed' = NewDeadline
    /\ wpc' = IF command.kind \in {"Shutdown", "Disconnect"} THEN "stopped"
              ELSE "recv"
    /\ promised' = IF result = "ok" THEN Promised(command.target) ELSE promised
    /\ IF command.sender = None
       THEN UNCHANGED <<tpc, request, admissionLane, boot>>
       ELSE Returned(command.sender, result = "ok")
    /\ IF command.kind = "Shutdown" /\ shutdown.pc = "waiting"
       THEN /\ shutdown' = [shutdown EXCEPT !.pc = "done"]
            /\ finished' = IF result = "ok" THEN command.target ELSE None
       ELSE UNCHANGED <<shutdown, finished>>
    /\ command' = None
    /\ appended' = FALSE
    /\ result' = "ok"
    /\ UNCHANGED <<disk, shared, channel, batch, retry, durable, checkpointed,
                   trev, bounds, staged>>

-----------------------------------------------------------------------------
(* Shutdown *)

ShutdownBegin ==
    /\ shutdown.pc = "running"
    /\ boot = "ready"
    /\ accepting' = FALSE
    /\ shutdown' = [shutdown EXCEPT !.pc = "closing"]
    /\ UNCHANGED <<disk, nextRevision, pending, unsurfaced, fatal, admitted,
                   channel, worker, threads, boot, history, bounds, staged>>

ShutdownTarget ==
    /\ shutdown.pc = "closing"
    /\ shutdown' = [pc |-> "sending", target |-> nextRevision]
    /\ UNCHANGED <<disk, shared, channel, worker, threads, boot, history, bounds,
                   staged>>

ShutdownSend ==
    /\ shutdown.pc = "sending"
    /\ ~WorkerStopped
    /\ ~ChannelFull
    /\ channel' = Append(channel, Command("Shutdown", shutdown.target, None))
    /\ shutdown' = [shutdown EXCEPT !.pc = "waiting"]
    /\ UNCHANGED <<disk, shared, worker, threads, boot, history, bounds, staged>>

\* The caller gives up; the worker keeps its lease until it ends.
ShutdownTimeout ==
    /\ shutdown.pc \in {"sending", "waiting"}
    /\ shutdown' = [shutdown EXCEPT !.pc = "detached"]
    /\ UNCHANGED <<disk, shared, channel, worker, threads, boot, history, bounds,
                   staged>>

\* Drop of the owner on an error path: one try_send, no wait.
DropOwner ==
    /\ shutdown.pc = "running"
    /\ boot \in {"ready", "failed"}
    /\ accepting' = FALSE
    /\ channel' = IF ChannelFull \/ WorkerStopped THEN channel
                  ELSE Append(channel, Command("Shutdown", nextRevision, None))
    /\ shutdown' = [shutdown EXCEPT !.pc = "detached"]
    /\ UNCHANGED <<disk, nextRevision, pending, unsurfaced, fatal, admitted,
                   worker, threads, boot, history, bounds, staged>>

-----------------------------------------------------------------------------
(* Power failure and restart *)

\* Fault: the checkpoint is assumed to cover what was replayed.
AdmittedFromReplay(s) == TasksThrough(ReplayedRevision(s))

\* durable_task_ids of a new owner: only a checkpoint admits a task.
AdmittedAtStart(s) ==
    IF s.ckpt = ReplayedRevision(s) THEN TasksThrough(s.ckpt) ELSE {}

\* start_with_backend on a store that replays to `replayed'.
Started(s) ==
    LET replayed == ReplayedRevision(s)
    IN /\ store' = s
       /\ survivors' = {s}
       /\ staged' = SubSeq(staged, 1, replayed)
       /\ accepting' = TRUE
       /\ nextRevision' = replayed
       /\ pending' = None
       /\ unsurfaced' = FALSE
       /\ fatal' = FALSE
       /\ admitted' = AdmittedAtStart(s)
       /\ channel' = <<>>
       /\ wpc' = "recv"
       /\ command' = None
       /\ batch' = None
       /\ retry' = None
       /\ durable' = replayed
       /\ checkpointed' = s.ckpt
       /\ armed' = (replayed > s.ckpt)
       /\ appended' = FALSE
       /\ result' = "ok"
       /\ tpc' = [t \in Threads |-> "idle"]
       /\ trev' = [t \in Threads |-> 0]
       /\ request' = [t \in Threads |-> None]
       /\ admissionLane' = None
       /\ boot' = "stage"
       /\ shutdown' = [pc |-> "running", target |-> 0]
       /\ finished' = None

\* A power failure, or the exit of the daemon, then a new owner.  Loading the
\* registry truncates a torn suffix.
Restart ==
    /\ crashes < MaxCrashes
    /\ \E s \in survivors :
          /\ Replayable(Repaired(s))
          /\ Started(Repaired(s))
    /\ crashes' = crashes + 1
    /\ UNCHANGED <<promised, faults>>

\* The worker ended and nobody waits for it.
Terminated ==
    /\ WorkerStopped
    /\ shutdown.pc \in {"done", "detached"}
    /\ \A t \in Threads : tpc[t] = "idle"
    /\ UNCHANGED vars

-----------------------------------------------------------------------------
(* The specification *)

Init ==
    /\ store = EmptyStore
    /\ survivors = {EmptyStore}
    /\ accepting = TRUE
    /\ nextRevision = 0
    /\ pending = None
    /\ unsurfaced = FALSE
    /\ fatal = FALSE
    /\ admitted = {}
    /\ channel = <<>>
    /\ wpc = "recv"
    /\ command = None
    /\ batch = None
    /\ retry = None
    /\ durable = 0
    /\ checkpointed = 0
    /\ armed = FALSE
    /\ appended = FALSE
    /\ result = "ok"
    /\ tpc = [t \in Threads |-> "idle"]
    /\ trev = [t \in Threads |-> 0]
    /\ request = [t \in Threads |-> None]
    /\ admissionLane = None
    /\ boot = "stage"
    /\ shutdown = [pc |-> "running", target |-> 0]
    /\ faults = 0
    /\ crashes = 0
    /\ staged = <<>>
    /\ promised = 0
    /\ finished = None

WorkerStep ==
    \/ Recv \/ Cleanup \/ TakeBatch \/ NothingToAppend \/ AppendSucceeds
    \/ MaterializeFails \/ AppendFails \/ SaveForPressure \/ SaveImage
    \/ AppendEvent \/ Reply \/ HandlesDropped

\* What a thread does inside a call it made.
ThreadStep(t) ==
    \/ StageLocked(t) \/ StageRefused(t) \/ TryWake(t) \/ Send(t)
    \/ Disconnected(t)

\* What a thread decides to do.
ThreadChoice(t) ==
    \/ StageBegin(t) \/ BootNothingToStage(t) \/ Proceed(t) \/ CallStaged(t)
    \/ CallIdle(t) \/ Admit(t) \/ CallRefused(t)

ShutdownStep ==
    \/ ShutdownBegin \/ ShutdownTarget \/ ShutdownSend \/ ShutdownTimeout
    \/ DropOwner

Next ==
    \/ WorkerStep
    \/ DeadlineExpires
    \/ \E t \in Threads : ThreadStep(t) \/ ThreadChoice(t)
    \/ ShutdownStep
    \/ Restart
    \/ Terminated

Spec == Init /\ [][Next]_vars

\* The worker runs, an armed deadline fires once the channel stays empty, a
\* thread completes the call it is in, and a blocked sender gets its turn (the
\* channel serves its waiting senders in order).  Nothing makes a thread start
\* a call, and nothing forces an owner to shut down.
Fairness ==
    /\ WF_vars(WorkerStep)
    /\ WF_vars(DeadlineExpires)
    /\ \A t \in Threads : WF_vars(ThreadStep(t)) /\ SF_vars(Send(t))

FairSpec == Spec /\ Fairness

-----------------------------------------------------------------------------
(* Properties *)

Ranges == [first : 1..MaxRevision, last : 1..MaxRevision]

Commands == [kind : Kinds, target : -1..MaxRevision, sender : Threads \cup {None}]

\* Every variable has its type.  Revisions never pass the counter they were
\* taken from, and a thread that waits is in a call.
TypeOK ==
    /\ store \in Stores
    /\ survivors \subseteq Stores
    /\ accepting \in BOOLEAN
    /\ nextRevision \in 0..MaxRevision
    /\ pending \in Ranges \cup {None}
    /\ unsurfaced \in BOOLEAN
    /\ fatal \in BOOLEAN
    /\ admitted \subseteq Threads
    /\ admissionLane \in Threads \cup {None}
    /\ channel \in Seq(Commands) /\ Len(channel) <= COMMAND_CAPACITY
    /\ wpc \in {"recv", "cleanup", "take", "append", "pressure", "save",
               "event", "reply", "stopped"}
    /\ command \in Commands \cup {None}
    /\ batch \in Ranges \cup {None}
    /\ retry \in Ranges \cup {None}
    /\ durable \in 0..nextRevision
    /\ checkpointed \in 0..durable
    /\ armed \in BOOLEAN
    /\ appended \in BOOLEAN
    /\ result \in {"ok", "io", "mismatch", "tooLarge", "fatal", "prior",
                  "unavailable"}
    /\ tpc \in [Threads -> {"idle", "staging", "waking", "staged", "sending",
                            "waiting"}]
    /\ trev \in [Threads -> 0..MaxRevision]
    /\ request \in [Threads -> Commands \cup {None}]
    /\ boot \in {"stage", "flush", "checkpoint", "ready", "failed"}
    /\ shutdown \in [pc : {"running", "closing", "sending", "waiting", "done",
                          "detached"},
                    target : 0..MaxRevision]
    /\ faults \in 0..MaxFaults
    /\ crashes \in 0..MaxCrashes
    /\ staged \in Seq(Threads) /\ Len(staged) = nextRevision
    /\ promised \in 0..MaxRevision
    /\ finished \in 0..MaxRevision \cup {None}

\* Whatever a power failure leaves, the next start can load it: no fault in an
\* append, a checkpoint or a log reset makes replay fail closed.
AlwaysReplayable == \A s \in survivors : Replayable(Repaired(s))

\* A barrier, checkpoint or event append that returned success required its
\* revision to be durable, and so did every event in a log: every power failure
\* afterwards replays at least to that revision.
AckedDurable ==
    \A s \in survivors : promised <= ReplayedRevision(s)

\* task_is_durably_admitted: an admitted task is in the checkpoint that every
\* power failure leaves, so its namespace never outlives the registry.
AdmittedIsCheckpointed ==
    \A s \in survivors : admitted \subseteq TasksThrough(s.ckpt)

\* The batch in flight (or the one kept for a retry) and the pending delta
\* partition the revisions above the durable one: staging, taking, failing and
\* retrying neither lose a delta nor give it two places.
NothingLost ==
    LET held == IF batch # None THEN batch ELSE retry
        heldLast == IF held = None THEN durable ELSE held.last
    IN /\ batch = None \/ retry = None
       /\ held # None => held.first = durable + 1 /\ held.last >= held.first
       /\ IF pending = None THEN heldLast = nextRevision
          ELSE pending.first = heldLast + 1 /\ pending.last = nextRevision

\* The owner never disagrees with its own log: no append or checkpoint of its
\* is refused as a gap or as a diverging image, after any fault or restart.
NoSelfDivergence == result # "mismatch"

\* A shutdown that reported success left nothing behind: no revision was
\* staged above its target, and every power failure afterwards starts from a
\* checkpoint that covers them all.
ShutdownCovers ==
    finished # None =>
        /\ finished = nextRevision
        /\ \A s \in survivors : s.ckpt = nextRevision

\* A caller that sent a command gets an answer, whatever the worker does with
\* it and also when the owner shuts down under it.
EveryCallReturns ==
    \A t \in Threads : tpc[t] \in {"sending", "waiting"} ~> tpc[t] = "idle"

\* Once requests stop, the owner brings every appended revision into a
\* checkpoint, whatever the finitely many I/O faults and the restarts were, unless it
\* stopped or failed for good.  The one other exception is an owner restarted on a full
\* log that its checkpoint already covers: its startup fails on the append that needs
\* the room, and it goes on refusing it (persistence.rs:1064).
QuietCheckpoints ==
    <>[](\A t \in Threads : tpc[t] = "idle") =>
        <>[](\/ retry = None /\ durable = checkpointed
             \/ fatal
             \/ WorkerStopped
             \/ crashes > 0 /\ boot = "failed" /\ Len(store.frames) = MaxFrames)

\* Every directory that a power failure may leave replays, has what callers were
\* promised, and knows every task that was admitted.
SurvivorsServe == TypeOK /\ AlwaysReplayable /\ AckedDurable /\ AdmittedIsCheckpointed
=============================================================================
