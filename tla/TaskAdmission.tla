---------------------------- MODULE TaskAdmission ----------------------------
(***************************************************************************)
(* One task of the daemon: admission, sequence runs, watch events,         *)
(* delegated agent launches, cancellation, rollback of a failed admission  *)
(* and daemon shutdown (packet28d: watch.rs, state.rs, launch.rs,          *)
(* broker/support.rs, server.rs, application.rs).                          *)
(*                                                                         *)
(* Request threads interleave.  A section of code that holds the state     *)
(* mutex is one action; so is the stretch from acquiring the event lane to *)
(* the end of the append made under it, because only the holder of the     *)
(* lane touches the event log.  Tasks share nothing but these two locks,   *)
(* so one task is enough.  Generations are the numbers 1, 2, ...; 0 stands *)
(* for no generation.  A record is in memory; its persistence is the       *)
(* subject of PersistenceOwner.                                            *)
(***************************************************************************)
EXTENDS Naturals, Sequences, FiniteSets

CONSTANTS
    Threads,         \* request threads, watch workers and child waiters
    WatchIds,        \* what watch_id_for makes of the watches a client submits
    Scenarios,       \* what is called, and bounds on what the environment does
    MaxGenerations,  \* bound on generation ids
    None             \* no record, no holder

ASSUME AdmissionAssumption ==
    /\ IsFiniteSet(Threads) /\ IsFiniteSet(WatchIds)
    /\ \A s \in Scenarios :
          \* the operations clients call; startup recovered a queued replan
          /\ s.ops \subseteq {"submit", "cancel", "watch", "unwatch", "launch", "write", "stop"}
          /\ s.recovered \in BOOLEAN
          \* bounds on calls, on concurrent ones, on the log up to which a run
          \* reports its steps, on I/O faults and on waits that time out
          /\ {s.calls, s.active, s.steps, s.faults, s.timeouts} \subseteq Nat
          /\ 2 * s.calls + (IF s.recovered THEN 1 ELSE 0) <= MaxGenerations
    /\ MaxGenerations \in Nat
    /\ None \notin Threads

VARIABLES
    task,       \* the record in state.tasks, or None
    watches,    \* ids in state.watches
    handles,    \* generation whose watcher sits in watcher_handles, 0: none
    current,    \* task_generations.active
    nextId,     \* task_generations.next_id
    cancelled,  \* generations whose token is cancelled
    children,   \* generations with a registered child process
    proc,       \* that process: none, gated, running or dead
    log,        \* the task's event log
    lane,       \* holder of the event lane, or None
    fired,      \* <<watch, generation>> of every watcher ever created: its
                \* callbacks may still be queued
    requested,  \* shutdown.request() was called
    stopping,   \* state.shutting_down
    pc, fr,     \* where each thread is, and its locals
    lease,      \* activity leases each thread holds
    calls, faults, timeouts,
    limits      \* the scenario

registry == <<task, watches, handles>>
tokens == <<current, nextId, cancelled>>
processes == <<children, proc>>
events == <<log, lane>>
daemon == <<requested, stopping>>
threads == <<pc, fr, lease>>
bounds == <<calls, faults, timeouts>>
moves == <<registry, tokens, processes, events, fired, daemon, threads, bounds>>
vars == <<moves, limits>>

Generations == 1..MaxGenerations

-----------------------------------------------------------------------------
(* TaskLifecycle and the task record *)

Lifecycles == {"Idle", "ReplanPending", "Running", "RunningRecoveredReplan",
               "RunningReplanPending", "Cancelling", "Cancelled"}

Records == [life : Lifecycles, ids : SUBSET WatchIds, sequence : BOOLEAN, seq : Nat]

ASSUME NoneIsNoRecord == None \notin Records

IsRunning(life) ==
    life \in {"Running", "RunningRecoveredReplan", "RunningReplanPending"}

\* `sequence': the record stores a sequence to run (one made by an event has none).
Record(life, ids, sequence, seq) ==
    [life |-> life, ids |-> ids, sequence |-> sequence, seq |-> seq]

Fresh == Record("Idle", {}, FALSE, 0)

\* start and start_durable_replan, where they are not refused.
Started(life) ==
    IF life = "ReplanPending" THEN "RunningRecoveredReplan" ELSE "Running"

MayStart(life) == life \in {"Idle", "ReplanPending"}

Replanned(life) ==
    CASE life = "Idle" -> "ReplanPending"
      [] life \in {"Running", "RunningRecoveredReplan"} -> "RunningReplanPending"
      [] OTHER -> life

Finished(life) == IF life = "RunningReplanPending" THEN "ReplanPending" ELSE "Idle"

EnsureTask == IF task = None THEN Fresh ELSE task

-----------------------------------------------------------------------------
(* Generation tokens and activity leases *)

\* ensure: the active generation, or a new one.
Ensured == IF current = 0 THEN nextId + 1 ELSE current

Ensure ==
    /\ Ensured \in Generations
    /\ current' = Ensured
    /\ nextId' = IF current = 0 THEN nextId + 1 ELSE nextId

\* Fault: the ids are not compared.
LiveUncompared(g) == current # 0 /\ current \notin cancelled

\* The check every late step makes: its generation is active and not cancelled.
Live(g) == g # 0 /\ g = current /\ g \notin cancelled

NoLease == [op |-> 0, run |-> 0, event |-> 0, launch |-> 0]

Busy(g) ==
    \E c \in Threads : g \in {lease[c].op, lease[c].run, lease[c].event}

\* Fault: the wait watches the child processes only.
ChildrenGone(g) == g \notin children

\* wait_until_idle: no operation and no child; a launch is an operation too.
Quiesced(g) == ~Busy(g) /\ g \notin children

LaunchFree(g) == g \notin children /\ \A c \in Threads : lease[c].launch # g

\* Fault: the process is not registered.
Unregistered(g) == children

register_child(g) == children \cup {g}

complete_child(g) == children \ {g}

\* SIGTERM, then SIGKILL, to every registered process group.
Signalled(g) ==
    [proc EXCEPT ![g] = IF g \in children /\ @ # "none" THEN "dead" ELSE @]

-----------------------------------------------------------------------------
(* Threads *)

\* op: the operation; ids: the watches it submits, or the one that fired;
\* gen: its generation; todo: watches left to remove or install; replaced: the
\* record an admission displaced; initial: a rollback follows the initial run;
\* fence: of its run; run: generation of the run; ok, rerun: how the run ended;
\* kind, for, ret, res: an event, its expected generation, where to continue
\* and the outcome; seq: sequence number of the event.
NoFrame == [op |-> "none", ids |-> {}, gen |-> 0, todo |-> {},
            replaced |-> None, initial |-> FALSE, fence |-> "Unfenced",
            run |-> 0, ok |-> FALSE, rerun |-> FALSE, kind |-> "none", for |-> 0,
            ret |-> "idle", res |-> "none", seq |-> 0]

At(c, label) == pc[c] = label

Goto(c, label) == pc' = [pc EXCEPT ![c] = label]

\* The operation returns to its client: every lease it holds is dropped.
Return(c) ==
    /\ Goto(c, "idle")
    /\ fr' = [fr EXCEPT ![c] = NoFrame]
    /\ lease' = [lease EXCEPT ![c] = NoLease]

\* Call emit_task_event_ordered; 0 as the expected generation means unfenced.
CallEmit(c, f, kind, for, ret) ==
    /\ Goto(c, "emit")
    /\ fr' = [fr EXCEPT ![c] = [f EXCEPT !.kind = kind, !.for = for, !.ret = ret]]

\* The event guard is dropped at the end of a publication.
\* Fault: it leaks.
LaneLeaked(c) == c

LaneReleased(c) == None

Fault == faults < limits.faults /\ faults' = faults + 1

NoFault == UNCHANGED faults

Begin(c, op) ==
    /\ At(c, "idle")
    /\ op \in limits.ops
    /\ calls < limits.calls
    /\ Cardinality({t \in Threads : ~At(t, "idle")}) < limits.active
    /\ calls' = calls + 1

-----------------------------------------------------------------------------
(* emit_task_event_ordered *)

\* An unfenced event goes to the active generation unless that is cancelled.
EventAdmitted(f) ==
    IF f.for = 0 THEN Ensured \notin cancelled ELSE task # None /\ Live(f.for)

\* An entry of the log; ok: the append that wrote it returned success.
Entry(gen, kind, ok) == [gen |-> gen, kind |-> kind, ok |-> ok]

\* append_locked_task_event fails before it writes the frame, or in the sync
\* that follows: then the frame stays.
AppendFails(entry) == {log, Append(log, entry)}

\* The lane is taken, the generation checked and leased, the event appended.
\* An unfenced event creates the record and a generation where there is none.
EmitAppend(c) ==
    LET f == fr[c]
        gen == IF f.for = 0 THEN Ensured ELSE f.for
    IN  /\ At(c, "emit")
        /\ lane = None
        /\ IF f.for = 0 THEN task' = EnsureTask /\ Ensure
           ELSE UNCHANGED <<task, current, nextId>>
        /\ \/ /\ EventAdmitted(f)
              /\ log' = Append(log, Entry(gen, f.kind, TRUE))
              /\ lane' = c
              /\ lease' = [lease EXCEPT ![c].event = gen]
              /\ fr' = [fr EXCEPT ![c].seq = Len(log')]
              /\ Goto(c, "emit_publish")
              /\ NoFault
           \/ /\ EventAdmitted(f)
              /\ Fault
              /\ log' \in AppendFails(Entry(gen, f.kind, FALSE))
              /\ fr' = [fr EXCEPT ![c].res = "error"]
              /\ Goto(c, f.ret)
              /\ UNCHANGED <<lane, lease>>
           \/ /\ ~EventAdmitted(f)
              /\ fr' = [fr EXCEPT ![c].res = "false"]
              /\ Goto(c, f.ret)
              /\ UNCHANGED <<events, lease, faults>>
        /\ UNCHANGED <<watches, handles, cancelled, processes, fired, daemon,
                       calls, timeouts>>

\* The record is read again: the generation is not.
EmitPublish(c) ==
    /\ At(c, "emit_publish")
    /\ IF task # None /\ task.seq <= fr[c].seq
       THEN /\ task' = [task EXCEPT !.seq = fr[c].seq]
            /\ fr' = [fr EXCEPT ![c].res = "true", ![c].seq = 0]
       ELSE /\ fr' = [fr EXCEPT ![c].res = "error", ![c].seq = 0]
            /\ UNCHANGED task
    /\ lane' = LaneReleased(c)
    /\ lease' = [lease EXCEPT ![c].event = 0]
    /\ Goto(c, fr[c].ret)
    /\ UNCHANGED <<watches, handles, tokens, processes, log, fired, daemon, bounds>>

-----------------------------------------------------------------------------
(* remove_watch and cancel_task *)

RemoveWatch(w) ==
    /\ handles' = [handles EXCEPT ![w] = 0]
    /\ watches' = watches \ {w}
    /\ task' = IF w \in watches /\ task # None
               THEN [task EXCEPT !.ids = @ \ {w}] ELSE task

\* The WatchRemove request.
CallUnwatch(c) ==
    /\ Begin(c, "unwatch")
    /\ \E w \in WatchIds : RemoveWatch(w)
    /\ UNCHANGED <<tokens, processes, events, fired, daemon, threads, faults,
                   timeouts>>

\* A submission of an existing id cancels the task first, then registers.
AfterCancel(c, ok) ==
    IF fr[c].op = "submit" /\ ok
    THEN /\ Goto(c, "register")
         /\ fr' = [fr EXCEPT ![c] = [NoFrame EXCEPT !.op = "submit", !.ids = fr[c].ids]]
         /\ UNCHANGED lease
    ELSE Return(c)

CallCancel(c) ==
    /\ Begin(c, "cancel")
    /\ Goto(c, "cancel")
    /\ fr' = [fr EXCEPT ![c].op = "cancel"]
    /\ UNCHANGED <<registry, tokens, processes, events, fired, daemon, lease,
                   faults, timeouts>>

\* A missing or cancelled task is left alone; otherwise its generation is
\* cancelled and the ids of its watches are read.
CancelRequest(c) ==
    /\ At(c, "cancel")
    /\ IF task = None \/ task.life = "Cancelled"
       THEN AfterCancel(c, TRUE) /\ UNCHANGED <<task, tokens>>
       ELSE /\ Ensure
            /\ cancelled' = cancelled \cup {Ensured}
            /\ task' = [task EXCEPT !.life = "Cancelling"]
            /\ Goto(c, "remove")
            /\ fr' = [fr EXCEPT ![c].gen = Ensured, ![c].todo = task.ids]
            /\ UNCHANGED lease
    /\ UNCHANGED <<watches, handles, processes, events, fired, daemon, bounds>>

\* One remove_watch call for each id read above, in a section of its own.
CancelRemoveWatch(c) ==
    /\ At(c, "remove")
    /\ \E w \in fr[c].todo :
          /\ RemoveWatch(w)
          /\ fr' = [fr EXCEPT ![c].todo = @ \ {w}]
    /\ UNCHANGED <<tokens, processes, events, fired, daemon, pc, lease, bounds>>

CancelTerminate(c) ==
    /\ At(c, "remove")
    /\ fr[c].todo = {}
    /\ proc' = Signalled(fr[c].gen)
    /\ Goto(c, "quiesce")
    /\ UNCHANGED <<registry, tokens, children, events, fired, daemon, fr, lease, bounds>>

CancelQuiesce(c) ==
    /\ At(c, "quiesce")
    /\ Quiesced(fr[c].gen)
    /\ Goto(c, "complete")
    /\ UNCHANGED <<registry, tokens, processes, events, fired, daemon, fr, lease, bounds>>

CancelTimeout(c) ==
    /\ At(c, "quiesce")
    /\ ~Quiesced(fr[c].gen)
    /\ timeouts < limits.timeouts
    /\ timeouts' = timeouts + 1
    /\ AfterCancel(c, FALSE)
    /\ UNCHANGED <<registry, tokens, processes, events, fired, daemon, calls, faults>>

\* complete_task_cancellation_for_generation: checks and append, on the lane.
CancelAppend(c) ==
    LET g == fr[c].gen
        open == task # None /\ task.life # "Cancelled"
        mine == current = g /\ g \in cancelled /\ task.life = "Cancelling"
    IN  /\ At(c, "complete")
        /\ lane = None
        /\ \/ /\ ~open
              /\ AfterCancel(c, TRUE)
              /\ UNCHANGED <<events, faults>>
           \/ /\ open /\ ~mine
              /\ AfterCancel(c, FALSE)
              /\ UNCHANGED <<events, faults>>
           \/ /\ open /\ mine
              /\ log' = Append(log, Entry(g, "task_cancelled", TRUE))
              /\ lane' = c
              /\ fr' = [fr EXCEPT ![c].seq = Len(log')]
              /\ Goto(c, "cancel_publish")
              /\ UNCHANGED <<lease, faults>>
           \/ /\ open /\ mine
              /\ Fault
              /\ log' \in AppendFails(Entry(g, "task_cancelled", FALSE))
              /\ AfterCancel(c, FALSE)
              /\ UNCHANGED lane
        /\ UNCHANGED <<registry, tokens, processes, fired, daemon, calls, timeouts>>

\* Fault: the terminal record keeps its generation.
RetireRecordOnly(c) ==
    /\ task' = [task EXCEPT !.life = "Cancelled", !.seq = fr[c].seq]
    /\ UNCHANGED current

\* The record becomes terminal and the generation is retired.
Retire(c) ==
    /\ task' = [task EXCEPT !.life = "Cancelled", !.seq = fr[c].seq]
    /\ current' = 0

CancelPublish(c) ==
    LET ok == /\ current = fr[c].gen /\ fr[c].gen \in cancelled
              /\ task # None
              /\ task.seq <= fr[c].seq
    IN  /\ At(c, "cancel_publish")
        /\ IF ok THEN Retire(c) ELSE UNCHANGED <<task, current>>
        /\ lane' = LaneReleased(c)
        /\ AfterCancel(c, ok)
        /\ UNCHANGED <<watches, handles, nextId, cancelled, processes, log, fired,
                       daemon, bounds>>

-----------------------------------------------------------------------------
(* register_task_and_watches and install_watch *)

CallSubmit(c) ==
    /\ Begin(c, "submit")
    /\ \E ids \in SUBSET WatchIds :
          fr' = [fr EXCEPT ![c].op = "submit", ![c].ids = ids]
    /\ Goto(c, IF task = None THEN "register" ELSE "cancel")
    /\ UNCHANGED <<registry, tokens, processes, events, fired, daemon, lease,
                   faults, timeouts>>

\* Fault: registration replaces a generation that is still active.
MayReplace == task = None \/ task.life = "Cancelled"

\* Refused when the record is not terminal or a generation is active.
MayRegister == (task = None \/ task.life = "Cancelled") /\ current = 0

Register(c) ==
    LET ids == fr[c].ids
    IN  /\ At(c, "register")
        /\ IF ~MayRegister
           THEN Return(c) /\ UNCHANGED <<task, watches, current, nextId>>
           ELSE /\ nextId + 1 \in Generations
                /\ nextId' = nextId + 1
                /\ current' = nextId + 1
                /\ task' = Record("Idle", ids, TRUE, 0)
                /\ watches' = watches \cup ids
                /\ fr' = [fr EXCEPT ![c].gen = nextId + 1, ![c].todo = ids,
                                    ![c].replaced = task]
                /\ Goto(c, "install")
                /\ UNCHANGED lease
        /\ UNCHANGED <<handles, cancelled, processes, events, fired, daemon, bounds>>

AdmissionFails(c) ==
    /\ Goto(c, "rollback")
    /\ fr' = [fr EXCEPT ![c].initial = FALSE, ![c].todo = {}]

\* The watch and the generation are looked up, a watcher is created outside the
\* lock; creating it may fail.
InstallLookup(c) ==
    /\ At(c, "install")
    /\ \E w \in fr[c].todo :
          \/ /\ w \in watches /\ task # None
             /\ Ensure
             /\ fired' = fired \cup {<<w, Ensured>>}
             /\ fr' = [fr EXCEPT ![c].for = Ensured, ![c].todo = @ \ {w}, ![c].kind = w]
             /\ Goto(c, "install_publish")
             /\ NoFault
          \/ /\ w \in watches /\ task # None
             /\ Ensure
             /\ Fault
             /\ AdmissionFails(c)
             /\ UNCHANGED fired
          \/ /\ ~(w \in watches /\ task # None)
             /\ AdmissionFails(c)
             /\ UNCHANGED <<current, nextId, fired, faults>>
    /\ UNCHANGED <<registry, cancelled, processes, events, daemon, lease, calls, timeouts>>

\* Fault: the generation is not checked again once the watcher exists.
InstallUnchecked(g) == TRUE

InstallAllowed(g) == Live(g)

InstallPublish(c) ==
    LET w == fr[c].kind
    IN  /\ At(c, "install_publish")
        /\ IF InstallAllowed(fr[c].for) /\ w \in watches
           THEN /\ handles' = [handles EXCEPT ![w] = fr[c].for]
                /\ Goto(c, "install")
                /\ fr' = [fr EXCEPT ![c].for = 0, ![c].kind = "none"]
           ELSE /\ Goto(c, "rollback")
                /\ fr' = [fr EXCEPT ![c].for = 0, ![c].kind = "none", ![c].todo = {}]
                /\ UNCHANGED handles
        /\ UNCHANGED <<task, watches, tokens, processes, events, fired, daemon,
                       lease, bounds>>

\* All watches installed: the generation is checked once more, then the
\* initial run begins under the admission's fence.
InstallDone(c) ==
    /\ At(c, "install")
    /\ fr[c].todo = {}
    /\ IF current = fr[c].gen /\ task # None
       THEN Goto(c, "run") /\ fr' = [fr EXCEPT ![c].fence = "Initial"]
       ELSE AdmissionFails(c)
    /\ UNCHANGED <<registry, tokens, processes, events, fired, daemon, lease, bounds>>

-----------------------------------------------------------------------------
(* rollback_failed_task_admission_inner *)

\* The admission's generation is cancelled and its watchers are dropped.
RollbackBegin(c) ==
    LET g == fr[c].gen
    IN  /\ At(c, "rollback")
        /\ IF current # g
           THEN Return(c) /\ UNCHANGED <<handles, cancelled, proc>>
           ELSE /\ cancelled' = cancelled \cup {g}
                /\ handles' = [w \in WatchIds |-> IF w \in watches THEN 0 ELSE handles[w]]
                /\ proc' = Signalled(g)
                /\ Goto(c, "rollback_quiesce")
                /\ UNCHANGED <<fr, lease>>
        /\ UNCHANGED <<task, watches, current, nextId, children, events, fired,
                       daemon, bounds>>

\* Fault: storage is removed although a displaced record comes back.
RemovesAnyStorage(f) == f.initial

\* Only a failed initial run of a fresh task removes the task's storage.
RemovesStorage(f) == f.initial /\ f.replaced = None

\* A rollback that fails asks for a daemon shutdown.
RollbackFails(c) == Return(c) /\ requested' = TRUE

RollbackQuiesce(c) ==
    /\ At(c, "rollback_quiesce")
    /\ \/ /\ Quiesced(fr[c].gen)
          /\ Goto(c, IF RemovesStorage(fr[c]) THEN "rollback_clean" ELSE "rollback_final")
          /\ UNCHANGED <<fr, lease, timeouts, requested>>
       \/ /\ ~Quiesced(fr[c].gen)
          /\ timeouts < limits.timeouts
          /\ timeouts' = timeouts + 1
          /\ RollbackFails(c)
    /\ UNCHANGED <<registry, tokens, processes, events, fired, stopping, calls, faults>>

\* Another cancellation may have taken the task over.
StillMine(c) ==
    /\ current = fr[c].gen
    /\ ~(task # None /\ task.life \in {"Cancelling", "Cancelled"})

\* Storage of a fresh task is removed under the lane, without the state lock.
RollbackClean(c) ==
    /\ At(c, "rollback_clean")
    /\ lane = None
    /\ \/ /\ StillMine(c)
          /\ log' = <<>>
          /\ lane' = c
          /\ Goto(c, "rollback_final")
          /\ UNCHANGED <<fr, lease, faults, requested>>
       \/ /\ StillMine(c)
          /\ Fault
          /\ RollbackFails(c)
          /\ UNCHANGED events
       \/ /\ ~StillMine(c)
          /\ Return(c)
          /\ UNCHANGED <<events, faults, requested>>
    /\ UNCHANGED <<registry, tokens, processes, fired, stopping, calls, timeouts>>

\* The record is removed, or the displaced terminal record comes back with the
\* high-water mark of the failed one; then the change is flushed.
RollbackFinal(c) ==
    LET old == fr[c].replaced
        high == IF task = None THEN 0 ELSE task.seq
    IN  /\ At(c, "rollback_final")
        /\ lane \in {None, c}
        /\ lane' = None
        /\ IF StillMine(c)
           THEN /\ task' = IF old = None THEN None
                           ELSE [old EXCEPT !.seq = IF high > @ THEN high ELSE @]
                /\ watches' = {}
                /\ handles' = [w \in WatchIds |-> IF w \in watches THEN 0 ELSE handles[w]]
                /\ current' = 0
                /\ \/ Return(c) /\ UNCHANGED <<faults, requested>>
                   \/ Fault /\ RollbackFails(c)
           ELSE Return(c) /\ UNCHANGED <<registry, current, faults, requested>>
        /\ UNCHANGED <<nextId, cancelled, processes, log, fired, stopping, calls, timeouts>>

-----------------------------------------------------------------------------
(* run_sequence_for_task_with_executor_fence *)

Fenced(c) == fr[c].fence # "Unfenced"

\* task_run_fence_matches
FenceMatches(c) ==
    Fenced(c) => /\ task # None
                 /\ task.life \in (IF fr[c].fence = "Initial"
                                   THEN {"Idle", "ReplanPending"}
                                   ELSE {"ReplanPending"})
                 /\ current = fr[c].gen

\* What the caller does with the outcome of its run: "some", "none" or "error".
AfterRun(c, outcome) ==
    CASE fr[c].op = "submit" /\ outcome = "some" ->
            \* a failed step in the response fails the admission as well
            \/ Return(c)
            \/ /\ Goto(c, "rollback")
               /\ fr' = [fr EXCEPT ![c].initial = TRUE, ![c].run = 0]
               /\ lease' = [lease EXCEPT ![c] = NoLease]
      [] fr[c].op = "submit" /\ outcome # "some" ->
            /\ Goto(c, "rollback")
            /\ fr' = [fr EXCEPT ![c].initial = TRUE, ![c].run = 0]
            /\ lease' = [lease EXCEPT ![c] = NoLease]
      [] fr[c].op = "watch" /\ outcome # "some" ->
            /\ Goto(c, "owned")
            /\ lease' = [lease EXCEPT ![c].run = 0]
            /\ UNCHANGED fr
      [] fr[c].op = "recovered" /\ outcome = "error" ->
            /\ Goto(c, "owned")
            /\ lease' = [lease EXCEPT ![c].run = 0]
            /\ UNCHANGED fr
      [] OTHER -> Return(c)

RunAdmitted(c) ==
    /\ ~stopping
    /\ FenceMatches(c)
    /\ task # None
    /\ MayStart(task.life)
    /\ task.sequence
    /\ Ensured \notin cancelled

\* What a refused run returns: nothing under a fence it fails, otherwise an error.
Refusal(c) ==
    IF Fenced(c) /\ (stopping \/ ~FenceMatches(c) \/ Ensured \in cancelled)
    THEN "none" ELSE "error"

\* The claim: the lifecycle starts and the run takes a lease.  A queued replan
\* is flushed before it is claimed, and the flush may fail.
RunClaim(c) ==
    /\ At(c, "run")
    /\ \/ /\ ~RunAdmitted(c)
          /\ AfterRun(c, Refusal(c))
          /\ UNCHANGED <<task, current, nextId, faults, requested>>
       \/ /\ RunAdmitted(c)
          /\ Ensure
          /\ task' = [task EXCEPT !.life = Started(@)]
          /\ lease' = [lease EXCEPT ![c].run = Ensured]
          /\ fr' = [fr EXCEPT ![c].run = Ensured]
          /\ Goto(c, IF task.life = "ReplanPending" THEN "claimed" ELSE "started")
          /\ UNCHANGED <<faults, requested>>
       \/ /\ ~stopping /\ FenceMatches(c)
          /\ task # None
          /\ task.life = "ReplanPending"
          /\ Fault
          /\ requested' = TRUE
          /\ AfterRun(c, "error")
          /\ UNCHANGED <<task, current, nextId>>
    /\ UNCHANGED <<watches, handles, cancelled, processes, events, fired, stopping,
                   calls, timeouts>>

\* A claimed replan is made durable and checked again before it executes.
RunClaimed(c) ==
    /\ At(c, "claimed")
    /\ \/ /\ Fault
          /\ requested' = TRUE
          /\ AfterRun(c, "error")
       \/ /\ NoFault
          /\ UNCHANGED requested
          /\ IF /\ ~stopping
                /\ Live(fr[c].run)
                /\ task # None
                /\ task.life \in {"RunningRecoveredReplan", "RunningReplanPending"}
             THEN Goto(c, "started") /\ UNCHANGED <<fr, lease>>
             ELSE AfterRun(c, IF Fenced(c) THEN "none" ELSE "error")
    /\ UNCHANGED <<registry, tokens, processes, events, fired, stopping, calls, timeouts>>

RunStarted(c) ==
    /\ At(c, "started")
    /\ CallEmit(c, fr[c], "task_started", fr[c].run, "execute")
    /\ UNCHANGED <<registry, tokens, processes, events, fired, daemon, lease, bounds>>

\* Fault: the observer lets a cancelled sequence go on.
NeverCancels(f) == FALSE

\* TaskSequenceObserver: asked by the kernel between two steps.
should_cancel(f) == f.run \in cancelled

\* The kernel executes the sequence; its observer reports the steps.
RunStep(c) ==
    /\ At(c, "execute")
    /\ ~should_cancel(fr[c])
    /\ Len(log) < limits.steps
    /\ CallEmit(c, fr[c], "step_completed", fr[c].run, "execute")
    /\ UNCHANGED <<registry, tokens, processes, events, fired, daemon, lease, bounds>>

\* finish_run, fenced by the generation of the run.
RunFinish(c) ==
    /\ At(c, "execute")
    /\ IF Live(fr[c].run) /\ task # None /\ IsRunning(task.life)
       THEN \E ok \in BOOLEAN :
              LET rerun == task.life = "RunningReplanPending"
                  f == [fr[c] EXCEPT !.ok = ok, !.rerun = rerun]
              IN  /\ task' = [task EXCEPT !.life = Finished(@)]
                  /\ IF ok THEN CallEmit(c, f, "context_updated", f.run, "refreshed")
                     ELSE CallEmit(c, f, "task_failed", f.run, "ended")
                  /\ UNCHANGED lease
       ELSE AfterRun(c, "error") /\ UNCHANGED task
    /\ UNCHANGED <<watches, handles, tokens, processes, events, fired, daemon, bounds>>

\* The owned rerun: the lease is dropped and the loop starts again.
Rerun(c) ==
    /\ Goto(c, "run")
    /\ fr' = [fr EXCEPT ![c] = [@ EXCEPT !.run = 0, !.ok = FALSE, !.rerun = FALSE,
                                         !.kind = "none", !.for = 0, !.ret = "idle",
                                         !.res = "none"]]
    /\ lease' = [lease EXCEPT ![c].run = 0]

\* Fault: a replan queued during a successful run is forgotten.
NoRerun(f) == FALSE

\* The invocation owns a replan that was queued while it ran.
OwnsRerun(f) == f.rerun /\ f.run \notin cancelled

RunRefreshed(c) ==
    LET f == fr[c]
    IN  /\ At(c, "refreshed")
        /\ CASE OwnsRerun(f) -> Rerun(c)
             [] ~OwnsRerun(f) /\ (f.res = "error" \/ f.rerun) -> AfterRun(c, "error")
             [] OTHER -> /\ CallEmit(c, f, "task_completed", f.run, "ended")
                         /\ UNCHANGED lease
        /\ UNCHANGED <<registry, tokens, processes, events, fired, daemon, bounds>>

RunEnded(c) ==
    LET f == fr[c]
    IN  /\ At(c, "ended")
        /\ CASE f.ok -> AfterRun(c, IF f.res = "true" THEN "some" ELSE "error")
             [] ~f.ok /\ OwnsRerun(f) /\ f.res # "false" -> Rerun(c)
             [] OTHER -> AfterRun(c, "error")
        /\ UNCHANGED <<registry, tokens, processes, events, fired, daemon, bounds>>

\* The caller of a failed run stops the daemon when durable work of its
\* generation remains.
RunOwned(c) ==
    LET remains == /\ task # None
                   /\ \/ task.life \in {"ReplanPending", "RunningRecoveredReplan",
                                        "RunningReplanPending"}
                      \/ fr[c].op = "watch" /\ IsRunning(task.life)
                   /\ current = fr[c].gen
                   /\ fr[c].op = "watch" => fr[c].gen \notin cancelled
    IN  /\ At(c, "owned")
        /\ requested' = (requested \/ remains)
        /\ Return(c)
        /\ UNCHANGED <<registry, tokens, processes, events, fired, stopping, bounds>>

-----------------------------------------------------------------------------
(* process_watch_event *)

\* A queued callback reaches a worker: stale ones are dropped.
CallWatchEvent(c) ==
    /\ Begin(c, "watch")
    /\ \E m \in fired :
          IF m[1] \in watches /\ Live(m[2])
          THEN /\ Goto(c, "touch")
               /\ fr' = [fr EXCEPT ![c] = [NoFrame EXCEPT !.op = "watch", !.ids = {m[1]},
                                                          !.gen = m[2]]]
               /\ lease' = [lease EXCEPT ![c].op = m[2]]
          ELSE UNCHANGED threads
    /\ UNCHANGED <<registry, tokens, processes, events, fired, daemon, faults, timeouts>>

\* A second section stamps the watch and persists it; persist_watch fails when
\* the watch was removed in between, which ends the processor, and the daemon.
WatchTouch(c) ==
    LET g == fr[c].gen
    IN  /\ At(c, "touch")
        /\ \/ /\ ~Live(g)
              /\ Return(c)
              /\ UNCHANGED requested
           \/ /\ Live(g) /\ ~(fr[c].ids \subseteq watches)
              /\ Return(c)
              /\ requested' = TRUE
           \/ /\ Live(g) /\ fr[c].ids \subseteq watches
              /\ \E kind \in {"watch_triggered", "watch_error"} :
                   CallEmit(c, [NoFrame EXCEPT !.op = "watch", !.gen = g], kind, g,
                            IF kind = "watch_error" THEN "done" ELSE "replan")
              /\ UNCHANGED <<lease, requested>>
        /\ UNCHANGED <<registry, tokens, processes, events, fired, stopping, bounds>>

OperationDone(c) ==
    /\ At(c, "done")
    /\ Return(c)
    /\ UNCHANGED <<registry, tokens, processes, events, fired, daemon, bounds>>

\* request_replan; an error here ends the watch processor, and the daemon.
WatchReplan(c) ==
    LET accepts == task # None /\ task.life \notin {"Cancelling", "Cancelled"}
    IN  /\ At(c, "replan")
        /\ \/ /\ ~Live(fr[c].gen)
              /\ Return(c)
              /\ UNCHANGED <<task, faults, requested>>
           \/ /\ Live(fr[c].gen) /\ ~accepts
              /\ requested' = TRUE
              /\ Return(c)
              /\ UNCHANGED <<task, faults>>
           \/ /\ Live(fr[c].gen) /\ accepts
              /\ task' = [task EXCEPT !.life = Replanned(@)]
              /\ \/ /\ task.life = "Idle"
                    /\ Goto(c, "run")
                    /\ fr' = [fr EXCEPT ![c] = [NoFrame EXCEPT !.op = "watch",
                                                               !.gen = fr[c].gen]]
                    /\ UNCHANGED <<lease, faults, requested>>
                 \/ /\ task.life # "Idle"
                    /\ Return(c)
                    /\ UNCHANGED <<faults, requested>>
                 \/ /\ Fault
                    /\ requested' = TRUE
                    /\ Return(c)
        /\ UNCHANGED <<watches, handles, tokens, processes, events, fired, stopping,
                       calls, timeouts>>

-----------------------------------------------------------------------------
(* task_launch_agent and its child waiter *)

CallLaunch(c) ==
    /\ Begin(c, "launch")
    /\ task' = EnsureTask
    /\ Ensure
    /\ IF Ensured \notin cancelled /\ LaunchFree(Ensured)
       THEN /\ lease' = [lease EXCEPT ![c].op = Ensured, ![c].launch = Ensured]
            /\ fr' = [fr EXCEPT ![c].op = "launch", ![c].gen = Ensured]
            /\ Goto(c, "spawn")
       ELSE UNCHANGED threads
    /\ UNCHANGED <<watches, handles, cancelled, processes, events, fired, daemon,
                   faults, timeouts>>

\* The process starts behind its gate and is registered, unless the generation
\* was cancelled: then it is terminated and reaped.
LaunchSpawn(c) ==
    LET g == fr[c].gen
    IN  /\ At(c, "spawn")
        /\ \/ /\ g \notin cancelled
              /\ children' = register_child(g)
              /\ proc' = [proc EXCEPT ![g] = "gated"]
              /\ Goto(c, "own")
              /\ UNCHANGED <<fr, lease, faults>>
           \/ /\ g \in cancelled
              /\ Return(c)
              /\ UNCHANGED <<processes, faults>>
           \/ /\ Fault
              /\ Return(c)
              /\ UNCHANGED processes
        /\ UNCHANGED <<registry, tokens, events, fired, daemon, calls, timeouts>>

\* terminate_and_reap_child and complete_child
LaunchAborted(c) ==
    /\ proc' = [proc EXCEPT ![fr[c].gen] = "dead"]
    /\ children' = complete_child(fr[c].gen)
    /\ Return(c)

\* The record takes the pid, and the revision is flushed.
LaunchOwn(c) ==
    LET g == fr[c].gen
    IN  /\ At(c, "own")
        /\ \/ /\ Live(g) /\ task # None
              /\ CallEmit(c, fr[c], "agent_launch_started", g, "release")
              /\ UNCHANGED <<processes, lease, faults>>
           \/ /\ ~(Live(g) /\ task # None)
              /\ LaunchAborted(c)
              /\ NoFault
           \/ Fault /\ LaunchAborted(c)
        /\ UNCHANGED <<registry, tokens, events, fired, daemon, calls, timeouts>>

\* Only a recorded launch opens the gate; the waiter takes over the child.
LaunchRelease(c) ==
    LET g == fr[c].gen
    IN  /\ At(c, "release")
        /\ IF fr[c].res = "true" /\ proc[g] = "gated"
           THEN /\ proc' = [proc EXCEPT ![g] = "running"]
                /\ lease' = [lease EXCEPT ![c] = NoLease]
                /\ fr' = [fr EXCEPT ![c] = [NoFrame EXCEPT !.op = "waiter", !.gen = g]]
                /\ Goto(c, "wait")
                /\ UNCHANGED children
           ELSE LaunchAborted(c)
        /\ UNCHANGED <<registry, tokens, events, fired, daemon, bounds>>

ChildExits(g) ==
    /\ proc[g] = "running"
    /\ proc' = [proc EXCEPT ![g] = "dead"]
    /\ UNCHANGED <<registry, tokens, children, events, fired, daemon, threads, bounds>>

WaiterReports(c) ==
    /\ At(c, "wait")
    /\ proc[fr[c].gen] = "dead"
    /\ CallEmit(c, fr[c], "agent_launch_completed", fr[c].gen, "reap")
    /\ UNCHANGED <<registry, tokens, processes, events, fired, daemon, lease, bounds>>

WaiterDone(c) ==
    /\ At(c, "reap")
    /\ children' = complete_child(fr[c].gen)
    /\ Return(c)
    /\ UNCHANGED <<registry, tokens, proc, events, fired, daemon, bounds>>

-----------------------------------------------------------------------------
(* A state write, and shutdown *)

\* The record is created where it is missing; the event is unfenced.
CallWrite(c) ==
    /\ Begin(c, "write")
    /\ task' = EnsureTask
    /\ CallEmit(c, [NoFrame EXCEPT !.op = "write"], "context_updated", 0, "done")
    /\ UNCHANGED <<watches, handles, tokens, processes, events, fired, daemon, lease,
                   faults, timeouts>>

\* begin_daemon_shutdown: every generation is cancelled, its processes signalled.
BeginShutdown ==
    /\ ~stopping
    /\ requested \/ "stop" \in limits.ops
    /\ stopping' = TRUE
    /\ cancelled' = cancelled \cup ({current} \ {0})
    /\ handles' = [w \in WatchIds |-> 0]
    /\ proc' = IF current = 0 THEN proc ELSE Signalled(current)
    /\ UNCHANGED <<task, watches, current, nextId, children, events, fired, requested,
                   threads, bounds>>

Quiescent ==
    /\ calls = limits.calls
    /\ \A c \in Threads : At(c, "idle")
    /\ UNCHANGED moves

Calls(c) ==
    \/ CallSubmit(c) \/ CallCancel(c) \/ CallUnwatch(c) \/ CallWatchEvent(c)
    \/ CallLaunch(c) \/ CallWrite(c)

Step(c) ==
    \/ EmitAppend(c) \/ EmitPublish(c)
    \/ CancelRequest(c) \/ CancelRemoveWatch(c) \/ CancelTerminate(c)
    \/ CancelQuiesce(c) \/ CancelAppend(c) \/ CancelPublish(c)
    \/ Register(c) \/ InstallLookup(c) \/ InstallPublish(c) \/ InstallDone(c)
    \/ RollbackBegin(c) \/ RollbackQuiesce(c) \/ RollbackClean(c) \/ RollbackFinal(c)
    \/ RunClaim(c) \/ RunClaimed(c) \/ RunStarted(c) \/ RunFinish(c)
    \/ RunRefreshed(c) \/ RunEnded(c) \/ RunOwned(c)
    \/ OperationDone(c) \/ WatchTouch(c) \/ WatchReplan(c)
    \/ LaunchSpawn(c) \/ LaunchOwn(c) \/ LaunchRelease(c)
    \/ WaiterReports(c) \/ WaiterDone(c)

Idle == [c \in Threads |-> "idle"]

\* A fresh daemon, or one whose startup recovered a queued replan: its watches
\* are restored and a background worker is about to run it.
Init ==
    /\ limits \in Scenarios
    /\ watches = IF limits.recovered THEN WatchIds ELSE {}
    /\ task = IF limits.recovered THEN Record("ReplanPending", WatchIds, TRUE, 1) ELSE None
    /\ current = IF limits.recovered THEN 1 ELSE 0
    /\ nextId = current
    /\ handles = [w \in WatchIds |-> current]
    /\ fired = IF limits.recovered THEN WatchIds \X {1} ELSE {}
    /\ cancelled = {}
    /\ children = {}
    /\ proc = [g \in Generations |-> "none"]
    /\ log = IF limits.recovered THEN <<Entry(0, "task_started", TRUE)>> ELSE <<>>
    /\ lane = None
    /\ requested = FALSE /\ stopping = FALSE
    /\ lease = [c \in Threads |-> NoLease]
    /\ \/ /\ ~limits.recovered
          /\ pc = Idle
          /\ fr = [c \in Threads |-> NoFrame]
       \/ /\ limits.recovered
          /\ \E b \in Threads :
               /\ pc = [Idle EXCEPT ![b] = "run"]
               /\ fr = [[c \in Threads |-> NoFrame] EXCEPT
                          ![b].op = "recovered", ![b].gen = 1,
                          ![b].fence = "RecoveredReplan"]
    /\ calls = 0 /\ faults = 0 /\ timeouts = 0

Next ==
    /\ \/ \E c \in Threads : Calls(c) \/ Step(c) \/ RunStep(c) \/ CancelTimeout(c)
       \/ \E g \in Generations : ChildExits(g)
       \/ BeginShutdown
       \/ Quiescent
    /\ UNCHANGED limits

Spec == Init /\ [][Next]_vars

-----------------------------------------------------------------------------
(* Properties *)

Labels == {"idle", "emit", "emit_publish", "cancel", "remove", "quiesce", "complete",
           "cancel_publish", "register", "install", "install_publish", "rollback",
           "rollback_quiesce", "rollback_clean", "rollback_final", "run", "claimed",
           "started", "execute", "refreshed", "ended", "owned", "done", "touch", "replan",
           "spawn", "own", "release", "wait", "reap"}

\* Every variable has its type, and the lane belongs to the thread that is
\* between its append and its publication.
TypeOK ==
    /\ task \in Records \cup {None}
    /\ watches \subseteq WatchIds
    /\ handles \in [WatchIds -> 0..nextId]
    /\ nextId \in 0..MaxGenerations
    /\ current \in 0..nextId
    /\ cancelled \subseteq 1..nextId
    /\ children \subseteq Generations
    /\ proc \in [Generations -> {"none", "gated", "running", "dead"}]
    /\ fired \subseteq WatchIds \X Generations
    /\ requested \in BOOLEAN /\ stopping \in BOOLEAN
    /\ pc \in [Threads -> Labels]
    /\ \A c \in Threads :
          /\ fr[c].gen \in 0..nextId
          /\ fr[c].replaced \in Records \cup {None}
          /\ fr[c].fence \in {"Unfenced", "Initial", "RecoveredReplan"}
          /\ pc[c] \in {"emit_publish", "cancel_publish"} <=> (lane = c /\ pc[c] # "rollback_final")

\* While an operation, a run, a launch or an event holds a lease, its generation
\* stays the active one: cancellation and rollback wait for all of them, and an
\* expired wait leaves the generation in place.
LeasesAreCurrent ==
    \A c \in Threads :
        {lease[c].op, lease[c].run, lease[c].event, lease[c].launch} \subseteq {0, current}

\* An event that was appended under the lease of a generation is published into
\* the record of that generation: although emit_task_event_ordered does not check
\* the generation again after the append, no other thread can have retired it.
EventPublishedInOwnGeneration ==
    \A c \in Threads :
        At(c, "emit_publish") => task # None /\ current = lease[c].event

\* A recovered task has a record from the start, and a rollback removes the log
\* of a task that had none.  (A cancellation that takes over a task whose rollback
\* has just removed the log leaves the record ahead of the log.)
LogIsKept == limits.recovered

\* The event log keeps generations apart: no event of a generation follows its
\* task_cancelled event or an event of a later generation, whatever operations
\* were in flight when the generation was cancelled and its id reused.  The one
\* exception is a cancellation whose append failed with the frame written: the
\* task stays Cancelling, and only another task_cancelled may follow.
LogOrdersGenerations ==
    LogIsKept =>
        \A i, j \in DOMAIN log : i < j =>
            \/ log[i].gen < log[j].gen
            \/ /\ log[i].gen = log[j].gen
               /\ log[i].kind = "task_cancelled" =>
                      ~log[i].ok /\ log[j].kind = "task_cancelled"

\* A delegated agent runs only while its generation is the active one: neither a
\* cancellation nor a rollback retires a generation before its process is reaped.
NoOrphanProcess ==
    \A g \in Generations : proc[g] = "running" => g = current /\ g \in children

\* A watcher in watcher_handles belongs to the active generation and to a
\* registered watch of the task; installation races with cancellation, rollback
\* and reuse of the same watch id.
HandleIsCurrent ==
    \A w \in WatchIds : handles[w] # 0 =>
        handles[w] = current /\ w \in watches /\ task # None

\* Work that a live generation claimed or queued has a thread that will run it.
Owners == {"claimed", "started", "execute", "refreshed", "ended", "emit",
           "emit_publish", "run"}

PendingWorkHasOwner ==
    /\ task # None
    /\ task.life \in {"ReplanPending", "Running", "RunningRecoveredReplan",
                      "RunningReplanPending"}
    /\ ~requested /\ ~stopping
    => \/ current \in cancelled
       \/ \E c \in Threads : pc[c] \in Owners /\ fr[c].op \in {"submit", "watch", "recovered"}

\* A terminal record has no generation, so that its id can be registered again,
\* unless an unfenced event or a launch gave it a new one.
CancelledHasNoGeneration ==
    /\ limits.ops \cap {"write", "launch"} = {}
    /\ task # None
    /\ task.life = "Cancelled"
    => current = 0

\* The registry is never ahead of the event log: startup refuses such a store.
RegistryNotAhead ==
    LogIsKept /\ lane = None /\ task # None => task.seq <= Len(log)

Fairness == \A c \in Threads : WF_moves(Step(c))
FairSpec == Spec /\ Fairness

\* A cancellation always gets through its wait for the generation's operations:
\* nobody who holds a lease waits for the canceller.
CancellationEnds ==
    \A c \in Threads : At(c, "quiesce") ~> ~At(c, "quiesce")

\* Whatever belongs to a generation ends before the generation does: leases, watchers
\* and processes are those of the active one, and a terminal record has none.
NothingOutlivesGeneration ==
    TypeOK /\ LeasesAreCurrent /\ HandleIsCurrent /\ NoOrphanProcess /\ CancelledHasNoGeneration

\* Events are appended and recorded in the generation that made them, in order.
EventsKeepGenerations ==
    EventPublishedInOwnGeneration /\ LogOrdersGenerations /\ RegistryNotAhead
=============================================================================
