---------------------------- MODULE RegistryDelta ---------------------------
(***************************************************************************)
(* The daemon's handlers that change the registry (packet28d, watch.rs and *)
(* lib.rs) and the deltas they stage (RegistryBatch).  A handler changes   *)
(* the registry and stages its delta in one section of the state mutex;    *)
(* deltas that wait are coalesced, a batch is applied to the worker's      *)
(* image, and the batches in the log are replayed after a restart.         *)
(*                                                                         *)
(* PersistenceOwner and RegistryStore abstract a batch to its range of     *)
(* revisions.  This module is about the other half: that one coalesced     *)
(* batch means the same as the mutations it came from, in their order.     *)
(***************************************************************************)
EXTENDS RegistryBatch

CONSTANTS
    Tasks,        \* task identifiers
    Watches,      \* watch identifiers: watch_id_for hashes the specification
    TaskOf,       \* the task that a watch's specification names
    WatchLists,   \* lists of watches that a submission may carry
    Bodies,       \* contents of a record that no property tells apart
    NoRecord,     \* no task record
    MaxFrames,    \* capacity of the log
    MaxMutations  \* bound on changes of the registry

ASSUME TaskOfAssumption == TaskOf \in [Watches -> Tasks]
ASSUME WatchListsAssumption ==
    \A list \in WatchLists : \A i \in DOMAIN list : list[i] \in Watches
ASSUME BoundsAssumption == MaxFrames \in Nat \ {0} /\ MaxMutations \in Nat

VARIABLES
    live,        \* the registry in DaemonState, changed under its mutex
    admission,   \* admissions that may still fail: the record each replaced
    serving,     \* startup is over and requests are handled
    pending,     \* pending.delta: staged deltas, coalesced
    inflight,    \* the batch the worker appends or will retry
    image,       \* the worker's registry image
    checkpoint,  \* the image in the committed checkpoint
    frames,      \* the batches in the log above it
    mutations    \* changes so far

daemon == <<live, admission, serving, mutations>>
vars == <<daemon, pending, inflight, image, checkpoint, frames>>

-----------------------------------------------------------------------------
(* Records, registries and batches *)

\* The lifecycle keeps what the handlers below test: idle, running and replan
\* states are "active".
TaskRecord == [watch_ids : Seq(Watches), body : Bodies,
               lifecycle : {"active", "cancelling", "cancelled"}]
WatchRegistration == [watch_id : Watches, task_id : Tasks, body : Bodies]

IsMap(f, S, T) == DOMAIN f \subseteq S /\ \A k \in DOMAIN f : f[k] \in T

IsRegistry(r) ==
    /\ IsMap(r.tasks, Tasks, TaskRecord)
    /\ r.watches \in Seq(WatchRegistration)

\* RegistryDeltaBatch as validate accepts it: no task is both upserted and
\* removed, and the watch order names every watch upsert exactly once.
Valid(b) ==
    /\ IsMap(b.task_upserts, Tasks, TaskRecord)
    /\ b.task_removals \subseteq Tasks
    /\ IsMap(b.watch_upserts, Watches, WatchRegistration)
    /\ b.watch_removals \subseteq Watches
    /\ DOMAIN b.task_upserts \cap b.task_removals = {}
    /\ \A w \in DOMAIN b.watch_upserts : b.watch_upserts[w].watch_id = w
    /\ ToSet(b.watch_upsert_order) = DOMAIN b.watch_upserts
    /\ Len(b.watch_upsert_order) = Cardinality(DOMAIN b.watch_upserts)

-----------------------------------------------------------------------------
(* The daemon's handlers *)

\* One section of the state mutex: the registry changes and the delta that
\* records the change is staged, coalesced with the one that waits.  An empty
\* delta is ignored.
Mutate(registry, delta) ==
    /\ serving
    /\ mutations < MaxMutations
    /\ mutations' = mutations + 1
    /\ live' = registry
    /\ pending' = IF delta = EmptyBatch THEN pending
                  ELSE IF pending = EmptyBatch THEN delta
                  ELSE merge_later_wins(pending, delta)
    /\ UNCHANGED <<serving, inflight, image, checkpoint, frames>>

WithTask(r, t, task) == [r EXCEPT !.tasks = Override(@, Entry(t, task))]

FreshTask(body) == [watch_ids |-> <<>>, body |-> body, lifecycle |-> "active"]

WatchIndex(r, w) == SelectInSeq(r.watches, LAMBDA x : x.watch_id = w)

\* ensure_task_record_mut or a record that is there, then mark_task_dirty.
MarkTaskDirty(t, body) ==
    LET task == IF t \in DOMAIN live.tasks
                THEN [live.tasks[t] EXCEPT !.body = body] ELSE FreshTask(body)
    IN /\ Mutate(WithTask(live, t, task), upsert_task(EmptyBatch, t, task))
       /\ UNCHANGED admission

\* install_watch and process_watch_event: update in place, persist_watch.
PersistWatch(w, body) ==
    LET i == WatchIndex(live, w)
        watch == [live.watches[i] EXCEPT !.body = body]
    IN /\ i # 0
       /\ Mutate([live EXCEPT !.watches[i] = watch],
                 upsert_watch(EmptyBatch, w, watch))
       /\ UNCHANGED admission

\* register_task_and_watches: the task is new, or its cancellation is over.
\* Nothing compares the watches of the submission with each other.
RegisterTask(t, list, body) ==
    LET old == IF t \in DOMAIN live.tasks THEN live.tasks[t] ELSE NoRecord
        task == [FreshTask(body) EXCEPT !.watch_ids = list]
        registrations == [i \in DOMAIN list |->
                             [watch_id |-> list[i], task_id |-> t, body |-> body]]
        with_watch(b, watch) == upsert_watch(b, watch.watch_id, watch)
    IN /\ old # NoRecord => old.lifecycle = "cancelled"
       /\ \A i \in DOMAIN list : TaskOf[list[i]] = t
       /\ Mutate([WithTask(live, t, task) EXCEPT !.watches = @ \o registrations],
                 Each(upsert_task(EmptyBatch, t, task), with_watch,
                      registrations))
       /\ admission' = Override(admission, Entry(t, old))

\* The admission's first run is over: it can no longer be rolled back.
FinishAdmission(t) ==
    /\ t \in DOMAIN admission
    /\ admission' = Without(admission, {t})
    /\ UNCHANGED <<live, serving, mutations, pending, inflight, image,
                   checkpoint, frames>>

\* rollback_failed_task_admission_inner: the task's watches go, and the record
\* that the registration replaced comes back, if there was one.  The body
\* holds the event sequence, of which the larger one is kept.
RollbackAdmission(t, body) ==
    LET gone == SelectSeq(live.watches, LAMBDA x : x.task_id = t)
        old == [admission[t] EXCEPT !.body = body]
        fresh == admission[t] = NoRecord
        kept == [live EXCEPT !.watches =
                    SelectSeq(@, LAMBDA x : x.task_id # t)]
        without_watch(b, watch) == remove_watch(b, watch.watch_id)
    IN /\ t \in DOMAIN admission
       /\ live.tasks[t].lifecycle = "active"
       /\ body \in {live.tasks[t].body}
                     \cup (IF fresh THEN {} ELSE {admission[t].body})
       /\ Mutate(IF fresh THEN [kept EXCEPT !.tasks = Without(@, {t})]
                 ELSE WithTask(kept, t, old),
                 Each(IF fresh THEN remove_task(EmptyBatch, t)
                      ELSE upsert_task(EmptyBatch, t, old),
                      without_watch, gone))
       /\ admission' = Without(admission, {t})

\* Fault: the task keeps listing the watch that is removed.
RemoveWatchOnly(w) ==
    LET i == WatchIndex(live, w)
    IN /\ i # 0
       /\ Mutate([live EXCEPT !.watches = RemoveAt(@, i)],
                 remove_watch(EmptyBatch, w))
       /\ UNCHANGED admission

\* remove_watch, for a request or for a cancellation.
RemoveWatch(w) ==
    LET i == WatchIndex(live, w)
        t == live.watches[i].task_id
        task == [live.tasks[t] EXCEPT
                    !.watch_ids = SelectSeq(@, LAMBDA x : x # w)]
        kept == [live EXCEPT !.watches = RemoveAt(@, i)]
    IN /\ i # 0
       /\ IF t \in DOMAIN live.tasks
          THEN Mutate(WithTask(kept, t, task),
                      upsert_task(remove_watch(EmptyBatch, w), t, task))
          ELSE Mutate(kept, remove_watch(EmptyBatch, w))
       /\ UNCHANGED admission

\* cancel_task, first section.
RequestCancel(t) ==
    LET task == [live.tasks[t] EXCEPT !.lifecycle = "cancelling"]
    IN /\ t \in DOMAIN live.tasks
       /\ live.tasks[t].lifecycle # "cancelled"
       /\ Mutate(WithTask(live, t, task), upsert_task(EmptyBatch, t, task))
       /\ UNCHANGED admission

\* complete_task_cancellation_for_generation, after cancel_task has removed
\* the task's watches: the generation ends, and with it the admission.
CompleteCancel(t, body) ==
    LET task == [live.tasks[t] EXCEPT !.lifecycle = "cancelled", !.body = body]
    IN /\ t \in DOMAIN live.tasks
       /\ live.tasks[t].lifecycle = "cancelling"
       /\ live.tasks[t].watch_ids = <<>>
       /\ Mutate(WithTask(live, t, task), upsert_task(EmptyBatch, t, task))
       /\ admission' = Without(admission, {t})

-----------------------------------------------------------------------------
(* The persistence owner *)

Take ==
    /\ inflight = EmptyBatch
    /\ pending # EmptyBatch
    /\ inflight' = pending
    /\ pending' = EmptyBatch
    /\ UNCHANGED <<daemon, image, checkpoint, frames>>

\* append_task_watch_registry_delta_with_authority, then the worker's image.
\* A batch that is not admissible stays in flight; a full log is checkpointed
\* first.
AppendDelta ==
    /\ inflight # EmptyBatch
    /\ Len(frames) < MaxFrames
    /\ Admissible(inflight, image)
    /\ frames' = Append(frames, inflight)
    /\ image' = apply_to_authenticated(inflight, image)
    /\ inflight' = EmptyBatch
    /\ UNCHANGED <<daemon, pending, checkpoint>>

\* Fault: the daemon's own registry is checkpointed instead of the image.
SaveCheckpointOfLive ==
    /\ frames # <<>>
    /\ checkpoint' = live
    /\ frames' = <<>>
    /\ UNCHANGED <<daemon, pending, inflight, image>>

\* save_current_image: refused unless the image is what replay computes.
SaveCheckpoint ==
    /\ frames # <<>>
    /\ image = Replay(checkpoint, frames)
    /\ checkpoint' = image
    /\ frames' = <<>>
    /\ UNCHANGED <<daemon, pending, inflight, image>>

-----------------------------------------------------------------------------
(* Startup *)

\* reconcile_interrupted_task_lifecycles: a cancellation that was interrupted
\* is completed and its watches go; work that was interrupted is recorded.
Interrupted(r) == {t \in DOMAIN r.tasks :
                      \/ r.tasks[t].lifecycle = "cancelling"
                      \/ r.tasks[t].lifecycle = "cancelled"
                            /\ r.tasks[t].watch_ids # <<>>}

ReconciledTasks(r, changed, body) ==
    [t \in Interrupted(r) \cup changed |->
        IF t \in Interrupted(r)
        THEN [watch_ids |-> <<>>, body |-> body, lifecycle |-> "cancelled"]
        ELSE [r.tasks[t] EXCEPT !.body = body]]

\* The daemon ends at any point; a new one loads the registry and stages what
\* reconciliation changed as its first delta.
Restart(changed, body) ==
    LET loaded == Replay(checkpoint, frames)
        tasks == ReconciledTasks(loaded, changed, body)
        removed == UNION {ToSet(loaded.tasks[t].watch_ids) :
                             t \in Interrupted(loaded)}
                      \cap WatchIds(loaded.watches)
        reconciled == [EmptyBatch EXCEPT !.task_upserts = tasks,
                                         !.watch_removals = removed]
    IN /\ changed \subseteq DOMAIN loaded.tasks
       /\ IF changed = {} THEN UNCHANGED mutations
          ELSE /\ mutations < MaxMutations
               /\ mutations' = mutations + 1
       /\ image' = loaded
       /\ live' = [tasks |-> Override(loaded.tasks, tasks),
                   watches |-> SelectSeq(loaded.watches,
                                         LAMBDA x : x.watch_id \notin removed)]
       /\ pending' = reconciled
       /\ inflight' = EmptyBatch
       /\ admission' = EmptyMap
       /\ serving' = FALSE
       /\ UNCHANGED <<checkpoint, frames>>

\* stage_and_flush(startup_delta), then checkpoint_current, then readiness.
Ready ==
    /\ ~serving
    /\ pending = EmptyBatch
    /\ inflight = EmptyBatch
    /\ frames = <<>>
    /\ serving' = TRUE
    /\ UNCHANGED <<live, admission, mutations, pending, inflight, image,
                   checkpoint, frames>>

-----------------------------------------------------------------------------
Init ==
    /\ live = EmptyRegistry
    /\ admission = EmptyMap
    /\ serving = TRUE
    /\ pending = EmptyBatch
    /\ inflight = EmptyBatch
    /\ image = EmptyRegistry
    /\ checkpoint = EmptyRegistry
    /\ frames = <<>>
    /\ mutations = 0

Next ==
    \/ \E t \in Tasks, body \in Bodies :
          \/ MarkTaskDirty(t, body)
          \/ \E list \in WatchLists : RegisterTask(t, list, body)
          \/ RollbackAdmission(t, body)
          \/ CompleteCancel(t, body)
    \/ \E t \in Tasks : FinishAdmission(t) \/ RequestCancel(t)
    \/ \E w \in Watches, body \in Bodies : PersistWatch(w, body)
    \/ \E w \in Watches : RemoveWatch(w)
    \/ Take
    \/ AppendDelta
    \/ SaveCheckpoint
    \/ \E changed \in SUBSET Tasks, body \in Bodies : Restart(changed, body)
    \/ Ready

Spec == Init /\ [][Next]_vars

-----------------------------------------------------------------------------
(* Properties *)

\* Every variable has its type, and every batch the builders and the merge
\* produce passes validate: coalescing two valid deltas never fails.
TypeOK ==
    /\ \A r \in {live, image, checkpoint} : IsRegistry(r)
    /\ DOMAIN admission \subseteq Tasks
    /\ \A t \in DOMAIN admission :
          admission[t] # NoRecord => admission[t] \in TaskRecord
    /\ serving \in BOOLEAN
    /\ \A b \in {pending, inflight} \cup ToSet(frames) : Valid(b)
    /\ mutations \in 0..MaxMutations

\* What the worker has applied, the batch it holds and the coalesced batch that
\* waits together are exactly the daemon's registry, the order of the watches
\* included: merge_later_wins loses and reorders nothing.
CoalescingIsSequential ==
    apply_to(pending, apply_to(inflight, image)) = live

\* The checkpoint and the log always replay to the worker's image, so
\* validate_checkpoint_candidate never refuses the owner's own checkpoint.
ReplayIsImage == Replay(checkpoint, frames) = image

\* One persistence owner coalesces same-key changes and appends a batch after
\* the mutex is released (docs/daemon-runtime.md): whatever the handlers have
\* staged when the worker takes the batch, the batch passes the validation of
\* the append.  A batch that does not pass stays in flight, and every later
\* append, barrier and checkpoint waits behind it.
AlwaysAdmissible == inflight # EmptyBatch => Admissible(inflight, image)

\* Staging, coalescing, appending and replaying compute what the handlers did.
ReplayIsExact == CoalescingIsSequential /\ ReplayIsImage

\* Every batch has the form that the append demands, and is accepted.  Left out is a
\* submission that names one watch twice (watch.rs:239): WatchLists has none where this
\* is checked, and the append would refuse its batch.
BatchesFit == TypeOK /\ AlwaysAdmissible

=============================================================================
