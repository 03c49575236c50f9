---------------------------- MODULE RegistryBatch ---------------------------
(***************************************************************************)
(* Batches of registry changes (packet28-daemon-core,                      *)
(* storage/registry_delta.rs): how a handler assembles one, how two are    *)
(* coalesced, and how they are applied and replayed.                       *)
(***************************************************************************)
EXTENDS Naturals, Sequences, SequencesExt, Folds

EmptyMap == [k \in {} |-> k]

EmptyBatch == [task_upserts |-> EmptyMap, task_removals |-> {},
               watch_upserts |-> EmptyMap, watch_upsert_order |-> <<>>,
               watch_removals |-> {}]

EmptyRegistry == [tasks |-> EmptyMap, watches |-> <<>>]

\* Map insertion (the later map wins) and removal of keys.
Override(f, g) ==
    [k \in DOMAIN f \cup DOMAIN g |-> IF k \in DOMAIN g THEN g[k] ELSE f[k]]

Without(f, S) == [k \in DOMAIN f \ S |-> f[k]]

Entry(k, v) == [x \in {k} |-> v]

-----------------------------------------------------------------------------
(* Assembling a delta: the four builders *)

upsert_task(b, t, task) ==
    [b EXCEPT !.task_removals = @ \ {t},
              !.task_upserts = Override(@, Entry(t, task))]

remove_task(b, t) ==
    [b EXCEPT !.task_upserts = Without(@, {t}),
              !.task_removals = @ \cup {t}]

\* An earlier removal stays: the watch is then reinserted at the end.
upsert_watch(b, w, watch) ==
    [b EXCEPT !.watch_upsert_order =
                  IF w \in DOMAIN b.watch_upserts THEN @ ELSE Append(@, w),
              !.watch_upserts = Override(@, Entry(w, watch))]

remove_watch(b, w) ==
    [b EXCEPT !.watch_upserts = Without(@, {w}),
              !.watch_upsert_order = SelectSeq(@, LAMBDA x : x # w),
              !.watch_removals = @ \cup {w}]

\* A builder applied to every element of a sequence.
Each(b, Op(_, _), seq) == FoldLeft(Op, b, seq)

-----------------------------------------------------------------------------
(* Coalescing *)

\* The task half of merge_later_wins.
MergedTaskUpserts(b, later) ==
    Override(Without(b.task_upserts, later.task_removals), later.task_upserts)

MergedTaskRemovals(b, later) ==
    (b.task_removals \cup later.task_removals) \ DOMAIN later.task_upserts

\* A watch the later batch removes loses its place; what it upserts is then
\* appended in its order unless it still has one.
MergedWatchOrder(b, later) ==
    LET removed == later.watch_removals
        kept == DOMAIN b.watch_upserts \ removed
    IN SelectSeq(b.watch_upsert_order, LAMBDA w : w \notin removed) \o
       SelectSeq(later.watch_upsert_order, LAMBDA w : w \notin kept)

\* Fault: a later upsert cancels the removal, as it does for tasks.
MergedWatchRemovalsLikeTasks(b, later) ==
    (b.watch_removals \cup later.watch_removals) \ DOMAIN later.watch_upserts

\* A removal survives a later upsert: the watch moves to the end.
MergedWatchRemovals(b, later) == b.watch_removals \cup later.watch_removals

merge_later_wins(b, later) ==
    [task_upserts |-> MergedTaskUpserts(b, later),
     task_removals |-> MergedTaskRemovals(b, later),
     watch_upserts |-> Override(Without(b.watch_upserts, later.watch_removals),
                                later.watch_upserts),
     watch_upsert_order |-> MergedWatchOrder(b, later),
     watch_removals |-> MergedWatchRemovals(b, later)]

-----------------------------------------------------------------------------
(* Applying *)

ApplyTasks(b, tasks) == Override(Without(tasks, b.task_removals), b.task_upserts)

WatchIds(watches) == {watches[i].watch_id : i \in DOMAIN watches}

\* Removals first; an upsert of a watch that is still there replaces it in
\* place, any other one is appended in the batch's order.
ApplyWatches(b, watches) ==
    LET kept == SelectSeq(watches, LAMBDA x : x.watch_id \notin b.watch_removals)
        new == SelectSeq(b.watch_upsert_order, LAMBDA w : w \notin WatchIds(kept))
    IN [i \in DOMAIN kept |->
           IF kept[i].watch_id \in DOMAIN b.watch_upserts
           THEN b.watch_upserts[kept[i].watch_id] ELSE kept[i]]
       \o [i \in DOMAIN new |-> b.watch_upserts[new[i]]]

apply_to(b, r) == [tasks |-> ApplyTasks(b, r.tasks),
                   watches |-> ApplyWatches(b, r.watches)]

\* preserves_authenticated_relationships
Preserves(b, tasks) ==
    /\ b.task_removals = {}
    /\ b.watch_upserts = EmptyMap
    /\ b.watch_upsert_order = <<>>
    /\ b.watch_removals = {}
    /\ \A t \in DOMAIN b.task_upserts :
          /\ t \in DOMAIN tasks
          /\ tasks[t].watch_ids = b.task_upserts[t].watch_ids

\* apply_to_authenticated: the fast path touches the upserted tasks only.
apply_to_authenticated(b, r) ==
    IF Preserves(b, r.tasks)
    THEN [r EXCEPT !.tasks = Override(@, b.task_upserts)]
    ELSE apply_to(b, r)

\* validate_task_watch_registry_relationships
Related(r) ==
    /\ \A i, j \in DOMAIN r.watches :
          r.watches[i].watch_id = r.watches[j].watch_id => i = j
    /\ \A i \in DOMAIN r.watches :
          /\ r.watches[i].task_id \in DOMAIN r.tasks
          /\ r.watches[i].watch_id \in
                ToSet(r.tasks[r.watches[i].task_id].watch_ids)
    /\ \A t \in DOMAIN r.tasks :
          /\ IsInjective(r.tasks[t].watch_ids)
          /\ \A w \in ToSet(r.tasks[t].watch_ids) :
                \E i \in DOMAIN r.watches :
                   r.watches[i].watch_id = w /\ r.watches[i].task_id = t

\* prepare_registry_delta_candidate: the fast path is not validated again.
Admissible(b, r) == Preserves(b, r.tasks) \/ Related(apply_to(b, r))

\* replay_wal_with_policy over the frames above the checkpoint.
Replay(base, batches) == FoldLeft(LAMBDA r, b : apply_to_authenticated(b, r),
                                  base, batches)

=============================================================================
