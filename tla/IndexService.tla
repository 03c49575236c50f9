---------------------------- MODULE IndexService ----------------------------
(***************************************************************************)
(* The interactive index of the daemon (packet28d: index.rs, the clear     *)
(* state and manifest of runtime_files.rs): requests that rebuild, update  *)
(* or clear the index are admitted durably and coalesced in one slot, and  *)
(* a single worker serves them with two engines, a repository index and a  *)
(* regex index.                                                            *)
(*                                                                         *)
(* A request is two steps: the durable clear state under the admission     *)
(* lock, then one section of the state mutex that writes the manifest and  *)
(* hands the command to the ingress.  A build reads the files engine by    *)
(* engine and commits in one section.  Engines publish a generation        *)
(* atomically (mapy-core and packet28-search-core are external); the       *)
(* manifest is written in place, so that a failed write may leave a file   *)
(* that loads as the default manifest.  Crashes are those of the process.  *)
(***************************************************************************)
EXTENDS Naturals, FiniteSets, FiniteSetsExt

CONSTANTS
    Paths,          \* files of the workspace
    MaxPending,     \* MAX_PENDING_INDEX_PATHS
    Scenarios,      \* what clients ask and what goes wrong, bounded
    None

ASSUME IndexServiceAssumption ==
    /\ IsFiniteSet(Paths)
    /\ MaxPending \in Nat \ {0}
    /\ \A s \in Scenarios :
          /\ s.kinds \subseteq {"clear", "full", "paths"}
          /\ s.regex \in BOOLEAN     \* another program has built the regex index
          /\ s.requests \in Nat      \* requests admitted
          /\ s.faults \in Nat        \* failed operations on files
          /\ s.kills \in Nat         \* daemons killed
          /\ s.stops \in Nat         \* daemons stopped
    /\ None \notin [Paths -> Nat]
    /\ None \notin [phase : {"pending", "pending-rebuild", "complete", "superseded"}, rev : Nat]

VARIABLES
    files,      \* version of each file
    disk,       \* repo, regex: published generations; manifest; clear: clear-state-v1
    life,       \* the daemon: down, hydrating, up
    man,        \* DaemonState.interactive_index.manifest
    mem,        \* its repo_runtime and regex_runtime
    ingress,    \* PendingIndexWork
    wake,       \* a token in the wake channel of capacity one
    stopping,   \* ShutdownSignal
    adm,        \* the request that holds the admission lock
    w,          \* the index worker
    accepted,   \* ghost: version of each file that an accepted request reported
    owed,       \* ghost: files whose accepted version was neither served nor cleared
    tomb,       \* ghost: a clear was acknowledged, and no newer work is recorded
    dropped,    \* ghost: files whose marks a request that could not save dropped
    limits, requests, faults, kills, stops

memory == <<man, mem, ingress, wake, stopping>>
ghosts == <<accepted, owed, tomb, dropped>>
bounds == <<requests, faults, kills, stops>>
moves == <<files, disk, life, memory, adm, w, ghosts, bounds>>
vars == <<moves, limits>>

-----------------------------------------------------------------------------
(* Manifest and clear state *)

Missing == [status |-> "Missing", dirty |-> {}, queued |-> {}]

Queued(m) == [m EXCEPT !.status = "Queued"]

\* DaemonIndexState::transition_to, for the states that the daemon assigns.
Legal(from, to) ==
    \/ from = to
    \/ to = "Queued"
    \/ to = "Building" /\ from \in {"Queued", "Ready"}
    \/ to = "Ready" /\ from = "Building"

Pending(c) == c # None /\ c.phase \in {"pending", "pending-rebuild"}

Complete(c) == c # None /\ c.phase = "complete"

\* persist_index_clear_pending
NewTomb(c) == [phase |-> "pending", rev |-> IF c = None THEN 1 ELSE c.rev + 1]

\* record_index_work_after_clear
AfterTomb(c) ==
    CASE c # None /\ c.phase = "pending" -> [c EXCEPT !.phase = "pending-rebuild"]
      [] Complete(c) -> [c EXCEPT !.phase = "superseded"]
      [] OTHER -> c

\* complete_index_clear_revision leaves a newer revision alone.
CompletesRevision(c, rev) == c = None \/ c.rev = rev

Completed(c, rev) ==
    [phase |-> IF c # None /\ c.phase \in {"pending-rebuild", "superseded"}
               THEN "superseded" ELSE "complete",
     rev |-> rev]

Loaded(d) == [repo |-> d.repo, regex |-> d.regex]

NoRuntime == [repo |-> None, regex |-> None]

\* repo_is_current and regex_is_current
Current(r) == r.repo # None /\ r.regex # None

Clean(m) == m.status = "Ready" /\ m.dirty = {} /\ m.queued = {}

Fault == faults < limits.faults /\ faults' = faults + 1

\* save_index_manifest_file: the manifest in memory is assigned first.
Save(m) == man' = m /\ disk' = [disk EXCEPT !.manifest = m]

SaveFails(m) ==
    /\ Fault
    /\ man' = m
    /\ \E left \in {disk.manifest, Missing} : disk' = [disk EXCEPT !.manifest = left]

-----------------------------------------------------------------------------
(* Ingress *)

\* Epoch 0 is None; a batch and the pending work have the same fields.
NoWork == [clear |-> 0, rev |-> 0, full |-> 0, paths |-> [p \in Paths |-> 0],
           shut |-> 0, epoch |-> 0]

NoPaths == [p \in Paths |-> 0]

PathsIn(work) == {p \in Paths : work.paths[p] > 0}

\* follow_up_after of a batch and of the ingress.
FollowUpIn(work, e) ==
    [clear |-> work.clear > e, full |-> work.full > e,
     paths |-> {p \in Paths : work.paths[p] > e}, shut |-> work.shut > e]

\* IndexFollowUp::merge
FollowUp(batch, e) ==
    LET old == FollowUpIn(batch, e)
        new == FollowUpIn(ingress, e)
    IN  [clear |-> old.clear \/ new.clear, full |-> old.full \/ new.full,
         paths |-> old.paths \union new.paths, shut |-> old.shut \/ new.shut]

\* The commands of send_with_clear_revision; a flood of paths becomes a rebuild.
WithClear(i, rev) ==
    [i EXCEPT !.epoch = @ + 1, !.clear = i.epoch + 1, !.rev = rev, !.full = 0, !.paths = NoPaths]

WithFull(i) == [i EXCEPT !.epoch = @ + 1, !.full = i.epoch + 1, !.paths = NoPaths]

WithPaths(i, ps) ==
    IF Cardinality(PathsIn(i) \union ps) > MaxPending THEN WithFull(i)
    ELSE [i EXCEPT !.epoch = @ + 1,
                   !.paths = [p \in Paths |-> IF p \in ps THEN i.epoch + 1 ELSE i.paths[p]]]

WithShutdown(i) ==
    IF i.shut # 0 THEN i ELSE [i EXCEPT !.epoch = @ + 1, !.shut = i.epoch + 1]

WorkerRuns == w.pc \notin {"done", "dead"}

\* Fault: a newer batch takes the place of the one that is retried.
MergeReplaced(old, new) == new

\* IndexWorkBatch::merge_newer
MergeNewer(old, new) ==
    LET kept == [p \in Paths |-> IF old.paths[p] > new.full THEN old.paths[p] ELSE 0]
        over == [p \in Paths |-> IF new.paths[p] > 0 THEN new.paths[p] ELSE kept[p]]
        both == IF new.clear # 0
                THEN [old EXCEPT !.clear = new.clear, !.rev = new.rev,
                                 !.full = new.full, !.paths = new.paths]
                ELSE [old EXCEPT !.full = IF new.full # 0 THEN new.full ELSE @, !.paths = over]
    IN  [both EXCEPT !.shut = IF new.shut # 0 THEN new.shut ELSE @,
                     !.epoch = Max({old.epoch, new.epoch})]

\* promote_retry_to_full
PromoteRetry(batch) == [batch EXCEPT !.full = batch.epoch, !.paths = NoPaths]

-----------------------------------------------------------------------------
(* Requests *)

NewRequest(kind) ==
    /\ life = "up" /\ adm = None
    /\ kind \in limits.kinds
    /\ requests < limits.requests /\ requests' = requests + 1

\* The files that a request reports: a client that names none asks for all of them.
Reported(kind, ps) ==
    CASE kind = "clear" -> {}
      [] kind = "full" -> Paths
      [] OTHER -> ps

\* The durable half of a request; it may fail before or after it took effect.  The
\* client has edited the files that it reports.
Admit(kind, ps) ==
    /\ NewRequest(kind)
    /\ files' = [p \in Paths |-> IF p \in Reported(kind, ps) THEN files[p] + 1 ELSE files[p]]
    /\ \E clear \in {IF kind = "clear" THEN NewTomb(disk.clear) ELSE AfterTomb(disk.clear)} :
          \/ /\ adm' = [kind |-> kind, paths |-> ps, rev |-> IF kind = "clear" THEN clear.rev ELSE 0]
             /\ disk' = [disk EXCEPT !.clear = clear]
             /\ UNCHANGED faults
          \/ /\ Fault
             /\ disk' \in {disk, [disk EXCEPT !.clear = clear]}
             /\ UNCHANGED adm
    /\ tomb' = (tomb /\ (kind = "clear" \/ disk'.clear = disk.clear))
    /\ owed' = IF kind = "clear" /\ disk'.clear # disk.clear THEN {} ELSE owed
    /\ UNCHANGED <<life, memory, w, accepted, dropped, kills, stops, limits>>

\* promote_to_full of enqueue_incremental_index_paths
Promoted(ps) == Cardinality(man.queued \union ps) > MaxPending

QueuedManifest(request) ==
    CASE request.kind = "clear" -> [Missing EXCEPT !.status = "Queued"]
      [] request.kind = "full" -> [Queued(man) EXCEPT !.queued = {}]
      [] request.kind = "paths" /\ Promoted(request.paths) ->
            [Missing EXCEPT !.status = "Queued"]
      [] OTHER -> [status |-> IF man.status = "Missing" THEN "Queued" ELSE man.status,
                   dirty |-> man.dirty \union request.paths,
                   queued |-> man.queued \union request.paths]

QueuedWork(request) ==
    CASE request.kind = "clear" -> WithClear(ingress, request.rev)
      [] request.kind = "full" \/ (request.kind = "paths" /\ Promoted(request.paths)) ->
            WithFull(ingress)
      [] OTHER -> WithPaths(ingress, request.paths)

Accept(request) ==
    LET ps == Reported(request.kind, request.paths) IN
    /\ accepted' = [p \in Paths |-> IF p \in ps THEN files[p] ELSE accepted[p]]
    /\ owed' = owed \union ps
    /\ tomb' = (tomb \/ request.kind = "clear")
    /\ dropped' = dropped \ ps

\* A request that fails to save the manifest leaves it in memory without the marks of
\* these files, and sends nothing.
Drop(lost) == dropped' = dropped \union lost /\ UNCHANGED <<accepted, owed, tomb>>

\* The section of the state mutex: the manifest is saved, then the command is sent.
\* A send is refused after a shutdown, and fails when the worker has gone.
Queue ==
    /\ adm # None
    /\ adm' = None
    /\ \/ /\ SaveFails(QueuedManifest(adm))
          /\ Drop(man.dirty \ QueuedManifest(adm).dirty)
          /\ UNCHANGED <<ingress, wake>>
       \/ /\ Save(QueuedManifest(adm)) /\ UNCHANGED faults
          /\ IF ingress.shut # 0 THEN UNCHANGED <<ingress, wake, ghosts>>
             ELSE /\ ingress' = QueuedWork(adm)
                  /\ IF WorkerRuns THEN wake' = TRUE /\ Accept(adm) ELSE UNCHANGED <<wake, ghosts>>
    /\ UNCHANGED <<files, life, mem, stopping, w, requests, kills, stops, limits>>

-----------------------------------------------------------------------------
(* The worker takes a batch *)

Idle == [pc |-> "recv", batch |-> NoWork, stage |-> "none", part |-> FALSE,
         last |-> FALSE, done |-> FALSE]

At(pc) == life # "down" /\ w.pc = pc

OnlyWorker == UNCHANGED <<files, life, adm, ghosts, requests, kills, stops, limits>>

\* recv_debounced, or recv_debounced_timeout in the delay before a retry.
Receive ==
    /\ At("recv") \/ At("retry")
    /\ wake /\ wake' = FALSE
    /\ w' = [w EXCEPT !.pc = "debounce"]
    /\ UNCHANGED <<disk, man, mem, ingress, stopping, faults>> /\ OnlyWorker

\* take_debounced: a token that arrives meanwhile is drained or wakes the worker again.
TakeBatch ==
    /\ At("debounce")
    /\ w' = [w EXCEPT !.pc = "dispatch",
                      !.batch = IF w.stage = "none" THEN ingress ELSE MergeNewer(@, ingress)]
    /\ ingress' = [NoWork EXCEPT !.epoch = ingress.epoch, !.shut = ingress.shut]
    /\ wake' \in {FALSE, wake}
    /\ UNCHANGED <<disk, man, mem, stopping, faults>> /\ OnlyWorker

RetryDelayPasses ==
    /\ At("retry")
    /\ w' = [w EXCEPT !.pc = "dispatch"]
    /\ UNCHANGED <<disk, memory, faults>> /\ OnlyWorker

\* paths, or paths_after the rebuild of the batch.
Doing == {p \in Paths : w.batch.paths[p] > w.batch.full}

StageEpoch ==
    CASE w.stage = "full" -> w.batch.full
      [] w.stage = "paths" -> Max({w.batch.paths[p] : p \in Doing})
      [] OTHER -> 0

\* What process_index_batch_with_recovery does after the clear, and after a rebuild.
UpdateNext == IF Doing # {} THEN [w EXCEPT !.pc = "begin", !.stage = "paths", !.part = FALSE]
              ELSE Idle

BuildNext == IF w.batch.full # 0 THEN [w EXCEPT !.pc = "begin", !.stage = "full", !.part = FALSE]
             ELSE UpdateNext

\* The loop of the worker: at a shutdown only a pending clear is carried out.
Dispatch ==
    /\ At("dispatch")
    /\ LET end == w.batch.shut # 0 \/ stopping
       IN  w' = CASE w.batch.clear # 0 ->
                       [w EXCEPT !.pc = "clear_repo", !.stage = "clear", !.last = end]
                  [] w.batch.clear = 0 /\ end -> [Idle EXCEPT !.pc = "done"]
                  [] OTHER -> BuildNext
    /\ UNCHANGED <<disk, memory, faults>> /\ OnlyWorker

-----------------------------------------------------------------------------
(* Clearing *)

ClearFailed == IF w.last THEN [w EXCEPT !.pc = "dead"] ELSE [w EXCEPT !.pc = "reconcile"]

\* clear_index_files, then clear_regex_index_files.
ClearEngine(engine, pc, next) ==
    /\ At(pc)
    /\ \/ /\ disk' = [disk EXCEPT ![engine] = None]
          /\ w' = [w EXCEPT !.pc = next]
          /\ UNCHANGED faults
       \/ Fault /\ w' = ClearFailed /\ UNCHANGED disk
    /\ UNCHANGED memory /\ OnlyWorker

\* The rename that completes the revision may be durable although its sync failed.
CompleteClear ==
    /\ At("complete")
    /\ LET done == CompletesRevision(disk.clear, w.batch.rev)
           clear == IF done THEN Completed(disk.clear, w.batch.rev) ELSE disk.clear
       IN  \/ /\ disk' = [disk EXCEPT !.clear = clear]
              /\ w' = [w EXCEPT !.pc = "cleared", !.done = done]
              /\ UNCHANGED faults
           \/ /\ Fault /\ w' = ClearFailed
              /\ disk' \in {disk, [disk EXCEPT !.clear = clear]}
    /\ UNCHANGED memory /\ OnlyWorker

\* The section that ends perform_index_clear_with_hook.
ClearCommit ==
    /\ At("cleared")
    /\ LET f == FollowUp(w.batch, w.batch.clear)
           later == ~w.done \/ f.clear \/ f.full \/ f.paths # {}
           m == IF later THEN [status |-> "Queued", dirty |-> f.paths, queued |-> f.paths]
                ELSE Missing
       IN  \/ /\ Save(m) /\ UNCHANGED faults
              /\ w' = IF w.last THEN [Idle EXCEPT !.pc = "done"] ELSE BuildNext
           \/ SaveFails(m) /\ w' = ClearFailed
    /\ mem' = NoRuntime
    /\ UNCHANGED <<ingress, wake, stopping>> /\ OnlyWorker

-----------------------------------------------------------------------------
(* Building *)

WorkerOnly == UNCHANGED <<files, adm, accepted, tomb, requests, kills, stops, limits>>

\* A failed rebuild before readiness ends the startup.
BuildFailed ==
    IF w.stage = "hydrate" THEN life' = "down" /\ w' = [Idle EXCEPT !.pc = "dead"]
    ELSE life' = life /\ w' = [w EXCEPT !.pc = "reconcile"]

StageDone ==
    /\ life' = IF life = "hydrating" THEN "up" ELSE life
    /\ w' = IF w.stage = "full" THEN UpdateNext ELSE Idle

\* A section of a build moves the manifest to m and saves it; an illegal transition
\* and a failed save are errors of the build.
Section(m, next) ==
    IF Legal(man.status, m.status)
    THEN \/ Save(m) /\ next /\ UNCHANGED faults
         \/ SaveFails(m) /\ BuildFailed
    ELSE BuildFailed /\ UNCHANGED <<man, disk, faults>>

Goto(pc, part) == w' = [w EXCEPT !.pc = pc, !.part = part] /\ UNCHANGED life

\* The first section of a rebuild, or of an update of current engines.
BeginBuild ==
    /\ At("begin")
    /\ LET part == w.stage = "paths" /\ Current(mem)
           m == IF part THEN [man EXCEPT !.status = "Building", !.dirty = @ \union Doing]
                ELSE [man EXCEPT !.status = "Building", !.queued = {}]
       IN  IF stopping THEN StageDone /\ UNCHANGED <<man, disk, faults>>
           ELSE Section(m, Goto("repo", part))
    /\ UNCHANGED <<mem, ingress, wake, stopping, owed, dropped>> /\ WorkerOnly

\* The engine reads every file, or the paths of the batch, and publishes.
Scanned(old) ==
    IF w.part THEN [p \in Paths |-> IF p \in Doing THEN files[p] ELSE old[p]] ELSE files

BuildEngine(engine, next) ==
    /\ At(engine)
    /\ \/ /\ disk' = [disk EXCEPT ![engine] = Scanned(mem[engine])]
          /\ Goto(next, w.part) /\ UNCHANGED faults
       \/ Fault /\ BuildFailed /\ UNCHANGED disk
    /\ UNCHANGED <<memory, owed, dropped>> /\ WorkerOnly

\* requeue_interrupted_index_build, and the same for a superseded build.
Requeue == Section(Queued(man), StageDone)

\* Between the engines: a shutdown ends the build, a rebuild reports its progress.
Progress ==
    /\ At("progress")
    /\ CASE stopping -> Requeue
         [] ~stopping /\ w.part -> Goto("regex", TRUE) /\ UNCHANGED <<man, disk, faults>>
         [] OTHER -> Section([man EXCEPT !.status = "Building"], Goto("regex", FALSE))
    /\ UNCHANGED <<mem, ingress, wake, stopping, owed, dropped>> /\ WorkerOnly

\* Fault: a clear that arrives during a build does not hold its publication back.
SupersededByStop(f) == f.shut

\* A newer clear or a shutdown discards what was built.
Superseded(f) == f.clear \/ f.shut

\* Fault: the files of the batch are clean, although one was reported again.
PublishedForgetting(f) ==
    [status |-> IF f.full THEN "Queued" ELSE "Ready",
     dirty |-> IF w.part THEN man.dirty \ Doing ELSE f.paths,
     queued |-> IF w.part THEN man.queued \ Doing ELSE f.paths]

\* The manifest of a published build.
Published(f) ==
    [status |-> IF f.full THEN "Queued" ELSE "Ready",
     dirty |-> IF w.part THEN man.dirty \ (Doing \ f.paths) ELSE f.paths,
     queued |-> IF w.part THEN man.queued \ (Doing \ f.paths) ELSE f.paths]

\* A search of p is answered from engines that have its accepted version.
Serves(m, r, p) ==
    /\ m.status = "Ready" /\ p \notin m.dirty \union m.queued
    /\ Current(r) /\ r.repo[p] >= accepted[p] /\ r.regex[p] >= accepted[p]

Settle == owed' = {p \in owed : ~Serves(man', mem', p)}

\* The files whose marks are right again once the manifest of a build is in memory.
MarkedAgain(f) ==
    CASE ~Legal(man.status, Published(f).status) -> {}
      [] w.part /\ Legal(man.status, Published(f).status) -> Doing \ f.paths
      [] OTHER -> Paths

\* The section that publishes a build to searches.
Commit ==
    /\ At("commit")
    /\ LET f == FollowUp(w.batch, StageEpoch)
       IN  CASE stopping \/ Superseded(f) -> Requeue /\ UNCHANGED <<mem, owed, dropped>>
             [] OTHER -> /\ mem' = Loaded(disk)
                         /\ Section(Published(f), StageDone)
                         /\ Settle
                         /\ dropped' = dropped \ MarkedAgain(f)
    /\ UNCHANGED <<ingress, wake, stopping>> /\ WorkerOnly

\* reconcile_failed_index_clear and reconcile_failed_index_publication reload what is
\* on disk; the batch is then retried, an update as a rebuild.
Reconcile ==
    /\ At("reconcile")
    /\ mem' = IF w.stage = "clear" THEN Loaded(disk)
              ELSE [e \in {"repo", "regex"} |-> IF disk[e] # None THEN disk[e] ELSE mem[e]]
    /\ \/ /\ Save(Queued(man)) /\ UNCHANGED faults
          /\ w' = IF w.stage # "clear" /\ stopping THEN Idle
                  ELSE [w EXCEPT !.pc = "retry",
                                 !.batch = IF w.stage = "paths" THEN PromoteRetry(@) ELSE @]
       \/ SaveFails(Queued(man)) /\ w' = [w EXCEPT !.pc = "dead"]
    /\ UNCHANGED <<ingress, wake, stopping>> /\ OnlyWorker

Worker ==
    \/ Receive \/ TakeBatch \/ RetryDelayPasses \/ Dispatch
    \/ ClearEngine("repo", "clear_repo", "clear_regex")
    \/ ClearEngine("regex", "clear_regex", "complete")
    \/ CompleteClear \/ ClearCommit
    \/ BeginBuild \/ BuildEngine("repo", "progress") \/ Progress
    \/ BuildEngine("regex", "commit") \/ Commit \/ Reconcile

-----------------------------------------------------------------------------
(* The daemon's life *)

\* load_index_manifest_file and load_index_runtime_files
LoadedIndex(d) ==
    [man |-> CASE Complete(d.clear) -> Missing
               [] Pending(d.clear) -> Queued(d.manifest)
               [] OTHER -> d.manifest,
     mem |-> IF Complete(d.clear) THEN NoRuntime ELSE Loaded(d)]

\* The initial work of enqueue_initial_index_work, decided from what was loaded.
OnlyRegex(x) == x.man = Missing /\ x.mem.regex # None /\ x.mem.repo = None

InitialWork(x) ==
    CASE Pending(disk.clear) -> "clear"
      [] ~Pending(disk.clear) /\ ~Complete(disk.clear) /\ OnlyRegex(x) -> "hydrate"
      [] ~Pending(disk.clear) /\ ~Complete(disk.clear) /\ ~OnlyRegex(x)
            /\ (~Current(x.mem) \/ ~Clean(x.man)) -> "full"
      [] OTHER -> "none"

InitialManifest(x, work) ==
    CASE work = "clear" -> [Missing EXCEPT !.status = "Queued"]
      [] work \in {"full", "hydrate"} -> [Queued(x.man) EXCEPT !.queued = {}]
      [] OTHER -> x.man

InitialIngress(work) ==
    CASE work = "clear" /\ disk.clear.phase = "pending-rebuild" ->
            WithFull(WithClear(NoWork, disk.clear.rev))
      [] work = "clear" /\ disk.clear.phase = "pending" -> WithClear(NoWork, disk.clear.rev)
      [] work = "full" -> WithFull(NoWork)
      [] OTHER -> NoWork

\* A daemon starts: it loads the index and queues what the manifest says is left.
Start ==
    /\ life = "down"
    /\ LET x == LoadedIndex(disk)
           work == InitialWork(x)
           m == InitialManifest(x, work)
       IN  /\ mem' = x.mem
           /\ \/ /\ work = "none" /\ man' = x.man /\ UNCHANGED <<disk, faults>>
                 /\ life' = "up" /\ w' = Idle
              \/ /\ work # "none" /\ Save(m) /\ UNCHANGED faults
                 /\ life' = IF work = "hydrate" THEN "hydrating" ELSE "up"
                 /\ w' = IF work = "hydrate" THEN [Idle EXCEPT !.pc = "begin", !.stage = "hydrate"]
                         ELSE Idle
              \/ work # "none" /\ SaveFails(m) /\ UNCHANGED <<life, w>>
           /\ ingress' = InitialIngress(work) /\ wake' = (work \in {"clear", "full"})
           /\ stopping' = FALSE
    /\ Settle
    /\ UNCHANGED <<files, adm, accepted, tomb, dropped, requests, kills, stops, limits>>

\* A signal sets the flag first; begin_daemon_shutdown then tells the worker.
Signal ==
    /\ life = "up" /\ ~stopping
    /\ stops < limits.stops /\ stops' = stops + 1
    /\ stopping' = TRUE
    /\ UNCHANGED <<files, disk, life, man, mem, ingress, wake, adm, w, ghosts>>
    /\ UNCHANGED <<requests, faults, kills, limits>>

BeginShutdown ==
    /\ life = "up" /\ stopping /\ ingress.shut = 0 /\ WorkerRuns
    /\ ingress' = WithShutdown(ingress) /\ wake' = TRUE
    /\ UNCHANGED <<files, disk, life, man, mem, stopping, adm, w, ghosts, bounds, limits>>

\* request_daemon_stop publishes the flag under the lock of the ingress.
RequestStop ==
    /\ life = "up" /\ ~stopping /\ WorkerRuns
    /\ stops < limits.stops /\ stops' = stops + 1
    /\ ingress' = WithShutdown(ingress) /\ wake' = TRUE /\ stopping' = TRUE
    /\ UNCHANGED <<files, disk, life, man, mem, adm, w, ghosts>>
    /\ UNCHANGED <<requests, faults, kills, limits>>

Down == life' = "down" /\ adm' = None /\ UNCHANGED <<files, disk, memory, w, ghosts>>

\* The worker has ended, with an error or at a shutdown: the daemon exits.
Exit ==
    /\ life = "up" /\ ~WorkerRuns /\ adm = None
    /\ Down /\ UNCHANGED <<bounds, limits>>

Kill ==
    /\ life # "down"
    /\ kills < limits.kills /\ kills' = kills + 1
    /\ Down /\ UNCHANGED <<requests, faults, stops, limits>>

Init ==
    /\ limits \in Scenarios
    /\ files = [p \in Paths |-> 0]
    /\ disk = [repo |-> None, regex |-> IF limits.regex THEN files ELSE None,
               manifest |-> Missing, clear |-> None]
    /\ life = "down"
    /\ man = Missing /\ mem = NoRuntime /\ ingress = NoWork /\ wake = FALSE /\ stopping = FALSE
    /\ adm = None /\ w = Idle
    /\ accepted = files /\ owed = {} /\ tomb = FALSE /\ dropped = {}
    /\ requests = 0 /\ faults = 0 /\ kills = 0 /\ stops = 0

Next ==
    \/ Worker
    \/ \E kind \in {"clear", "full"} : Admit(kind, {})
    \/ \E ps \in (SUBSET Paths) \ {{}} : Admit("paths", ps)
    \/ Queue
    \/ Start \/ Signal \/ BeginShutdown \/ RequestStop \/ Exit \/ Kill

Spec == Init /\ [][Next]_vars

\* Threads that can run do; a daemon that has ended is started again.
FairSpec ==
    /\ Spec
    /\ WF_vars(Worker) /\ WF_vars(Queue)
    /\ WF_vars(BeginShutdown) /\ WF_vars(Exit) /\ WF_vars(Start)

-----------------------------------------------------------------------------
(* Properties *)

\* An answer from the index shows every change that was reported before it: when the
\* manifest lets a search of a file use the engines, both have read at least the
\* version that the latest accepted request for the file was about, whatever was
\* reported during the build, retried, or cut short by a kill.  Left out are the files
\* whose marks a request dropped when it could not save the manifest (index.rs:533 and
\* 615), until they are reported again or a build that read them is published.
IndexedAnswersAreCurrent ==
    life = "up" /\ man.status = "Ready" =>
        \A p \in Paths \ (man.dirty \union man.queued \union dropped) : Serves(man, mem, p)

\* After a clear was acknowledged no search is answered from the index again, neither
\* from a build that was under way nor after a restart, until newer work is recorded.
ClearedIsNotServed == life = "up" /\ tomb => man.status # "Ready"

\* Every accepted change gets into the index that searches use, and every acknowledged
\* clear removes both engines, through failures, retries, shutdowns and kills, unless
\* a newer clear or newer work takes its place.
AcceptedWorkIsDone ==
    /\ \A p \in Paths : p \in owed ~> p \notin owed
    /\ tomb ~> (~tomb \/ Loaded(disk) = NoRuntime)
=============================================================================
