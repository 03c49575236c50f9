------------------------------ MODULE Retention ------------------------------
(***************************************************************************)
(* Retention of the task store: crates/packet28-daemon-core/src/           *)
(* retention.rs and retention/capability.rs.                               *)
(*                                                                         *)
(* A task is a registry record and up to two components in the file        *)
(* system, an artifact directory and an event log.  Retention removes the  *)
(* three as one transaction: a group directory with a journal, components  *)
(* staged into it, the journal switched from Precommit to Committed under  *)
(* the registry lock, the record removed, the components deleted.  A group *)
(* that outlives its process is recovered, before a daemon serves and      *)
(* before the next retention plans: a precommit group is restored, a       *)
(* committed one finished.                                                 *)
(*                                                                         *)
(* Directory entries have a visible and a durable view.  A kill loses the  *)
(* process, a power failure loses what no directory sync has covered.      *)
(* The exclusive lease is taken as given (DaemonBootstrap shows it): one   *)
(* process applies or recovers at a time and no writer runs beside it.     *)
(***************************************************************************)
EXTENDS Integers, Sequences, FiniteSets

CONSTANTS
    Keys,       \* storage keys
    Copies,     \* directory entries made for one component, at most
    Groups,     \* 1..n, quarantine groups made, at most
    MaxPasses,  \* MAX_STARTUP_RECOVERY_PASSES
    Scenarios   \* initial tasks, and the bounds on what the environment does

Comps == {"artifact", "event"}

ASSUME RetentionAssumption ==
    /\ Copies \in Nat \ {0} /\ MaxPasses \in Nat \ {0}
    /\ Groups = 1..Cardinality(Groups) /\ IsFiniteSet(Groups)
    /\ Keys # {} /\ IsFiniteSet(Keys)
    /\ \A s \in Scenarios :
          /\ s.tasks \subseteq Keys /\ s.comps \subseteq Comps
          /\ s.refers \subseteq Keys \X Keys   \* <<k, p>>: k's record refers to p
          /\ s.groups \in 0..Cardinality(Groups)
          /\ s.batches \in Nat \ {0}    \* deletion batches an artifact directory takes
          /\ {s.kills, s.powers, s.faults, s.writes} \subseteq Nat

VARIABLES
    vis, dur,     \* names of each component: seen by a process, on the medium
    bits,         \* deletion batches a component has left
    owner,        \* the incarnation of the record a component was made under
    rec,          \* the incarnation of each registry record, 0 when absent
    active,       \* keys whose record is active
    rev, gen,     \* registry revision and checkpoint generation
    up, updur,    \* the group directories, seen and on the medium
    jv, jd,       \* journal of each group, seen and on the medium
    log,          \* what the journal of each group says
    made,         \* groups made so far
    mode, pass, recovering, plan, job, todo, confl,
    limits, spent   \* the scenario, and what of it is used up

files   == <<vis, dur, bits, owner>>
registry == <<rec, active, rev, gen>>
groups  == <<up, updur, jv, jd, log, made>>
process == <<mode, pass, recovering, plan, job, todo, confl>>
vars    == <<files, registry, groups, process, limits, spent>>

-----------------------------------------------------------------------------
(* Names.  A component keeps its identity, its device and inode, under     *)
(* whatever name it has.                                                   *)

Objs  == Keys \X Comps \X (1..Copies)
Roles == {"staged", "deletion", "restoring", "trash"}
Orig  == <<0, "orig">>
Locs  == {Orig} \cup (Groups \X Roles)
At(g, role) == <<g, role>>

Parent(o)  == <<0, o[2]>>           \* the directory of the original name
Group(g)   == <<g, "group">>
Quarantine == <<0, "quarantine">>
Dirs == {<<0, c>> : c \in Comps} \cup {Group(g) : g \in Groups} \cup {Quarantine}

IsDirectory(o) == o[2] = "artifact"

Phases == {"none", "precommit", "committed", "final"}
Empty  == [phase |-> "none", extra |-> "none"]
Journals == [phase : Phases, extra : {"none", "temp", "tombstone"}]

NoLog == [key |-> CHOOSE k \in Keys : TRUE, objs |-> {}, inc |-> 0, rev |-> 0, gen |-> 0]
NoJob == [pc |-> "none", g |-> 0, own |-> FALSE, done |-> {}]
Pcs   == {"none", "journal", "stage", "commit", "remove", "finish",
          "delete", "restore", "sweep", "close"}

InDir(o, l, d) ==
    IF d[1] = 0 THEN l = Orig /\ d = Parent(o) ELSE l[1] = d[1]

\* The durable names of o once directory d is synced.  The rename of a
\* directory is one durable event; a file can keep both of its names.
SyncedNames(o, d) ==
    LET here == {l \in Locs : InDir(o, l, d)}
    IN  CASE here \cap (vis[o] \cup dur[o]) = {} -> dur[o]
          [] IsDirectory(o) -> vis[o]
          [] OTHER -> (dur[o] \ here) \cup (vis[o] \cap here)

Up == {g \in Groups : up[g]}
InGroup(g) == {o \in Objs : \E l \in vis[o] : l[1] = g}

-----------------------------------------------------------------------------
(* The next directory sync of the running process.                         *)

Sync ==
    /\ todo # <<>>
    /\ LET d == Head(todo)
       IN  /\ dur' = [o \in Objs |-> SyncedNames(o, d)]
           /\ jd' = IF d[2] = "group" THEN [jd EXCEPT ![d[1]] = jv[d[1]]] ELSE jd
           /\ updur' = IF d = Quarantine THEN up ELSE updur
    /\ todo' = Tail(todo)
    /\ UNCHANGED <<vis, bits, owner, registry, up, jv, log, made,
                   mode, pass, recovering, plan, job, confl, spent>>

Ready(pc) == todo = <<>> /\ job.pc = pc

\* The job ends and the process goes on with its next group or item.
EndJob == job' = NoJob

\* An error of the job: recovery counts a conflict, an item is reported failed.
FailJob(why) ==
    /\ EndJob
    /\ confl' = IF job.own THEN confl ELSE confl \cup {<<job.g, why>>}

-----------------------------------------------------------------------------
(* Registry authority of a journal.                                        *)

\* Mutant: the values of the records alone are compared.
SameValue(g) == rev >= log[g].rev

\* What remove_retained_registry_records_under_task_lock compares.  A record
\* admitted again can be byte identical, so that only the revision and the
\* generation tell it from the one the journal names.
SameAuthority(g) == rev = log[g].rev /\ gen = log[g].gen

Unchanged(g) == log[g].inc = 0 \/ (rec[log[g].key] # 0 /\ SameAuthority(g))

\* allow_already_removed.
Finishable(g) ==
    \/ log[g].inc = 0
    \/ rec[log[g].key] # 0 /\ SameAuthority(g)
    \/ rec[log[g].key] = 0 /\ rev >= log[g].rev /\ gen >= log[g].gen

\* The records go and the paired checkpoint is saved, one atomic durable event
\* (RegistryCheckpoint).
SaveWithout(g) ==
    /\ IF log[g].inc = 0
         THEN UNCHANGED <<rec, gen>>
         ELSE rec' = [rec EXCEPT ![log[g].key] = 0] /\ gen' = gen + 1
    /\ UNCHANGED <<active, rev>>

-----------------------------------------------------------------------------
(* apply_plan and apply_candidate_with_authority.                          *)

Originals(k) == {o \in Objs : o[1] = k /\ Orig \in vis[o]}

IsCandidate(k) == rec[k] # 0 \/ Originals(k) # {}

\* active_storage_keys: active tasks and the tasks a retained record refers to.
Protected(k) ==
    k \in active \/ \E s \in Keys : rec[s] # 0 /\ <<s, k>> \in limits.refers

\* build_plan: the policy picks among the candidates that are not protected.
Plan ==
    /\ mode = "apply" /\ Ready("none") /\ recovering = {}
    /\ \E S \in SUBSET {k \in Keys : IsCandidate(k) /\ ~Protected(k)} : plan' = S
    /\ mode' = "applying"
    /\ UNCHANGED <<files, registry, groups, pass, recovering, job, todo, confl, spent>>

\* The next item: the candidate is loaded again, with the revision and the
\* generation it is seen at, and skipped when it is protected by now.
Begin(k) ==
    /\ mode = "applying" /\ Ready("none") /\ k \in plan
    /\ plan' = plan \ {k}
    /\ IF ~IsCandidate(k) \/ Protected(k)
         THEN UNCHANGED <<groups, job>>
         ELSE /\ made < limits.groups
              /\ made' = made + 1
              /\ up' = [up EXCEPT ![made + 1] = TRUE]
              /\ updur' = [updur EXCEPT ![made + 1] = TRUE]
              /\ log' = [log EXCEPT ![made + 1] =
                    [key |-> k, objs |-> Originals(k), inc |-> rec[k],
                     rev |-> rev, gen |-> gen]]
              /\ job' = [pc |-> "journal", g |-> made + 1, own |-> TRUE, done |-> {}]
              /\ UNCHANGED <<jv, jd>>
    /\ UNCHANGED <<files, registry, mode, pass, recovering, todo, confl, spent>>

\* write_json_atomically: a synced temporary, then the rename over the name.
WriteTemp ==
    /\ Ready("journal") \/ (Ready("commit") /\ Unchanged(job.g))
    /\ jv[job.g].extra = "none"
    /\ jv' = [jv EXCEPT ![job.g].extra = "temp"]
    /\ UNCHANGED <<files, registry, up, updur, jd, log, made, process, spent>>

PersistJournal ==
    /\ Ready("journal") /\ jv[job.g].extra = "temp"
    /\ jv' = [jv EXCEPT ![job.g] = [phase |-> "precommit", extra |-> "none"]]
    /\ todo' = <<Group(job.g)>>
    /\ job' = [job EXCEPT !.pc = "stage"]
    /\ UNCHANGED <<files, registry, up, updur, jd, log, made,
                   mode, pass, recovering, plan, confl, spent>>

\* Journal order: the artifact directory before the event log.
Before(p, o) == p[2] = "artifact" /\ o[2] = "event"
FirstOf(S) == CHOOSE o \in S : \A p \in S \ {o} : Before(o, p)
LastOf(S)  == CHOOSE o \in S : \A p \in S \ {o} : Before(p, o)

\* rename_to_noreplace_uncommitted and then sync_rename, destination first.
Move(o, from, to, dirs) ==
    /\ vis' = [vis EXCEPT ![o] = (@ \ {from}) \cup {to}]
    /\ todo' = dirs
    /\ UNCHANGED <<dur, bits, owner>>

StageOrder(g, o) == <<Group(g), Parent(o)>>

Stage ==
    /\ Ready("stage")
    /\ LET left == log[job.g].objs \ job.done
       IN  IF left = {}
             THEN job' = [job EXCEPT !.pc = "commit"] /\ UNCHANGED <<files, todo>>
             ELSE LET o == FirstOf(left)
                  IN  /\ Move(o, Orig, At(job.g, "staged"), StageOrder(job.g, o))
                      /\ job' = [job EXCEPT !.done = @ \cup {o}]
    /\ UNCHANGED <<registry, groups, mode, pass, recovering, plan, confl, spent>>

\* mark_committed, under the registry lock: the visible rename is the point
\* of no return.  A registry that moved on rolls the transaction back.
Rollback(j) == [j EXCEPT !.pc = "restore", !.done = {}]

\* Mutant: the components are deleted before the record is removed.
MarkThenDelete ==
    /\ Ready("commit") /\ Unchanged(job.g) /\ jv[job.g].extra = "temp"
    /\ jv' = [jv EXCEPT ![job.g] = [phase |-> "committed", extra |-> "none"]]
    /\ todo' = <<Group(job.g)>>
    /\ job' = [job EXCEPT !.pc = "delete"]
    /\ UNCHANGED <<files, registry, up, updur, jd, log, made,
                   mode, pass, recovering, plan, confl, spent>>

MarkCommitted ==
    /\ Ready("commit")
    /\ \/ /\ ~Unchanged(job.g)
          /\ job' = Rollback(job)
          /\ UNCHANGED <<jv, todo>>
       \/ /\ Unchanged(job.g) /\ jv[job.g].extra = "temp"
          /\ jv' = [jv EXCEPT ![job.g] = [phase |-> "committed", extra |-> "none"]]
          /\ todo' = <<Group(job.g)>>
          /\ job' = [job EXCEPT !.pc = "remove"]
    /\ UNCHANGED <<files, registry, up, updur, jd, log, made,
                   mode, pass, recovering, plan, confl, spent>>

RemoveRecord ==
    /\ Ready("remove")
    /\ SaveWithout(job.g)
    /\ job' = [job EXCEPT !.pc = "delete"]
    /\ UNCHANGED <<files, groups, mode, pass, recovering, plan, todo, confl, spent>>

-----------------------------------------------------------------------------
(* delete_committed_group: the components, the journal, the directory.     *)

JournalIs(phase, extra) == jv' = [jv EXCEPT ![job.g] = [phase |-> phase, extra |-> extra]]

SyncGroup == todo' = <<Group(job.g)>>

\* A file that a power failure left under two names loses the staged one,
\* through a generated tombstone name.
DropDuplicate(o) ==
    /\ {At(job.g, "staged"), At(job.g, "deletion")} \subseteq vis[o]
    /\ vis' = [vis EXCEPT ![o] = (@ \ {At(job.g, "staged")}) \cup {At(job.g, "trash")}]
    /\ dur' = [dur EXCEPT ![o] = SyncedNames(o, Group(job.g))]
    /\ SyncGroup
    /\ UNCHANGED <<bits, owner, jv, job>>

Unlink(o, l) ==
    /\ l \in vis[o]
    /\ vis' = [vis EXCEPT ![o] = @ \ {l}]
    /\ SyncGroup
    /\ UNCHANGED <<dur, owner, job>>

Isolate(o) ==
    /\ At(job.g, "staged") \in vis[o] /\ At(job.g, "deletion") \notin vis[o]
    /\ Move(o, At(job.g, "staged"), At(job.g, "deletion"), <<Group(job.g)>>)
    /\ UNCHANGED <<jv, job>>

\* The component has its deletion name and no other name in the group.
Isolated(o) == {l \in vis[o] : l[1] = job.g} = {At(job.g, "deletion")}

\* One bounded batch.  What is left after it waits for the next recovery; a
\* file that has a name elsewhere keeps its content.
DeleteBatch(o) ==
    /\ Isolated(o)
    /\ bits' = [bits EXCEPT ![o] = IF @ = 0 \/ Cardinality(vis[o]) > 1 THEN @ ELSE @ - 1]
    /\ IF bits[o] <= 1
         THEN Unlink(o, At(job.g, "deletion"))
         ELSE EndJob /\ UNCHANGED <<vis, dur, owner, todo>>
    /\ UNCHANGED jv

DropJournal ==
    /\ LET phase == jv[job.g].phase
       IN  \/ phase = "committed" /\ JournalIs("final", "none") /\ UNCHANGED job
           \/ phase = "final" /\ JournalIs("none", "none")
                /\ job' = [job EXCEPT !.pc = "close"]
    /\ SyncGroup
    /\ UNCHANGED files

Delete ==
    /\ Ready("delete")
    /\ LET left == InGroup(job.g)
           o == FirstOf(left)
       IN  \/ left = {} /\ DropJournal
           \/ left # {} /\ DropDuplicate(o)
           \/ left # {} /\ At(job.g, "trash") \in vis[o]
                /\ Unlink(o, At(job.g, "trash")) /\ UNCHANGED <<bits, jv>>
           \/ left # {} /\ At(job.g, "trash") \notin vis[o] /\ Isolate(o)
           \/ left # {} /\ DeleteBatch(o)
    /\ UNCHANGED <<registry, up, updur, jd, log, made,
                   mode, pass, recovering, plan, confl, spent>>

\* The empty directory goes.
Close ==
    /\ Ready("close")
    /\ up' = [up EXCEPT ![job.g] = FALSE]
    /\ todo' = <<Quarantine>>
    /\ EndJob
    /\ UNCHANGED <<files, registry, updur, jv, jd, log, made,
                   mode, pass, recovering, plan, confl, spent>>

-----------------------------------------------------------------------------
(* rollback and restore_precommit_group.                                   *)

Staged(o)    == At(job.g, "staged") \in vis[o]


Restoring(o) == At(job.g, "restoring") \in vis[o]
Taken(o)     == \E p \in Objs : p[1] = o[1] /\ p[2] = o[2] /\ Orig \in vis[p]

RestoreOrder(g, o) == <<Parent(o), Group(g)>>

\* restore_component_from_group, one step of it: the component is isolated
\* under its restoration name, moved to a free original name, and a file that
\* has both names keeps the original one once its directory is synced.
RestoreComponent(o) ==
    \/ /\ Orig \in vis[o] /\ ~Staged(o) /\ ~Restoring(o)
       /\ dur' = [dur EXCEPT ![o] = SyncedNames(o, Parent(o))]
       /\ job' = [job EXCEPT !.done = @ \cup {o}]
       /\ UNCHANGED <<vis, bits, owner, todo, confl>>
    \/ /\ Orig \in vis[o] /\ (Staged(o) \/ Restoring(o))
       /\ IF IsDirectory(o)
            THEN FailJob("state") /\ UNCHANGED <<files, todo>>
            ELSE LET extra == IF Staged(o) THEN At(job.g, "staged")
                                           ELSE At(job.g, "restoring")
                 IN  /\ vis' = [vis EXCEPT ![o] = (@ \ {extra}) \cup {At(job.g, "trash")}]
                     /\ dur' = [dur EXCEPT ![o] = SyncedNames(o, Parent(o))]
                     /\ SyncGroup
                     /\ UNCHANGED <<bits, owner, job, confl>>
    \/ /\ ~Taken(o) /\ Staged(o) /\ ~Restoring(o)
       /\ Move(o, At(job.g, "staged"), At(job.g, "restoring"), <<Group(job.g)>>)
       /\ UNCHANGED <<job, confl>>
    \/ /\ ~Taken(o) /\ Restoring(o)
       /\ Move(o, At(job.g, "restoring"), Orig, RestoreOrder(job.g, o))
       /\ UNCHANGED <<job, confl>>
    \/ /\ Orig \notin vis[o]
       /\ Taken(o) \/ (~Staged(o) /\ ~Restoring(o))
       /\ FailJob("state") /\ UNCHANGED <<files, todo>>

\* remove_precommit_transient_files.
Transients(g) == {o \in Objs : At(g, "trash") \in vis[o]}

ClearTransients ==
    /\ jv[job.g].extra = "temp" \/ Transients(job.g) # {}
    /\ vis' = [o \in Objs |-> vis[o] \ {At(job.g, "trash")}]
    /\ JournalIs(jv[job.g].phase, "none")
    /\ SyncGroup
    /\ UNCHANGED <<dur, bits, owner, job, confl>>

\* remove_tree_entry_verified takes the group with its journal: the journal is
\* renamed to a generated tombstone name and unlinked.
RemoveGroup ==
    /\ CASE jv[job.g].phase = "precommit" ->
                JournalIs("none", "tombstone") /\ SyncGroup /\ UNCHANGED job
         [] jv[job.g].extra = "tombstone" ->
                JournalIs("none", "none") /\ SyncGroup /\ UNCHANGED job
         [] OTHER ->
                job' = [job EXCEPT !.pc = "close"] /\ UNCHANGED <<jv, todo>>
    /\ UNCHANGED <<files, confl>>

ToRestore ==
    {o \in log[job.g].objs \ job.done : job.own => Staged(o) \/ Restoring(o)}

Restore ==
    /\ Ready("restore")
    /\ \/ ClearTransients
       \/ /\ jv[job.g].extra # "temp" /\ Transients(job.g) = {}
          /\ \/ ToRestore # {} /\ jv[job.g].phase = "precommit"
                /\ RestoreComponent(LastOf(ToRestore)) /\ UNCHANGED jv
             \/ ToRestore = {} /\ InGroup(job.g) = {} /\ RemoveGroup
             \/ ToRestore = {} /\ InGroup(job.g) # {} /\ FailJob("state")
                /\ UNCHANGED <<files, jv, todo>>
    /\ UNCHANGED <<registry, up, updur, jd, log, made,
                   mode, pass, recovering, plan, spent>>

-----------------------------------------------------------------------------
(* recover_quarantine_groups.                                              *)

Visit(g, pc) == job' = [pc |-> pc, g |-> g, own |-> FALSE, done |-> {}]

\* validate_committed_group: nothing but the journal and known names.
KnownNames(g) ==
    /\ jv[g].extra = "none"
    /\ \A o \in InGroup(g) :
          /\ o \in log[g].objs
          /\ \A l \in vis[o] : l[1] = g => l[2] \in {"staged", "deletion"}

\* remove_journal_less_transient_group: a lone write temporary is removed, a
\* generic deletion tombstone is not told from something else and is kept.
Transient(extra) == extra = "temp"

\* Mutant: a group in conflict is visited again in the same pass.
VisitUntilSettled(g) ==
    /\ mode \in {"apply", "startup"} /\ Ready("none") /\ g \in recovering
    /\ IF jv[g].phase = "precommit"
         THEN Visit(g, "restore") /\ recovering' = recovering \ {g} /\ UNCHANGED confl
         ELSE confl' = confl \cup {<<g, "state">>} /\ UNCHANGED <<recovering, job>>
    /\ UNCHANGED <<files, registry, groups, mode, pass, plan, todo, spent>>

VisitGroup(g) ==
    /\ mode \in {"apply", "startup"} /\ Ready("none") /\ g \in recovering
    /\ recovering' = recovering \ {g}
    /\ CASE jv[g] = Empty /\ InGroup(g) = {} ->
                Visit(g, "close") /\ UNCHANGED confl
         [] jv[g].phase = "none" /\ Transient(jv[g].extra) /\ InGroup(g) = {} ->
                Visit(g, "sweep") /\ UNCHANGED confl
         [] jv[g].phase = "precommit" ->
                Visit(g, "restore") /\ UNCHANGED confl
         [] \/ jv[g].phase = "committed" /\ KnownNames(g)
            \/ jv[g].phase = "final" /\ InGroup(g) = {} ->
                Visit(g, "finish") /\ UNCHANGED confl
         [] OTHER ->
                confl' = confl \cup {<<g, "state">>} /\ UNCHANGED job
    /\ UNCHANGED <<files, registry, groups, mode, pass, plan, todo, spent>>

\* remove_verified_transient_file: the temporary is renamed to a deletion
\* tombstone and unlinked; a process that is killed in between leaves a group
\* that no later recovery takes for its own.
Sweep ==
    /\ Ready("sweep")
    /\ \/ jv[job.g].extra = "temp" /\ JournalIs("none", "tombstone") /\ UNCHANGED job
       \/ jv[job.g].extra = "tombstone" /\ JournalIs("none", "none")
            /\ job' = [job EXCEPT !.pc = "close"]
    /\ SyncGroup
    /\ UNCHANGED <<files, registry, up, updur, jd, log, made,
                   mode, pass, recovering, plan, confl, spent>>

\* Mutant: recovery takes the record of a committed group for removed.
FinishFiles ==
    /\ Ready("finish")
    /\ job' = [job EXCEPT !.pc = "delete"]
    /\ UNCHANGED <<registry, files, groups, mode, pass, recovering, plan, todo, confl, spent>>

\* finish_committed_group and finish_finalized_committed_group.
Finish ==
    /\ Ready("finish")
    /\ IF Finishable(job.g)
         THEN /\ SaveWithout(job.g)
              /\ job' = [job EXCEPT !.pc = "delete"]
              /\ UNCHANGED confl
         ELSE FailJob("state") /\ UNCHANGED registry
    /\ UNCHANGED <<files, groups, mode, pass, recovering, plan, todo, spent>>

-----------------------------------------------------------------------------
(* The callers: retain_task_store, and the startup of a daemon.            *)

Start(m) ==
    /\ mode' = m /\ recovering' = Up /\ confl' = {}
    /\ UNCHANGED <<files, registry, groups, plan, job, todo, spent>>

StartApply ==
    /\ mode = "idle" /\ made < limits.groups
    /\ Start("apply") /\ UNCHANGED pass

EndApply ==
    /\ mode = "applying" /\ Ready("none") /\ plan = {}
    /\ mode' = "idle"
    /\ UNCHANGED <<files, registry, groups, pass, recovering, plan, job, todo,
                   confl, spent>>

StartDaemon ==
    /\ mode = "idle"
    /\ Start("startup") /\ pass' = 1

\* A pass that met a conflict refuses startup; otherwise the exclusive lease is
\* given up for the shared one.
EndPass ==
    /\ mode = "startup" /\ Ready("none") /\ recovering = {}
    /\ mode' = IF confl = {} THEN "handoff" ELSE "idle"
    /\ UNCHANGED <<files, registry, groups, pass, recovering, plan, job, todo,
                   confl, spent>>

\* task_store_quarantine_has_groups under the shared lease.
Recheck ==
    /\ mode = "handoff"
    /\ IF Up = {}
         THEN mode' = "serving" /\ UNCHANGED <<pass, recovering, confl>>
         ELSE IF pass < MaxPasses
         THEN mode' = "startup" /\ pass' = pass + 1 /\ recovering' = Up /\ UNCHANGED confl
         ELSE mode' = "idle" /\ UNCHANGED <<pass, recovering, confl>>
    /\ UNCHANGED <<files, registry, groups, plan, job, todo, spent>>

StopDaemon ==
    /\ mode = "serving" /\ mode' = "idle"
    /\ UNCHANGED <<files, registry, groups, pass, recovering, plan, job, todo,
                   confl, spent>>

-----------------------------------------------------------------------------
(* Writers, under the shared lease: no process applies or recovers.        *)

Writable == mode \in {"idle", "handoff", "serving"} /\ spent.writes < limits.writes
Spend(what) == spent' = [spent EXCEPT ![what] = @ + 1]

\* A new task, under a name that nothing else uses.  The record is in the
\* write-ahead log, or in a checkpoint at an unchanged revision.
Admit(k) ==
    /\ Writable /\ k \in limits.tasks /\ rec[k] = 0 /\ Originals(k) = {}
    /\ \E r \in {rev, rev + 1} :
          rev' = r /\ gen' = IF r = rev THEN gen + 1 ELSE gen
    /\ rec' = [rec EXCEPT ![k] = 1 + spent.writes + 1]
    /\ active' = active \cup {k}
    /\ Spend("writes")
    /\ UNCHANGED <<files, groups, process>>

\* The task ends, or becomes active again.
Toggle(k) ==
    /\ Writable /\ rec[k] # 0
    /\ active' = IF k \in active THEN active \ {k} ELSE active \cup {k}
    /\ rev' = rev + 1
    /\ Spend("writes")
    /\ UNCHANGED <<files, rec, gen, groups, process>>

\* The first write to a component of an admitted task makes its entry.
Write(k, c) ==
    /\ Writable /\ rec[k] # 0
    /\ \A o \in Originals(k) : o[2] # c
    /\ \E n \in 1..Copies :
          /\ owner[<<k, c, n>>] = 0
          /\ vis' = [vis EXCEPT ![<<k, c, n>>] = {Orig}]
          /\ dur' = [dur EXCEPT ![<<k, c, n>>] = {Orig}]
          /\ owner' = [owner EXCEPT ![<<k, c, n>>] = rec[k]]
    /\ Spend("writes")
    /\ UNCHANGED <<bits, registry, groups, process>>

-----------------------------------------------------------------------------
(* Faults.                                                                 *)

\* A step of the job fails: before the commit the item rolls back, after it,
\* and in a rollback, the group is left to recovery.
Fail ==
    /\ job.pc # "none" /\ spent.faults < limits.faults
    /\ todo' = <<>>
    /\ IF job.pc \in {"journal", "stage", "commit"}
         THEN job' = Rollback(job) /\ UNCHANGED confl
         ELSE FailJob("io")
    /\ Spend("faults")
    /\ UNCHANGED <<files, registry, groups, mode, pass, recovering, plan>>

\* The checkpoint is saved and its caller sees an error all the same.
FailAfterSave ==
    /\ todo = <<>> /\ job.pc = "remove" /\ spent.faults < limits.faults
    /\ SaveWithout(job.g)
    /\ FailJob("io")
    /\ Spend("faults")
    /\ UNCHANGED <<files, groups, mode, pass, recovering, plan, todo>>

Stopped ==
    /\ mode' = "idle" /\ recovering' = {} /\ plan' = {} /\ job' = NoJob
    /\ todo' = <<>> /\ confl' = {} /\ UNCHANGED pass

Kill ==
    /\ mode # "idle" /\ spent.kills < limits.kills
    /\ Stopped /\ Spend("kills")
    /\ UNCHANGED <<files, registry, groups>>

\* A rename that no sync has covered happened, did not happen or, for a file,
\* left both names.  What was made in a directory is kept or lost with it.
PowerFail ==
    /\ spent.powers < limits.powers
    /\ \E pick \in [{o \in Objs : vis[o] # dur[o]} -> {"old", "new", "both"}],
          old \in SUBSET {g \in Groups : jv[g] # jd[g]},
          kept \in SUBSET {g \in Groups : up[g] # updur[g]} :
          /\ \A o \in DOMAIN pick : pick[o] = "both" => ~IsDirectory(o)
          /\ vis' = [o \in Objs |->
                IF o \notin DOMAIN pick THEN vis[o]
                ELSE CASE pick[o] = "old" -> dur[o]
                       [] pick[o] = "new" -> vis[o]
                       [] OTHER -> vis[o] \cup dur[o]]
          /\ jv' = [g \in Groups |-> IF g \in old THEN jd[g] ELSE jv[g]]
          /\ up' = [g \in Groups |-> IF g \in kept THEN updur[g] ELSE up[g]]
    /\ dur' = vis' /\ jd' = jv' /\ updur' = up'
    /\ Stopped /\ Spend("powers")
    /\ UNCHANGED <<bits, owner, registry, log, made>>

-----------------------------------------------------------------------------
Init ==
    /\ limits \in Scenarios
    /\ vis = [o \in Objs |->
          IF o[1] \in limits.tasks /\ o[2] \in limits.comps /\ o[3] = 1 THEN {Orig} ELSE {}]
    /\ dur = vis
    /\ bits = [o \in Objs |-> IF IsDirectory(o) THEN limits.batches ELSE 1]
    /\ owner = [o \in Objs |-> IF vis[o] # {} THEN 1 ELSE 0]
    /\ rec = [k \in Keys |-> IF k \in limits.tasks THEN 1 ELSE 0]
    /\ active = {} /\ rev = 1 /\ gen = 1
    /\ up = [g \in Groups |-> FALSE] /\ updur = up
    /\ jv = [g \in Groups |-> Empty] /\ jd = jv
    /\ log = [g \in Groups |-> NoLog] /\ made = 0
    /\ mode = "idle" /\ pass = 0 /\ recovering = {} /\ plan = {} /\ job = NoJob
    /\ todo = <<>> /\ confl = {}
    /\ spent = [kills |-> 0, powers |-> 0, faults |-> 0, writes |-> 0]

\* What the running process does next.
Step ==
    /\ \/ Sync \/ Plan \/ (\E k \in Keys : Begin(k)) \/ WriteTemp \/ PersistJournal
       \/ Stage \/ MarkCommitted \/ RemoveRecord \/ Delete \/ Close \/ Restore
       \/ (\E g \in Groups : VisitGroup(g)) \/ Sweep \/ Finish
       \/ EndApply \/ EndPass \/ Recheck
    /\ UNCHANGED limits

Environment ==
    /\ \/ StartApply \/ StartDaemon \/ StopDaemon
       \/ \E k \in Keys : Admit(k) \/ Toggle(k) \/ \E c \in Comps : Write(k, c)
       \/ Fail \/ FailAfterSave \/ Kill \/ PowerFail
    /\ UNCHANGED limits

Next == Step \/ Environment

Spec == Init /\ [][Next]_vars

\* A process that holds the lease keeps running: no step of it waits.
FairSpec == Spec /\ WF_vars(Step)

-----------------------------------------------------------------------------
\* The type invariant; a running process has a job exactly when it has a group.
TypeOK ==
    /\ vis \in [Objs -> SUBSET Locs] /\ dur \in [Objs -> SUBSET Locs]
    /\ bits \in [Objs -> 0..limits.batches] /\ owner \in [Objs -> Nat]
    /\ rec \in [Keys -> Nat] /\ active \subseteq Keys /\ rev \in Nat /\ gen \in Nat
    /\ up \in [Groups -> BOOLEAN] /\ updur \in [Groups -> BOOLEAN]
    /\ jv \in [Groups -> Journals] /\ jd \in [Groups -> Journals]
    /\ \A g \in Groups : log[g].key \in Keys /\ log[g].objs \subseteq Objs
    /\ made \in 0..Cardinality(Groups)
    /\ mode \in {"idle", "apply", "applying", "startup", "handoff", "serving"}
    /\ pass \in 0..MaxPasses /\ recovering \subseteq Groups /\ plan \subseteq Keys
    /\ job.pc \in Pcs /\ job.g \in Groups \cup {0} /\ job.done \subseteq Objs
    /\ (job.pc = "none") = (job = NoJob)
    /\ todo \in Seq(Dirs) /\ confl \subseteq Groups \X {"io", "state"}

Made(o) == owner[o] # 0
Full(o) == IF IsDirectory(o) THEN limits.batches ELSE 1

\* A power failure in a history that had a kill or a failed step, which may have
\* left a visible rename that no sync has covered.
Reverts == spent.powers > 0 /\ spent.kills + spent.faults > 0

\* The one way to lose an event log (retention.rs:3831): its rename into a group
\* stays unsynced when the step fails or the process is killed, another group's
\* log has their common parent directory synced, and then the power fails.
Lost(o) ==
    /\ Reverts /\ ~IsDirectory(o)
    /\ \E g, h \in Groups : g # h /\ o \in log[g].objs
          /\ \E p \in log[h].objs : p # o /\ Parent(p) = Parent(o)

Kept(o) == vis[o] # {} \/ Lost(o)

\* No component of a task is lost or partly deleted while the record it was
\* made under is in the registry: the deletion of retention.rs:5321 runs only
\* for a group whose record is durably gone, whatever kill, failed step or power
\* failure came between, but for the event logs that Lost names.
RecordOutlivesFiles ==
    \A o \in Objs : Made(o) /\ rec[o[1]] = owner[o] => Kept(o) /\ bits[o] = Full(o)

\* A component outlives its record only when the group that took the record did
\* not list it: another group held it, or a writer made it after the plan.
Orphaned(o) ==
    \E g \in Groups : log[g].key = o[1] /\ log[g].inc = owner[o] /\ o \notin log[g].objs

\* When a daemon serves, recovery has settled every transaction: no group is
\* left, and a task whose record went has no component left, unless it is
\* orphaned or a power failure took back the journal's switch to Committed
\* (retention.rs:6642); then it is under its original name.
ServingIsSettled ==
    mode = "serving" =>
        /\ Up = {}
        /\ \A o \in Objs : Made(o) /\ rec[o[1]] # owner[o] =>
              vis[o] = {} \/ (vis[o] = {Orig} /\ (Orphaned(o) \/ Reverts))

\* And a component of a present record has its original name only.
ServingIsWhole ==
    mode = "serving" =>
        \A o \in Objs : Made(o) /\ rec[o[1]] = owner[o] => vis[o] = {Orig}

\* Recovery removes the record its journal names and never a task that was
\* admitted again under the same identifier (registry_delta.rs:2480).
ReadmittedSurvives ==
    [][\A k \in Keys : rec[k] # 0 /\ rec'[k] = 0 => log[job.g].inc = rec[k]]_vars

\* An entry that a writer made is not removed by a transaction that was
\* planned before it was there: what a process deletes, its journal names.
OnlyPlannedIsDeleted ==
    [][\A o \in Objs : vis[o] # {} /\ vis'[o] = {} =>
          (job.g \in Groups /\ o \in log[job.g].objs) \/ Lost(o)']_vars

\* The task that a retained record refers to keeps its components.
PredecessorsKept ==
    \A s, p \in Keys : <<s, p>> \in limits.refers /\ rec[s] # 0 =>
        \A o \in Objs : o[1] = p /\ Made(o) => Kept(o)

\* What makes recovery give up a group.  A file that was renamed to a deletion
\* tombstone and not unlinked: alone in the group it is ambiguous, and in a
\* committed group it is unexpected (retention.rs:6203-6216, 5516).
Tombstoned(g) ==
    \/ jv[g] = [phase |-> "none", extra |-> "tombstone"] /\ InGroup(g) = {}
    \/ jv[g].phase = "committed" /\ Transients(g) # {}

\* The record is there and the registry is beyond the fence of the committed
\* journal: a writer, or the save of another group, went between
\* (registry_delta.rs:2480).
Overtaken(g) ==
    /\ jv[g].phase \in {"committed", "final"}
    /\ log[g].inc # 0 /\ rec[log[g].key] # 0
    /\ (rev > log[g].rev \/ gen > log[g].gen)
    /\ \/ spent.writes > 0
       \/ \E h \in Groups \ {g} : log[h].inc # 0 /\ rec[log[h].key] # log[h].inc

\* A component to restore is in another group (retention.rs:3724), or a writer
\* made an entry of its name.
Reused(g) ==
    /\ jv[g].phase = "precommit"
    /\ \E o \in log[g].objs :
          /\ Orig \notin vis[o]
          /\ \/ \E h \in Groups \ {g} : o \in log[h].objs
             \/ \E p \in Originals(o[1]) : p # o /\ p[2] = o[2]

\* A power failure left one part of the transaction older than the rest: a
\* journal that is not committed over components that were being deleted, an
\* event log in no place, or a component unlinked before the journal went.
Reverted(g) ==
    /\ Reverts
    /\ \/ jv[g].phase = "precommit"
          /\ \E o \in log[g].objs : vis[o] = {} \/ At(g, "deletion") \in vis[o]
       \/ jv[g].phase \in {"none", "final"} /\ InGroup(g) # {}

\* Recovery gives up a group for no other reason: a precommit group is restored
\* and a committed one finished whatever order of kills, failed steps, power
\* failures, other groups and writers led to it.
GivenUpForCause ==
    [][\A c \in confl' \ confl : c[2] = "state" =>
          Tombstoned(c[1]) \/ Overtaken(c[1]) \/ Reused(c[1]) \/ Reverted(c[1])]_vars

\* Startup ends: it serves or is refused.
StartupEnds == mode = "startup" ~> mode \notin {"startup", "handoff"}

\* Files go only after their record and the records that refer to them, through kills,
\* failed steps and power failures.  The exception is Lost: an event log whose unsynced
\* rename a power failure undoes after another group synced the directory they share.
FilesAreKept == RecordOutlivesFiles /\ PredecessorsKept

\* A daemon serves a store whose records have their files.
ServingIsClean == TypeOK /\ ServingIsWhole


\* Neither a record nor an entry goes that the transaction in hand did not plan.
OnlyPlannedGoes == ReadmittedSurvives /\ OnlyPlannedIsDeleted
=============================================================================
