-------------------------- MODULE RetentionProofs ---------------------------
(***************************************************************************)
(* Proofs about retention (retention.rs, retention/capability.rs), for any *)
(* tasks, groups, scenarios and number of startup passes.                  *)
(*                                                                         *)
(* The premise SyncsCover: in a history in which a process was killed or a *)
(* step failed, the power fails only while what is seen is durable.        *)
(* Either one leaves a rename that is seen and not yet durable, and        *)
(* nothing syncs that directory for it later: sync_rename belongs to the   *)
(* step that renamed.  Without kills and failed steps the power may fail   *)
(* at any moment, between a rename and its sync too.                       *)
(*                                                                         *)
(* The invariant is built in layers, each preserved with the help of the   *)
(* ones before it:                                                         *)
(*   types       of the variables, and when a process has a job;           *)
(*   authority   journals tell the truth of the registry: the record that  *)
(*               is removed is the one that was planned, and nothing that  *)
(*               is deleted belongs to a record or is referred to;         *)
(*   names       a name in a group is one that its journal lists;          *)
(*   syncs       where the seen and the durable names differ, the sync of  *)
(*               that directory is still to come;                          *)
(*   components  a live component is complete and has a name that counts,  *)
(*               seen, durable and after either sync of a move;            *)
(*   groups      a name in a group has its directory, a deletion name its  *)
(*               commitment, and a journal is dropped from an empty group. *)
(* RetentionInv is their conjunction.                                      *)
(***************************************************************************)
EXTENDS Retention, FiniteSetTheorems, TLAPS

\* No kill and no failed step so far.
Smooth == spent.kills + spent.faults = 0

\* What a process sees is on the medium.
Durable == vis = dur /\ jv = jd /\ up = updur

\* A power failure does not undo what a killed process or a failed step left unsynced.
CoveredStep == spent'.powers # spent.powers => Smooth \/ Durable

SyncsCover == [][CoveredStep]_vars

\* Groups made so far; the processes that work on them; journals, jobs and counters.
Begun == 1..made
Running == {"apply", "applying", "startup"}
Modes == Running \cup {"idle", "handoff", "serving"}
Logs == [key : Keys, objs : SUBSET Objs, inc : Nat, rev : Nat, gen : Nat]
Jobs == [pc : Pcs, g : Groups \cup {0}, own : BOOLEAN, done : SUBSET Objs]
Spendings == [kills : Nat, powers : Nat, faults : Nat, writes : Nat]

\* Types of files, registry, groups, job and process.
FilesOK ==
    /\ vis \in [Objs -> SUBSET Locs] /\ dur \in [Objs -> SUBSET Locs]
    /\ bits \in [Objs -> 0..limits.batches] /\ owner \in [Objs -> Nat]
RegistryOK == rec \in [Keys -> Nat] /\ active \subseteq Keys /\ rev \in Nat /\ gen \in Nat
GroupsOK ==
    /\ up \in [Groups -> BOOLEAN] /\ updur \in [Groups -> BOOLEAN]
    /\ jv \in [Groups -> Journals] /\ jd \in [Groups -> Journals]
    /\ log \in [Groups -> Logs] /\ made \in 0..limits.groups
FreshOK == \A g \in Groups \ Begun : ~up[g] /\ ~updur[g] /\ jv[g] = Empty /\ jd[g] = Empty
JobOK ==
    /\ job \in Jobs /\ (job.pc = "none") = (job = NoJob)
    /\ job.pc # "none" => job.g \in Begun
ProcessOK ==
    /\ mode \in Modes /\ pass \in 0..MaxPasses /\ recovering \subseteq Begun /\ plan \subseteq Keys
    /\ todo \in Seq(Dirs) /\ confl \subseteq Groups \X {"io", "state"}
    /\ job.pc # "none" \/ todo # <<>> => mode \in Running
    /\ mode = "serving" => Up = {}
BoundsOK == limits \in Scenarios /\ spent \in Spendings

\* Every variable has its type; a process has a job or syncs to make only while it runs.
TypeInv ==
    FilesOK /\ RegistryOK /\ GroupsOK /\ FreshOK /\ JobOK /\ ProcessOK /\ BoundsOK

\* A component is dead when its record went or was admitted anew, and live while its record
\* is there or, in a scenario without writers, a retained record refers to its task.
Dead(o) == rec[o[1]] # owner[o]
Referred(k) == limits.writes = 0 /\ \E s \in Keys : rec[s] # 0 /\ <<s, k>> \in limits.refers
Live(o) == Made(o) /\ (~Dead(o) \/ Referred(o[1]))

\* The names that a power failure may bring back are looked at while one may come.
Names(o) == IF Smooth THEN vis[o] \cup dur[o] ELSE vis[o]

\* An incarnation is at most one more than the writes, and what has a name was written.
CountersOK ==
    /\ \A k \in Keys : rec[k] <= 1 + spent.writes
    /\ \A o \in Objs : owner[o] <= 1 + spent.writes /\ (Names(o) # {} => Made(o))

\* What a journal says of the registry and of its components.
JournalOK(g) ==
    /\ \A o \in log[g].objs : o[1] = log[g].key /\ Made(o)
    /\ \A o, p \in log[g].objs : o[2] = p[2] => o = p
    /\ log[g].rev <= rev /\ log[g].gen <= gen
    /\ log[g].inc # 0 /\ rec[log[g].key] # 0 /\ SameAuthority(g) => rec[log[g].key] = log[g].inc
    /\ log[g].inc = 0 => \A o \in log[g].objs : Dead(o)
    /\ ~Referred(log[g].key)

\* Journals tell the truth of the registry: the record that is about to be removed is the
\* one that was planned, and what is deleted no record keeps.
AuthorityInv ==
    /\ CountersOK
    /\ \A g \in Begun : JournalOK(g)
    /\ job.pc = "remove" => Unchanged(job.g)
    /\ job.pc = "delete" => \A o \in log[job.g].objs : ~Live(o)

\* A name in a group is of a component that the group's journal lists, and two components
\* of one kind do not share an original name.
NameInv ==
    /\ \A o \in Objs : \A l \in Names(o) : l # Orig => l[1] \in Begun /\ o \in log[l[1]].objs
    /\ \A o, p \in Objs :
          o[1] = p[1] /\ o[2] = p[2] /\ Orig \in Names(o) /\ Orig \in Names(p) => o = p
    /\ job.pc # "none" => job.done \subseteq log[job.g].objs

\* Name l of component o is seen and not durable, or durable and not seen.
Differs(o, l) == (l \in vis[o]) # (l \in dur[o])

\* A difference between what is seen and what is durable is in a directory still to sync.
FluxInv ==
    /\ Len(todo) <= 2
    /\ Smooth => \A o \in Objs, l \in Locs :
          Differs(o, l) => \E i \in DOMAIN todo : InDir(o, l, todo[i])
    /\ Smooth => \A g \in Groups :
          jv[g].phase # jd[g].phase => \E i \in DOMAIN todo : todo[i] = Group(g)

\* Names from which recovery or a reader gets a complete component.
Solid(S) == \E l \in S : l[2] \in {"orig", "staged", "restoring"}

\* Names S are enough for component o.
Hold(S, o) == (vis[o] # {} => S # {}) /\ (Live(o) => Solid(S))

\* A component of a live record is there, complete, and no sync in progress takes it away.
SolidAt(o) ==
    /\ Live(o) \/ ~Made(o) => bits[o] = Full(o)
    /\ Live(o) => Solid(vis[o])
    /\ Smooth => Hold(dur[o], o) /\ (Len(todo) = 2 => Hold(SyncedNames(o, Head(todo)), o))

\* What is still to be staged has its original name.
Unstaged == job.pc \in {"journal", "stage"} => \A o \in log[job.g].objs \ job.done : Orig \in vis[o]

\* No live component is lost.
SolidInv == Unstaged /\ \A o \in Objs : SolidAt(o)

\* The step of a job agrees with the phase of its journal.
PhaseOK ==
    /\ job.pc \in {"journal", "sweep"} => jv[job.g].phase = "none"
    /\ job.pc \in {"stage", "commit"} => jv[job.g].phase = "precommit"
    /\ job.pc = "restore" => jv[job.g].phase \in {"none", "precommit"}
    /\ job.pc = "remove" => jv[job.g].phase = "committed"
    /\ job.pc \in {"delete", "finish"} => jv[job.g].phase \in {"committed", "final"}

\* Component o has no name in group g, nor may one come back.
Outside(o, g) == \A l \in Names(o) : l[1] # g

\* The directory of a new group is durable before something moves into it.
Opened == job.pc \in {"journal", "stage"} => up[job.g] /\ (Smooth => updur[job.g])

\* A name in a group has its directory, a deletion name also its commitment.
NamesOK ==
    \A o \in Objs : \A l \in Names(o) : l # Orig =>
        /\ up[l[1]] /\ (Smooth => updur[l[1]])
        /\ l[2] = "deletion" => jv[l[1]].phase = "committed" /\ (Smooth => jd[l[1]].phase = "committed")

\* A group whose journal is dropped is empty.
EmptyOK ==
    job.pc \in {"close", "sweep"} \/ (job.pc \in {"delete", "finish"} /\ jv[job.g].phase = "final") =>
        \A o \in Objs : Outside(o, job.g)

\* What a rollback has restored has left the group.
RestoredOK == job.pc = "restore" => \A o \in job.done : Outside(o, job.g)

\* Directories and journals of groups are there as long as they are needed.
GroupInv == PhaseOK /\ Opened /\ NamesOK /\ EmptyOK /\ RestoredOK

\* The inductive invariant.
RetentionInv == TypeInv /\ AuthorityInv /\ NameInv /\ FluxInv /\ SolidInv /\ GroupInv

-----------------------------------------------------------------------------
(* Constants and names *)

\* Groups are numbered from 1; 0 is no group.
LEMMA GroupFacts ==
    /\ Cardinality(Groups) \in Nat /\ Groups = 1..Cardinality(Groups) /\ Groups \subseteq Nat \ {0}
    /\ 0 \notin Groups
BY RetentionAssumption, FS_CardinalityType

\* The bounds of a scenario, and what is spent of them, are numbers.
LEMMA BoundFacts ==
    ASSUME BoundsOK
    PROVE  /\ limits.groups \in 0..Cardinality(Groups) /\ limits.batches \in Nat \ {0}
           /\ limits.tasks \subseteq Keys
           /\ limits.kills \in Nat /\ limits.powers \in Nat /\ limits.faults \in Nat /\ limits.writes \in Nat
           /\ spent.kills \in Nat /\ spent.powers \in Nat /\ spent.faults \in Nat /\ spent.writes \in Nat
BY RetentionAssumption DEF BoundsOK, Spendings

\* The groups made so far are groups, and the next one, if the bound allows it, is new.
LEMMA BegunFacts ==
    ASSUME TypeInv
    PROVE  /\ Begun \subseteq Groups /\ made \in Nat
           /\ made < limits.groups => made + 1 \in Groups /\ made + 1 \notin Begun /\ made + 1 \in 0..limits.groups
BY GroupFacts, BoundFacts DEF TypeInv, GroupsOK, Begun

\* Which directory holds which name of a component.
LEMMA NameFacts ==
    ASSUME NEW g \in Groups, NEW o \in Objs
    PROVE  /\ \A r \in Roles : At(g, r) \in Locs /\ At(g, r) # Orig /\ At(g, r)[1] = g /\ At(g, r)[2] = r
           /\ Orig \in Locs /\ Orig[2] = "orig" /\ Orig[1] = 0
           /\ Parent(o) \in Dirs /\ Group(g) \in Dirs /\ Quarantine \in Dirs
           /\ \A l \in Locs : InDir(o, l, Parent(o)) <=> l = Orig
           /\ \A l \in Locs : InDir(o, l, Group(g)) <=> l[1] = g
           /\ \A l \in Locs : ~InDir(o, l, Quarantine)
           /\ Group(g) # Parent(o) /\ Group(g) # Quarantine
<1>1. o[2] \in Comps /\ g # 0
  BY GroupFacts DEF Objs
<1>2. /\ \A r \in Roles : At(g, r) \in Locs /\ At(g, r) # Orig /\ At(g, r)[1] = g /\ At(g, r)[2] = r
      /\ Orig \in Locs /\ Orig[2] = "orig" /\ Orig[1] = 0
  BY <1>1 DEF At, Orig, Locs
<1>3. Parent(o) \in Dirs /\ Group(g) \in Dirs /\ Quarantine \in Dirs
  BY <1>1 DEF Parent, Dirs, Group, Quarantine
<1>4. /\ Parent(o)[1] = 0 /\ Group(g)[1] = g /\ Quarantine[1] = 0
      /\ Group(g) # Parent(o) /\ Group(g) # Quarantine
  BY <1>1 DEF Parent, Group, Quarantine
<1>5. Quarantine # Parent(o)
  BY <1>1 DEF Parent, Quarantine, Comps
<1>6. QED
  BY <1>1, <1>2, <1>3, <1>4, <1>5 DEF InDir

\* A name is the original one or one in a group.
LEMMA LocFacts ==
    ASSUME NEW l \in Locs
    PROVE  /\ l # Orig => l[1] \in Groups /\ l[2] \in Roles /\ l = At(l[1], l[2])
           /\ l[1] \in Nat /\ (l[1] = 0 <=> l = Orig) /\ (l[2] = "orig" <=> l = Orig)
BY GroupFacts DEF Locs, Orig, Roles, At

\* A job works on a group that was made, with its journal.
LEMMA JobFacts ==
    ASSUME TypeInv, job.pc # "none"
    PROVE  /\ job.g \in Begun /\ job.g \in Groups /\ job.g # 0 /\ mode \in Running
           /\ log[job.g] \in Logs /\ jv[job.g] \in Journals
           /\ job.done \subseteq Objs /\ log[job.g].objs \subseteq Objs
BY BegunFacts, GroupFacts DEF TypeInv, JobOK, Jobs, GroupsOK, Logs, ProcessOK

\* A group has at most one artifact directory and one event log, so that there is a first one.
LEMMA OrderFacts ==
    ASSUME NEW S, S \subseteq Objs, S # {}, \A o, p \in S : o[2] = p[2] => o = p
    PROVE  FirstOf(S) \in S /\ LastOf(S) \in S
<1>1. \A o \in S : o[2] \in Comps
  BY DEF Objs
<1>2. \E o \in S : \A p \in S \ {o} : Before(o, p)
  BY <1>1 DEF Before, Comps
<1>3. \E o \in S : \A p \in S \ {o} : Before(p, o)
  BY <1>1 DEF Before, Comps
<1>4. QED
  BY <1>2, <1>3 DEF FirstOf, LastOf
-----------------------------------------------------------------------------
(* What the steps of a job do *)

\* Syncing a directory makes names durable that are seen, and forgets others.
LEMMA SyncedType ==
    ASSUME TypeInv, NEW o \in Objs, NEW d
    PROVE  SyncedNames(o, d) \subseteq vis[o] \cup dur[o] /\ SyncedNames(o, d) \subseteq Locs
BY DEF TypeInv, FilesOK, SyncedNames

\* Without a sync to make, what is seen is durable.
LEMMA Still ==
    ASSUME TypeInv, FluxInv, Smooth, todo = <<>>
    PROVE  /\ vis = dur /\ \A o \in Objs : \A d : SyncedNames(o, d) = vis[o]
           /\ \A g \in Groups : jv[g].phase = jd[g].phase
<1>1. DOMAIN todo = {}
  OBVIOUS
<1>2. \A o \in Objs, l \in Locs : (l \in vis[o]) = (l \in dur[o])
  BY <1>1 DEF FluxInv, Differs
<1>3. \A o \in Objs : vis[o] = dur[o]
  BY <1>2 DEF TypeInv, FilesOK
<1>4. vis = dur
  BY <1>3 DEF TypeInv, FilesOK
<1>5. ASSUME NEW o \in Objs, NEW d PROVE SyncedNames(o, d) = vis[o]
  BY <1>4 DEF SyncedNames
<1>6. QED
  BY <1>1, <1>4, <1>5 DEF FluxInv

\* A rename of component o, a partial deletion of it, and what both leave alone.
Renames(o, from, to) ==
    /\ vis' = [vis EXCEPT ![o] = (@ \ {from}) \cup {to}]
    /\ UNCHANGED <<bits, owner>>
    /\ dur' \in [Objs -> SUBSET Locs] /\ (Smooth => UNCHANGED dur)

Shrinks(o) ==
    /\ bits' = [bits EXCEPT ![o] = bits'[o]] /\ bits'[o] \in 0..limits.batches
    /\ UNCHANGED <<dur, owner>>

Elsewhere == <<mode, pass, recovering, plan, spent>>

\* stage_component moves the next component from its original name into the group.
LEMMA StageEffect ==
    ASSUME TypeInv, AuthorityInv, NameInv, Stage
    PROVE  /\ Ready("stage") /\ UNCHANGED <<registry, groups, Elsewhere, confl>>
           /\ \/ job' = [job EXCEPT !.pc = "commit"] /\ UNCHANGED <<files, todo>>
              \/ \E o \in log[job.g].objs \ job.done :
                    /\ Renames(o, Orig, At(job.g, "staged")) /\ todo' = <<Group(job.g), Parent(o)>>
                    /\ job' = [job EXCEPT !.done = @ \cup {o}]
<1>1. Ready("stage") /\ UNCHANGED <<registry, groups, Elsewhere, confl>>
  BY DEF Stage, Elsewhere
<1>2. job.pc # "none" /\ job.g \in Begun /\ log[job.g].objs \subseteq Objs
  BY <1>1, JobFacts DEF Ready
<1> DEFINE left == log[job.g].objs \ job.done
<1>3. CASE left = {}
  BY <1>1, <1>3 DEF Stage
<1>4. CASE left # {}
  <2>1. \A o, p \in left : o[2] = p[2] => o = p
    BY <1>2 DEF AuthorityInv, JournalOK
  <2>2. FirstOf(left) \in left
    BY <1>2, <1>4, <2>1, OrderFacts
  <2>3. /\ Move(FirstOf(left), Orig, At(job.g, "staged"), StageOrder(job.g, FirstOf(left)))
        /\ job' = [job EXCEPT !.done = @ \cup {FirstOf(left)}]
    BY <1>4 DEF Stage
  <2> HIDE DEF left
  <2>4. Renames(FirstOf(left), Orig, At(job.g, "staged"))
    BY <2>3 DEF Move, Renames, TypeInv, FilesOK
  <2>5. FirstOf(left) \in log[job.g].objs \ job.done
    BY <2>2 DEF left
  <2>6. QED
    BY <1>1, <2>3, <2>4, <2>5 DEF Move, StageOrder
<1>5. QED
  BY <1>3, <1>4

\* delete_committed_group renames a component before it removes it, entry by entry,
\* and drops the journal of an empty group.
LEMMA DeleteEffect ==
    ASSUME TypeInv, AuthorityInv, NameInv, FluxInv, Delete
    PROVE  /\ Ready("delete") /\ UNCHANGED <<registry, up, updur, jd, log, made, Elsewhere, confl>>
           /\ \/ InGroup(job.g) = {} /\ DropJournal
              \/ \E o \in log[job.g].objs :
                    \/ /\ At(job.g, "deletion") \in vis[o] /\ Renames(o, At(job.g, "staged"), At(job.g, "trash"))
                       /\ SyncGroup /\ UNCHANGED <<job, jv>>
                    \/ /\ At(job.g, "staged") \in vis[o] /\ Renames(o, At(job.g, "staged"), At(job.g, "deletion"))
                       /\ SyncGroup /\ UNCHANGED <<job, jv>>
                    \/ /\ \E l \in {At(job.g, "trash"), At(job.g, "deletion")} : vis' = [vis EXCEPT ![o] = @ \ {l}]
                       /\ Shrinks(o) /\ SyncGroup /\ UNCHANGED <<job, jv>>
                    \/ Shrinks(o) /\ EndJob /\ UNCHANGED <<vis, todo, jv>>
<1>1. Ready("delete") /\ UNCHANGED <<registry, up, updur, jd, log, made, Elsewhere, confl>>
  BY DEF Delete, Elsewhere
<1>2. job.pc # "none" /\ job.g \in Begun /\ job.g \in Groups /\ log[job.g].objs \subseteq Objs
  BY <1>1, JobFacts DEF Ready
<1> DEFINE left == InGroup(job.g)
           o == FirstOf(left)
<1>3. left \subseteq log[job.g].objs
  <2>1. ASSUME NEW p \in left PROVE p \in log[job.g].objs
    <3>1. p \in Objs /\ \E l \in vis[p] : l[1] = job.g
      BY DEF InGroup
    <3>2. PICK l \in vis[p] : l[1] = job.g
      BY <3>1
    <3>3. l \in Names(p) /\ l # Orig
      BY <1>2, <3>2, GroupFacts DEF Names, Orig
    <3>4. QED
      BY <3>1, <3>2, <3>3 DEF NameInv
  <2>2. QED
    BY <2>1
<1>4. CASE left = {}
  BY <1>1, <1>4 DEF Delete
<1>5. CASE left # {}
  <2>1. \A p, q \in left : p[2] = q[2] => p = q
    BY <1>2, <1>3 DEF AuthorityInv, JournalOK
  <2>2. o \in left
    BY <1>2, <1>3, <1>5, <2>1, OrderFacts
  <2>3. o \in log[job.g].objs /\ o \in Objs
    BY <1>2, <1>3, <2>2
  <2>4. \/ DropDuplicate(o)
        \/ At(job.g, "trash") \in vis[o] /\ Unlink(o, At(job.g, "trash")) /\ UNCHANGED <<bits, jv>>
        \/ At(job.g, "trash") \notin vis[o] /\ Isolate(o)
        \/ DeleteBatch(o)
    BY <1>5 DEF Delete
  <2> HIDE DEF left, o
  <2>5. CASE DropDuplicate(o)
    <3>1. dur' \in [Objs -> SUBSET Locs]
      BY <2>3, <2>5, SyncedType DEF DropDuplicate, TypeInv, FilesOK
    <3>2. Smooth => UNCHANGED dur
      BY <1>1, <2>3, <2>5, Still DEF DropDuplicate, TypeInv, FilesOK, Ready
    <3>3. QED
      BY <1>1, <2>3, <2>5, <3>1, <3>2 DEF DropDuplicate, Renames
  <2>6. CASE At(job.g, "trash") \in vis[o] /\ Unlink(o, At(job.g, "trash")) /\ UNCHANGED <<bits, jv>>
    <3>1. Shrinks(o)
      BY <2>3, <2>6 DEF Unlink, Shrinks, TypeInv, FilesOK
    <3>2. QED
      BY <1>1, <2>3, <2>6, <3>1 DEF Unlink
  <2>7. CASE At(job.g, "trash") \notin vis[o] /\ Isolate(o)
    BY <1>1, <2>3, <2>7 DEF Isolate, Move, Renames, SyncGroup, TypeInv, FilesOK
  <2>8. CASE DeleteBatch(o)
    <3>1. /\ bits[o] \in 0..limits.batches /\ limits.batches \in Nat
          /\ bits' = [bits EXCEPT ![o] = IF bits[o] = 0 \/ Cardinality(vis[o]) > 1 THEN bits[o] ELSE bits[o] - 1]
      BY <2>3, <2>8, BoundFacts DEF DeleteBatch, TypeInv, FilesOK
    <3>2. bits'[o] = bits[o] \/ (bits[o] # 0 /\ bits'[o] = bits[o] - 1)
      BY <2>3, <3>1 DEF TypeInv, FilesOK
    <3>3. bits'[o] \in 0..limits.batches /\ bits' = [bits EXCEPT ![o] = bits'[o]]
      <4>1. bits'[o] \in 0..limits.batches
        BY <3>1, <3>2
      <4>2. bits' = [bits EXCEPT ![o] = bits'[o]]
        BY <2>3, <3>1 DEF TypeInv, FilesOK
      <4>3. QED
        BY <4>1, <4>2
    <3>4. CASE bits[o] <= 1
      BY <1>1, <2>3, <2>8, <3>3, <3>4 DEF DeleteBatch, Unlink, Shrinks
    <3>5. CASE ~(bits[o] <= 1)
      BY <1>1, <2>3, <2>8, <3>3, <3>5 DEF DeleteBatch, Shrinks
    <3>6. QED
      BY <3>4, <3>5
  <2>9. QED
    BY <2>4, <2>5, <2>6, <2>7, <2>8
<1>6. QED
  BY <1>4, <1>5

\* The four steps by which restore_component_from_group brings a component back, and what
\* it does when there is nothing to bring back or the original name is taken.
LEMMA RestoreEffect ==
    ASSUME TypeInv, AuthorityInv, NameInv, FluxInv, Restore
    PROVE  /\ Ready("restore") /\ UNCHANGED <<registry, up, updur, jd, log, made, Elsewhere>>
           /\ \/ ClearTransients
              \/ Transients(job.g) = {} /\ ToRestore = {} /\ jv[job.g].extra # "temp" /\ RemoveGroup
              \/ Transients(job.g) = {} /\ FailJob("state") /\ UNCHANGED <<jv, files, todo>>
              \/ /\ Transients(job.g) = {} /\ jv[job.g].phase = "precommit" /\ UNCHANGED <<jv, confl, bits, owner>>
                 /\ \E o \in log[job.g].objs \ job.done :
                    \/ /\ ~Staged(o) /\ ~Restoring(o) /\ UNCHANGED <<vis, todo>>
                       /\ dur' \in [Objs -> SUBSET Locs] /\ (Smooth => UNCHANGED dur)
                       /\ job' = [job EXCEPT !.done = @ \cup {o}]
                    \/ /\ \E r \in {"staged", "restoring"} :
                             /\ Orig \in vis[o] /\ At(job.g, r) \in vis[o]
                             /\ Renames(o, At(job.g, r), At(job.g, "trash"))
                       /\ SyncGroup /\ UNCHANGED job
                    \/ /\ Staged(o) /\ Renames(o, At(job.g, "staged"), At(job.g, "restoring"))
                       /\ SyncGroup /\ UNCHANGED job
                    \/ /\ ~Taken(o) /\ Restoring(o) /\ Renames(o, At(job.g, "restoring"), Orig)
                       /\ todo' = <<Parent(o), Group(job.g)>> /\ UNCHANGED job
<1>1. Ready("restore") /\ UNCHANGED <<registry, up, updur, jd, log, made, Elsewhere>>
  BY DEF Restore, Elsewhere
<1>2. job.pc # "none" /\ job.g \in Begun /\ job.g \in Groups /\ log[job.g].objs \subseteq Objs
  BY <1>1, JobFacts DEF Ready
<1> DEFINE o == LastOf(ToRestore)
<1>3. CASE ClearTransients
  BY <1>1, <1>3
<1>4. CASE jv[job.g].extra # "temp" /\ Transients(job.g) = {} /\ ToRestore = {} /\ RemoveGroup
  BY <1>1, <1>4
<1>5. CASE /\ Transients(job.g) = {} /\ ToRestore # {} /\ jv[job.g].phase = "precommit"
           /\ RestoreComponent(o) /\ UNCHANGED jv
  <2>1. ToRestore \subseteq log[job.g].objs \ job.done
    BY DEF ToRestore
  <2>2. \A p, q \in ToRestore : p[2] = q[2] => p = q
    BY <1>2, <2>1 DEF AuthorityInv, JournalOK
  <2>3. o \in ToRestore
    BY <1>2, <1>5, <2>1, <2>2, OrderFacts
  <2>4. o \in log[job.g].objs \ job.done /\ o \in Objs
    BY <1>2, <2>1, <2>3
  <2> HIDE DEF o
  <2>5. /\ [dur EXCEPT ![o] = SyncedNames(o, Parent(o))] \in [Objs -> SUBSET Locs]
        /\ Smooth => [dur EXCEPT ![o] = SyncedNames(o, Parent(o))] = dur
    <3>1. [dur EXCEPT ![o] = SyncedNames(o, Parent(o))] \in [Objs -> SUBSET Locs]
      BY <2>4, SyncedType DEF TypeInv, FilesOK
    <3>2. Smooth => [dur EXCEPT ![o] = SyncedNames(o, Parent(o))] = dur
      BY <1>1, <2>4, Still DEF TypeInv, FilesOK, Ready
    <3>3. QED
      BY <3>1, <3>2
  <2>6. CASE /\ Orig \in vis[o] /\ ~Staged(o) /\ ~Restoring(o)
             /\ dur' = [dur EXCEPT ![o] = SyncedNames(o, Parent(o))]
             /\ job' = [job EXCEPT !.done = @ \cup {o}]
             /\ UNCHANGED <<vis, bits, owner, todo, confl>>
    BY <1>1, <1>5, <2>4, <2>5, <2>6
  <2>7. CASE FailJob("state") /\ UNCHANGED <<files, todo>>
    BY <1>1, <1>5, <2>7
  <2>8. CASE /\ Orig \in vis[o] /\ (Staged(o) \/ Restoring(o)) /\ ~IsDirectory(o)
             /\ \E r \in {"staged", "restoring"} : At(job.g, r) \in vis[o] /\
                   vis' = [vis EXCEPT ![o] = (@ \ {At(job.g, r)}) \cup {At(job.g, "trash")}]
             /\ dur' = [dur EXCEPT ![o] = SyncedNames(o, Parent(o))]
             /\ SyncGroup /\ UNCHANGED <<bits, owner, job, confl>>
    <3>1. PICK r \in {"staged", "restoring"} : At(job.g, r) \in vis[o] /\
                   vis' = [vis EXCEPT ![o] = (@ \ {At(job.g, r)}) \cup {At(job.g, "trash")}]
      BY <2>8
    <3>2. Renames(o, At(job.g, r), At(job.g, "trash"))
      BY <2>5, <2>8, <3>1 DEF Renames
    <3>3. QED
      BY <1>1, <1>5, <2>4, <2>8, <3>1, <3>2
  <2>9. CASE ~Taken(o) /\ Staged(o) /\ ~Restoring(o)
             /\ Move(o, At(job.g, "staged"), At(job.g, "restoring"), <<Group(job.g)>>)
             /\ UNCHANGED <<job, confl>>
    BY <1>1, <1>5, <2>4, <2>9 DEF Move, Renames, SyncGroup, TypeInv, FilesOK
  <2>10. CASE ~Taken(o) /\ Restoring(o)
              /\ Move(o, At(job.g, "restoring"), Orig, RestoreOrder(job.g, o))
              /\ UNCHANGED <<job, confl>>
    BY <1>1, <1>5, <2>4, <2>10 DEF Move, Renames, RestoreOrder, TypeInv, FilesOK
  <2>11. Orig \in vis[o] /\ (Staged(o) \/ Restoring(o)) /\ ~IsDirectory(o) /\ RestoreComponent(o) =>
            \/ /\ \E r \in {"staged", "restoring"} : At(job.g, r) \in vis[o] /\
                   vis' = [vis EXCEPT ![o] = (@ \ {At(job.g, r)}) \cup {At(job.g, "trash")}]
               /\ dur' = [dur EXCEPT ![o] = SyncedNames(o, Parent(o))]
               /\ SyncGroup /\ UNCHANGED <<bits, owner, job, confl>>
            \/ /\ ~Taken(o) /\ Staged(o) /\ ~Restoring(o)
               /\ Move(o, At(job.g, "staged"), At(job.g, "restoring"), <<Group(job.g)>>)
               /\ UNCHANGED <<job, confl>>
            \/ /\ ~Taken(o) /\ Restoring(o)
               /\ Move(o, At(job.g, "restoring"), Orig, RestoreOrder(job.g, o))
               /\ UNCHANGED <<job, confl>>
    BY DEF RestoreComponent, Staged, Restoring
  <2>12. QED
    BY <1>5, <2>6, <2>7, <2>8, <2>9, <2>10, <2>11 DEF RestoreComponent
<1>6. CASE Transients(job.g) = {} /\ FailJob("state") /\ UNCHANGED <<files, jv, todo>>
  BY <1>1, <1>6
<1>7. QED
  BY <1>3, <1>4, <1>5, <1>6 DEF Restore
-----------------------------------------------------------------------------
(* Types *)

\* Types of what a step leaves alone.
LEMMA SameTypes ==
    ASSUME TypeInv, UNCHANGED limits
    PROVE  /\ UNCHANGED files => FilesOK'
           /\ UNCHANGED registry => RegistryOK'
           /\ UNCHANGED groups => GroupsOK' /\ FreshOK' /\ Up' = Up /\ Begun' = Begun
           /\ UNCHANGED <<job, made>> => JobOK' /\ UNCHANGED <<job, made>>
           /\ UNCHANGED spent => BoundsOK'
BY DEF TypeInv, FilesOK, files, RegistryOK, registry, GroupsOK, FreshOK, groups, Up, Begun, JobOK, BoundsOK

\* No job is a job.
LEMMA NoJobType == NoJob \in Jobs /\ NoJob.pc = "none"
BY DEF NoJob, Jobs, Pcs

\* A job that goes on, with another step or one more component done.
LEMMA JobTypes ==
    ASSUME TypeInv, job.pc # "none", NEW p \in Pcs \ {"none"}, NEW S \in SUBSET Objs
    PROVE  /\ [job EXCEPT !.pc = p] \in Jobs /\ [job EXCEPT !.pc = p].pc = p
           /\ [job EXCEPT !.pc = p].g = job.g /\ [job EXCEPT !.pc = p].done = job.done
           /\ [job EXCEPT !.done = @ \cup S] \in Jobs /\ [job EXCEPT !.done = @ \cup S].pc = job.pc
           /\ [job EXCEPT !.done = @ \cup S].g = job.g /\ [job EXCEPT !.done = @ \cup S].done = job.done \cup S
           /\ Rollback(job) \in Jobs /\ Rollback(job).pc = "restore" /\ Rollback(job).g = job.g
           /\ Rollback(job).done = {}
BY DEF TypeInv, JobOK, Jobs, Rollback, Pcs

\* A job of a group that was made, or none.
LEMMA NextJobOK ==
    ASSUME UNCHANGED made, job' \in Jobs, job' = NoJob \/ (job'.pc # "none" /\ job'.g \in Begun)
    PROVE  JobOK'
BY NoJobType DEF JobOK, Begun

\* The same for the job after a step.
LEMMA JobMoves ==
    ASSUME TypeInv, job.pc # "none", UNCHANGED made
    PROVE  /\ \A p \in Pcs \ {"none"} : job' = [job EXCEPT !.pc = p] => JobOK' /\ job'.pc = p /\ job'.g = job.g
           /\ \A o \in Objs : job' = [job EXCEPT !.done = @ \cup {o}] =>
                 JobOK' /\ job'.pc = job.pc /\ job'.g = job.g /\ job'.done = job.done \cup {o}
           /\ job' = Rollback(job) => JobOK' /\ job'.pc = "restore" /\ job'.g = job.g /\ job'.done = {}
           /\ EndJob => JobOK' /\ job'.pc = "none"
<1>1. job.g \in Begun
  BY DEF TypeInv, JobOK
<1>2. ASSUME NEW p \in Pcs \ {"none"}, job' = [job EXCEPT !.pc = p] PROVE JobOK' /\ job'.pc = p /\ job'.g = job.g
  BY <1>1, <1>2, JobTypes, NextJobOK
<1>3. ASSUME NEW o \in Objs, job' = [job EXCEPT !.done = @ \cup {o}]
      PROVE  JobOK' /\ job'.pc = job.pc /\ job'.g = job.g /\ job'.done = job.done \cup {o}
  <2>1. "restore" \in Pcs \ {"none"} /\ {o} \in SUBSET Objs
    BY DEF Pcs
  <2>2. QED
    BY <1>1, <1>3, <2>1, JobTypes, NextJobOK
<1>4. job' = Rollback(job) => JobOK' /\ job'.pc = "restore" /\ job'.g = job.g /\ job'.done = {}
  <2>1. "restore" \in Pcs \ {"none"} /\ {} \in SUBSET Objs
    BY DEF Pcs
  <2>2. QED
    BY <1>1, <2>1, JobTypes, NextJobOK
<1>5. EndJob => JobOK' /\ job'.pc = "none"
  BY NoJobType, NextJobOK DEF EndJob
<1>6. QED
  BY <1>2, <1>3, <1>4, <1>5

\* The remaining process state of a job step.
LEMMA JobProcess ==
    ASSUME TypeInv, job.pc # "none" \/ todo # <<>>, UNCHANGED <<limits, mode, pass, recovering, plan, made>>,
           todo' \in Seq(Dirs), confl' \subseteq Groups \X {"io", "state"}
    PROVE  ProcessOK'
BY DEF TypeInv, ProcessOK, Begun, Running

\* A group that cannot be recovered is noted as a conflict, and its job ends.
LEMMA ConflictType ==
    ASSUME TypeInv, job.pc # "none", NEW why \in {"io", "state"}, FailJob(why), UNCHANGED made
    PROVE  confl' \subseteq Groups \X {"io", "state"} /\ JobOK' /\ job'.pc = "none"
BY JobFacts, JobMoves DEF FailJob, TypeInv, ProcessOK

\* A step that writes only the journal of its own group.
LEMMA JournalTypes ==
    ASSUME TypeInv, job.pc # "none", UNCHANGED <<up, updur, jd, log, made, limits>>,
           jv' = [jv EXCEPT ![job.g] = jv'[job.g]], jv'[job.g] \in Journals
    PROVE  GroupsOK' /\ FreshOK' /\ Up' = Up
BY JobFacts DEF TypeInv, GroupsOK, FreshOK, Begun, Up

\* The journal record.
LEMMA JournalFacts ==
    ASSUME NEW p \in Phases, NEW x \in {"none", "temp", "tombstone"}
    PROVE  /\ [phase |-> p, extra |-> x] \in Journals
           /\ [phase |-> p, extra |-> x].phase = p /\ [phase |-> p, extra |-> x].extra = x
BY DEF Journals

\* The journal of the job in hand after it was written.
LEMMA SetsJournal ==
    ASSUME TypeInv, job.pc # "none", NEW p \in Phases, NEW x \in {"none", "temp", "tombstone"},
           JournalIs(p, x)
    PROVE  /\ jv' = [jv EXCEPT ![job.g] = jv'[job.g]] /\ jv'[job.g] \in Journals
           /\ jv'[job.g].phase = p
BY JobFacts, JournalFacts DEF JournalIs, TypeInv, GroupsOK

\* The journal of the job in hand when it was not written.
LEMMA SameJournal ==
    ASSUME TypeInv, job.pc # "none", UNCHANGED jv
    PROVE  jv' = [jv EXCEPT ![job.g] = jv'[job.g]] /\ jv'[job.g] \in Journals /\ jv'[job.g].phase = jv[job.g].phase
BY JobFacts DEF TypeInv, GroupsOK

\* A rename, a deletion and the removal of transient names keep the types of files.
LEMMA RenameTypes ==
    ASSUME TypeInv, UNCHANGED limits, NEW o \in Objs, NEW from, NEW to \in Locs, Renames(o, from, to)
    PROVE  FilesOK'
BY DEF TypeInv, FilesOK, Renames

\* A partial deletion keeps the types of files.
LEMMA ShrinkTypes ==
    ASSUME TypeInv, UNCHANGED limits, NEW o \in Objs, Shrinks(o),
           UNCHANGED vis \/ \E l : vis' = [vis EXCEPT ![o] = @ \ {l}]
    PROVE  FilesOK'
BY DEF TypeInv, FilesOK, Shrinks

\* The syncs that steps leave to make.
LEMMA TodoTypes ==
    ASSUME TypeInv, job.pc # "none", NEW o \in Objs
    PROVE  /\ SyncGroup => todo' \in Seq(Dirs)
           /\ <<Group(job.g), Parent(o)>> \in Seq(Dirs) /\ <<Parent(o), Group(job.g)>> \in Seq(Dirs)
           /\ <<Quarantine>> \in Seq(Dirs) /\ <<>> \in Seq(Dirs) /\ todo \in Seq(Dirs)
<1>1. Group(job.g) \in Dirs /\ Parent(o) \in Dirs /\ Quarantine \in Dirs
  BY JobFacts, NameFacts
<1>2. \A a, b \in Dirs : <<a, b>> \in Seq(Dirs) /\ <<a>> \in Seq(Dirs)
  OBVIOUS
<1>3. <<>> \in Seq(Dirs) /\ todo \in Seq(Dirs)
  BY DEF TypeInv, ProcessOK
<1>4. QED
  BY <1>1, <1>2, <1>3 DEF SyncGroup

\* There is some component.
LEMMA ObjExists == \E o \in Objs : TRUE
<1>1. PICK k \in Keys : TRUE
  BY RetentionAssumption
<1>2. <<k, "event", 1>> \in Objs
  BY <1>1, RetentionAssumption DEF Objs, Comps
<1>3. QED
  BY <1>2

\* The steps of a transaction and of recovery keep the types.
LEMMA TypeJobSteps ==
    ASSUME TypeInv, AuthorityInv, NameInv, FluxInv, UNCHANGED limits
    PROVE  /\ WriteTemp => TypeInv'
           /\ PersistJournal => TypeInv'
           /\ Stage => TypeInv'
           /\ MarkCommitted => TypeInv'
           /\ RemoveRecord => TypeInv'
           /\ Delete => TypeInv'
           /\ Close => TypeInv'
           /\ Restore => TypeInv'
           /\ Finish => TypeInv'
           /\ Sweep => TypeInv'
<1>1. CASE WriteTemp
  <2>1. job.pc # "none" /\ UNCHANGED <<files, registry, up, updur, jd, log, made, process, spent>>
    BY <1>1 DEF WriteTemp, Ready
  <2>2. jv' = [jv EXCEPT ![job.g] = jv'[job.g]] /\ jv'[job.g] \in Journals
    BY <1>1, <2>1, JobFacts DEF WriteTemp, TypeInv, GroupsOK, Journals
  <2>3. GroupsOK' /\ FreshOK' /\ Up' = Up
    BY <2>1, <2>2, JournalTypes
  <2>4. ProcessOK'
    BY <2>1, JobProcess DEF process, TypeInv, ProcessOK
  <2>5. QED
    BY <2>1, <2>3, <2>4, SameTypes DEF TypeInv, process
<1>2. CASE PersistJournal
  <2>1. job.pc # "none" /\ UNCHANGED <<files, registry, up, updur, jd, log, made, mode, pass, recovering, plan, confl, spent>>
    BY <1>2 DEF PersistJournal, Ready
  <2>2. JournalIs("precommit", "none")
    BY <1>2 DEF PersistJournal, JournalIs
  <2>3. jv' = [jv EXCEPT ![job.g] = jv'[job.g]] /\ jv'[job.g] \in Journals
    BY <2>1, <2>2, SetsJournal DEF Phases
  <2>4. GroupsOK' /\ FreshOK' /\ Up' = Up
    BY <2>1, <2>3, JournalTypes
  <2>5. JobOK'
    BY <1>2, <2>1, JobMoves DEF PersistJournal, Pcs
  <2>6. todo' \in Seq(Dirs)
    BY <1>2, <2>1, ObjExists, TodoTypes DEF PersistJournal, SyncGroup
  <2>7. ProcessOK'
    BY <2>1, <2>6, JobProcess DEF TypeInv, ProcessOK
  <2>8. QED
    BY <2>1, <2>4, <2>5, <2>7, SameTypes DEF TypeInv
<1>3. CASE Stage
  <2>1. Ready("stage") /\ UNCHANGED <<registry, groups, Elsewhere, confl>>
    BY <1>3, StageEffect
  <2>2. job.pc # "none" /\ UNCHANGED <<mode, pass, recovering, plan, made, spent>>
    BY <2>1 DEF Ready, Elsewhere, groups
  <2>3. CASE job' = [job EXCEPT !.pc = "commit"] /\ UNCHANGED <<files, todo>>
    <3>1. JobOK' /\ ProcessOK'
      BY <2>1, <2>2, <2>3, JobMoves, JobProcess DEF TypeInv, ProcessOK, Pcs
    <3>2. QED
      BY <2>1, <2>2, <2>3, <3>1, SameTypes DEF TypeInv
  <2>4. CASE \E o \in log[job.g].objs :
                    /\ Renames(o, Orig, At(job.g, "staged")) /\ todo' = <<Group(job.g), Parent(o)>>
                    /\ job' = [job EXCEPT !.done = @ \cup {o}]
    <3>1. PICK o \in log[job.g].objs :
                    /\ Renames(o, Orig, At(job.g, "staged")) /\ todo' = <<Group(job.g), Parent(o)>>
                    /\ job' = [job EXCEPT !.done = @ \cup {o}]
      BY <2>4
    <3>2. o \in Objs /\ At(job.g, "staged") \in Locs
      BY <2>2, JobFacts, NameFacts DEF Roles
    <3>3. FilesOK' /\ JobOK' /\ todo' \in Seq(Dirs)
      BY <2>2, <3>1, <3>2, RenameTypes, JobMoves, TodoTypes
    <3>4. ProcessOK'
      BY <2>1, <2>2, <3>3, JobProcess DEF TypeInv, ProcessOK
    <3>5. QED
      BY <2>1, <2>2, <3>3, <3>4, SameTypes DEF TypeInv
  <2>5. QED
    BY <1>3, <2>3, <2>4, StageEffect
<1>4. CASE MarkCommitted
  <2>1. job.pc # "none" /\ UNCHANGED <<files, registry, up, updur, jd, log, made, mode, pass, recovering, plan, confl, spent>>
    BY <1>4 DEF MarkCommitted, Ready
  <2>2. \/ job' = Rollback(job) /\ UNCHANGED <<jv, todo>>
        \/ JournalIs("committed", "none") /\ SyncGroup /\ job' = [job EXCEPT !.pc = "remove"]
    BY <1>4 DEF MarkCommitted, JournalIs, SyncGroup
  <2>3. jv' = [jv EXCEPT ![job.g] = jv'[job.g]] /\ jv'[job.g] \in Journals
    BY <2>1, <2>2, SetsJournal, SameJournal DEF Phases
  <2>4. GroupsOK' /\ FreshOK' /\ Up' = Up
    BY <2>1, <2>3, JournalTypes
  <2>5. JobOK'
    BY <2>1, <2>2, JobMoves DEF Pcs
  <2>6. todo' \in Seq(Dirs)
    BY <2>1, <2>2, ObjExists, TodoTypes
  <2>7. ProcessOK'
    BY <2>1, <2>6, JobProcess DEF TypeInv, ProcessOK
  <2>8. QED
    BY <2>1, <2>4, <2>5, <2>7, SameTypes DEF TypeInv
<1>5. CASE RemoveRecord
  <2>1. job.pc # "none" /\ UNCHANGED <<files, groups, mode, pass, recovering, plan, todo, confl, spent, made>>
    BY <1>5 DEF RemoveRecord, Ready, groups
  <2>2. RegistryOK'
    BY <1>5 DEF RemoveRecord, SaveWithout, TypeInv, RegistryOK
  <2>3. JobOK' /\ ProcessOK'
    BY <1>5, <2>1, JobMoves, JobProcess DEF RemoveRecord, Pcs, TypeInv, ProcessOK
  <2>4. QED
    BY <2>1, <2>2, <2>3, SameTypes DEF TypeInv
<1>6. CASE Close
  <2>1. job.pc # "none" /\ UNCHANGED <<files, registry, updur, jv, jd, log, made, mode, pass, recovering, plan, confl, spent>>
    BY <1>6 DEF Close, Ready
  <2>2. GroupsOK' /\ FreshOK'
    BY <1>6, <2>1, JobFacts DEF Close, TypeInv, GroupsOK, FreshOK, Begun
  <2>3. JobOK' /\ todo' \in Seq(Dirs)
    BY <1>6, <2>1, JobMoves, ObjExists, TodoTypes DEF Close
  <2>4. ProcessOK'
    BY <2>1, <2>3, JobProcess DEF TypeInv, ProcessOK
  <2>5. QED
    BY <2>1, <2>2, <2>3, <2>4, SameTypes DEF TypeInv
<1>7. CASE Finish
  <2>1. job.pc # "none" /\ UNCHANGED <<files, groups, mode, pass, recovering, plan, todo, spent, made>>
    BY <1>7 DEF Finish, Ready, groups
  <2>2. RegistryOK'
    BY <1>7 DEF Finish, SaveWithout, TypeInv, RegistryOK, registry
  <2>3. JobOK' /\ confl' \subseteq Groups \X {"io", "state"}
    <3>1. (job' = [job EXCEPT !.pc = "delete"] /\ UNCHANGED confl) \/ FailJob("state")
      BY <1>7 DEF Finish
    <3>2. QED
      BY <2>1, <3>1, JobMoves, ConflictType DEF Pcs, TypeInv, ProcessOK
  <2>4. ProcessOK'
    BY <2>1, <2>3, JobProcess DEF TypeInv, ProcessOK
  <2>5. QED
    BY <2>1, <2>2, <2>3, <2>4, SameTypes DEF TypeInv
<1>8. CASE Delete
  <2>1. /\ Ready("delete") /\ UNCHANGED <<registry, up, updur, jd, log, made, Elsewhere, confl>>
    BY <1>8, DeleteEffect
  <2>2. job.pc # "none" /\ UNCHANGED <<mode, pass, recovering, plan, made, spent>>
    BY <2>1 DEF Ready, Elsewhere
  <2>3. /\ GroupsOK' /\ FreshOK'
        /\ FilesOK' /\ JobOK' /\ todo' \in Seq(Dirs)
    <3>1. CASE DropJournal
      <4>1. JournalIs("final", "none") \/ JournalIs("none", "none")
        BY <3>1 DEF DropJournal
      <4>2. GroupsOK' /\ FreshOK'
        BY <2>1, <2>2, <4>1, SetsJournal, JournalTypes DEF Phases
      <4>3. job' = job \/ job' = [job EXCEPT !.pc = "close"]
        BY <3>1 DEF DropJournal
      <4>4. JobOK'
        BY <2>1, <2>2, <4>3, JobMoves, SameTypes DEF Pcs
      <4>5. FilesOK' /\ todo' \in Seq(Dirs)
        BY <2>2, <3>1, SameTypes, ObjExists, TodoTypes DEF DropJournal
      <4>6. QED
        BY <4>2, <4>4, <4>5
    <3>2. ASSUME NEW o \in log[job.g].objs,
                    \/ /\ At(job.g, "deletion") \in vis[o] /\ Renames(o, At(job.g, "staged"), At(job.g, "trash"))
                       /\ SyncGroup /\ UNCHANGED <<job, jv>>
                    \/ /\ At(job.g, "staged") \in vis[o] /\ Renames(o, At(job.g, "staged"), At(job.g, "deletion"))
                       /\ SyncGroup /\ UNCHANGED <<job, jv>>
                    \/ /\ \E l \in {At(job.g, "trash"), At(job.g, "deletion")} : vis' = [vis EXCEPT ![o] = @ \ {l}]
                       /\ Shrinks(o) /\ SyncGroup /\ UNCHANGED <<job, jv>>
                    \/ Shrinks(o) /\ EndJob /\ UNCHANGED <<vis, todo, jv>>
          PROVE  GroupsOK' /\ FreshOK' /\ FilesOK' /\ JobOK' /\ todo' \in Seq(Dirs)
      <4>1. o \in Objs /\ At(job.g, "trash") \in Locs /\ At(job.g, "deletion") \in Locs
        BY <2>2, JobFacts, NameFacts DEF Roles
      <4>2. GroupsOK' /\ FreshOK'
        BY <2>1, <2>2, <3>2, SameJournal, JournalTypes
      <4>3. FilesOK'
        BY <3>2, <4>1, RenameTypes, ShrinkTypes
      <4>4. JobOK' /\ todo' \in Seq(Dirs)
        BY <2>2, <3>2, <4>1, JobMoves, TodoTypes, SameTypes
      <4>5. QED
        BY <4>2, <4>3, <4>4
    <3>3. QED
      BY <1>8, <3>1, <3>2, DeleteEffect
  <2>4. ProcessOK'
    BY <2>1, <2>2, <2>3, JobProcess DEF TypeInv, ProcessOK
  <2>5. QED
    BY <2>1, <2>2, <2>3, <2>4, SameTypes DEF TypeInv
<1>9. CASE Restore
  <2>1. /\ Ready("restore") /\ UNCHANGED <<registry, up, updur, jd, log, made, Elsewhere>>
    BY <1>9, RestoreEffect
  <2>2. job.pc # "none" /\ UNCHANGED <<mode, pass, recovering, plan, made, spent>> /\ confl \subseteq Groups \X {"io", "state"}
    BY <2>1 DEF Ready, Elsewhere, TypeInv, ProcessOK
  <2> DEFINE P == GroupsOK' /\ FreshOK' /\ FilesOK' /\ JobOK' /\ todo' \in Seq(Dirs) /\ confl' \subseteq Groups \X {"io", "state"}
  <2>3. ASSUME ClearTransients PROVE P
    <3>1. jv[job.g].phase \in Phases
      BY <2>2, JobFacts DEF Journals
    <3>2. GroupsOK' /\ FreshOK'
      BY <2>1, <2>2, <2>3, <3>1, SetsJournal, JournalTypes DEF ClearTransients
    <3>3. FilesOK'
      BY <2>3 DEF ClearTransients, TypeInv, FilesOK
    <3>4. JobOK' /\ todo' \in Seq(Dirs) /\ UNCHANGED confl
      BY <2>2, <2>3, SameTypes, ObjExists, TodoTypes DEF ClearTransients
    <3>5. QED
      BY <2>2, <3>2, <3>3, <3>4
  <2>4. ASSUME RemoveGroup PROVE P
    <3>1. /\ UNCHANGED <<files, confl>>
          /\ \/ JournalIs("none", "tombstone") /\ SyncGroup /\ UNCHANGED job
             \/ JournalIs("none", "none") /\ SyncGroup /\ UNCHANGED job
             \/ job' = [job EXCEPT !.pc = "close"] /\ UNCHANGED <<jv, todo>>
      BY <2>4 DEF RemoveGroup
    <3>2. GroupsOK' /\ FreshOK'
      BY <2>1, <2>2, <3>1, SetsJournal, SameJournal, JournalTypes DEF Phases
    <3>3. FilesOK' /\ JobOK' /\ todo' \in Seq(Dirs)
      BY <2>2, <3>1, SameTypes, JobMoves, ObjExists, TodoTypes DEF Pcs
    <3>4. QED
      BY <2>2, <3>1, <3>2, <3>3
  <2>5. ASSUME FailJob("state") /\ UNCHANGED <<files, todo, jv>> PROVE P
    <3>1. GroupsOK' /\ FreshOK'
      BY <2>1, <2>2, <2>5, SameJournal, JournalTypes
    <3>2. FilesOK' /\ todo' \in Seq(Dirs)
      BY <2>2, <2>5, SameTypes, ObjExists, TodoTypes
    <3>3. JobOK' /\ confl' \subseteq Groups \X {"io", "state"}
      BY <2>2, <2>5, ConflictType
    <3>4. QED
      BY <3>1, <3>2, <3>3
  <2>6. ASSUME NEW o \in log[job.g].objs \ job.done, UNCHANGED <<jv, confl, bits, owner>>,
                    \/ /\ ~Staged(o) /\ ~Restoring(o) /\ UNCHANGED <<vis, todo>>
                       /\ dur' \in [Objs -> SUBSET Locs] /\ (Smooth => UNCHANGED dur)
                       /\ job' = [job EXCEPT !.done = @ \cup {o}]
                    \/ /\ \E r \in {"staged", "restoring"} :
                             Orig \in vis[o] /\ Renames(o, At(job.g, r), At(job.g, "trash"))
                       /\ SyncGroup /\ UNCHANGED job
                    \/ /\ Renames(o, At(job.g, "staged"), At(job.g, "restoring"))
                       /\ SyncGroup /\ UNCHANGED job
                    \/ /\ ~Taken(o) /\ Renames(o, At(job.g, "restoring"), Orig)
                       /\ todo' = <<Parent(o), Group(job.g)>> /\ UNCHANGED job
        PROVE  P
    <3>1. o \in Objs /\ At(job.g, "trash") \in Locs /\ At(job.g, "restoring") \in Locs /\ Orig \in Locs
      BY <2>2, JobFacts, NameFacts DEF Roles
    <3>2. GroupsOK' /\ FreshOK'
      BY <2>1, <2>2, <2>6, SameJournal, JournalTypes
    <3>3. CASE UNCHANGED <<vis, todo>> /\ dur' \in [Objs -> SUBSET Locs] /\ job' = [job EXCEPT !.done = @ \cup {o}]
      <4>1. FilesOK'
        BY <2>6, <3>3 DEF TypeInv, FilesOK
      <4>2. JobOK' /\ todo' \in Seq(Dirs)
        BY <2>2, <3>1, <3>3, JobMoves, TodoTypes
      <4>3. QED
        BY <2>2, <2>6, <3>2, <4>1, <4>2
    <3>4. CASE (\E from, to : to \in Locs /\ Renames(o, from, to)) /\ (SyncGroup \/ todo' = <<Parent(o), Group(job.g)>>) /\ UNCHANGED job
      <4>1. FilesOK'
        BY <3>1, <3>4, RenameTypes
      <4>2. JobOK' /\ todo' \in Seq(Dirs)
        BY <2>2, <3>1, <3>4, SameTypes, TodoTypes
      <4>3. QED
        BY <2>2, <2>6, <3>2, <4>1, <4>2
    <3>5. QED
      BY <2>6, <3>1, <3>3, <3>4
  <2>7. P
    BY <1>9, <2>3, <2>4, <2>5, <2>6, RestoreEffect
  <2>8. ProcessOK'
    BY <2>1, <2>2, <2>7, JobProcess DEF TypeInv, ProcessOK
  <2>9. QED
    BY <2>1, <2>2, <2>7, <2>8, SameTypes DEF TypeInv
<1>10. CASE Sweep
  <2>1. job.pc # "none" /\ UNCHANGED <<files, registry, up, updur, jd, log, made, mode, pass, recovering, plan, confl, spent>>
    BY <1>10 DEF Sweep, Ready
  <2>2. /\ JournalIs("none", "tombstone") \/ JournalIs("none", "none")
        /\ job' = job \/ job' = [job EXCEPT !.pc = "close"]
        /\ SyncGroup
    BY <1>10 DEF Sweep
  <2>3. GroupsOK' /\ FreshOK' /\ Up' = Up
    BY <2>1, <2>2, SetsJournal, JournalTypes DEF Phases
  <2>4. JobOK'
    BY <2>1, <2>2, JobMoves, SameTypes DEF Pcs
  <2>5. todo' \in Seq(Dirs)
    BY <2>1, <2>2, ObjExists, TodoTypes
  <2>6. ProcessOK'
    BY <2>1, <2>5, JobProcess DEF TypeInv, ProcessOK
  <2>7. QED
    BY <2>1, <2>3, <2>4, <2>6, SameTypes DEF TypeInv
<1>11. QED
  BY <1>1, <1>2, <1>3, <1>4, <1>5, <1>6, <1>7, <1>8, <1>9, <1>10

\* Syncs and the passes of apply and startup keep the types.
LEMMA TypeCalls ==
    ASSUME TypeInv, AuthorityInv, NameInv, FluxInv, UNCHANGED limits
    PROVE  /\ Sync => TypeInv'
           /\ Plan => TypeInv'
           /\ (\E k \in Keys : Begin(k)) => TypeInv'
           /\ (\E g \in Groups : VisitGroup(g)) => TypeInv'
           /\ EndApply \/ EndPass \/ Recheck \/ StartApply \/ StartDaemon \/ StopDaemon => TypeInv'
<1>1. CASE Sync
  <2> DEFINE d == Head(todo)
  <2>1. /\ todo # <<>> /\ dur' = [o \in Objs |-> SyncedNames(o, d)]
        /\ jd' = (IF d[2] = "group" THEN [jd EXCEPT ![d[1]] = jv[d[1]]] ELSE jd)
        /\ updur' = (IF d = Quarantine THEN up ELSE updur) /\ todo' = Tail(todo)
        /\ UNCHANGED <<vis, bits, owner, registry, up, jv, log, made, mode, pass, recovering, plan, job, confl, spent>>
    BY <1>1 DEF Sync
  <2>2. todo \in Seq(Dirs) /\ d \in Dirs /\ todo' \in Seq(Dirs)
    BY <2>1 DEF TypeInv, ProcessOK
  <2> HIDE DEF d
  <2>3. FilesOK'
    BY <2>1, SyncedType DEF TypeInv, FilesOK
  <2>4. d[2] = "group" => d[1] \in Groups
    BY <2>2 DEF Dirs, Comps, Group, Quarantine
  <2>5. GroupsOK' /\ FreshOK'
    BY <2>1, <2>4 DEF TypeInv, GroupsOK, FreshOK, Begun
  <2>6. JobOK' /\ BoundsOK' /\ RegistryOK'
    BY <2>1, SameTypes
  <2>7. ProcessOK'
    BY <2>1, <2>2, JobProcess DEF TypeInv, ProcessOK
  <2>8. QED
    BY <2>3, <2>5, <2>6, <2>7 DEF TypeInv
<1>2. CASE Plan
  <2>1. /\ UNCHANGED <<files, registry, groups, pass, recovering, job, todo, confl, spent>> /\ mode' = "applying"
        /\ plan' \subseteq Keys
    BY <1>2 DEF Plan
  <2>2. JobOK'
    BY <2>1, SameTypes DEF groups
  <2>3. ProcessOK'
    BY <2>1 DEF TypeInv, ProcessOK, Running, Modes, Begun, groups
  <2>4. QED
    BY <2>1, <2>2, <2>3, SameTypes DEF TypeInv
<1>3. ASSUME NEW k \in Keys, Begin(k) PROVE TypeInv'
  <2>1. /\ mode = "applying" /\ todo = <<>> /\ plan' = plan \ {k}
        /\ UNCHANGED <<files, registry, mode, pass, recovering, todo, confl, spent>>
    BY <1>3 DEF Begin, Ready
  <2>2. CASE UNCHANGED <<groups, job>>
    <3>1. JobOK'
      BY <2>2, SameTypes DEF groups
    <3>2. ProcessOK'
      BY <2>1, <2>2 DEF TypeInv, ProcessOK, Running, Modes, Begun, groups
    <3>3. QED
      BY <2>1, <2>2, <3>1, <3>2, SameTypes DEF TypeInv
  <2>3. CASE made < limits.groups /\ ~UNCHANGED <<groups, job>>
    <3>1. /\ made' = made + 1
          /\ up' = [up EXCEPT ![made + 1] = TRUE]
          /\ updur' = [updur EXCEPT ![made + 1] = TRUE]
          /\ log' = [log EXCEPT ![made + 1] = [key |-> k, objs |-> Originals(k), inc |-> rec[k], rev |-> rev, gen |-> gen]]
          /\ job' = [pc |-> "journal", g |-> made + 1, own |-> TRUE, done |-> {}]
          /\ UNCHANGED <<jv, jd>>
      BY <1>3, <2>3 DEF Begin
    <3>2. made + 1 \in Groups /\ made + 1 \notin Begun /\ made \in Nat /\ made + 1 \in 0..limits.groups
      BY <2>3, BegunFacts
    <3>3. [key |-> k, objs |-> Originals(k), inc |-> rec[k], rev |-> rev, gen |-> gen] \in Logs
      BY DEF Logs, Originals, TypeInv, RegistryOK
    <3>4. GroupsOK'
      BY <3>1, <3>2, <3>3 DEF TypeInv, GroupsOK
    <3>5. Begun' = Begun \cup {made + 1} /\ made + 1 \in Begun'
      BY <3>1, <3>2 DEF Begun
    <3>6. FreshOK'
      BY <3>1, <3>2, <3>5 DEF TypeInv, GroupsOK, FreshOK
    <3>7. JobOK'
      BY <3>1, <3>2, <3>5 DEF JobOK, Jobs, Pcs, NoJob
    <3>8. ProcessOK'
      BY <2>1, <3>1, <3>5 DEF TypeInv, ProcessOK, Running
    <3>9. QED
      BY <2>1, <3>4, <3>6, <3>7, <3>8, SameTypes DEF TypeInv
  <2>4. QED
    BY <1>3, <2>2, <2>3 DEF Begin
<1>4. ASSUME NEW g \in Groups, VisitGroup(g) PROVE TypeInv'
  <2>1. /\ mode \in Running /\ g \in recovering /\ recovering' = recovering \ {g} /\ todo = <<>> /\ job.pc = "none"
        /\ UNCHANGED <<files, registry, groups, mode, pass, plan, todo, spent, made>>
    BY <1>4 DEF VisitGroup, Ready, Running, groups
  <2>2. g \in Begun
    BY <2>1 DEF TypeInv, ProcessOK
  <2>3. /\ UNCHANGED confl \/ confl' = confl \cup {<<g, "state">>}
        /\ UNCHANGED job \/ \E p \in {"close", "sweep", "restore", "finish"} : Visit(g, p)
    BY <1>4 DEF VisitGroup
  <2>4. GroupsOK' /\ FreshOK' /\ Up' = Up
    BY <2>1, SameTypes DEF groups
  <2>5. JobOK'
    <3>1. CASE UNCHANGED job
      BY <2>1, <3>1, SameTypes
    <3>2. ASSUME NEW p \in {"close", "sweep", "restore", "finish"}, Visit(g, p) PROVE JobOK'
      BY <2>1, <2>2, <3>2 DEF Visit, JobOK, Jobs, Pcs, NoJob, Begun
    <3>3. QED
      BY <2>3, <3>1, <3>2
  <2>6. ProcessOK'
    BY <2>1, <2>3, <2>4 DEF TypeInv, ProcessOK, Begun, Running
  <2>7. QED
    BY <2>1, <2>4, <2>5, <2>6, SameTypes DEF TypeInv
<1>5. CASE EndApply \/ EndPass \/ Recheck \/ StartApply \/ StartDaemon \/ StopDaemon
  <2>1. UNCHANGED <<files, registry, groups, plan, job, todo, spent>>
    BY <1>5 DEF EndApply, EndPass, Recheck, StartApply, StartDaemon, StopDaemon, Start
  <2>2. Up \subseteq Begun
    BY DEF Up, TypeInv, FreshOK
  <2>3. Up' = Up /\ Begun' = Begun /\ JobOK' /\ GroupsOK' /\ FreshOK' /\ FilesOK' /\ RegistryOK' /\ BoundsOK'
    BY <2>1, SameTypes DEF groups
  <2>4. job.pc # "none" \/ todo # <<>> => mode \in Running
    BY DEF TypeInv, ProcessOK
  <2>5. job.pc = "none" /\ todo = <<>>
    BY <1>5, <2>4 DEF EndApply, EndPass, Recheck, StartApply, StartDaemon, StopDaemon, Ready, Running
  <2>6. mode' \in Modes /\ (mode' = "serving" => Up = {}) /\ recovering' \subseteq Begun /\ confl' \in {confl, {}}
    BY <1>5, <2>2 DEF EndApply, EndPass, Recheck, StartApply, StartDaemon, StopDaemon, Start, Modes, Running,
       TypeInv, ProcessOK
  <2>7. pass' \in 0..MaxPasses
    BY <1>5, RetentionAssumption DEF EndApply, EndPass, Recheck, StartApply, StartDaemon, StopDaemon, TypeInv, ProcessOK
  <2>8. ProcessOK'
    <3>1. plan' \subseteq Keys /\ todo' \in Seq(Dirs) /\ confl' \subseteq Groups \X {"io", "state"}
      BY <2>1, <2>6 DEF TypeInv, ProcessOK
    <3>2. QED
      BY <2>1, <2>3, <2>5, <2>6, <2>7, <3>1 DEF ProcessOK
  <2>9. QED
    BY <2>3, <2>8 DEF TypeInv
<1>6. QED
  BY <1>1, <1>2, <1>3, <1>4, <1>5

\* One more kill, power failure, fault or write within its bound.
LEMMA SpendTypes ==
    ASSUME TypeInv, UNCHANGED limits, NEW what \in {"kills", "powers", "faults", "writes"}, Spend(what)
    PROVE  BoundsOK' /\ spent'[what] = spent[what] + 1
           /\ \A w \in {"kills", "powers", "faults", "writes"} \ {what} : spent'[w] = spent[w]
BY DEF TypeInv, BoundsOK, Spendings, Spend

\* After a kill or a failed step, and before one.
LEMMA SmoothFacts ==
    ASSUME TypeInv, UNCHANGED limits
    PROVE  /\ UNCHANGED spent => Smooth' = Smooth
           /\ Spend("writes") \/ Spend("powers") => Smooth' = Smooth
           /\ Spend("kills") \/ Spend("faults") => ~Smooth'
<1>1. spent \in Spendings
  BY DEF TypeInv, BoundsOK
<1>2. QED
  BY <1>1 DEF Smooth, Spend, Spendings

\* A stopped process has neither a job nor syncs to make.
LEMMA StoppedProcess ==
    ASSUME TypeInv, Stopped, UNCHANGED made
    PROVE  JobOK' /\ ProcessOK'
<1>1. JobOK'
  BY NoJobType, NextJobOK DEF Stopped
<1>2. /\ mode' \in Modes /\ pass' \in 0..MaxPasses /\ recovering' \subseteq Begun' /\ plan' \subseteq Keys
      /\ todo' \in Seq(Dirs) /\ confl' \subseteq Groups \X {"io", "state"}
      /\ job'.pc = "none" /\ todo' = <<>> /\ mode' # "serving"
  BY NoJobType DEF Stopped, Modes, TypeInv, ProcessOK
<1>3. QED
  BY <1>1, <1>2 DEF ProcessOK

\* Writers of tasks, failing steps, kills and power failures keep the types.
LEMMA TypeEnvironment ==
    ASSUME TypeInv, AuthorityInv, NameInv, FluxInv, UNCHANGED limits
    PROVE  /\ \A k \in Keys : Admit(k) \/ Toggle(k) => TypeInv'
           /\ \A k \in Keys, c \in Comps : Write(k, c) => TypeInv'
           /\ Fail \/ FailAfterSave => TypeInv'
           /\ Kill \/ PowerFail => TypeInv'
<1>1. ASSUME NEW k \in Keys, Admit(k) \/ Toggle(k) PROVE TypeInv'
  <2>1. UNCHANGED <<files, groups, process>> /\ Spend("writes")
    BY <1>1 DEF Admit, Toggle
  <2>2. RegistryOK' /\ BoundsOK'
    <3>1. spent.writes \in Nat
      BY BoundFacts DEF TypeInv
    <3>2. rec' \in [Keys -> Nat] /\ active' \subseteq Keys
      BY <1>1, <3>1 DEF Admit, Toggle, TypeInv, RegistryOK
    <3>3. rev' \in Nat /\ gen' \in Nat
      BY <1>1 DEF Admit, Toggle, TypeInv, RegistryOK
    <3>4. QED
      BY <2>1, <3>2, <3>3, SpendTypes DEF RegistryOK
  <2>3. JobOK' /\ ProcessOK'
    BY <2>1, SameTypes DEF process, groups, TypeInv, ProcessOK
  <2>4. QED
    BY <2>1, <2>2, <2>3, SameTypes DEF TypeInv
<1>2. ASSUME NEW k \in Keys, NEW c \in Comps, Write(k, c) PROVE TypeInv'
  <2>1. UNCHANGED <<registry, groups, process>> /\ Spend("writes") /\ UNCHANGED bits
    BY <1>2 DEF Write
  <2>2. PICK n \in 1..Copies :
          /\ vis' = [vis EXCEPT ![<<k, c, n>>] = {Orig}]
          /\ dur' = [dur EXCEPT ![<<k, c, n>>] = {Orig}]
          /\ owner' = [owner EXCEPT ![<<k, c, n>>] = rec[k]]
    BY <1>2 DEF Write
  <2>3. {Orig} \in SUBSET Locs /\ rec[k] \in Nat
    BY DEF Locs, TypeInv, RegistryOK
  <2>4. FilesOK'
    BY <2>1, <2>2, <2>3 DEF TypeInv, FilesOK
  <2>5. JobOK' /\ ProcessOK' /\ BoundsOK'
    BY <2>1, SameTypes, SpendTypes DEF process, groups, TypeInv, ProcessOK
  <2>6. QED
    BY <2>1, <2>4, <2>5, SameTypes DEF TypeInv
<1>3. CASE Fail \/ FailAfterSave
  <2>1. /\ job.pc # "none" /\ Spend("faults") /\ UNCHANGED <<files, groups, made, mode, pass, recovering, plan>>
        /\ todo' \in {todo, <<>>}
        /\ (job' = Rollback(job) /\ UNCHANGED confl) \/ FailJob("io")
    BY <1>3 DEF Fail, FailAfterSave, groups
  <2>2. RegistryOK'
    BY <1>3, SameTypes DEF Fail, FailAfterSave, SaveWithout, TypeInv, RegistryOK
  <2>3. todo' \in Seq(Dirs)
    BY <2>1, ObjExists, TodoTypes
  <2>4. JobOK' /\ confl' \subseteq Groups \X {"io", "state"}
    BY <2>1, JobMoves, ConflictType DEF TypeInv, ProcessOK
  <2>5. ProcessOK'
    BY <2>1, <2>3, <2>4, JobProcess
  <2>6. QED
    BY <2>1, <2>2, <2>4, <2>5, SameTypes, SpendTypes DEF TypeInv
<1>4. CASE Kill
  <2>1. UNCHANGED <<files, registry, groups, made>> /\ Stopped /\ Spend("kills")
    BY <1>4 DEF Kill, groups
  <2>2. QED
    BY <2>1, SameTypes, SpendTypes, StoppedProcess DEF TypeInv
<1>5. CASE PowerFail
  <2>1. UNCHANGED <<bits, owner, registry, log, made>> /\ Stopped /\ Spend("powers")
        /\ dur' = vis' /\ jd' = jv' /\ updur' = up'
    BY <1>5 DEF PowerFail
  <2>2. PICK pick \in [{o \in Objs : vis[o] # dur[o]} -> {"old", "new", "both"}],
          old \in SUBSET {g \in Groups : jv[g] # jd[g]},
          kept \in SUBSET {g \in Groups : up[g] # updur[g]} :
          /\ vis' = [o \in Objs |->
                IF o \notin DOMAIN pick THEN vis[o]
                ELSE CASE pick[o] = "old" -> dur[o]
                       [] pick[o] = "new" -> vis[o]
                       [] OTHER -> vis[o] \cup dur[o]]
          /\ jv' = [g \in Groups |-> IF g \in old THEN jd[g] ELSE jv[g]]
          /\ up' = [g \in Groups |-> IF g \in kept THEN updur[g] ELSE up[g]]
    BY <1>5, ZenonT(60) DEF PowerFail
  <2>3. FilesOK'
    <3>1. /\ vis \in [Objs -> SUBSET Locs] /\ dur \in [Objs -> SUBSET Locs]
          /\ bits \in [Objs -> 0..limits.batches] /\ owner \in [Objs -> Nat]
      BY DEF TypeInv, FilesOK
    <3>2. ASSUME NEW o \in Objs PROVE vis'[o] \in SUBSET Locs
      <4>1. vis'[o] = vis[o] \/ vis'[o] = dur[o] \/ vis'[o] = vis[o] \cup dur[o]
        BY <2>2
      <4>2. QED
        BY <3>1, <4>1
    <3>3. vis' \in [Objs -> SUBSET Locs]
      <4>1. vis' = [o \in Objs |-> vis'[o]]
        BY <2>2
      <4>2. QED
        BY <3>2, <4>1
    <3>4. QED
      BY <2>1, <3>1, <3>3 DEF FilesOK
  <2>4. GroupsOK' /\ FreshOK'
    BY <2>1, <2>2 DEF TypeInv, GroupsOK, FreshOK, Begun
  <2>5. QED
    BY <2>1, <2>3, <2>4, SameTypes, SpendTypes, StoppedProcess DEF TypeInv
<1>6. QED
  BY <1>1, <1>2, <1>3, <1>4, <1>5

\* Every step keeps the types.
LEMMA TypeSteps ==
    ASSUME TypeInv, AuthorityInv, NameInv, FluxInv, Next
    PROVE  TypeInv'
<1>1. UNCHANGED limits
  BY DEF Next, Step, Environment
<1>2. QED
  BY <1>1, TypeJobSteps, TypeCalls, TypeEnvironment DEF Next, Step, Environment
-----------------------------------------------------------------------------
(* New names *)

\* Component o has a name in the group in hand.
Grouped(o) == \E r \in Roles : At(job.g, r) \in vis[o]

\* Component o gets name l from the job in hand or from a writer.
Renamed(o, l) ==
    /\ todo = <<>> /\ job.pc # "none" /\ o \in log[job.g].objs
    /\ \/ job.pc = "stage" /\ l = At(job.g, "staged")
       \/ job.pc = "delete" /\ Grouped(o) /\ l \in {At(job.g, "trash"), At(job.g, "deletion")}
       \/ job.pc = "restore" /\ Grouped(o) /\ l \in {At(job.g, "trash"), At(job.g, "restoring")}
       \/ job.pc = "restore" /\ l = Orig /\ ~Taken(o)

\* Component o is written now, for the record that is there.
Written(o) ==
    \E k \in Keys, c \in Comps : Write(k, c) /\ o[1] = k /\ o[2] = c /\ owner[o] = 0 /\ owner'[o] = rec[k]

\* Names that a step leaves alone or takes away.
LEMMA NoNewNames ==
    ASSUME TypeInv, NEW o \in Objs, Smooth' => Smooth,
           vis'[o] \subseteq vis[o] \/ (Smooth' /\ vis'[o] \subseteq Names(o)),
           Smooth' => dur'[o] \subseteq vis[o] \cup dur[o]
    PROVE  \A l \in Names(o)' : l \in Names(o)
BY DEF Names

\* A rename brings one new name to one component.
LEMMA RenamedNames ==
    ASSUME TypeInv, UNCHANGED spent, NEW o \in Objs, NEW from, NEW to, Renames(o, from, to), NEW p \in Objs
    PROVE  \A l \in Names(p)' : l \in Names(p) \/ (p = o /\ l = to)
<1>1. Smooth' = Smooth
  BY DEF Smooth
<1>2. vis'[p] \subseteq vis[p] \cup (IF p = o THEN {to} ELSE {})
  BY DEF Renames, TypeInv, FilesOK
<1>3. QED
  BY <1>1, <1>2 DEF Names, Renames

\* A step that leaves both views of the names alone brings none, whatever it spends.
LEMMA SameNames ==
    ASSUME TypeInv, UNCHANGED limits, UNCHANGED spent \/ \E w \in {"kills", "powers", "faults", "writes"} : Spend(w),
           UNCHANGED <<vis, dur>>
    PROVE  \A o \in Objs : \A l \in Names(o)' : l \in Names(o)
<1>1. Smooth' => Smooth
  BY SmoothFacts
<1>2. QED
  BY <1>1 DEF Names

\* The names that staging, deleting and restoring bring.
LEMMA JobNewNames ==
    ASSUME TypeInv, AuthorityInv, NameInv, FluxInv, UNCHANGED limits, NEW o \in Objs,
           Stage \/ Delete \/ Restore
    PROVE  \A l \in Names(o)' : l \in Names(o) \/ Renamed(o, l)
<1>1. UNCHANGED spent /\ todo = <<>> /\ job.pc # "none"
  BY DEF Stage, Delete, Restore, Ready
<1>2. Smooth' = Smooth
  BY <1>1, SmoothFacts
<1>3. log[job.g].objs \subseteq Objs
  BY <1>1, JobFacts
<1>4. CASE Stage
  <2>1. CASE UNCHANGED files
    BY <1>1, <2>1, SameNames DEF files
  <2>2. CASE \E p \in log[job.g].objs : Renames(p, Orig, At(job.g, "staged"))
    <3>1. PICK p \in log[job.g].objs : Renames(p, Orig, At(job.g, "staged"))
      BY <2>2
    <3>2. \A l \in Names(o)' : l \in Names(o) \/ (o = p /\ l = At(job.g, "staged"))
      BY <1>1, <1>3, <3>1, RenamedNames
    <3>3. job.pc = "stage"
      BY <1>4 DEF Stage, Ready
    <3>4. QED
      BY <1>1, <3>2, <3>3 DEF Renamed
  <2>3. QED
    BY <1>4, <2>1, <2>2, StageEffect
<1>5. CASE Delete
  <2>0. job.pc = "delete"
    BY <1>5 DEF Delete, Ready
  <2>1. CASE DropJournal
    BY <1>1, <2>1, SameNames DEF files, DropJournal
  <2>2. CASE \E p \in log[job.g].objs, to \in {At(job.g, "trash"), At(job.g, "deletion")} :
                Grouped(p) /\ \E from : Renames(p, from, to)
    <3>1. PICK p \in log[job.g].objs, to \in {At(job.g, "trash"), At(job.g, "deletion")} :
                Grouped(p) /\ \E from : Renames(p, from, to)
      BY <2>2
    <3>2. \A l \in Names(o)' : l \in Names(o) \/ (o = p /\ l = to)
      BY <1>1, <1>3, <3>1, RenamedNames
    <3>3. QED
      BY <1>1, <2>0, <3>1, <3>2 DEF Renamed
  <2>3. CASE \E p \in log[job.g].objs : Shrinks(p) /\ (UNCHANGED vis \/ \E l : vis' = [vis EXCEPT ![p] = @ \ {l}])
    <3>1. vis'[o] \subseteq vis[o] /\ dur' = dur
      BY <1>3, <2>3 DEF Shrinks, TypeInv, FilesOK
    <3>2. QED
      BY <1>2, <3>1, NoNewNames
  <2>4. \A p \in log[job.g].objs : At(job.g, "deletion") \in vis[p] \/ At(job.g, "staged") \in vis[p] => Grouped(p)
    BY DEF Grouped, Roles
  <2>5. QED
    BY <1>5, <2>1, <2>2, <2>3, <2>4, DeleteEffect
<1>6. CASE Restore
  <2>0. job.pc = "restore"
    BY <1>6 DEF Restore, Ready
  <2>1. CASE ClearTransients
    <3>1. vis'[o] \subseteq vis[o] /\ dur' = dur
      BY <2>1 DEF ClearTransients
    <3>2. QED
      BY <1>2, <3>1, NoNewNames
  <2>2. CASE UNCHANGED <<vis, dur>>
    BY <1>1, <2>2, SameNames
  <2>3. CASE UNCHANGED vis /\ (Smooth => UNCHANGED dur)
    BY <1>2, <2>3 DEF Names
  <2>4. CASE \E p \in log[job.g].objs, to \in {At(job.g, "trash"), At(job.g, "restoring")} :
                Grouped(p) /\ \E from : Renames(p, from, to)
    <3>1. PICK p \in log[job.g].objs, to \in {At(job.g, "trash"), At(job.g, "restoring")} :
                Grouped(p) /\ \E from : Renames(p, from, to)
      BY <2>4
    <3>2. \A l \in Names(o)' : l \in Names(o) \/ (o = p /\ l = to)
      BY <1>1, <1>3, <3>1, RenamedNames
    <3>3. QED
      BY <1>1, <2>0, <3>1, <3>2 DEF Renamed
  <2>5. CASE \E p \in log[job.g].objs : ~Taken(p) /\ Renames(p, At(job.g, "restoring"), Orig)
    <3>1. PICK p \in log[job.g].objs : ~Taken(p) /\ Renames(p, At(job.g, "restoring"), Orig)
      BY <2>5
    <3>2. \A l \in Names(o)' : l \in Names(o) \/ (o = p /\ l = Orig)
      BY <1>1, <1>3, <3>1, RenamedNames
    <3>3. QED
      BY <1>1, <2>0, <3>1, <3>2 DEF Renamed
  <2>6. RemoveGroup \/ UNCHANGED files => UNCHANGED <<vis, dur>>
    BY DEF RemoveGroup, files
  <2>7. \A p \in log[job.g].objs, r \in {"staged", "restoring"} : At(job.g, r) \in vis[p] => Grouped(p)
    BY DEF Grouped, Roles
  <2>8. \A p \in log[job.g].objs : Staged(p) => Grouped(p)
    BY <2>7 DEF Staged
  <2>9. QED
    BY <1>6, <2>1, <2>2, <2>3, <2>4, <2>5, <2>6, <2>7, <2>8, RestoreEffect
<1>7. QED
  BY <1>4, <1>5, <1>6

\* A power failure leaves each entry as it is seen, as it is on the medium or as both, and
\* after a kill or a failed step as it is seen.
LEMMA PowerFacts ==
    ASSUME TypeInv, Next, CoveredStep, PowerFail
    PROVE  /\ Smooth' = Smooth /\ dur' = vis' /\ updur' = up' /\ jd' = jv'
           /\ \A o \in Objs : vis'[o] = vis[o] \/ (Smooth /\ vis'[o] \in {dur[o], vis[o] \cup dur[o]})
           /\ \A g \in Groups : up'[g] = up[g] \/ (Smooth /\ up'[g] = updur[g])
           /\ \A g \in Groups : jv'[g] = jv[g] \/ (Smooth /\ jv'[g] = jd[g])
<1>1. UNCHANGED limits /\ Spend("powers") /\ dur' = vis' /\ updur' = up' /\ jd' = jv'
  BY DEF Next, Step, Environment, PowerFail
<1>2. spent'.powers # spent.powers
  BY <1>1, SpendTypes, BoundFacts DEF TypeInv
<1>3. (Smooth \/ Durable) /\ Smooth' = Smooth
  BY <1>1, <1>2, SmoothFacts DEF CoveredStep
<1>4. /\ \A o \in Objs : vis'[o] \in {vis[o], dur[o], vis[o] \cup dur[o]}
      /\ \A g \in Groups : up'[g] \in {up[g], updur[g]} /\ jv'[g] \in {jv[g], jd[g]}
  BY DEF PowerFail
<1>5. QED
  BY <1>1, <1>3, <1>4 DEF Durable

\* A component gets a name only from the job in hand or from a writer.
LEMMA NewNames ==
    ASSUME TypeInv, AuthorityInv, NameInv, FluxInv, Next, CoveredStep, NEW o \in Objs
    PROVE  \A l \in Names(o)' : l \in Names(o) \/ Renamed(o, l) \/ (Written(o) /\ l = Orig)
<1>1. UNCHANGED limits
  BY DEF Next, Step, Environment
<1>2. CASE Stage \/ Delete \/ Restore
  BY <1>1, <1>2, JobNewNames
<1>3. CASE Plan \/ (\E k \in Keys : Begin(k)) \/ WriteTemp \/ PersistJournal \/ MarkCommitted \/ RemoveRecord \/ Close
           \/ (\E g \in Groups : VisitGroup(g)) \/ Sweep \/ Finish \/ EndApply \/ EndPass \/ Recheck \/ StartApply \/ StartDaemon
           \/ StopDaemon
  <2>1. UNCHANGED spent /\ UNCHANGED files
    BY <1>3 DEF Plan, Begin, WriteTemp, PersistJournal, MarkCommitted, RemoveRecord, Close, VisitGroup, Sweep, Finish, EndApply,
       EndPass, Recheck, StartApply, StartDaemon, StopDaemon, Start
  <2>2. QED
    BY <1>1, <2>1, SameNames DEF files
<1>4. CASE (\E k \in Keys : Admit(k) \/ Toggle(k)) \/ Fail \/ FailAfterSave \/ Kill
  <2>1. UNCHANGED files /\ \E w \in {"kills", "powers", "faults", "writes"} : Spend(w)
    BY <1>4 DEF Admit, Toggle, Fail, FailAfterSave, Kill
  <2>2. QED
    BY <1>1, <2>1, SameNames DEF files
<1>5. CASE Sync
  <2>1. UNCHANGED <<spent, vis>> /\ dur' = [p \in Objs |-> SyncedNames(p, Head(todo))]
    BY <1>5 DEF Sync
  <2>2. Smooth' = Smooth
    BY <1>1, <2>1, SmoothFacts
  <2>3. dur'[o] \subseteq vis[o] \cup dur[o]
    BY <2>1, SyncedType
  <2>4. QED
    BY <2>1, <2>2, <2>3, NoNewNames
<1>6. ASSUME NEW k \in Keys, NEW c \in Comps, Write(k, c) PROVE \A l \in Names(o)' : l \in Names(o) \/ (Written(o) /\ l = Orig)
  <2>1. PICK n \in 1..Copies :
          /\ owner[<<k, c, n>>] = 0
          /\ vis' = [vis EXCEPT ![<<k, c, n>>] = {Orig}]
          /\ dur' = [dur EXCEPT ![<<k, c, n>>] = {Orig}]
          /\ owner' = [owner EXCEPT ![<<k, c, n>>] = rec[k]]
    BY <1>6 DEF Write
  <2>2. Smooth' = Smooth
    BY <1>1, <1>6, SmoothFacts DEF Write
  <2>3. CASE o # <<k, c, n>>
    <3>1. vis'[o] = vis[o] /\ dur'[o] = dur[o]
      BY <2>1, <2>3 DEF TypeInv, FilesOK
    <3>2. QED
      BY <2>2, <3>1, NoNewNames
  <2>4. CASE o = <<k, c, n>>
    <3>1. vis'[o] = {Orig} /\ dur'[o] = {Orig} /\ owner'[o] = rec[k] /\ o[1] = k /\ o[2] = c /\ owner[o] = 0
      BY <2>1, <2>4 DEF TypeInv, FilesOK
    <3>2. Written(o)
      BY <1>6, <3>1 DEF Written
    <3>3. QED
      BY <3>1, <3>2 DEF Names
  <2>5. QED
    BY <2>3, <2>4
<1>7. CASE PowerFail
  <2>1. Smooth' = Smooth /\ dur' = vis' /\ vis'[o] \subseteq Names(o)
    BY <1>7, PowerFacts DEF Names
  <2>2. QED
    BY <2>1 DEF Names
<1>8. QED
  BY <1>2, <1>3, <1>4, <1>5, <1>6, <1>7 DEF Next, Step, Environment
-----------------------------------------------------------------------------
(* The registry and the journals *)

\* A record goes with a job that is allowed to remove it.
Removes ==
    /\ job.pc \in {"remove", "finish"} /\ (job.pc = "finish" => Finishable(job.g))
    /\ SaveWithout(job.g) /\ UNCHANGED <<owner, log, made>>

\* The registry changes when a job removes its record or a daemon admits a task; journals
\* are written once, when their group is made; writers own what they write.
LEMMA RegistrySteps ==
    ASSUME TypeInv, AuthorityInv, NameInv, FluxInv, Next
    PROVE  \/ UNCHANGED <<registry, owner, log, made>>
           \/ UNCHANGED <<registry, owner>> /\ \E k \in Keys : Begin(k)
           \/ Removes
           \/ UNCHANGED <<log, made, owner, job>> /\ (\E k \in Keys : Admit(k) \/ Toggle(k))
           \/ UNCHANGED <<registry, log, made, job>> /\ \E k \in Keys, c \in Comps : Write(k, c)
<1>1. CASE Stage
  BY <1>1, StageEffect DEF files, groups, Renames
<1>2. CASE Delete
  BY <1>2, DeleteEffect DEF files, DropJournal, Renames, Shrinks
<1>3. CASE Restore
  BY <1>3, RestoreEffect DEF files, ClearTransients, RemoveGroup, Renames
<1>4. CASE RemoveRecord \/ Finish \/ FailAfterSave
  <2>1. UNCHANGED <<owner, log, made>>
    BY <1>4 DEF RemoveRecord, Finish, FailAfterSave, files, groups
  <2>2. CASE Finish /\ ~Finishable(job.g)
    BY <2>1, <2>2 DEF Finish
  <2>3. CASE ~(Finish /\ ~Finishable(job.g))
    BY <1>4, <2>1, <2>3 DEF RemoveRecord, Finish, FailAfterSave, Ready, Removes
  <2>4. QED
    BY <2>2, <2>3
<1>5. CASE \E k \in Keys : Begin(k)
  BY <1>5 DEF Begin, files
<1>6. CASE \E k \in Keys : Admit(k) \/ Toggle(k)
  BY <1>6 DEF Admit, Toggle, files, groups, process
<1>7. CASE \E k \in Keys, c \in Comps : Write(k, c)
  BY <1>7 DEF Write, groups, process
<1>8. CASE Sync \/ Plan \/ WriteTemp \/ PersistJournal \/ MarkCommitted \/ Close \/ Sweep
           \/ (\E g \in Groups : VisitGroup(g)) \/ EndApply \/ EndPass \/ Recheck \/ StartApply \/ StartDaemon
           \/ StopDaemon \/ Fail \/ Kill \/ PowerFail
  BY <1>8 DEF Sync, Plan, WriteTemp, PersistJournal, MarkCommitted, Close, VisitGroup, Sweep, EndApply,
       EndPass, Recheck, StartApply, StartDaemon, StopDaemon, Start, Fail, Kill, PowerFail, files, groups
<1>9. QED
  BY <1>1, <1>2, <1>3, <1>4, <1>5, <1>6, <1>7, <1>8 DEF Next, Step, Environment

\* What a journal says of records stays true while they stay, go, or are made anew.
LEMMA LiveShrinks ==
    ASSUME TypeInv, AuthorityInv, NameInv, FluxInv, Next
    PROVE  /\ \A k \in Keys : Referred(k)' => Referred(k)
           /\ \A o \in Objs : Made(o) => Made(o)' /\ (Dead(o) => Dead(o)') /\ (Live(o)' => Live(o))
<1>1. UNCHANGED limits
  BY DEF Next, Step, Environment
<1>2. \A o \in Objs : o[1] \in Keys
  BY DEF Objs
<1>3. SUFFICES /\ \A k \in Keys : Referred(k)' => Referred(k)
               /\ \A o \in Objs : Made(o) => Made(o)' /\ (Dead(o) => Dead(o)')
  BY <1>2 DEF Live
<1>4. CASE UNCHANGED <<registry, owner>>
  BY <1>1, <1>4 DEF Referred, Made, Dead, registry
<1>5. CASE Removes
  <2>1. \A k \in Keys : rec'[k] \in {0, rec[k]}
    BY <1>5 DEF Removes, SaveWithout, TypeInv, RegistryOK
  <2>2. \A k \in Keys : Referred(k)' => Referred(k)
    BY <1>1, <2>1 DEF Referred
  <2>3. QED
    BY <1>2, <1>5, <2>1, <2>2 DEF Removes, Made, Dead
<1>6. ASSUME NEW k \in Keys, Admit(k), UNCHANGED owner
      PROVE  /\ \A j \in Keys : Referred(j)' => Referred(j)
             /\ \A o \in Objs : Made(o) => Made(o)' /\ (Dead(o) => Dead(o)')
  <2>1. spent.writes < limits.writes /\ spent.writes \in Nat /\ limits.writes \in Nat
    BY <1>6, BoundFacts DEF Admit, Writable, TypeInv
  <2>2. \A j \in Keys : rec'[j] = IF j = k THEN 1 + spent.writes + 1 ELSE rec[j]
    BY <1>6 DEF Admit, TypeInv, RegistryOK
  <2>3. \A j \in Keys : ~Referred(j)'
    BY <1>1, <2>1 DEF Referred
  <2>4. ASSUME NEW o \in Objs, Made(o), Dead(o) PROVE Dead(o)'
    <3>1. owner[o] \in Nat /\ owner[o] <= 1 + spent.writes
      BY DEF TypeInv, FilesOK, AuthorityInv, CountersOK
    <3>2. QED
      BY <1>2, <1>6, <2>1, <2>2, <2>4, <3>1 DEF Dead
  <2>5. QED
    BY <1>6, <2>3, <2>4 DEF Made
<1>7. ASSUME NEW k \in Keys, Toggle(k), UNCHANGED owner
      PROVE  /\ \A j \in Keys : Referred(j)' => Referred(j)
             /\ \A o \in Objs : Made(o) => Made(o)' /\ (Dead(o) => Dead(o)')
  BY <1>1, <1>7 DEF Toggle, Referred, Made, Dead
<1>8. ASSUME NEW k \in Keys, NEW c \in Comps, Write(k, c), UNCHANGED registry
      PROVE  /\ \A j \in Keys : Referred(j)' => Referred(j)
             /\ \A o \in Objs : Made(o) => Made(o)' /\ (Dead(o) => Dead(o)')
  <2>1. \A o \in Objs : owner[o] # 0 => owner'[o] = owner[o]
    BY <1>8 DEF Write, TypeInv, FilesOK
  <2>2. UNCHANGED rec
    BY <1>8 DEF registry
  <2>3. QED
    BY <1>1, <2>1, <2>2 DEF Referred, Made, Dead
<1>9. QED
  BY <1>4, <1>5, <1>6, <1>7, <1>8, RegistrySteps

\* Incarnations stay within the number of writes.
LEMMA CounterSteps ==
    ASSUME TypeInv, AuthorityInv, NameInv, FluxInv, Next, CoveredStep
    PROVE  CountersOK'
<1>1. UNCHANGED limits
  BY DEF Next, Step, Environment
<1>2. spent.writes \in Nat /\ spent'.writes \in Nat /\ spent'.writes >= spent.writes
  <2>1. UNCHANGED spent \/ \E w \in {"kills", "powers", "faults", "writes"} : Spend(w)
    BY DEF Next, Step, Environment, Stage, Delete, Restore, RemoveRecord, Finish, FailAfterSave, Begin, Admit, Toggle, Write,
       Sync, Plan, WriteTemp, PersistJournal, MarkCommitted, Close, VisitGroup, Sweep, EndApply, EndPass, Recheck,
       StartApply, StartDaemon, StopDaemon, Start, Fail, Kill, PowerFail
  <2>2. QED
    BY <1>1, <2>1, SpendTypes, BoundFacts DEF TypeInv
<1>3. ASSUME NEW o \in Objs, Names(o)' # {} PROVE Made(o)'
  <2>1. PICK l \in Names(o)' : TRUE
    BY <1>3
  <2>2. CASE l \in Names(o)
    BY <2>2, LiveShrinks DEF AuthorityInv, CountersOK
  <2>3. CASE Renamed(o, l)
    <3>1. job.g \in Begun /\ o \in log[job.g].objs
      BY <2>3, JobFacts DEF Renamed
    <3>2. Made(o)
      BY <3>1 DEF AuthorityInv, JournalOK
    <3>3. QED
      BY <3>2, LiveShrinks
  <2>4. CASE Written(o)
    BY <2>4 DEF Written, Write, Made
  <2>5. QED
    BY <2>1, <2>2, <2>3, <2>4, NewNames
<1>4. \A k \in Keys : rec[k] \in Nat /\ rec[k] <= 1 + spent.writes
  BY DEF TypeInv, RegistryOK, AuthorityInv, CountersOK
<1>5. \A o \in Objs : owner[o] \in Nat /\ owner[o] <= 1 + spent.writes
  BY DEF TypeInv, FilesOK, AuthorityInv, CountersOK
<1>6. \A k \in Keys : rec'[k] <= 1 + spent'.writes
  <2>1. CASE UNCHANGED registry
    BY <1>2, <1>4, <2>1 DEF registry
  <2>2. CASE Removes
    <3>1. \A k \in Keys : rec'[k] \in {0, rec[k]}
      BY <2>2 DEF Removes, SaveWithout, TypeInv, RegistryOK
    <3>2. QED
      BY <1>2, <1>4, <3>1
  <2>3. ASSUME NEW k \in Keys, Admit(k) PROVE \A j \in Keys : rec'[j] <= 1 + spent'.writes
    <3>1. \A j \in Keys : rec'[j] = IF j = k THEN 1 + spent.writes + 1 ELSE rec[j]
      BY <2>3 DEF Admit, TypeInv, RegistryOK
    <3>2. spent'.writes = spent.writes + 1
      BY <1>1, <2>3, SpendTypes DEF Admit
    <3>3. QED
      BY <1>2, <1>4, <3>1, <3>2
  <2>4. ASSUME NEW k \in Keys, Toggle(k) PROVE \A j \in Keys : rec'[j] <= 1 + spent'.writes
    BY <1>2, <1>4, <2>4 DEF Toggle
  <2>5. QED
    BY <2>1, <2>2, <2>3, <2>4, RegistrySteps
<1>7. \A o \in Objs : owner'[o] <= 1 + spent'.writes
  <2>1. CASE UNCHANGED owner
    BY <1>2, <1>5, <2>1
  <2>2. ASSUME NEW k \in Keys, NEW c \in Comps, Write(k, c) PROVE \A o \in Objs : owner'[o] <= 1 + spent'.writes
    <3>1. \A o \in Objs : owner'[o] \in {owner[o], rec[k]}
      BY <2>2 DEF Write, TypeInv, FilesOK
    <3>2. QED
      BY <1>2, <1>4, <1>5, <3>1
  <2>3. QED
    BY <2>1, <2>2, RegistrySteps DEF Removes
<1>8. QED
  BY <1>3, <1>6, <1>7 DEF CountersOK

\* A journal keeps telling the truth while records, groups and files change around it.
LEMMA JournalSteps ==
    ASSUME TypeInv, AuthorityInv, NameInv, FluxInv, Next, NEW g \in Begun
    PROVE  JournalOK(g)' /\ log'[g] = log[g]
<1>1. UNCHANGED limits /\ g \in Groups /\ log[g] \in Logs /\ JournalOK(g)
  BY BegunFacts DEF Next, Step, Environment, AuthorityInv, TypeInv, GroupsOK
<1>2. /\ log[g].key \in Keys /\ log[g].objs \subseteq Objs /\ log[g].rev \in Nat /\ log[g].gen \in Nat
      /\ rev \in Nat /\ gen \in Nat
  BY <1>1 DEF Logs, TypeInv, RegistryOK
<1>3. log'[g] = log[g]
  <2>1. UNCHANGED log \/ \E k \in Keys : Begin(k)
    BY RegistrySteps DEF Removes
  <2>2. ASSUME NEW k \in Keys, Begin(k) PROVE log'[g] = log[g]
    <3>1. CASE UNCHANGED groups
      BY <3>1 DEF groups
    <3>2. CASE ~UNCHANGED groups
      <4>1. made < limits.groups /\ \E r : log' = [log EXCEPT ![made + 1] = r]
        BY <2>2, <3>2 DEF Begin
      <4>2. made + 1 \notin Begun
        BY <4>1, BegunFacts
      <4>3. g # made + 1
        BY <4>2
      <4>4. QED
        BY <1>1, <4>1, <4>3 DEF TypeInv, GroupsOK
    <3>3. QED
      BY <3>1, <3>2
  <2>3. QED
    BY <2>1, <2>2
<1>4. /\ \A o \in log'[g].objs : o[1] = log'[g].key /\ Made(o)'
      /\ \A o, p \in log'[g].objs : o[2] = p[2] => o = p
      /\ log'[g].inc = 0 => \A o \in log'[g].objs : Dead(o)'
      /\ ~Referred(log[g].key)'
  BY <1>1, <1>2, <1>3, LiveShrinks DEF JournalOK
<1>5. /\ log[g].rev <= rev' /\ log[g].gen <= gen'
      /\ log[g].inc # 0 /\ rec'[log[g].key] # 0 /\ rev' = log[g].rev /\ gen' = log[g].gen => rec'[log[g].key] = log[g].inc
  <2>0. /\ log[g].rev <= rev /\ log[g].gen <= gen
        /\ log[g].inc # 0 /\ rec[log[g].key] # 0 /\ rev = log[g].rev /\ gen = log[g].gen => rec[log[g].key] = log[g].inc
    BY <1>1 DEF JournalOK, SameAuthority
  <2>1. CASE UNCHANGED registry
    BY <2>0, <2>1 DEF registry
  <2>2. CASE Removes
    <3>1. UNCHANGED rev /\ ((UNCHANGED <<rec, gen>>) \/ gen' = gen + 1)
      BY <2>2 DEF Removes, SaveWithout
    <3>2. QED
      BY <1>2, <2>0, <3>1
  <2>3. ASSUME NEW k \in Keys, Admit(k)
        PROVE  log[g].rev <= rev' /\ log[g].gen <= gen' /\ ~(rev' = log[g].rev /\ gen' = log[g].gen)
    <3>1. (rev' = rev /\ gen' = gen + 1) \/ (rev' = rev + 1 /\ gen' = gen)
      BY <1>2, <2>3 DEF Admit
    <3>2. QED
      BY <1>2, <2>0, <3>1
  <2>4. ASSUME NEW k \in Keys, Toggle(k)
        PROVE  log[g].rev <= rev' /\ log[g].gen <= gen' /\ ~(rev' = log[g].rev /\ gen' = log[g].gen)
    <3>1. rev' = rev + 1 /\ gen' = gen
      BY <2>4 DEF Toggle
    <3>2. QED
      BY <1>2, <2>0, <3>1
  <2>5. QED
    BY <2>1, <2>2, <2>3, <2>4, RegistrySteps
<1>6. QED
  BY <1>3, <1>4, <1>5 DEF JournalOK, SameAuthority

\* A group that is made now names what its task has, and nothing refers to the task.
LEMMA NewJournal ==
    ASSUME TypeInv, AuthorityInv, NameInv, FluxInv, Next, NEW k \in Keys, Begin(k), made' = made + 1,
           NEW g \in Begun', g = made + 1
    PROVE  JournalOK(g)' 
<1>1. UNCHANGED limits /\ made \in Nat
  BY BegunFacts DEF Next, Step, Environment
<1>2. /\ ~Protected(k) /\ made < limits.groups
      /\ log' = [log EXCEPT ![made + 1] = [key |-> k, objs |-> Originals(k), inc |-> rec[k], rev |-> rev, gen |-> gen]]
      /\ job'.pc = "journal" /\ UNCHANGED <<files, registry>>
  BY <1>1 DEF Begin, groups
<1>3. log'[g] = [key |-> k, objs |-> Originals(k), inc |-> rec[k], rev |-> rev, gen |-> gen]
  BY <1>2, BegunFacts DEF TypeInv, GroupsOK
<1>4. \A o \in Originals(k) : o \in Objs /\ o[1] = k /\ Orig \in Names(o)
  BY DEF Originals, Names
<1>5. \A o \in Originals(k) : Made(o)
  BY <1>4 DEF AuthorityInv, CountersOK
<1>6. \A o, p \in Originals(k) : o[2] = p[2] => o = p
  BY <1>4 DEF NameInv
<1>7. ~Referred(k)
  BY <1>2 DEF Protected, Referred
<1>8. rec[k] = 0 => \A o \in Originals(k) : Dead(o)
  BY <1>4, <1>5 DEF Dead, Made
<1>9. rev <= rev /\ gen <= gen
  BY DEF TypeInv, RegistryOK
<1>10. UNCHANGED <<rec, rev, gen, owner>>
  BY <1>2 DEF files, registry
<1>11. /\ log'[g].key = k /\ log'[g].objs = Originals(k) /\ log'[g].inc = rec[k]
       /\ log'[g].rev = rev /\ log'[g].gen = gen
  BY <1>3
<1>12. /\ \A o \in log'[g].objs : o[1] = log'[g].key /\ Made(o)'
       /\ \A o, p \in log'[g].objs : o[2] = p[2] => o = p
       /\ log'[g].inc = 0 => \A o \in log'[g].objs : Dead(o)'
  BY <1>4, <1>5, <1>6, <1>8, <1>10, <1>11 DEF Made, Dead
<1>13. ~Referred(log[g].key)'
  BY <1>1, <1>7, <1>10, <1>11 DEF Referred
<1>14. QED
  BY <1>9, <1>10, <1>11, <1>12, <1>13 DEF JournalOK

\* How a job comes to remove its record and to delete its components.
LEMMA JobFlow ==
    ASSUME TypeInv, AuthorityInv, NameInv, FluxInv, Next
    PROVE  /\ job'.pc = "remove" =>
                 /\ job'.g = job.g /\ UNCHANGED <<registry, log>>
                 /\ job.pc = "remove" \/ (job.pc = "commit" /\ Unchanged(job.g))
           /\ job'.pc = "delete" =>
                 /\ job'.g = job.g /\ job.pc \in {"delete", "remove", "finish"}
                 /\ job.pc # "delete" => Removes
<1>1. CASE Stage
  <2>1. job.pc = "stage" /\ job.pc # "none"
    BY <1>1 DEF Stage, Ready
  <2>2. UNCHANGED made
    BY <1>1 DEF Stage, groups
  <2>3. job'.pc \in {"commit", "stage"}
    BY <1>1, <2>1, <2>2, StageEffect, JobMoves, JobFacts DEF Pcs
  <2>4. QED
    BY <2>3
<1>2. CASE Delete
  <2>1. job.pc = "delete" /\ job.pc # "none" /\ UNCHANGED <<made, registry, log>>
    BY <1>2 DEF Delete, Ready
  <2>2. UNCHANGED job \/ job' = [job EXCEPT !.pc = "close"] \/ EndJob
    BY <1>2, DeleteEffect DEF DropJournal
  <2>3. QED
    BY <2>1, <2>2, JobMoves DEF Pcs
<1>3. CASE Restore
  <2>1. job.pc = "restore" /\ job.pc # "none" /\ UNCHANGED <<made, registry, log>>
    BY <1>3 DEF Restore, Ready
  <2>2. \/ UNCHANGED job \/ job' = [job EXCEPT !.pc = "close"] \/ EndJob
        \/ \E o \in Objs : job' = [job EXCEPT !.done = @ \cup {o}]
    BY <1>3, <2>1, JobFacts, RestoreEffect DEF ClearTransients, RemoveGroup, FailJob
  <2>3. job'.pc \in {"restore", "close", "none"}
    BY <2>1, <2>2, JobMoves DEF Pcs
  <2>4. QED
    BY <2>3
<1>4. CASE RemoveRecord \/ Finish \/ FailAfterSave
  <2>1. job.pc \in {"remove", "finish"} /\ job.pc # "none" /\ UNCHANGED <<made, log, owner>>
    BY <1>4 DEF RemoveRecord, Finish, FailAfterSave, Ready, files, groups
  <2>2. (job' = [job EXCEPT !.pc = "delete"] /\ Removes) \/ EndJob
    BY <1>4, <2>1 DEF RemoveRecord, Finish, FailAfterSave, Ready, FailJob, Removes
  <2>3. QED
    BY <2>1, <2>2, JobMoves DEF Pcs
<1>5. CASE \E k \in Keys : Begin(k)
  <2>1. UNCHANGED job \/ job'.pc = "journal"
    BY <1>5 DEF Begin
  <2>2. job.pc = "none"
    BY <1>5 DEF Begin, Ready
  <2>3. QED
    BY <2>1, <2>2
<1>6. CASE MarkCommitted
  <2>1. job.pc = "commit" /\ job.pc # "none" /\ UNCHANGED <<made, registry, log>>
    BY <1>6 DEF MarkCommitted, Ready
  <2>2. job' = Rollback(job) \/ (job' = [job EXCEPT !.pc = "remove"] /\ Unchanged(job.g))
    BY <1>6 DEF MarkCommitted
  <2>3. QED
    BY <2>1, <2>2, JobMoves DEF Pcs
<1>7. CASE PersistJournal \/ Close \/ Fail
  <2>1. job.pc # "none" /\ UNCHANGED made
    BY <1>7 DEF PersistJournal, Close, Fail, Ready, groups
  <2>2. job' = [job EXCEPT !.pc = "stage"] \/ job' = Rollback(job) \/ EndJob
    BY <1>7 DEF PersistJournal, Close, Fail, FailJob
  <2>3. job'.pc \in {"stage", "restore", "none"}
    BY <2>1, <2>2, JobMoves DEF Pcs
  <2>4. QED
    BY <2>3
<1>8. CASE (\E g \in Groups : VisitGroup(g))
  <2>1. job.pc = "none"
    BY <1>8 DEF VisitGroup, Ready
  <2>2. UNCHANGED job \/ job'.pc \in {"close", "sweep", "restore", "finish"}
    BY <1>8 DEF VisitGroup, Visit
  <2>3. QED
    BY <2>1, <2>2
<1>9. CASE Kill \/ PowerFail
  BY <1>9, NoJobType DEF Kill, PowerFail, Stopped
<1>10. CASE Sync \/ Plan \/ WriteTemp \/ EndApply \/ EndPass \/ Recheck \/ StartApply \/ StartDaemon \/ StopDaemon
  <2>1. UNCHANGED <<job, registry, log>>
    BY <1>10 DEF Sync, Plan, WriteTemp, EndApply, EndPass, Recheck, StartApply, StartDaemon, StopDaemon, Start, groups, process
  <2>2. QED
    BY <2>1
<1>11. CASE \E k \in Keys : Admit(k) \/ Toggle(k) \/ \E c \in Comps : Write(k, c)
  <2>1. UNCHANGED job /\ mode \notin Running
    BY <1>11 DEF Admit, Toggle, Write, Writable, process, Running
  <2>2. job.pc = "none"
    BY <2>1 DEF TypeInv, ProcessOK
  <2>3. QED
    BY <2>1, <2>2
<1>12. CASE Sweep
  <2>1. job.pc = "sweep" /\ job.pc # "none" /\ UNCHANGED made
    BY <1>12 DEF Sweep, Ready
  <2>2. UNCHANGED job \/ job' = [job EXCEPT !.pc = "close"]
    BY <1>12 DEF Sweep
  <2>3. job'.pc \in {"sweep", "close"}
    BY <2>1, <2>2, JobMoves DEF Pcs
  <2>4. QED
    BY <2>3
<1>13. QED
  BY <1>1, <1>2, <1>3, <1>4, <1>5, <1>6, <1>7, <1>8, <1>9, <1>10, <1>11, <1>12 DEF Next, Step, Environment

\* Every step preserves the authority layer.
LEMMA AuthoritySteps ==
    ASSUME TypeInv, AuthorityInv, NameInv, FluxInv, Next, CoveredStep
    PROVE  AuthorityInv'
<1>1. \A g \in Begun' : JournalOK(g)'
  <2>1. ASSUME NEW g \in Begun' PROVE JournalOK(g)'
    <3>1. CASE g \in Begun
      BY <3>1, JournalSteps
    <3>2. CASE g \notin Begun
      <4>1. made \in Nat /\ made' # made
        BY <3>2, BegunFacts DEF Begun
      <4>2. PICK k \in Keys : Begin(k)
        BY <4>1, RegistrySteps DEF Removes
      <4>3. made' = made + 1
        BY <4>1, <4>2 DEF Begin, groups
      <4>4. g = made + 1
        BY <3>2, <4>1, <4>3 DEF Begun
      <4>5. QED
        BY <4>2, <4>3, <4>4, NewJournal
    <3>3. QED
      BY <3>1, <3>2
  <2>2. QED
    BY <2>1
<1>2. ASSUME job'.pc = "remove" PROVE Unchanged(job.g)'
  <2>1. job'.g = job.g /\ UNCHANGED <<rec, rev, gen, log>> /\ Unchanged(job.g)
    BY <1>2, JobFlow DEF AuthorityInv, registry
  <2>2. QED
    BY <2>1 DEF Unchanged, SameAuthority
<1>3. ASSUME job'.pc = "delete", NEW o \in log'[job'.g].objs PROVE ~Live(o)'
  <2>1. job.pc # "none" /\ job'.g = job.g
    BY <1>3, JobFlow
  <2>2. job.g \in Begun /\ o \in log[job.g].objs /\ o \in Objs
    BY <1>3, <2>1, JobFacts, JournalSteps
  <2>3. Made(o) /\ o[1] = log[job.g].key /\ ~Referred(o[1]) /\ o[1] \in Keys
    BY <2>2 DEF AuthorityInv, JournalOK, Objs
  <2>4. ~Referred(o[1])' /\ Made(o)'
    BY <2>2, <2>3, LiveShrinks
  <2>5. Dead(o)'
    <3>1. CASE job.pc = "delete"
      <4>1. Dead(o)
        BY <2>2, <2>3, <3>1 DEF AuthorityInv, Live
      <4>2. QED
        BY <2>2, <2>3, <4>1, LiveShrinks
    <3>2. CASE Removes /\ log[job.g].inc = 0
      <4>1. Dead(o)
        BY <2>2, <3>2 DEF AuthorityInv, JournalOK
      <4>2. QED
        BY <2>2, <2>3, <4>1, LiveShrinks
    <3>3. CASE Removes /\ log[job.g].inc # 0
      <4>1. rec'[o[1]] = 0 /\ UNCHANGED owner
        BY <2>3, <3>3 DEF Removes, SaveWithout, TypeInv, RegistryOK
      <4>2. QED
        BY <2>3, <4>1 DEF Dead, Made
    <3>4. QED
      BY <1>3, <3>1, <3>2, <3>3, JobFlow
  <2>6. QED
    BY <2>4, <2>5 DEF Live
<1>4. QED
  BY <1>1, <1>2, <1>3, CounterSteps DEF AuthorityInv
-----------------------------------------------------------------------------
(* Names *)

\* What a job has done so far are components of its group.
LEMMA DoneFlow ==
    ASSUME TypeInv, AuthorityInv, NameInv, FluxInv, Next
    PROVE  \/ job'.pc = "none" \/ job'.done = {}
           \/ /\ job.pc # "none" /\ job'.g = job.g
              /\ job'.done = job.done \/ \E o \in log[job.g].objs : job'.done = job.done \cup {o}
<1>1. CASE Stage
  <2>1. job.pc # "none" /\ UNCHANGED made
    BY <1>1 DEF Stage, Ready, groups
  <2>2. "commit" \in Pcs \ {"none"} /\ {} \in SUBSET Objs
    BY DEF Pcs
  <2>3. QED
    BY <1>1, <2>1, <2>2, StageEffect, JobMoves, JobTypes, JobFacts
<1>2. CASE Delete
  <2>1. job.pc # "none"
    BY <1>2 DEF Delete, Ready
  <2>2. "close" \in Pcs \ {"none"} /\ {} \in SUBSET Objs
    BY DEF Pcs
  <2>3. UNCHANGED job \/ job' = [job EXCEPT !.pc = "close"] \/ EndJob
    BY <1>2, DeleteEffect DEF DropJournal
  <2>4. QED
    BY <2>1, <2>2, <2>3, JobTypes, NoJobType DEF EndJob
<1>3. CASE Restore
  <2>1. job.pc # "none" /\ UNCHANGED made
    BY <1>3 DEF Restore, Ready
  <2>2. "close" \in Pcs \ {"none"} /\ {} \in SUBSET Objs
    BY DEF Pcs
  <2>3. \/ UNCHANGED job \/ job' = [job EXCEPT !.pc = "close"] \/ EndJob
        \/ \E o \in log[job.g].objs : job' = [job EXCEPT !.done = @ \cup {o}]
    BY <1>3, RestoreEffect DEF ClearTransients, RemoveGroup, FailJob
  <2>4. QED
    BY <2>1, <2>2, <2>3, JobTypes, JobMoves, JobFacts, NoJobType DEF EndJob
<1>4. CASE RemoveRecord \/ Finish \/ FailAfterSave \/ MarkCommitted \/ PersistJournal \/ Close \/ Fail
  <2>1. job.pc # "none"
    BY <1>4 DEF RemoveRecord, Finish, FailAfterSave, MarkCommitted, PersistJournal, Close, Fail, Ready
  <2>2. {"delete", "remove", "stage"} \subseteq Pcs \ {"none"} /\ {} \in SUBSET Objs
    BY DEF Pcs
  <2>3. (\E p \in {"delete", "remove", "stage"} : job' = [job EXCEPT !.pc = p]) \/ job' = Rollback(job) \/ EndJob
    BY <1>4 DEF RemoveRecord, Finish, FailAfterSave, MarkCommitted, PersistJournal, Close, Fail, FailJob
  <2>4. CASE \E p \in {"delete", "remove", "stage"} : job' = [job EXCEPT !.pc = p]
    <3>1. PICK p \in {"delete", "remove", "stage"} : job' = [job EXCEPT !.pc = p]
      BY <2>4
    <3>2. p \in Pcs \ {"none"}
      BY <2>2
    <3>3. job'.g = job.g /\ job'.done = job.done
      BY <2>1, <2>2, <3>1, <3>2, JobTypes
    <3>4. QED
      BY <2>1, <3>3
  <2>5. CASE job' = Rollback(job)
    <3>1. job'.done = {}
      BY <2>5 DEF Rollback
    <3>2. QED
      BY <3>1
  <2>6. CASE EndJob
    BY <2>6, NoJobType DEF EndJob
  <2>7. QED
    BY <2>3, <2>4, <2>5, <2>6
<1>5. CASE (\E g \in Groups : VisitGroup(g)) \/ (\E k \in Keys : Begin(k))
  <2>1. job.pc = "none"
    BY <1>5 DEF VisitGroup, Begin, Ready
  <2>2. ASSUME NEW g \in Groups, VisitGroup(g) PROVE UNCHANGED job \/ job'.done = {}
    <3>1. UNCHANGED job \/ Visit(g, "close") \/ Visit(g, "sweep") \/ Visit(g, "restore") \/ Visit(g, "finish")
      BY <2>2 DEF VisitGroup
    <3>2. QED
      BY <3>1 DEF Visit
  <2>3. ASSUME NEW k \in Keys, Begin(k) PROVE UNCHANGED job \/ job'.done = {}
    BY <2>3 DEF Begin
  <2>4. QED
    BY <1>5, <2>1, <2>2, <2>3
<1>6. CASE Kill \/ PowerFail
  BY <1>6, NoJobType DEF Kill, PowerFail, Stopped
<1>7. CASE Sync \/ Plan \/ WriteTemp \/ EndApply \/ EndPass \/ Recheck \/ StartApply \/ StartDaemon \/ StopDaemon
           \/ \E k \in Keys : Admit(k) \/ Toggle(k) \/ \E c \in Comps : Write(k, c)
  <2>1. UNCHANGED job
    BY <1>7 DEF Sync, Plan, WriteTemp, EndApply, EndPass, Recheck, StartApply, StartDaemon, StopDaemon, Start, process,
       Admit, Toggle, Write
  <2>2. QED
    BY <2>1
<1>8. CASE Sweep
  <2>1. job.pc # "none" /\ "close" \in Pcs \ {"none"} /\ {} \in SUBSET Objs
    BY <1>8 DEF Sweep, Ready, Pcs
  <2>2. UNCHANGED job \/ job' = [job EXCEPT !.pc = "close"]
    BY <1>8 DEF Sweep
  <2>3. QED
    BY <2>1, <2>2, JobTypes
<1>9. QED
  BY <1>1, <1>2, <1>3, <1>4, <1>5, <1>6, <1>7, <1>8 DEF Next, Step, Environment

\* Where a writer may come in, nothing waits for a sync.
LEMMA WriterFacts ==
    ASSUME TypeInv, AuthorityInv, FluxInv, NEW k \in Keys, NEW c \in Comps, Write(k, c)
    PROVE  /\ todo = <<>> /\ job.pc = "none" /\ rec[k] # 0
           /\ \A p \in Objs : p[1] = k /\ p[2] = c => Orig \notin Names(p)
           /\ \E n \in Objs : n[1] = k /\ n[2] = c /\ \A o \in Objs : o # n => owner'[o] = owner[o]
<1>1. mode \notin Running /\ rec[k] # 0 /\ \A o \in Originals(k) : o[2] # c
  BY DEF Write, Writable, Running
<1>2. todo = <<>> /\ job.pc = "none"
  BY <1>1 DEF TypeInv, ProcessOK
<1>3. \A p \in Objs : p[1] = k /\ p[2] = c => Orig \notin vis[p]
  BY <1>1 DEF Originals
<1>4. \A p \in Objs : Names(p) = vis[p]
  BY <1>2, Still DEF Names
<1>5. PICK n \in 1..Copies : owner' = [owner EXCEPT ![<<k, c, n>>] = rec[k]]
  BY DEF Write
<1>6. <<k, c, n>> \in Objs /\ \A o \in Objs : o # <<k, c, n>> => owner'[o] = owner[o]
  BY <1>5 DEF Objs, TypeInv, FilesOK
<1>7. <<k, c, n>>[1] = k /\ <<k, c, n>>[2] = c
  OBVIOUS
<1>8. QED
  BY <1>1, <1>2, <1>3, <1>4, <1>6, <1>7

\* Groups are only added, and a journal names the same components for ever.
LEMMA BegunGrows ==
    ASSUME TypeInv, AuthorityInv, NameInv, FluxInv, Next
    PROVE  Begun \subseteq Begun' /\ \A g \in Begun : log'[g] = log[g]
<1>1. made \in Nat /\ (made' = made \/ made' = made + 1)
  <2>1. made \in Nat
    BY BegunFacts
  <2>2. UNCHANGED made \/ \E k \in Keys : Begin(k)
    BY RegistrySteps DEF Removes
  <2>3. QED
    BY <2>1, <2>2 DEF Begin, groups
<1>2. Begun \subseteq Begun'
  BY <1>1 DEF Begun
<1>3. QED
  BY <1>2, JournalSteps

\* Every step preserves the layer of names.
LEMMA NameSteps ==
    ASSUME TypeInv, AuthorityInv, NameInv, FluxInv, Next, CoveredStep
    PROVE  NameInv'
<1>1. ASSUME NEW o \in Objs, NEW l \in Names(o)', l # Orig PROVE l[1] \in Begun' /\ o \in log'[l[1]].objs
  <2>1. l[1] \in Begun /\ o \in log[l[1]].objs
    <3>1. CASE l \in Names(o)
      BY <1>1, <3>1 DEF NameInv
    <3>2. CASE Renamed(o, l)
      <4>1. job.pc # "none" /\ job.g \in Begun /\ o \in log[job.g].objs
        BY <3>2, JobFacts DEF Renamed
      <4>2. \E r \in Roles : l = At(job.g, r)
        BY <1>1, <3>2 DEF Renamed, Roles
      <4>3. l[1] = job.g
        BY <4>2 DEF At
      <4>4. QED
        BY <4>1, <4>3
    <3>3. QED
      BY <1>1, <3>1, <3>2, NewNames
  <2>2. QED
    BY <2>1, BegunGrows
<1>2. ASSUME NEW o \in Objs, NEW p \in Objs, o[1] = p[1], o[2] = p[2], Orig \in Names(o)', Renamed(o, Orig),
             Orig \in Names(p)
      PROVE  FALSE
  <2>1. todo = <<>> /\ job.g \in Groups /\ job.pc # "none"
    BY <1>2, JobFacts DEF Renamed
  <2>2. Names(p) = vis[p]
    BY <2>1, Still DEF Names
  <2>3. Taken(o)
    BY <1>2, <2>2 DEF Taken
  <2>4. \A r \in Roles : At(job.g, r) # Orig
    BY <2>1, NameFacts
  <2>5. QED
    BY <1>2, <2>3, <2>4 DEF Renamed, Roles
<1>3. ASSUME NEW o \in Objs, NEW p \in Objs, o[1] = p[1], o[2] = p[2], Written(o), Orig \in Names(p)
      PROVE  FALSE
  BY <1>3, WriterFacts DEF Written
<1>4. ASSUME NEW o \in Objs, Written(o) PROVE \A l : ~Renamed(o, l) /\ job.pc = "none"
  BY <1>4, WriterFacts DEF Written, Renamed
<1>5. ASSUME NEW o \in Objs, NEW p \in Objs, o[1] = p[1], o[2] = p[2], Orig \in Names(o)', Orig \in Names(p)'
      PROVE  o = p
  <2>1. \/ Orig \in Names(o) \/ Renamed(o, Orig) \/ Written(o)
    BY <1>5, NewNames
  <2>2. \/ Orig \in Names(p) \/ Renamed(p, Orig) \/ Written(p)
    BY <1>5, NewNames
  <2>3. CASE Orig \in Names(o) /\ Orig \in Names(p)
    BY <1>5, <2>3 DEF NameInv
  <2>4. CASE Renamed(o, Orig) /\ Renamed(p, Orig)
    <3>1. job.g \in Begun /\ o \in log[job.g].objs /\ p \in log[job.g].objs
      BY <2>4, JobFacts DEF Renamed
    <3>2. QED
      BY <1>5, <3>1 DEF AuthorityInv, JournalOK
  <2>5. CASE Written(o) /\ Written(p)
    <3>1. PICK k \in Keys, c \in Comps : Write(k, c) /\ o[1] = k /\ o[2] = c /\ owner[o] = 0 /\ owner'[o] = rec[k]
      BY <2>5 DEF Written
    <3>2. owner[p] = 0 /\ owner'[p] = rec[k]
      BY <1>5, <2>5, <3>1 DEF Written
    <3>3. QED
      BY <3>1, <3>2, WriterFacts
  <2>6. CASE Renamed(o, Orig) /\ Written(p)
    BY <2>6, <1>4 DEF Renamed
  <2>7. CASE Renamed(p, Orig) /\ Written(o)
    BY <2>7, <1>4 DEF Renamed
  <2>8. QED
    BY <1>2, <1>3, <1>5, <2>1, <2>2, <2>3, <2>4, <2>5, <2>6, <2>7
<1>6. ASSUME job'.pc # "none" PROVE job'.done \subseteq log'[job'.g].objs
  <2>1. CASE job'.done = {}
    BY <2>1
  <2>2. CASE /\ job.pc # "none" /\ job'.g = job.g
             /\ job'.done = job.done \/ \E o \in log[job.g].objs : job'.done = job.done \cup {o}
    <3>1. job.done \subseteq log[job.g].objs /\ log'[job.g] = log[job.g]
      BY <2>2, JobFacts, BegunGrows DEF NameInv
    <3>2. QED
      BY <2>2, <3>1
  <2>3. QED
    BY <1>6, <2>1, <2>2, DoneFlow
<1>7. QED
  BY <1>1, <1>5, <1>6 DEF NameInv
-----------------------------------------------------------------------------
(* Syncs to come *)

\* A step that starts with nothing to sync plans the syncs of what it changes.
LEMMA FluxFrom ==
    ASSUME TypeInv, FluxInv, UNCHANGED limits, Smooth' => Smooth, todo = <<>>, Len(todo') <= 2,
           Smooth => UNCHANGED <<dur, jd>>,
           Smooth => \A o \in Objs, l \in Locs :
              (l \in vis'[o]) # (l \in vis[o]) => \E i \in DOMAIN todo' : InDir(o, l, todo'[i]),
           Smooth => \A g \in Groups :
              jv'[g].phase # jv[g].phase => \E i \in DOMAIN todo' : todo'[i] = Group(g)
    PROVE  FluxInv'
<1>1. ASSUME Smooth', NEW o \in Objs, NEW l \in Locs, Differs(o, l)' PROVE \E i \in DOMAIN todo' : InDir(o, l, todo'[i])
  BY <1>1, Still DEF Differs
<1>2. ASSUME Smooth', NEW g \in Groups, jv'[g].phase # jd'[g].phase PROVE \E i \in DOMAIN todo' : todo'[i] = Group(g)
  BY <1>2, Still
<1>3. QED
  BY <1>1, <1>2 DEF FluxInv

\* Sequences of one or two directories.
LEMMA TodoFacts ==
    ASSUME NEW a, NEW b
    PROVE  /\ Len(<<a, b>>) = 2 /\ DOMAIN <<a, b>> = {1, 2} /\ <<a, b>>[1] = a /\ <<a, b>>[2] = b
           /\ Head(<<a, b>>) = a /\ Tail(<<a, b>>) = <<b>>
           /\ Len(<<a>>) = 1 /\ DOMAIN <<a>> = {1} /\ <<a>>[1] = a /\ Head(<<a>>) = a /\ Tail(<<a>>) = <<>>
           /\ Len(<<>>) = 0
OBVIOUS

\* Names that come or go under a rename.
LEMMA RenameDiffers ==
    ASSUME TypeInv, NEW o \in Objs, NEW from, NEW to, Renames(o, from, to), NEW p \in Objs, NEW l,
           (l \in vis'[p]) # (l \in vis[p])
    PROVE  p = o /\ (l = from \/ l = to)
BY DEF Renames, TypeInv, FilesOK

\* A name that goes with a deletion.
LEMMA ShrinkDiffers ==
    ASSUME TypeInv, NEW o \in Objs, NEW n, vis' = [vis EXCEPT ![o] = @ \ {n}], NEW p \in Objs, NEW l,
           (l \in vis'[p]) # (l \in vis[p])
    PROVE  p = o /\ l = n
BY DEF TypeInv, FilesOK

\* Staging, deleting and restoring plan the syncs of the directories they change.
LEMMA FluxJobs ==
    ASSUME TypeInv, AuthorityInv, NameInv, FluxInv, UNCHANGED limits, Stage \/ Delete \/ Restore
    PROVE  FluxInv'
<1>1. UNCHANGED <<spent, jd>> /\ todo = <<>> /\ job.pc # "none"
  BY DEF Stage, Delete, Restore, Ready, groups
<1>2. Smooth' = Smooth
  BY <1>1, SmoothFacts
<1>3. job.g \in Groups /\ log[job.g].objs \subseteq Objs
  BY <1>1, JobFacts
<1> DEFINE grp == Group(job.g)
<1>4. ASSUME NEW o \in Objs, NEW r \in Roles
      PROVE  /\ InDir(o, At(job.g, r), grp) /\ InDir(o, Orig, Parent(o))
  BY <1>3, NameFacts
<1>5. /\ Len(<<grp>>) <= 2 /\ \E i \in DOMAIN <<grp>> : <<grp>>[i] = grp
      /\ \A a : /\ Len(<<grp, a>>) <= 2 /\ \E i \in DOMAIN <<grp, a>> : <<grp, a>>[i] = grp
                /\ \E i \in DOMAIN <<grp, a>> : <<grp, a>>[i] = a
                /\ Len(<<a, grp>>) <= 2 /\ \E i \in DOMAIN <<a, grp>> : <<a, grp>>[i] = grp
                /\ \E i \in DOMAIN <<a, grp>> : <<a, grp>>[i] = a
  BY TodoFacts
<1> HIDE DEF grp
\* Nothing to sync, and nothing changed.
<1>6. CASE UNCHANGED <<vis, todo>> /\ (Smooth => UNCHANGED dur) /\ UNCHANGED jv
  BY <1>1, <1>2, <1>6, FluxFrom
\* A change of the journal or of names in the group.
<1>7. CASE /\ todo' = <<grp>> /\ (Smooth => UNCHANGED dur)
           /\ jv' = [jv EXCEPT ![job.g] = jv'[job.g]]
           /\ \A o \in Objs, l \in Locs : (l \in vis'[o]) # (l \in vis[o]) => \E r \in Roles : l = At(job.g, r)
  <2>1. \A o \in Objs, l \in Locs : (l \in vis'[o]) # (l \in vis[o]) => \E i \in DOMAIN todo' : InDir(o, l, todo'[i])
    BY <1>4, <1>5, <1>7
  <2>2. \A g \in Groups : jv'[g].phase # jv[g].phase => g = job.g
    BY <1>7 DEF TypeInv, GroupsOK
  <2>3. \A g \in Groups : jv'[g].phase # jv[g].phase => \E i \in DOMAIN todo' : todo'[i] = Group(g)
    BY <1>5, <1>7, <2>2 DEF grp
  <2>4. QED
    BY <1>1, <1>2, <1>5, <1>7, <2>1, <2>3, FluxFrom
\* A move between the group and the parent directory.
<1>8. ASSUME NEW o \in log[job.g].objs, NEW r \in Roles, UNCHANGED jv,
             Renames(o, Orig, At(job.g, r)) \/ Renames(o, At(job.g, r), Orig),
             todo' = <<grp, Parent(o)>> \/ todo' = <<Parent(o), grp>>
      PROVE  FluxInv'
  <2>1. ASSUME NEW p \in Objs, NEW l \in Locs, (l \in vis'[p]) # (l \in vis[p])
        PROVE  \E i \in DOMAIN todo' : InDir(p, l, todo'[i])
    <3>1. p = o /\ (l = Orig \/ l = At(job.g, r))
      BY <1>3, <1>8, <2>1, RenameDiffers
    <3>2. QED
      BY <1>4, <1>5, <1>8, <3>1
  <2>2. Smooth => UNCHANGED dur
    BY <1>8 DEF Renames
  <2>3. Len(todo') <= 2
    BY <1>5, <1>8
  <2>4. QED
    BY <1>1, <1>2, <1>8, <2>1, <2>2, <2>3, FluxFrom
<1>9. CASE Stage
  <2>1. UNCHANGED jv /\ "staged" \in Roles
    BY <1>9 DEF Stage, groups, Roles
  <2>2. CASE UNCHANGED <<files, todo>>
    BY <1>6, <2>1, <2>2 DEF files
  <2>3. CASE \E o \in log[job.g].objs :
                 Renames(o, Orig, At(job.g, "staged")) /\ todo' = <<Group(job.g), Parent(o)>>
    BY <1>8, <2>1, <2>3 DEF grp
  <2>4. QED
    BY <1>9, <2>2, <2>3, StageEffect
<1>10. ASSUME NEW o \in log[job.g].objs, NEW r \in Roles, NEW q \in Roles, Renames(o, At(job.g, r), At(job.g, q)),
              SyncGroup, UNCHANGED jv
       PROVE  FluxInv'
  <2>1. \A p \in Objs, l \in Locs : (l \in vis'[p]) # (l \in vis[p]) => l = At(job.g, r) \/ l = At(job.g, q)
    BY <1>3, <1>10, RenameDiffers
  <2>2. Smooth => UNCHANGED dur
    BY <1>10 DEF Renames
  <2>3. jv' = [jv EXCEPT ![job.g] = jv'[job.g]]
    BY <1>1, <1>10, SameJournal
  <2>4. QED
    BY <1>7, <1>10, <2>1, <2>2, <2>3 DEF SyncGroup, grp
<1>11. CASE Delete
  <2>1. CASE DropJournal
    <3>1. jv' = [jv EXCEPT ![job.g] = jv'[job.g]]
      BY <1>1, <2>1, SetsJournal DEF DropJournal, Phases
    <3>2. QED
      BY <1>7, <2>1, <3>1 DEF DropJournal, SyncGroup, grp, files
  <2>2. CASE \E o \in log[job.g].objs, l \in {At(job.g, "trash"), At(job.g, "deletion")} :
                /\ vis' = [vis EXCEPT ![o] = @ \ {l}] /\ Shrinks(o) /\ SyncGroup /\ UNCHANGED <<job, jv>>
    <3>1. PICK o \in log[job.g].objs, n \in {At(job.g, "trash"), At(job.g, "deletion")} :
                /\ vis' = [vis EXCEPT ![o] = @ \ {n}] /\ Shrinks(o) /\ SyncGroup /\ UNCHANGED <<job, jv>>
      BY <2>2
    <3>2. \A p \in Objs, l \in Locs : (l \in vis'[p]) # (l \in vis[p]) => l = n
      BY <1>3, <3>1, ShrinkDiffers
    <3>3. \A p \in Objs, l \in Locs : (l \in vis'[p]) # (l \in vis[p]) => \E r \in Roles : l = At(job.g, r)
      BY <3>1, <3>2 DEF Roles
    <3>4. jv' = [jv EXCEPT ![job.g] = jv'[job.g]]
      BY <1>1, <3>1, SameJournal
    <3>5. QED
      BY <1>7, <3>1, <3>3, <3>4 DEF SyncGroup, Shrinks, grp
  <2>3. CASE \E o \in log[job.g].objs : Shrinks(o) /\ EndJob /\ UNCHANGED <<vis, todo, jv>>
    BY <1>6, <2>3 DEF Shrinks
  <2>4. CASE \E o \in log[job.g].objs, q \in {"trash", "deletion"} :
                /\ Renames(o, At(job.g, "staged"), At(job.g, q)) /\ SyncGroup /\ UNCHANGED <<job, jv>>
    BY <1>10, <2>4 DEF Roles
  <2>5. QED
    BY <1>11, <2>1, <2>2, <2>3, <2>4, DeleteEffect
<1>12. CASE Restore
  <2>1. CASE ClearTransients
    <3>1. jv[job.g].phase \in Phases
      BY <1>1, JobFacts DEF Journals
    <3>2. jv' = [jv EXCEPT ![job.g] = jv'[job.g]]
      BY <1>1, <2>1, <3>1, SetsJournal DEF ClearTransients
    <3>3. \A p \in Objs, l \in Locs : (l \in vis'[p]) # (l \in vis[p]) => l = At(job.g, "trash")
      BY <2>1 DEF ClearTransients
    <3>4. QED
      BY <1>7, <2>1, <3>2, <3>3 DEF ClearTransients, SyncGroup, grp, Roles
  <2>2. CASE RemoveGroup
    <3>1. CASE UNCHANGED <<jv, todo>>
      BY <1>6, <2>2, <3>1 DEF RemoveGroup, files
    <3>2. CASE (JournalIs("none", "tombstone") \/ JournalIs("none", "none")) /\ SyncGroup
      <4>1. jv' = [jv EXCEPT ![job.g] = jv'[job.g]]
        BY <1>1, <3>2, SetsJournal DEF Phases
      <4>2. QED
        BY <1>7, <2>2, <3>2, <4>1 DEF RemoveGroup, SyncGroup, grp, files
    <3>3. QED
      BY <2>2, <3>1, <3>2 DEF RemoveGroup
  <2>3. CASE UNCHANGED <<vis, todo, jv>> /\ (Smooth => UNCHANGED dur)
    BY <1>6, <2>3
  <2>4. CASE \E o \in log[job.g].objs, r \in {"staged", "restoring"}, q \in {"trash", "restoring"} :
                /\ Renames(o, At(job.g, r), At(job.g, q)) /\ SyncGroup /\ UNCHANGED jv
    BY <1>10, <2>4 DEF Roles
  <2>5. CASE \E o \in log[job.g].objs :
                /\ Renames(o, At(job.g, "restoring"), Orig) /\ todo' = <<Parent(o), Group(job.g)>> /\ UNCHANGED jv
    BY <1>8, <2>5 DEF grp, Roles
  <2>6. QED
    BY <1>12, <2>1, <2>2, <2>3, <2>4, <2>5, RestoreEffect DEF files
<1>13. QED
  BY <1>9, <1>11, <1>12

\* The next sync covers what it is made for.
LEMMA FluxSync ==
    ASSUME TypeInv, FluxInv, UNCHANGED limits, Sync
    PROVE  FluxInv'
<1> DEFINE d == Head(todo)
<1>1. /\ todo # <<>> /\ dur' = [o \in Objs |-> SyncedNames(o, d)] /\ todo' = Tail(todo)
      /\ jd' = IF d[2] = "group" THEN [jd EXCEPT ![d[1]] = jv[d[1]]] ELSE jd
      /\ UNCHANGED <<vis, jv, spent>>
  BY DEF Sync
<1>2. todo \in Seq(Dirs) /\ Smooth' = Smooth
  BY <1>1, SmoothFacts DEF TypeInv, ProcessOK
<1>3. /\ Len(todo') <= 2
      /\ \A i \in DOMAIN todo : i # 1 => i - 1 \in DOMAIN todo' /\ todo'[i - 1] = todo[i]
      /\ todo[1] = d
  <2>1. Len(todo) \in Nat /\ Len(todo) # 0 /\ DOMAIN todo = 1..Len(todo) /\ Len(todo) <= 2
    BY <1>1, <1>2 DEF FluxInv
  <2>2. Tail(todo) \in Seq(Dirs) /\ Len(Tail(todo)) = Len(todo) - 1 /\ DOMAIN Tail(todo) = 1..(Len(todo) - 1)
    BY <1>1, <1>2
  <2>3. \A i \in 1..(Len(todo) - 1) : Tail(todo)[i] = todo[i + 1]
    BY <1>1, <1>2
  <2>4. ASSUME NEW i \in DOMAIN todo, i # 1 PROVE i - 1 \in DOMAIN todo' /\ todo'[i - 1] = todo[i]
    <3>1. i \in Nat /\ i - 1 \in 1..(Len(todo) - 1) /\ (i - 1) + 1 = i
      BY <2>1, <2>4
    <3>2. QED
      BY <1>1, <2>2, <2>3, <3>1
  <2>5. Len(todo') <= 2
    BY <1>1, <2>1, <2>2
  <2>6. todo[1] = d
    BY <1>1, <1>2
  <2>7. QED
    BY <2>4, <2>5, <2>6
<1> HIDE DEF d
<1>4. ASSUME Smooth', NEW o \in Objs, NEW l \in Locs, Differs(o, l)' PROVE \E i \in DOMAIN todo' : InDir(o, l, todo'[i])
  <2>1. (l \in vis[o]) # (l \in SyncedNames(o, d))
    BY <1>1, <1>4 DEF Differs
  <2>2. Differs(o, l) /\ ~InDir(o, l, d)
    BY <2>1 DEF SyncedNames, Differs
  <2>3. PICK i \in DOMAIN todo : InDir(o, l, todo[i])
    BY <1>2, <1>4, <2>2 DEF FluxInv
  <2>4. i # 1
    BY <1>3, <2>2, <2>3
  <2>5. QED
    BY <1>3, <2>3, <2>4
<1>5. ASSUME Smooth', NEW g \in Groups, jv'[g].phase # jd'[g].phase PROVE \E i \in DOMAIN todo' : todo'[i] = Group(g)
  <2>1. jv[g].phase # jd[g].phase /\ d # Group(g)
    BY <1>1, <1>5 DEF Group, TypeInv, GroupsOK
  <2>2. PICK i \in DOMAIN todo : todo[i] = Group(g)
    BY <1>2, <1>5, <2>1 DEF FluxInv
  <2>3. i # 1
    BY <1>3, <2>1, <2>2
  <2>4. QED
    BY <1>3, <2>2, <2>3
<1>6. QED
  BY <1>3, <1>4, <1>5 DEF FluxInv

\* Steps that leave names alone.
LEMMA FluxCalls ==
    ASSUME TypeInv, AuthorityInv, NameInv, FluxInv, UNCHANGED limits, UNCHANGED <<spent, files, jd>>,
           \/ Plan \/ (\E k \in Keys : Begin(k)) \/ WriteTemp \/ PersistJournal \/ MarkCommitted \/ RemoveRecord
           \/ Close \/ (\E g \in Groups : VisitGroup(g)) \/ Sweep \/ Finish \/ EndApply \/ EndPass \/ Recheck \/ StartApply
           \/ StartDaemon \/ StopDaemon
    PROVE  FluxInv'
<1>1. todo = <<>>
  <2>1. mode \in {"handoff", "idle", "serving"} => todo = <<>>
    BY DEF TypeInv, ProcessOK, Running
  <2>2. QED
    BY <2>1 DEF Plan, Begin, WriteTemp, PersistJournal, MarkCommitted, RemoveRecord, Close, VisitGroup, Sweep, Finish, EndApply,
       EndPass, Recheck, StartApply, StartDaemon, StopDaemon, Ready
<1>2. UNCHANGED <<vis, dur, jd>> /\ Smooth' = Smooth
  BY SmoothFacts DEF files
<1>3. CASE PersistJournal \/ Sweep \/ (MarkCommitted /\ ~UNCHANGED jv)
  <2>1. job.pc # "none" /\ todo' = <<Group(job.g)>> /\ \E j : jv' = [jv EXCEPT ![job.g] = j]
    BY <1>3 DEF PersistJournal, Sweep, JournalIs, SyncGroup, MarkCommitted, Ready
  <2>2. \A g \in Groups : jv'[g].phase # jv[g].phase => g = job.g
    BY <2>1 DEF TypeInv, GroupsOK
  <2>3. QED
    BY <1>1, <1>2, <2>1, <2>2, TodoFacts, FluxFrom
<1>4. CASE WriteTemp
  <2>1. \A g \in Groups : jv'[g].phase = jv[g].phase
    BY <1>4 DEF WriteTemp, TypeInv, GroupsOK, Journals
  <2>2. UNCHANGED todo
    BY <1>4 DEF WriteTemp, process
  <2>3. QED
    BY <1>1, <1>2, <2>1, <2>2, TodoFacts, FluxFrom
<1>5. ASSUME NEW g \in Groups, VisitGroup(g) PROVE FluxInv'
  <2>1. UNCHANGED <<jv, todo>>
    BY <1>5 DEF VisitGroup, groups
  <2>2. QED
    BY <1>1, <1>2, <2>1, TodoFacts, FluxFrom
<1>6. CASE Close
  <2>1. UNCHANGED jv /\ todo' = <<Quarantine>>
    BY <1>6 DEF Close
  <2>2. QED
    BY <1>1, <1>2, <2>1, TodoFacts, FluxFrom
<1>7. CASE \/ Plan \/ (\E k \in Keys : Begin(k)) \/ RemoveRecord \/ Finish \/ EndApply \/ EndPass \/ Recheck
           \/ StartApply \/ StartDaemon \/ StopDaemon \/ (MarkCommitted /\ UNCHANGED jv)
  <2>1. (todo' = <<Group(job.g)>> \/ UNCHANGED todo) /\ UNCHANGED jv
    BY <1>7 DEF Plan, Begin, MarkCommitted, RemoveRecord, Finish, EndApply, EndPass, Recheck, StartApply, StartDaemon,
       StopDaemon, Start, groups
  <2>2. Len(todo') <= 2
    <3>1. Len(<<Group(job.g)>>) = 1 /\ Len(<<>>) = 0
      OBVIOUS
    <3>2. Len(todo') = 1 \/ Len(todo') = 0
      BY <1>1, <2>1, <3>1
    <3>3. QED
      BY <3>2
  <2>3. QED
    BY <1>1, <1>2, <2>1, <2>2, FluxFrom
<1>8. QED
  BY <1>3, <1>4, <1>5, <1>6, <1>7

\* Every step preserves the layer of syncs.
LEMMA FluxSteps ==
    ASSUME TypeInv, AuthorityInv, NameInv, FluxInv, Next
    PROVE  FluxInv'
<1>1. UNCHANGED limits
  BY DEF Next, Step, Environment
<1>2. CASE Stage \/ Delete \/ Restore
  BY <1>1, <1>2, FluxJobs
<1>3. CASE Sync
  BY <1>1, <1>3, FluxSync
<1>4. CASE Plan \/ (\E k \in Keys : Begin(k)) \/ WriteTemp \/ PersistJournal \/ MarkCommitted \/ RemoveRecord \/ Close
           \/ (\E g \in Groups : VisitGroup(g)) \/ Sweep \/ Finish \/ EndApply \/ EndPass \/ Recheck \/ StartApply \/ StartDaemon
           \/ StopDaemon
  <2>1. UNCHANGED <<spent, files, jd>>
    BY <1>4 DEF Plan, Begin, WriteTemp, PersistJournal, MarkCommitted, RemoveRecord, Close, VisitGroup, Sweep, Finish, EndApply,
       EndPass, Recheck, StartApply, StartDaemon, StopDaemon, Start, groups
  <2>2. QED
    BY <1>1, <1>4, <2>1, FluxCalls
<1>5. CASE \E k \in Keys : Admit(k) \/ Toggle(k) \/ \E c \in Comps : Write(k, c)
  <2>1. UNCHANGED <<groups, process>> /\ Spend("writes") /\ mode \notin Running
    BY <1>5 DEF Admit, Toggle, Write, Writable, Running
  <2>2. todo = <<>> /\ todo' = <<>> /\ UNCHANGED <<jv, jd>> /\ Smooth' = Smooth
    BY <1>1, <2>1, SmoothFacts DEF TypeInv, ProcessOK, groups, process
  <2>3. ASSUME Smooth PROVE \A o \in Objs : vis'[o] = dur'[o]
    <3>1. vis = dur
      BY <2>2, <2>3, Still
    <3>2. QED
      BY <1>5, <3>1 DEF Admit, Toggle, Write, files, TypeInv, FilesOK
  <2>4. QED
    BY <2>2, <2>3, Still, TodoFacts DEF FluxInv, Differs
<1>6. CASE Fail \/ Kill
  <2>1. ~Smooth' /\ todo' = <<>>
    BY <1>1, <1>6, SmoothFacts DEF Fail, Kill, Stopped
  <2>2. QED
    BY <2>1, TodoFacts DEF FluxInv
<1>7. CASE FailAfterSave
  <2>1. ~Smooth' /\ UNCHANGED todo
    BY <1>1, <1>7, SmoothFacts DEF FailAfterSave
  <2>2. QED
    BY <2>1 DEF FluxInv
<1>8. CASE PowerFail
  <2>1. dur' = vis' /\ jd' = jv' /\ todo' = <<>>
    BY <1>8 DEF PowerFail, Stopped
  <2>2. QED
    BY <2>1, TodoFacts DEF FluxInv, Differs
<1>9. QED
  BY <1>2, <1>3, <1>4, <1>5, <1>6, <1>7, <1>8 DEF Next, Step, Environment
-----------------------------------------------------------------------------
(* Components of live records *)

\* A component becomes live only when it is written.
LEMMA LiveFrom ==
    ASSUME TypeInv, AuthorityInv, NameInv, FluxInv, Next, NEW o \in Objs, owner'[o] = owner[o]
    PROVE  /\ Live(o)' => Live(o)
           /\ Live(o)' \/ ~Made(o)' => Live(o) \/ ~Made(o)
           /\ Full(o)' = Full(o)
<1>1. UNCHANGED limits
  BY DEF Next, Step, Environment
<1>2. Made(o)' = Made(o)
  BY DEF Made
<1>3. Live(o)' => Live(o)
  BY <1>2, LiveShrinks DEF Live
<1>4. QED
  BY <1>1, <1>2, <1>3 DEF Full

\* With the same names seen and durable, a sync changes nothing.
LEMMA SyncedSame ==
    ASSUME NEW o \in Objs, vis'[o] = dur'[o]
    PROVE  SyncedNames(o, Head(todo))' = vis'[o]
BY DEF SyncedNames

\* A component whose names stay.
LEMMA SolidStays ==
    ASSUME TypeInv, AuthorityInv, NameInv, FluxInv, SolidInv, Next, NEW o \in Objs,
           owner'[o] = owner[o], bits'[o] = bits[o], vis'[o] = vis[o], Smooth' => Smooth,
           Smooth => dur'[o] = dur[o], Len(todo') = 2 => todo' = todo \/ todo = <<>>
    PROVE  SolidAt(o)'
<1>1. SolidAt(o)
  BY DEF SolidInv
<1>2. /\ Live(o)' \/ ~Made(o)' => bits'[o] = Full(o)'
      /\ Live(o)' => Solid(vis'[o])
  BY <1>1, LiveFrom DEF SolidAt
<1>3. ASSUME Smooth' PROVE Hold(dur[o], o)'
  <2>1. Smooth /\ Hold(dur[o], o) /\ dur'[o] = dur[o]
    BY <1>1, <1>3 DEF SolidAt
  <2>2. QED
    BY <2>1, LiveFrom DEF Hold
<1>4. ASSUME Smooth', Len(todo') = 2 PROVE Hold(SyncedNames(o, Head(todo)), o)'
  <2>1. Smooth /\ dur'[o] = dur[o]
    BY <1>4
  <2>2. CASE todo = <<>>
    <3>1. vis'[o] = dur'[o]
      BY <2>1, <2>2, Still
    <3>2. SyncedNames(o, Head(todo))' = vis'[o]
      BY <3>1, SyncedSame
    <3>3. QED
      BY <1>2, <3>2 DEF Hold
  <2>3. CASE todo' = todo
    <3>1. SyncedNames(o, Head(todo))' = SyncedNames(o, Head(todo))
      BY <2>1, <2>3 DEF SyncedNames
    <3>2. Hold(SyncedNames(o, Head(todo)), o)
      BY <1>1, <1>4, <2>1, <2>3 DEF SolidAt
    <3>3. QED
      BY <3>1, <3>2, LiveFrom DEF Hold
  <2>4. QED
    BY <1>4, <2>2, <2>3
<1>5. QED
  BY <1>2, <1>3, <1>4 DEF SolidAt

\* A component that gets or loses a name.
LEMMA SolidMoves ==
    ASSUME TypeInv, AuthorityInv, NameInv, FluxInv, SolidInv, Next, NEW o \in Objs,
           owner'[o] = owner[o], ~Live(o) \/ (bits'[o] = bits[o] /\ Solid(vis'[o])), Made(o), Smooth' => Smooth,
           todo = <<>>, vis[o] # {}, Smooth => dur'[o] = dur[o],
           Smooth' /\ Len(todo') = 2 => Hold(SyncedNames(o, Head(todo)), o)'
    PROVE  SolidAt(o)'
<1>1. SolidAt(o)
  BY DEF SolidInv
<1>2. Made(o)'
  BY DEF Made
<1>3. /\ Live(o)' \/ ~Made(o)' => bits'[o] = Full(o)'
      /\ Live(o)' => Solid(vis'[o])
  BY <1>1, <1>2, LiveFrom DEF SolidAt
<1>4. ASSUME Smooth' PROVE Hold(dur[o], o)'
  <2>1. Smooth /\ dur'[o] = dur[o]
    BY <1>4
  <2>2. dur'[o] = vis[o]
    BY <2>1, Still
  <2>3. Live(o)' => Solid(vis[o])
    BY <1>1, LiveFrom DEF SolidAt
  <2>4. QED
    BY <2>2, <2>3 DEF Hold
<1>5. QED
  BY <1>3, <1>4 DEF SolidAt

\* After the first of the two syncs of a move, a name is durable on either side.
LEMMA MoveHolds ==
    ASSUME TypeInv, NEW o \in Objs, NEW to \in Locs, to \in vis'[o], Solid({to}), InDir(o, to, Head(todo'))
    PROVE  Hold(SyncedNames(o, Head(todo)), o)'
<1>1. to \in SyncedNames(o, Head(todo))'
  BY DEF SyncedNames
<1>2. Solid(SyncedNames(o, Head(todo))')
  BY <1>1 DEF Solid
<1>3. QED
  BY <1>1, <1>2 DEF Hold

\* A rename that leaves a live component a name that counts.
LEMMA SolidRename ==
    ASSUME TypeInv, AuthorityInv, NameInv, FluxInv, SolidInv, Next, UNCHANGED spent, todo = <<>>,
           NEW o \in Objs, NEW from, NEW to, Renames(o, from, to), Made(o), vis[o] # {},
           ~Live(o) \/ Solid(vis'[o]),
           Len(todo') = 2 => Hold(SyncedNames(o, Head(todo)), o)',
           NEW p \in Objs
    PROVE  SolidAt(p)'
<1>1. UNCHANGED limits
  BY DEF Next, Step, Environment
<1>2. Smooth' = Smooth
  BY <1>1, SmoothFacts
<1>3. UNCHANGED <<bits, owner>> /\ (Smooth => UNCHANGED dur)
  BY DEF Renames
<1>4. CASE p = o
  BY <1>2, <1>3, <1>4, SolidMoves
<1>5. CASE p # o
  <2>1. vis'[p] = vis[p]
    BY <1>5 DEF Renames, TypeInv, FilesOK
  <2>2. QED
    BY <1>2, <1>3, <2>1, SolidStays
<1>6. QED
  BY <1>4, <1>5

\* Staging syncs the group before the parent, so that a component has one of both names.
LEMMA SolidStage ==
    ASSUME TypeInv, AuthorityInv, NameInv, FluxInv, SolidInv, Next, Stage, NEW p \in Objs
    PROVE  SolidAt(p)'
<1>1. UNCHANGED limits /\ UNCHANGED spent /\ todo = <<>> /\ job.pc = "stage" /\ job.pc # "none"
  BY DEF Next, Step, Environment, Stage, Ready
<1>2. Smooth' = Smooth /\ job.g \in Groups /\ job.g \in Begun /\ log[job.g].objs \subseteq Objs
  BY <1>1, SmoothFacts, JobFacts
<1>3. CASE UNCHANGED <<files, todo>>
  BY <1>2, <1>3, SolidStays DEF files
<1>4. CASE \E o \in log[job.g].objs \ job.done :
              Renames(o, Orig, At(job.g, "staged")) /\ todo' = <<Group(job.g), Parent(o)>>
  <2>1. PICK o \in log[job.g].objs \ job.done :
              Renames(o, Orig, At(job.g, "staged")) /\ todo' = <<Group(job.g), Parent(o)>>
    BY <1>4
  <2>2. o \in Objs /\ Made(o) /\ vis[o] # {}
    BY <1>1, <1>2, <2>1 DEF AuthorityInv, JournalOK, SolidInv, Unstaged
  <2>3. At(job.g, "staged") \in Locs /\ At(job.g, "staged")[2] = "staged" /\ InDir(o, At(job.g, "staged"), Group(job.g))
    BY <1>2, <2>2, NameFacts DEF Roles
  <2>4. At(job.g, "staged") \in vis'[o] /\ Solid({At(job.g, "staged")}) /\ Head(todo') = Group(job.g)
    BY <2>1, <2>2, <2>3, TodoFacts DEF Renames, TypeInv, FilesOK, Solid
  <2>5. Solid(vis'[o])
    BY <2>3, <2>4 DEF Solid
  <2>6. Hold(SyncedNames(o, Head(todo)), o)'
    BY <2>2, <2>3, <2>4, MoveHolds
  <2>7. QED
    BY <1>1, <2>1, <2>2, <2>5, <2>6, SolidRename
<1>5. QED
  BY <1>3, <1>4, StageEffect

\* Deleting concerns components that no record and no reference keeps.
LEMMA SolidDelete ==
    ASSUME TypeInv, AuthorityInv, NameInv, FluxInv, SolidInv, Next, Delete, NEW p \in Objs
    PROVE  SolidAt(p)'
<1>1. UNCHANGED limits /\ UNCHANGED spent /\ todo = <<>> /\ job.pc = "delete" /\ job.pc # "none"
  BY DEF Next, Step, Environment, Delete, Ready
<1>2. Smooth' = Smooth /\ job.g \in Groups /\ job.g \in Begun /\ log[job.g].objs \subseteq Objs
  BY <1>1, SmoothFacts, JobFacts
<1>3. \A o \in log[job.g].objs : ~Live(o) /\ Made(o)
  BY <1>1, <1>2 DEF AuthorityInv, JournalOK
<1>4. Len(<<Group(job.g)>>) = 1 /\ Len(<<>>) = 0
  OBVIOUS
<1>5. CASE DropJournal
  <2>1. Len(todo') # 2
    BY <1>4, <1>5 DEF DropJournal, SyncGroup
  <2>2. QED
    BY <1>2, <1>5, <2>1, SolidStays DEF files, DropJournal
<1>6. ASSUME NEW o \in log[job.g].objs, NEW from, NEW to, Renames(o, from, to), vis[o] # {}, SyncGroup
      PROVE  SolidAt(p)'
  <2>1. Len(todo') # 2
    BY <1>4, <1>6 DEF SyncGroup
  <2>2. QED
    BY <1>1, <1>2, <1>3, <1>6, <2>1, SolidRename
<1>7. ASSUME NEW o \in log[job.g].objs, Shrinks(o), (\E l : vis' = [vis EXCEPT ![o] = @ \ {l}]) \/ UNCHANGED vis,
             SyncGroup \/ UNCHANGED todo
      PROVE  SolidAt(p)'
  <2>1. Len(todo') # 2
    BY <1>1, <1>4, <1>7 DEF SyncGroup
  <2>2. o \in Objs /\ UNCHANGED <<dur, owner>>
    BY <1>2, <1>7 DEF Shrinks
  <2>3. CASE p = o
    <3>1. Made(p) /\ Made(p)' /\ ~Live(p) /\ ~Live(p)'
      BY <1>3, <2>2, <2>3, LiveFrom DEF Made
    <3>2. ASSUME Smooth' PROVE Hold(dur[p], p)'
      <4>1. dur'[p] = vis[p]
        BY <1>1, <1>2, <2>2, <3>2, Still
      <4>2. vis'[p] # {} => vis[p] # {}
        BY <1>7, <2>2, <2>3 DEF TypeInv, FilesOK
      <4>3. QED
        BY <3>1, <4>1, <4>2 DEF Hold
    <3>3. QED
      BY <2>1, <3>1, <3>2 DEF SolidAt
  <2>4. CASE p # o
    <3>1. vis'[p] = vis[p] /\ bits'[p] = bits[p]
      BY <1>7, <2>2, <2>4 DEF Shrinks, TypeInv, FilesOK
    <3>2. QED
      BY <1>2, <2>1, <2>2, <3>1, SolidStays
  <2>5. QED
    BY <2>3, <2>4
<1>8. QED
  <2>1. \A o \in log[job.g].objs : At(job.g, "deletion") \in vis[o] \/ At(job.g, "staged") \in vis[o] => vis[o] # {}
    OBVIOUS
  <2>2. QED
    BY <1>5, <1>6, <1>7, <2>1, DeleteEffect

\* Restoring syncs the parent before the group, and drops a name only where another stays.
LEMMA SolidRestore ==
    ASSUME TypeInv, AuthorityInv, NameInv, FluxInv, SolidInv, Next, Restore, NEW p \in Objs
    PROVE  SolidAt(p)'
<1>1. UNCHANGED limits /\ UNCHANGED spent /\ todo = <<>> /\ job.pc = "restore" /\ job.pc # "none"
  BY DEF Next, Step, Environment, Restore, Ready
<1>2. Smooth' = Smooth /\ job.g \in Groups /\ job.g \in Begun /\ log[job.g].objs \subseteq Objs
  BY <1>1, SmoothFacts, JobFacts
<1>3. \A o \in log[job.g].objs : Made(o) /\ o \in Objs
  BY <1>2 DEF AuthorityInv, JournalOK
<1>4. Len(<<Group(job.g)>>) = 1 /\ Len(<<>>) = 0
  OBVIOUS
<1>5. \A r \in Roles : At(job.g, r) # Orig /\ At(job.g, r)[2] = r /\ At(job.g, r) \in Locs
  BY <1>2, <1>3, NameFacts, ObjExists
<1>6. CASE ClearTransients
  <2>1. UNCHANGED <<dur, bits, owner>> /\ vis'[p] = vis[p] \ {At(job.g, "trash")} /\ Len(todo') # 2
    BY <1>4, <1>6 DEF ClearTransients, SyncGroup
  <2>2. CASE vis'[p] = vis[p]
    BY <1>2, <2>1, <2>2, SolidStays
  <2>3. CASE vis'[p] # vis[p]
    <3>1. At(job.g, "trash") \in vis[p]
      BY <2>1, <2>3
    <3>2. Made(p)
      BY <3>1 DEF AuthorityInv, CountersOK, Names
    <3>3. ~Live(p) \/ Solid(vis'[p])
      <4>1. ASSUME Live(p) PROVE Solid(vis'[p])
        <5>1. Solid(vis[p])
          BY <4>1 DEF SolidInv, SolidAt
        <5>2. PICK l \in vis[p] : l[2] \in {"orig", "staged", "restoring"}
          BY <5>1 DEF Solid
        <5>3. l # At(job.g, "trash")
          BY <1>5, <5>2 DEF Roles
        <5>4. QED
          BY <2>1, <5>2, <5>3 DEF Solid
      <4>2. QED
        BY <4>1
    <3>4. QED
      BY <1>1, <1>2, <2>1, <3>1, <3>2, <3>3, SolidMoves
  <2>4. QED
    BY <2>2, <2>3
<1>7. CASE UNCHANGED <<vis, bits, owner>> /\ (Smooth => UNCHANGED dur) /\ Len(todo') # 2
  BY <1>2, <1>7, SolidStays
<1>8. CASE RemoveGroup
  <2>1. UNCHANGED files /\ (SyncGroup \/ UNCHANGED todo)
    BY <1>8 DEF RemoveGroup
  <2>2. Len(todo') # 2
    BY <1>1, <1>4, <2>1 DEF SyncGroup
  <2>3. QED
    BY <1>7, <2>1, <2>2 DEF files
<1>9. ASSUME NEW o \in log[job.g].objs, NEW r \in Roles, Orig \in vis[o], Renames(o, At(job.g, r), At(job.g, "trash")),
             SyncGroup
      PROVE  SolidAt(p)'
  <2>1. Orig \in vis'[o] /\ Len(todo') # 2
    BY <1>3, <1>4, <1>5, <1>9 DEF Renames, TypeInv, FilesOK, SyncGroup
  <2>2. Solid(vis'[o])
    BY <2>1 DEF Solid, Orig
  <2>3. QED
    BY <1>1, <1>3, <1>9, <2>1, <2>2, SolidRename
<1>10. ASSUME NEW o \in log[job.g].objs, Staged(o), Renames(o, At(job.g, "staged"), At(job.g, "restoring")), SyncGroup
       PROVE  SolidAt(p)'
  <2>1. At(job.g, "restoring") \in vis'[o] /\ Len(todo') # 2
    BY <1>3, <1>4, <1>10 DEF Renames, TypeInv, FilesOK, SyncGroup
  <2>2. Solid(vis'[o])
    BY <1>5, <2>1 DEF Solid, Roles
  <2>3. vis[o] # {}
    BY <1>10 DEF Staged
  <2>4. QED
    BY <1>1, <1>3, <1>10, <2>1, <2>2, <2>3, SolidRename
<1>11. ASSUME NEW o \in log[job.g].objs, Restoring(o), Renames(o, At(job.g, "restoring"), Orig),
              todo' = <<Parent(o), Group(job.g)>>
       PROVE  SolidAt(p)'
  <2>1. Orig \in vis'[o] /\ Orig \in Locs /\ InDir(o, Orig, Parent(o)) /\ Head(todo') = Parent(o)
    BY <1>2, <1>3, <1>11, NameFacts, TodoFacts DEF Renames, TypeInv, FilesOK
  <2>2. Solid(vis'[o]) /\ Solid({Orig})
    BY <2>1 DEF Solid, Orig
  <2>3. Hold(SyncedNames(o, Head(todo)), o)'
    BY <1>3, <2>1, <2>2, MoveHolds
  <2>4. vis[o] # {}
    BY <1>11 DEF Restoring
  <2>5. QED
    BY <1>1, <1>3, <1>11, <2>2, <2>3, <2>4, SolidRename
<1>12. QED
  <2>1. Len(todo) # 2
    BY <1>1, <1>4
  <2>2. {"staged", "restoring"} \subseteq Roles
    BY DEF Roles
  <2>3. QED
    BY <1>6, <1>7, <1>8, <1>9, <1>10, <1>11, <2>1, <2>2, RestoreEffect DEF files

\* After either sync of a move a durable name remains.
LEMMA SolidSync ==
    ASSUME TypeInv, AuthorityInv, NameInv, FluxInv, SolidInv, Next, Sync, NEW o \in Objs
    PROVE  SolidAt(o)'
<1>1. UNCHANGED limits /\ FluxInv' /\ SolidAt(o)
  BY FluxSteps DEF Next, Step, Environment, SolidInv
<1>2. /\ todo # <<>> /\ todo' = Tail(todo) /\ dur'[o] = SyncedNames(o, Head(todo))
      /\ UNCHANGED <<vis, bits, owner, spent>> /\ todo \in Seq(Dirs)
  BY DEF Sync, TypeInv, ProcessOK
<1>3. Len(todo') # 2 /\ (Len(todo) = 2 \/ todo' = <<>>)
  <2>1. Len(todo) \in Nat /\ Len(todo) # 0 /\ Len(todo) <= 2 /\ Len(Tail(todo)) = Len(todo) - 1 /\ Tail(todo) \in Seq(Dirs)
    BY <1>2 DEF FluxInv
  <2>2. CASE Len(todo) = 2
    BY <1>2, <2>1, <2>2, SMTT(30)
  <2>3. CASE Len(todo) = 1
    BY <1>2, <2>1, <2>3
  <2>4. QED
    BY <2>1, <2>2, <2>3
<1>4. Smooth' = Smooth
  BY <1>1, <1>2, SmoothFacts
<1>5. /\ Live(o)' \/ ~Made(o)' => bits'[o] = Full(o)'
      /\ Live(o)' => Solid(vis'[o])
  BY <1>1, <1>2, LiveFrom DEF SolidAt
<1>6. ASSUME Smooth' PROVE Hold(dur[o], o)'
  <2>1. CASE Len(todo) = 2
    BY <1>1, <1>2, <1>4, <1>6, <2>1, LiveFrom DEF SolidAt, Hold
  <2>2. CASE todo' = <<>>
    <3>1. DOMAIN todo' = {}
      BY <2>2
    <3>2. \A l \in Locs : (l \in vis'[o]) = (l \in dur'[o])
      BY <1>1, <1>6, <3>1 DEF FluxInv, Differs
    <3>3. dur'[o] \subseteq Locs /\ vis'[o] \subseteq Locs
      BY <1>2, SyncedType DEF TypeInv, FilesOK
    <3>4. dur'[o] = vis'[o]
      BY <3>2, <3>3
    <3>5. QED
      BY <1>5, <3>4 DEF Hold
  <2>3. QED
    BY <1>3, <2>1, <2>2
<1>7. QED
  BY <1>3, <1>5, <1>6 DEF SolidAt

\* A writer makes a component that was not there, durable and complete.
LEMMA SolidWrite ==
    ASSUME TypeInv, AuthorityInv, NameInv, FluxInv, SolidInv, Next, NEW k \in Keys, NEW c \in Comps, Write(k, c),
           NEW o \in Objs
    PROVE  SolidAt(o)'
<1>1. PICK n \in 1..Copies :
          /\ owner[<<k, c, n>>] = 0
          /\ vis' = [vis EXCEPT ![<<k, c, n>>] = {Orig}]
          /\ dur' = [dur EXCEPT ![<<k, c, n>>] = {Orig}]
          /\ owner' = [owner EXCEPT ![<<k, c, n>>] = rec[k]]
  BY DEF Write
<1>2. UNCHANGED limits /\ UNCHANGED bits /\ Spend("writes") /\ UNCHANGED todo
  BY DEF Next, Step, Environment, Write, process
<1>3. Smooth' = Smooth /\ todo' = <<>> /\ Len(<<>>) = 0
  BY <1>2, SmoothFacts, WriterFacts
<1>4. CASE o # <<k, c, n>>
  <2>1. vis'[o] = vis[o] /\ dur'[o] = dur[o] /\ owner'[o] = owner[o]
    BY <1>1, <1>4 DEF TypeInv, FilesOK
  <2>2. QED
    BY <1>2, <1>3, <2>1, SolidStays
<1>5. CASE o = <<k, c, n>>
  <2>1. vis'[o] = {Orig} /\ dur'[o] = {Orig} /\ ~Made(o)
    BY <1>1, <1>5 DEF TypeInv, FilesOK, Made
  <2>2. bits'[o] = Full(o)'
    BY <1>2, <2>1 DEF SolidInv, SolidAt, Full
  <2>3. Solid({Orig})
    BY DEF Solid, Orig
  <2>4. Hold(dur[o], o)'
    BY <2>1, <2>3 DEF Hold
  <2>5. Len(todo') # 2
    BY <1>3
  <2>6. QED
    BY <2>1, <2>2, <2>3, <2>4, <2>5 DEF SolidAt
<1>6. QED
  BY <1>4, <1>5

\* Either side of an unsynced move is enough for a component.
LEMMA SolidPower ==
    ASSUME TypeInv, AuthorityInv, NameInv, FluxInv, SolidInv, Next, CoveredStep, PowerFail, NEW o \in Objs
    PROVE  SolidAt(o)' /\ (vis[o] # {} => vis'[o] # {})
<1>1. UNCHANGED limits /\ Spend("powers") /\ dur' = vis' /\ todo' = <<>> /\ UNCHANGED <<bits, owner>> /\ Len(<<>>) = 0
  BY DEF Next, Step, Environment, PowerFail, Stopped
<1>4. vis'[o] = vis[o] \/ (Smooth /\ vis'[o] \in {dur[o], vis[o] \cup dur[o]})
  BY PowerFacts
<1>5. /\ Live(o) => Solid(vis[o])
      /\ Smooth => (vis[o] # {} => dur[o] # {}) /\ (Live(o) => Solid(dur[o]))
  BY DEF SolidInv, SolidAt, Hold
<1>6. (vis[o] # {} => vis'[o] # {}) /\ (Live(o) => Solid(vis'[o]))
  BY <1>4, <1>5 DEF Solid
<1>7. /\ Live(o)' \/ ~Made(o)' => bits'[o] = Full(o)'
      /\ Live(o)' => Solid(vis'[o])
  BY <1>1, <1>6, LiveFrom DEF SolidInv, SolidAt
<1>8. Hold(dur[o], o)' /\ Len(todo') # 2
  BY <1>1, <1>7 DEF Hold
<1>9. QED
  BY <1>6, <1>7, <1>8 DEF SolidAt

\* Every component of a live record keeps a name through every step.
LEMMA SolidObjects ==
    ASSUME TypeInv, AuthorityInv, NameInv, FluxInv, SolidInv, Next, CoveredStep, NEW o \in Objs
    PROVE  SolidAt(o)'
<1>1. UNCHANGED limits
  BY DEF Next, Step, Environment
<1>2. CASE Stage \/ Delete \/ Restore \/ Sync \/ PowerFail
  BY <1>2, SolidStage, SolidDelete, SolidRestore, SolidSync, SolidPower
<1>3. CASE \E k \in Keys, c \in Comps : Write(k, c)
  BY <1>3, SolidWrite
<1>4. CASE Plan \/ (\E k \in Keys : Begin(k)) \/ WriteTemp \/ PersistJournal \/ MarkCommitted \/ RemoveRecord \/ Close
           \/ (\E g \in Groups : VisitGroup(g)) \/ Sweep \/ Finish \/ EndApply \/ EndPass \/ Recheck \/ StartApply \/ StartDaemon
           \/ StopDaemon \/ (\E k \in Keys : Admit(k) \/ Toggle(k)) \/ Fail \/ FailAfterSave \/ Kill
  <2>1. UNCHANGED files /\ (UNCHANGED spent \/ \E w \in {"kills", "powers", "faults", "writes"} : Spend(w))
    BY <1>4 DEF Plan, Begin, WriteTemp, PersistJournal, MarkCommitted, RemoveRecord, Close, VisitGroup, Sweep, Finish, EndApply,
       EndPass, Recheck, StartApply, StartDaemon, StopDaemon, Start, Admit, Toggle, Fail, FailAfterSave, Kill
  <2>2. UNCHANGED todo \/ todo' = <<>> \/ todo' = <<Group(job.g)>> \/ todo' = <<Quarantine>>
    BY <1>4 DEF Plan, Begin, WriteTemp, PersistJournal, MarkCommitted, RemoveRecord, Close, VisitGroup, Sweep, Finish, EndApply,
       EndPass, Recheck, StartApply, StartDaemon, StopDaemon, Start, Admit, Toggle, Fail, FailAfterSave, Kill, Stopped, process, SyncGroup
  <2>3. Len(<<>>) = 0 /\ Len(<<Group(job.g)>>) = 1 /\ Len(<<Quarantine>>) = 1
    OBVIOUS
  <2>4. Len(todo') = 2 => todo' = todo
    <3>1. CASE UNCHANGED todo
      BY <3>1
    <3>2. CASE ~UNCHANGED todo
      <4>1. Len(todo') = 0 \/ Len(todo') = 1
        BY <2>2, <2>3, <3>2
      <4>2. QED
        BY <4>1
    <3>3. QED
      BY <3>1, <3>2
  <2>5. Smooth' => Smooth
    BY <1>1, <2>1, SmoothFacts
  <2>6. QED
    BY <2>1, <2>4, <2>5, SolidStays DEF files
<1>5. QED
  BY <1>2, <1>3, <1>4 DEF Next, Step, Environment

\* A job that has still to stage is new, stages now or goes on as it was.
LEMMA StageFlow ==
    ASSUME TypeInv, AuthorityInv, NameInv, FluxInv, Next, job'.pc \in {"journal", "stage"}
    PROVE  \/ job.pc = "none" /\ \E k \in Keys : Begin(k) /\ made' = made + 1
           \/ Stage /\ job.pc = "stage" /\ job'.g = job.g
           \/ /\ job.pc \in {"journal", "stage"} /\ job'.g = job.g /\ job'.done = job.done
              /\ UNCHANGED <<vis, log, up>> /\ (UNCHANGED updur \/ updur' = up)
<1>1. made \in Nat
  BY BegunFacts
<1>2. CASE Stage
  <2>1. job.pc # "none" /\ job.pc = "stage" /\ UNCHANGED made
    BY <1>2 DEF Stage, Ready, groups
  <2>2. "commit" \in Pcs \ {"none"} /\ {} \in SUBSET Objs
    BY DEF Pcs
  <2>3. job' = [job EXCEPT !.pc = "commit"] \/ \E o \in Objs : job' = [job EXCEPT !.done = @ \cup {o}]
    BY <1>2, <2>1, StageEffect, JobFacts
  <2>4. job'.g = job.g
    BY <2>1, <2>2, <2>3, JobMoves
  <2>5. QED
    BY <1>2, <2>1, <2>4
<1>3. CASE Delete \/ Restore
  <2>1. job.pc # "none" /\ job.pc \in {"delete", "restore"} /\ UNCHANGED made
    BY <1>3 DEF Delete, Restore, Ready
  <2>2. \/ UNCHANGED job \/ job' = [job EXCEPT !.pc = "close"] \/ EndJob
        \/ \E o \in Objs : job' = [job EXCEPT !.done = @ \cup {o}]
    <3>1. CASE Delete
      BY <3>1, DeleteEffect DEF DropJournal
    <3>2. CASE Restore
      BY <2>1, <3>2, JobFacts, RestoreEffect DEF ClearTransients, RemoveGroup, FailJob
    <3>3. QED
      BY <1>3, <3>1, <3>2
  <2>3. job'.pc \in {"delete", "restore", "close", "none"}
    BY <2>1, <2>2, JobMoves DEF Pcs
  <2>4. QED
    BY <2>3
<1>11. CASE Sweep
  <2>1. job.pc = "sweep" /\ job.pc # "none" /\ UNCHANGED made
    BY <1>11 DEF Sweep, Ready
  <2>2. UNCHANGED job \/ job' = [job EXCEPT !.pc = "close"]
    BY <1>11 DEF Sweep
  <2>3. job'.pc \in {"sweep", "close"}
    BY <2>1, <2>2, JobMoves DEF Pcs
  <2>4. QED
    BY <2>3
<1>4. CASE RemoveRecord \/ Finish \/ FailAfterSave \/ MarkCommitted \/ Close \/ Fail
  <2>1. job.pc # "none" /\ UNCHANGED made
    BY <1>4 DEF RemoveRecord, Finish, FailAfterSave, MarkCommitted, Close, Fail, Ready, groups
  <2>2. (\E p \in {"delete", "remove"} : job' = [job EXCEPT !.pc = p]) \/ job' = Rollback(job) \/ EndJob
    BY <1>4 DEF RemoveRecord, Finish, FailAfterSave, MarkCommitted, Close, Fail, FailJob
  <2>3. job'.pc \in {"delete", "remove", "restore", "none"}
    BY <2>1, <2>2, JobMoves DEF Pcs
  <2>4. QED
    BY <2>3
<1>5. CASE PersistJournal
  <2>1. job.pc # "none" /\ job.pc = "journal" /\ UNCHANGED <<vis, log, up, updur>> /\ job' = [job EXCEPT !.pc = "stage"]
    BY <1>5 DEF PersistJournal, Ready, files
  <2>2. "stage" \in Pcs \ {"none"} /\ {} \in SUBSET Objs
    BY DEF Pcs
  <2>3. job'.g = job.g /\ job'.done = job.done
    BY <2>1, <2>2, JobTypes
  <2>4. QED
    BY <2>1, <2>3
<1>6. ASSUME NEW g \in Groups, VisitGroup(g) PROVE FALSE
  <2>1. job.pc = "none"
    BY <1>6 DEF VisitGroup, Ready
  <2>2. UNCHANGED job \/ Visit(g, "close") \/ Visit(g, "sweep") \/ Visit(g, "restore") \/ Visit(g, "finish")
    BY <1>6 DEF VisitGroup
  <2>3. QED
    BY <2>1, <2>2 DEF Visit
<1>7. ASSUME NEW k \in Keys, Begin(k) PROVE job.pc = "none" /\ made' = made + 1
  <2>1. job.pc = "none"
    BY <1>7 DEF Begin, Ready
  <2>2. UNCHANGED job \/ made' = made + 1
    BY <1>7 DEF Begin
  <2>3. QED
    BY <2>1, <2>2
<1>8. CASE Kill \/ PowerFail
  BY <1>8, NoJobType DEF Kill, PowerFail, Stopped
<1>9. CASE Sync \/ Plan \/ WriteTemp \/ EndApply \/ EndPass \/ Recheck \/ StartApply \/ StartDaemon \/ StopDaemon
  <2>1. UNCHANGED <<job, vis, log, up>> /\ (UNCHANGED updur \/ updur' = up)
    BY <1>9 DEF Sync, Plan, WriteTemp, EndApply, EndPass, Recheck, StartApply, StartDaemon, StopDaemon, Start, process,
       files, groups
  <2>2. QED
    BY <2>1
<1>10. CASE \E k \in Keys : Admit(k) \/ Toggle(k) \/ \E c \in Comps : Write(k, c)
  <2>1. UNCHANGED job /\ mode \notin Running
    BY <1>10 DEF Admit, Toggle, Write, Writable, process, Running
  <2>2. job.pc = "none"
    BY <2>1 DEF TypeInv, ProcessOK
  <2>3. QED
    BY <2>1, <2>2
<1>12. QED
  BY <1>2, <1>3, <1>4, <1>5, <1>6, <1>7, <1>8, <1>9, <1>10, <1>11 DEF Next, Step, Environment

\* The group that Begin makes.
LEMMA BegunNow ==
    ASSUME TypeInv, NEW k \in Keys, Begin(k), made' = made + 1
    PROVE  /\ job'.g = made + 1 /\ job'.done = {} /\ job'.pc = "journal" /\ made + 1 \in Groups
           /\ log'[made + 1].objs = Originals(k) /\ up'[made + 1] /\ updur'[made + 1]
           /\ UNCHANGED <<files, jv, jd, spent>>
           /\ \A g \in Groups \ {made + 1} : up'[g] = up[g] /\ updur'[g] = updur[g]
           /\ jv[made + 1].phase = "none"
<1>1. /\ made < limits.groups /\ made \in Nat
      /\ up' = [up EXCEPT ![made + 1] = TRUE] /\ updur' = [updur EXCEPT ![made + 1] = TRUE]
      /\ log' = [log EXCEPT ![made + 1] = [key |-> k, objs |-> Originals(k), inc |-> rec[k], rev |-> rev, gen |-> gen]]
      /\ job' = [pc |-> "journal", g |-> made + 1, own |-> TRUE, done |-> {}]
      /\ UNCHANGED <<files, jv, jd, spent>>
  BY BegunFacts DEF Begin, groups
<1>2. made + 1 \in Groups /\ made + 1 \notin Begun
  BY <1>1, BegunFacts
<1>3. jv[made + 1] = Empty
  BY <1>2 DEF TypeInv, FreshOK
<1>4. QED
  BY <1>1, <1>2, <1>3 DEF Empty, TypeInv, GroupsOK

\* Every step preserves the layer of components.
LEMMA SolidSteps ==
    ASSUME TypeInv, AuthorityInv, NameInv, FluxInv, SolidInv, Next, CoveredStep
    PROVE  SolidInv'
<1>1. ASSUME job'.pc \in {"journal", "stage"}, NEW o \in log'[job'.g].objs \ job'.done PROVE Orig \in vis'[o]
  <2>1. ASSUME NEW k \in Keys, Begin(k), made' = made + 1 PROVE Orig \in vis'[o]
    BY <1>1, <2>1, BegunNow DEF Originals, files
  <2>2. CASE Stage /\ job.pc = "stage" /\ job'.g = job.g
    <3>1. job.pc # "none" /\ UNCHANGED <<log, made>>
      BY <2>2 DEF Stage, groups
    <3>2. log[job.g].objs \subseteq Objs /\ o \in log[job.g].objs /\ \A p \in log[job.g].objs \ job.done : Orig \in vis[p]
      BY <1>1, <2>2, <3>1, JobFacts DEF SolidInv, Unstaged
    <3>3. "commit" \in Pcs \ {"none"} /\ {} \in SUBSET Objs
      BY DEF Pcs
    <3>4. CASE job' = [job EXCEPT !.pc = "commit"]
      BY <1>1, <3>1, <3>3, <3>4, JobTypes
    <3>5. CASE \E p \in log[job.g].objs \ job.done :
                 Renames(p, Orig, At(job.g, "staged")) /\ job' = [job EXCEPT !.done = @ \cup {p}]
      <4>1. PICK p \in log[job.g].objs \ job.done :
                 Renames(p, Orig, At(job.g, "staged")) /\ job' = [job EXCEPT !.done = @ \cup {p}]
        BY <3>5
      <4>2. job'.done = job.done \cup {p} /\ p \in Objs
        BY <3>1, <3>2, <4>1, JobMoves
      <4>3. o # p /\ o \notin job.done
        BY <1>1, <4>2
      <4>4. vis'[o] = vis[o]
        BY <3>2, <4>1, <4>2, <4>3 DEF Renames, TypeInv, FilesOK
      <4>5. QED
        BY <3>2, <4>3, <4>4
    <3>6. QED
      BY <2>2, <3>4, <3>5, StageEffect
  <2>3. CASE job.pc \in {"journal", "stage"} /\ job'.g = job.g /\ job'.done = job.done /\ UNCHANGED <<vis, log, up>>
    BY <1>1, <2>3 DEF SolidInv, Unstaged
  <2>4. QED
    BY <1>1, <2>1, <2>2, <2>3, StageFlow
<1>2. QED
  BY <1>1, SolidObjects DEF SolidInv, Unstaged
-----------------------------------------------------------------------------
(* Groups *)

\* Without a sync to make, the names that count are the ones seen.
LEMMA SeenNames ==
    ASSUME TypeInv, FluxInv, todo = <<>>, NEW o \in Objs
    PROVE  Names(o) = vis[o]
BY Still DEF Names

\* Nothing is seen in a group: nothing of it comes back either.
LEMMA EmptyGroup ==
    ASSUME TypeInv, FluxInv, todo = <<>>, NEW g \in Groups, InGroup(g) = {}
    PROVE  \A o \in Objs : Outside(o, g)
BY SeenNames DEF InGroup, Outside

\* A component outside a group stays there, unless it is staged.
LEMMA OutsideSteps ==
    ASSUME TypeInv, AuthorityInv, NameInv, FluxInv, Next, CoveredStep, NEW o \in Objs, NEW g \in Groups,
           Outside(o, g), job.pc # "stage" \/ job.g # g
    PROVE  Outside(o, g)'
<1>1. ASSUME NEW l \in Names(o)', l[1] = g PROVE FALSE
  <2>1. l # Orig
    BY <1>1, GroupFacts DEF Orig
  <2>2. l \in Names(o) => FALSE
    BY <1>1 DEF Outside
  <2>3. ASSUME Renamed(o, l) PROVE FALSE
    <3>1. job.pc # "none" /\ job.g \in Groups /\ todo = <<>>
      BY <2>3, JobFacts DEF Renamed
    <3>2. \A r \in Roles : At(job.g, r)[1] = job.g
      BY DEF At
    <3>3. l[1] = job.g
      BY <2>1, <2>3, <3>2 DEF Renamed, Roles
    <3>4. job.pc # "stage"
      BY <1>1, <3>3
    <3>5. Grouped(o)
      BY <2>1, <2>3, <3>4 DEF Renamed
    <3>6. PICK r \in Roles : At(job.g, r) \in vis[o]
      BY <3>5 DEF Grouped
    <3>7. At(job.g, r) \in Names(o)
      BY <3>1, <3>6, SeenNames
    <3>8. QED
      BY <1>1, <3>2, <3>3, <3>7 DEF Outside
  <2>4. QED
    BY <2>1, <2>2, <2>3, NewNames
<1>2. QED
  BY <1>1 DEF Outside

\* What a step must know of the group whose journal it drops.
Empties ==
    job'.pc \in {"close", "sweep"} \/ (job'.pc \in {"delete", "finish"} /\ jv'[job'.g].phase = "final") =>
        job.pc # "stage" /\ \A o \in Objs : Outside(o, job'.g)

\* What a step must know of the components it has restored.
Restores ==
    job'.pc = "restore" =>
        \/ job'.done = {}
        \/ job.pc = "restore" /\ job'.g = job.g /\ \A o \in job'.done : Outside(o, job.g)

\* A step that ends the job.
LEMMA NoJobGroup ==
    ASSUME job'.pc = "none"
    PROVE  PhaseOK' /\ Empties /\ Restores
BY DEF PhaseOK, Empties, Restores

\* A step that leaves the job and the phases alone.
LEMMA SameJobGroup ==
    ASSUME GroupInv, UNCHANGED job, job.pc # "none" => jv'[job.g].phase = jv[job.g].phase
    PROVE  PhaseOK' /\ Empties /\ Restores
BY DEF GroupInv, PhaseOK, EmptyOK, RestoredOK, Empties, Restores

\* A step that moves the job to pc p, in phase f.
LEMMA JobMovesGroup ==
    ASSUME TypeInv, job.pc # "none", NEW p \in Pcs \ {"none"}, job' = [job EXCEPT !.pc = p]
    PROVE  job'.pc = p /\ job'.g = job.g /\ job'.done = job.done
<1>1. {} \in SUBSET Objs
  OBVIOUS
<1>2. QED
  BY <1>1, JobTypes

\* A step that turns a job into its rollback.
LEMMA RollbackGroup ==
    ASSUME TypeInv, job.pc # "none", job' = Rollback(job), UNCHANGED jv, jv[job.g].phase \in {"none", "precommit"}
    PROVE  PhaseOK' /\ Empties /\ Restores
<1>1. "restore" \in Pcs \ {"none"} /\ {} \in SUBSET Objs
  BY DEF Pcs
<1>2. job'.pc = "restore" /\ job'.g = job.g /\ job'.done = {}
  BY <1>1, JobTypes
<1>3. QED
  BY <1>2 DEF PhaseOK, Empties, Restores

\* The steps of a transaction up to the removal of the record.
LEMMA StageGroup ==
    ASSUME TypeInv, AuthorityInv, NameInv, FluxInv, GroupInv, Next, Stage \/ PersistJournal \/ MarkCommitted \/ RemoveRecord
    PROVE  PhaseOK' /\ Empties /\ Restores
<1>1. job.pc # "none" /\ UNCHANGED made /\ job.pc \in {"stage", "journal", "commit", "remove"}
  BY DEF Stage, PersistJournal, MarkCommitted, RemoveRecord, Ready, groups
<1>2. PhaseOK /\ job.g \in Groups
  BY <1>1, JobFacts DEF GroupInv
<1>3. {"stage", "commit", "remove", "delete"} \subseteq Pcs \ {"none"}
  BY DEF Pcs
<1>4. CASE Stage
  <2>1. job.pc = "stage" /\ UNCHANGED jv /\ jv[job.g].phase = "precommit"
    BY <1>2, <1>4 DEF Stage, Ready, groups, PhaseOK
  <2>2. CASE job' = [job EXCEPT !.pc = "commit"]
    <3>1. job'.pc = "commit" /\ job'.g = job.g
      BY <1>1, <1>3, <2>2, JobMovesGroup
    <3>2. QED
      BY <2>1, <3>1 DEF PhaseOK, Empties, Restores
  <2>3. CASE \E o \in Objs : job' = [job EXCEPT !.done = @ \cup {o}]
    <3>1. job'.pc = "stage" /\ job'.g = job.g
      BY <1>1, <2>1, <2>3, JobMoves
    <3>2. QED
      BY <2>1, <3>1 DEF PhaseOK, Empties, Restores
  <2>4. QED
    BY <1>1, <1>4, <2>2, <2>3, StageEffect, JobFacts
<1>5. CASE PersistJournal
  <2>1. job' = [job EXCEPT !.pc = "stage"] /\ jv' = [jv EXCEPT ![job.g] = [phase |-> "precommit", extra |-> "none"]]
    BY <1>5 DEF PersistJournal
  <2>2. job'.pc = "stage" /\ job'.g = job.g /\ jv'[job.g].phase = "precommit"
    BY <1>1, <1>2, <1>3, <2>1, JobMovesGroup DEF TypeInv, GroupsOK
  <2>3. QED
    BY <2>2 DEF PhaseOK, Empties, Restores
<1>6. CASE MarkCommitted
  <2>1. job.pc = "commit" /\ jv[job.g].phase = "precommit"
    BY <1>2, <1>6 DEF MarkCommitted, Ready, PhaseOK
  <2>2. CASE job' = Rollback(job) /\ UNCHANGED jv
    BY <1>1, <2>1, <2>2, RollbackGroup
  <2>3. CASE job' = [job EXCEPT !.pc = "remove"] /\ jv' = [jv EXCEPT ![job.g] = [phase |-> "committed", extra |-> "none"]]
    <3>1. job'.pc = "remove" /\ job'.g = job.g /\ jv'[job.g].phase = "committed"
      BY <1>1, <1>2, <1>3, <2>3, JobMovesGroup DEF TypeInv, GroupsOK
    <3>2. QED
      BY <3>1 DEF PhaseOK, Empties, Restores
  <2>4. QED
    BY <1>6, <2>2, <2>3 DEF MarkCommitted
<1>7. CASE RemoveRecord
  <2>1. job.pc = "remove" /\ jv[job.g].phase = "committed" /\ UNCHANGED jv /\ job' = [job EXCEPT !.pc = "delete"]
    BY <1>2, <1>7 DEF RemoveRecord, Ready, PhaseOK, groups
  <2>2. job'.pc = "delete" /\ job'.g = job.g
    BY <1>1, <1>3, <2>1, JobMovesGroup
  <2>3. QED
    BY <2>1, <2>2 DEF PhaseOK, Empties, Restores
<1>8. QED
  BY <1>4, <1>5, <1>6, <1>7

\* A deletion that ends has emptied its group.
LEMMA DeleteGroup ==
    ASSUME TypeInv, AuthorityInv, NameInv, FluxInv, GroupInv, Next, Delete
    PROVE  PhaseOK' /\ Empties /\ Restores
<1>1. job.pc = "delete" /\ job.pc # "none" /\ todo = <<>>
  BY DEF Delete, Ready
<1>2. PhaseOK /\ EmptyOK /\ job.g \in Groups
  BY <1>1, JobFacts DEF GroupInv
<1>3. CASE InGroup(job.g) = {} /\ DropJournal
  <2>1. \A o \in Objs : Outside(o, job.g)
    BY <1>1, <1>2, <1>3, EmptyGroup
  <2>2. CASE JournalIs("final", "none") /\ UNCHANGED job
    <3>1. jv'[job.g].phase = "final"
      BY <1>1, <2>2, SetsJournal DEF Phases
    <3>2. QED
      BY <1>1, <2>1, <2>2, <3>1 DEF PhaseOK, Empties, Restores
  <2>3. CASE job' = [job EXCEPT !.pc = "close"]
    <3>1. job'.pc = "close" /\ job'.g = job.g
      BY <1>1, <2>3, JobMovesGroup DEF Pcs
    <3>2. QED
      BY <1>1, <2>1, <3>1 DEF PhaseOK, Empties, Restores
  <2>4. QED
    BY <1>3, <2>2, <2>3 DEF DropJournal
<1>4. CASE UNCHANGED <<job, jv>>
  BY <1>4, SameJobGroup
<1>5. CASE EndJob
  BY <1>5, NoJobType, NoJobGroup DEF EndJob
<1>6. QED
  BY <1>3, <1>4, <1>5, DeleteEffect

\* A component without a staged, restoring or trash name is outside a group that is not committed.
LEMMA RestoredOutside ==
    ASSUME TypeInv, FluxInv, GroupInv, todo = <<>>, job.pc # "none", NEW o \in Objs, ~Staged(o), ~Restoring(o),
           Transients(job.g) = {}, jv[job.g].phase # "committed"
    PROVE  Outside(o, job.g)
<1>1. ASSUME NEW l \in Names(o), l[1] = job.g PROVE FALSE
  <2>1. l \in vis[o] /\ l \in Locs /\ job.g \in Groups
    BY SeenNames, JobFacts DEF TypeInv, FilesOK
  <2>2. l # Orig /\ l[2] \in Roles /\ l = At(job.g, l[2])
    BY <1>1, <2>1, LocFacts, GroupFacts
  <2>3. l[2] # "staged" /\ l[2] # "restoring" /\ l[2] # "trash"
    BY <2>1, <2>2 DEF Staged, Restoring, Transients
  <2>4. l[2] # "deletion"
    BY <1>1, <2>2 DEF GroupInv, NamesOK
  <2>5. QED
    BY <2>2, <2>3, <2>4 DEF Roles
<1>2. QED
  BY <1>1 DEF Outside

\* What is restored has left the group.
LEMMA RestoreGroup ==
    ASSUME TypeInv, AuthorityInv, NameInv, FluxInv, GroupInv, Next, Restore
    PROVE  PhaseOK' /\ Empties /\ Restores
<1>1. job.pc = "restore" /\ job.pc # "none" /\ todo = <<>> /\ UNCHANGED made
  BY DEF Restore, Ready
<1>2. PhaseOK /\ job.g \in Groups /\ log[job.g].objs \subseteq Objs /\ jv[job.g].phase \in {"none", "precommit"}
      /\ \A o \in job.done : Outside(o, job.g)
  BY <1>1, JobFacts DEF GroupInv, PhaseOK, RestoredOK
<1>3. ASSUME NEW f \in {"none", "precommit"}, NEW x \in {"none", "tombstone"}, JournalIs(f, x), UNCHANGED job
      PROVE  PhaseOK' /\ Empties /\ Restores
  <2>1. jv'[job.g].phase = f
    BY <1>1, <1>3, SetsJournal DEF Phases
  <2>2. QED
    BY <1>1, <1>2, <1>3, <2>1 DEF PhaseOK, Empties, Restores
<1>4. CASE ClearTransients
  BY <1>2, <1>3, <1>4 DEF ClearTransients
<1>5. CASE Transients(job.g) = {} /\ ToRestore = {} /\ RemoveGroup
  <2>1. CASE JournalIs("none", "tombstone") /\ UNCHANGED job
    BY <1>3, <2>1
  <2>2. CASE JournalIs("none", "none") /\ UNCHANGED job
    BY <1>3, <2>2
  <2>3. CASE job' = [job EXCEPT !.pc = "close"]
    <3>1. job'.pc = "close" /\ job'.g = job.g
      BY <1>1, <2>3, JobMovesGroup DEF Pcs
    <3>2. ASSUME NEW o \in Objs PROVE Outside(o, job.g)
      <4>1. CASE o \notin log[job.g].objs
        <5>1. \A l \in Names(o) : l[1] = job.g => l # Orig
          BY <1>2, GroupFacts DEF Orig
        <5>2. QED
          BY <4>1, <5>1 DEF NameInv, Outside
      <4>2. CASE o \in job.done
        BY <1>2, <4>2
      <4>3. CASE o \in log[job.g].objs \ job.done
        <5>1. ~Staged(o) /\ ~Restoring(o)
          BY <1>5, <4>3 DEF ToRestore
        <5>2. QED
          BY <1>1, <1>2, <1>5, <5>1, RestoredOutside
      <4>4. QED
        BY <4>1, <4>2, <4>3
    <3>3. QED
      BY <1>1, <3>1, <3>2 DEF PhaseOK, Empties, Restores
  <2>4. QED
    BY <1>5, <2>1, <2>2, <2>3 DEF RemoveGroup
<1>6. CASE FailJob("state")
  BY <1>6, NoJobType, NoJobGroup DEF FailJob, EndJob
<1>7. CASE UNCHANGED <<job, jv>>
  BY <1>7, SameJobGroup
<1>8. ASSUME NEW o \in log[job.g].objs, ~Staged(o), ~Restoring(o), Transients(job.g) = {}, UNCHANGED jv,
             job' = [job EXCEPT !.done = @ \cup {o}]
      PROVE  PhaseOK' /\ Empties /\ Restores
  <2>1. job'.pc = "restore" /\ job'.g = job.g /\ job'.done = job.done \cup {o}
    BY <1>1, <1>2, <1>8, JobMoves
  <2>2. Outside(o, job.g)
    BY <1>1, <1>2, <1>8, RestoredOutside
  <2>3. QED
    BY <1>1, <1>2, <1>8, <2>1, <2>2 DEF PhaseOK, Empties, Restores
<1>9. QED
  BY <1>4, <1>5, <1>6, <1>7, <1>8, RestoreEffect

\* Recovery chooses by the phase of the journal what it does with a group.
LEMMA VisitsGroup ==
    ASSUME TypeInv, AuthorityInv, NameInv, FluxInv, GroupInv, Next, NEW g \in Groups, VisitGroup(g)
    PROVE  PhaseOK' /\ Empties /\ Restores
<1>1. job.pc = "none" /\ todo = <<>>
  BY DEF VisitGroup, Ready
<1>2. InGroup(g) = {} => \A o \in Objs : Outside(o, g)
  BY <1>1, EmptyGroup
<1>3. CASE Visit(g, "close") /\ InGroup(g) = {}
  <2>1. job'.pc = "close" /\ job'.g = g
    BY <1>3 DEF Visit
  <2>2. QED
    BY <1>1, <1>2, <1>3, <2>1 DEF PhaseOK, Empties, Restores
<1>8. CASE Visit(g, "sweep") /\ InGroup(g) = {} /\ jv[g].phase = "none" /\ UNCHANGED jv
  <2>1. job'.pc = "sweep" /\ job'.g = g
    BY <1>8 DEF Visit
  <2>2. QED
    BY <1>1, <1>2, <1>8, <2>1 DEF PhaseOK, Empties, Restores
<1>4. CASE Visit(g, "restore") /\ jv[g].phase = "precommit" /\ UNCHANGED jv
  <2>1. job'.pc = "restore" /\ job'.g = g /\ job'.done = {}
    BY <1>4 DEF Visit
  <2>2. QED
    BY <1>1, <1>4, <2>1 DEF PhaseOK, Empties, Restores
<1>5. CASE Visit(g, "finish") /\ UNCHANGED jv /\ (jv[g].phase = "committed" \/ (jv[g].phase = "final" /\ InGroup(g) = {}))
  <2>1. job'.pc = "finish" /\ job'.g = g
    BY <1>5 DEF Visit
  <2>2. QED
    BY <1>1, <1>2, <1>5, <2>1 DEF PhaseOK, Empties, Restores
<1>6. CASE UNCHANGED job
  BY <1>1, <1>6, SameJobGroup
<1>9. QED
  BY <1>3, <1>4, <1>5, <1>6, <1>8 DEF VisitGroup, groups

\* Every step keeps the job and the phase of its journal in agreement.
LEMMA JobGroup ==
    ASSUME TypeInv, AuthorityInv, NameInv, FluxInv, GroupInv, Next
    PROVE  PhaseOK' /\ Empties /\ Restores
<1>1. CASE Stage \/ PersistJournal \/ MarkCommitted \/ RemoveRecord
  BY <1>1, StageGroup
<1>2. CASE Delete \/ Restore \/ (\E g \in Groups : VisitGroup(g))
  BY <1>2, DeleteGroup, RestoreGroup, VisitsGroup
<1>3. ASSUME NEW k \in Keys, Begin(k) PROVE PhaseOK' /\ Empties /\ Restores
  <2>1. job.pc = "none" /\ (UNCHANGED job \/ made' = made + 1)
    BY <1>3 DEF Begin, Ready
  <2>2. CASE UNCHANGED job
    BY <2>1, <2>2, SameJobGroup
  <2>3. CASE made' = made + 1
    <3>1. job'.pc = "journal" /\ jv'[job'.g].phase = "none"
      BY <1>3, <2>3, BegunNow
    <3>2. QED
      BY <3>1 DEF PhaseOK, Empties, Restores
  <2>4. QED
    BY <2>1, <2>2, <2>3
<1>4. CASE WriteTemp
  <2>1. UNCHANGED job /\ job.pc # "none" /\ jv' = [jv EXCEPT ![job.g].extra = "temp"]
    BY <1>4 DEF WriteTemp, process, Ready
  <2>2. jv'[job.g].phase = jv[job.g].phase
    BY <2>1, JobFacts DEF TypeInv, GroupsOK, Journals
  <2>3. QED
    BY <2>1, <2>2, SameJobGroup
<1>5. CASE Finish
  <2>1. job.pc = "finish" /\ job.pc # "none" /\ UNCHANGED jv /\ (EndJob \/ job' = [job EXCEPT !.pc = "delete"])
    BY <1>5 DEF Finish, Ready, FailJob, groups
  <2>2. CASE EndJob
    BY <2>2, NoJobType, NoJobGroup DEF EndJob
  <2>3. CASE job' = [job EXCEPT !.pc = "delete"]
    <3>1. job'.pc = "delete" /\ job'.g = job.g
      BY <2>1, <2>3, JobMovesGroup DEF Pcs
    <3>2. QED
      BY <2>1, <3>1 DEF GroupInv, PhaseOK, EmptyOK, Empties, Restores
  <2>4. QED
    BY <2>1, <2>2, <2>3
<1>6. CASE Fail
  <2>1. UNCHANGED jv /\ job.pc # "none"
    BY <1>6 DEF Fail, groups
  <2>2. CASE job.pc \in {"journal", "stage", "commit"}
    <3>1. job' = Rollback(job) /\ jv[job.g].phase \in {"none", "precommit"}
      BY <1>6, <2>2 DEF Fail, GroupInv, PhaseOK
    <3>2. QED
      BY <2>1, <3>1, RollbackGroup
  <2>3. CASE job.pc \notin {"journal", "stage", "commit"}
    BY <1>6, <2>3, NoJobType, NoJobGroup DEF Fail, FailJob, EndJob
  <2>4. QED
    BY <2>2, <2>3
<1>7. CASE Close \/ FailAfterSave \/ Kill \/ PowerFail
  BY <1>7, NoJobType, NoJobGroup DEF Close, FailAfterSave, FailJob, EndJob, Kill, PowerFail, Stopped
<1>8. CASE Sync \/ Plan \/ EndApply \/ EndPass \/ Recheck \/ StartApply \/ StartDaemon \/ StopDaemon
           \/ \E k \in Keys : Admit(k) \/ Toggle(k) \/ \E c \in Comps : Write(k, c)
  <2>1. UNCHANGED <<job, jv>>
    BY <1>8 DEF Sync, Plan, EndApply, EndPass, Recheck, StartApply, StartDaemon, StopDaemon, Start, process, groups,
       Admit, Toggle, Write
  <2>2. QED
    BY <2>1, SameJobGroup
<1>9. CASE Sweep
  <2>1. job.pc = "sweep" /\ job.pc # "none" /\ \A o \in Objs : Outside(o, job.g)
    BY <1>9 DEF Sweep, Ready, GroupInv, EmptyOK
  <2>2. jv'[job.g].phase = "none"
    BY <1>9, <2>1, JobFacts DEF Sweep, JournalIs, TypeInv, GroupsOK
  <2>3. UNCHANGED job \/ job' = [job EXCEPT !.pc = "close"]
    BY <1>9 DEF Sweep
  <2>4. job'.pc \in {"sweep", "close"} /\ job'.g = job.g
    BY <2>1, <2>3, JobMovesGroup DEF Pcs
  <2>5. QED
    BY <2>1, <2>2, <2>4 DEF PhaseOK, Empties, Restores
<1>10. QED
  BY <1>1, <1>2, <1>3, <1>4, <1>5, <1>6, <1>7, <1>8, <1>9 DEF Next, Step, Environment

\* Kills and failed steps are not undone.
LEMMA SmoothBefore ==
    ASSUME TypeInv, Next
    PROVE  Smooth' => Smooth
<1>1. UNCHANGED limits
  BY DEF Next, Step, Environment
<1>2. UNCHANGED spent \/ \E w \in {"kills", "powers", "faults", "writes"} : Spend(w)
  BY DEF Next, Step, Environment, Stage, Delete, Restore, RemoveRecord, Finish, FailAfterSave, Begin, Admit, Toggle, Write,
     Sync, Plan, WriteTemp, PersistJournal, MarkCommitted, Close, VisitGroup, Sweep, EndApply, EndPass, Recheck,
     StartApply, StartDaemon, StopDaemon, Start, Fail, Kill, PowerFail
<1>3. QED
  BY <1>1, <1>2, SmoothFacts

\* A group directory goes only when its job closes it.
LEMMA UpSteps ==
    ASSUME TypeInv, AuthorityInv, NameInv, FluxInv, Next, CoveredStep, NEW g \in Groups, up[g], Smooth => updur[g]
    PROVE  (up'[g] /\ (Smooth' => updur'[g])) \/ (job.pc = "close" /\ g = job.g)
<1>1. Smooth' => Smooth
  BY SmoothBefore
<1>2. CASE UNCHANGED <<up, updur>>
  BY <1>1, <1>2
<1>3. CASE Sync
  BY <1>1, <1>3 DEF Sync
<1>4. CASE Close
  <2>1. job.pc = "close" /\ up' = [up EXCEPT ![job.g] = FALSE] /\ UNCHANGED updur
    BY <1>4 DEF Close, Ready
  <2>2. QED
    BY <1>1, <2>1 DEF TypeInv, GroupsOK
<1>5. CASE PowerFail
  BY <1>5, PowerFacts
<1>6. ASSUME NEW k \in Keys, Begin(k) PROVE up'[g] /\ (Smooth' => updur'[g])
  <2>1. CASE UNCHANGED groups
    BY <1>1, <2>1 DEF groups
  <2>2. CASE made' = made + 1
    BY <1>1, <1>6, <2>2, BegunNow
  <2>3. QED
    BY <1>6, <2>1, <2>2 DEF Begin
<1>7. CASE \/ Plan \/ WriteTemp \/ PersistJournal \/ MarkCommitted \/ RemoveRecord \/ Stage \/ Delete \/ Restore
           \/ (\E h \in Groups : VisitGroup(h)) \/ Sweep \/ Finish \/ EndApply \/ EndPass \/ Recheck \/ StartApply \/ StartDaemon
           \/ StopDaemon \/ (\E k \in Keys : Admit(k) \/ Toggle(k) \/ \E c \in Comps : Write(k, c)) \/ Fail
           \/ FailAfterSave \/ Kill
  <2>1. UNCHANGED <<up, updur>>
    BY <1>7 DEF Plan, WriteTemp, PersistJournal, MarkCommitted, RemoveRecord, Stage, Delete, Restore, VisitGroup, Sweep, Finish,
       EndApply, EndPass, Recheck, StartApply, StartDaemon, StopDaemon, Start, Admit, Toggle, Write, Fail, FailAfterSave,
       Kill, groups
  <2>2. QED
    BY <1>2, <2>1
<1>8. QED
  BY <1>3, <1>4, <1>5, <1>6, <1>7 DEF Next, Step, Environment

\* A group that is committed stays so until its journal is dropped.
LEMMA CommitSteps ==
    ASSUME TypeInv, AuthorityInv, NameInv, FluxInv, GroupInv, Next, CoveredStep, NEW g \in Groups,
           jv[g].phase = "committed", Smooth => jd[g].phase = "committed"
    PROVE  \/ jv'[g].phase = "committed" /\ (Smooth' => jd'[g].phase = "committed")
           \/ Delete /\ InGroup(g) = {} /\ DropJournal /\ g = job.g
<1>1. (Smooth' => Smooth) /\ PhaseOK
  BY SmoothBefore DEF GroupInv
<1>2. CASE UNCHANGED <<jv, jd>>
  BY <1>1, <1>2
<1>3. CASE Sync
  <2>1. UNCHANGED jv /\ \A h \in Groups : jd'[h] = jd[h] \/ jd'[h] = jv[h]
    BY <1>3 DEF Sync, TypeInv, GroupsOK
  <2>2. QED
    BY <1>1, <2>1
<1>4. CASE PowerFail
  BY <1>4, PowerFacts
\* A journal of the job in hand.
<1>5. ASSUME job.pc # "none", UNCHANGED jd, jv' = [jv EXCEPT ![job.g] = jv'[job.g]],
             jv[job.g].phase = "committed" => jv'[job.g].phase = "committed"
      PROVE  jv'[g].phase = "committed" /\ (Smooth' => jd'[g].phase = "committed")
  <2>1. CASE g = job.g
    BY <1>1, <1>5, <2>1
  <2>2. CASE g # job.g
    BY <1>1, <1>5, <2>2 DEF TypeInv, GroupsOK
  <2>3. QED
    BY <2>1, <2>2
<1>6. CASE WriteTemp
  <2>1. job.pc # "none" /\ UNCHANGED jd /\ jv' = [jv EXCEPT ![job.g].extra = "temp"] /\ job.g \in Groups
    BY <1>6, JobFacts DEF WriteTemp, Ready
  <2>2. jv \in [Groups -> Journals] /\ jv[job.g] \in Journals
    BY <2>1 DEF TypeInv, GroupsOK
  <2>3. jv'[job.g] = [jv[job.g] EXCEPT !.extra = "temp"]
    BY <2>1, <2>2
  <2>4. jv'[job.g].phase = jv[job.g].phase
    BY <2>2, <2>3 DEF Journals
  <2>5. jv' = [jv EXCEPT ![job.g] = jv'[job.g]]
    BY <2>1, <2>2, <2>3
  <2>6. QED
    BY <1>5, <2>1, <2>4, <2>5
<1>7. CASE PersistJournal
  <2>1. job.pc # "none" /\ job.pc = "journal" /\ UNCHANGED jd /\ JournalIs("precommit", "none") /\ job.g \in Groups
    BY <1>7, JobFacts DEF PersistJournal, Ready, JournalIs
  <2>2. jv' = [jv EXCEPT ![job.g] = jv'[job.g]] /\ jv[job.g].phase = "none"
    BY <1>1, <2>1, SetsJournal DEF PhaseOK, Phases
  <2>3. QED
    BY <1>5, <2>1, <2>2
<1>8. CASE MarkCommitted
  <2>1. job.pc # "none" /\ UNCHANGED jd /\ (UNCHANGED jv \/ JournalIs("committed", "none"))
    BY <1>8 DEF MarkCommitted, Ready, JournalIs
  <2>2. CASE JournalIs("committed", "none")
    <3>1. jv' = [jv EXCEPT ![job.g] = jv'[job.g]] /\ jv'[job.g].phase = "committed"
      BY <2>1, <2>2, SetsJournal DEF Phases
    <3>2. QED
      BY <1>5, <2>1, <3>1
  <2>3. QED
    BY <1>2, <2>1, <2>2
<1>9. CASE Delete
  <2>1. job.pc # "none" /\ UNCHANGED jd
    BY <1>9 DEF Delete, Ready
  <2>2. CASE InGroup(job.g) = {} /\ DropJournal
    <3>1. jv' = [jv EXCEPT ![job.g] = jv'[job.g]]
      BY <2>1, <2>2, SetsJournal DEF DropJournal, Phases
    <3>2. CASE g = job.g
      BY <1>9, <2>2, <3>2
    <3>3. CASE g # job.g
      BY <1>1, <2>1, <3>1, <3>3 DEF TypeInv, GroupsOK
    <3>4. QED
      BY <3>2, <3>3
  <2>3. CASE UNCHANGED jv
    BY <1>2, <2>1, <2>3
  <2>4. QED
    BY <1>9, <2>2, <2>3, DeleteEffect
<1>10. CASE Restore
  <2>1. job.pc # "none" /\ job.pc = "restore" /\ UNCHANGED jd /\ job.g \in Groups
    BY <1>10, JobFacts DEF Restore, Ready
  <2>2. jv[job.g].phase \in {"none", "precommit"}
    BY <1>1, <2>1 DEF PhaseOK
  <2>3. ASSUME NEW f \in Phases, NEW x \in {"none", "tombstone"}, JournalIs(f, x)
        PROVE  jv'[g].phase = "committed" /\ (Smooth' => jd'[g].phase = "committed")
    <3>1. jv' = [jv EXCEPT ![job.g] = jv'[job.g]]
      BY <2>1, <2>3, SetsJournal
    <3>2. QED
      BY <1>5, <2>1, <2>2, <3>1
  <2>4. CASE ClearTransients
    BY <2>2, <2>3, <2>4 DEF ClearTransients, Phases
  <2>5. CASE RemoveGroup
    BY <1>2, <2>1, <2>3, <2>5 DEF RemoveGroup, Phases
  <2>6. QED
    BY <1>2, <1>10, <2>1, <2>4, <2>5, RestoreEffect
<1>11. CASE Sweep
  <2>1. job.pc # "none" /\ job.pc = "sweep" /\ UNCHANGED jd
    BY <1>11 DEF Sweep, Ready
  <2>2. jv' = [jv EXCEPT ![job.g] = jv'[job.g]] /\ jv[job.g].phase = "none"
    BY <1>1, <1>11, <2>1, SetsJournal DEF Sweep, PhaseOK, Phases
  <2>3. QED
    BY <1>5, <2>1, <2>2
<1>12. CASE \/ Plan \/ (\E k \in Keys : Begin(k)) \/ RemoveRecord \/ Stage \/ Close
           \/ Finish \/ EndApply \/ EndPass \/ Recheck \/ StartApply \/ StartDaemon
           \/ StopDaemon \/ (\E k \in Keys : Admit(k) \/ Toggle(k) \/ \E c \in Comps : Write(k, c)) \/ Fail
           \/ FailAfterSave \/ Kill \/ (\E h \in Groups : VisitGroup(h))
  <2>1. UNCHANGED <<jv, jd>>
    BY <1>12 DEF VisitGroup, Plan, Begin, RemoveRecord, Stage, Close, Finish,
       EndApply, EndPass, Recheck, StartApply, StartDaemon, StopDaemon, Start, Admit, Toggle, Write, Fail, FailAfterSave,
       Kill, groups
  <2>2. QED
    BY <1>2, <2>1
<1>13. QED
  BY <1>3, <1>4, <1>6, <1>7, <1>8, <1>9, <1>10, <1>11, <1>12 DEF Next, Step, Environment

\* Every step preserves the layer of groups.
LEMMA GroupSteps ==
    ASSUME TypeInv, AuthorityInv, NameInv, FluxInv, GroupInv, Next, CoveredStep
    PROVE  GroupInv'
<1>1. PhaseOK' /\ Empties /\ Restores /\ TypeInv'
  BY JobGroup, TypeSteps
<1>2. Opened'
  <2>1. ASSUME job'.pc \in {"journal", "stage"} PROVE up'[job'.g] /\ (Smooth' => updur'[job'.g])
    <3>1. ASSUME NEW k \in Keys, Begin(k), made' = made + 1 PROVE up'[job'.g] /\ updur'[job'.g]
      BY <3>1, BegunNow
    <3>2. CASE job.pc \in {"journal", "stage"} /\ job'.g = job.g
      <4>1. job.pc # "none" /\ job.g \in Groups /\ job.pc # "close"
        BY <3>2, JobFacts
      <4>2. up[job.g] /\ (Smooth => updur[job.g])
        BY <3>2 DEF GroupInv, Opened
      <4>3. QED
        BY <3>2, <4>1, <4>2, UpSteps
    <3>3. QED
      BY <2>1, <3>1, <3>2, StageFlow
  <2>2. QED
    BY <2>1 DEF Opened
<1>3. ASSUME NEW o \in Objs, NEW l \in Names(o)', l # Orig
      PROVE  /\ l[1] \in Groups /\ l[1] \in Begun /\ up[l[1]] /\ (Smooth => updur[l[1]]) /\ ~(job.pc = "close" /\ l[1] = job.g)
             /\ l[2] = "deletion" => /\ jv[l[1]].phase = "committed" /\ (Smooth => jd[l[1]].phase = "committed")
                                     /\ ~(Delete /\ InGroup(l[1]) = {} /\ DropJournal /\ l[1] = job.g)
  <2>1. CASE l \in Names(o)
    <3>1. l[1] \in Begun /\ l[1] \in Groups /\ up[l[1]] /\ (Smooth => updur[l[1]])
      BY <1>3, <2>1, BegunFacts DEF NameInv, GroupInv, NamesOK
    <3>2. ~(job.pc = "close" /\ l[1] = job.g)
      BY <2>1 DEF GroupInv, EmptyOK, Outside
    <3>3. l[2] = "deletion" => jv[l[1]].phase = "committed" /\ (Smooth => jd[l[1]].phase = "committed")
      BY <1>3, <2>1 DEF GroupInv, NamesOK
    <3>4. ASSUME Delete, InGroup(l[1]) = {} PROVE FALSE
      <4>1. todo = <<>>
        BY <3>4 DEF Delete, Ready
      <4>2. QED
        BY <2>1, <3>1, <3>4, <4>1, EmptyGroup DEF Outside
    <3>5. QED
      BY <3>1, <3>2, <3>3, <3>4
  <2>2. CASE Renamed(o, l)
    <3>1. job.pc # "none" /\ todo = <<>> /\ job.g \in Groups /\ job.g \in Begun /\ job.pc # "close"
      BY <2>2, JobFacts DEF Renamed
    <3>2. \A r \in Roles : At(job.g, r)[1] = job.g /\ At(job.g, r)[2] = r /\ At(job.g, r) # Orig
      BY <3>1, NameFacts, ObjExists
    <3>3. l[1] = job.g
      BY <1>3, <2>2, <3>2 DEF Renamed, Roles
    <3>4. CASE job.pc = "stage"
      <4>1. l[2] = "staged" /\ up[job.g] /\ (Smooth => updur[job.g])
        BY <1>3, <2>2, <3>2, <3>4 DEF Renamed, Roles, GroupInv, Opened
      <4>2. QED
        BY <3>1, <3>3, <4>1
    <3>5. CASE job.pc # "stage"
      <4>1. Grouped(o)
        BY <1>3, <2>2, <3>5 DEF Renamed
      <4>2. PICK r \in Roles : At(job.g, r) \in vis[o]
        BY <4>1 DEF Grouped
      <4>3. At(job.g, r) \in Names(o)
        BY <3>1, <4>2, SeenNames
      <4>4. up[job.g] /\ (Smooth => updur[job.g])
        BY <3>2, <4>3 DEF GroupInv, NamesOK
      <4>5. ASSUME l[2] = "deletion" PROVE jv[job.g].phase = "committed" /\ (Smooth => jd[job.g].phase = "committed")
        <5>1. job.pc = "delete"
          BY <1>3, <2>2, <3>2, <3>5, <4>5 DEF Renamed, Roles
        <5>2. jv[job.g].phase # "final"
          BY <3>2, <4>3, <5>1 DEF GroupInv, EmptyOK, Outside
        <5>3. jv[job.g].phase = "committed"
          BY <5>1, <5>2 DEF GroupInv, PhaseOK
        <5>4. QED
          BY <3>1, <5>3, Still
      <4>6. InGroup(job.g) # {}
        BY <3>2, <4>2 DEF InGroup
      <4>7. QED
        BY <3>1, <3>3, <4>4, <4>5, <4>6
    <3>6. QED
      BY <3>4, <3>5
  <2>3. QED
    BY <1>3, <2>1, <2>2, NewNames
<1>4. NamesOK'
  <2>1. ASSUME NEW o \in Objs, NEW l \in Names(o)', l # Orig
        PROVE  /\ up'[l[1]] /\ (Smooth' => updur'[l[1]])
               /\ l[2] = "deletion" => jv'[l[1]].phase = "committed" /\ (Smooth' => jd'[l[1]].phase = "committed")
    BY <1>3, <2>1, UpSteps, CommitSteps
  <2>2. QED
    BY <2>1 DEF NamesOK
<1>5. job'.pc # "none" => job'.g \in Groups
  <2>1. job' \in Jobs /\ (job'.pc # "none" => job'.g \in 1..made')
    BY <1>1 DEF TypeInv, JobOK, Begun
  <2>2. job'.g \in Groups \cup {0}
    BY <2>1 DEF Jobs
  <2>3. QED
    BY <2>1, <2>2
<1>6. EmptyOK'
  <2>1. ASSUME job'.pc \in {"close", "sweep"} \/ (job'.pc \in {"delete", "finish"} /\ jv'[job'.g].phase = "final"), NEW o \in Objs
        PROVE  Outside(o, job.g)'
    <3>1. job.pc # "stage" /\ Outside(o, job'.g) /\ job'.g \in Groups
      BY <1>1, <1>5, <2>1 DEF Empties
    <3>2. \A g \in Groups : Outside(o, g) => \A l \in Names(o)' : l[1] # g
      BY <3>1, OutsideSteps DEF Outside
    <3>3. QED
      BY <3>1, <3>2 DEF Outside
  <2>2. QED
    BY <2>1 DEF EmptyOK
<1>7. RestoredOK'
  <2>1. ASSUME job'.pc = "restore", NEW o \in job'.done PROVE Outside(o, job.g)'
    <3>1. job.pc = "restore" /\ job'.g = job.g /\ Outside(o, job.g) /\ job.g \in Groups
      BY <1>1, <1>5, <2>1 DEF Restores
    <3>2. o \in Objs
      BY <1>1, <2>1 DEF TypeInv, JobOK, Jobs
    <3>3. \A g \in Groups : Outside(o, g) => \A l \in Names(o)' : l[1] # g
      BY <3>1, <3>2, OutsideSteps DEF Outside
    <3>4. QED
      BY <3>1, <3>3 DEF Outside
  <2>2. QED
    BY <2>1 DEF RestoredOK
<1>8. QED
  BY <1>1, <1>2, <1>4, <1>6, <1>7 DEF GroupInv
-----------------------------------------------------------------------------
(* The invariant *)

\* Types of an initial state.
LEMMA InitType ==
    ASSUME Init
    PROVE  TypeInv
<1>1. BoundsOK
  BY DEF Init, BoundsOK, Spendings
<1>2. /\ limits.batches \in Nat \ {0} /\ limits.groups \in 0..Cardinality(Groups) /\ limits.tasks \subseteq Keys
      /\ Cardinality(Groups) \in Nat /\ limits.groups \in Nat
  BY <1>1, BoundFacts, GroupFacts
<1>3. Orig \in Locs
  BY DEF Locs
<1>4. FilesOK
  <2>1. vis \in [Objs -> SUBSET Locs] /\ dur \in [Objs -> SUBSET Locs]
    BY <1>3 DEF Init
  <2>2. bits \in [Objs -> 0..limits.batches] /\ owner \in [Objs -> Nat]
    BY <1>2 DEF Init
  <2>3. QED
    BY <2>1, <2>2 DEF FilesOK
<1>5. RegistryOK
  BY DEF Init, RegistryOK
<1>6. NoLog \in Logs
  <2>1. (CHOOSE k \in Keys : TRUE) \in Keys
    BY RetentionAssumption
  <2>2. QED
    BY <2>1 DEF NoLog, Logs
<1>7. Empty \in Journals
  BY DEF Empty, Journals, Phases
<1>8. GroupsOK /\ FreshOK
  <2>1. made \in 0..limits.groups
    BY <1>2 DEF Init
  <2>2. QED
    BY <1>6, <1>7, <2>1 DEF Init, GroupsOK, FreshOK
<1>9. JobOK
  BY NoJobType DEF Init, JobOK
<1>10. ProcessOK
  <2>1. pass \in 0..MaxPasses
    BY RetentionAssumption DEF Init
  <2>2. todo \in Seq(Dirs) /\ todo = <<>> /\ job.pc = "none" /\ mode = "idle"
    BY NoJobType DEF Init
  <2>3. QED
    BY <2>1, <2>2 DEF Init, ProcessOK, Modes
<1>11. QED
  BY <1>1, <1>4, <1>5, <1>8, <1>9, <1>10 DEF TypeInv

\* Initially no group is made and every task has its components in place.
LEMMA InitInv ==
    ASSUME Init
    PROVE  RetentionInv
<1>1. TypeInv
  BY InitType
<1>2. /\ made = 0 /\ job.pc = "none" /\ todo = <<>> /\ dur = vis /\ jd = jv /\ Begun = {}
      /\ spent.kills = 0 /\ spent.faults = 0 /\ spent.writes = 0
  BY NoJobType DEF Init, Begun
<1>3. \A o \in Objs : vis[o] = {} \/ (vis[o] = {Orig} /\ o[1] \in limits.tasks /\ o[3] = 1)
  BY DEF Init
<1>4. \A o \in Objs : Names(o) = vis[o]
  BY <1>2 DEF Names
<1>5. /\ \A k \in Keys : rec[k] <= 1 + spent.writes
      /\ \A o \in Objs : owner[o] <= 1 + spent.writes /\ (vis[o] # {} => Made(o)) /\ (Made(o) => vis[o] # {})
  <2>1. \A k \in Keys : rec[k] = 0 \/ rec[k] = 1
    BY DEF Init
  <2>2. \A o \in Objs : owner[o] = IF vis[o] # {} THEN 1 ELSE 0
    BY DEF Init
  <2>3. QED
    BY <1>2, <2>1, <2>2 DEF Made
<1>6. AuthorityInv
  BY <1>2, <1>4, <1>5 DEF AuthorityInv, CountersOK
<1>7. NameInv
  <2>1. ASSUME NEW o \in Objs, NEW p \in Objs, o[1] = p[1], o[2] = p[2], Orig \in vis[o], Orig \in vis[p] PROVE o = p
    <3>1. o[3] = 1 /\ p[3] = 1
      BY <1>3, <2>1
    <3>2. QED
      BY <2>1, <3>1 DEF Objs
  <2>2. QED
    BY <1>2, <1>3, <1>4, <2>1 DEF NameInv
<1>8. FluxInv
  <2>1. Len(<<>>) <= 2
    OBVIOUS
  <2>2. QED
    BY <1>2, <2>1 DEF FluxInv, Differs
<1>9. SolidInv
  <2>1. Solid({Orig})
    BY DEF Solid, Orig
  <2>2. ASSUME NEW o \in Objs PROVE SolidAt(o)
    <3>1. bits[o] = Full(o)
      BY DEF Init, Full
    <3>2. Live(o) => Solid(vis[o])
      BY <1>3, <1>5, <2>1 DEF Live
    <3>3. Len(todo) # 2
      <4>1. Len(<<>>) = 0
        OBVIOUS
      <4>2. QED
        BY <1>2, <4>1
    <3>4. QED
      BY <1>2, <3>1, <3>2, <3>3 DEF SolidAt, Hold
  <2>3. QED
    BY <1>2, <2>2 DEF SolidInv, Unstaged
<1>10. GroupInv
  <2>1. NamesOK
    BY <1>3, <1>4 DEF NamesOK
  <2>2. QED
    BY <1>2, <2>1 DEF GroupInv, PhaseOK, Opened, EmptyOK, RestoredOK
<1>11. QED
  BY <1>1, <1>6, <1>7, <1>8, <1>9, <1>10 DEF RetentionInv

\* A stuttering step changes nothing.
LEMMA StutterInv ==
    ASSUME RetentionInv, UNCHANGED vars
    PROVE  RetentionInv'
<1>1. /\ UNCHANGED <<vis, dur, bits, owner>> /\ UNCHANGED <<rec, active, rev, gen>>
      /\ UNCHANGED <<up, updur, jv, jd, log, made>>
      /\ UNCHANGED <<mode, pass, recovering, plan, job, todo, confl>> /\ UNCHANGED <<limits, spent>>
  BY DEF vars, files, registry, groups, process
<1>2. TypeInv'
  BY <1>1 DEF RetentionInv, TypeInv, FilesOK, RegistryOK, GroupsOK, FreshOK, JobOK, ProcessOK, BoundsOK, Begun, Up
<1>3. /\ Smooth' = Smooth /\ Begun' = Begun /\ \A o \in Objs : Names(o)' = Names(o)
      /\ \A o \in Objs : Live(o)' = Live(o) /\ Dead(o)' = Dead(o) /\ Made(o)' = Made(o)
      /\ \A k : Referred(k)' = Referred(k)
  BY <1>1 DEF Smooth, Begun, Names, Live, Dead, Made, Referred
<1>4. AuthorityInv'
  <2>1. \A g \in Begun : JournalOK(g)'
    <3>1. ASSUME NEW g \in Begun PROVE JournalOK(g)'
      <4>1. JournalOK(g)
        BY DEF RetentionInv, AuthorityInv
      <4>2. QED
        BY <1>1, <4>1 DEF JournalOK, SameAuthority, Made, Dead, Referred
    <3>2. QED
      BY <3>1
  <2>2. CountersOK'
    BY <1>1, <1>3 DEF RetentionInv, AuthorityInv, CountersOK
  <2>3. job'.pc = "remove" => Unchanged(job.g)'
    BY <1>1 DEF RetentionInv, AuthorityInv, Unchanged, SameAuthority
  <2>4. job'.pc = "delete" => \A o \in log'[job'.g].objs : ~Live(o)'
    BY <1>1 DEF RetentionInv, AuthorityInv, Live, Dead, Made, Referred
  <2>5. QED
    BY <1>3, <2>1, <2>2, <2>3, <2>4 DEF AuthorityInv
<1>5. NameInv'
  BY <1>1, <1>3 DEF RetentionInv, NameInv
<1>6. FluxInv'
  BY <1>1, <1>3 DEF RetentionInv, FluxInv, Differs
<1>7. SolidInv'
  <2>1. ASSUME NEW o \in Objs PROVE SolidAt(o)'
    <3>1. SyncedNames(o, Head(todo))' = SyncedNames(o, Head(todo)) /\ Full(o)' = Full(o)
      BY <1>1 DEF SyncedNames, Full
    <3>2. QED
      BY <1>1, <1>3, <3>1 DEF RetentionInv, SolidInv, SolidAt, Hold
  <2>2. QED
    BY <1>1, <2>1 DEF RetentionInv, SolidInv, Unstaged
<1>8. GroupInv'
  <2>1. PhaseOK' /\ Opened'
    BY <1>1, <1>3 DEF RetentionInv, GroupInv, PhaseOK, Opened
  <2>2. NamesOK' /\ EmptyOK' /\ RestoredOK'
    BY <1>1 DEF RetentionInv, GroupInv, NamesOK, EmptyOK, RestoredOK, Outside, Names, Smooth
  <2>3. QED
    BY <2>1, <2>2 DEF GroupInv
<1>9. QED
  BY <1>2, <1>4, <1>5, <1>6, <1>7, <1>8 DEF RetentionInv

\* The invariant is inductive, layer by layer.
LEMMA StepInv ==
    ASSUME RetentionInv, [Next]_vars, [CoveredStep]_vars
    PROVE  RetentionInv'
<1>1. CASE UNCHANGED vars
  BY <1>1, StutterInv
<1>2. CASE ~UNCHANGED vars
  <2>1. Next /\ CoveredStep /\ TypeInv /\ AuthorityInv /\ NameInv /\ FluxInv /\ SolidInv /\ GroupInv
    BY <1>2 DEF RetentionInv
  <2>2. TypeInv' /\ AuthorityInv' /\ NameInv' /\ FluxInv' /\ SolidInv' /\ GroupInv'
    BY <2>1, TypeSteps, AuthoritySteps, NameSteps, FluxSteps, SolidSteps, GroupSteps
  <2>3. QED
    BY <2>2 DEF RetentionInv
<1>3. QED
  BY <1>1, <1>2
-----------------------------------------------------------------------------
(* What retention promises *)

\* The invariant holds in every reachable state.
LEMMA InvInvariant == Spec /\ SyncsCover => []RetentionInv
<1>1. Init => RetentionInv
  BY InitInv
<1>2. RetentionInv /\ [Next]_vars /\ [CoveredStep]_vars => RetentionInv'
  BY StepInv
<1>3. QED
  BY <1>1, <1>2, PTL DEF Spec, SyncsCover

\* RecordOutlivesFiles without its exception for event logs that a power failure took.
NothingIsLost ==
    \A o \in Objs : Made(o) /\ rec[o[1]] = owner[o] => vis[o] # {} /\ bits[o] = Full(o)

\* Files are kept: a live component has a name that counts and is complete.
LEMMA KeptFromInv ==
    ASSUME RetentionInv
    PROVE  NothingIsLost /\ (limits.writes = 0 \/ limits.refers = {} => FilesAreKept)
<1>1. \A o \in Objs : Live(o) => vis[o] # {} /\ bits[o] = Full(o)
  BY DEF RetentionInv, SolidInv, SolidAt, Solid
<1>2. NothingIsLost /\ RecordOutlivesFiles
  BY <1>1 DEF NothingIsLost, RecordOutlivesFiles, Kept, Live, Dead
<1>3. ASSUME limits.writes = 0 \/ limits.refers = {} PROVE PredecessorsKept
  <2>1. ASSUME NEW s \in Keys, NEW p \in Keys, <<s, p>> \in limits.refers, rec[s] # 0, NEW o \in Objs, o[1] = p, Made(o)
        PROVE  vis[o] # {}
    <3>1. Referred(p)
      BY <1>3, <2>1 DEF Referred
    <3>2. QED
      BY <1>1, <2>1, <3>1 DEF Live
  <2>2. QED
    BY <2>1 DEF PredecessorsKept, Kept
<1>4. QED
  BY <1>2, <1>3 DEF FilesAreKept

\* apply_candidate_with_authority, delete_committed_group and recovery never take an entry
\* of a task whose record is in the registry: it keeps a name, complete, through any order
\* of stagings, commitments, rollbacks and passes, any kill, any failed step, and any power
\* failure that SyncsCover allows; without that premise an event log can be lost (Lost).  An
\* entry of a task that a retained record refers to is kept as well; a scenario's references
\* are fixed, so this is stated where no new record comes.
THEOREM FilesStayKept ==
    Spec /\ SyncsCover => [](NothingIsLost /\ (limits.writes = 0 \/ limits.refers = {} => FilesAreKept))
BY InvInvariant, KeptFromInv, PTL

\* Without a group in the quarantine every name that counts is the original one.
LEMMA CleanFromInv ==
    ASSUME RetentionInv
    PROVE  ServingIsClean
<1>1. TypeInv
  BY DEF RetentionInv
<1>2. TypeOK
  <2>1. made \in 0..Cardinality(Groups) /\ Begun \subseteq Groups
    BY <1>1, BoundFacts, BegunFacts, GroupFacts, SMTT(30) DEF TypeInv, GroupsOK
  <2>2. \A g \in Groups : log[g].key \in Keys /\ log[g].objs \subseteq Objs
    BY <1>1 DEF TypeInv, GroupsOK, Logs
  <2>3. job.pc \in Pcs /\ job.g \in Groups \cup {0} /\ job.done \subseteq Objs /\ (job.pc = "none") = (job = NoJob)
    BY <1>1 DEF TypeInv, JobOK, Jobs
  <2>4. mode \in {"idle", "apply", "applying", "startup", "handoff", "serving"}
    BY <1>1 DEF TypeInv, ProcessOK, Modes, Running
  <2>5. QED
    BY <1>1, <2>1, <2>2, <2>3, <2>4 DEF TypeOK, TypeInv, FilesOK, RegistryOK, GroupsOK, ProcessOK
<1>3. ServingIsWhole
  <2>1. ASSUME mode = "serving", NEW o \in Objs, Made(o), rec[o[1]] = owner[o] PROVE vis[o] = {Orig}
    <3>1. \A g \in Groups : ~up[g]
      BY <1>1, <2>1 DEF TypeInv, ProcessOK, Up
    <3>2. \A l \in vis[o] : l = Orig
      <4>1. ASSUME NEW l \in vis[o], l # Orig PROVE FALSE
        <5>1. l \in Names(o) /\ l \in Locs
          BY <1>1 DEF Names, TypeInv, FilesOK
        <5>2. l[1] \in Groups /\ up[l[1]]
          BY <4>1, <5>1, LocFacts DEF RetentionInv, GroupInv, NamesOK
        <5>3. QED
          BY <3>1, <5>2
      <4>2. QED
        BY <4>1
    <3>3. vis[o] # {}
      BY <2>1 DEF RetentionInv, SolidInv, SolidAt, Solid, Live, Dead
    <3>4. QED
      BY <3>2, <3>3
  <2>2. QED
    BY <2>1 DEF ServingIsWhole
<1>4. QED
  BY <1>2, <1>3 DEF ServingIsClean

\* A daemon that recover_task_store_quarantine_and_acquire_daemon_lease lets serve finds every
\* entry of every record under its original name, after any kills and failed steps and any
\* power failures that SyncsCover allows: one that undoes a rename which a killed process or a
\* failed step left unsynced (retention.rs:3831) is excluded: it can lose an event log.
THEOREM ServingStaysClean == Spec /\ SyncsCover => []ServingIsClean
BY InvInvariant, CleanFromInv, PTL

\* A record goes in the incarnation that the journal of the job names.
LEMMA RecordGoes ==
    ASSUME RetentionInv, Next, NEW k \in Keys, rec[k] # 0, rec'[k] = 0
    PROVE  log[job.g].inc = rec[k]
<1>1. TypeInv /\ AuthorityInv /\ NameInv /\ FluxInv
  BY DEF RetentionInv
<1>2. ~(\E j \in Keys : Admit(j) \/ Toggle(j))
  <2>1. spent.writes \in Nat
    BY <1>1, BoundFacts DEF TypeInv
  <2>2. ASSUME NEW j \in Keys, Admit(j) PROVE FALSE
    <3>1. rec'[k] = IF k = j THEN 1 + spent.writes + 1 ELSE rec[k]
      BY <1>1, <2>2 DEF Admit, TypeInv, RegistryOK
    <3>2. QED
      BY <2>1, <3>1
  <2>3. ASSUME NEW j \in Keys, Toggle(j) PROVE FALSE
    BY <2>3 DEF Toggle
  <2>4. QED
    BY <2>2, <2>3
<1>3. Removes
  BY <1>1, <1>2, RegistrySteps DEF registry
<1>4. log[job.g].inc # 0 /\ k = log[job.g].key
  BY <1>1, <1>3 DEF Removes, SaveWithout, TypeInv, RegistryOK
<1>5. job.pc # "none" /\ job.g \in Begun
  BY <1>1, <1>3, JobFacts DEF Removes
<1>6. JournalOK(job.g)
  BY <1>1, <1>5 DEF AuthorityInv
<1>7. SameAuthority(job.g)
  <2>1. CASE job.pc = "remove"
    BY <1>1, <1>4, <2>1 DEF AuthorityInv, Unchanged
  <2>2. CASE job.pc = "finish"
    BY <1>3, <1>4, <2>2 DEF Removes, Finishable
  <2>3. QED
    BY <1>3, <2>1, <2>2 DEF Removes
<1>8. QED
  BY <1>4, <1>6, <1>7 DEF JournalOK

\* The last name of a component goes only when the journal of the job names it.
LEMMA NamesGo ==
    ASSUME RetentionInv, Next, CoveredStep, NEW o \in Objs, vis[o] # {}, vis'[o] = {}
    PROVE  job.g \in Groups /\ o \in log[job.g].objs
<1>1. TypeInv /\ AuthorityInv /\ NameInv /\ FluxInv /\ SolidInv
  BY DEF RetentionInv
<1>2. ASSUME NEW p \in Objs, NEW from, NEW to, Renames(p, from, to) PROVE FALSE
  BY <1>1, <1>2 DEF Renames, TypeInv, FilesOK
<1>3. ASSUME job.pc # "none", UNCHANGED vis PROVE FALSE
  BY <1>3
<1>4. CASE Stage
  <2>1. job.pc # "none"
    BY <1>4 DEF Stage, Ready
  <2>2. log[job.g].objs \subseteq Objs
    BY <1>1, <2>1, JobFacts
  <2>3. QED
    BY <1>1, <1>2, <1>4, <2>2, StageEffect DEF files
<1>5. CASE Delete
  <2>1. job.pc # "none"
    BY <1>5 DEF Delete, Ready
  <2>2. job.g \in Groups /\ log[job.g].objs \subseteq Objs
    BY <1>1, <2>1, JobFacts
  <2>3. UNCHANGED vis \/ \E p \in log[job.g].objs : \E n : vis' = [vis EXCEPT ![p] = n]
    BY <1>1, <1>2, <1>5, <2>2, DeleteEffect DEF files, DropJournal
  <2>4. QED
    BY <1>1, <2>2, <2>3 DEF TypeInv, FilesOK
<1>6. CASE Restore
  <2>1. job.pc # "none" /\ todo = <<>>
    BY <1>6 DEF Restore, Ready
  <2>2. log[job.g].objs \subseteq Objs /\ job.g \in Groups
    BY <1>1, <2>1, JobFacts
  <2>3. CASE ClearTransients
    <3>1. vis'[o] = vis[o] \ {At(job.g, "trash")}
      BY <2>3 DEF ClearTransients
    <3>2. At(job.g, "trash") \in Names(o) /\ At(job.g, "trash") # Orig /\ At(job.g, "trash")[1] = job.g
      BY <2>2, <3>1, NameFacts DEF Names, Roles
    <3>3. QED
      BY <1>1, <2>2, <3>2 DEF NameInv
  <2>4. CASE ~ClearTransients
    <3>1. UNCHANGED vis \/ \E p \in log[job.g].objs : \E from, to : Renames(p, from, to)
      BY <1>1, <1>6, <2>4, RestoreEffect DEF files, RemoveGroup
    <3>2. QED
      BY <1>2, <2>2, <3>1
  <2>5. QED
    BY <2>3, <2>4
<1>7. CASE PowerFail
  BY <1>1, <1>7, SolidPower
<1>8. ASSUME NEW k \in Keys, NEW c \in Comps, Write(k, c) PROVE FALSE
  BY <1>1, <1>8 DEF Write, TypeInv, FilesOK
<1>9. CASE Sync \/ Plan \/ (\E k \in Keys : Begin(k)) \/ WriteTemp \/ PersistJournal \/ MarkCommitted \/ RemoveRecord
           \/ Close \/ (\E g \in Groups : VisitGroup(g)) \/ Sweep \/ Finish \/ EndApply \/ EndPass \/ Recheck \/ StartApply
           \/ StartDaemon \/ StopDaemon \/ (\E k \in Keys : Admit(k) \/ Toggle(k)) \/ Fail \/ FailAfterSave \/ Kill
  <2>1. UNCHANGED vis
    BY <1>9 DEF Sync, Plan, Begin, WriteTemp, PersistJournal, MarkCommitted, RemoveRecord, Close, VisitGroup, Sweep, Finish, EndApply,
       EndPass, Recheck, StartApply, StartDaemon, StopDaemon, Start, Admit, Toggle, Fail, FailAfterSave, Kill, files
  <2>2. QED
    BY <2>1
<1>10. QED
  BY <1>4, <1>5, <1>6, <1>7, <1>8, <1>9 DEF Next, Step, Environment

\* The journal of the transaction in hand lists the component.
Listed(o) == job.g \in Groups /\ o \in log[job.g].objs

\* OnlyPlannedIsDeleted without its exception for event logs that the power failure took.
OnlyListedGoes == [][\A o \in Objs : vis[o] # {} /\ vis'[o] = {} => Listed(o)]_vars

\* A record goes only in the incarnation that the journal of the transaction names, and an
\* entry only when that journal lists it: neither a rollback, nor a recovery that comes after
\* the task was admitted again, nor a power failure that SyncsCover allows takes anything
\* else.
THEOREM PlannedOnlyGoes == Spec /\ SyncsCover => OnlyPlannedGoes /\ OnlyListedGoes
<1>1. RetentionInv /\ [Next]_vars /\ [CoveredStep]_vars =>
          [\A k \in Keys : rec[k] # 0 /\ rec'[k] = 0 => log[job.g].inc = rec[k]]_vars
  <2>1. ASSUME RetentionInv, Next, NEW k \in Keys, rec[k] # 0, rec'[k] = 0 PROVE log[job.g].inc = rec[k]
    BY <2>1, RecordGoes
  <2>2. QED
    BY <2>1
<1>2. RetentionInv /\ [Next]_vars /\ [CoveredStep]_vars => [\A o \in Objs : vis[o] # {} /\ vis'[o] = {} => Listed(o)]_vars
  <2>1. ASSUME RetentionInv, Next, CoveredStep, NEW o \in Objs, vis[o] # {}, vis'[o] = {} PROVE Listed(o)
    BY <2>1, NamesGo DEF Listed
  <2>2. QED
    BY <2>1
<1>3. Spec /\ SyncsCover => ReadmittedSurvives
  BY <1>1, InvInvariant, PTL DEF Spec, SyncsCover, ReadmittedSurvives
<1>4. Spec /\ SyncsCover => OnlyListedGoes
  BY <1>2, InvInvariant, PTL DEF Spec, SyncsCover, OnlyListedGoes
<1>5. OnlyListedGoes => OnlyPlannedIsDeleted
  <2>1. [\A o \in Objs : vis[o] # {} /\ vis'[o] = {} => Listed(o)]_vars =>
           [\A o \in Objs : vis[o] # {} /\ vis'[o] = {} =>
                (job.g \in Groups /\ o \in log[job.g].objs) \/ Lost(o)']_vars
    BY DEF Listed
  <2>2. QED
    BY <2>1, PTL DEF OnlyListedGoes, OnlyPlannedIsDeleted
<1>6. QED
  BY <1>3, <1>4, <1>5, PTL DEF OnlyPlannedGoes
=============================================================================
