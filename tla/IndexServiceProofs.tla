------------------------- MODULE IndexServiceProofs -------------------------
(***************************************************************************)
(* The interactive index never answers from what was cleared, and never    *)
(* with a version older than one that an accepted request reported, but    *)
(* for files whose marks a failed save has dropped: for any set of files,  *)
(* any bound on pending paths, and any number of requests, failed          *)
(* operations, stops and kills.  Each invariant is                         *)
(* inductive given the ones before it:                                     *)
(*   TypeInv    types                                                      *)
(*   PartInv    an update runs on loaded engines                           *)
(*   EpochInv   what is in the ingress is newer than the batch of the      *)
(*              worker, and work not older than the clear it follows; a    *)
(*              shutdown in either means that the flag is up               *)
(*   ShapeInv   what the batch holds at each step of the worker            *)
(*   TombInv    after an acknowledged clear nothing but that clear is left *)
(*              to do, in the ingress or with the worker                   *)
(*   BuildInv   what a build has read is the newest accepted version, or a *)
(*              newer request of the file is in the ingress; a file that   *)
(*              is not marked dirty is in the engines or a rebuild is      *)
(*              coming; manifest and engines on disk agree                 *)
(***************************************************************************)
EXTENDS IndexService, WellFoundedInduction, TLAPS

-----------------------------------------------------------------------------
(* Types *)

Engine == [Paths -> Nat] \cup {None}

Statuses == {"Missing", "Queued", "Building", "Ready"}

ManifestType == [status : Statuses, dirty : SUBSET Paths, queued : SUBSET Paths]

Phases == {"pending", "pending-rebuild", "complete", "superseded"}

ClearType == [phase : Phases, rev : Nat]

DiskType == [repo : Engine, regex : Engine, manifest : ManifestType, clear : ClearType \cup {None}]

WorkType == [clear : Nat, rev : Nat, full : Nat, paths : [Paths -> Nat], shut : Nat, epoch : Nat]

Kinds == {"clear", "full", "paths"}

RequestType == [kind : Kinds, paths : SUBSET Paths, rev : Nat]

ClearLabels == {"clear_repo", "clear_regex", "complete", "cleared"}

Scanning == {"repo", "progress", "regex", "commit"}

BuildLabels == Scanning \cup {"begin"}

WorkerLabels ==
    ClearLabels \cup BuildLabels
        \cup {"recv", "debounce", "dispatch", "retry", "reconcile", "done", "dead"}

Stages == {"none", "clear", "full", "paths", "hydrate"}

WorkerType == [pc : WorkerLabels, batch : WorkType, stage : Stages, part : BOOLEAN,
               last : BOOLEAN, done : BOOLEAN]

FilesOK == files \in [Paths -> Nat]
DiskOK == disk \in DiskType
LifeOK == life \in {"down", "hydrating", "up"}
ManOK == man \in ManifestType
MemOK == mem.repo \in Engine /\ mem.regex \in Engine
IngressOK == ingress \in WorkType
FlagsOK == wake \in BOOLEAN /\ stopping \in BOOLEAN
AdmOK == adm \in RequestType \cup {None}
WOK == w \in WorkerType
GhostsOK ==
    /\ accepted \in [Paths -> Nat] /\ owed \subseteq Paths /\ tomb \in BOOLEAN
    /\ dropped \subseteq Paths

TypeInv ==
    /\ FilesOK /\ DiskOK /\ LifeOK /\ ManOK /\ MemOK /\ IngressOK /\ FlagsOK /\ AdmOK /\ WOK
    /\ GhostsOK

\* The empty ingress, the default manifest and the worker at rest.
LEMMA ConstantTypes ==
    /\ NoWork \in WorkType /\ NoPaths \in [Paths -> Nat]
    /\ Missing \in ManifestType /\ Idle \in WorkerType
BY DEF NoWork, NoPaths, WorkType, Missing, ManifestType, Statuses, Idle, WorkerType, WorkerLabels,
       ClearLabels, BuildLabels, Scanning, Stages

\* The commands of the ingress.
LEMMA CommandTypes ==
    ASSUME NEW i \in WorkType, NEW rev \in Nat, NEW ps \in SUBSET Paths
    PROVE  /\ WithClear(i, rev) \in WorkType /\ WithFull(i) \in WorkType
           /\ WithPaths(i, ps) \in WorkType /\ WithShutdown(i) \in WorkType
<1>1. i.epoch + 1 \in Nat
  BY DEF WorkType
<1>2. [p \in Paths |-> IF p \in ps THEN i.epoch + 1 ELSE i.paths[p]] \in [Paths -> Nat]
  BY <1>1 DEF WorkType
<1>3. WithClear(i, rev) \in WorkType
  BY <1>1, ConstantTypes DEF WorkType, WithClear
<1>4. WithFull(i) \in WorkType
  BY <1>1, ConstantTypes DEF WorkType, WithFull
<1>5. WithPaths(i, ps) \in WorkType
  BY <1>1, <1>2, <1>4 DEF WorkType, WithPaths
<1>6. WithShutdown(i) \in WorkType
  BY <1>1 DEF WorkType, WithShutdown
<1>7. QED
  BY <1>3, <1>4, <1>5, <1>6

\* The larger of two epochs.
LEMMA MaxOfTwo ==
    ASSUME NEW a \in Nat, NEW b \in Nat
    PROVE  Max({a, b}) = IF a <= b THEN b ELSE a
<1>1. \A x \in {a, b} : (\A y \in {a, b} : x >= y) => x = IF a <= b THEN b ELSE a
  OBVIOUS
<1>2. \E x \in {a, b} : \A y \in {a, b} : x >= y
  OBVIOUS
<1>3. QED
  BY <1>1, <1>2 DEF Max

\* A set of epochs up to n has a largest one.
LEMMA MaxInBounds ==
    ASSUME NEW n \in Nat, NEW S \in SUBSET (0..n), S # {}
    PROVE  Max(S) \in S /\ \A y \in S : Max(S) >= y
<1> DEFINE T == {n - x : x \in S}
           R == OpToRel(<, Nat)
<1>1. \A x \in S : x \in Nat /\ n - x \in Nat
  OBVIOUS
<1>2. T \subseteq Nat /\ T # {}
  BY <1>1, Zenon
<1>3. PICK m \in T : \A y \in T : ~ (<<y, m>> \in R)
  <2> HIDE DEF T, R
  <2>1. IsWellFoundedOn(R, Nat)
    BY NatLessThanWellFounded DEF R
  <2>2. QED
    BY <1>2, <2>1, WFMin
<1>4. \A y \in T : ~ (y < m)
  <2> SUFFICES ASSUME NEW y \in T, y < m PROVE FALSE
    OBVIOUS
  <2>1. <<y, m>> \in R
    BY <1>2 DEF OpToRel
  <2>2. QED
    BY <1>3, <2>1
<1>5. PICK x \in S : m = n - x
  OBVIOUS
<1>6. \A y \in S : x >= y
  <2> SUFFICES ASSUME NEW y \in S PROVE x >= y
    OBVIOUS
  <2>1. n - y \in T
    OBVIOUS
  <2>2. ~ (n - y < n - x)
    BY <1>4, <1>5, <2>1
  <2>3. x \in Nat /\ y \in Nat
    BY <1>1
  <2>4. QED
    <3> HIDE DEF T, R
    <3> QED
      BY <2>2, <2>3
<1>7. QED
  BY <1>6 DEF Max

\* A batch that is retried takes in what arrived.
LEMMA MergeType ==
    ASSUME NEW old \in WorkType, NEW new \in WorkType
    PROVE  MergeNewer(old, new) \in WorkType
<1> DEFINE kept == [p \in Paths |-> IF old.paths[p] > new.full THEN old.paths[p] ELSE 0]
           over == [p \in Paths |-> IF new.paths[p] > 0 THEN new.paths[p] ELSE kept[p]]
           both == IF new.clear # 0
                   THEN [old EXCEPT !.clear = new.clear, !.rev = new.rev,
                                    !.full = new.full, !.paths = new.paths]
                   ELSE [old EXCEPT !.full = IF new.full # 0 THEN new.full ELSE @, !.paths = over]
<1>1. kept \in [Paths -> Nat]
  BY DEF WorkType
<1>2. over \in [Paths -> Nat]
  BY <1>1 DEF WorkType
<1>3. both \in WorkType
  <2> HIDE DEF over
  <2> QED
    BY <1>2 DEF WorkType
<1>4. Max({old.epoch, new.epoch}) \in Nat
  BY MaxOfTwo DEF WorkType
<1>5. [both EXCEPT !.shut = IF new.shut # 0 THEN new.shut ELSE @,
                   !.epoch = Max({old.epoch, new.epoch})] \in WorkType
  <2> HIDE DEF both
  <2> QED
    BY <1>3, <1>4 DEF WorkType
<1>6. QED
  BY <1>5 DEF MergeNewer

\* Follow-up work is about paths.
LEMMA FollowUpType ==
    ASSUME NEW b, NEW e
    PROVE  /\ FollowUp(b, e).paths \subseteq Paths
           /\ FollowUp(b, e).paths = {p \in Paths : b.paths[p] > e \/ ingress.paths[p] > e}
           /\ FollowUp(b, e).clear = (b.clear > e \/ ingress.clear > e)
           /\ FollowUp(b, e).full = (b.full > e \/ ingress.full > e)
           /\ FollowUp(b, e).shut = (b.shut > e \/ ingress.shut > e)
BY DEF FollowUp, FollowUpIn

\* The manifest in memory and the one on disk, when a save succeeds and when it fails.
LEMMA SaveTypes ==
    ASSUME DiskOK, NEW m \in ManifestType, Save(m) \/ SaveFails(m)
    PROVE  /\ ManOK' /\ DiskOK' /\ man' = m
           /\ disk'.repo = disk.repo /\ disk'.regex = disk.regex /\ disk'.clear = disk.clear
           /\ Save(m) => disk'.manifest = m
           /\ SaveFails(m) => disk'.manifest = disk.manifest \/ disk'.manifest = Missing
BY ConstantTypes DEF Save, SaveFails, DiskOK, DiskType, ManOK

\* The manifests of a request, of a retry and of a build.
LEMMA ManifestTypes ==
    ASSUME TypeInv
    PROVE  /\ adm # None => QueuedManifest(adm) \in ManifestType
           /\ Queued(man) \in ManifestType
           /\ Queued(disk.manifest) \in ManifestType
           /\ [Missing EXCEPT !.status = "Queued"] \in ManifestType
           /\ [man EXCEPT !.status = "Building"] \in ManifestType
           /\ [man EXCEPT !.status = "Building", !.queued = {}] \in ManifestType
           /\ [man EXCEPT !.status = "Building", !.dirty = @ \union Doing] \in ManifestType
<1>1. man \in ManifestType /\ disk.manifest \in ManifestType
  BY DEF TypeInv, ManOK, DiskOK, DiskType
<1>2. Doing \subseteq Paths
  BY DEF Doing
<1>3. adm # None => adm \in RequestType
  BY DEF TypeInv, AdmOK
<1>4. adm # None => QueuedManifest(adm) \in ManifestType
  BY <1>1, <1>3 DEF QueuedManifest, ManifestType, RequestType, Kinds, Missing, Queued, Statuses
<1>5. QED
  BY <1>1, <1>2, <1>4 DEF ManifestType, Queued, Missing, Statuses

\* The manifest of a published build.
LEMMA PublishedTypes ==
    ASSUME ManOK, NEW e
    PROVE  Published(FollowUp(w.batch, e)) \in ManifestType
BY FollowUpType DEF Published, ManOK, ManifestType, Statuses

\* Where the worker goes.
LEMMA WorkerTypes ==
    ASSUME WOK, NEW pc \in WorkerLabels, NEW stage \in Stages, NEW b \in BOOLEAN
    PROVE  /\ [w EXCEPT !.pc = pc] \in WorkerType
           /\ [w EXCEPT !.pc = pc, !.part = b] \in WorkerType
           /\ [w EXCEPT !.pc = pc, !.done = b] \in WorkerType
           /\ [w EXCEPT !.pc = pc, !.stage = stage, !.last = b] \in WorkerType
           /\ [w EXCEPT !.pc = pc, !.stage = stage, !.part = b] \in WorkerType
           /\ [Idle EXCEPT !.pc = pc] \in WorkerType
           /\ [Idle EXCEPT !.pc = pc, !.stage = stage] \in WorkerType
BY ConstantTypes DEF WOK, WorkerType

\* The labels that actions assign.
LEMMA LabelsAreTyped ==
    /\ "recv" \in WorkerLabels /\ "debounce" \in WorkerLabels /\ "dispatch" \in WorkerLabels
    /\ "retry" \in WorkerLabels /\ "reconcile" \in WorkerLabels /\ "done" \in WorkerLabels
    /\ "dead" \in WorkerLabels /\ "begin" \in WorkerLabels /\ "repo" \in WorkerLabels
    /\ "progress" \in WorkerLabels /\ "regex" \in WorkerLabels /\ "commit" \in WorkerLabels
    /\ "clear_repo" \in WorkerLabels /\ "clear_regex" \in WorkerLabels
    /\ "complete" \in WorkerLabels /\ "cleared" \in WorkerLabels
    /\ "none" \in Stages /\ "clear" \in Stages /\ "full" \in Stages /\ "paths" \in Stages
    /\ "hydrate" \in Stages
BY DEF WorkerLabels, ClearLabels, BuildLabels, Scanning, Stages

\* Where the worker goes on after a clear or a rebuild.
LEMMA NextTypes ==
    ASSUME WOK
    PROVE  UpdateNext \in WorkerType /\ BuildNext \in WorkerType /\ ClearFailed \in WorkerType
<1>1. UpdateNext \in WorkerType
  BY WorkerTypes, LabelsAreTyped, ConstantTypes DEF UpdateNext
<1>2. BuildNext \in WorkerType
  BY <1>1, WorkerTypes, LabelsAreTyped DEF BuildNext
<1>3. ClearFailed \in WorkerType
  BY WorkerTypes, LabelsAreTyped DEF ClearFailed
<1>4. QED
  BY <1>1, <1>2, <1>3

\* What a step leaves alone keeps its type.
LEMMA TypesStay ==
    /\ FilesOK /\ UNCHANGED files => FilesOK'
    /\ DiskOK /\ UNCHANGED disk => DiskOK'
    /\ LifeOK /\ UNCHANGED life => LifeOK'
    /\ ManOK /\ UNCHANGED man => ManOK'
    /\ MemOK /\ UNCHANGED mem => MemOK'
    /\ IngressOK /\ UNCHANGED ingress => IngressOK'
    /\ FlagsOK /\ UNCHANGED <<wake, stopping>> => FlagsOK'
    /\ AdmOK /\ UNCHANGED adm => AdmOK'
    /\ WOK /\ UNCHANGED w => WOK'
    /\ GhostsOK /\ UNCHANGED ghosts => GhostsOK'
BY DEF FilesOK, DiskOK, LifeOK, ManOK, MemOK, IngressOK, FlagsOK, AdmOK, WOK, GhostsOK, ghosts

\* Types hold at first; then one lemma for each action.
LEMMA InitTypes == ASSUME Init PROVE TypeInv
<1>1. files \in [Paths -> Nat]
  BY DEF Init
<1>2. DiskOK
  BY <1>1, ConstantTypes DEF Init, DiskOK, DiskType, Engine
<1>3. QED
  BY <1>1, <1>2, ConstantTypes DEF Init, TypeInv, FilesOK, LifeOK, ManOK, MemOK, IngressOK, FlagsOK,
     AdmOK, WOK, GhostsOK, NoRuntime, Engine

\* Clear states.
LEMMA ClearTypes ==
    ASSUME NEW c \in ClearType \cup {None}, NEW rev \in Nat
    PROVE  /\ NewTomb(c) \in ClearType /\ NewTomb(c).phase = "pending"
           /\ AfterTomb(c) \in ClearType \cup {None}
           /\ Completed(c, rev) \in ClearType
           /\ None \notin ClearType
<1>1. None \notin ClearType
  BY IndexServiceAssumption DEF ClearType, Phases
<1>2. NewTomb(c) \in ClearType /\ NewTomb(c).phase = "pending"
  BY DEF NewTomb, ClearType, Phases
<1>3. AfterTomb(c) \in ClearType \cup {None}
  BY DEF AfterTomb, ClearType, Phases, Complete
<1>4. Completed(c, rev) \in ClearType
  BY DEF Completed, ClearType, Phases
<1>5. QED
  BY <1>1, <1>2, <1>3, <1>4

LEMMA AdmitTypes ==
    ASSUME TypeInv, NEW kind \in Kinds, NEW ps \in SUBSET Paths, Admit(kind, ps)
    PROVE  TypeInv'
<1> DEFINE c == IF kind = "clear" THEN NewTomb(disk.clear) ELSE AfterTomb(disk.clear)
<1>1. disk.clear \in ClearType \cup {None} /\ disk \in DiskType
  BY DEF TypeInv, DiskOK, DiskType
<1>2. c \in ClearType \cup {None} /\ (kind = "clear" => c.rev \in Nat)
  BY <1>1, ClearTypes DEF ClearType
<1>3. [disk EXCEPT !.clear = c] \in DiskType
  <2> HIDE DEF c
  <2> QED
    BY <1>1, <1>2 DEF DiskType
<1>4. DiskOK'
  BY <1>1, <1>3 DEF Admit, DiskOK
<1>5. AdmOK'
  <2>1. CASE adm' = adm
    BY <2>1 DEF TypeInv, AdmOK
  <2>2. CASE adm' = [kind |-> kind, paths |-> ps, rev |-> IF kind = "clear" THEN c.rev ELSE 0]
    <3> HIDE DEF c
    <3> QED
      BY <1>2, <2>2 DEF AdmOK, RequestType
  <2>3. QED
    BY <2>1, <2>2 DEF Admit
<1>6. FilesOK'
  BY DEF Admit, TypeInv, FilesOK
<1>7. GhostsOK'
  BY DEF Admit, TypeInv, GhostsOK
<1>8. QED
  BY <1>4, <1>5, <1>6, <1>7, TypesStay DEF Admit, TypeInv, memory

LEMMA QueueTypes == ASSUME TypeInv, Queue PROVE TypeInv'
<1>1. adm \in RequestType /\ QueuedManifest(adm) \in ManifestType
  BY ManifestTypes DEF Queue, TypeInv, AdmOK
<1>2. ManOK' /\ DiskOK'
  BY <1>1, SaveTypes DEF Queue, TypeInv
<1>3. QueuedWork(adm) \in WorkType
  BY <1>1, CommandTypes DEF QueuedWork, RequestType, TypeInv, IngressOK
<1>4. IngressOK' /\ FlagsOK'
  BY <1>3, TypesStay DEF Queue, TypeInv, IngressOK, FlagsOK, ghosts
<1>5. GhostsOK'
  <2>1. CASE UNCHANGED ghosts
    BY <2>1, TypesStay DEF TypeInv
  <2>2. CASE Drop(man.dirty \ QueuedManifest(adm).dirty)
    BY <2>2 DEF Drop, TypeInv, GhostsOK, ManOK, ManifestType
  <2>3. CASE Accept(adm)
    <3>1. Reported(adm.kind, adm.paths) \subseteq Paths
      BY <1>1 DEF Reported, RequestType
    <3>2. QED
      BY <2>3, <3>1 DEF Accept, TypeInv, GhostsOK, FilesOK
  <2>4. QED
    BY <2>1, <2>2, <2>3 DEF Queue, ghosts
<1>6. AdmOK'
  BY DEF Queue, AdmOK
<1>7. QED
  BY <1>2, <1>4, <1>5, <1>6, TypesStay DEF Queue, TypeInv

LEMMA BatchTypes ==
    ASSUME TypeInv, Receive \/ TakeBatch \/ RetryDelayPasses \/ Dispatch
    PROVE  TypeInv'
<1>1. IngressOK' /\ FlagsOK'
  BY ConstantTypes, TypesStay DEF Receive, TakeBatch, RetryDelayPasses, Dispatch, TypeInv,
     IngressOK, FlagsOK, WorkType, memory
<1>2. WOK'
  <2>1. CASE Receive
    BY <2>1, WorkerTypes, LabelsAreTyped DEF Receive, TypeInv, WOK
  <2>2. CASE TakeBatch
    <3>1. w.batch \in WorkType /\ ingress \in WorkType
      BY DEF TypeInv, WOK, WorkerType, IngressOK
    <3>2. MergeNewer(w.batch, ingress) \in WorkType
      BY <3>1, MergeType
    <3>3. QED
      BY <2>2, <3>1, <3>2, LabelsAreTyped DEF TakeBatch, TypeInv, WOK, WorkerType
  <2>3. CASE RetryDelayPasses
    BY <2>3, WorkerTypes, LabelsAreTyped DEF RetryDelayPasses, TypeInv, WOK
  <2>4. CASE Dispatch
    <3>1. (w.batch.shut # 0 \/ stopping) \in BOOLEAN
      OBVIOUS
    <3>2. QED
      BY <2>4, <3>1, WorkerTypes, LabelsAreTyped, NextTypes DEF Dispatch, TypeInv, WOK
  <2>5. QED
    BY <2>1, <2>2, <2>3, <2>4
<1>3. QED
  BY <1>1, <1>2, TypesStay DEF Receive, TakeBatch, RetryDelayPasses, Dispatch, TypeInv, OnlyWorker,
     memory

LEMMA ClearEngineTypes ==
    ASSUME TypeInv,
           ClearEngine("repo", "clear_repo", "clear_regex")
              \/ ClearEngine("regex", "clear_regex", "complete")
    PROVE  TypeInv'
<1>1. DiskOK'
  BY DEF ClearEngine, TypeInv, DiskOK, DiskType, Engine
<1>2. WOK'
  BY WorkerTypes, LabelsAreTyped, NextTypes DEF ClearEngine, TypeInv, WOK
<1>3. QED
  BY <1>1, <1>2, TypesStay DEF ClearEngine, TypeInv, OnlyWorker, memory

LEMMA CompleteClearTypes == ASSUME TypeInv, CompleteClear PROVE TypeInv'
<1> DEFINE ends == CompletesRevision(disk.clear, w.batch.rev)
           c == IF ends THEN Completed(disk.clear, w.batch.rev) ELSE disk.clear
<1>1. disk \in DiskType /\ disk.clear \in ClearType \cup {None} /\ w.batch.rev \in Nat
  BY DEF TypeInv, DiskOK, DiskType, WOK, WorkerType, WorkType
<1>2. c \in ClearType \cup {None} /\ ends \in BOOLEAN
  BY <1>1, ClearTypes DEF CompletesRevision
<1>3. [disk EXCEPT !.clear = c] \in DiskType
  <2> HIDE DEF c
  <2> QED
    BY <1>1, <1>2 DEF DiskType
<1>4. DiskOK'
  BY <1>1, <1>3 DEF CompleteClear, DiskOK
<1>5. [w EXCEPT !.pc = "cleared", !.done = ends] \in WorkerType
  <2> HIDE DEF ends
  <2> QED
    BY <1>2, WorkerTypes, LabelsAreTyped DEF TypeInv
<1>6. WOK'
  BY <1>5, NextTypes DEF CompleteClear, TypeInv, WOK
<1>7. QED
  BY <1>4, <1>6, TypesStay DEF CompleteClear, TypeInv, OnlyWorker, memory

\* The manifest that a clear leaves.
LEMMA ClearedManifest ==
    ASSUME ClearCommit
    PROVE  \E m \in ManifestType :
              /\ m.status # "Ready" /\ m.queued = m.dirty
              /\ m.dirty = FollowUp(w.batch, w.batch.clear).paths
              /\ \/ Save(m) /\ UNCHANGED faults
                    /\ w' = IF w.last THEN [Idle EXCEPT !.pc = "done"] ELSE BuildNext
                 \/ SaveFails(m) /\ w' = ClearFailed
<1> DEFINE f == FollowUp(w.batch, w.batch.clear)
           later == ~w.done \/ f.clear \/ f.full \/ f.paths # {}
           m == IF later THEN [status |-> "Queued", dirty |-> f.paths, queued |-> f.paths]
                ELSE Missing
<1>1. f.paths \subseteq Paths
  BY FollowUpType
<1>2. m \in ManifestType /\ m.status # "Ready" /\ m.queued = m.dirty /\ m.dirty = f.paths
  <2> HIDE DEF f
  <2> QED
    BY <1>1 DEF ManifestType, Statuses, Missing
<1>3. \/ Save(m) /\ UNCHANGED faults
         /\ w' = IF w.last THEN [Idle EXCEPT !.pc = "done"] ELSE BuildNext
      \/ SaveFails(m) /\ w' = ClearFailed
  BY DEF ClearCommit
<1>4. QED
  <2> HIDE DEF m
  <2> QED
    BY <1>2, <1>3

LEMMA ClearCommitTypes == ASSUME TypeInv, ClearCommit PROVE TypeInv'
<1>1. PICK m \in ManifestType :
         \/ Save(m) /\ w' = IF w.last THEN [Idle EXCEPT !.pc = "done"] ELSE BuildNext
         \/ SaveFails(m) /\ w' = ClearFailed
  BY ClearedManifest
<1>2. ManOK' /\ DiskOK'
  BY <1>1, SaveTypes DEF TypeInv
<1>3. WOK'
  BY <1>1, NextTypes, WorkerTypes, LabelsAreTyped DEF TypeInv, WOK
<1>4. MemOK'
  BY DEF ClearCommit, MemOK, NoRuntime, Engine
<1>5. QED
  BY <1>2, <1>3, <1>4, TypesStay DEF ClearCommit, TypeInv, OnlyWorker

\* The steps of a build that has failed, and of one that has ended.
LEMMA EndTypes ==
    ASSUME WOK, LifeOK, BuildFailed \/ StageDone
    PROVE  WOK' /\ LifeOK'
BY WorkerTypes, LabelsAreTyped, NextTypes, ConstantTypes DEF BuildFailed, StageDone, WOK, LifeOK

LEMMA BeginBuildTypes == ASSUME TypeInv, BeginBuild PROVE TypeInv'
<1> DEFINE part == w.stage = "paths" /\ Current(mem)
           m == IF part THEN [man EXCEPT !.status = "Building", !.dirty = @ \union Doing]
                ELSE [man EXCEPT !.status = "Building", !.queued = {}]
<1>1. m \in ManifestType /\ part \in BOOLEAN
  BY ManifestTypes
<1>2. \/ UNCHANGED <<man, disk>> /\ (StageDone \/ BuildFailed)
      \/ Save(m) /\ Goto("repo", part)
      \/ SaveFails(m) /\ BuildFailed
  BY DEF BeginBuild, Section
<1>3. ManOK' /\ DiskOK' /\ WOK' /\ LifeOK'
  <2> HIDE DEF m, part
  <2>1. ManOK' /\ DiskOK'
    BY <1>1, <1>2, SaveTypes, TypesStay DEF TypeInv
  <2>2. WOK' /\ LifeOK'
    <3>1. CASE StageDone \/ BuildFailed
      BY <3>1, EndTypes DEF TypeInv
    <3>2. CASE Goto("repo", part)
      BY <1>1, <3>2, WorkerTypes, LabelsAreTyped DEF TypeInv, Goto, LifeOK, WOK
    <3>3. QED
      BY <1>2, <3>1, <3>2
  <2>3. QED
    BY <2>1, <2>2
<1>4. FlagsOK' /\ GhostsOK'
  BY DEF BeginBuild, WorkerOnly, TypeInv, FlagsOK, GhostsOK
<1>5. QED
  BY <1>3, <1>4, TypesStay DEF BeginBuild, TypeInv, WorkerOnly

\* An update keeps what is in memory of the files that it does not read: it runs on
\* engines that are loaded; a rebuild in the place of an update, or before the daemon
\* is ready, on engines that are not.
PartInv ==
    life # "down" /\ w.pc \in BuildLabels =>
        /\ w.stage \in {"full", "paths", "hydrate"}
        /\ w.stage = "hydrate" => ~Current(mem)
        /\ w.pc \in Scanning => IF w.part THEN w.stage = "paths" /\ Current(mem)
                                ELSE w.stage = "full" \/ ~Current(mem)

\* An engine reads the files.
LEMMA ScannedTypes ==
    ASSUME TypeInv, NEW old \in Engine, w.part => old # None
    PROVE  Scanned(old) \in [Paths -> Nat]
BY DEF Scanned, Engine, TypeInv, FilesOK

LEMMA BuildEngineTypes ==
    ASSUME TypeInv, PartInv, BuildEngine("repo", "progress") \/ BuildEngine("regex", "commit")
    PROVE  TypeInv'
<1>1. w.part => mem.repo # None /\ mem.regex # None
  BY DEF PartInv, BuildEngine, At, BuildLabels, Scanning, Current
<1>2. Scanned(mem.repo) \in [Paths -> Nat] /\ Scanned(mem.regex) \in [Paths -> Nat]
  BY <1>1, ScannedTypes DEF TypeInv, MemOK
<1>3. DiskOK'
  BY <1>2 DEF BuildEngine, TypeInv, DiskOK, DiskType, Engine
<1>4. WOK' /\ LifeOK'
  <2>1. CASE BuildFailed
    BY <2>1, EndTypes DEF TypeInv
  <2>2. CASE Goto("progress", w.part) \/ Goto("commit", w.part)
    BY <2>2, LabelsAreTyped DEF TypeInv, Goto, LifeOK, WOK, WorkerType
  <2>3. QED
    BY <2>1, <2>2 DEF BuildEngine
<1>5. GhostsOK'
  BY DEF BuildEngine, WorkerOnly, TypeInv, GhostsOK
<1>6. QED
  BY <1>3, <1>4, <1>5, TypesStay DEF BuildEngine, TypeInv, WorkerOnly, memory

\* What a section of a build may do.
LEMMA SectionTypes ==
    ASSUME TypeInv, NEW m \in ManifestType,
           \/ Section(m, StageDone)
           \/ \E pc \in WorkerLabels, b \in BOOLEAN : Section(m, Goto(pc, b))
    PROVE  ManOK' /\ DiskOK' /\ WOK' /\ LifeOK'
<1>1. ManOK' /\ DiskOK'
  BY SaveTypes, TypesStay DEF Section, TypeInv
<1>2. WOK' /\ LifeOK'
  <2>1. CASE StageDone \/ BuildFailed
    BY <2>1, EndTypes DEF TypeInv
  <2>2. ASSUME NEW pc \in WorkerLabels, NEW b \in BOOLEAN, Goto(pc, b) PROVE WOK' /\ LifeOK'
    BY <2>2 DEF TypeInv, Goto, LifeOK, WOK, WorkerType
  <2>3. QED
    BY <2>1, <2>2 DEF Section
<1>3. QED
  BY <1>1, <1>2

LEMMA ProgressTypes == ASSUME TypeInv, Progress PROVE TypeInv'
<1>1. ManOK' /\ DiskOK' /\ WOK' /\ LifeOK'
  <2>1. CASE stopping
    BY <2>1, SectionTypes, ManifestTypes DEF Progress, Requeue
  <2>2. CASE ~stopping /\ w.part
    BY <2>2, TypesStay, WorkerTypes, LabelsAreTyped DEF Progress, Goto, TypeInv, WOK
  <2>3. CASE ~stopping /\ ~w.part
    <3>1. Section([man EXCEPT !.status = "Building"], Goto("regex", FALSE))
      BY <2>3 DEF Progress
    <3>2. QED
      BY <3>1, SectionTypes, ManifestTypes, LabelsAreTyped
  <2>4. QED
    BY <2>1, <2>2, <2>3
<1>2. FlagsOK' /\ GhostsOK'
  BY DEF Progress, WorkerOnly, TypeInv, FlagsOK, GhostsOK
<1>3. QED
  BY <1>1, <1>2, TypesStay DEF Progress, TypeInv, WorkerOnly

LEMMA CommitTypes == ASSUME TypeInv, Commit PROVE TypeInv'
<1> DEFINE f == FollowUp(w.batch, StageEpoch)
<1>1. Published(f) \in ManifestType
  BY PublishedTypes DEF TypeInv
<1>2. Section(Queued(man), StageDone) \/ Section(Published(f), StageDone)
  BY DEF Commit, Requeue
<1>3. ManOK' /\ DiskOK' /\ WOK' /\ LifeOK'
  <2> HIDE DEF f
  <2> QED
    BY <1>1, <1>2, SectionTypes, ManifestTypes
<1>4. MemOK'
  BY DEF Commit, TypeInv, MemOK, Loaded, DiskOK, DiskType
<1>5. FlagsOK' /\ GhostsOK'
  BY DEF Commit, Settle, WorkerOnly, TypeInv, FlagsOK, GhostsOK
<1>6. QED
  BY <1>3, <1>4, <1>5, TypesStay DEF Commit, TypeInv, WorkerOnly

LEMMA ReconcileTypes == ASSUME TypeInv, Reconcile PROVE TypeInv'
<1>1. ManOK' /\ DiskOK'
  BY SaveTypes, ManifestTypes DEF Reconcile, TypeInv
<1>2. MemOK'
  BY DEF Reconcile, TypeInv, MemOK, Loaded, DiskOK, DiskType
<1>3. WOK'
  <2>1. PromoteRetry(w.batch) \in WorkType
    BY ConstantTypes DEF PromoteRetry, TypeInv, WOK, WorkerType, WorkType
  <2>2. QED
    BY <2>1, ConstantTypes, LabelsAreTyped DEF Reconcile, TypeInv, WOK, WorkerType
<1>4. QED
  BY <1>1, <1>2, <1>3, TypesStay DEF Reconcile, TypeInv, OnlyWorker

\* What a daemon finds on disk.
LEMMA LoadedTypes ==
    ASSUME DiskOK
    PROVE  /\ LoadedIndex(disk).man \in ManifestType
           /\ LoadedIndex(disk).mem.repo \in Engine /\ LoadedIndex(disk).mem.regex \in Engine
BY ConstantTypes DEF LoadedIndex, DiskOK, DiskType, Loaded, NoRuntime, Engine, Queued, ManifestType,
   Statuses

LEMMA StartTypes == ASSUME TypeInv, Start PROVE TypeInv'
<1> DEFINE x == LoadedIndex(disk)
           work == InitialWork(x)
           m == InitialManifest(x, work)
<1>1. x.man \in ManifestType /\ x.mem.repo \in Engine /\ x.mem.regex \in Engine
  BY LoadedTypes DEF TypeInv
<1>2. m \in ManifestType
  <2> HIDE DEF x, work
  <2> QED
    BY <1>1 DEF InitialManifest, ManifestType, Missing, Queued, Statuses
<1>3. ManOK' /\ DiskOK'
  <2>1. CASE man' = x.man /\ UNCHANGED disk
    BY <1>1, <2>1, TypesStay DEF TypeInv, ManOK
  <2>2. CASE Save(m) \/ SaveFails(m)
    <3> HIDE DEF m
    <3> QED
      BY <1>2, <2>2, SaveTypes DEF TypeInv
  <2>3. QED
    BY <2>1, <2>2 DEF Start
<1>4. MemOK'
  BY <1>1 DEF Start, MemOK
<1>5. IngressOK'
  <2>1. work = "clear" => disk.clear \in ClearType
    <3> HIDE DEF x
    <3> QED
      BY DEF InitialWork, Pending, TypeInv, DiskOK, DiskType
  <2>2. InitialIngress(work) \in WorkType
    <3> HIDE DEF work
    <3> QED
      BY <2>1, ConstantTypes, CommandTypes DEF InitialIngress, ClearType
  <2>3. QED
    BY <2>2 DEF Start, IngressOK
<1>6. WOK' /\ LifeOK'
  <2> HIDE DEF x, m
  <2>1. w' = w \/ w' = Idle \/ w' = [Idle EXCEPT !.pc = "begin", !.stage = "hydrate"]
    BY DEF Start, x
  <2>2. life' = life \/ life' \in {"up", "hydrating"}
    BY DEF Start, x
  <2>3. WOK'
    BY <2>1, LabelsAreTyped, ConstantTypes DEF TypeInv, WOK, WorkerType
  <2>4. LifeOK'
    BY <2>2 DEF TypeInv, LifeOK
  <2>5. QED
    BY <2>3, <2>4
<1>7. FlagsOK' /\ GhostsOK'
  <2>1. wake' \in BOOLEAN /\ stopping' \in BOOLEAN
    <3>1. wake' = (work \in {"clear", "full"}) /\ stopping' = FALSE
      BY DEF Start
    <3>2. (work \in {"clear", "full"}) \in BOOLEAN
      OBVIOUS
    <3>3. QED
      BY <3>1, <3>2, Zenon
  <2>2. owed' \subseteq owed /\ UNCHANGED <<accepted, tomb, dropped>>
    BY DEF Start, Settle
  <2>3. QED
    BY <2>1, <2>2 DEF TypeInv, FlagsOK, GhostsOK
<1>8. QED
  BY <1>3, <1>4, <1>5, <1>6, <1>7, TypesStay DEF Start, TypeInv

LEMMA LifeTypes ==
    ASSUME TypeInv, Signal \/ BeginShutdown \/ RequestStop \/ Exit \/ Kill
    PROVE  TypeInv'
<1>1. IngressOK'
  BY CommandTypes DEF Signal, BeginShutdown, RequestStop, Exit, Kill, Down, TypeInv, IngressOK,
     memory
<1>2. FlagsOK' /\ LifeOK' /\ AdmOK'
  BY DEF Signal, BeginShutdown, RequestStop, Exit, Kill, Down, TypeInv, FlagsOK, LifeOK, AdmOK,
     memory
<1>3. QED
  BY <1>1, <1>2, TypesStay DEF Signal, BeginShutdown, RequestStop, Exit, Kill, Down, TypeInv, memory

\* Where the worker goes after a clear and after a rebuild.
LEMMA NextStages ==
    ASSUME WOK
    PROVE  /\ \/ Doing = {} /\ UpdateNext = Idle
              \/ Doing # {} /\ UpdateNext.pc = "begin" /\ UpdateNext.stage = "paths"
                    /\ UpdateNext.batch = w.batch
           /\ \/ w.batch.full = 0 /\ BuildNext = UpdateNext
              \/ w.batch.full # 0 /\ BuildNext.pc = "begin" /\ BuildNext.stage = "full"
                    /\ BuildNext.batch = w.batch
BY DEF WOK, WorkerType, UpdateNext, BuildNext

\* The fields of a worker at rest.
LEMMA IdleFields ==
    Idle.pc = "recv" /\ Idle.batch = NoWork /\ Idle.stage = "none"
BY DEF Idle

\* The labels at which the worker builds, as sets of strings.
LEMMA BuildLabelsAre == BuildLabels = {"begin", "repo", "progress", "regex", "commit"}
BY DEF BuildLabels, Scanning

\* A build that ends or fails is not being built any more.
LEMMA PartEnds ==
    ASSUME TypeInv, StageDone \/ BuildFailed
    PROVE  PartInv'
<1>1. CASE BuildFailed
  BY <1>1, IdleFields DEF BuildFailed, PartInv, BuildLabels, Scanning, TypeInv, WOK, WorkerType
<1>2. CASE StageDone
  BY <1>2, NextStages, IdleFields DEF StageDone, PartInv, BuildLabels, Scanning, TypeInv
<1>3. QED
  BY <1>1, <1>2

\* Every step keeps PartInv: only BeginBuild chooses between update and rebuild.
LEMMA PartSteps == ASSUME TypeInv, PartInv, Next PROVE PartInv'
<1>1. CASE UNCHANGED <<life, mem, w>>
  BY <1>1 DEF PartInv, Current
<1>2. ASSUME w'.pc \notin BuildLabels PROVE PartInv'
  BY <1>2 DEF PartInv
<1>3. CASE Receive \/ TakeBatch \/ RetryDelayPasses
  BY <1>2, <1>3 DEF Receive, TakeBatch, RetryDelayPasses, TypeInv, WOK, WorkerType, BuildLabels,
     Scanning
<1>4. ASSUME UNCHANGED life,
             w' = BuildNext \/ w' = UpdateNext \/ w' = Idle \/ w' = [Idle EXCEPT !.pc = "done"]
      PROVE  PartInv'
  BY <1>4, NextStages, IdleFields, ConstantTypes DEF PartInv, BuildLabels, Scanning, TypeInv,
     WorkerType
<1>5. CASE Dispatch
  <2>1. CASE w.batch.clear # 0
    BY <1>2, <1>5, <2>1 DEF Dispatch, TypeInv, WOK, WorkerType, BuildLabels, Scanning
  <2>2. CASE w.batch.clear = 0
    BY <1>4, <1>5, <2>2 DEF Dispatch, OnlyWorker
  <2>3. QED
    BY <2>1, <2>2
<1>6. CASE \/ ClearEngine("repo", "clear_repo", "clear_regex")
           \/ ClearEngine("regex", "clear_regex", "complete") \/ CompleteClear
  BY <1>2, <1>6 DEF ClearEngine, CompleteClear, ClearFailed, TypeInv, WOK, WorkerType, BuildLabels,
     Scanning
<1>7. CASE ClearCommit
  <2>1. CASE w' = ClearFailed
    BY <1>2, <2>1 DEF ClearFailed, TypeInv, WOK, WorkerType, BuildLabels, Scanning
  <2>2. CASE w' = IF w.last THEN [Idle EXCEPT !.pc = "done"] ELSE BuildNext
    BY <1>4, <1>7, <2>2 DEF ClearCommit, OnlyWorker
  <2>3. QED
    BY <1>7, <2>1, <2>2 DEF ClearCommit
<1>8. CASE BeginBuild
  <2>1. CASE StageDone \/ BuildFailed
    BY <2>1, PartEnds
  <2>2. CASE Goto("repo", w.stage = "paths" /\ Current(mem))
    <3>1. w'.pc = "repo" /\ w'.stage = w.stage /\ life' = life /\ mem' = mem
          /\ w'.part = (w.stage = "paths" /\ Current(mem))
      BY <1>8, <2>2 DEF BeginBuild, Goto, TypeInv, WOK, WorkerType
    <3>2. life # "down" /\ w.pc \in BuildLabels
      BY <1>8 DEF BeginBuild, At, BuildLabels
    <3>3. QED
      BY <3>1, <3>2 DEF PartInv, Current
  <2>3. QED
    BY <1>8, <2>1, <2>2 DEF BeginBuild, Section
<1>9. CASE BuildEngine("repo", "progress") \/ BuildEngine("regex", "commit") \/ Progress
  <2>1. CASE StageDone \/ BuildFailed
    BY <2>1, PartEnds
  <2>2. CASE Goto("progress", w.part) \/ Goto("commit", w.part) \/ Goto("regex", w.part)
    <3>1. w'.pc \in Scanning /\ w'.stage = w.stage /\ life' = life /\ mem' = mem /\ w'.part = w.part
      BY <1>9, <2>2 DEF BuildEngine, Progress, Goto, TypeInv, WOK, WorkerType, Scanning, memory
    <3>2. life # "down" /\ w.pc \in BuildLabels /\ w.pc \in Scanning
      BY <1>9 DEF BuildEngine, Progress, At, BuildLabels, Scanning
    <3>3. QED
      BY <3>1, <3>2 DEF PartInv, Current
  <2>3. w.part \in BOOLEAN
    BY DEF TypeInv, WOK, WorkerType
  <2>4. QED
    BY <1>9, <2>1, <2>2, <2>3 DEF BuildEngine, Progress, Section, Requeue
<1>10. CASE Commit
  BY <1>10, PartEnds DEF Commit, Requeue, Section
<1>11. CASE Reconcile
  BY <1>2, <1>11, IdleFields DEF Reconcile, TypeInv, WOK, WorkerType, BuildLabels, Scanning
<1>12. CASE Start
  <2>1. CASE w' = Idle
    BY <1>2, <2>1, IdleFields DEF BuildLabels, Scanning
  <2>2. CASE UNCHANGED life
    BY <1>12, <2>2 DEF Start, PartInv
  <2>3. CASE InitialWork(LoadedIndex(disk)) = "hydrate"
             /\ w' = [Idle EXCEPT !.pc = "begin", !.stage = "hydrate"]
    <3>1. ~Current(LoadedIndex(disk).mem)
      <4>1. OnlyRegex(LoadedIndex(disk))
        BY <2>3 DEF InitialWork
      <4>2. QED
        BY <4>1 DEF OnlyRegex, Current
    <3>2. mem' = LoadedIndex(disk).mem
      BY <1>12 DEF Start
    <3>3. w'.stage = "hydrate" /\ w'.pc = "begin"
      BY <2>3, ConstantTypes DEF WorkerType
    <3>4. QED
      BY <3>1, <3>2, <3>3 DEF PartInv, Current, Scanning
  <2>4. QED
    BY <1>12, <2>1, <2>2, <2>3 DEF Start
<1>13. CASE Exit \/ Kill
  BY <1>13 DEF Exit, Kill, Down, PartInv
<1>14. QED
  BY <1>1, <1>3, <1>5, <1>6, <1>7, <1>8, <1>9, <1>10, <1>11, <1>12, <1>13
     DEF Next, Worker, Admit, Queue, Signal, BeginShutdown, RequestStop, memory

\* Types, and what an update may assume, are inductive together.
LEMMA TypeSteps == ASSUME TypeInv, PartInv, Next PROVE TypeInv'
<1>1. ASSUME NEW kind \in {"clear", "full"}, Admit(kind, {}) PROVE TypeInv'
  BY <1>1, AdmitTypes DEF Kinds
<1>2. ASSUME NEW ps \in (SUBSET Paths) \ {{}}, Admit("paths", ps) PROVE TypeInv'
  BY <1>2, AdmitTypes DEF Kinds
<1>3. QED
  BY <1>1, <1>2, QueueTypes, BatchTypes, ClearEngineTypes, CompleteClearTypes, ClearCommitTypes,
     BeginBuildTypes, BuildEngineTypes, ProgressTypes, CommitTypes, ReconcileTypes, StartTypes,
     LifeTypes
     DEF Next, Worker

-----------------------------------------------------------------------------
(* Epochs *)

\* Work of one batch: nothing is newer than its epoch, nor older than its clear.
Ordered(work) ==
    /\ work.clear <= work.epoch /\ work.full <= work.epoch
    /\ \A p \in Paths : work.paths[p] <= work.epoch
    /\ work.full # 0 => work.clear <= work.full
    /\ \A p \in Paths : work.paths[p] # 0 => work.clear <= work.paths[p]

\* What arrived after epoch e.
Newer(work, e) ==
    /\ e <= work.epoch
    /\ work.clear # 0 => work.clear > e
    /\ work.full # 0 => work.full > e
    /\ \A p \in Paths : work.paths[p] # 0 => work.paths[p] > e

StopIsKnown == (ingress.shut # 0 \/ w.batch.shut # 0) => stopping

\* What is in the ingress is newer than everything in the batch.
EpochInv ==
    life # "down" => Ordered(ingress) /\ Ordered(w.batch) /\ Newer(ingress, w.batch.epoch)
                        /\ StopIsKnown

\* The empty ingress.
LEMMA NoWorkIsOrdered ==
    /\ Ordered(NoWork) /\ NoWork.clear = 0 /\ NoWork.full = 0 /\ NoWork.shut = 0 /\ NoWork.epoch = 0
    /\ \A p \in Paths : NoWork.paths[p] = 0
    /\ Newer(NoWork, 0)
BY DEF NoWork, Ordered, Newer

\* A command is newer than all that came before it.
LEMMA CommandEpochs ==
    ASSUME NEW i \in WorkType, Ordered(i), NEW e \in Nat, Newer(i, e), NEW rev \in Nat,
           NEW ps \in SUBSET Paths
    PROVE  /\ Ordered(WithClear(i, rev)) /\ Newer(WithClear(i, rev), e)
           /\ Ordered(WithFull(i)) /\ Newer(WithFull(i), e)
           /\ Ordered(WithPaths(i, ps)) /\ Newer(WithPaths(i, ps), e)
           /\ Ordered(WithShutdown(i)) /\ Newer(WithShutdown(i), e)
           /\ WithClear(i, rev).shut = i.shut /\ WithFull(i).shut = i.shut
           /\ WithPaths(i, ps).shut = i.shut
<1>1. i.epoch \in Nat /\ i.clear \in Nat /\ i.full \in Nat /\ i.paths \in [Paths -> Nat]
  BY DEF WorkType
<1>2. Ordered(WithClear(i, rev)) /\ Newer(WithClear(i, rev), e) /\ WithClear(i, rev).shut = i.shut
  BY <1>1 DEF WithClear, WorkType, Ordered, Newer, NoPaths
<1>3. Ordered(WithFull(i)) /\ Newer(WithFull(i), e) /\ WithFull(i).shut = i.shut
  BY <1>1 DEF WithFull, WorkType, Ordered, Newer, NoPaths
<1>4. Ordered(WithPaths(i, ps)) /\ Newer(WithPaths(i, ps), e) /\ WithPaths(i, ps).shut = i.shut
  <2> DEFINE new == [p \in Paths |-> IF p \in ps THEN i.epoch + 1 ELSE i.paths[p]]
             x == [i EXCEPT !.epoch = @ + 1, !.paths = new]
  <2>1. x.paths = new /\ x.epoch = i.epoch + 1 /\ x.clear = i.clear /\ x.full = i.full
        /\ x.shut = i.shut
    <3> HIDE DEF new
    <3> QED
      BY DEF WorkType
  <2>2. \A p \in Paths : new[p] = i.epoch + 1 \/ new[p] = i.paths[p]
    OBVIOUS
  <2>3. Ordered(x) /\ Newer(x, e)
    <3> HIDE DEF new, x
    <3> QED
      BY <1>1, <2>1, <2>2 DEF Ordered, Newer
  <2>4. QED
    BY <1>3, <2>1, <2>3 DEF WithPaths
<1>5. Ordered(WithShutdown(i)) /\ Newer(WithShutdown(i), e)
  BY <1>1 DEF WithShutdown, WorkType, Ordered, Newer
<1>6. QED
  BY <1>2, <1>3, <1>4, <1>5

\* The work of a batch that takes in a newer one.
LEMMA MergeFields ==
    ASSUME NEW old \in WorkType, NEW new \in WorkType, old.epoch <= new.epoch
    PROVE  LET x == MergeNewer(old, new) IN
           /\ x.epoch = new.epoch
           /\ x.shut = IF new.shut # 0 THEN new.shut ELSE old.shut
           /\ x.clear = IF new.clear # 0 THEN new.clear ELSE old.clear
           /\ x.full = IF new.clear # 0 \/ new.full # 0 THEN new.full ELSE old.full
           /\ new.clear # 0 => x.paths = new.paths
           /\ \A p \in Paths :
                 \/ x.paths[p] = new.paths[p]
                 \/ new.clear = 0 /\ new.paths[p] = 0 /\ x.paths[p] = old.paths[p]
                       /\ old.paths[p] > new.full
<1> DEFINE kept == [p \in Paths |-> IF old.paths[p] > new.full THEN old.paths[p] ELSE 0]
           over == [p \in Paths |-> IF new.paths[p] > 0 THEN new.paths[p] ELSE kept[p]]
           both == IF new.clear # 0
                   THEN [old EXCEPT !.clear = new.clear, !.rev = new.rev,
                                    !.full = new.full, !.paths = new.paths]
                   ELSE [old EXCEPT !.full = IF new.full # 0 THEN new.full ELSE @, !.paths = over]
           x == MergeNewer(old, new)
<1>1. Max({old.epoch, new.epoch}) = new.epoch
  BY MaxOfTwo DEF WorkType
<1>2. x = [both EXCEPT !.shut = IF new.shut # 0 THEN new.shut ELSE @, !.epoch = new.epoch]
  BY <1>1 DEF MergeNewer
<1>3. \A p \in Paths :
         \/ over[p] = new.paths[p]
         \/ new.paths[p] = 0 /\ over[p] = old.paths[p] /\ old.paths[p] > new.full
  BY DEF WorkType
<1>4. /\ x.epoch = new.epoch
      /\ x.shut = IF new.shut # 0 THEN new.shut ELSE old.shut
      /\ x.clear = IF new.clear # 0 THEN new.clear ELSE old.clear
      /\ x.full = IF new.clear # 0 \/ new.full # 0 THEN new.full ELSE old.full
      /\ x.paths = IF new.clear # 0 THEN new.paths ELSE over
  <2> HIDE DEF over, x
  <2> QED
    BY <1>2 DEF WorkType
<1>5. QED
  <2> HIDE DEF over, x
  <2> QED
    BY <1>3, <1>4 DEF x

\* merge_newer keeps the order of epochs: what it keeps of the old batch is not
\* overtaken by the new one.
LEMMA MergeEpochs ==
    ASSUME NEW old \in WorkType, NEW new \in WorkType, Ordered(old), Ordered(new),
           Newer(new, old.epoch)
    PROVE  Ordered(MergeNewer(old, new))
<1> DEFINE x == MergeNewer(old, new)
<1>1. /\ old.clear \in Nat /\ old.full \in Nat /\ old.epoch \in Nat /\ old.paths \in [Paths -> Nat]
      /\ new.clear \in Nat /\ new.full \in Nat /\ new.epoch \in Nat /\ new.paths \in [Paths -> Nat]
  BY DEF WorkType
<1>2. old.epoch <= new.epoch
  BY DEF Newer
<1>3. x.clear <= x.epoch /\ x.full <= x.epoch /\ (x.full # 0 => x.clear <= x.full)
  <2> HIDE DEF x
  <2> QED
    BY <1>1, <1>2, MergeFields DEF Ordered, Newer, x
<1>4. ASSUME NEW p \in Paths
      PROVE  x.paths[p] <= x.epoch /\ (x.paths[p] # 0 => x.clear <= x.paths[p])
  <2> HIDE DEF x
  <2> QED
    BY <1>1, <1>2, MergeFields DEF Ordered, Newer, x
<1>5. QED
  <2> HIDE DEF x
  <2> QED
    BY <1>3, <1>4 DEF Ordered, x

\* A step that takes no batch and sends no command.
LEMMA EpochsStay ==
    ASSUME TypeInv, EpochInv, life = "down" => life' = "down", ingress' = ingress,
           w'.batch \in {w.batch, NoWork}, stopping => stopping'
    PROVE  EpochInv'
<1>1. ingress.clear \in Nat /\ ingress.full \in Nat /\ ingress.epoch \in Nat
      /\ ingress.paths \in [Paths -> Nat]
  BY DEF TypeInv, IngressOK, WorkType
<1>2. Newer(ingress, 0)
  BY <1>1 DEF Newer
<1>3. QED
  BY <1>2, NoWorkIsOrdered DEF EpochInv, StopIsKnown, Ordered, Newer

\* Where the steps of the worker leave its batch.
LEMMA BatchStays ==
    ASSUME TypeInv, Worker, ~TakeBatch, ~Reconcile
    PROVE  w'.batch \in {w.batch, NoWork}
<1>1. ASSUME NEW pc, w' = [w EXCEPT !.pc = pc] PROVE w'.batch = w.batch
  BY <1>1 DEF TypeInv, WOK, WorkerType
<1>2. CASE w' = [Idle EXCEPT !.pc = "done"] \/ w' = [Idle EXCEPT !.pc = "dead"] \/ w' = Idle
  BY <1>2, IdleFields, ConstantTypes DEF WorkerType
<1>3. CASE w' = UpdateNext \/ w' = BuildNext
  BY <1>3, NextStages, IdleFields DEF TypeInv
<1>4. CASE Receive \/ RetryDelayPasses
  BY <1>1, <1>4 DEF Receive, RetryDelayPasses
<1>5. CASE Dispatch
  BY <1>2, <1>3, <1>5 DEF Dispatch, TypeInv, WOK, WorkerType
<1>6. CASE w' = ClearFailed
  BY <1>1, <1>6 DEF ClearFailed
<1>7. CASE ClearEngine("repo", "clear_repo", "clear_regex")
             \/ ClearEngine("regex", "clear_regex", "complete")
  BY <1>1, <1>6, <1>7 DEF ClearEngine
<1>8. CASE CompleteClear
  BY <1>6, <1>8 DEF CompleteClear, TypeInv, WOK, WorkerType
<1>9. CASE ClearCommit
  BY <1>2, <1>3, <1>6, <1>9 DEF ClearCommit
<1>10. CASE StageDone \/ BuildFailed
  BY <1>1, <1>2, <1>3, <1>10 DEF StageDone, BuildFailed
<1>11. ASSUME NEW pc, NEW b, Goto(pc, b) PROVE w'.batch = w.batch
  BY <1>11 DEF Goto, TypeInv, WOK, WorkerType
<1>12. CASE BeginBuild
  BY <1>10, <1>11, <1>12 DEF BeginBuild, Section
<1>13. CASE BuildEngine("repo", "progress") \/ BuildEngine("regex", "commit")
  BY <1>10, <1>11, <1>13 DEF BuildEngine
<1>14. CASE Progress
  BY <1>10, <1>11, <1>14 DEF Progress, Requeue, Section
<1>15. CASE Commit
  BY <1>10, <1>15 DEF Commit, Requeue, Section
<1>16. QED
  BY <1>4, <1>5, <1>7, <1>8, <1>9, <1>12, <1>13, <1>14, <1>15 DEF Worker

\* Every step keeps EpochInv.
LEMMA EpochSteps == ASSUME TypeInv, EpochInv, Next PROVE EpochInv'
<1>1. CASE Worker /\ ~TakeBatch /\ ~Reconcile
  <2>1. w'.batch \in {w.batch, NoWork}
    BY <1>1, BatchStays
  <2>2. UNCHANGED <<ingress, stopping>> /\ life # "down"
    BY <1>1 DEF Worker, Receive, RetryDelayPasses, Dispatch, ClearEngine, CompleteClear,
       ClearCommit, BeginBuild, BuildEngine, Progress, Commit, At, memory
  <2>3. QED
    BY <2>1, <2>2, EpochsStay
<1>2. CASE TakeBatch
  <2>1. /\ w.batch \in WorkType /\ ingress \in WorkType /\ life # "down" /\ life' = life
        /\ stopping' = stopping
    BY <1>2 DEF TakeBatch, At, OnlyWorker, TypeInv, WOK, WorkerType, IngressOK
  <2>2. w'.batch = IF w.stage = "none" THEN ingress ELSE MergeNewer(w.batch, ingress)
    BY <1>2 DEF TakeBatch, TypeInv, WOK, WorkerType
  <2>3. /\ ingress'.clear = 0 /\ ingress'.full = 0 /\ (\A p \in Paths : ingress'.paths[p] = 0)
        /\ ingress'.epoch = ingress.epoch /\ ingress'.shut = ingress.shut
    BY <1>2, <2>1, ConstantTypes, NoWorkIsOrdered DEF TakeBatch, WorkType
  <2>4. Ordered(w'.batch) /\ w'.batch.epoch = ingress.epoch
    BY <2>1, <2>2, MergeEpochs, MergeFields DEF EpochInv, Newer
  <2>5. w'.batch.shut # 0 => ingress.shut # 0 \/ w.batch.shut # 0
    BY <2>1, <2>2, MergeFields DEF EpochInv, Newer
  <2>6. ingress.epoch \in Nat
    BY <2>1 DEF WorkType
  <2>7. QED
    BY <2>1, <2>3, <2>4, <2>5, <2>6 DEF EpochInv, Ordered, Newer, StopIsKnown
<1>3. CASE Reconcile
  <2>1. life # "down" /\ life' = life /\ UNCHANGED <<ingress, stopping>>
    BY <1>3 DEF Reconcile, At, OnlyWorker
  <2>2. CASE w'.batch \in {w.batch, NoWork}
    BY <2>1, <2>2, EpochsStay
  <2>3. CASE w'.batch = PromoteRetry(w.batch)
    <3>1. w.batch \in WorkType
      BY DEF TypeInv, WOK, WorkerType
    <3>2. /\ w'.batch.clear = w.batch.clear /\ w'.batch.epoch = w.batch.epoch
          /\ w'.batch.shut = w.batch.shut /\ w'.batch.full = w.batch.epoch
          /\ \A p \in Paths : w'.batch.paths[p] = 0
      BY <2>3, <3>1 DEF PromoteRetry, WorkType, NoPaths
    <3>3. w.batch.clear <= w.batch.epoch /\ w.batch.epoch \in Nat
      BY <2>1, <3>1 DEF EpochInv, Ordered, WorkType
    <3>4. Ordered(w'.batch)
      BY <3>2, <3>3 DEF Ordered
    <3>5. QED
      BY <2>1, <3>2, <3>4 DEF EpochInv, Ordered, Newer, StopIsKnown
  <2>4. QED
    <3>1. \/ w' = Idle \/ w' = [w EXCEPT !.pc = "dead"]
          \/ w' = [w EXCEPT !.pc = "retry",
                            !.batch = IF w.stage = "paths" THEN PromoteRetry(@) ELSE @]
      BY <1>3 DEF Reconcile
    <3>2. QED
      BY <2>2, <2>3, <3>1, IdleFields DEF TypeInv, WOK, WorkerType
<1>4. CASE UNCHANGED <<life, ingress, w>> /\ (stopping => stopping')
  BY <1>4, EpochsStay
<1>5. CASE Queue
  <2>1. CASE UNCHANGED ingress
    BY <1>4, <1>5, <2>1 DEF Queue
  <2>2. CASE ingress' = QueuedWork(adm) /\ ingress.shut = 0
    <3>1. adm.rev \in Nat /\ adm.paths \subseteq Paths /\ ingress \in WorkType
          /\ w.batch.epoch \in Nat
      BY <1>5 DEF Queue, TypeInv, AdmOK, RequestType, IngressOK, WOK, WorkerType, WorkType
    <3>2. life # "down" =>
             Ordered(ingress') /\ Newer(ingress', w.batch.epoch) /\ ingress'.shut = ingress.shut
      BY <2>2, <3>1, CommandEpochs DEF QueuedWork, EpochInv
    <3>3. UNCHANGED <<life, w, stopping>>
      BY <1>5 DEF Queue
    <3>4. QED
      BY <3>2, <3>3 DEF EpochInv, StopIsKnown
  <2>3. QED
    BY <1>5, <2>1, <2>2 DEF Queue
<1>6. CASE BeginShutdown \/ RequestStop
  <2>1. ingress \in WorkType /\ w.batch.epoch \in Nat /\ life # "down"
    BY <1>6 DEF BeginShutdown, RequestStop, TypeInv, IngressOK, WOK, WorkerType, WorkType
  <2>2. Ordered(ingress') /\ Newer(ingress', w.batch.epoch)
    BY <1>6, <2>1, CommandEpochs DEF BeginShutdown, RequestStop, EpochInv
  <2>3. UNCHANGED <<life, w>> /\ stopping'
    BY <1>6 DEF BeginShutdown, RequestStop
  <2>4. QED
    BY <2>1, <2>2, <2>3 DEF EpochInv, StopIsKnown
<1>7. CASE Start
  <2>1. CASE life' = "down"
    BY <2>1 DEF EpochInv
  <2>2. CASE w' = Idle \/ w' = [Idle EXCEPT !.pc = "begin", !.stage = "hydrate"]
    <3>1. w'.batch = NoWork
      BY <2>2, IdleFields, ConstantTypes DEF WorkerType
    <3>2. \E work : ingress' = InitialIngress(work) /\ (work = "clear" => Pending(disk.clear))
      <4>1. InitialWork(LoadedIndex(disk)) = "clear" => Pending(disk.clear)
        BY DEF InitialWork
      <4>2. QED
        BY <1>7, <4>1 DEF Start
    <3>3. Ordered(ingress') /\ Newer(ingress', 0) /\ ingress'.shut = 0
      <4>1. Pending(disk.clear) => disk.clear.rev \in Nat
        BY DEF Pending, TypeInv, DiskOK, DiskType, ClearType
      <4>2. ASSUME NEW rev \in Nat
            PROVE  /\ Ordered(WithClear(NoWork, rev)) /\ Newer(WithClear(NoWork, rev), 0)
                   /\ WithClear(NoWork, rev).shut = 0 /\ WithClear(NoWork, rev) \in WorkType
        BY CommandEpochs, CommandTypes, ConstantTypes, NoWorkIsOrdered
      <4>3. ASSUME NEW i \in WorkType, Ordered(i), Newer(i, 0), i.shut = 0
            PROVE  Ordered(WithFull(i)) /\ Newer(WithFull(i), 0) /\ WithFull(i).shut = 0
        BY <4>3, CommandEpochs, NoWorkIsOrdered
      <4>4. PICK work : ingress' = InitialIngress(work) /\ (work = "clear" => Pending(disk.clear))
        BY <3>2
      <4>5. \/ ingress' = NoWork \/ ingress' = WithFull(NoWork)
            \/ \E rev \in Nat : \/ ingress' = WithClear(NoWork, rev)
                                 \/ ingress' = WithFull(WithClear(NoWork, rev))
        BY <4>1, <4>4 DEF InitialIngress
      <4>6. QED
        BY <4>2, <4>3, <4>5, ConstantTypes, NoWorkIsOrdered
    <3>4. QED
      BY <3>1, <3>3, NoWorkIsOrdered DEF EpochInv, StopIsKnown
  <2>3. QED
    BY <1>7, <2>1, <2>2 DEF Start
<1>8. CASE Exit \/ Kill
  BY <1>8 DEF Exit, Kill, Down, EpochInv
<1>9. QED
  <2>1. CASE \/ \E kind \in {"clear", "full"} : Admit(kind, {})
             \/ \E ps \in (SUBSET Paths) \ {{}} : Admit("paths", ps)
             \/ Signal
    BY <1>4, <2>1 DEF Admit, Signal, memory
  <2>2. QED
    BY <1>1, <1>2, <1>3, <1>5, <1>6, <1>7, <1>8, <2>1 DEF Next

-----------------------------------------------------------------------------
(* The worker *)

Ahead(work) == {p \in Paths : work.paths[p] > work.full}

Shape(x) ==
    /\ x.pc \in ClearLabels => x.stage = "clear"
    /\ x.pc = "reconcile" => x.stage \in {"clear", "full", "paths"}
    /\ x.pc \in ClearLabels \cup {"reconcile"} /\ x.stage = "clear" => x.batch.clear # 0
    /\ x.pc \in BuildLabels \cup {"reconcile"} /\ x.stage = "full" => x.batch.full # 0
    /\ x.pc \in BuildLabels \cup {"reconcile"} /\ x.stage = "paths" => Ahead(x.batch) # {}
    /\ x.stage \in {"none", "hydrate"} /\ x.pc # "dispatch" => x.batch.clear = 0 /\ x.batch.full = 0

\* The batch fits the stage that the worker is in.
ShapeInv == life # "down" => Shape(w)

\* A build that ends or fails.
LEMMA ShapeEnds ==
    ASSUME TypeInv, PartInv, ShapeInv, life # "down", w.pc \in BuildLabels, StageDone \/ BuildFailed
    PROVE  ShapeInv'
<1>1. Shape(Idle) /\ Shape([Idle EXCEPT !.pc = "dead"]) /\ Shape([Idle EXCEPT !.pc = "done"])
  BY IdleFields, ConstantTypes, NoWorkIsOrdered DEF Shape, ClearLabels, BuildLabels, Scanning,
     WorkerType
<1>2. CASE BuildFailed
  BY <1>1, <1>2 DEF BuildFailed, ShapeInv, PartInv, Shape, TypeInv, WOK, WorkerType, BuildLabels,
     Scanning, ClearLabels
<1>3. CASE StageDone
  <2>1. Doing = Ahead(w.batch)
    BY DEF Doing, Ahead
  <2>2. QED
    BY <1>1, <1>3, <2>1, NextStages DEF StageDone, ShapeInv, Shape, TypeInv, BuildLabels, Scanning,
       ClearLabels
<1>4. QED
  BY <1>2, <1>3

\* Every step keeps ShapeInv.
LEMMA ShapeSteps == ASSUME TypeInv, PartInv, ShapeInv, EpochInv, Next PROVE ShapeInv'
<1>1. Shape(Idle) /\ Shape([Idle EXCEPT !.pc = "dead"]) /\ Shape([Idle EXCEPT !.pc = "done"])
      /\ Shape([Idle EXCEPT !.pc = "begin", !.stage = "hydrate"])
  BY IdleFields, ConstantTypes, NoWorkIsOrdered DEF Shape, ClearLabels, BuildLabels, Scanning,
     WorkerType
<1>2. Shape(UpdateNext) /\ Shape(BuildNext)
  <2>1. Doing = Ahead(w.batch)
    BY DEF Doing, Ahead
  <2>2. QED
    BY <1>1, <2>1, NextStages DEF Shape, TypeInv, BuildLabels, Scanning, ClearLabels
<1>3. CASE UNCHANGED <<life, w>>
  BY <1>3 DEF ShapeInv
<1>4. ASSUME life # "down", Shape(w') PROVE ShapeInv'
  BY <1>4 DEF ShapeInv
<1>5. CASE Receive \/ TakeBatch \/ RetryDelayPasses
  BY <1>4, <1>5 DEF Receive, TakeBatch, RetryDelayPasses, At, ShapeInv, Shape, TypeInv, WOK,
     WorkerType, BuildLabels, Scanning, ClearLabels
<1>6. CASE Dispatch
  <2>1. CASE w.batch.clear # 0
    BY <1>4, <1>6, <2>1 DEF Dispatch, At, ShapeInv, Shape, TypeInv, WOK, WorkerType, BuildLabels,
       Scanning, ClearLabels
  <2>2. CASE w.batch.clear = 0
    BY <1>1, <1>2, <1>4, <1>6, <2>2 DEF Dispatch, At
  <2>3. QED
    BY <2>1, <2>2
<1>7. ASSUME life # "down", w.pc \in ClearLabels, w' = ClearFailed PROVE ShapeInv'
  BY <1>4, <1>7 DEF ClearFailed, ShapeInv, Shape, TypeInv, WOK, WorkerType, BuildLabels, Scanning,
     ClearLabels
<1>8. CASE \/ ClearEngine("repo", "clear_repo", "clear_regex")
           \/ ClearEngine("regex", "clear_regex", "complete") \/ CompleteClear
  <2>1. life # "down" /\ w.pc \in ClearLabels
    BY <1>8 DEF ClearEngine, CompleteClear, At, ClearLabels
  <2>2. QED
    BY <1>4, <1>7, <1>8, <2>1 DEF ClearEngine, CompleteClear, ShapeInv, Shape, TypeInv, WOK,
       WorkerType, BuildLabels, Scanning, ClearLabels
<1>9. CASE ClearCommit
  <2>1. life # "down" /\ w.pc \in ClearLabels
    BY <1>9 DEF ClearCommit, At, ClearLabels
  <2>2. QED
    BY <1>1, <1>2, <1>4, <1>7, <1>9, <2>1 DEF ClearCommit
<1>10. CASE BeginBuild \/ BuildEngine("repo", "progress") \/ Progress
              \/ BuildEngine("regex", "commit") \/ Commit
  <2>1. life # "down" /\ w.pc \in BuildLabels
    BY <1>10 DEF BeginBuild, BuildEngine, Progress, Commit, At, BuildLabels, Scanning
  <2>2. CASE StageDone \/ BuildFailed
    BY <2>1, <2>2, ShapeEnds
  <2>3. ASSUME NEW pc \in BuildLabels, NEW b, Goto(pc, b) PROVE ShapeInv'
    BY <1>4, <2>1, <2>3 DEF Goto, ShapeInv, Shape, TypeInv, WOK, WorkerType, BuildLabels, Scanning,
       ClearLabels
  <2>4. QED
    BY <1>10, <2>2, <2>3 DEF BeginBuild, BuildEngine, Progress, Commit, Requeue, Section,
       BuildLabels, Scanning
<1>11. CASE Reconcile
  <2>1. life # "down"
    BY <1>11 DEF Reconcile, At
  <2>2. CASE w' = Idle \/ w' = [w EXCEPT !.pc = "dead"]
    BY <1>1, <1>4, <1>11, <2>1, <2>2 DEF Reconcile, At, ShapeInv, Shape, TypeInv, WOK, WorkerType,
       BuildLabels, Scanning, ClearLabels
  <2>3. CASE w' = [w EXCEPT !.pc = "retry",
                            !.batch = IF w.stage = "paths" THEN PromoteRetry(@) ELSE @]
    <3>1. w'.pc = "retry" /\ w'.stage = w.stage
      BY <2>3 DEF TypeInv, WOK, WorkerType
    <3>2. w.stage \in {"clear", "full", "paths"}
      BY <1>11, <2>1 DEF Reconcile, At, ShapeInv, Shape
    <3>3. QED
      BY <1>4, <2>1, <3>1, <3>2 DEF Shape, BuildLabels, Scanning, ClearLabels
  <2>4. QED
    BY <1>11, <2>2, <2>3 DEF Reconcile
<1>12. CASE Start
  BY <1>1, <1>12 DEF Start, ShapeInv
<1>13. CASE Exit \/ Kill
  BY <1>13 DEF Exit, Kill, Down, ShapeInv
<1>14. QED
  BY <1>3, <1>5, <1>6, <1>8, <1>9, <1>10, <1>11, <1>12, <1>13
     DEF Next, Worker, Admit, Queue, Signal, BeginShutdown, RequestStop

\* The epoch of what is built: not newer than the batch, nor older than its clear.
LEMMA StageEpochIs ==
    ASSUME TypeInv, PartInv, EpochInv, ShapeInv, life # "down", w.pc \in BuildLabels
    PROVE  StageEpoch \in Nat /\ StageEpoch <= w.batch.epoch /\ w.batch.clear <= StageEpoch
<1>1. w.batch.clear \in Nat /\ w.batch.full \in Nat /\ w.batch.epoch \in Nat
      /\ w.batch.paths \in [Paths -> Nat]
  BY DEF TypeInv, WOK, WorkerType, WorkType
<1>2. Ordered(w.batch)
  BY DEF EpochInv
<1>3. w.stage \in {"full", "paths", "hydrate"}
  BY DEF PartInv
<1>4. CASE w.stage = "full"
  <2>1. StageEpoch = w.batch.full /\ w.batch.full # 0
    BY <1>4 DEF StageEpoch, ShapeInv, Shape
  <2>2. QED
    BY <1>1, <1>2, <2>1 DEF Ordered
<1>5. CASE w.stage = "paths"
  <2> DEFINE S == {w.batch.paths[p] : p \in Doing}
  <2>1. \A p \in Doing : p \in Paths /\ w.batch.paths[p] \in 0..w.batch.epoch
                            /\ w.batch.clear <= w.batch.paths[p]
    BY <1>1, <1>2 DEF Ordered, Doing
  <2>2. S \in SUBSET (0..w.batch.epoch)
    BY <2>1
  <2>3. S # {}
    BY <1>5 DEF ShapeInv, Shape, Ahead, Doing
  <2>4. Max(S) \in S
    <3> HIDE DEF S
    <3> QED
      BY <1>1, <2>2, <2>3, MaxInBounds
  <2>5. StageEpoch = Max(S)
    BY <1>5 DEF StageEpoch
  <2>6. PICK p \in Doing : StageEpoch = w.batch.paths[p]
    <3> HIDE DEF S
    <3>1. StageEpoch \in S
      BY <2>4, <2>5
    <3>2. QED
      BY <3>1 DEF S
  <2>7. QED
    BY <2>1, <2>6
<1>6. CASE w.stage = "hydrate"
  <2>1. StageEpoch = 0
    BY <1>6 DEF StageEpoch
  <2>2. w.batch.clear = 0
    BY <1>6 DEF ShapeInv, Shape, BuildLabels, Scanning
  <2>3. QED
    BY <1>1, <2>1, <2>2
<1>7. QED
  BY <1>3, <1>4, <1>5, <1>6

\* A build overlooks nothing that arrived since its batch was taken.
LEMMA FollowUpIsExact ==
    ASSUME TypeInv, EpochInv, life # "down", NEW e \in Nat, e <= w.batch.epoch, w.batch.clear <= e
    PROVE  /\ FollowUp(w.batch, e).clear <=> ingress.clear # 0
           /\ FollowUp(w.batch, e).shut => stopping
           /\ ingress.full # 0 => FollowUp(w.batch, e).full
           /\ \A p \in Paths : ingress.paths[p] # 0 => p \in FollowUp(w.batch, e).paths
<1>1. /\ ingress.clear \in Nat /\ ingress.full \in Nat /\ ingress.epoch \in Nat
      /\ ingress.paths \in [Paths -> Nat] /\ ingress.shut \in Nat
      /\ w.batch.clear \in Nat /\ w.batch.epoch \in Nat /\ w.batch.shut \in Nat
  BY DEF TypeInv, WOK, WorkerType, WorkType, IngressOK
<1>2. Newer(ingress, w.batch.epoch) /\ StopIsKnown
  BY DEF EpochInv
<1>3. FollowUp(w.batch, e).clear <=> w.batch.clear > e \/ ingress.clear > e
  BY FollowUpType
<1>4. FollowUp(w.batch, e).full <=> w.batch.full > e \/ ingress.full > e
  BY FollowUpType
<1>5. FollowUp(w.batch, e).shut <=> w.batch.shut > e \/ ingress.shut > e
  BY FollowUpType
<1>6. \A p \in Paths : ingress.paths[p] > e => p \in FollowUp(w.batch, e).paths
  BY FollowUpType
<1>7. FollowUp(w.batch, e).clear <=> ingress.clear # 0
  BY <1>1, <1>2, <1>3 DEF Newer
<1>8. FollowUp(w.batch, e).shut => stopping
  BY <1>1, <1>2, <1>5 DEF StopIsKnown
<1>9. ingress.full # 0 => FollowUp(w.batch, e).full
  BY <1>1, <1>2, <1>4 DEF Newer
<1>10. \A p \in Paths : ingress.paths[p] # 0 => p \in FollowUp(w.batch, e).paths
  BY <1>1, <1>2, <1>6 DEF Newer
<1>11. QED
  BY <1>7, <1>8, <1>9, <1>10

-----------------------------------------------------------------------------
(* Clears *)

\* The worker has nothing to build: its batch is empty, or the clear and nothing else.
Quiet ==
    /\ w.batch.full = 0 /\ \A p \in Paths : w.batch.paths[p] = 0
    /\ w.pc \notin BuildLabels
    /\ w.stage \in {"none", "clear"} \/ (w.pc = "dispatch" /\ w.batch.clear # 0)

ClearAlone ==
    /\ ingress.full = 0 /\ \A p \in Paths : ingress.paths[p] = 0
    /\ ingress.clear # 0 \/ Quiet
    /\ man.status # "Ready"

Standing(c) == c # None /\ c.phase \in {"pending", "complete"}

ClearAdmitted == adm # None /\ adm.kind = "clear"

WorkAdmitted == adm # None /\ adm.kind # "clear"

\* A clear that was acknowledged, or is about to be, stands on disk; in a running daemon
\* nothing but it is left to do.
TombInv ==
    /\ tomb \/ ClearAdmitted => Standing(disk.clear)
    /\ WorkAdmitted => ~tomb
    /\ tomb /\ life # "down" => ClearAlone

\* The worker goes on with nothing left to build.
LEMMA QuietIdle ==
    ASSUME NEW x, x = Idle \/ x = [Idle EXCEPT !.pc = "done"] \/ x = [Idle EXCEPT !.pc = "dead"]
    PROVE  /\ x.batch.full = 0 /\ \A p \in Paths : x.batch.paths[p] = 0
           /\ x.pc \notin BuildLabels /\ x.stage = "none"
BY IdleFields, ConstantTypes, NoWorkIsOrdered DEF WorkerType, BuildLabels, Scanning

\* With nothing to build, the worker goes to rest after a clear.
LEMMA QuietNext ==
    ASSUME TypeInv, w.batch.full = 0, \A p \in Paths : w.batch.paths[p] = 0
    PROVE  BuildNext = Idle /\ UpdateNext = Idle
BY DEF Doing, BuildNext, UpdateNext

\* Steps of the worker while a clear stands, without those that change the ingress.
LEMMA QuietSteps ==
    ASSUME TypeInv, PartInv, ShapeInv, Quiet, Worker, ~TakeBatch
    PROVE  Quiet'
<1>1. /\ w.batch.full = 0 /\ \A p \in Paths : w.batch.paths[p] = 0
      /\ w.pc \notin BuildLabels
      /\ w.stage \in {"none", "clear"} \/ (w.pc = "dispatch" /\ w.batch.clear # 0)
  BY DEF Quiet
<1>2. CASE w' = Idle \/ w' = [Idle EXCEPT !.pc = "done"] \/ w' = [Idle EXCEPT !.pc = "dead"]
  BY <1>2, QuietIdle DEF Quiet
<1>3. ASSUME NEW pc \in WorkerLabels \ BuildLabels, w'.pc = pc, w'.batch = w.batch,
             w'.stage = "clear" \/ (w'.stage = w.stage /\ w.pc # "dispatch")
      PROVE  Quiet'
  BY <1>1, <1>3 DEF Quiet
<1>4. CASE Receive \/ RetryDelayPasses
  BY <1>3, <1>4, LabelsAreTyped DEF Receive, RetryDelayPasses, At, TypeInv, WOK, WorkerType,
     BuildLabels, Scanning
<1>5. CASE Dispatch
  <2>1. CASE w.batch.clear # 0
    <3>1. w'.pc = "clear_repo" /\ w'.stage = "clear" /\ w'.batch = w.batch
      BY <1>5, <2>1 DEF Dispatch, TypeInv, WOK, WorkerType
    <3>2. "clear_repo" \in WorkerLabels \ BuildLabels
      BY LabelsAreTyped DEF BuildLabels, Scanning
    <3>3. QED
      BY <1>1, <3>1, <3>2 DEF Quiet
  <2>2. CASE w.batch.clear = 0
    BY <1>1, <1>2, <1>5, <2>2, QuietNext DEF Dispatch
  <2>3. QED
    BY <2>1, <2>2
<1>6. ASSUME w.pc \in ClearLabels, w' = ClearFailed PROVE Quiet'
  BY <1>3, <1>6, LabelsAreTyped DEF ClearFailed, TypeInv, WOK, WorkerType, BuildLabels, Scanning,
     ClearLabels
<1>7. CASE \/ ClearEngine("repo", "clear_repo", "clear_regex")
           \/ ClearEngine("regex", "clear_regex", "complete") \/ CompleteClear
  <2>1. w.pc \in ClearLabels
    BY <1>7 DEF ClearEngine, CompleteClear, At, ClearLabels
  <2>2. QED
    BY <1>3, <1>6, <1>7, <2>1, LabelsAreTyped DEF ClearEngine, CompleteClear, TypeInv, WOK,
       WorkerType, BuildLabels, Scanning, ClearLabels
<1>8. CASE ClearCommit
  <2>1. w.pc \in ClearLabels
    BY <1>8 DEF ClearCommit, At, ClearLabels
  <2>2. QED
    BY <1>1, <1>2, <1>6, <1>8, <2>1, QuietNext DEF ClearCommit
<1>9. CASE BeginBuild \/ BuildEngine("repo", "progress") \/ Progress
             \/ BuildEngine("regex", "commit") \/ Commit
  BY <1>1, <1>9 DEF BeginBuild, BuildEngine, Progress, Commit, At, BuildLabels, Scanning
<1>10. CASE Reconcile
  <2>1. w.stage = "clear"
    BY <1>1, <1>10 DEF Reconcile, At, ShapeInv, Shape
  <2>2. QED
    BY <1>2, <1>3, <1>10, <2>1, LabelsAreTyped DEF Reconcile, At, TypeInv, WOK, WorkerType,
       BuildLabels, Scanning
<1>11. QED
  BY <1>4, <1>5, <1>7, <1>8, <1>9, <1>10 DEF Worker

\* While a clear stands the worker makes nothing ready.
LEMMA TombManifest ==
    ASSUME TypeInv, PartInv, EpochInv, ShapeInv, life # "down", ClearAlone, Worker
    PROVE  man'.status # "Ready"
<1>1. man.status # "Ready" /\ man \in ManifestType
  BY DEF ClearAlone, TypeInv, ManOK
<1>2. CASE UNCHANGED man
  BY <1>1, <1>2
<1>3. ASSUME NEW m, Save(m) \/ SaveFails(m) PROVE man' = m
  BY <1>3 DEF Save, SaveFails
<1>4. Queued(man).status = "Queued" /\ [man EXCEPT !.status = "Building"].status = "Building"
      /\ [man EXCEPT !.status = "Building", !.queued = {}].status = "Building"
      /\ [man EXCEPT !.status = "Building", !.dirty = @ \union Doing].status = "Building"
  BY <1>1 DEF Queued, ManifestType
<1>5. CASE ClearCommit
  BY <1>3, <1>5, ClearedManifest
<1>6. CASE BeginBuild
  BY <1>2, <1>3, <1>4, <1>6 DEF BeginBuild, Section
<1>7. CASE Progress
  BY <1>2, <1>3, <1>4, <1>7 DEF Progress, Requeue, Section
<1>8. CASE Reconcile
  BY <1>3, <1>4, <1>8 DEF Reconcile
<1>9. CASE Commit
  <2>1. w.pc \in BuildLabels
    BY <1>9 DEF Commit, At, BuildLabels, Scanning
  <2>2. ingress.clear # 0
    BY <2>1 DEF ClearAlone, Quiet
  <2>3. FollowUp(w.batch, StageEpoch).clear
    BY <2>1, <2>2, StageEpochIs, FollowUpIsExact
  <2>4. Requeue
    BY <1>9, <2>3 DEF Commit, Superseded
  <2>5. QED
    BY <1>2, <1>3, <1>4, <2>4 DEF Requeue, Section
<1>10. QED
  BY <1>2, <1>5, <1>6, <1>7, <1>8, <1>9
     DEF Worker, Receive, TakeBatch, RetryDelayPasses, Dispatch, ClearEngine, CompleteClear,
         BuildEngine, memory

\* Every step keeps TombInv.
LEMMA TombSteps ==
    ASSUME TypeInv, PartInv, EpochInv, ShapeInv, TombInv, Next
    PROVE  TombInv'
<1>1. disk.clear \in ClearType \cup {None} /\ None \notin ClearType
  BY ClearTypes DEF TypeInv, DiskOK, DiskType
<1>2. ASSUME NEW kind \in Kinds, NEW ps \in SUBSET Paths, Admit(kind, ps) PROVE TombInv'
  <2> DEFINE c == IF kind = "clear" THEN NewTomb(disk.clear) ELSE AfterTomb(disk.clear)
  <2>1. adm = None
    BY <1>2 DEF Admit, NewRequest
  <2>2. UNCHANGED <<life, memory, w>> /\ (tomb' => tomb)
    BY <1>2 DEF Admit
  <2>3. tomb => Standing(disk.clear)
    BY DEF TombInv
  <2>4. disk'.clear = disk.clear \/ disk'.clear = c
    <3> HIDE DEF c
    <3>1. disk' = disk \/ disk' = [disk EXCEPT !.clear = c]
      BY <1>2 DEF Admit, c
    <3>2. QED
      BY <3>1 DEF TypeInv, DiskOK, DiskType
  <2>5. \/ UNCHANGED adm
        \/ adm' # None /\ adm'.kind = kind /\ disk'.clear = c
    <3>1. CASE UNCHANGED adm
      BY <3>1
    <3>2. CASE disk' = [disk EXCEPT !.clear = c]
               /\ adm' = [kind |-> kind, paths |-> ps, rev |-> IF kind = "clear" THEN c.rev ELSE 0]
      <4> HIDE DEF c
      <4>1. disk'.clear = c
        BY <3>2 DEF TypeInv, DiskOK, DiskType
      <4>2. adm'.kind = kind
        BY <3>2
      <4>3. CASE adm' = None
        BY <2>1, <3>1, <4>3
      <4>4. QED
        BY <3>1, <4>1, <4>2, <4>3
    <3>3. QED
      BY <1>2, <3>1, <3>2 DEF Admit
  <2>6. kind = "clear" => Standing(c)
    BY <1>1, ClearTypes DEF Standing
  <2>7. Standing(disk.clear) /\ kind # "clear" => c # disk.clear
    BY <1>1 DEF Standing, AfterTomb, Complete, ClearType, Phases
  <2>8. tomb' => kind = "clear" \/ disk'.clear = disk.clear
    BY <1>2 DEF Admit
  <2>9. tomb' \/ ClearAdmitted' => Standing(disk'.clear)
    <3> HIDE DEF c
    <3> QED
      BY <2>1, <2>2, <2>3, <2>4, <2>5, <2>6, <2>8 DEF ClearAdmitted
  <2>10. WorkAdmitted' => ~tomb'
    <3> HIDE DEF c
    <3> QED
      BY <2>1, <2>2, <2>3, <2>5, <2>7, <2>8 DEF WorkAdmitted
  <2>11. tomb' /\ life' # "down" => ClearAlone'
    BY <2>2 DEF TombInv, ClearAlone, Quiet, memory
  <2>12. QED
    BY <2>9, <2>10, <2>11 DEF TombInv, Standing
<1>3. CASE Queue
  <2>1. /\ adm # None /\ adm' = None /\ UNCHANGED <<life, w>>
        /\ adm.kind \in Kinds /\ adm.rev \in Nat /\ adm.paths \subseteq Paths
    BY <1>3 DEF Queue, TypeInv, AdmOK, RequestType
  <2>2. disk'.clear = disk.clear /\ man' = QueuedManifest(adm)
    BY <1>3, SaveTypes, ManifestTypes DEF Queue, TypeInv
  <2>3. tomb' => tomb \/ adm.kind = "clear"
    BY <1>3 DEF Queue, Accept, Drop, ghosts
  <2>4. tomb' => adm.kind = "clear"
    BY <2>1, <2>3 DEF TombInv, WorkAdmitted
  <2>5. adm.kind = "clear" => QueuedManifest(adm).status = "Queued"
    BY DEF QueuedManifest, Missing
  <2>6. adm.kind = "clear" =>
           \/ ingress' = WithClear(ingress, adm.rev)
           \/ ingress' = ingress /\ UNCHANGED tomb
    BY <1>3 DEF Queue, QueuedWork, Drop, ghosts
  <2>7. /\ WithClear(ingress, adm.rev).clear # 0 /\ WithClear(ingress, adm.rev).full = 0
        /\ \A p \in Paths : WithClear(ingress, adm.rev).paths[p] = 0
    <3>1. ingress \in WorkType /\ ingress.epoch \in Nat
      BY DEF TypeInv, IngressOK, WorkType
    <3>2. QED
      BY <3>1 DEF WithClear, NoPaths, WorkType
  <2>8. tomb' /\ life' # "down" => ClearAlone'
    BY <2>1, <2>2, <2>4, <2>5, <2>6, <2>7 DEF TombInv, ClearAlone, Quiet
  <2>9. tomb' => Standing(disk.clear)
    BY <2>1, <2>4 DEF TombInv, ClearAdmitted
  <2>10. QED
    BY <2>1, <2>2, <2>8, <2>9 DEF TombInv, ClearAdmitted, WorkAdmitted
<1>4. CASE Worker
  <2>1. UNCHANGED <<adm, tomb>> /\ life # "down"
    BY <1>4 DEF Worker, Receive, TakeBatch, RetryDelayPasses, Dispatch, ClearEngine, CompleteClear,
       ClearCommit, BeginBuild, BuildEngine, Progress, Commit, Reconcile, At, OnlyWorker,
       WorkerOnly, ghosts
  <2>2. Standing(disk.clear) => Standing(disk'.clear)
    <3>1. CASE CompleteClear
      <4> DEFINE c == IF CompletesRevision(disk.clear, w.batch.rev)
                      THEN Completed(disk.clear, w.batch.rev) ELSE disk.clear
      <4>1. disk'.clear = disk.clear \/ disk'.clear = c
        <5> HIDE DEF c
        <5>1. disk' = disk \/ disk' = [disk EXCEPT !.clear = c]
          BY <3>1 DEF CompleteClear, c
        <5>2. QED
          BY <5>1 DEF TypeInv, DiskOK, DiskType
      <4>2. w.batch.rev \in Nat
        BY DEF TypeInv, WOK, WorkerType, WorkType
      <4>3. Standing(disk.clear) => Standing(c)
        <5>1. Completed(disk.clear, w.batch.rev) # None
          BY <1>1, <4>2, ClearTypes
        <5>2. Standing(disk.clear) => Completed(disk.clear, w.batch.rev).phase = "complete"
          BY DEF Standing, Completed
        <5>3. QED
          BY <5>1, <5>2 DEF Standing
      <4>4. QED
        BY <4>1, <4>3
    <3>2. CASE ~CompleteClear
      <4>1. disk'.clear = disk.clear
        <5>1. ASSUME NEW m, Save(m) \/ SaveFails(m) PROVE disk'.clear = disk.clear
          BY <5>1 DEF Save, SaveFails, TypeInv, DiskOK, DiskType
        <5>2. CASE ClearCommit
          BY <5>1, <5>2, ClearedManifest
        <5>3. CASE BeginBuild \/ Progress \/ Commit \/ Reconcile
          BY <5>1, <5>3 DEF BeginBuild, Progress, Commit, Reconcile, Requeue, Section
        <5>4. CASE \/ ClearEngine("repo", "clear_repo", "clear_regex")
                   \/ ClearEngine("regex", "clear_regex", "complete")
                   \/ BuildEngine("repo", "progress") \/ BuildEngine("regex", "commit")
          BY <5>4 DEF ClearEngine, BuildEngine, TypeInv, DiskOK, DiskType
        <5>5. CASE Receive \/ TakeBatch \/ RetryDelayPasses \/ Dispatch
          BY <5>5 DEF Receive, TakeBatch, RetryDelayPasses, Dispatch
        <5>6. QED
          BY <1>4, <3>2, <5>2, <5>3, <5>4, <5>5 DEF Worker
      <4>2. QED
        BY <4>1
    <3>3. QED
      BY <3>1, <3>2
  <2>3. ASSUME tomb PROVE ClearAlone'
    <3>1. ClearAlone
      BY <2>1, <2>3 DEF TombInv
    <3>2. man'.status # "Ready"
      BY <1>4, <2>1, <3>1, TombManifest
    <3>3. CASE ~TakeBatch
      <4>1. ingress' = ingress
        BY <1>4, <3>3 DEF Worker, Receive, RetryDelayPasses, Dispatch, ClearEngine, CompleteClear,
           ClearCommit, BeginBuild, BuildEngine, Progress, Commit, Reconcile, memory
      <4>2. Quiet => Quiet'
        BY <1>4, <3>3, QuietSteps
      <4>3. QED
        BY <3>1, <3>2, <4>1, <4>2 DEF ClearAlone
    <3>4. CASE TakeBatch
      <4>1. w.batch \in WorkType /\ ingress \in WorkType /\ w.batch.epoch <= ingress.epoch
        BY <2>1 DEF TypeInv, WOK, WorkerType, IngressOK, EpochInv, Newer
      <4>2. /\ w'.batch = IF w.stage = "none" THEN ingress ELSE MergeNewer(w.batch, ingress)
            /\ w'.pc = "dispatch" /\ w'.stage = w.stage /\ w.pc = "debounce"
        BY <3>4 DEF TakeBatch, At, TypeInv, WOK, WorkerType
      <4>3. ingress'.full = 0 /\ \A p \in Paths : ingress'.paths[p] = 0
        BY <3>4, ConstantTypes, NoWorkIsOrdered DEF TakeBatch, WorkType
      <4>4. /\ ingress.full = 0 /\ \A p \in Paths : ingress.paths[p] = 0
            /\ ingress.clear # 0 \/ Quiet
        BY <3>1 DEF ClearAlone
      <4>5. CASE ingress.clear # 0
        <5>1. /\ w'.batch.clear # 0 /\ w'.batch.full = 0
              /\ \A p \in Paths : w'.batch.paths[p] = 0
          BY <4>1, <4>2, <4>4, <4>5, MergeFields
        <5>2. Quiet'
          BY <4>2, <5>1 DEF Quiet, BuildLabels, Scanning
        <5>3. QED
          BY <3>2, <4>3, <5>2 DEF ClearAlone
      <4>6. CASE ingress.clear = 0 /\ Quiet
        <5>1. w.batch.full = 0 /\ (\A p \in Paths : w.batch.paths[p] = 0)
              /\ w.stage \in {"none", "clear"}
          BY <4>2, <4>6 DEF Quiet
        <5>2. w'.batch.full = 0 /\ \A p \in Paths : w'.batch.paths[p] = 0
          BY <4>1, <4>2, <4>4, <4>6, <5>1, MergeFields
        <5>3. Quiet'
          BY <4>2, <5>1, <5>2 DEF Quiet, BuildLabels, Scanning
        <5>4. QED
          BY <3>2, <4>3, <5>3 DEF ClearAlone
      <4>7. QED
        BY <4>4, <4>5, <4>6
    <3>5. QED
      BY <3>3, <3>4
  <2>4. QED
    BY <2>1, <2>2, <2>3 DEF TombInv, ClearAdmitted, WorkAdmitted
<1>5. CASE Start
  <2> DEFINE x == LoadedIndex(disk)
             work == InitialWork(x)
             m == InitialManifest(x, work)
  <2>1. UNCHANGED <<adm, tomb>>
    BY <1>5 DEF Start
  <2>2. m \in ManifestType
    <3>1. x.man \in ManifestType
      BY LoadedTypes DEF TypeInv
    <3>2. QED
      <4> HIDE DEF x, work
      <4> QED
        BY <3>1 DEF InitialManifest, ManifestType, Missing, Queued, Statuses
  <2>3. disk'.clear = disk.clear
    <3> HIDE DEF m
    <3>1. UNCHANGED disk \/ Save(m) \/ SaveFails(m)
      BY <1>5 DEF Start, m
    <3>2. QED
      BY <2>2, <3>1, SaveTypes DEF TypeInv
  <2>4. ASSUME tomb, life' # "down" PROVE ClearAlone'
    <3>1. Standing(disk.clear)
      BY <2>4 DEF TombInv
    <3>2. /\ w' = Idle /\ ingress' = InitialIngress(work)
          /\ work = "none" => man' = x.man
          /\ work # "none" => man' = m
      <4>1. ~OnlyRegex(x) \/ Pending(disk.clear) \/ Complete(disk.clear)
        BY <3>1 DEF Standing, Pending, Complete
      <4>2. work # "hydrate"
        <5> HIDE DEF x
        <5> QED
          BY <4>1 DEF InitialWork
      <4>3. life = "down"
        BY <1>5 DEF Start
      <4>4. /\ ingress' = InitialIngress(work)
            /\ \/ work = "none" /\ man' = x.man /\ w' = Idle
               \/ work # "none" /\ man' = m
                  /\ w' = IF work = "hydrate" THEN [Idle EXCEPT !.pc = "begin", !.stage = "hydrate"]
                          ELSE Idle
               \/ UNCHANGED life
        BY <1>5 DEF Start, Save
      <4>5. QED
        <5> HIDE DEF x, m, work
        <5> QED
          BY <2>4, <4>2, <4>3, <4>4
    <3>3. Quiet'
      BY <3>2, QuietIdle DEF Quiet
    <3>4. CASE disk.clear.phase = "complete"
      <4>1. Complete(disk.clear) /\ ~Pending(disk.clear)
        BY <3>1, <3>4 DEF Standing, Complete, Pending
      <4>2. work = "none" /\ x.man = Missing
        BY <4>1 DEF InitialWork, LoadedIndex
      <4>3. ingress' = NoWork /\ man' = Missing
        BY <3>2, <4>2 DEF InitialIngress
      <4>4. QED
        BY <3>3, <4>3, NoWorkIsOrdered DEF ClearAlone, Missing
    <3>5. CASE disk.clear.phase = "pending"
      <4>1. Pending(disk.clear) /\ disk.clear.rev \in Nat
        BY <1>1, <3>1, <3>5 DEF Standing, Pending, ClearType
      <4>2. work = "clear"
        BY <4>1 DEF InitialWork
      <4>3. m = [Missing EXCEPT !.status = "Queued"]
        BY <4>2 DEF InitialManifest
      <4>4. ingress' = WithClear(NoWork, disk.clear.rev)
        BY <3>2, <3>5, <4>2 DEF InitialIngress
      <4>5. ingress'.full = 0 /\ \A p \in Paths : ingress'.paths[p] = 0
        BY <4>4, ConstantTypes, NoWorkIsOrdered DEF WithClear, NoPaths, WorkType
      <4>6. man'.status = "Queued"
        BY <3>2, <4>2, <4>3 DEF Missing
      <4>7. QED
        BY <3>3, <4>5, <4>6 DEF ClearAlone
    <3>6. QED
      BY <3>1, <3>4, <3>5 DEF Standing
  <2>5. QED
    BY <2>1, <2>3, <2>4 DEF TombInv, ClearAdmitted, WorkAdmitted
<1>6. CASE Signal \/ BeginShutdown \/ RequestStop
  <2>1. UNCHANGED <<life, disk, man, adm, w, tomb>>
    BY <1>6 DEF Signal, BeginShutdown, RequestStop, ghosts
  <2>2. UNCHANGED <<ingress>> \/ ingress' = WithShutdown(ingress)
    BY <1>6 DEF Signal, BeginShutdown, RequestStop
  <2>3. ingress'.clear = ingress.clear /\ ingress'.full = ingress.full
        /\ ingress'.paths = ingress.paths
    BY <2>2 DEF WithShutdown, TypeInv, IngressOK, WorkType
  <2>4. QED
    BY <2>1, <2>3 DEF TombInv, ClearAdmitted, WorkAdmitted, ClearAlone, Quiet, Standing
<1>7. CASE Exit \/ Kill
  BY <1>7 DEF Exit, Kill, Down, TombInv, ClearAdmitted, WorkAdmitted, Standing, ghosts
<1>8. QED
  <2>1. ASSUME NEW kind \in {"clear", "full"}, Admit(kind, {}) PROVE TombInv'
    BY <1>2, <2>1 DEF Kinds
  <2>2. ASSUME NEW ps \in (SUBSET Paths) \ {{}}, Admit("paths", ps) PROVE TombInv'
    BY <1>2, <2>2 DEF Kinds
  <2>3. QED
    BY <1>3, <1>4, <1>5, <1>6, <1>7, <2>1, <2>2 DEF Next

-----------------------------------------------------------------------------
(* Builds *)

\* The version of each file that searches must see; none where a mark was dropped.
due == [p \in Paths |-> IF p \in dropped THEN 0 ELSE accepted[p]]

Has(r, p) == r.repo[p] >= due[p] /\ r.regex[p] >= due[p]

\* A rebuild or a clear is in the ingress.
Coming == ingress.clear # 0 \/ ingress.full # 0

\* The worker has a rebuild or a clear to finish.
UnderWay ==
    \/ w.pc \in {"debounce", "dispatch", "retry"} /\ (w.batch.clear # 0 \/ w.batch.full # 0)
    \/ w.pc \in ClearLabels
    \/ w.pc \in BuildLabels /\ w.stage = "full"
    \/ w.pc = "reconcile"

\* Only versions that exist were accepted.
FilesInv == \A p \in Paths : accepted[p] <= files[p]

\* A request for paths names one.
AdmInv == adm # None /\ adm.kind = "paths" => adm.paths # {}

\* What the running build has read into an engine.
Scan(d, m) ==
    /\ d # None
    /\ \A p \in Paths :
          IF w.part /\ p \notin Doing THEN d[p] = m[p]
          ELSE d[p] >= accepted[p] \/ Coming \/ ingress.paths[p] # 0

\* A build that has passed an engine has the newest versions there, or newer work waits.
ScanInv ==
    life # "down" =>
        /\ w.pc \in {"progress", "regex", "commit"} => Scan(disk.repo, mem.repo)
        /\ w.pc = "commit" => Scan(disk.regex, mem.regex)

\* A build changes engines only while the manifest, in memory and on disk, is not Ready.
NotReadyInv ==
    life # "down" /\ w.pc \in Scanning => man.status # "Ready" /\ disk.manifest.status # "Ready"

\* Later builds happen.
Active == life # "down" /\ ~stopping /\ WorkerRuns

\* A file that is not marked is in the engines, or a rebuild or clear is on its way.
MarksInv ==
    Active => \A p \in Paths \ man.dirty : Coming \/ UnderWay \/ (Current(mem) => Has(mem, p))

\* A path in the ingress is marked, unless its mark was dropped.
ReportedInv ==
    Active => \A p \in Paths : ingress.paths[p] # 0 => p \in man.dirty \/ due[p] = 0

\* What searches may use is current.
ServingInv ==
    life # "down" /\ man.status = "Ready" =>
        \A p \in Paths \ (man.dirty \cup man.queued) : Current(mem) /\ Has(mem, p)

\* A clean manifest on disk tells the truth about the engines beside it.
DiskInv ==
    Clean(disk.manifest) /\ disk.repo # None /\ disk.regex # None =>
        \A p \in Paths : Has(disk, p)

BuildInv ==
    /\ FilesInv /\ AdmInv /\ ScanInv /\ NotReadyInv /\ MarksInv
    /\ ReportedInv /\ ServingInv /\ DiskInv

\* BuildInv holds at first; then what a step that changes little keeps of it, and one
\* lemma for each action that touches manifest, engines, batch or ingress.
LEMMA InitBuild == ASSUME Init PROVE BuildInv
<1>1. FilesInv /\ AdmInv
  BY DEF Init, FilesInv, AdmInv
<1>2. ScanInv /\ NotReadyInv /\ MarksInv /\ ReportedInv /\ ServingInv
  BY DEF Init, ScanInv, NotReadyInv, MarksInv, ReportedInv, ServingInv, Active
<1>3. DiskInv
  BY DEF Init, DiskInv, Clean, Missing
<1>4. QED
  BY <1>1, <1>2, <1>3 DEF BuildInv

\* What searches must see is a version, and not newer than what was accepted.
LEMMA DueTypes ==
    ASSUME TypeInv, NEW p \in Paths
    PROVE  /\ due[p] \in Nat /\ accepted[p] \in Nat /\ due[p] <= accepted[p]
           /\ due[p] = IF p \in dropped THEN 0 ELSE accepted[p]
BY DEF due, TypeInv, GhostsOK

\* Parts of the invariant that a step does not touch.
LEMMA FilesKept ==
    ASSUME FilesInv, AdmInv, UNCHANGED <<files, accepted, adm>>
    PROVE  FilesInv' /\ AdmInv'
BY DEF FilesInv, AdmInv

\* Outside a build nothing is being read.
LEMMA NotScanning ==
    ASSUME life' = "down" \/ w'.pc \notin Scanning
    PROVE  ScanInv' /\ NotReadyInv'
BY DEF ScanInv, NotReadyInv, Scanning

\* Manifest and engines on disk agree after a step that leaves the manifest, or leaves
\* one that is not clean, and replaces no engine by another.
LEMMA DiskKept ==
    ASSUME TypeInv, TypeInv', DiskInv, \A p \in Paths : due'[p] <= due[p],
           disk'.manifest = disk.manifest \/ ~Clean(disk'.manifest),
           disk'.repo \in {disk.repo, None}, disk'.regex \in {disk.regex, None}
    PROVE  DiskInv'
<1> SUFFICES ASSUME Clean(disk'.manifest), disk'.repo # None, disk'.regex # None, NEW p \in Paths
             PROVE  Has(disk, p)'
  BY DEF DiskInv, Has, Clean
<1>1. disk'.repo = disk.repo /\ disk'.regex = disk.regex /\ Has(disk, p)
  BY DEF DiskInv
<1>2. disk.repo[p] \in Nat /\ disk.regex[p] \in Nat
  BY <1>1 DEF TypeInv, DiskOK, DiskType, Engine
<1>3. due[p] \in Nat /\ due'[p] \in Nat
  <2>1. due[p] \in Nat
    BY DueTypes
  <2>2. due'[p] \in Nat
    BY DEF due, TypeInv, GhostsOK
  <2>3. QED
    BY <2>1, <2>2
<1>4. due'[p] <= due[p]
  OBVIOUS
<1>5. QED
  BY <1>1, <1>2, <1>3, <1>4 DEF Has

\* What is served after a step that changes neither engines nor promises.
LEMMA ServingKept ==
    ASSUME ServingInv, life # "down", UNCHANGED <<mem, due>>,
           man' = man \/ man'.status # "Ready"
    PROVE  ServingInv'
BY DEF ServingInv, Has, Current

\* Reported paths after a step that adds none.
LEMMA ReportedKept ==
    ASSUME ReportedInv, Active' => Active, UNCHANGED <<ingress, due>>, man.dirty \subseteq man'.dirty
    PROVE  ReportedInv'
BY DEF ReportedInv

\* Marks after a step that drops none.
LEMMA MarksKept ==
    ASSUME MarksInv, Active' => Active, UNCHANGED <<ingress, mem, due>>,
           man.dirty \subseteq man'.dirty, Active' /\ UnderWay => UnderWay'
    PROVE  MarksInv'
BY DEF MarksInv, Coming, Has, Current

\* A step of the worker is taken by a worker that runs.
LEMMA WorkerIsActive ==
    ASSUME Worker
    PROVE  /\ life # "down" /\ WorkerRuns /\ UNCHANGED <<files, accepted, adm, stopping>>
           /\ (Active' => Active) /\ (w.pc # "commit" => UNCHANGED due)
<1>1. life # "down" /\ WorkerRuns
  BY DEF Worker, Receive, TakeBatch, RetryDelayPasses, Dispatch, ClearEngine, CompleteClear,
     ClearCommit, BeginBuild, BuildEngine, Progress, Commit, Reconcile, At, WorkerRuns
<1>2. UNCHANGED <<files, accepted, adm, stopping>>
  BY DEF Worker, Receive, TakeBatch, RetryDelayPasses, Dispatch, ClearEngine, CompleteClear,
     ClearCommit, BeginBuild, BuildEngine, Progress, Commit, Reconcile, OnlyWorker, WorkerOnly,
     ghosts, memory
<1>3. w.pc # "commit" => UNCHANGED dropped
  BY DEF Worker, Receive, TakeBatch, RetryDelayPasses, Dispatch, ClearEngine, CompleteClear,
     ClearCommit, BeginBuild, BuildEngine, Progress, Commit, Reconcile, OnlyWorker, At, ghosts
<1>4. QED
  BY <1>1, <1>2, <1>3 DEF Active, due

\* How a build ends: with an error that is reconciled, or at the next stage.
LEMMA BuildEnds ==
    ASSUME TypeInv, life # "down", BuildFailed \/ StageDone
    PROVE  /\ life' = "down" \/ w'.pc \notin Scanning
           /\ BuildFailed => life' = "down" \/ UnderWay'
<1>1. CASE BuildFailed
  BY <1>1 DEF BuildFailed, TypeInv, WOK, WorkerType, Scanning, UnderWay
<1>2. w'.pc = "recv" \/ w'.pc = "begin" \/ BuildFailed
  BY NextStages, IdleFields DEF StageDone, TypeInv
<1>3. QED
  BY <1>1, <1>2 DEF Scanning

\* The steps that leave manifest and engines in memory alone.
LEMMA PassiveBuild ==
    ASSUME TypeInv, TypeInv', EpochInv, ShapeInv, BuildInv,
           \/ Receive \/ RetryDelayPasses \/ Dispatch
           \/ ClearEngine("repo", "clear_repo", "clear_regex")
           \/ ClearEngine("regex", "clear_regex", "complete") \/ CompleteClear
    PROVE  BuildInv'
<1>1. /\ life # "down" /\ UNCHANGED <<files, accepted, due, adm>> /\ (Active' => Active)
      /\ UNCHANGED <<man, mem, ingress>>
  BY WorkerIsActive DEF Worker, Receive, RetryDelayPasses, Dispatch, ClearEngine, CompleteClear,
     memory, At
<1>2. w'.pc \notin Scanning
  <2>1. UpdateNext.pc \in {"recv", "begin"} /\ BuildNext.pc \in {"recv", "begin"}
    BY NextStages, IdleFields DEF TypeInv
  <2>2. QED
    BY <2>1, ConstantTypes DEF Receive, RetryDelayPasses, Dispatch, ClearEngine, CompleteClear,
       ClearFailed, TypeInv, WOK, WorkerType, Scanning
<1>3. disk'.manifest = disk.manifest /\ disk'.repo \in {disk.repo, None}
      /\ disk'.regex \in {disk.regex, None}
  <2>1. CASE Receive \/ RetryDelayPasses \/ Dispatch
    BY <2>1 DEF Receive, RetryDelayPasses, Dispatch
  <2>2. CASE ClearEngine("repo", "clear_repo", "clear_regex")
               \/ ClearEngine("regex", "clear_regex", "complete")
    BY <2>2 DEF ClearEngine, TypeInv, DiskOK, DiskType
  <2>3. ASSUME NEW c, disk' = [disk EXCEPT !.clear = c]
        PROVE  disk'.manifest = disk.manifest /\ disk'.repo = disk.repo /\ disk'.regex = disk.regex
    BY <2>3 DEF TypeInv, DiskOK, DiskType
  <2>4. CASE CompleteClear
    BY <2>3, <2>4 DEF CompleteClear
  <2>5. QED
    BY <2>1, <2>2, <2>4
<1>4. Active' /\ UnderWay => UnderWay'
  <2>1. CASE Receive \/ RetryDelayPasses
    BY <2>1 DEF Receive, RetryDelayPasses, At, UnderWay, TypeInv, WOK, WorkerType, ClearLabels,
       BuildLabels, Scanning
  <2>2. CASE Dispatch
    <3>1. CASE w.batch.clear # 0
      BY <2>2, <3>1 DEF Dispatch, UnderWay, ClearLabels, TypeInv, WOK, WorkerType
    <3>2. CASE w.batch.clear = 0 /\ (w.batch.shut # 0 \/ stopping)
      BY <2>2, <3>2, ConstantTypes DEF Dispatch, Active, WorkerRuns, WorkerType
    <3>3. CASE w.batch.clear = 0 /\ ~(w.batch.shut # 0 \/ stopping)
      <4>1. w' = BuildNext
        BY <2>2, <3>3 DEF Dispatch
      <4>2. UnderWay => w.batch.full # 0
        BY <2>2, <3>3 DEF Dispatch, At, UnderWay, ClearLabels, BuildLabels, Scanning
      <4>3. QED
        BY <4>1, <4>2, NextStages DEF UnderWay, BuildLabels, TypeInv
    <3>4. QED
      BY <3>1, <3>2, <3>3
  <2>3. CASE \/ ClearEngine("repo", "clear_repo", "clear_regex")
             \/ ClearEngine("regex", "clear_regex", "complete") \/ CompleteClear
    BY <2>3 DEF ClearEngine, CompleteClear, ClearFailed, Active, WorkerRuns, UnderWay, ClearLabels,
       TypeInv, WOK, WorkerType
  <2>4. QED
    BY <2>1, <2>2, <2>3
<1>5. DiskInv'
  <2>1. \A p \in Paths : due'[p] <= due[p]
    BY <1>1, DueTypes
  <2>2. QED
    BY <1>3, <2>1, DiskKept DEF BuildInv
<1>6. QED
  BY <1>1, <1>2, <1>4, <1>5, FilesKept, NotScanning, ServingKept, ReportedKept, MarksKept
     DEF BuildInv

\* The batch takes over what was coming in the ingress.
LEMMA TakeBuild ==
    ASSUME TypeInv, TypeInv', EpochInv, ShapeInv, BuildInv, TakeBatch
    PROVE  BuildInv'
<1>1. /\ life # "down" /\ UNCHANGED <<files, accepted, due, adm>> /\ (Active' => Active)
      /\ UNCHANGED <<man, mem, disk>>
  BY WorkerIsActive DEF Worker, TakeBatch, At
<1>2. /\ w.batch \in WorkType /\ ingress \in WorkType /\ w.batch.epoch <= ingress.epoch
      /\ w.pc = "debounce" /\ w'.pc = "dispatch"
      /\ w'.batch = IF w.stage = "none" THEN ingress ELSE MergeNewer(w.batch, ingress)
  BY <1>1 DEF TakeBatch, At, TypeInv, WOK, WorkerType, IngressOK, EpochInv, Newer
<1>3. Coming \/ UnderWay => UnderWay'
  <2>1. UnderWay => w.batch.clear # 0 \/ w.batch.full # 0
    BY <1>2 DEF UnderWay, ClearLabels, BuildLabels, Scanning
  <2>2. w.stage = "none" => w.batch.clear = 0 /\ w.batch.full = 0
    BY <1>1, <1>2 DEF ShapeInv, Shape
  <2>3. Coming \/ UnderWay => w'.batch.clear # 0 \/ w'.batch.full # 0
    BY <1>2, <2>1, <2>2, MergeFields DEF Coming
  <2>4. QED
    BY <1>2, <2>3 DEF UnderWay
<1>4. \A p \in Paths : ingress'.paths[p] = 0
  BY ConstantTypes, NoWorkIsOrdered DEF TakeBatch, WorkType
<1>5. MarksInv'
  BY <1>1, <1>3 DEF BuildInv, MarksInv, Has, Current
<1>6. ReportedInv'
  BY <1>4 DEF ReportedInv
<1>7. DiskInv'
  <2>1. \A p \in Paths : due'[p] <= due[p]
    BY <1>1, DueTypes
  <2>2. QED
    BY <1>1, <2>1, DiskKept DEF BuildInv
<1>8. ScanInv' /\ NotReadyInv'
  BY <1>2, NotScanning DEF Scanning
<1>9. QED
  BY <1>1, <1>5, <1>6, <1>7, <1>8, FilesKept, ServingKept DEF BuildInv

\* After a clear nothing is loaded, so nothing has to be marked.
LEMMA ClearCommitBuild ==
    ASSUME TypeInv, TypeInv', EpochInv, ShapeInv, BuildInv, ClearCommit
    PROVE  BuildInv'
<1>1. /\ life # "down" /\ UNCHANGED <<files, accepted, due, adm>> /\ (Active' => Active)
      /\ UNCHANGED ingress /\ mem' = NoRuntime
  BY WorkerIsActive DEF Worker, ClearCommit, At
<1>2. PICK m \in ManifestType :
         /\ m.status # "Ready" /\ m.dirty = FollowUp(w.batch, w.batch.clear).paths
         /\ Save(m) \/ SaveFails(m)
  BY ClearedManifest
<1>3. /\ man' = m /\ disk'.repo = disk.repo /\ disk'.regex = disk.regex
      /\ disk'.manifest \in {m, disk.manifest, Missing}
  BY <1>2, SaveTypes DEF TypeInv
<1>4. w'.pc \notin Scanning
  <2>1. BuildNext.pc \in {"recv", "begin"}
    BY NextStages, IdleFields DEF TypeInv
  <2>2. QED
    BY <2>1, ConstantTypes DEF ClearCommit, ClearFailed, TypeInv, WOK, WorkerType, Scanning
<1>5. MarksInv'
  BY <1>1 DEF MarksInv, Current, NoRuntime
<1>6. ReportedInv'
  <2>1. w.batch.clear \in Nat /\ w.batch.clear <= w.batch.epoch
    BY <1>1 DEF TypeInv, WOK, WorkerType, WorkType, EpochInv, Ordered
  <2>2. \A p \in Paths : ingress.paths[p] # 0 => p \in FollowUp(w.batch, w.batch.clear).paths
    BY <1>1, <2>1, FollowUpIsExact
  <2>3. QED
    BY <1>1, <1>2, <1>3, <2>2 DEF ReportedInv
<1>7. ServingInv'
  BY <1>2, <1>3 DEF ServingInv
<1>8. DiskInv'
  <2>1. \A p \in Paths : due'[p] <= due[p]
    BY <1>1, DueTypes
  <2>2. ~Clean(m) /\ ~Clean(Missing)
    BY <1>2 DEF Clean, Missing
  <2>3. QED
    BY <1>3, <2>1, <2>2, DiskKept DEF BuildInv
<1>9. QED
  BY <1>1, <1>4, <1>5, <1>6, <1>7, <1>8, FilesKept, NotScanning DEF BuildInv

\* A section that makes nothing ready, of a step that keeps the engines.
LEMMA SectionBuild ==
    ASSUME TypeInv, TypeInv', BuildInv, Worker, UNCHANGED <<mem, ingress, due>>,
           NEW m \in ManifestType, m.status # "Ready", man.dirty \subseteq m.dirty,
           \/ UNCHANGED <<man, disk>>
           \/ Save(m)
           \/ SaveFails(m),
           Active' /\ UnderWay => UnderWay',
           life' = "down" \/ w'.pc \notin Scanning
    PROVE  BuildInv'
<1>1. life # "down" /\ UNCHANGED <<files, accepted, due, adm>> /\ (Active' => Active)
  BY WorkerIsActive
<1>2. /\ man' = man \/ man' = m
      /\ disk'.repo = disk.repo /\ disk'.regex = disk.regex
      /\ disk'.manifest \in {m, disk.manifest, Missing}
  BY SaveTypes DEF TypeInv
<1>3. DiskInv'
  <2>1. \A p \in Paths : due'[p] <= due[p]
    BY <1>1, DueTypes
  <2>2. ~Clean(m) /\ ~Clean(Missing)
    BY DEF Clean, Missing
  <2>3. QED
    BY <1>2, <2>1, <2>2, DiskKept DEF BuildInv
<1>4. QED
  BY <1>1, <1>2, <1>3, FilesKept, NotScanning, ServingKept, ReportedKept, MarksKept DEF BuildInv

\* The manifest leaves Ready before an engine is touched.
LEMMA BeginBuildBuild ==
    ASSUME TypeInv, TypeInv', PartInv, ShapeInv, BuildInv, BeginBuild
    PROVE  BuildInv'
<1> DEFINE part == w.stage = "paths" /\ Current(mem)
           m == IF part THEN [man EXCEPT !.status = "Building", !.dirty = @ \union Doing]
                ELSE [man EXCEPT !.status = "Building", !.queued = {}]
<1>1. Worker /\ UNCHANGED <<mem, ingress>>
  BY DEF Worker, BeginBuild
<1>2. /\ life # "down" /\ UNCHANGED <<files, accepted, due, adm, stopping>> /\ (Active' => Active)
      /\ w.pc = "begin"
  BY <1>1, WorkerIsActive DEF BeginBuild, At
<1>3. m \in ManifestType /\ m.status = "Building" /\ man.dirty \subseteq m.dirty
  BY ManifestTypes DEF TypeInv, ManOK, ManifestType
<1>4. \/ stopping /\ StageDone /\ UNCHANGED <<man, disk>>
      \/ Save(m) /\ Goto("repo", part)
      \/ SaveFails(m) /\ BuildFailed
      \/ BuildFailed /\ UNCHANGED <<man, disk>>
  BY DEF BeginBuild, Section
<1> HIDE DEF m, part
<1>5. CASE stopping /\ StageDone /\ UNCHANGED <<man, disk>>
  <2>1. ~Active'
    BY <1>2, <1>5 DEF Active
  <2>2. QED
    BY <1>1, <1>2, <1>3, <1>5, <2>1, BuildEnds, SectionBuild
<1>6. CASE BuildFailed /\ (SaveFails(m) \/ UNCHANGED <<man, disk>>)
  <2>1. Active' => UnderWay'
    BY <1>2, <1>6, BuildEnds DEF Active
  <2>2. QED
    BY <1>1, <1>2, <1>3, <1>6, <2>1, BuildEnds, SectionBuild
<1>7. CASE Save(m) /\ Goto("repo", part)
  <2>1. w'.pc = "repo" /\ w'.stage = w.stage /\ w'.batch = w.batch
    BY <1>7 DEF Goto, TypeInv, WOK, WorkerType
  <2>2. UnderWay => UnderWay'
    BY <1>2, <2>1 DEF UnderWay, BuildLabels, Scanning, ClearLabels
  <2>3. man' = m /\ disk'.manifest = m /\ disk'.repo = disk.repo /\ disk'.regex = disk.regex
    BY <1>3, <1>7, SaveTypes DEF TypeInv
  <2>4. ScanInv'
    BY <2>1 DEF ScanInv
  <2>5. NotReadyInv'
    BY <1>3, <2>3 DEF NotReadyInv
  <2>6. DiskInv'
    BY <1>3, <2>3 DEF DiskInv, Clean
  <2>7. QED
    BY <1>1, <1>2, <1>3, <2>2, <2>3, <2>4, <2>5, <2>6, FilesKept, ServingKept, ReportedKept,
       MarksKept DEF BuildInv
<1>8. QED
  BY <1>4, <1>5, <1>6, <1>7

\* What is read from the files is what was accepted, or newer.
LEMMA ScannedHas ==
    ASSUME TypeInv, PartInv, FilesInv, NEW old \in Engine, w.part => old # None
    PROVE  /\ Scanned(old) # None
           /\ \A p \in Paths : IF w.part /\ p \notin Doing THEN Scanned(old)[p] = old[p]
                               ELSE Scanned(old)[p] >= accepted[p]
<1>1. Scanned(old) \in [Paths -> Nat]
  BY ScannedTypes
<1>2. Scanned(old) # None
  BY <1>1, IndexServiceAssumption
<1>3. ASSUME NEW p \in Paths
      PROVE  Scanned(old)[p] = IF w.part /\ p \notin Doing THEN old[p] ELSE files[p]
  BY <1>3 DEF Scanned
<1>4. ASSUME NEW p \in Paths PROVE files[p] >= accepted[p]
  BY <1>4 DEF FilesInv, TypeInv, FilesOK, GhostsOK
<1>5. QED
  BY <1>2, <1>3, <1>4

\* An engine reads the newest versions; a request after that is in the ingress.
LEMMA BuildEngineBuild ==
    ASSUME TypeInv, TypeInv', PartInv, ShapeInv, BuildInv,
           BuildEngine("repo", "progress") \/ BuildEngine("regex", "commit")
    PROVE  BuildInv'
<1>1. Worker /\ UNCHANGED <<man, mem, ingress>>
  BY DEF Worker, BuildEngine, memory
<1>2. /\ life # "down" /\ UNCHANGED <<files, accepted, due, adm>> /\ (Active' => Active)
      /\ w.pc \in {"repo", "regex"} /\ w.pc \in Scanning
  BY <1>1, WorkerIsActive DEF BuildEngine, At, Scanning
<1>3. CASE BuildFailed /\ UNCHANGED disk
  <2>1. Active' => UnderWay'
    BY <1>2, <1>3, BuildEnds DEF Active
  <2>2. [man EXCEPT !.status = "Building"] \in ManifestType
        /\ [man EXCEPT !.status = "Building"].status # "Ready"
        /\ man.dirty \subseteq [man EXCEPT !.status = "Building"].dirty
    BY ManifestTypes DEF TypeInv, ManOK, ManifestType
  <2>3. QED
    BY <1>1, <1>2, <1>3, <2>1, <2>2, BuildEnds, SectionBuild
<1>4. ASSUME NEW next \in {"progress", "commit"}, Goto(next, w.part)
      PROVE  /\ w'.pc = next /\ w'.stage = w.stage /\ w'.batch = w.batch /\ w'.part = w.part
             /\ UnderWay => UnderWay'
  <2>1. w'.pc = next /\ w'.stage = w.stage /\ w'.batch = w.batch /\ w'.part = w.part
    BY <1>4 DEF Goto, TypeInv, WOK, WorkerType
  <2>2. QED
    BY <1>2, <2>1 DEF UnderWay, BuildLabels, Scanning, ClearLabels
<1>5. man.status # "Ready" /\ disk.manifest.status # "Ready"
  BY <1>2 DEF BuildInv, NotReadyInv
<1>6. ASSUME disk'.manifest = disk.manifest, UnderWay => UnderWay', ScanInv' PROVE BuildInv'
  <2>1. NotReadyInv' /\ DiskInv'
    BY <1>1, <1>5, <1>6 DEF NotReadyInv, DiskInv, Clean
  <2>2. QED
    BY <1>1, <1>2, <1>6, <2>1, FilesKept, ServingKept, ReportedKept, MarksKept DEF BuildInv
<1>7. /\ mem.repo \in Engine /\ mem.regex \in Engine
      /\ w.part => mem.repo # None /\ mem.regex # None
  BY <1>2 DEF TypeInv, MemOK, PartInv, BuildLabels, Current
<1>8. FilesInv
  BY DEF BuildInv
<1>9. CASE /\ BuildEngine("repo", "progress") /\ Goto("progress", w.part)
           /\ disk' = [disk EXCEPT !["repo"] = Scanned(mem.repo)]
  <2>1. disk'.repo = Scanned(mem.repo) /\ disk'.manifest = disk.manifest
    BY <1>9 DEF TypeInv, DiskOK, DiskType
  <2>2. /\ w'.pc = "progress" /\ w'.batch = w.batch /\ w'.part = w.part
        /\ UnderWay => UnderWay'
    BY <1>4, <1>9
  <2>3. Scan(disk.repo, mem.repo)'
    BY <1>1, <1>2, <1>7, <1>8, <2>1, <2>2, ScannedHas DEF Scan, Doing
  <2>4. ScanInv'
    BY <2>2, <2>3 DEF ScanInv
  <2>5. QED
    BY <1>6, <2>1, <2>2, <2>4
<1>10. CASE /\ BuildEngine("regex", "commit") /\ Goto("commit", w.part)
            /\ disk' = [disk EXCEPT !["regex"] = Scanned(mem.regex)]
  <2>1. /\ disk'.regex = Scanned(mem.regex) /\ disk'.manifest = disk.manifest
        /\ disk'.repo = disk.repo
    BY <1>10 DEF TypeInv, DiskOK, DiskType
  <2>2. /\ w'.pc = "commit" /\ w'.batch = w.batch /\ w'.part = w.part
        /\ UnderWay => UnderWay'
    BY <1>4, <1>10
  <2>3. Scan(disk.regex, mem.regex)'
    BY <1>1, <1>2, <1>7, <1>8, <2>1, <2>2, ScannedHas DEF Scan, Doing
  <2>4. Scan(disk.repo, mem.repo)
    BY <1>2, <1>10 DEF BuildEngine, At, BuildInv, ScanInv
  <2>5. Scan(disk.repo, mem.repo)'
    BY <1>1, <1>2, <2>1, <2>2, <2>4 DEF Scan, Doing, Coming
  <2>6. ScanInv'
    BY <2>2, <2>3, <2>5 DEF ScanInv
  <2>7. QED
    BY <1>6, <2>1, <2>2, <2>6
<1>11. QED
  BY <1>3, <1>9, <1>10 DEF BuildEngine

\* Between the engines.
LEMMA ProgressBuild ==
    ASSUME TypeInv, TypeInv', PartInv, ShapeInv, BuildInv, Progress
    PROVE  BuildInv'
<1>1. Worker /\ UNCHANGED <<mem, ingress>>
  BY DEF Worker, Progress
<1>2. /\ life # "down" /\ UNCHANGED <<files, accepted, due, adm, stopping>> /\ (Active' => Active)
      /\ w.pc = "progress" /\ w.part \in BOOLEAN
  BY <1>1, WorkerIsActive DEF Progress, At, TypeInv, WOK, WorkerType
<1> DEFINE q == Queued(man)
           b == [man EXCEPT !.status = "Building"]
<1>3. /\ q \in ManifestType /\ q.status # "Ready" /\ q.dirty = man.dirty
      /\ b \in ManifestType /\ b.status # "Ready" /\ b.dirty = man.dirty
  BY ManifestTypes DEF TypeInv, ManOK, ManifestType, Queued
<1>4. \/ stopping /\ (StageDone \/ BuildFailed)
         /\ (Save(q) \/ SaveFails(q) \/ UNCHANGED <<man, disk>>)
      \/ BuildFailed /\ (SaveFails(b) \/ UNCHANGED <<man, disk>>)
      \/ Goto("regex", w.part) /\ (UNCHANGED <<man, disk>> \/ Save(b))
  BY <1>2 DEF Progress, Requeue, Section
<1> HIDE DEF q, b
<1>5. CASE stopping /\ (StageDone \/ BuildFailed)
           /\ (Save(q) \/ SaveFails(q) \/ UNCHANGED <<man, disk>>)
  <2>1. ~Active'
    BY <1>2, <1>5 DEF Active
  <2>2. QED
    BY <1>1, <1>2, <1>3, <1>5, <2>1, BuildEnds, SectionBuild
<1>6. CASE BuildFailed /\ (SaveFails(b) \/ UNCHANGED <<man, disk>>)
  <2>1. Active' => UnderWay'
    BY <1>2, <1>6, BuildEnds DEF Active
  <2>2. QED
    BY <1>1, <1>2, <1>3, <1>6, <2>1, BuildEnds, SectionBuild
<1>7. CASE Goto("regex", w.part) /\ (UNCHANGED <<man, disk>> \/ Save(b))
  <2>1. w'.pc = "regex" /\ w'.stage = w.stage /\ w'.batch = w.batch /\ w'.part = w.part
    BY <1>7 DEF Goto, TypeInv, WOK, WorkerType
  <2>2. UnderWay => UnderWay'
    BY <1>2, <2>1 DEF UnderWay, BuildLabels, Scanning, ClearLabels
  <2>3. /\ man' \in {man, b} /\ disk'.manifest \in {disk.manifest, b}
        /\ disk'.repo = disk.repo /\ disk'.regex = disk.regex
    BY <1>3, <1>7, SaveTypes DEF TypeInv
  <2>4. ScanInv'
    <3>1. Scan(disk.repo, mem.repo)
      BY <1>2 DEF BuildInv, ScanInv
    <3>2. Scan(disk.repo, mem.repo)'
      BY <1>1, <1>2, <2>1, <2>3, <3>1 DEF Scan, Doing, Coming
    <3>3. QED
      BY <2>1, <3>2 DEF ScanInv
  <2>5. man.status # "Ready" /\ disk.manifest.status # "Ready"
    BY <1>2 DEF BuildInv, NotReadyInv, Scanning
  <2>6. NotReadyInv' /\ DiskInv'
    BY <1>3, <2>3, <2>5 DEF NotReadyInv, DiskInv, Clean
  <2>7. man.dirty \subseteq man'.dirty /\ man'.status # "Ready"
    BY <1>3, <2>3, <2>5
  <2>8. QED
    BY <1>1, <1>2, <2>2, <2>4, <2>6, <2>7, FilesKept, ServingKept, ReportedKept, MarksKept
       DEF BuildInv
<1>8. QED
  BY <1>4, <1>5, <1>6, <1>7

\* What a build publishes: a file that it does not mark dirty is in both engines, unless
\* a rebuild is coming.
LEMMA PublishedHas ==
    ASSUME TypeInv, PartInv, EpochInv, ShapeInv, BuildInv, At("commit"), ~stopping,
           NEW f, f = FollowUp(w.batch, StageEpoch), NEW p \in Paths \ Published(f).dirty, ~Coming,
           p \in dropped => p \in MarkedAgain(f)
    PROVE  disk.repo[p] >= accepted[p] /\ disk.regex[p] >= accepted[p]
<1>1. life # "down" /\ w.pc = "commit" /\ w.pc \in BuildLabels /\ w.pc \in Scanning
  BY DEF At, BuildLabels, Scanning
<1>2. Scan(disk.repo, mem.repo) /\ Scan(disk.regex, mem.regex)
  BY <1>1 DEF BuildInv, ScanInv
<1>3. ingress.paths[p] # 0 => p \in f.paths
  BY <1>1, StageEpochIs, FollowUpIsExact
<1>4. Active
  BY <1>1 DEF Active, WorkerRuns
<1>5. /\ accepted[p] \in Nat /\ disk.repo[p] \in Nat /\ disk.regex[p] \in Nat
      /\ due[p] = IF p \in dropped THEN 0 ELSE accepted[p]
  BY <1>2, DueTypes DEF TypeInv, DiskOK, DiskType, Engine, Scan
<1>6. CASE ~w.part
  <2>1. p \notin f.paths
    BY <1>6 DEF Published
  <2>2. QED
    BY <1>2, <1>3, <1>6, <2>1 DEF Scan
<1>7. CASE w.part /\ p \in Doing
  <2>1. CASE ingress.paths[p] = 0
    BY <1>2, <1>7, <2>1 DEF Scan
  <2>2. CASE ingress.paths[p] # 0
    <3>1. p \notin man.dirty
      BY <1>3, <1>7, <2>2 DEF Published
    <3>2. due[p] = 0
      BY <1>4, <2>2, <3>1 DEF BuildInv, ReportedInv
    <3>3. p \notin dropped
      BY <1>3, <1>7, <2>2 DEF MarkedAgain
    <3>4. QED
      BY <1>5, <3>2, <3>3
  <2>3. QED
    BY <2>1, <2>2
<1>8. CASE w.part /\ p \notin Doing
  <2>1. p \notin man.dirty
    BY <1>8 DEF Published
  <2>2. disk.repo[p] = mem.repo[p] /\ disk.regex[p] = mem.regex[p]
    BY <1>2, <1>8 DEF Scan
  <2>3. Current(mem) /\ w.stage = "paths"
    BY <1>1, <1>8 DEF PartInv
  <2>4. ~UnderWay
    BY <1>1, <2>3 DEF UnderWay, ClearLabels
  <2>5. Has(mem, p)
    BY <1>4, <2>1, <2>3, <2>4 DEF BuildInv, MarksInv
  <2>6. p \notin dropped
    BY <1>8 DEF MarkedAgain
  <2>7. QED
    BY <1>5, <2>2, <2>5, <2>6 DEF Has
<1>9. QED
  BY <1>6, <1>7, <1>8

\* A commit serves what it has read and keeps the marks of what was reported meanwhile.
LEMMA CommitBuild ==
    ASSUME TypeInv, TypeInv', PartInv, EpochInv, ShapeInv, BuildInv, Commit
    PROVE  BuildInv'
<1> DEFINE f == FollowUp(w.batch, StageEpoch)
           m == Published(f)
           q == Queued(man)
<1>1. Worker /\ UNCHANGED ingress /\ At("commit")
  BY DEF Worker, Commit
<1>2. /\ life # "down" /\ UNCHANGED <<files, accepted, adm, stopping>> /\ (Active' => Active)
      /\ w.pc = "commit" /\ w.pc \in BuildLabels /\ w.pc \in Scanning
  BY <1>1, WorkerIsActive DEF At, BuildLabels, Scanning
<1>3. /\ f.clear <=> ingress.clear # 0
      /\ f.shut => stopping
      /\ ingress.full # 0 => f.full
      /\ \A p \in Paths : ingress.paths[p] # 0 => p \in f.paths
  BY <1>2, StageEpochIs, FollowUpIsExact
<1>4. q \in ManifestType /\ q.status # "Ready" /\ q.dirty = man.dirty
  BY ManifestTypes DEF TypeInv, ManOK, ManifestType, Queued
<1>5. m \in ManifestType
  BY PublishedTypes DEF TypeInv
<1>6. man.status # "Ready" /\ disk.manifest.status # "Ready"
  BY <1>2 DEF BuildInv, NotReadyInv
<1>7. CASE stopping \/ Superseded(f)
  <2>1. (Save(q) /\ StageDone) \/ (SaveFails(q) /\ BuildFailed)
    <3>1. Requeue
      BY <1>7 DEF Commit
    <3>2. Legal(man.status, q.status)
      BY DEF Legal, Queued, TypeInv, ManOK, ManifestType
    <3>3. QED
      BY <3>1, <3>2 DEF Requeue, Section
  <2>2. UNCHANGED <<mem, due>>
    BY <1>2, <1>7 DEF Commit, due
  <2>3. CASE stopping
    <3>1. ~Active'
      BY <1>2, <2>3 DEF Active
    <3>2. QED
      <4> HIDE DEF f, m, q
      <4> QED
        BY <1>1, <1>2, <1>4, <2>1, <2>2, <3>1, BuildEnds, SectionBuild
  <2>4. CASE ~stopping
    <3>1. ingress.clear # 0
      BY <1>3, <1>7, <2>4 DEF Superseded
    <3>2. MarksInv'
      BY <1>1, <3>1 DEF MarksInv, Coming
    <3>3. man' = q /\ disk'.repo = disk.repo /\ disk'.regex = disk.regex
          /\ disk'.manifest \in {q, disk.manifest, Missing}
      <4> HIDE DEF q
      <4> QED
        BY <1>4, <2>1, SaveTypes DEF TypeInv
    <3>4. DiskInv'
      BY <1>4, <1>6, <3>3 DEF DiskInv, Clean, Missing
    <3>5. ScanInv' /\ NotReadyInv'
      BY <1>2, <2>1, BuildEnds, NotScanning
    <3>6. ReportedInv' /\ ServingInv'
      <4> HIDE DEF q
      <4> QED
        BY <1>1, <1>2, <1>4, <2>2, <3>3, ReportedKept, ServingKept DEF BuildInv
    <3>7. QED
      BY <1>2, <3>2, <3>4, <3>5, <3>6, FilesKept DEF BuildInv
  <2>5. QED
    BY <2>3, <2>4
<1>8. CASE ~(stopping \/ Superseded(f))
  <2>1. mem' = Loaded(disk) /\ Section(m, StageDone) /\ dropped' = dropped \ MarkedAgain(f)
    BY <1>8 DEF Commit
  <2>2. \/ Save(m) /\ StageDone
        \/ SaveFails(m) /\ BuildFailed
        \/ BuildFailed /\ UNCHANGED <<man, disk>> /\ ~Legal(man.status, m.status)
    BY <2>1 DEF Section
  <2>3. ~stopping /\ ingress.clear = 0
    BY <1>3, <1>8 DEF Superseded
  <2>4. ASSUME NEW p \in Paths \ m.dirty, ~Coming
        PROVE  disk.repo[p] >= due'[p] /\ disk.regex[p] >= due'[p]
    <3>1. due'[p] = IF p \in dropped' THEN 0 ELSE accepted[p]
      BY <1>2 DEF due
    <3>2. disk.repo[p] \in Nat /\ disk.regex[p] \in Nat
      BY <1>2 DEF BuildInv, ScanInv, Scan, TypeInv, DiskOK, DiskType, Engine
    <3>3. CASE p \in dropped'
      BY <3>1, <3>2, <3>3
    <3>4. CASE p \notin dropped'
      <4>1. p \in dropped => p \in MarkedAgain(f)
        BY <2>1, <3>4
      <4>2. disk.repo[p] >= accepted[p] /\ disk.regex[p] >= accepted[p]
        BY <1>1, <2>3, <2>4, <4>1, PublishedHas
      <4>3. QED
        BY <3>1, <3>4, <4>2
    <3>5. QED
      BY <3>3, <3>4
  <2>5. disk.repo # None /\ disk.regex # None
    BY <1>2 DEF BuildInv, ScanInv, Scan
  <2>6. mem'.repo = disk.repo /\ mem'.regex = disk.regex
    BY <2>1 DEF Loaded
  <2>7. m.status = "Ready" => ~Coming
    BY <1>3, <2>3 DEF Published, Coming
  <2>8. ASSUME NEW p \in Paths, ingress.paths[p] # 0 PROVE p \in m.dirty \/ due'[p] = 0
    <3>1. p \in f.paths
      BY <1>3, <2>8
    <3>2. Active
      BY <1>2, <2>3 DEF Active, WorkerRuns
    <3>3. p \in man.dirty \/ due[p] = 0
      BY <2>8, <3>2 DEF BuildInv, ReportedInv
    <3>4. due'[p] = IF p \in dropped' THEN 0 ELSE accepted[p]
      BY <1>2 DEF due
    <3>5. w.part /\ p \in dropped => p \in dropped'
      BY <2>1, <3>1 DEF MarkedAgain
    <3>6. QED
      BY <3>1, <3>3, <3>4, <3>5, DueTypes DEF Published
  <2>9. ScanInv' /\ NotReadyInv'
    BY <1>2, <2>2, BuildEnds, NotScanning
  <2> HIDE DEF f, m, q
  <2>10. CASE BuildFailed /\ UNCHANGED <<man, disk>> /\ ~Legal(man.status, m.status)
    <3>1. MarksInv'
      BY <1>2, <2>10, BuildEnds DEF MarksInv, Active
    <3>2. ServingInv'
      BY <1>6, <2>10 DEF ServingInv
    <3>3. DiskInv'
      BY <1>6, <2>10 DEF DiskInv, Clean
    <3>4. UNCHANGED due
      BY <1>2, <2>1, <2>10 DEF MarkedAgain, m, due
    <3>5. ReportedInv'
      BY <1>1, <1>2, <2>10, <3>4, ReportedKept DEF BuildInv
    <3>6. QED
      BY <1>2, <2>9, <3>1, <3>2, <3>3, <3>5, FilesKept DEF BuildInv
  <2>11. CASE (Save(m) /\ StageDone) \/ (SaveFails(m) /\ BuildFailed)
    <3>1. /\ man' = m /\ disk'.repo = disk.repo /\ disk'.regex = disk.regex
          /\ disk'.manifest \in {m, disk.manifest, Missing}
      BY <1>5, <2>11, SaveTypes DEF TypeInv
    <3>2. MarksInv'
      BY <1>1, <1>2, <2>4, <2>6, <3>1 DEF MarksInv, Coming, Has
    <3>3. ReportedInv'
      BY <1>1, <1>2, <2>8, <3>1 DEF ReportedInv
    <3>4. ServingInv'
      BY <1>2, <2>4, <2>5, <2>6, <2>7, <3>1 DEF ServingInv, Has, Current
    <3>5. DiskInv'
      <4>1. CASE Clean(disk'.manifest)
        <5>1. disk'.manifest = m
          BY <1>6, <3>1, <4>1 DEF Clean, Missing
        <5>2. m.status = "Ready" /\ m.dirty = {}
          BY <4>1, <5>1 DEF Clean
        <5>3. \A p \in Paths : disk.repo[p] >= due'[p] /\ disk.regex[p] >= due'[p]
          BY <2>4, <2>7, <5>2
        <5>4. QED
          BY <1>2, <3>1, <5>3 DEF DiskInv, Has
      <4>2. CASE ~Clean(disk'.manifest)
        BY <4>2 DEF DiskInv, Clean
      <4>3. QED
        BY <4>1, <4>2
    <3>6. QED
      BY <1>2, <2>9, <3>2, <3>3, <3>4, <3>5, FilesKept DEF BuildInv
  <2>12. QED
    BY <2>2, <2>10, <2>11
<1>9. QED
  BY <1>7, <1>8

\* A failed build is retried as a rebuild, so nothing has to be marked until then.
LEMMA ReconcileBuild ==
    ASSUME TypeInv, TypeInv', EpochInv, ShapeInv, BuildInv, Reconcile
    PROVE  BuildInv'
<1> DEFINE q == Queued(man)
<1>1. Worker /\ UNCHANGED <<ingress, stopping>> /\ w.pc = "reconcile"
  BY DEF Worker, Reconcile, At
<1>2. life # "down" /\ UNCHANGED <<files, accepted, due, adm>> /\ (Active' => Active)
  BY <1>1, WorkerIsActive
<1>3. q \in ManifestType /\ q.status = "Queued" /\ q.dirty = man.dirty
  BY ManifestTypes DEF TypeInv, ManOK, ManifestType, Queued
<1>4. /\ man' = q /\ disk'.repo = disk.repo /\ disk'.regex = disk.regex
      /\ disk'.manifest \in {q, disk.manifest, Missing}
  <2>1. Save(q) \/ SaveFails(q)
    BY DEF Reconcile
  <2>2. QED
    <3> HIDE DEF q
    <3> QED
      BY <1>3, <2>1, SaveTypes DEF TypeInv
<1>5. \/ w' = Idle /\ stopping
      \/ w' = [w EXCEPT !.pc = "dead"]
      \/ w' = [w EXCEPT !.pc = "retry", !.batch = IF w.stage = "paths" THEN PromoteRetry(@) ELSE @]
  BY DEF Reconcile
<1>6. w'.pc \notin Scanning
  BY <1>5, IdleFields DEF TypeInv, WOK, WorkerType, Scanning
<1>7. Active' => UnderWay'
  <2>1. CASE w' = Idle /\ stopping
    BY <1>1, <2>1 DEF Active
  <2>2. CASE w' = [w EXCEPT !.pc = "dead"]
    BY <2>2 DEF Active, WorkerRuns, TypeInv, WOK, WorkerType
  <2>3. CASE w' = [w EXCEPT !.pc = "retry",
                            !.batch = IF w.stage = "paths" THEN PromoteRetry(@) ELSE @]
    <3>1. w'.pc = "retry" /\ w'.batch = IF w.stage = "paths" THEN PromoteRetry(w.batch) ELSE w.batch
      BY <2>3 DEF TypeInv, WOK, WorkerType
    <3>2. /\ w.stage \in {"clear", "full", "paths"}
          /\ w.stage = "clear" => w.batch.clear # 0
          /\ w.stage = "full" => w.batch.full # 0
          /\ w.stage = "paths" => Ahead(w.batch) # {}
      BY <1>1, <1>2 DEF ShapeInv, Shape
    <3>3. w.stage = "paths" => PromoteRetry(w.batch).full # 0
      <4>1. w.batch \in WorkType /\ w.batch.full \in Nat /\ w.batch.epoch \in Nat
            /\ w.batch.paths \in [Paths -> Nat]
        BY DEF TypeInv, WOK, WorkerType, WorkType
      <4>2. Ordered(w.batch)
        BY <1>2 DEF EpochInv
      <4>3. w.stage = "paths" => w.batch.epoch > 0
        BY <3>2, <4>1, <4>2 DEF Ahead, Ordered
      <4>4. PromoteRetry(w.batch).full = w.batch.epoch
        BY <4>1 DEF PromoteRetry, WorkType
      <4>5. QED
        BY <4>1, <4>3, <4>4
    <3>4. QED
      BY <3>1, <3>2, <3>3 DEF UnderWay
  <2>4. QED
    BY <1>5, <2>1, <2>2, <2>3
<1>8. MarksInv'
  BY <1>7 DEF MarksInv
<1>9. ReportedInv'
  BY <1>1, <1>2, <1>3, <1>4, ReportedKept DEF BuildInv
<1>10. ServingInv'
  BY <1>3, <1>4 DEF ServingInv
<1>11. DiskInv'
  <2>1. \A p \in Paths : due'[p] <= due[p]
    BY <1>2, DueTypes
  <2>2. ~Clean(q) /\ ~Clean(Missing)
    BY <1>3 DEF Clean, Missing
  <2>3. QED
    BY <1>4, <2>1, <2>2, DiskKept DEF BuildInv
<1>12. QED
  BY <1>2, <1>6, <1>8, <1>9, <1>10, <1>11, FilesKept, NotScanning DEF BuildInv

\* The durable half of a request promises nothing yet.
LEMMA AdmitBuild ==
    ASSUME TypeInv, TypeInv', BuildInv, NEW kind \in Kinds, NEW ps \in SUBSET Paths,
           kind = "paths" => ps # {}, Admit(kind, ps)
    PROVE  BuildInv'
<1>1. UNCHANGED <<life, man, mem, ingress, stopping, w, accepted, due>> /\ adm = None
  BY DEF Admit, NewRequest, memory, due
<1>2. disk'.repo = disk.repo /\ disk'.regex = disk.regex /\ disk'.manifest = disk.manifest
  <2>1. ASSUME NEW c, disk' = [disk EXCEPT !.clear = c]
        PROVE  disk'.manifest = disk.manifest /\ disk'.repo = disk.repo /\ disk'.regex = disk.regex
    BY <2>1 DEF TypeInv, DiskOK, DiskType
  <2>2. QED
    BY <2>1 DEF Admit
<1>3. FilesInv'
  <2>1. ASSUME NEW p \in Paths PROVE files[p] <= files'[p]
    BY <2>1 DEF Admit, TypeInv, FilesOK
  <2>2. ASSUME NEW p \in Paths
        PROVE  files[p] \in Nat /\ files'[p] \in Nat /\ accepted[p] \in Nat
    BY <2>2 DEF TypeInv, FilesOK, GhostsOK
  <2>3. QED
    BY <1>1, <2>1, <2>2 DEF BuildInv, FilesInv
<1>4. AdmInv'
  <2>1. CASE UNCHANGED adm
    BY <1>1, <2>1 DEF AdmInv
  <2>2. ASSUME NEW rev, adm' = [kind |-> kind, paths |-> ps, rev |-> rev] PROVE AdmInv'
    BY <2>2 DEF AdmInv
  <2>3. QED
    BY <2>1, <2>2 DEF Admit
<1>5. ScanInv' /\ NotReadyInv' /\ MarksInv' /\ ReportedInv' /\ ServingInv' /\ DiskInv'
  BY <1>1, <1>2 DEF BuildInv, ScanInv, Scan, NotReadyInv, MarksInv, ReportedInv, ServingInv,
     DiskInv, Active, WorkerRuns, Coming, UnderWay, Has, Current, Doing
<1>6. QED
  BY <1>3, <1>4, <1>5 DEF BuildInv

\* What a command in the ingress takes care of.
LEMMA QueuedWorkComes ==
    ASSUME TypeInv, adm # None, NEW i, i = QueuedWork(adm)
    PROVE  /\ Coming => i.clear # 0 \/ i.full # 0
           /\ \A p \in Paths :
                 p \in Reported(adm.kind, adm.paths) \/ ingress.paths[p] # 0 =>
                     i.clear # 0 \/ i.full # 0 \/ i.paths[p] # 0
           /\ \/ i.clear # 0 /\ \A p \in Paths : i.paths[p] = 0
              \/ i.full # 0 /\ \A p \in Paths : i.paths[p] = 0
              \/ /\ adm.kind = "paths" /\ ~Promoted(adm.paths)
                 /\ \A p \in Paths : i.paths[p] # 0 => p \in adm.paths \/ ingress.paths[p] # 0
<1>1. /\ ingress \in WorkType /\ ingress.epoch \in Nat /\ ingress.clear \in Nat
      /\ ingress.full \in Nat /\ ingress.paths \in [Paths -> Nat]
      /\ adm.kind \in Kinds /\ adm.paths \subseteq Paths
  BY DEF TypeInv, IngressOK, WorkType, AdmOK, RequestType
<1>2. CASE adm.kind = "clear"
  <2>1. i.clear = ingress.epoch + 1 /\ \A p \in Paths : i.paths[p] = 0
    BY <1>1, <1>2 DEF QueuedWork, WithClear, NoPaths, WorkType
  <2>2. QED
    BY <1>1, <2>1
<1>3. ASSUME i = WithFull(ingress) PROVE i.full # 0 /\ \A p \in Paths : i.paths[p] = 0
  BY <1>1, <1>3 DEF WithFull, NoPaths, WorkType
<1>4. CASE i = WithFull(ingress)
  BY <1>3, <1>4
<1>5. CASE adm.kind = "paths" /\ ~Promoted(adm.paths) /\ i # WithFull(ingress)
  <2> DEFINE new == [p \in Paths |-> IF p \in adm.paths THEN ingress.epoch + 1 ELSE ingress.paths[p]]
  <2>1. i = [ingress EXCEPT !.epoch = @ + 1, !.paths = new]
    BY <1>5 DEF QueuedWork, WithPaths
  <2>2. i.paths = new /\ i.clear = ingress.clear /\ i.full = ingress.full
    <3> HIDE DEF new
    <3> QED
      BY <1>1, <2>1 DEF WorkType
  <2>3. \A p \in Paths : i.paths[p] = IF p \in adm.paths THEN ingress.epoch + 1 ELSE ingress.paths[p]
    BY <2>2
  <2>4. Reported(adm.kind, adm.paths) = adm.paths
    BY <1>5 DEF Reported
  <2>5. QED
    <3> HIDE DEF new
    <3> QED
      BY <1>1, <1>5, <2>2, <2>3, <2>4 DEF Coming
<1>6. QED
  BY <1>1, <1>2, <1>4, <1>5 DEF QueuedWork, Kinds

\* A request marks what it reports before it is accepted, or brings a rebuild.
LEMMA QueueBuild ==
    ASSUME TypeInv, TypeInv', EpochInv, BuildInv, Queue
    PROVE  BuildInv'
<1> DEFINE m == QueuedManifest(adm)
           lost == man.dirty \ m.dirty
           ps == Reported(adm.kind, adm.paths)
<1>1. UNCHANGED <<files, life, mem, stopping, w>> /\ adm # None /\ adm' = None
  BY DEF Queue
<1>2. /\ m \in ManifestType /\ man \in ManifestType
      /\ adm.kind \in Kinds /\ adm.paths \subseteq Paths
  BY <1>1, ManifestTypes DEF TypeInv, AdmOK, RequestType, ManOK
<1>3. \/ SaveFails(m) /\ Drop(lost) /\ UNCHANGED ingress
      \/ Save(m) /\ ingress.shut # 0 /\ UNCHANGED <<ingress, accepted, dropped>>
      \/ Save(m) /\ ingress' = QueuedWork(adm) /\ WorkerRuns /\ Accept(adm)
      \/ Save(m) /\ ingress' = QueuedWork(adm) /\ ~WorkerRuns /\ UNCHANGED <<accepted, dropped>>
  BY DEF Queue, ghosts
<1>4. /\ man' = m /\ disk'.repo = disk.repo /\ disk'.regex = disk.regex
      /\ disk'.manifest \in {m, disk.manifest, Missing}
      /\ Save(m) => disk'.manifest = m
      /\ SaveFails(m) => disk'.manifest \in {disk.manifest, Missing}
  <2>1. Save(m) \/ SaveFails(m)
    BY <1>3
  <2>2. QED
    <3> HIDE DEF m
    <3> QED
      BY <1>2, <2>1, SaveTypes DEF TypeInv
<1>5. m.status = "Ready" =>
         /\ man.status = "Ready" /\ adm.kind = "paths"
         /\ m.dirty = man.dirty \cup adm.paths /\ m.queued = man.queued \cup adm.paths
  BY <1>2 DEF QueuedManifest, Queued, Missing, ManifestType, Kinds
<1>6. adm.kind = "paths" /\ ~Promoted(adm.paths) => m.dirty = man.dirty \cup adm.paths
  BY DEF QueuedManifest
<1>7. adm.kind = "paths" => ps = adm.paths
  BY DEF Reported
<1>8. ASSUME NEW p \in Paths
      PROVE  /\ accepted[p] \in Nat /\ files[p] \in Nat /\ accepted'[p] \in Nat
             /\ accepted[p] <= files[p]
             /\ due[p] \in Nat /\ due[p] = IF p \in dropped THEN 0 ELSE accepted[p]
             /\ due'[p] \in Nat /\ due'[p] = IF p \in dropped' THEN 0 ELSE accepted'[p]
  BY <1>8 DEF due, TypeInv, GhostsOK, FilesOK, BuildInv, FilesInv
<1>9. ASSUME Drop(lost), NEW p \in Paths
      PROVE  /\ accepted'[p] = accepted[p]
             /\ due'[p] = IF p \in lost THEN 0 ELSE due[p]
             /\ due'[p] <= due[p]
  <2>1. accepted'[p] = accepted[p] /\ (p \in dropped' <=> p \in dropped \/ p \in lost)
    BY <1>9 DEF Drop
  <2>2. QED
    BY <1>8, <2>1
<1>10. ASSUME Accept(adm), NEW p \in Paths
       PROVE  /\ accepted'[p] = IF p \in ps THEN files[p] ELSE accepted[p]
              /\ p \notin ps => due'[p] = due[p]
  <2>1. /\ accepted'[p] = IF p \in ps THEN files[p] ELSE accepted[p]
        /\ p \in dropped' <=> p \in dropped /\ p \notin ps
    BY <1>10 DEF Accept
  <2>2. QED
    BY <1>8, <2>1
<1>11. Active' <=> Active
  BY <1>1 DEF Active, WorkerRuns
<1>12. Active => ingress.shut = 0
  BY DEF Active, EpochInv, StopIsKnown
<1>13. /\ Coming' <=> ingress'.clear # 0 \/ ingress'.full # 0
       /\ UnderWay' <=> UnderWay
       /\ Current(mem)' <=> Current(mem)
  BY <1>1 DEF Coming, UnderWay, Current
<1> HIDE DEF m, lost, ps
<1>14. FilesInv' /\ AdmInv'
  <2>1. ASSUME NEW p \in Paths PROVE accepted'[p] <= files[p]
    BY <1>3, <1>8, <1>9, <1>10, <2>1
  <2>2. QED
    BY <1>1, <2>1 DEF FilesInv, AdmInv
<1>15. ASSUME NEW p \in Paths
       PROVE  \/ accepted'[p] <= accepted[p]
              \/ Coming' \/ ingress'.paths[p] # 0
  <2>1. CASE UNCHANGED accepted
    BY <1>8, <2>1
  <2>2. CASE ingress' = QueuedWork(adm) /\ Accept(adm)
    <3>1. p \in ps => Coming' \/ ingress'.paths[p] # 0
      BY <1>1, <1>13, <2>2, QueuedWorkComes DEF ps
    <3>2. QED
      BY <1>8, <1>10, <2>2, <3>1
  <2>3. QED
    BY <1>3, <2>1, <2>2 DEF Drop
<1>16. ASSUME NEW p \in Paths, Coming \/ ingress.paths[p] # 0
       PROVE  Coming' \/ ingress'.paths[p] # 0
  <2>1. CASE UNCHANGED ingress
    BY <1>13, <1>16, <2>1 DEF Coming
  <2>2. CASE ingress' = QueuedWork(adm)
    BY <1>1, <1>13, <1>16, <2>2, QueuedWorkComes
  <2>3. QED
    BY <1>3, <2>1, <2>2
<1>17. ScanInv'
  <2>1. ASSUME Scan(disk.repo, mem.repo) PROVE Scan(disk.repo, mem.repo)'
    <3>1. disk.repo \in [Paths -> Nat]
      BY <2>1 DEF Scan, TypeInv, DiskOK, DiskType, Engine
    <3>2. ASSUME NEW p \in Paths, disk.repo[p] >= accepted[p] \/ Coming \/ ingress.paths[p] # 0
          PROVE  disk.repo[p] >= accepted'[p] \/ Coming' \/ ingress'.paths[p] # 0
      BY <1>8, <1>15, <1>16, <3>1, <3>2
    <3>3. QED
      BY <1>1, <1>4, <2>1, <3>2 DEF Scan, Doing
  <2>2. ASSUME Scan(disk.regex, mem.regex) PROVE Scan(disk.regex, mem.regex)'
    <3>1. disk.regex \in [Paths -> Nat]
      BY <2>2 DEF Scan, TypeInv, DiskOK, DiskType, Engine
    <3>2. ASSUME NEW p \in Paths, disk.regex[p] >= accepted[p] \/ Coming \/ ingress.paths[p] # 0
          PROVE  disk.regex[p] >= accepted'[p] \/ Coming' \/ ingress'.paths[p] # 0
      BY <1>8, <1>15, <1>16, <3>1, <3>2
    <3>3. QED
      BY <1>1, <1>4, <2>2, <3>2 DEF Scan, Doing
  <2>3. QED
    BY <1>1, <2>1, <2>2 DEF BuildInv, ScanInv
<1>18. NotReadyInv'
  BY <1>1, <1>4, <1>5 DEF BuildInv, NotReadyInv, Missing
<1>19. MarksInv'
  <2> SUFFICES ASSUME Active, NEW p \in Paths, p \notin m.dirty, ~Coming', ~UnderWay, Current(mem)
               PROVE  Has(mem, p)'
    BY <1>4, <1>11, <1>13 DEF MarksInv
  <2>1. mem.repo[p] \in Nat /\ mem.regex[p] \in Nat
    BY DEF Current, TypeInv, MemOK, Engine
  <2>2. WorkerRuns /\ ingress.shut = 0
    BY <1>12 DEF Active
  <2>3. CASE SaveFails(m) /\ Drop(lost) /\ UNCHANGED ingress
    <3>1. ~Coming
      BY <1>13, <2>3 DEF Coming
    <3>2. CASE p \in man.dirty
      <4>1. due'[p] = 0
        BY <1>9, <2>3, <3>2 DEF lost
      <4>2. QED
        BY <1>1, <2>1, <4>1 DEF Has
    <3>3. CASE p \notin man.dirty
      <4>1. Has(mem, p)
        BY <3>1, <3>3 DEF BuildInv, MarksInv
      <4>2. due'[p] <= due[p]
        BY <1>9, <2>3
      <4>3. QED
        BY <1>1, <1>8, <2>1, <4>1, <4>2 DEF Has
    <3>4. QED
      BY <3>2, <3>3
  <2>4. CASE ingress' = QueuedWork(adm) /\ Accept(adm)
    <3>1. adm.kind = "paths" /\ ~Promoted(adm.paths) /\ ~Coming
      BY <1>1, <1>13, <2>4, QueuedWorkComes
    <3>2. p \notin man.dirty /\ p \notin ps
      BY <1>6, <1>7, <3>1
    <3>3. Has(mem, p)
      BY <3>1, <3>2 DEF BuildInv, MarksInv
    <3>4. due'[p] = due[p]
      BY <1>10, <2>4, <3>2
    <3>5. QED
      BY <1>1, <3>3, <3>4 DEF Has
  <2>5. QED
    BY <1>3, <2>2, <2>3, <2>4
<1>20. ReportedInv'
  <2> SUFFICES ASSUME Active, NEW p \in Paths, ingress'.paths[p] # 0
               PROVE  p \in m.dirty \/ due'[p] = 0
    BY <1>4, <1>11 DEF ReportedInv
  <2>1. WorkerRuns /\ ingress.shut = 0
    BY <1>12 DEF Active
  <2>2. CASE SaveFails(m) /\ Drop(lost) /\ UNCHANGED ingress
    <3>1. p \in man.dirty \/ due[p] = 0
      BY <2>2 DEF BuildInv, ReportedInv
    <3>2. QED
      BY <1>9, <2>2, <3>1 DEF lost
  <2>3. CASE ingress' = QueuedWork(adm) /\ Accept(adm)
    <3>1. adm.kind = "paths" /\ ~Promoted(adm.paths) /\ (p \in adm.paths \/ ingress.paths[p] # 0)
      BY <1>1, <2>3, QueuedWorkComes
    <3>2. CASE p \in adm.paths
      BY <1>6, <3>1, <3>2
    <3>3. CASE p \notin adm.paths
      <4>1. p \in man.dirty \/ due[p] = 0
        BY <3>1, <3>3 DEF BuildInv, ReportedInv
      <4>2. due'[p] = due[p]
        BY <1>7, <1>10, <2>3, <3>1, <3>3
      <4>3. QED
        BY <1>6, <3>1, <4>1, <4>2
    <3>4. QED
      BY <3>2, <3>3
  <2>4. QED
    BY <1>3, <2>1, <2>2, <2>3
<1>21. ServingInv'
  <2> SUFFICES ASSUME life # "down", m.status = "Ready", NEW p \in Paths, p \notin m.dirty \cup m.queued
               PROVE  Current(mem) /\ Has(mem, p)'
    BY <1>1, <1>4, <1>13 DEF ServingInv
  <2>1. p \notin man.dirty \cup man.queued /\ man.status = "Ready" /\ p \notin ps
    BY <1>5, <1>7
  <2>2. Current(mem) /\ Has(mem, p)
    BY <2>1 DEF BuildInv, ServingInv
  <2>3. due'[p] <= due[p]
    BY <1>3, <1>8, <1>9, <1>10, <2>1
  <2>4. mem.repo[p] \in Nat /\ mem.regex[p] \in Nat
    BY <2>2 DEF Current, TypeInv, MemOK, Engine
  <2>5. QED
    BY <1>1, <1>8, <2>2, <2>3, <2>4 DEF Has
<1>22. DiskInv'
  <2>1. ~Clean(m)
    BY <1>1, <1>5 DEF Clean, BuildInv, AdmInv
  <2>2. CASE Save(m)
    BY <1>4, <2>1, <2>2 DEF DiskInv, Clean
  <2>3. CASE SaveFails(m) /\ Drop(lost)
    <3>1. \A p \in Paths : due'[p] <= due[p]
      BY <1>9, <2>3
    <3>2. ~Clean(Missing)
      BY DEF Clean, Missing
    <3>3. QED
      BY <1>4, <2>3, <3>1, <3>2, DiskKept DEF BuildInv
  <2>4. QED
    BY <1>3, <2>2, <2>3
<1>23. QED
  BY <1>14, <1>17, <1>18, <1>19, <1>20, <1>21, <1>22 DEF BuildInv

\* A daemon trusts a clean manifest with both engines, and otherwise queues a rebuild.
LEMMA StartBuild ==
    ASSUME TypeInv, TypeInv', BuildInv, Start
    PROVE  BuildInv'
<1> DEFINE x == LoadedIndex(disk)
           work == InitialWork(x)
           m == InitialManifest(x, work)
<1>1. UNCHANGED <<files, accepted, due, adm>> /\ mem' = x.mem /\ ingress' = InitialIngress(work)
  BY DEF Start, due
<1>2. x.man \in ManifestType
  BY LoadedTypes DEF TypeInv
<1>3. m \in ManifestType /\ (work # "none" => m.status = "Queued")
  <2>1. work \in {"none", "clear", "full", "hydrate"}
    BY DEF InitialWork
  <2>2. QED
    <3> HIDE DEF x, work
    <3> QED
      BY <1>2, <2>1 DEF InitialManifest, ManifestType, Missing, Queued, Statuses
<1>4. \/ work = "none" /\ man' = x.man /\ UNCHANGED disk /\ w' = Idle
      \/ /\ work # "none" /\ Save(m)
         /\ w' = IF work = "hydrate" THEN [Idle EXCEPT !.pc = "begin", !.stage = "hydrate"] ELSE Idle
      \/ work # "none" /\ SaveFails(m) /\ life' = "down"
  BY DEF Start
<1>5. work = "none" =>
         \/ Complete(disk.clear)
         \/ /\ ~Complete(disk.clear) /\ ~Pending(disk.clear)
            /\ Current(x.mem) /\ Clean(x.man)
  <2>1. ~Pending(disk.clear) /\ ~Complete(disk.clear) /\ OnlyRegex(x) => work = "hydrate"
    BY DEF InitialWork
  <2>2. Pending(disk.clear) => work = "clear"
    BY DEF InitialWork
  <2>3. ~Pending(disk.clear) /\ ~Complete(disk.clear) /\ ~OnlyRegex(x)
            /\ (~Current(x.mem) \/ ~Clean(x.man)) => work = "full"
    <3> HIDE DEF x
    <3> QED
      BY DEF InitialWork
  <2>4. QED
    <3> HIDE DEF x, work
    <3> QED
      BY <2>1, <2>2, <2>3
<1>6. Complete(disk.clear) => x.man = Missing /\ x.mem = NoRuntime
  BY DEF LoadedIndex, Complete, Pending
<1>7. ~Complete(disk.clear) => x.mem = Loaded(disk)
  BY DEF LoadedIndex
<1>8. ~Complete(disk.clear) /\ ~Pending(disk.clear) => x.man = disk.manifest
  BY DEF LoadedIndex
<1>9. work = "hydrate" => ~Current(x.mem)
  <2>1. work = "hydrate" => OnlyRegex(x)
    <3> HIDE DEF x
    <3> QED
      BY DEF InitialWork
  <2>2. QED
    <3> HIDE DEF x, work
    <3> QED
      BY <2>1 DEF OnlyRegex, Current
<1>10. /\ work = "full" => ingress'.full # 0
       /\ work = "clear" => ingress'.clear # 0
       /\ \A p \in Paths : ingress'.paths[p] = 0
  <2>1. work = "clear" => disk.clear \in ClearType /\ disk.clear.phase \in {"pending", "pending-rebuild"}
    <3> HIDE DEF x
    <3> QED
      BY DEF InitialWork, Pending, TypeInv, DiskOK, DiskType
  <2>2. ASSUME NEW i \in WorkType, NEW rev \in Nat
        PROVE  /\ WithFull(i).full # 0 /\ WithFull(i).clear = i.clear
               /\ WithClear(i, rev).clear # 0 /\ WithClear(i, rev) \in WorkType
               /\ \A p \in Paths : WithFull(i).paths[p] = 0 /\ WithClear(i, rev).paths[p] = 0
    <3>1. i.epoch \in Nat
      BY DEF WorkType
    <3>2. /\ WithFull(i).full = i.epoch + 1 /\ WithFull(i).clear = i.clear
          /\ WithFull(i).paths = NoPaths
      BY DEF WithFull, WorkType
    <3>3. WithClear(i, rev).clear = i.epoch + 1 /\ WithClear(i, rev).paths = NoPaths
      BY DEF WithClear, WorkType
    <3>4. WithClear(i, rev) \in WorkType
      BY <3>1, CommandTypes
    <3>5. \A p \in Paths : NoPaths[p] = 0
      BY DEF NoPaths
    <3>6. QED
      BY <3>1, <3>2, <3>3, <3>4, <3>5
  <2>3. work = "clear" => disk.clear.rev \in Nat
    BY <2>1 DEF ClearType
  <2> HIDE DEF x, work
  <2>4. CASE work = "full"
    BY <1>1, <2>2, <2>4, ConstantTypes DEF InitialIngress
  <2>5. CASE work = "clear"
    BY <1>1, <2>1, <2>2, <2>3, <2>5, ConstantTypes DEF InitialIngress
  <2>6. CASE work # "full" /\ work # "clear"
    BY <1>1, <2>6, NoWorkIsOrdered DEF InitialIngress
  <2>7. QED
    BY <2>4, <2>5, <2>6
<1>11. work \in {"none", "clear", "full", "hydrate"}
  BY DEF InitialWork
<1> HIDE DEF x, work, m
<1>12. DiskInv'
  <2>1. /\ disk'.repo = disk.repo /\ disk'.regex = disk.regex
        /\ disk'.manifest = disk.manifest \/ (disk'.manifest \in {m, Missing} /\ work # "none")
    BY <1>3, <1>4, SaveTypes DEF TypeInv
  <2>2. \A p \in Paths : due'[p] <= due[p]
    BY <1>1, DueTypes
  <2>3. ~Clean(Missing) /\ (work # "none" => ~Clean(m))
    BY <1>3 DEF Clean, Missing
  <2>4. QED
    BY <2>1, <2>2, <2>3, DiskKept DEF BuildInv
<1>13. CASE life' = "down"
  <2>1. ScanInv' /\ NotReadyInv' /\ MarksInv' /\ ReportedInv' /\ ServingInv'
    BY <1>13 DEF ScanInv, NotReadyInv, MarksInv, ReportedInv, ServingInv, Active
  <2>2. QED
    BY <1>1, <1>12, <2>1, FilesKept DEF BuildInv
<1>14. CASE life' # "down"
  <2>1. w'.pc \notin Scanning
    BY <1>4, <1>14, IdleFields, ConstantTypes DEF WorkerType, Scanning
  <2>2. work = "none" => man' = x.man
    BY <1>4
  <2>3. work # "none" => man'.status = "Queued"
    BY <1>3, <1>4, <1>14 DEF Save
  <2>4. ASSUME work = "none", Current(x.mem), NEW p \in Paths PROVE Has(mem, p)'
    <3>1. ~Complete(disk.clear) /\ x.mem = Loaded(disk) /\ Clean(disk.manifest)
      BY <1>5, <1>6, <1>7, <1>8, <2>4 DEF Current, NoRuntime
    <3>2. disk.repo # None /\ disk.regex # None
      BY <2>4, <3>1 DEF Loaded, Current
    <3>3. Has(disk, p)
      BY <3>1, <3>2 DEF BuildInv, DiskInv
    <3>4. QED
      BY <1>1, <3>1, <3>3 DEF Has, Loaded
  <2>5. MarksInv'
    <3> SUFFICES ASSUME NEW p \in Paths, ~Coming', Current(mem') PROVE Has(mem, p)'
      BY DEF MarksInv, Current
    <3>1. work = "none"
      BY <1>1, <1>9, <1>10, <1>11 DEF Coming
    <3>2. QED
      BY <1>1, <2>4, <3>1
  <2>6. ReportedInv'
    BY <1>10 DEF ReportedInv
  <2>7. ServingInv'
    <3> SUFFICES ASSUME man'.status = "Ready", NEW p \in Paths PROVE Current(mem') /\ Has(mem, p)'
      BY DEF ServingInv, Current
    <3>1. work = "none"
      BY <2>3
    <3>2. ~Complete(disk.clear)
      BY <1>6, <2>2, <3>1 DEF Missing
    <3>3. Current(x.mem)
      BY <1>5, <3>1, <3>2
    <3>4. QED
      BY <1>1, <2>4, <3>1, <3>3
  <2>8. QED
    BY <1>1, <1>12, <2>1, <2>5, <2>6, <2>7, FilesKept, NotScanning DEF BuildInv
<1>15. QED
  BY <1>13, <1>14

\* Signals, stops, exits and kills.
LEMMA LifeBuild ==
    ASSUME TypeInv, TypeInv', BuildInv, Signal \/ BeginShutdown \/ RequestStop \/ Exit \/ Kill
    PROVE  BuildInv'
<1>1. UNCHANGED <<files, disk, man, mem, w, accepted, due>> /\ (adm' = adm \/ adm' = None)
  BY DEF Signal, BeginShutdown, RequestStop, Exit, Kill, Down, ghosts, memory, due
<1>2. FilesInv' /\ AdmInv' /\ DiskInv'
  BY <1>1 DEF BuildInv, FilesInv, AdmInv, DiskInv, Has
<1>3. CASE Exit \/ Kill
  <2>1. life' = "down"
    BY <1>3 DEF Exit, Kill, Down
  <2>2. QED
    BY <1>2, <2>1 DEF BuildInv, ScanInv, NotReadyInv, MarksInv, ReportedInv, ServingInv, Active
<1>4. CASE Signal \/ BeginShutdown \/ RequestStop
  <2>1. UNCHANGED life /\ stopping' /\ (UNCHANGED ingress \/ ingress' = WithShutdown(ingress))
    BY <1>4 DEF Signal, BeginShutdown, RequestStop
  <2>2. ingress'.clear = ingress.clear /\ ingress'.full = ingress.full
        /\ ingress'.paths = ingress.paths
    BY <2>1 DEF WithShutdown, TypeInv, IngressOK, WorkType
  <2>3. MarksInv' /\ ReportedInv'
    BY <2>1 DEF MarksInv, ReportedInv, Active
  <2>4. ScanInv' /\ NotReadyInv' /\ ServingInv'
    BY <1>1, <2>1, <2>2 DEF BuildInv, ScanInv, Scan, NotReadyInv, ServingInv, Coming, Has, Current,
       Doing
  <2>5. QED
    BY <1>2, <2>3, <2>4 DEF BuildInv
<1>5. QED
  BY <1>3, <1>4

\* Every step keeps BuildInv.
LEMMA BuildSteps ==
    ASSUME TypeInv, TypeInv', PartInv, EpochInv, ShapeInv, BuildInv, Next
    PROVE  BuildInv'
<1>1. ASSUME NEW kind \in {"clear", "full"}, Admit(kind, {}) PROVE BuildInv'
  BY <1>1, AdmitBuild DEF Kinds
<1>2. ASSUME NEW ps \in (SUBSET Paths) \ {{}}, Admit("paths", ps) PROVE BuildInv'
  BY <1>2, AdmitBuild DEF Kinds
<1>3. QED
  BY <1>1, <1>2, PassiveBuild, TakeBuild, ClearCommitBuild, BeginBuildBuild, BuildEngineBuild,
     ProgressBuild, CommitBuild, ReconcileBuild, QueueBuild, StartBuild, LifeBuild
     DEF Next, Worker

-----------------------------------------------------------------------------
(* Theorems *)

IndexInv == TypeInv /\ PartInv /\ EpochInv /\ ShapeInv /\ TombInv /\ BuildInv

\* The state of the index, its ingress and its worker stays consistent, whatever clients
\* ask, whatever fails and whenever the daemon is stopped, killed and started again.
THEOREM IndexIsConsistent == Spec => []IndexInv
<1>1. Init => IndexInv
  <2> SUFFICES ASSUME Init PROVE IndexInv
    OBVIOUS
  <2>1. life = "down" /\ adm = None /\ tomb = FALSE
    BY DEF Init
  <2>2. PartInv /\ EpochInv /\ ShapeInv /\ TombInv
    BY <2>1 DEF PartInv, EpochInv, ShapeInv, TombInv, ClearAdmitted, WorkAdmitted
  <2>3. QED
    BY <2>2, InitTypes, InitBuild DEF IndexInv
<1>2. IndexInv /\ [Next]_vars => IndexInv'
  <2> SUFFICES ASSUME IndexInv, [Next]_vars PROVE IndexInv'
    OBVIOUS
  <2>1. CASE Next
    <3>1. TypeInv' /\ PartInv' /\ EpochInv' /\ ShapeInv' /\ TombInv'
      BY <2>1, TypeSteps, PartSteps, EpochSteps, ShapeSteps, TombSteps DEF IndexInv
    <3>2. BuildInv'
      BY <2>1, <3>1, BuildSteps DEF IndexInv
    <3>3. QED
      BY <3>1, <3>2 DEF IndexInv
  <2>2. CASE UNCHANGED vars
    <3>1. UNCHANGED <<files, disk, life, man, mem, ingress, wake, stopping, adm, w, accepted, owed,
                      tomb, dropped, due>>
      BY <2>2 DEF vars, moves, memory, ghosts, due
    <3>2. TypeInv'
      BY <3>1, TypesStay DEF IndexInv, TypeInv, ghosts
    <3>3. PartInv' /\ EpochInv' /\ ShapeInv'
      BY <3>1 DEF IndexInv, PartInv, Current, EpochInv, StopIsKnown, ShapeInv
    <3>4. TombInv'
      BY <3>1 DEF IndexInv, TombInv, ClearAdmitted, WorkAdmitted, ClearAlone, Quiet, Standing
    <3>5. BuildInv'
      BY <3>1 DEF IndexInv, BuildInv, FilesInv, AdmInv, ScanInv, Scan, NotReadyInv, MarksInv,
         ReportedInv, ServingInv, DiskInv, Active, WorkerRuns, Coming, UnderWay, Has, Current, Doing
    <3>6. QED
      BY <3>2, <3>3, <3>4, <3>5 DEF IndexInv
  <2>3. QED
    BY <2>1, <2>2
<1>3. QED
  BY <1>1, <1>2, PTL DEF Spec

\* A search that the manifest lets use the index sees every change that was accepted
\* before it, for any files, requests, stops and kills: commit_full_build and
\* commit_incremental mark what was reported during the build, a failed update is retried
\* as a rebuild, and a daemon trusts a manifest on disk only when it is clean.  Any step
\* may fail; a request whose save of the manifest fails (index.rs:533 and 615) drops
\* marks, and nothing is claimed of those files until they are reported again or a build
\* that read them is published.
THEOREM AnswersAreCurrent == Spec => []IndexedAnswersAreCurrent
<1>1. IndexInv => IndexedAnswersAreCurrent
  <2>1. TypeInv => \A p \in Paths \ dropped : due[p] = accepted[p]
    BY DueTypes
  <2>2. QED
    BY <2>1 DEF IndexInv, BuildInv, ServingInv, IndexedAnswersAreCurrent, Serves, Has
<1>2. QED
  BY <1>1, IndexIsConsistent, PTL

\* After an acknowledged clear nothing is served from the index until newer work is
\* recorded: a build that was under way is superseded, a retry takes the clear in, and a
\* restart finds the clear state and repeats or respects the clear.
THEOREM ClearsHold == Spec => []ClearedIsNotServed
<1>1. IndexInv => ClearedIsNotServed
  BY DEF IndexInv, TombInv, ClearAlone, ClearedIsNotServed
<1>2. QED
  BY <1>1, IndexIsConsistent, PTL
=============================================================================
