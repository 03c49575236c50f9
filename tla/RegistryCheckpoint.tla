------------------------- MODULE RegistryCheckpoint -------------------------
(***************************************************************************)
(* Publication and recovery of the paired task/watch registry checkpoint   *)
(* (packet28-daemon-core, storage/checkpoint.rs and its caller in          *)
(* storage.rs).  A checkpoint is two files that must change together; the  *)
(* code makes the pair atomic with a journal (the images of the pair being *)
(* replaced plus a base -> target descriptor) and a manifest that names    *)
(* the committed pair.  Every file is replaced by write-temp / fsync /     *)
(* rename / fsync-directory.                                               *)
(*                                                                         *)
(* A registry file is abstracted to the generation injected into it and an *)
(* opaque image; a descriptor (length and blake3 of both files) to the two *)
(* artifacts themselves, which assumes that the hash is injective.         *)
(* Generation 0 stands for the absent generation of a legacy registry.     *)
(*                                                                         *)
(* `crashStates' is the set of directory contents a power failure may      *)
(* leave: a rename whose directory fsync succeeded is in every one of      *)
(* them, a rename reported as failed after it took effect may or may not   *)
(* survive.  Renames of one directory survive in order (the file system's  *)
(* journal).                                                               *)
(***************************************************************************)
EXTENDS Naturals

CONSTANTS
    Images,         \* encoded registry contents, generation aside
    EmptyImage,     \* the encoding of a default registry
    Absent,         \* a file that does not exist
    MaxGeneration,  \* bound on the checkpoint generation (u64 in the code)
    MaxRevision     \* bound on the delta revision a checkpoint records

Artifact == [generation : Nat, image : Images]

Descriptor == [generation : Nat, revision : Nat,
               tasks : Artifact, watches : Artifact]

Journal == [base : Descriptor, target : Descriptor]

ASSUME CheckpointAssumption ==
    /\ EmptyImage \in Images
    /\ MaxGeneration \in Nat
    /\ MaxRevision \in Nat
    /\ Absent \notin [generation : Nat, image : Images]
    /\ Absent \notin [generation : Nat, revision : Nat,
                      tasks : Artifact, watches : Artifact]
    /\ Absent \notin [base : Descriptor, target : Descriptor]

Disk == [tasks          : Artifact \cup {Absent},
         watches        : Artifact \cup {Absent},
         journalTasks   : Artifact \cup {Absent},
         journalWatches : Artifact \cup {Absent},
         journal        : Journal \cup {Absent},
         manifest       : Descriptor \cup {Absent}]

Phases == {"idle", "healTask", "healWatch", "journalTasks", "journalWatches",
           "journal", "watch", "task", "manifest"}

VARIABLES
    disk,         \* the files of the daemon directory, as a reader sees them
    crashStates,  \* what the directory may hold after a power failure
    phase,        \* next write of the publication in progress, or "idle"
    base,         \* descriptor of the pair the publication replaces
    target,       \* descriptor of the pair being published
    acked         \* history: the pair of the last publication that returned Ok

vars == <<disk, crashStates, phase, base, target, acked>>

-----------------------------------------------------------------------------
(* Recovery *)

\* Legacy absence stands for the encoding of an empty registry.
Materialize(file) ==
    IF file = Absent THEN [generation |-> 0, image |-> EmptyImage] ELSE file

\* The descriptor of the canonical files of d, recorded at `revision'.
DescribeCanonical(d, revision) ==
    [generation |-> Materialize(d.tasks).generation,
     revision   |-> revision,
     tasks      |-> Materialize(d.tasks),
     watches    |-> Materialize(d.watches)]

MatchesOptional(file, artifact, legacyAbsenceIsEmpty) ==
    IF file = Absent THEN legacyAbsenceIsEmpty ELSE file = artifact

\* Both files exist and are the ones the descriptor names; the descriptor's
\* generation is the one inside them.
PairMatches(tasks, watches, descriptor) ==
    /\ tasks = descriptor.tasks
    /\ watches = descriptor.watches
    /\ tasks.generation = descriptor.generation
    /\ watches.generation = descriptor.generation

TaskIsBase(d) ==
    MatchesOptional(d.tasks, d.journal.base.tasks, d.journal.base.generation = 0)

WatchIsBase(d) ==
    MatchesOptional(d.watches, d.journal.base.watches,
                    d.journal.base.generation = 0)

\* Which canonical files a publisher must rewrite before it may replace the
\* journal, or "reject" for bytes no publication phase explains.
CanonicalRecovery(d) ==
    IF TaskIsBase(d) /\ WatchIsBase(d) THEN "None"
    ELSE IF TaskIsBase(d) /\ d.watches = d.journal.target.watches THEN "Watch"
    ELSE IF /\ d.tasks = d.journal.target.tasks
            /\ d.watches = d.journal.target.watches THEN "TaskThenWatch"
    ELSE "reject"

ValidJournal(d) ==
    /\ d.journal # Absent
    /\ d.journal.target.generation # 0
    /\ d.journal.base # d.journal.target
    /\ d.journalTasks # Absent
    /\ d.journalWatches # Absent
    /\ PairMatches(d.journalTasks, d.journalWatches, d.journal.base)

\* The canonical files are the committed pair and nothing has to be replayed
\* from the journal.
CanonicalIsAuthority(d) ==
    IF d.manifest # Absent
    THEN PairMatches(d.tasks, d.watches, d.manifest)
    ELSE d.journal = Absent

JournalIsAuthority(d) ==
    /\ ValidJournal(d)
    /\ d.manifest # Absent => d.journal.base = d.manifest
    /\ CanonicalRecovery(d) # "reject"

\* Startup and every publication resolve the directory first; anything but
\* these two cases is refused.
Resolvable(d) == CanonicalIsAuthority(d) \/ JournalIsAuthority(d)

\* The pair a reader gets.  Files that are current are used as they are; else
\* the images of the journal are.
ResolvedPair(d) ==
    IF CanonicalIsAuthority(d)
    THEN DescribeCanonical(d, IF d.manifest # Absent THEN d.manifest.revision
                                                     ELSE 0)
    ELSE [generation |-> d.journal.base.generation,
          revision   |-> d.journal.base.revision,
          tasks      |-> d.journalTasks,
          watches    |-> d.journalWatches]

ResolvedRecovery(d) ==
    IF CanonicalIsAuthority(d) THEN "None" ELSE CanonicalRecovery(d)

-----------------------------------------------------------------------------
(* Publication *)

\* Fault: the generation is not injected into the encoded task registry.
NextDescriptorUninjected(taskImage, watchImage, revision) ==
    LET generation == ResolvedPair(disk).generation + 1 IN
    [generation |-> generation,
     revision   |-> revision,
     tasks      |-> [image |-> taskImage],
     watches    |-> [generation |-> generation, image |-> watchImage]]

\* The pair to publish: the generation after the resolved one is injected into
\* both images.
NextDescriptor(taskImage, watchImage, revision) ==
    LET generation == ResolvedPair(disk).generation + 1 IN
    [generation |-> generation,
     revision   |-> revision,
     tasks      |-> [generation |-> generation, image |-> taskImage],
     watches    |-> [generation |-> generation, image |-> watchImage]]

\* heal_canonical_pair rewrites what the recovery names before the journal.
FirstPhase(recovery) ==
    CASE recovery = "None"  -> "journalTasks"
      [] recovery = "Watch" -> "healWatch"
      [] OTHER              -> "healTask"

\* Fault: canonical files left by a failed publication are not healed before
\* the journal is replaced.
BeginWithoutHeal(taskImage, watchImage, revision) ==
    /\ phase = "idle"
    /\ Resolvable(disk)
    /\ ResolvedPair(disk).generation < MaxGeneration
    /\ revision >= ResolvedPair(disk).revision
    /\ base' = ResolvedPair(disk)
    /\ target' = NextDescriptor(taskImage, watchImage, revision)
    /\ phase' = "journalTasks"
    /\ UNCHANGED <<disk, crashStates, acked>>

\* Fault: the check that the revision does not precede the committed one is
\* dropped.
BeginAtAnyRevision(taskImage, watchImage, revision) ==
    /\ phase = "idle"
    /\ Resolvable(disk)
    /\ ResolvedPair(disk).generation < MaxGeneration
    /\ base' = ResolvedPair(disk)
    /\ target' = NextDescriptor(taskImage, watchImage, revision)
    /\ phase' = FirstPhase(ResolvedRecovery(disk))
    /\ UNCHANGED <<disk, crashStates, acked>>

\* save_task_watch_registry_checkpoint_anchored: resolve, take the next
\* generation, prepare both descriptors.
Begin(taskImage, watchImage, revision) ==
    /\ phase = "idle"
    /\ Resolvable(disk)
    /\ ResolvedPair(disk).generation < MaxGeneration
    /\ revision >= ResolvedPair(disk).revision
    /\ base' = ResolvedPair(disk)
    /\ target' = NextDescriptor(taskImage, watchImage, revision)
    /\ phase' = FirstPhase(ResolvedRecovery(disk))
    /\ UNCHANGED <<disk, crashStates, acked>>

\* How one atomic replacement (write temporary, fsync, rename, fsync the
\* directory) ends: "unsynced" is an error reported after the rename took
\* effect, "failed" one reported before it.  An error ends the publication; so
\* does the death of the process, which leaves the same files.
WriteOutcomes == {"ok", "unsynced", "failed"}

Write(outcome, written, next) ==
    /\ disk' = IF outcome = "failed" THEN disk ELSE written
    /\ crashStates' = CASE outcome = "ok"       -> {written}
                        [] outcome = "unsynced" -> crashStates \cup {written}
                        [] OTHER                -> crashStates
    /\ phase' = IF outcome = "ok" THEN next ELSE "idle"
    /\ UNCHANGED <<base, target>>

HealTask(outcome) ==
    /\ phase = "healTask"
    /\ Write(outcome, [disk EXCEPT !.tasks = base.tasks], "healWatch")
    /\ UNCHANGED acked

HealWatch(outcome) ==
    /\ phase = "healWatch"
    /\ Write(outcome, [disk EXCEPT !.watches = base.watches], "journalTasks")
    /\ UNCHANGED acked

WriteJournalTasks(outcome) ==
    /\ phase = "journalTasks"
    /\ Write(outcome, [disk EXCEPT !.journalTasks = base.tasks],
             "journalWatches")
    /\ UNCHANGED acked

WriteJournalWatches(outcome) ==
    /\ phase = "journalWatches"
    /\ Write(outcome, [disk EXCEPT !.journalWatches = base.watches], "journal")
    /\ UNCHANGED acked

WriteJournal(outcome) ==
    /\ phase = "journal"
    /\ Write(outcome, [disk EXCEPT !.journal = [base   |-> base,
                                                target |-> target]], "watch")
    /\ UNCHANGED acked

WriteWatch(outcome) ==
    /\ phase = "watch"
    /\ Write(outcome, [disk EXCEPT !.watches = target.watches], "task")
    /\ UNCHANGED acked

WriteTask(outcome) ==
    /\ phase = "task"
    /\ Write(outcome, [disk EXCEPT !.tasks = target.tasks], "manifest")
    /\ UNCHANGED acked

\* Fault: an error after the rename is reported as success.
WriteManifestUnchecked(outcome) ==
    /\ phase = "manifest"
    /\ Write(outcome, [disk EXCEPT !.manifest = target], "idle")
    /\ acked' = IF outcome # "failed" THEN target ELSE acked

\* The commit point.  Only a synchronized manifest makes the call return Ok.
WriteManifest(outcome) ==
    /\ phase = "manifest"
    /\ Write(outcome, [disk EXCEPT !.manifest = target], "idle")
    /\ acked' = IF outcome = "ok" THEN target ELSE acked

\* A power failure between two steps; a successor resolves what is left.
Crash ==
    /\ \E d \in crashStates : disk' = d /\ crashStates' = {d}
    /\ phase' = "idle"
    /\ UNCHANGED <<base, target, acked>>

-----------------------------------------------------------------------------
\* A directory no checkpoint was ever published in: no recovery file, and
\* legacy registries, each present or not.
LegacyFiles == [generation : {0}, image : Images] \cup {Absent}

Init ==
    /\ disk \in [tasks : LegacyFiles, watches : LegacyFiles,
                 journalTasks : {Absent}, journalWatches : {Absent},
                 journal : {Absent}, manifest : {Absent}]
    /\ crashStates = {disk}
    /\ phase = "idle"
    /\ base = DescribeCanonical(disk, 0)
    /\ target = DescribeCanonical(disk, 0)
    /\ acked = DescribeCanonical(disk, 0)

PublishStep(outcome) ==
    \/ HealTask(outcome)
    \/ HealWatch(outcome)
    \/ WriteJournalTasks(outcome)
    \/ WriteJournalWatches(outcome)
    \/ WriteJournal(outcome)
    \/ WriteWatch(outcome)
    \/ WriteTask(outcome)
    \/ WriteManifest(outcome)

Next ==
    \/ \E taskImage, watchImage \in Images, revision \in 0..MaxRevision :
          Begin(taskImage, watchImage, revision)
    \/ \E outcome \in WriteOutcomes : PublishStep(outcome)
    \/ Crash

Spec == Init /\ [][Next]_vars

-----------------------------------------------------------------------------
(* Properties *)

\* Every file and every descriptor has its type: the generation is inside both
\* encoded registries that the publication writes.
TypeOK ==
    /\ disk \in Disk
    /\ crashStates \subseteq Disk
    /\ phase \in Phases
    /\ base \in Descriptor
    /\ target \in Descriptor
    /\ acked \in Descriptor

\* The pair a directory commits to, said without the recovery algorithm: the
\* manifest's, else the base of the first journal, else the legacy files.
Committed(d) ==
    IF d.manifest # Absent THEN d.manifest
    ELSE IF d.journal # Absent THEN d.journal.base
    ELSE DescribeCanonical(d, 0)

\* Whatever a power failure or a failed write leaves behind, resolving the
\* directory (resolve_with_reader) is accepted and returns exactly the
\* committed pair: never a mixture of two publications, never a refusal that
\* needs the offline repair command.
AlwaysRecoverable ==
    \A d \in crashStates : Resolvable(d) /\ ResolvedPair(d) = Committed(d)

\* A checkpoint whose publication returned Ok is in every state a crash may
\* leave, unless a later publication replaced it.
AckedSurvives ==
    \A d \in crashStates :
        /\ Committed(d).generation >= acked.generation
        /\ Committed(d).revision >= acked.revision
        /\ Committed(d).generation = acked.generation => Committed(d) = acked

\* The refinement mapping: the cell holds the committed pair.
Cell == INSTANCE CheckpointCell
            WITH value     <- Committed(disk),
                 survivors <- {Committed(d) : d \in crashStates}

\* Publication, failure and recovery implement one atomic cell that holds a
\* pair of registries and only moves to the next generation.
CellSpec == Cell!Spec

=============================================================================
