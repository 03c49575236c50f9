---------------------- MODULE RegistryCheckpointProofs ----------------------
(***************************************************************************)
(* Proofs about the checkpoint publication protocol, for every set of      *)
(* images and every bound on generations and revisions: a power failure    *)
(* never leaves a directory that recovery refuses or reads as a mixture,   *)
(* an acknowledged checkpoint is never lost, and the protocol implements   *)
(* the atomic cell of CheckpointCell.                                      *)
(***************************************************************************)
EXTENDS RegistryCheckpoint, TLAPS

-----------------------------------------------------------------------------
(* The inductive invariant *)

\* The generation in a descriptor is the one in both of its files.
Coherent(p) ==
    /\ p.tasks.generation = p.generation
    /\ p.watches.generation = p.generation

\* The journal holds the images of its base and a target one generation later.
JournalComplete(d) ==
    /\ d.journal # Absent
    /\ Coherent(d.journal.base)
    /\ Coherent(d.journal.target)
    /\ d.journal.target.generation = d.journal.base.generation + 1
    /\ d.journalTasks = d.journal.base.tasks
    /\ d.journalWatches = d.journal.base.watches

\* A canonical file is the one pair p names, or p is legacy and it is missing.
TasksAre(d, p) == MatchesOptional(d.tasks, p.tasks, p.generation = 0)
WatchesAre(d, p) == MatchesOptional(d.watches, p.watches, p.generation = 0)

\* The canonical files are at a step of journal.base -> journal.target.
InPublication(d) ==
    \/ TasksAre(d, d.journal.base) /\ WatchesAre(d, d.journal.base)
    \/ TasksAre(d, d.journal.base) /\ d.watches = d.journal.target.watches
    \/ /\ d.tasks = d.journal.target.tasks
       /\ d.watches = d.journal.target.watches

ManifestSound(d) ==
    d.manifest # Absent =>
        /\ Coherent(d.manifest)
        /\ d.manifest.generation > 0
        /\ \/ d.tasks = d.manifest.tasks /\ d.watches = d.manifest.watches
           \/ /\ JournalComplete(d)
              /\ d.journal.base = d.manifest
              /\ InPublication(d)

LegacySound(d) ==
    d.manifest = Absent =>
        \/ /\ d.journal = Absent
           /\ Materialize(d.tasks).generation = 0
           /\ Materialize(d.watches).generation = 0
        \/ /\ JournalComplete(d)
           /\ d.journal.base.generation = 0
           /\ InPublication(d)

Sound(d) == ManifestSound(d) /\ LegacySound(d)

\* What a publication of b -> t whose next write is ph knows of directory d.
PublisherAt(d, ph, b, t) ==
    ph # "idle" =>
        /\ b = Committed(d)
        /\ Coherent(t)
        /\ t.generation = b.generation + 1
        /\ t.revision >= b.revision
        /\ ph = "healTask" =>
              /\ JournalComplete(d)
              /\ d.journal.base = b
              /\ d.tasks = d.journal.target.tasks
              /\ d.watches = d.journal.target.watches
        /\ ph = "healWatch" =>
              /\ JournalComplete(d)
              /\ d.journal.base = b
              /\ TasksAre(d, b)
              /\ d.watches = d.journal.target.watches
        /\ ph \in {"journalTasks", "journalWatches", "journal", "watch"} =>
              TasksAre(d, b) /\ WatchesAre(d, b)
        /\ ph \in {"journalWatches", "journal"} => d.journalTasks = b.tasks
        /\ ph = "journal" => d.journalWatches = b.watches
        /\ ph \in {"watch", "task", "manifest"} =>
              /\ JournalComplete(d)
              /\ d.journal = [base |-> b, target |-> t]
        /\ ph = "task" => TasksAre(d, b) /\ d.watches = t.watches
        /\ ph = "manifest" => d.tasks = t.tasks /\ d.watches = t.watches

\* Every directory a crash may leave is sound, the visible one is one of them,
\* and the publication in progress knows which step it is at.
CheckpointInv ==
    /\ TypeOK
    /\ disk \in crashStates
    /\ \A d \in crashStates : Sound(d)
    /\ PublisherAt(disk, phase, base, target)
    /\ AckedSurvives

-----------------------------------------------------------------------------
(* Recovery *)

\* A descriptor is determined by its four fields.
LEMMA DescriptorEta ==
    ASSUME NEW p \in Descriptor, NEW q \in Descriptor,
           p.generation = q.generation, p.revision = q.revision,
           p.tasks = q.tasks, p.watches = q.watches
    PROVE  p = q
BY DEF Descriptor

\* The pair a sound directory commits to is a descriptor whose generation is
\* the one of both files.
LEMMA CommittedCoherent ==
    ASSUME NEW d \in Disk, Sound(d)
    PROVE  Committed(d) \in Descriptor /\ Coherent(Committed(d))
<1>1. CASE d.manifest # Absent
  BY <1>1 DEF Sound, ManifestSound, Committed, Disk
<1>2. CASE d.manifest = Absent /\ d.journal # Absent
  <2>1. d.journal \in Journal
    BY <1>2 DEF Disk
  <2>. QED
    BY <1>2, <2>1 DEF Sound, LegacySound, JournalComplete, Committed, Journal
<1>3. CASE d.manifest = Absent /\ d.journal = Absent
  <2>1. Materialize(d.tasks) \in Artifact /\ Materialize(d.watches) \in Artifact
    BY CheckpointAssumption DEF Disk, Materialize, Artifact
  <2>2. /\ Materialize(d.tasks).generation = 0
        /\ Materialize(d.watches).generation = 0
    BY <1>3 DEF Sound, LegacySound, JournalComplete
  <2>. QED
    BY <1>3, <2>1, <2>2
       DEF Committed, DescribeCanonical, Coherent, Descriptor, Artifact
<1>. QED  BY <1>1, <1>2, <1>3

\* resolve_with_reader accepts every sound directory and returns the pair it
\* commits to.
LEMMA SoundResolves ==
    ASSUME NEW d \in Disk, Sound(d)
    PROVE  Resolvable(d) /\ ResolvedPair(d) = Committed(d)
<1>. USE CheckpointAssumption
<1>a. Committed(d) \in Descriptor /\ Coherent(Committed(d))
  BY CommittedCoherent
<1>j. ASSUME JournalComplete(d), InPublication(d),
             d.manifest # Absent => d.journal.base = d.manifest,
             ~CanonicalIsAuthority(d), Committed(d) = d.journal.base
      PROVE  Resolvable(d) /\ ResolvedPair(d) = Committed(d)
  <2>1. d.journal \in Journal /\ d.journal.base \in Descriptor
                              /\ d.journal.target \in Descriptor
    BY <1>j DEF JournalComplete, Disk, Journal
  <2>2. CanonicalRecovery(d) # "reject"
    BY <1>j DEF InPublication, CanonicalRecovery, TaskIsBase, WatchIsBase,
                TasksAre, WatchesAre
  <2>3. d.journal.base.tasks \in Artifact /\ d.journal.base.watches \in Artifact
    BY <2>1 DEF Descriptor
  <2>4. ValidJournal(d)
    <3>1. d.journal.base.generation \in Nat
      BY <2>1 DEF Descriptor
    <3>2. /\ d.journal.target.generation # 0
          /\ d.journal.target.generation # d.journal.base.generation
      BY <1>j, <3>1 DEF JournalComplete
    <3>3. d.journalTasks # Absent /\ d.journalWatches # Absent
      BY <1>j, <2>3 DEF JournalComplete, Artifact
    <3>. QED
      BY <1>j, <3>2, <3>3 DEF ValidJournal, PairMatches, JournalComplete, Coherent
  <2>5. ResolvedPair(d) = d.journal.base
    <3>1. ResolvedPair(d) = [generation |-> d.journal.base.generation,
                             revision   |-> d.journal.base.revision,
                             tasks      |-> d.journal.base.tasks,
                             watches    |-> d.journal.base.watches]
      BY <1>j DEF ResolvedPair, JournalComplete
    <3>2. ResolvedPair(d) \in Descriptor
      BY <2>1, <3>1 DEF Descriptor
    <3>. QED  BY <2>1, <3>1, <3>2, DescriptorEta
  <2>. QED
    BY <1>j, <2>2, <2>4, <2>5 DEF Resolvable, JournalIsAuthority
<1>c. ASSUME CanonicalIsAuthority(d), d.manifest # Absent
      PROVE  ResolvedPair(d) = Committed(d)
  <2>1. d.manifest \in Descriptor
    BY <1>c DEF Disk
  <2>2. d.tasks = d.manifest.tasks /\ d.watches = d.manifest.watches
    BY <1>c DEF CanonicalIsAuthority, PairMatches
  <2>3. d.tasks \in Artifact /\ d.watches \in Artifact
    BY <2>1, <2>2 DEF Descriptor
  <2>4. Materialize(d.tasks) = d.tasks /\ Materialize(d.watches) = d.watches
    BY <2>3 DEF Materialize, Artifact
  <2>5. d.tasks.generation = d.manifest.generation
    BY <1>c DEF CanonicalIsAuthority, PairMatches
  <2>6. ResolvedPair(d) = [generation |-> d.manifest.generation,
                           revision   |-> d.manifest.revision,
                           tasks      |-> d.manifest.tasks,
                           watches    |-> d.manifest.watches]
    BY <1>c, <2>2, <2>4, <2>5 DEF ResolvedPair, DescribeCanonical
  <2>7. ResolvedPair(d) \in Descriptor
    BY <2>1, <2>6 DEF Descriptor
  <2>. QED
    BY <1>c, <2>1, <2>6, <2>7, DescriptorEta DEF Committed
<1>1. CASE CanonicalIsAuthority(d) /\ d.manifest # Absent
  BY <1>1, <1>c DEF Resolvable
<1>2. CASE CanonicalIsAuthority(d) /\ d.manifest = Absent
  BY <1>2 DEF Resolvable, CanonicalIsAuthority, ResolvedPair, Committed
<1>3. CASE ~CanonicalIsAuthority(d) /\ d.manifest # Absent
  <2>1. ~(d.tasks = d.manifest.tasks /\ d.watches = d.manifest.watches)
    BY <1>3 DEF CanonicalIsAuthority, PairMatches, Sound, ManifestSound, Coherent
  <2>2. /\ JournalComplete(d) /\ InPublication(d)
        /\ d.journal.base = d.manifest /\ Committed(d) = d.journal.base
    BY <1>3, <2>1 DEF Sound, ManifestSound, Committed
  <2>. QED  BY <1>3, <1>j, <2>2
<1>4. CASE ~CanonicalIsAuthority(d) /\ d.manifest = Absent
  <2>1. JournalComplete(d) /\ InPublication(d) /\ Committed(d) = d.journal.base
    BY <1>4 DEF CanonicalIsAuthority, Sound, LegacySound, Committed
  <2>. QED  BY <1>4, <1>j, <2>1
<1>. QED  BY <1>1, <1>2, <1>3, <1>4

-----------------------------------------------------------------------------
(* Publication *)

\* A write that keeps the directory sound and its committed pair preserves the
\* invariant, whichever way the write ends.
LEMMA WritePreserves ==
    ASSUME CheckpointInv,
           NEW outcome \in WriteOutcomes, NEW written \in Disk,
           NEW next \in Phases,
           Write(outcome, written, next),
           UNCHANGED acked,
           Sound(written),
           Committed(written) = Committed(disk),
           PublisherAt(written, next, base, target)
    PROVE  CheckpointInv'
<1>1. TypeOK'
  BY DEF CheckpointInv, TypeOK, Write, WriteOutcomes, Phases
<1>2. /\ disk' \in crashStates'
      /\ crashStates' \subseteq crashStates \cup {written}
  BY DEF CheckpointInv, Write, WriteOutcomes
<1>3. \A d \in crashStates' : Sound(d)
  BY <1>2 DEF CheckpointInv
<1>4. PublisherAt(disk', phase', base', target')
  BY DEF CheckpointInv, Write, WriteOutcomes, PublisherAt
<1>5. \A d \in crashStates' :
        /\ Committed(d).generation >= acked.generation
        /\ Committed(d).revision >= acked.revision
        /\ Committed(d).generation = acked.generation => Committed(d) = acked
  BY <1>2 DEF CheckpointInv, AckedSurvives
<1>. QED
  BY <1>1, <1>2, <1>3, <1>4, <1>5
     DEF CheckpointInv, AckedSurvives, Sound, ManifestSound, LegacySound,
         PublisherAt, Committed

\* A legacy directory is sound.
LEMMA InitInv == Init => CheckpointInv
<1>. SUFFICES ASSUME Init PROVE CheckpointInv
  OBVIOUS
<1>. USE CheckpointAssumption
<1>1. disk \in Disk /\ disk.manifest = Absent /\ disk.journal = Absent
  BY DEF Init, Disk, LegacyFiles, Artifact
<1>2. /\ Materialize(disk.tasks) \in Artifact
      /\ Materialize(disk.watches) \in Artifact
      /\ Materialize(disk.tasks).generation = 0
      /\ Materialize(disk.watches).generation = 0
  BY DEF Init, LegacyFiles, Materialize, Artifact
<1>3. DescribeCanonical(disk, 0) \in Descriptor
  BY <1>2 DEF DescribeCanonical, Descriptor, Artifact
<1>4. TypeOK
  BY <1>1, <1>3 DEF Init, TypeOK, Phases
<1>5. Sound(disk)
  BY <1>1, <1>2 DEF Sound, ManifestSound, LegacySound
<1>6. Committed(disk) = acked
  BY <1>1 DEF Init, Committed
<1>7. acked.generation \in Nat /\ acked.revision \in Nat
  BY <1>4 DEF TypeOK, Descriptor
<1>. QED
  BY <1>4, <1>5, <1>6, <1>7 DEF Init, CheckpointInv, PublisherAt, AckedSurvives

\* Begin: the recovery found in the directory tells where the publication starts.
LEMMA BeginInv ==
    ASSUME CheckpointInv,
           NEW taskImage \in Images, NEW watchImage \in Images,
           NEW revision \in 0..MaxRevision,
           Begin(taskImage, watchImage, revision)
    PROVE  CheckpointInv'
<1>. USE CheckpointAssumption
<1>1. disk \in Disk /\ Sound(disk)
  BY DEF CheckpointInv, TypeOK
<1>2. /\ base' = Committed(disk) /\ base' \in Descriptor /\ Coherent(base')
      /\ Resolvable(disk) /\ ResolvedPair(disk) = Committed(disk)
  BY <1>1, SoundResolves, CommittedCoherent DEF Begin
<1>3. /\ target' \in Descriptor /\ Coherent(target')
      /\ target'.generation = base'.generation + 1
      /\ target'.revision >= base'.revision
  BY <1>2 DEF Begin, NextDescriptor, Descriptor, Artifact, Coherent
<1>4. PublisherAt(disk, phase', base', target')
  <2>1. CASE ResolvedRecovery(disk) = "None"
    <3>1. TasksAre(disk, base') /\ WatchesAre(disk, base')
      <4>1. CASE CanonicalIsAuthority(disk) /\ disk.manifest # Absent
        <5>1. disk.manifest \in Descriptor
          BY <4>1, <1>1 DEF Disk
        <5>2. /\ disk.tasks = disk.manifest.tasks
              /\ disk.watches = disk.manifest.watches
          BY <4>1 DEF CanonicalIsAuthority, PairMatches
        <5>3. disk.tasks # Absent /\ disk.watches # Absent
          BY <5>1, <5>2 DEF Descriptor, Artifact
        <5>. QED
          BY <4>1, <5>2, <5>3, <1>2
             DEF Committed, TasksAre, WatchesAre, MatchesOptional
      <4>2. CASE CanonicalIsAuthority(disk) /\ disk.manifest = Absent
        BY <4>2, <1>1, <1>2
           DEF CanonicalIsAuthority, Sound, LegacySound, JournalComplete,
               Committed, DescribeCanonical, Materialize, TasksAre, WatchesAre,
               MatchesOptional
      <4>3. CASE ~CanonicalIsAuthority(disk)
        BY <4>3, <2>1, <1>2
           DEF Resolvable, JournalIsAuthority, ValidJournal, ResolvedRecovery,
               CanonicalRecovery, TaskIsBase, WatchIsBase, TasksAre, WatchesAre,
               Committed
      <4>. QED  BY <4>1, <4>2, <4>3
    <3>2. phase' = "journalTasks"
      BY <2>1 DEF Begin, FirstPhase
    <3>. QED  BY <1>2, <1>3, <3>1, <3>2 DEF PublisherAt
  <2>2. CASE ResolvedRecovery(disk) # "None"
    <3>1. /\ ~CanonicalIsAuthority(disk) /\ JournalIsAuthority(disk)
          /\ ResolvedRecovery(disk) = CanonicalRecovery(disk)
      BY <2>2, <1>2 DEF ResolvedRecovery, Resolvable
    <3>2. JournalComplete(disk) /\ disk.journal.base = base'
      BY <3>1, <1>1, <1>2
         DEF JournalIsAuthority, ValidJournal, CanonicalIsAuthority, PairMatches,
             Sound, ManifestSound, LegacySound, Coherent, Committed
    <3>3. CASE CanonicalRecovery(disk) = "Watch"
      <4>1. TasksAre(disk, base') /\ disk.watches = disk.journal.target.watches
        BY <3>2, <3>3 DEF CanonicalRecovery, TaskIsBase, TasksAre
      <4>2. phase' = "healWatch"
        BY <3>1, <3>3 DEF Begin, FirstPhase
      <4>. QED  BY <1>2, <1>3, <3>2, <4>1, <4>2 DEF PublisherAt
    <3>4. CASE CanonicalRecovery(disk) = "TaskThenWatch"
      <4>1. /\ disk.tasks = disk.journal.target.tasks
            /\ disk.watches = disk.journal.target.watches
        BY <3>4 DEF CanonicalRecovery
      <4>2. phase' = "healTask"
        BY <3>1, <3>4 DEF Begin, FirstPhase
      <4>. QED  BY <1>2, <1>3, <3>2, <4>1, <4>2 DEF PublisherAt
    <3>. QED
      BY <2>2, <3>1, <3>3, <3>4 DEF JournalIsAuthority, CanonicalRecovery
  <2>. QED  BY <2>1, <2>2
<1>5. TypeOK'
  BY <1>2, <1>3 DEF CheckpointInv, TypeOK, Begin, FirstPhase, Phases
<1>. QED
  BY <1>4, <1>5 DEF CheckpointInv, Begin, AckedSurvives, Sound, ManifestSound,
                    LegacySound, PublisherAt, Committed

\* healing rewrites the task file first, so that every step in between is one
\* that recovery knows.
LEMMA HealTaskInv ==
    ASSUME CheckpointInv, NEW outcome \in WriteOutcomes, HealTask(outcome)
    PROVE  CheckpointInv'
<1>. DEFINE w == [disk EXCEPT !.tasks = base.tasks]
<1>1. disk \in Disk /\ Sound(disk) /\ base \in Descriptor /\ w \in Disk
  BY DEF CheckpointInv, TypeOK, Disk, Descriptor
<1>2. /\ JournalComplete(disk) /\ disk.journal.base = base
      /\ base = Committed(disk)
      /\ disk.watches = disk.journal.target.watches
  BY DEF CheckpointInv, PublisherAt, HealTask
<1>3. /\ w.tasks = base.tasks /\ w.watches = disk.watches
      /\ w.journal = disk.journal /\ w.manifest = disk.manifest
      /\ w.journalTasks = disk.journalTasks
      /\ w.journalWatches = disk.journalWatches
  BY <1>1 DEF Disk
<1>4. base.tasks # Absent
  BY <1>1, CheckpointAssumption DEF Descriptor, Artifact
<1>5. TasksAre(w, base) /\ JournalComplete(w) /\ Committed(w) = base
  BY <1>2, <1>3, <1>4
     DEF TasksAre, MatchesOptional, JournalComplete, Committed
<1>6. Sound(w)
  BY <1>1, <1>2, <1>3, <1>5
     DEF Sound, ManifestSound, LegacySound, InPublication, Committed,
         JournalComplete
<1>7. PublisherAt(w, "healWatch", base, target)
  BY <1>2, <1>3, <1>5 DEF CheckpointInv, PublisherAt, HealTask
<1>8. Write(outcome, w, "healWatch") /\ UNCHANGED acked /\ "healWatch" \in Phases
  BY DEF HealTask, Phases
<1>. QED
  BY <1>1, <1>2, <1>5, <1>6, <1>7, <1>8, WritePreserves

LEMMA HealWatchInv ==
    ASSUME CheckpointInv, NEW outcome \in WriteOutcomes, HealWatch(outcome)
    PROVE  CheckpointInv'
<1>. DEFINE w == [disk EXCEPT !.watches = base.watches]
<1>1. disk \in Disk /\ Sound(disk) /\ base \in Descriptor /\ w \in Disk
  BY DEF CheckpointInv, TypeOK, Disk, Descriptor
<1>2. /\ JournalComplete(disk) /\ disk.journal.base = base
      /\ base = Committed(disk) /\ TasksAre(disk, base)
  BY DEF CheckpointInv, PublisherAt, HealWatch
<1>3. /\ w.tasks = disk.tasks /\ w.watches = base.watches
      /\ w.journal = disk.journal /\ w.manifest = disk.manifest
      /\ w.journalTasks = disk.journalTasks
      /\ w.journalWatches = disk.journalWatches
  BY <1>1 DEF Disk
<1>4. base.watches # Absent
  BY <1>1, CheckpointAssumption DEF Descriptor, Artifact
<1>5. /\ TasksAre(w, base) /\ WatchesAre(w, base)
      /\ JournalComplete(w) /\ Committed(w) = base
  BY <1>2, <1>3, <1>4
     DEF TasksAre, WatchesAre, MatchesOptional, JournalComplete, Committed
<1>6. Sound(w)
  BY <1>1, <1>2, <1>3, <1>5
     DEF Sound, ManifestSound, LegacySound, InPublication, Committed,
         JournalComplete
<1>7. PublisherAt(w, "journalTasks", base, target)
  BY <1>2, <1>3, <1>5 DEF CheckpointInv, PublisherAt, HealWatch
<1>8. /\ Write(outcome, w, "journalTasks") /\ UNCHANGED acked
      /\ "journalTasks" \in Phases
  BY DEF HealWatch, Phases
<1>. QED
  BY <1>1, <1>2, <1>5, <1>6, <1>7, <1>8, WritePreserves

\* With both canonical files at the base, a directory with a manifest does not
\* depend on its journal; one without keeps journalling the same base.
LEMMA JournalImageSound ==
    ASSUME CheckpointInv,
           phase \in {"journalTasks", "journalWatches", "journal"},
           NEW w \in Disk,
           w.tasks = disk.tasks, w.watches = disk.watches,
           w.manifest = disk.manifest, w.journal = disk.journal,
           w.journalTasks \in {disk.journalTasks, base.tasks},
           w.journalWatches \in {disk.journalWatches, base.watches}
    PROVE  /\ Sound(w) /\ Committed(w) = base
           /\ TasksAre(w, base) /\ WatchesAre(w, base)
<1>1. disk \in Disk /\ Sound(disk) /\ base \in Descriptor
  BY DEF CheckpointInv, TypeOK
<1>2. /\ base = Committed(disk)
      /\ TasksAre(disk, base) /\ WatchesAre(disk, base)
  BY DEF CheckpointInv, PublisherAt
<1>3. TasksAre(w, base) /\ WatchesAre(w, base)
  BY <1>2 DEF TasksAre, WatchesAre, MatchesOptional
<1>4. Committed(w) = base
  BY <1>2 DEF Committed, DescribeCanonical
<1>5. CASE w.manifest # Absent
  <2>1. base = w.manifest /\ w.manifest.generation # 0
    BY <1>5, <1>2, <1>1 DEF Committed, Sound, ManifestSound, Descriptor
  <2>2. w.tasks = w.manifest.tasks /\ w.watches = w.manifest.watches
    BY <1>3, <2>1 DEF TasksAre, WatchesAre, MatchesOptional
  <2>. QED
    BY <1>1, <1>3, <1>4, <1>5, <2>2 DEF Sound, ManifestSound, LegacySound
<1>6. CASE w.manifest = Absent /\ w.journal # Absent
  <2>1. JournalComplete(disk) /\ disk.journal.base = base /\ base.generation = 0
    BY <1>6, <1>1, <1>2 DEF Sound, LegacySound, Committed
  <2>2. JournalComplete(w)
    BY <2>1 DEF JournalComplete
  <2>. QED
    BY <1>3, <1>4, <1>6, <2>1, <2>2
       DEF Sound, ManifestSound, LegacySound, InPublication
<1>7. CASE w.manifest = Absent /\ w.journal = Absent
  BY <1>1, <1>3, <1>4, <1>7
     DEF Sound, ManifestSound, LegacySound, JournalComplete
<1>. QED  BY <1>5, <1>6, <1>7

LEMMA WriteJournalTasksInv ==
    ASSUME CheckpointInv, NEW outcome \in WriteOutcomes,
           WriteJournalTasks(outcome)
    PROVE  CheckpointInv'
<1>. DEFINE w == [disk EXCEPT !.journalTasks = base.tasks]
<1>1. disk \in Disk /\ base \in Descriptor /\ w \in Disk /\ base = Committed(disk)
  BY DEF CheckpointInv, TypeOK, Disk, Descriptor, PublisherAt, WriteJournalTasks
<1>2. /\ w.tasks = disk.tasks /\ w.watches = disk.watches
      /\ w.journal = disk.journal /\ w.manifest = disk.manifest
      /\ w.journalTasks = base.tasks
      /\ w.journalWatches = disk.journalWatches
  BY <1>1 DEF Disk
<1>3. /\ Sound(w) /\ Committed(w) = base
      /\ TasksAre(w, base) /\ WatchesAre(w, base)
  BY <1>1, <1>2, JournalImageSound DEF WriteJournalTasks
<1>4. PublisherAt(w, "journalWatches", base, target)
  BY <1>2, <1>3 DEF CheckpointInv, PublisherAt, WriteJournalTasks
<1>5. /\ Write(outcome, w, "journalWatches") /\ UNCHANGED acked
      /\ "journalWatches" \in Phases
  BY DEF WriteJournalTasks, Phases
<1>. QED  BY <1>1, <1>3, <1>4, <1>5, WritePreserves

LEMMA WriteJournalWatchesInv ==
    ASSUME CheckpointInv, NEW outcome \in WriteOutcomes,
           WriteJournalWatches(outcome)
    PROVE  CheckpointInv'
<1>. DEFINE w == [disk EXCEPT !.journalWatches = base.watches]
<1>1. /\ disk \in Disk /\ base \in Descriptor /\ w \in Disk
      /\ base = Committed(disk) /\ disk.journalTasks = base.tasks
  BY DEF CheckpointInv, TypeOK, Disk, Descriptor, PublisherAt,
         WriteJournalWatches
<1>2. /\ w.tasks = disk.tasks /\ w.watches = disk.watches
      /\ w.journal = disk.journal /\ w.manifest = disk.manifest
      /\ w.journalTasks = disk.journalTasks
      /\ w.journalWatches = base.watches
  BY <1>1 DEF Disk
<1>3. /\ Sound(w) /\ Committed(w) = base
      /\ TasksAre(w, base) /\ WatchesAre(w, base)
  BY <1>1, <1>2, JournalImageSound DEF WriteJournalWatches
<1>4. PublisherAt(w, "journal", base, target)
  BY <1>1, <1>2, <1>3 DEF CheckpointInv, PublisherAt, WriteJournalWatches
<1>5. Write(outcome, w, "journal") /\ UNCHANGED acked /\ "journal" \in Phases
  BY DEF WriteJournalWatches, Phases
<1>. QED  BY <1>1, <1>3, <1>4, <1>5, WritePreserves

LEMMA WriteJournalInv ==
    ASSUME CheckpointInv, NEW outcome \in WriteOutcomes, WriteJournal(outcome)
    PROVE  CheckpointInv'
<1>. DEFINE j == [base |-> base, target |-> target]
            w == [disk EXCEPT !.journal = j]
<1>. USE CheckpointAssumption
<1>1. /\ disk \in Disk /\ Sound(disk) /\ base \in Descriptor
      /\ target \in Descriptor /\ base = Committed(disk)
      /\ disk.journalTasks = base.tasks /\ disk.journalWatches = base.watches
      /\ TasksAre(disk, base) /\ WatchesAre(disk, base)
      /\ Coherent(target) /\ target.generation = base.generation + 1
  BY DEF CheckpointInv, TypeOK, PublisherAt, WriteJournal
<1>2. j \in Journal /\ j # Absent /\ w \in Disk
  BY <1>1 DEF Journal, Disk
<1>3. /\ w.tasks = disk.tasks /\ w.watches = disk.watches
      /\ w.journal = j /\ w.manifest = disk.manifest
      /\ w.journalTasks = base.tasks /\ w.journalWatches = base.watches
      /\ w.journal.base = base /\ w.journal.target = target
  BY <1>1 DEF Disk
<1>4. Coherent(base)
  BY <1>1, CommittedCoherent
<1>5. JournalComplete(w) /\ TasksAre(w, base) /\ WatchesAre(w, base)
  BY <1>1, <1>2, <1>3, <1>4
     DEF JournalComplete, TasksAre, WatchesAre, MatchesOptional
<1>6. Committed(w) = base
  BY <1>1, <1>2, <1>3 DEF Committed
<1>7. disk.manifest = Absent => base.generation = 0
  BY <1>1 DEF Committed, Sound, LegacySound, JournalComplete, DescribeCanonical
<1>8. disk.manifest # Absent => base = disk.manifest
  BY <1>1 DEF Committed
<1>9. Sound(w)
  BY <1>1, <1>3, <1>5, <1>7, <1>8
     DEF Sound, ManifestSound, LegacySound, InPublication
<1>10. PublisherAt(w, "watch", base, target)
  BY <1>1, <1>3, <1>5, <1>6 DEF CheckpointInv, PublisherAt, WriteJournal
<1>11. Write(outcome, w, "watch") /\ UNCHANGED acked /\ "watch" \in Phases
  BY DEF WriteJournal, Phases
<1>. QED  BY <1>1, <1>2, <1>6, <1>9, <1>10, <1>11, WritePreserves

LEMMA WriteWatchInv ==
    ASSUME CheckpointInv, NEW outcome \in WriteOutcomes, WriteWatch(outcome)
    PROVE  CheckpointInv'
<1>. DEFINE w == [disk EXCEPT !.watches = target.watches]
<1>1. /\ disk \in Disk /\ Sound(disk) /\ base = Committed(disk)
      /\ target \in Descriptor /\ w \in Disk
      /\ JournalComplete(disk)
      /\ disk.journal = [base |-> base, target |-> target]
      /\ TasksAre(disk, base)
  BY DEF CheckpointInv, TypeOK, PublisherAt, WriteWatch, Disk, Descriptor
<1>2. /\ w.tasks = disk.tasks /\ w.watches = target.watches
      /\ w.journal = disk.journal /\ w.manifest = disk.manifest
      /\ w.journalTasks = disk.journalTasks
      /\ w.journalWatches = disk.journalWatches
  BY <1>1 DEF Disk
<1>3. /\ JournalComplete(w) /\ TasksAre(w, base) /\ Committed(w) = base
      /\ w.journal.base = base /\ w.journal.target = target
  BY <1>1, <1>2 DEF JournalComplete, TasksAre, MatchesOptional, Committed
<1>4. Sound(w)
  BY <1>1, <1>2, <1>3
     DEF Sound, ManifestSound, LegacySound, InPublication, Committed,
         JournalComplete
<1>5. PublisherAt(w, "task", base, target)
  BY <1>1, <1>2, <1>3 DEF CheckpointInv, PublisherAt, WriteWatch
<1>6. Write(outcome, w, "task") /\ UNCHANGED acked /\ "task" \in Phases
  BY DEF WriteWatch, Phases
<1>. QED  BY <1>1, <1>3, <1>4, <1>5, <1>6, WritePreserves

LEMMA WriteTaskInv ==
    ASSUME CheckpointInv, NEW outcome \in WriteOutcomes, WriteTask(outcome)
    PROVE  CheckpointInv'
<1>. DEFINE w == [disk EXCEPT !.tasks = target.tasks]
<1>1. /\ disk \in Disk /\ Sound(disk) /\ base = Committed(disk)
      /\ target \in Descriptor /\ w \in Disk
      /\ JournalComplete(disk)
      /\ disk.journal = [base |-> base, target |-> target]
      /\ disk.watches = target.watches
  BY DEF CheckpointInv, TypeOK, PublisherAt, WriteTask, Disk, Descriptor
<1>2. /\ w.tasks = target.tasks /\ w.watches = disk.watches
      /\ w.journal = disk.journal /\ w.manifest = disk.manifest
      /\ w.journalTasks = disk.journalTasks
      /\ w.journalWatches = disk.journalWatches
  BY <1>1 DEF Disk
<1>3. /\ JournalComplete(w) /\ Committed(w) = base
      /\ w.journal.base = base /\ w.journal.target = target
  BY <1>1, <1>2 DEF JournalComplete, Committed
<1>4. Sound(w)
  BY <1>1, <1>2, <1>3
     DEF Sound, ManifestSound, LegacySound, InPublication, Committed,
         JournalComplete
<1>5. PublisherAt(w, "manifest", base, target)
  BY <1>1, <1>2, <1>3 DEF CheckpointInv, PublisherAt, WriteTask
<1>6. Write(outcome, w, "manifest") /\ UNCHANGED acked /\ "manifest" \in Phases
  BY DEF WriteTask, Phases
<1>. QED  BY <1>1, <1>3, <1>4, <1>5, <1>6, WritePreserves

\* The directory the commit point writes is sound and commits to the target.
LEMMA ManifestWritten ==
    ASSUME CheckpointInv, phase = "manifest",
           NEW w, w = [disk EXCEPT !.manifest = target]
    PROVE  /\ w \in Disk /\ Sound(w) /\ Committed(w) = target
           /\ base = Committed(disk) /\ disk \in crashStates
           /\ base \in Descriptor /\ target \in Descriptor
           /\ target.generation = base.generation + 1
           /\ target.revision >= base.revision
<1>. USE CheckpointAssumption
<1>1. /\ disk \in Disk /\ target \in Descriptor /\ base \in Descriptor
      /\ base = Committed(disk) /\ disk \in crashStates
      /\ Coherent(target) /\ target.generation = base.generation + 1
      /\ target.revision >= base.revision
      /\ disk.tasks = target.tasks /\ disk.watches = target.watches
  BY DEF CheckpointInv, TypeOK, PublisherAt
<1>2. /\ w \in Disk /\ w.manifest = target
      /\ w.tasks = target.tasks /\ w.watches = target.watches
  BY <1>1 DEF Disk
<1>3. target # Absent
  BY <1>1 DEF Descriptor
<1>4. target.generation > 0
  BY <1>1 DEF Descriptor
<1>. QED
  BY <1>1, <1>2, <1>3, <1>4 DEF Sound, ManifestSound, LegacySound, Committed

LEMMA WriteManifestInv ==
    ASSUME CheckpointInv, NEW outcome \in WriteOutcomes, WriteManifest(outcome)
    PROVE  CheckpointInv'
<1>. DEFINE w == [disk EXCEPT !.manifest = target]
<1>1. /\ w \in Disk /\ Sound(w) /\ Committed(w) = target
      /\ base = Committed(disk) /\ disk \in crashStates
      /\ base \in Descriptor /\ target \in Descriptor
      /\ target.generation = base.generation + 1
      /\ target.revision >= base.revision
  BY ManifestWritten DEF WriteManifest
<1>2. /\ Write(outcome, w, "idle")
      /\ acked' = IF outcome = "ok" THEN target ELSE acked
      /\ phase' = "idle"
  BY DEF WriteManifest, Write
<1>3. TypeOK'
  BY <1>1, <1>2 DEF CheckpointInv, TypeOK, Write, WriteOutcomes, Phases
<1>4. /\ disk' \in crashStates'
      /\ crashStates' \subseteq crashStates \cup {w}
      /\ outcome = "ok" => crashStates' = {w}
  BY <1>2 DEF CheckpointInv, Write, WriteOutcomes
<1>5. \A d \in crashStates' : Sound(d)
  BY <1>1, <1>4 DEF CheckpointInv
<1>6. ASSUME NEW d \in crashStates'
      PROVE  /\ Committed(d).generation >= acked'.generation
             /\ Committed(d).revision >= acked'.revision
             /\ Committed(d).generation = acked'.generation
                  => Committed(d) = acked'
  <2>1. CASE outcome = "ok"
    BY <1>1, <1>2, <1>4, <2>1 DEF Descriptor
  <2>2. CASE outcome # "ok" /\ d = w
    <3>1. /\ acked' = acked /\ acked.generation \in Nat /\ acked.revision \in Nat
          /\ base.generation \in Nat /\ base.revision \in Nat
          /\ target.revision \in Nat
      BY <1>1, <1>2, <2>2 DEF CheckpointInv, TypeOK, Descriptor
    <3>2. base.generation >= acked.generation /\ base.revision >= acked.revision
      BY <1>1 DEF CheckpointInv, AckedSurvives
    <3>. QED  BY <1>1, <2>2, <3>1, <3>2
  <2>3. CASE outcome # "ok" /\ d # w
    BY <1>2, <1>4, <2>3 DEF CheckpointInv, AckedSurvives
  <2>. QED  BY <2>1, <2>2, <2>3
<1>. QED
  BY <1>2, <1>3, <1>4, <1>5, <1>6
     DEF CheckpointInv, AckedSurvives, Sound, ManifestSound, LegacySound,
         PublisherAt, Committed

LEMMA CrashInv ==
    ASSUME CheckpointInv, Crash
    PROVE  CheckpointInv'
<1>1. TypeOK'
  BY DEF CheckpointInv, TypeOK, Crash, Phases
<1>2. disk' \in crashStates' /\ crashStates' \subseteq crashStates
  BY DEF Crash
<1>3. (\A d \in crashStates' : Sound(d)) /\ phase' = "idle" /\ acked' = acked
  BY <1>2 DEF CheckpointInv, Crash
<1>. QED
  BY <1>1, <1>2, <1>3
     DEF CheckpointInv, AckedSurvives, Sound, ManifestSound, LegacySound,
         PublisherAt, Committed

\* Every step of the protocol preserves the invariant.
LEMMA NextInv ==
    ASSUME CheckpointInv, [Next]_vars
    PROVE  CheckpointInv'
<1>1. CASE UNCHANGED vars
  BY <1>1 DEF vars, CheckpointInv, TypeOK, AckedSurvives, Sound, ManifestSound,
              LegacySound, PublisherAt, Committed
<1>2. ASSUME NEW taskImage \in Images, NEW watchImage \in Images,
             NEW revision \in 0..MaxRevision,
             Begin(taskImage, watchImage, revision)
      PROVE  CheckpointInv'
  BY <1>2, BeginInv
<1>3. ASSUME NEW outcome \in WriteOutcomes, PublishStep(outcome)
      PROVE  CheckpointInv'
  BY <1>3, HealTaskInv, HealWatchInv, WriteJournalTasksInv,
     WriteJournalWatchesInv, WriteJournalInv, WriteWatchInv, WriteTaskInv,
     WriteManifestInv DEF PublishStep
<1>4. CASE Crash
  BY <1>4, CrashInv
<1>. QED  BY <1>1, <1>2, <1>3, <1>4 DEF Next

\* The inductive invariant holds in every reachable state.
THEOREM CheckpointInvariant == Spec => []CheckpointInv
<1>1. CheckpointInv /\ [Next]_vars => CheckpointInv'
  BY NextInv
<1>. QED  BY <1>1, InitInv, PTL DEF Spec

\* Type correctness of the publication protocol.
THEOREM TypeCorrect == Spec => []TypeOK
<1>1. CheckpointInv => TypeOK
  BY DEF CheckpointInv
<1>. QED  BY <1>1, CheckpointInvariant, PTL

\* Whatever a power failure leaves, resolve_with_reader accepts it and returns
\* the committed pair.
THEOREM RecoveryIsExact == Spec => []AlwaysRecoverable
<1>1. CheckpointInv => AlwaysRecoverable
  BY SoundResolves DEF CheckpointInv, TypeOK, AlwaysRecoverable
<1>. QED  BY <1>1, CheckpointInvariant, PTL

\* A checkpoint publication that returned Ok is never lost.
THEOREM AckedIsDurable == Spec => []AckedSurvives
<1>1. CheckpointInv => AckedSurvives
  BY DEF CheckpointInv
<1>. QED  BY <1>1, CheckpointInvariant, PTL

-----------------------------------------------------------------------------
(* Refinement of the atomic cell *)

\* Before the commit point a write changes no committed pair.
LEMMA CommitOnlyAtManifest ==
    ASSUME CheckpointInv, NEW outcome \in WriteOutcomes, PublishStep(outcome),
           phase # "manifest"
    PROVE  \E w, next : /\ Write(outcome, w, next)
                        /\ Committed(w) = Committed(disk)
                        /\ UNCHANGED acked
<1>. USE CheckpointAssumption
<1>0. /\ disk \in Disk /\ base \in Descriptor /\ target \in Descriptor
      /\ (phase # "idle" => base = Committed(disk))
  BY DEF CheckpointInv, TypeOK, PublisherAt
<1>1. CASE HealTask(outcome)
  <2>. DEFINE w == [disk EXCEPT !.tasks = base.tasks]
  <2>1. w.journal = disk.journal /\ w.manifest = disk.manifest
    BY <1>0 DEF Disk
  <2>2. disk.journal # Absent
    BY <1>1 DEF HealTask, CheckpointInv, PublisherAt, JournalComplete
  <2>3. Committed(w) = Committed(disk)
    BY <2>1, <2>2 DEF Committed
  <2>. QED  BY <1>1, <2>3 DEF HealTask
<1>2. CASE HealWatch(outcome)
  <2>. DEFINE w == [disk EXCEPT !.watches = base.watches]
  <2>1. w.journal = disk.journal /\ w.manifest = disk.manifest
    BY <1>0 DEF Disk
  <2>2. disk.journal # Absent
    BY <1>2 DEF HealWatch, CheckpointInv, PublisherAt, JournalComplete
  <2>3. Committed(w) = Committed(disk)
    BY <2>1, <2>2 DEF Committed
  <2>. QED  BY <1>2, <2>3 DEF HealWatch
<1>3. CASE WriteJournalTasks(outcome)
  <2>. DEFINE w == [disk EXCEPT !.journalTasks = base.tasks]
  <2>1. /\ w.tasks = disk.tasks /\ w.watches = disk.watches
        /\ w.journal = disk.journal /\ w.manifest = disk.manifest
    BY <1>0 DEF Disk
  <2>2. Committed(w) = Committed(disk)
    BY <2>1 DEF Committed, DescribeCanonical
  <2>. QED  BY <1>3, <2>2 DEF WriteJournalTasks
<1>4. CASE WriteJournalWatches(outcome)
  <2>. DEFINE w == [disk EXCEPT !.journalWatches = base.watches]
  <2>1. /\ w.tasks = disk.tasks /\ w.watches = disk.watches
        /\ w.journal = disk.journal /\ w.manifest = disk.manifest
    BY <1>0 DEF Disk
  <2>2. Committed(w) = Committed(disk)
    BY <2>1 DEF Committed, DescribeCanonical
  <2>. QED  BY <1>4, <2>2 DEF WriteJournalWatches
<1>5. CASE WriteJournal(outcome)
  <2>. DEFINE w == [disk EXCEPT !.journal = [base |-> base, target |-> target]]
  <2>1. /\ w.journal = [base |-> base, target |-> target]
        /\ w.manifest = disk.manifest
    BY <1>0 DEF Disk
  <2>2. w.journal # Absent /\ w.journal.base = base
    BY <1>0, <2>1
  <2>3. base = Committed(disk)
    BY <1>0, <1>5 DEF WriteJournal
  <2>4. Committed(w) = Committed(disk)
    BY <2>1, <2>2, <2>3 DEF Committed
  <2>. QED  BY <1>5, <2>4 DEF WriteJournal
<1>6. CASE WriteWatch(outcome)
  <2>. DEFINE w == [disk EXCEPT !.watches = target.watches]
  <2>1. w.journal = disk.journal /\ w.manifest = disk.manifest
    BY <1>0 DEF Disk
  <2>2. disk.journal # Absent
    BY <1>6 DEF WriteWatch, CheckpointInv, PublisherAt, JournalComplete
  <2>3. Committed(w) = Committed(disk)
    BY <2>1, <2>2 DEF Committed
  <2>. QED  BY <1>6, <2>3 DEF WriteWatch
<1>7. CASE WriteTask(outcome)
  <2>. DEFINE w == [disk EXCEPT !.tasks = target.tasks]
  <2>1. w.journal = disk.journal /\ w.manifest = disk.manifest
    BY <1>0 DEF Disk
  <2>2. disk.journal # Absent
    BY <1>7 DEF WriteTask, CheckpointInv, PublisherAt, JournalComplete
  <2>3. Committed(w) = Committed(disk)
    BY <2>1, <2>2 DEF Committed
  <2>. QED  BY <1>7, <2>3 DEF WriteTask
<1>. QED
  BY <1>1, <1>2, <1>3, <1>4, <1>5, <1>6, <1>7 DEF PublishStep, WriteManifest

\* Every step of the protocol is a step of the cell or leaves it alone.
LEMMA StepRefines ==
    ASSUME CheckpointInv, CheckpointInv', [Next]_vars
    PROVE  [Cell!Next]_<<Committed(disk),
                         {Committed(d) : d \in crashStates}, acked>>
<1>. DEFINE value == Committed(disk)
            survivors == {Committed(d) : d \in crashStates}
<1>0. disk \in crashStates
  BY DEF CheckpointInv
<1>v. value' = Committed(disk')
  BY DEF Committed
<1>s. survivors' = {Committed(d) : d \in crashStates'}
  BY DEF Committed
<1>1. CASE UNCHANGED <<disk, crashStates, acked>>
  BY <1>1, <1>v, <1>s
<1>2. ASSUME NEW outcome \in WriteOutcomes, PublishStep(outcome),
             phase # "manifest"
      PROVE  Cell!Settle \/ UNCHANGED <<value, survivors, acked>>
  <2>1. PICK w, next : /\ Write(outcome, w, next)
                       /\ Committed(w) = value
                       /\ UNCHANGED acked
    BY <1>2, CommitOnlyAtManifest
  <2>2. CASE outcome = "ok"
    <3>1. disk' = w /\ crashStates' = {w}
      BY <2>1, <2>2 DEF Write
    <3>2. value' = value /\ survivors' = {value}
      BY <1>v, <1>s, <2>1, <3>1
    <3>. QED  BY <2>1, <3>2 DEF Cell!Settle
  <2>3. CASE outcome = "unsynced"
    <3>1. disk' = w /\ crashStates' = crashStates \cup {w}
      BY <2>1, <2>3 DEF Write
    <3>2. value' = value /\ survivors' = survivors
      BY <1>0, <1>v, <1>s, <2>1, <3>1
    <3>. QED  BY <2>1, <3>2
  <2>4. CASE outcome = "failed"
    <3>1. disk' = disk /\ crashStates' = crashStates
      BY <2>1, <2>4 DEF Write
    <3>. QED  BY <1>v, <1>s, <2>1, <3>1
  <2>. QED  BY <2>2, <2>3, <2>4 DEF WriteOutcomes
<1>3. ASSUME NEW outcome \in WriteOutcomes, WriteManifest(outcome)
      PROVE  Cell!Publish \/ Cell!PublishUnsynced
                          \/ UNCHANGED <<value, survivors, acked>>
  <2>. DEFINE w == [disk EXCEPT !.manifest = target]
  <2>1. /\ Committed(w) = target /\ base = value
        /\ base \in Descriptor /\ target \in Descriptor
        /\ target.generation = base.generation + 1
        /\ target.revision >= base.revision
    BY <1>3, ManifestWritten DEF WriteManifest
  <2>2. CASE outcome = "ok"
    <3>1. disk' = w /\ crashStates' = {w} /\ acked' = target
      BY <1>3, <2>2 DEF WriteManifest, Write
    <3>2. value' = target /\ survivors' = {target}
      BY <1>v, <1>s, <2>1, <3>1
    <3>. QED  BY <2>1, <3>1, <3>2 DEF Cell!Publish, Cell!IsSuccessor
  <2>3. CASE outcome = "unsynced"
    <3>1. disk' = w /\ crashStates' = crashStates \cup {w} /\ acked' = acked
      BY <1>3, <2>3 DEF WriteManifest, Write
    <3>2. value' = target /\ survivors' = survivors \cup {target}
      BY <1>v, <1>s, <2>1, <3>1
    <3>. QED  BY <2>1, <3>1, <3>2 DEF Cell!PublishUnsynced, Cell!IsSuccessor
  <2>4. CASE outcome = "failed"
    <3>1. disk' = disk /\ crashStates' = crashStates /\ acked' = acked
      BY <1>3, <2>4 DEF WriteManifest, Write
    <3>. QED  BY <1>v, <1>s, <3>1
  <2>. QED  BY <2>2, <2>3, <2>4 DEF WriteOutcomes
<1>4. CASE Crash
  <2>1. PICK d \in crashStates : disk' = d /\ crashStates' = {d}
    BY <1>4 DEF Crash
  <2>2. value' = Committed(d) /\ survivors' = {Committed(d)} /\ acked' = acked
    BY <1>4, <1>v, <1>s, <2>1 DEF Crash
  <2>3. Committed(d) \in survivors
    BY <2>1
  <2>. QED  BY <2>2, <2>3 DEF Cell!Next, Cell!PowerFailure
<1>5. ASSUME NEW taskImage \in Images, NEW watchImage \in Images,
             NEW revision \in 0..MaxRevision,
             Begin(taskImage, watchImage, revision)
      PROVE  UNCHANGED <<disk, crashStates, acked>>
  BY <1>5 DEF Begin
<1>6. ASSUME NEW outcome \in WriteOutcomes, PublishStep(outcome),
             phase = "manifest"
      PROVE  WriteManifest(outcome)
  BY <1>6 DEF PublishStep, HealTask, HealWatch, WriteJournalTasks,
              WriteJournalWatches, WriteJournal, WriteWatch, WriteTask
<1>. QED
  BY <1>1, <1>2, <1>3, <1>4, <1>5, <1>6 DEF Next, vars, Cell!Next

\* The seven-file protocol implements a cell that is replaced atomically.
THEOREM ImplementsCell == Spec => CellSpec
<1>1. Init => Cell!Init
  <2>. SUFFICES ASSUME Init PROVE Cell!Init
    OBVIOUS
  <2>1. disk.manifest = Absent /\ disk.journal = Absent
    BY DEF Init
  <2>2. Committed(disk) = acked /\ crashStates = {disk}
    BY <2>1 DEF Init, Committed
  <2>3. acked \in Descriptor
    BY InitInv DEF CheckpointInv, TypeOK
  <2>. QED  BY <2>2, <2>3 DEF Cell!Init
<1>2. CheckpointInv /\ CheckpointInv' /\ [Next]_vars
        => [Cell!Next]_<<Committed(disk),
                         {Committed(d) : d \in crashStates}, acked>>
  BY StepRefines
<1>. QED
  BY <1>1, <1>2, CheckpointInvariant, PTL DEF Spec, CellSpec, Cell!Spec

=============================================================================
