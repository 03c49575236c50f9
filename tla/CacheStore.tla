----------------------------- MODULE CacheStore -----------------------------
(***************************************************************************)
(* The files of the kernel cache and the processes that share them         *)
(* (context-memory-core: persist.rs, cache_file.rs and the coordination    *)
(* file of persistence_owner.rs): a primary checkpoint, its backup, a      *)
(* write-ahead log, checkpoints of older versions, and a generation that   *)
(* tells a process that its image of the files is stale.                   *)
(*                                                                         *)
(* A step is one write of a file, made by the process that holds the file  *)
(* lock.  A write returns Ok and is then on disk; or it fails, with or     *)
(* without a visible effect, and what a power failure leaves of it is      *)
(* open.  The threads of one process are the subject of CacheOwner.        *)
(***************************************************************************)
EXTENDS Naturals, Sequences, FiniteSets

CONSTANTS
    Procs,          \* processes that open the root
    Keys,           \* cache keys
    MaxValues,      \* bound on values committed
    Scenarios,      \* the root, who opens it, and bounds on what goes wrong
    None

ASSUME CacheStoreAssumption ==
    /\ IsFiniteSet(Procs) /\ IsFiniteSet(Keys)
    /\ MaxValues \in Nat
    /\ \A s \in Scenarios :
          /\ s.legacy \in BOOLEAN    \* the root holds a checkpoint of an older version
          /\ s.procs \subseteq Procs /\ s.keys \subseteq Keys
          /\ s.values \in 0..MaxValues
          /\ s.faults \in Nat        \* failed writes
          /\ s.kills \in Nat         \* processes killed
          /\ s.powers \in Nat        \* power failures
          /\ s.blinds \in Nat        \* loads that cannot read the log

VARIABLES
    disk,       \* the files as processes see them
    alts,       \* for each file, what a power failure may leave of it
    coord,      \* generation in the coordination file
    image,      \* the cache of each process's worker: map and persisted_sequence
    observed,   \* its observed_generation
    pend,       \* its pending deltas
    plan,       \* writes that the process has yet to make under the lock
    why,        \* what it makes them for: none, open, flush, checkpoint
    sent,       \* chunks of its flush that are in the log
    wrote,      \* it has written to the log since its last checkpoint
    promise,    \* ghost: the value of each key that a flush acknowledged
    maybe,      \* ghost: values handed to the files since then
    limits,     \* the scenario
    values, faults, kills, powers, blinds

files == <<disk, alts, coord>>
procs == <<image, observed, pend, plan, why, sent, wrote>>
ghosts == <<promise, maybe>>
bounds == <<values, faults, kills, powers, blinds>>
moves == <<files, procs, ghosts, bounds>>
vars == <<moves, limits>>

-----------------------------------------------------------------------------
(* Loading *)

\* 0 is an absent key, and the delta that removes it.
Empty == [k \in Keys |-> 0]

Image(n, map) == [seq |-> n, map |-> map]

Over(map, changes) == [k \in Keys |-> IF k \in DOMAIN changes THEN changes[k] ELSE map[k]]

\* The baseline that try_load_v3 or a legacy loader finds.
Baseline(d) ==
    CASE d.primary # None -> d.primary
      [] d.primary = None /\ d.backup # None -> d.backup
      [] OTHER -> IF d.legacy # None /\ d.wal.recs = <<>> /\ ~d.wal.torn
                  THEN Image(0, d.legacy) ELSE Image(0, Empty)

HasV3(d) == d.primary # None \/ d.backup # None

HasLegacy(d) == ~HasV3(d) /\ d.legacy # None /\ d.wal.recs = <<>> /\ ~d.wal.torn

\* replay_open_wal: records below the baseline are passed over, a gap ends it.
Replay(base, recs) ==
    LET At[i \in 0..Len(recs)] ==
            IF i = 0 THEN [gap |-> FALSE, img |-> base]
            ELSE LET before == At[i - 1]
                     r == recs[i]
                 IN  CASE before.gap \/ r.seq <= before.img.seq -> before
                       [] ~before.gap /\ r.seq = before.img.seq + 1 ->
                            [gap |-> FALSE, img |-> Image(r.seq, Over(before.img.map, r.changes))]
                       [] OTHER -> [before EXCEPT !.gap = TRUE]
    IN  At[Len(recs)]

Loaded(d) == Replay(Baseline(d), d.wal.recs)

Content(d) == Loaded(d).img

\* Fault: a torn log is never repaired.
RefusesTorn(d) == Loaded(d).gap \/ d.wal.torn

\* repair_torn_wal_tail refuses a log that does not continue the checkpoint, and a
\* torn one next to checkpoints that it cannot read.
Refuses(d) == Loaded(d).gap \/ (d.wal.torn /\ ~HasV3(d) /\ d.legacy # None)

-----------------------------------------------------------------------------
(* Writing *)

Fault == faults < limits.faults /\ faults' = faults + 1

\* What may be left of the files when file f has become new and its directory is
\* synced: the names that are seen now.
NamesSynced(f, new) ==
    [g \in DOMAIN disk |->
        CASE g = f -> {new}
          [] g = "wal" /\ f # "wal" -> {w \in alts.wal : w.made = disk.wal.made}
          [] OTHER -> {disk[g]}]

\* A write to file f that returns Ok is synced; one that fails may have left new,
\* what was there, or something partial, and none of it is synced.  A checkpoint is
\* renamed into place, and the directory is synced; for the log only the writer that
\* creates it syncs the directory.
Writes(f, new) ==
    /\ disk' = [disk EXCEPT ![f] = new]
    /\ alts' = IF f # "wal" \/ ~disk.wal.made THEN NamesSynced(f, new)
               ELSE [alts EXCEPT !.wal = {new} \cup {w \in @ : ~w.made}]
    /\ UNCHANGED faults

Fails(f, new, partial) ==
    /\ Fault
    /\ \E left \in {disk[f], new} \cup partial : disk' = [disk EXCEPT ![f] = left]
    /\ alts' = [alts EXCEPT ![f] = @ \cup {new} \cup partial]

\* A frame behind a torn one is not reached.
Appended(wal, r) ==
    IF wal.torn THEN wal ELSE [wal EXCEPT !.recs = Append(@, r), !.made = TRUE]

Torn(wal) == [wal EXCEPT !.torn = TRUE, !.made = TRUE]

EmptyWal == [recs |-> <<>>, torn |-> FALSE, made |-> TRUE]

NoWal == [EmptyWal EXCEPT !.made = FALSE]

-----------------------------------------------------------------------------
(* The file lock and the plans of its holder *)

Locked == \E p \in Procs : plan[p] # <<>>

Running(p) == image[p] # None

\* What open and a reload write before anything else.
RepairPlan(d) == IF d.wal.torn THEN <<"repair">> ELSE <<>>

OpenPlan(d) ==
    LET made == RepairPlan(d)
                \o IF HasLegacy(d) THEN <<"backup", "primary">>
                   ELSE IF ~HasV3(d) /\ d.legacy = None THEN <<"backup", "primary", "reset">> ELSE <<>>
    IN  made \o (IF made = <<>> THEN <<>> ELSE <<"advance">>) \o <<"opened">>

\* A load that could not read the log has the baseline only; the repair reads the
\* log again and finds nothing to repair.
Load(img) ==
    \/ img = Content(disk) /\ UNCHANGED blinds
    \/ /\ blinds < limits.blinds
       /\ blinds' = blinds + 1
       /\ img = Baseline(disk)

\* CachePersistence::open of a process: the lock, the load, then the writes.
Open(p) ==
    /\ ~Running(p) /\ ~Locked
    /\ ~Refuses(disk)
    /\ \E img \in {Content(disk), Baseline(disk)} :
          /\ Load(img)
          /\ image' = [image EXCEPT ![p] = img]
    /\ observed' = [observed EXCEPT ![p] = coord]
    /\ plan' = [plan EXCEPT ![p] = OpenPlan(disk)]
    /\ why' = [why EXCEPT ![p] = "open"]
    /\ UNCHANGED <<files, pend, sent, wrote, ghosts, values, faults, kills, powers>>

\* A change enters the dirty map of a process.
Mutate(p, k) ==
    /\ Running(p) /\ why[p] = "none"
    /\ values < limits.values
    /\ values' = values + 1
    /\ \E v \in {0, values + 1} : pend' = [pend EXCEPT ![p][k] = v]
    /\ UNCHANGED <<files, image, observed, plan, why, sent, wrote, ghosts, faults, kills, powers, blinds>>

Stale(p) == coord # observed[p]

\* Fault: the generation is advanced after the writes that it announces.
AnnouncedLast(writes) == writes \o <<"advance", "done">>

\* The generation is advanced before anything is written.
Announced(writes) == <<"advance">> \o writes \o <<"done">>

\* flush_dirty and checkpoint take the lock, reload the files if another process,
\* or a failed write of this one, changed them, and write.
Start(p, op, writes) ==
    /\ Running(p) /\ why[p] = "none" /\ ~Locked
    /\ IF Stale(p)
       THEN /\ ~Refuses(disk)
            /\ \E img \in {Content(disk), Baseline(disk)} :
                  Load(img) /\ image' = [image EXCEPT ![p] = img]
       ELSE UNCHANGED <<image, blinds>>
    /\ plan' = [plan EXCEPT ![p] =
                  (IF Stale(p) THEN RepairPlan(disk) ELSE <<>>) \o Announced(writes)]
    /\ why' = [why EXCEPT ![p] = op]
    /\ UNCHANGED <<files, observed, pend, sent, wrote, ghosts, values, faults, kills, powers>>

Pending(p) == {k \in Keys : pend[p][k] # None}

Flush(p) == Pending(p) # {} /\ Start(p, "flush", <<"append">>)

\* Fault: the log is emptied before the checkpoint that replaces it is written.
ResetFirst == <<"reset", "backup", "primary">>

\* Fault: the backup is not written.
NoBackup == <<"primary", "reset">>

CheckpointWrites == <<"backup", "primary", "reset">>

Checkpoint(p) == wrote[p] /\ Start(p, "checkpoint", CheckpointWrites)

Doing(p, step) == plan[p] # <<>> /\ plan[p][1] = step

\* Fault: the chunks of a failed flush count as sent.
GiveUpKeeping(p) ==
    /\ plan' = [plan EXCEPT ![p] = <<>>]
    /\ why' = [why EXCEPT ![p] = "none"]
    /\ image' = [image EXCEPT ![p] = IF why[p] = "open" THEN None ELSE @]
    /\ UNCHANGED sent

\* An error ends the operation: all deltas of a flush stay pending, and the
\* generation shows that the image is stale.  A failed open leaves no owner.
GiveUp(p) ==
    /\ plan' = [plan EXCEPT ![p] = <<>>]
    /\ why' = [why EXCEPT ![p] = "none"]
    /\ image' = [image EXCEPT ![p] = IF why[p] = "open" THEN None ELSE @]
    /\ sent' = [sent EXCEPT ![p] = <<>>]

Continue(p) ==
    /\ plan' = [plan EXCEPT ![p] = Tail(@)]
    /\ UNCHANGED <<image, why, sent>>

\* One write to file f by the holder of the lock.
WriteFile(p, f, new) ==
    /\ \/ Writes(f, new) /\ Continue(p)
       \/ Fails(f, new, {}) /\ GiveUp(p)
    /\ UNCHANGED <<coord, observed, pend, wrote, ghosts, values, kills, powers, blinds>>

Repair(p) == Doing(p, "repair") /\ WriteFile(p, "wal", [disk.wal EXCEPT !.torn = FALSE])

\* write_checkpoint: the backup first, then the primary.
WriteBackup(p) == Doing(p, "backup") /\ WriteFile(p, "backup", image[p])

WritePrimary(p) == Doing(p, "primary") /\ WriteFile(p, "primary", image[p])

ResetWal(p) == Doing(p, "reset") /\ WriteFile(p, "wal", EmptyWal)

\* advance_generation
Advance(p) ==
    /\ Doing(p, "advance")
    /\ \/ coord' = coord + 1 /\ Continue(p) /\ UNCHANGED faults
       \/ coord' \in {coord, coord + 1} /\ Fault /\ GiveUp(p)
    /\ UNCHANGED <<disk, alts, observed, pend, wrote, ghosts, values, kills, powers, blinds>>

Chunk(p, keys) == [k \in keys |-> pend[p][k]]

SentKeys(p) == UNION {DOMAIN sent[p][i] : i \in DOMAIN sent[p]}

\* append_wal_record for one chunk of the deltas that are not in the log yet.
AppendWal(p) ==
    /\ Doing(p, "append")
    /\ \E keys \in SUBSET (Pending(p) \ SentKeys(p)) \ {{}} :
          LET changes == Chunk(p, keys)
              new == Appended(disk.wal, [seq |-> image[p].seq + Len(sent[p]) + 1, changes |-> changes])
          IN  /\ maybe' = [k \in Keys |-> IF k \in keys THEN maybe[k] \cup {pend[p][k]} ELSE maybe[k]]
              /\ \/ /\ Writes("wal", new)
                    /\ sent' = [sent EXCEPT ![p] = Append(@, changes)]
                    /\ plan' = [plan EXCEPT ![p] =
                                  IF keys \cup SentKeys(p) = Pending(p) THEN Tail(@) ELSE @]
                    /\ UNCHANGED <<image, why>>
                 \/ Fails("wal", new, {Torn(disk.wal)}) /\ GiveUp(p)
    /\ UNCHANGED <<coord, observed, pend, wrote, promise, values, kills, powers, blinds>>

Unlocked(p) ==
    /\ plan' = [plan EXCEPT ![p] = <<>>]
    /\ why' = [why EXCEPT ![p] = "none"]
    /\ sent' = [sent EXCEPT ![p] = <<>>]
    /\ observed' = [observed EXCEPT ![p] = coord]
    /\ UNCHANGED <<files, values, faults, kills, powers, blinds>>

Opened(p) ==
    /\ Doing(p, "opened")
    /\ Unlocked(p)
    /\ UNCHANGED <<image, pend, wrote, ghosts>>

\* The flush is acknowledged and its chunks are applied to the image.
Flushed(p) ==
    /\ Doing(p, "done") /\ why[p] = "flush"
    /\ Unlocked(p)
    /\ image' = [image EXCEPT ![p] =
                   Image(@.seq + Len(sent[p]), Over(@.map, Chunk(p, Pending(p))))]
    /\ pend' = [pend EXCEPT ![p] = [k \in Keys |-> None]]
    /\ wrote' = [wrote EXCEPT ![p] = TRUE]
    /\ promise' = Over(promise, Chunk(p, Pending(p)))
    /\ maybe' = [k \in Keys |-> IF k \in Pending(p) THEN {} ELSE maybe[k]]

Checkpointed(p) ==
    /\ Doing(p, "done") /\ why[p] = "checkpoint"
    /\ Unlocked(p)
    /\ wrote' = [wrote EXCEPT ![p] = FALSE]
    /\ UNCHANGED <<image, pend, ghosts>>

\* A process ends: all of it is lost but the files.
Gone(dead) ==
    /\ image' = [p \in Procs |-> IF p \in dead THEN None ELSE image[p]]
    /\ pend' = [p \in Procs |-> IF p \in dead THEN [k \in Keys |-> None] ELSE pend[p]]
    /\ plan' = [p \in Procs |-> IF p \in dead THEN <<>> ELSE plan[p]]
    /\ why' = [p \in Procs |-> IF p \in dead THEN "none" ELSE why[p]]
    /\ sent' = [p \in Procs |-> IF p \in dead THEN <<>> ELSE sent[p]]
    /\ wrote' = [p \in Procs |-> IF p \in dead THEN FALSE ELSE wrote[p]]
    /\ UNCHANGED <<observed, coord, values, faults, blinds>>

\* An orderly shutdown has flushed and checkpointed.
Close(p) ==
    /\ Running(p) /\ why[p] = "none" /\ Pending(p) = {} /\ ~wrote[p]
    /\ Gone({p})
    /\ UNCHANGED <<disk, alts, ghosts, kills, powers>>

Kill(p) ==
    /\ Running(p) /\ kills < limits.kills
    /\ kills' = kills + 1
    /\ Gone({p})
    /\ UNCHANGED <<disk, alts, ghosts, powers>>

\* The machine stops; what it finds on disk is what is promised from then on.
Outcomes == [primary : alts.primary, backup : alts.backup, wal : alts.wal, legacy : alts.legacy]

PowerFailure ==
    /\ powers < limits.powers
    /\ powers' = powers + 1
    /\ disk' \in Outcomes
    /\ alts' = [f \in DOMAIN disk' |-> {disk'[f]}]
    /\ promise' = Content(disk').map
    /\ maybe' = [k \in Keys |-> {}]
    /\ Gone(Procs)
    /\ UNCHANGED kills

-----------------------------------------------------------------------------
\* A root that no process has opened, or one with a checkpoint of an older version.
Init ==
    /\ limits \in Scenarios
    /\ disk = [primary |-> None, backup |-> None, wal |-> NoWal,
               legacy |-> IF limits.legacy THEN [k \in Keys |-> 1] ELSE None]
    /\ alts = [f \in DOMAIN disk |-> {disk[f]}]
    /\ coord = 0
    /\ image = [p \in Procs |-> None]
    /\ observed = [p \in Procs |-> 0]
    /\ pend = [p \in Procs |-> [k \in Keys |-> None]]
    /\ plan = [p \in Procs |-> <<>>]
    /\ why = [p \in Procs |-> "none"]
    /\ sent = [p \in Procs |-> <<>>]
    /\ wrote = [p \in Procs |-> FALSE]
    /\ promise = Content(disk).map
    /\ maybe = [k \in Keys |-> {}]
    /\ values = 1 /\ faults = 0 /\ kills = 0 /\ powers = 0 /\ blinds = 0

\* The holder of the lock makes its next write.
Write(p) ==
    \/ Repair(p) \/ WriteBackup(p) \/ WritePrimary(p) \/ ResetWal(p) \/ Advance(p)
    \/ AppendWal(p) \/ Opened(p) \/ Flushed(p) \/ Checkpointed(p)

Next ==
    /\ \/ \E p \in limits.procs :
             \/ Open(p) \/ Flush(p) \/ Checkpoint(p) \/ Write(p) \/ Close(p) \/ Kill(p)
             \/ \E k \in limits.keys : Mutate(p, k)
       \/ PowerFailure
    /\ UNCHANGED limits

Spec == Init /\ [][Next]_vars

\* A worker makes the writes that it has begun, and a flush that waits for the file
\* lock gets it at last although other processes come and go.
FairSpec == Spec /\ \A p \in Procs : SF_moves(Flush(p)) /\ WF_moves(Write(p))

-----------------------------------------------------------------------------
(* Properties *)

Maps == [Keys -> 0..MaxValues]

Images == [seq : Nat, map : Maps]

\* Files, images and plans have their shape, and only a flush has chunks in the log.
TypeOK ==
    /\ disk.primary \in Images \cup {None} /\ disk.backup \in Images \cup {None}
    /\ disk.legacy \in Maps \cup {None} /\ {disk.wal.torn, disk.wal.made} \subseteq BOOLEAN
    /\ \A i \in DOMAIN disk.wal.recs : disk.wal.recs[i].seq \in Nat
    /\ \A f \in DOMAIN disk : disk[f] \in alts[f]
    /\ coord \in Nat /\ observed \in [Procs -> Nat]
    /\ image \in [Procs -> Images \cup {None}]
    /\ pend \in [Procs -> [Keys -> (0..MaxValues) \cup {None}]]
    /\ why \in [Procs -> {"none", "open", "flush", "checkpoint"}]
    /\ \A p \in Procs : (plan[p] # <<>> <=> why[p] # "none") /\ (sent[p] # <<>> => why[p] = "flush")
    /\ promise \in Maps

\* No load takes a log that it cannot read for an absent one.
Readable == limits.blinds = 0

\* The image of a process that may use it without reloading is what the files hold:
\* no write of another process and no half failed write of its own is missed.
ImageIsCurrent ==
    Readable => \A p \in Procs :
        (Running(p) /\ why[p] = "none" /\ ~Locked /\ ~Stale(p)) => image[p] = Content(disk)

\* The name of the log is durable: no writer failed between its creation and the sync
\* of the directory.
Named == \A w \in alts.wal : w.made = disk.wal.made

\* After a power failure at any point the root opens, and every key has the value
\* that the last acknowledged flush gave it, or one that a process has tried to
\* write since.
FlushedSurvives ==
    Readable /\ Named => \A d \in Outcomes :
        /\ ~Refuses(d)
        /\ \A k \in Keys : Content(d).map[k] \in {promise[k]} \cup maybe[k]

\* The backup with the log is as good as the primary with the log, also between the
\* writes of a checkpoint.
BackupAgrees ==
    (Readable /\ limits.powers = 0 /\ disk.primary # None /\ disk.backup # None) =>
        LET r == Replay(disk.backup, disk.wal.recs)
        IN  ~r.gap /\ r.img.map = Content(disk).map

\* Repair, promotion, bootstrap, checkpoint and log reset are invisible: what the
\* files hold changes only by a chunk that is appended, and as that chunk says.
MaintenanceIsInvisible ==
    [][Content(disk').map # Content(disk).map =>
         \/ ~Readable \/ powers' # powers
         \/ \E p \in Procs :
               /\ Doing(p, "append")
               /\ \E keys \in SUBSET Pending(p) :
                     Content(disk').map = Over(Content(disk).map, Chunk(p, keys))]_vars

\* Whatever failed before, the deltas of a process that lives reach the log.
FlushCompletes == \A p \in Procs : Pending(p) # {} ~> (Pending(p) = {} \/ ~Running(p))

\* The image in memory, the primary and the backup agree with the files, whoever
\* wrote last and wherever a write failed.
ImagesAgree == TypeOK /\ ImageIsCurrent /\ BackupAgrees
=============================================================================
