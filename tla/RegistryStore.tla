--------------------------- MODULE RegistryStore ----------------------------
(***************************************************************************)
(* The durable task/watch registry as its single writer sees it            *)
(* (packet28-daemon-core, storage/registry_delta.rs): a committed          *)
(* checkpoint, which RegistryCheckpoint shows to be one atomic cell, and a *)
(* write-ahead log of delta frames above it.                               *)
(*                                                                         *)
(* The module has operators only.  A store is                              *)
(*   ckpt    the revision the committed checkpoint covers                  *)
(*   base    the revision in the header of the log                         *)
(*   frames  the complete frames, each a range of revisions                *)
(*   torn    whether an incomplete frame follows them                      *)
(* The content of a frame is abstracted to its range: the owner gives a    *)
(* revision to every delta once.  A log that does not exist yet is an      *)
(* empty log based at the checkpoint (initialize_anchored_registry_wal).   *)
(***************************************************************************)
EXTENDS Integers, Sequences

CONSTANT MaxFrames    \* frames that fit in MAX_REGISTRY_DELTA_WAL_BYTES

ASSUME MaxFramesAssumption == MaxFrames \in Nat \ {0}

RevisionRange == [first : Nat, last : Nat]

Stores == [ckpt : Nat, base : Nat, frames : Seq(RevisionRange), torn : BOOLEAN]

EmptyStore == [ckpt |-> 0, base |-> 0, frames |-> <<>>, torn |-> FALSE]

-----------------------------------------------------------------------------
(* Reading *)

WalTail(s) == IF s.frames = <<>> THEN s.base ELSE s.frames[Len(s.frames)].last

\* The last revision before frame i.
Before(s, i) == IF i = 1 THEN s.base ELSE s.frames[i - 1].last

\* scan_wal_with_policy and the visitor of replay_wal_with_policy: frames have
\* no gap, those at or below the checkpoint are skipped, the first one above it
\* continues it, and the log does not start above it.
Replayable(s) ==
    /\ \A i \in DOMAIN s.frames :
          /\ s.frames[i].first = Before(s, i) + 1
          /\ s.frames[i].last > s.ckpt =>
                s.frames[i].first =
                    (IF Before(s, i) <= s.ckpt THEN s.ckpt
                                               ELSE Before(s, i)) + 1
    /\ s.base <= s.ckpt

\* The revision that checkpoint and log replay to.
ReplayedRevision(s) == IF WalTail(s) < s.ckpt THEN s.ckpt ELSE WalTail(s)

\* A torn suffix is truncated and synchronized by the next load or append.
Repaired(s) == [s EXCEPT !.torn = FALSE]

-----------------------------------------------------------------------------
(* Writing.  An outcome is the store a reader then sees, the result the      *)
(* caller gets, whether it needs an I/O fault, and what a power failure may  *)
(* bring back: `residue', together with everything it could bring back       *)
(* before unless the operation synchronized (`synced').                      *)

Outcome(s, result, fault, synced, residue) ==
    [store |-> s, result |-> result, fault |-> fault, synced |-> synced,
     residue |-> residue]

WithFrame(s, batch) == [s EXCEPT !.frames = Append(@, batch)]

\* Fault: success is reported before the frame is synchronized.
FrameOutcomesUnsynced(log, batch) ==
    {Outcome(WithFrame(log, batch), "ok", FALSE, FALSE, {log}),
     Outcome(WithFrame(log, batch), "io", TRUE, FALSE, {log})}

\* One frame is written and synchronized.  An error may be reported in the
\* middle of the frame, or after all of it.
FrameOutcomes(log, batch) ==
    {Outcome(WithFrame(log, batch), "ok", FALSE, TRUE, {}),
     Outcome([log EXCEPT !.torn = TRUE], "io", TRUE, FALSE, {log}),
     Outcome(WithFrame(log, batch), "io", TRUE, FALSE,
             {log, [log EXCEPT !.torn = TRUE]})}

\* append_to_wal under the registry lock: an exact retry of the last frame is
\* only synchronized, a gap and a full log are refused.
AppendOutcomes(s, batch) ==
    LET log == Repaired(s) IN
    {Outcome(s, "io", TRUE, FALSE, {})} \cup
    IF log.frames # <<>> /\ batch = log.frames[Len(log.frames)]
    THEN {Outcome(log, "ok", FALSE, TRUE, {}),
          Outcome(log, "io", TRUE, FALSE, {})}
    ELSE IF batch.first # WalTail(log) + 1
    THEN {Outcome(log, "mismatch", FALSE, FALSE, {})}
    ELSE IF Len(log.frames) >= MaxFrames
    THEN {Outcome(log, "tooLarge", FALSE, FALSE, {})}
    ELSE FrameOutcomes(log, batch)

\* Fault: the log is reset before the checkpoint that replaces it is committed.
SaveOutcomesResetFirst(s, revision) ==
    LET loaded == Repaired(s)
        reset == [loaded EXCEPT !.base = revision, !.frames = <<>>]
        published == [reset EXCEPT !.ckpt = revision]
    IN {Outcome(s, "io", TRUE, FALSE, {})} \cup
       IF ~Replayable(loaded) \/ ReplayedRevision(loaded) # revision
       THEN {Outcome(loaded, "mismatch", FALSE, FALSE, {})}
       ELSE {Outcome(reset, "io", TRUE, TRUE, {}),
             Outcome(published, "io", TRUE, TRUE, {reset}),
             Outcome(published, "ok", FALSE, TRUE, {})}

\* save_task_watch_registry_checkpoint_at_revision_under_admission: reload,
\* refuse an image that is not the replayed one, commit the checkpoint, then
\* reset the log.  Either write may fail before or after it took effect.
SaveOutcomes(s, revision) ==
    LET loaded == Repaired(s)
        published == [loaded EXCEPT !.ckpt = revision]
        reset == [published EXCEPT !.base = revision, !.frames = <<>>]
    IN {Outcome(s, "io", TRUE, FALSE, {})} \cup
       IF ~Replayable(loaded) \/ ReplayedRevision(loaded) # revision
       THEN {Outcome(loaded, "mismatch", FALSE, FALSE, {})}
       ELSE {Outcome(published, "io", TRUE, FALSE, {}),
             Outcome(published, "io", TRUE, TRUE, {}),
             Outcome(reset, "io", TRUE, TRUE, {published}),
             Outcome(reset, "ok", FALSE, TRUE, {})}

\* What a power failure may leave after an outcome.
SurvivorsAfter(survivors, o) ==
    (IF o.synced THEN {} ELSE survivors) \cup o.residue \cup {o.store}

=============================================================================
