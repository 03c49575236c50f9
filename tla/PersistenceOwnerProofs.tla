----------------------- MODULE PersistenceOwnerProofs -----------------------
(***************************************************************************)
(* The persistence owner keeps its promises, for any number of threads,    *)
(* revisions, faults and power failures and any capacity of the log.       *)
(*                                                                         *)
(* Five invariants, each inductive given the ones before it:               *)
(*   OwnerInv    the batch in flight, the retry and the pending delta      *)
(*               partition the revisions above the durable one             *)
(*   DiskInv     every store that may survive a power failure fits the     *)
(*               owner: its log ends at the durable revision, or with      *)
(*               exactly the batch that the owner will retry               *)
(*   CallInv     the commands under way ask for revisions that were        *)
(*               staged, a shutdown for all of them after staging stopped  *)
(*   PromiseInv  what callers were told, and what the worker is about to   *)
(*               tell them, is durable; an admitted task is checkpointed   *)
(*   FlagInv     the rest of the types                                     *)
(***************************************************************************)
EXTENDS PersistenceOwner, TLAPS

-----------------------------------------------------------------------------
(* Nothing is lost.  NothingLost is not inductive alone: a step that appends *)
(* must know that there is a batch, one that takes a delta that it is not    *)
(* empty, a staged delta that the revisions are numbers, and a restart that  *)
(* what the disk holds is a store.                                           *)

QueueTypes ==
    /\ nextRevision \in Nat
    /\ durable \in Nat
    /\ pending \in RevisionRange \cup {None}
    /\ batch \in RevisionRange \cup {None}
    /\ retry \in RevisionRange \cup {None}

StoreTypes ==
    /\ store \in Stores
    /\ survivors \subseteq Stores

\* append_pending owns a batch exactly while it appends it.
BatchInFlight == wpc = "append" <=> batch # None

\* A pending delta holds at least one revision.
PendingNonEmpty == pending # None => pending.first <= pending.last

OwnerInv ==
    /\ QueueTypes
    /\ StoreTypes
    /\ BatchInFlight
    /\ PendingNonEmpty
    /\ NothingLost

\* What the invariant reads, apart from where the worker is.
queue == <<store, survivors, nextRevision, pending, batch, retry, durable>>

-----------------------------------------------------------------------------
(* The store *)

\* No batch is not a batch.
LEMMA NoneIsNoRange == None \notin RevisionRange
BY OwnerAssumption DEF RevisionRange

\* A daemon directory without a registry is a store.
LEMMA EmptyStoreType == EmptyStore \in Stores
BY DEF EmptyStore, Stores

\* The log of a store ends at a revision.
LEMMA WalTailType ==
    ASSUME NEW s \in Stores
    PROVE  WalTail(s) \in Nat
<1>1. CASE s.frames = <<>>
  BY <1>1 DEF WalTail, Stores
<1>2. CASE s.frames # <<>>
  <2>1. s.frames \in Seq(RevisionRange) /\ Len(s.frames) \in 1..Len(s.frames)
    BY <1>2 DEF Stores
  <2>2. s.frames[Len(s.frames)] \in RevisionRange
    BY <2>1
  <2>3. QED
    BY <1>2, <2>2 DEF WalTail, RevisionRange
<1>3. QED
  BY <1>1, <1>2

\* What replay computes from a store is a revision.
LEMMA ReplayedType ==
    ASSUME NEW s \in Stores
    PROVE  /\ Repaired(s) \in Stores
           /\ ReplayedRevision(s) \in Nat
<1>1. Repaired(s) \in Stores
  BY DEF Repaired, Stores
<1>2. WalTail(s) \in Nat
  BY WalTailType
<1>3. s.ckpt \in Nat
  BY DEF Stores
<1>4. QED
  BY <1>1, <1>2, <1>3 DEF ReplayedRevision

\* append_to_wal leaves a store, whatever its outcome.
LEMMA AppendType ==
    ASSUME NEW s \in Stores, NEW b \in RevisionRange,
           NEW o \in AppendOutcomes(s, b)
    PROVE  o.store \in Stores /\ o.residue \subseteq Stores
<1> DEFINE log == Repaired(s)
           torn == [log EXCEPT !.torn = TRUE]
<1>1. log \in Stores
  BY ReplayedType
<1>2. WithFrame(log, b) \in Stores
  <2> HIDE DEF log
  <2>1. log.frames \in Seq(RevisionRange)
    BY <1>1 DEF Stores
  <2>2. Append(log.frames, b) \in Seq(RevisionRange)
    BY <2>1
  <2>3. WithFrame(log, b) = [log EXCEPT !.frames = Append(log.frames, b)]
    BY <1>1 DEF WithFrame, Stores
  <2>4. QED
    BY <1>1, <2>2, <2>3 DEF Stores
<1>3. torn \in Stores
  BY <1>1 DEF Stores
<1> HIDE DEF log, torn
<1>4. \/ o.store \in {s, log} /\ o.residue = {}
      \/ o \in FrameOutcomes(log, b)
  BY DEF AppendOutcomes, Outcome, log
<1>5. o \in FrameOutcomes(log, b) =>
         /\ o.store \in {torn, WithFrame(log, b)}
         /\ o.residue \subseteq {log, torn}
  BY DEF FrameOutcomes, Outcome, torn
<1>6. QED
  BY <1>1, <1>2, <1>3, <1>4, <1>5

\* So does the checkpoint followed by the reset of the log.
LEMMA SaveType ==
    ASSUME NEW s \in Stores, NEW revision \in Nat,
           NEW o \in SaveOutcomes(s, revision)
    PROVE  o.store \in Stores /\ o.residue \subseteq Stores
<1> DEFINE loaded == Repaired(s)
           published == [loaded EXCEPT !.ckpt = revision]
           reset == [published EXCEPT !.base = revision, !.frames = <<>>]
<1>1. loaded \in Stores
  BY ReplayedType
<1>2. published \in Stores
  BY <1>1 DEF Stores
<1>3. reset \in Stores
  <2> HIDE DEF published
  <2>1. <<>> \in Seq(RevisionRange)
    OBVIOUS
  <2>2. QED
    BY <1>2, <2>1 DEF Stores
<1> HIDE DEF loaded, published, reset
<1>4. /\ o.store \in {s, loaded, published, reset}
      /\ o.residue \subseteq {published}
  BY DEF SaveOutcomes, Outcome, loaded, published, reset
<1>5. QED
  BY <1>1, <1>2, <1>3, <1>4

\* An operation on the store keeps the types of what is on the disk.
LEMMA DiskType ==
    ASSUME StoreTypes, NEW o, o.store \in Stores, o.residue \subseteq Stores,
           store' = o.store, survivors' = SurvivorsAfter(survivors, o)
    PROVE  StoreTypes'
BY DEF StoreTypes, SurvivorsAfter

-----------------------------------------------------------------------------
(* Steps *)

\* A step that leaves the queue alone and neither starts nor ends an append.
LEMMA Untouched ==
    ASSUME OwnerInv, UNCHANGED queue,
           wpc' = "append" <=> wpc = "append"
    PROVE  OwnerInv'
BY DEF OwnerInv, QueueTypes, StoreTypes, BatchInFlight, PendingNonEmpty,
       NothingLost, queue

\* append_pending has ended when its caller continues.
LEMMA AfterAppendIsNotAppend ==
    ASSUME NEW r, NEW any, NEW d
    PROVE  AfterAppend(r, any, d) \in {"reply", "save", "event"}
BY DEF AfterAppend

\* stage coalesces the new revision at the end of what is pending.
LEMMA StageLockedStep ==
    ASSUME OwnerInv, NEW t \in Threads, StageLocked(t)
    PROVE  OwnerInv'
<1>1. /\ nextRevision' = nextRevision + 1
      /\ pending' = IF pending = None
                    THEN [first |-> nextRevision + 1, last |-> nextRevision + 1]
                    ELSE [pending EXCEPT !.last = nextRevision + 1]
      /\ UNCHANGED <<store, survivors, wpc, batch, retry, durable>>
  BY DEF StageLocked, StageDelta, disk, worker
<1>2. pending' \in RevisionRange /\ pending'.last = nextRevision'
  BY <1>1 DEF OwnerInv, QueueTypes, RevisionRange
<1>3. pending # None => pending'.first = pending.first
  BY <1>1 DEF OwnerInv, QueueTypes, RevisionRange
<1>4. pending = None => pending'.first = nextRevision + 1
  BY <1>1
<1>5. pending' # None
  BY <1>2, NoneIsNoRange
<1>6. NothingLost'
  BY <1>1, <1>2, <1>3, <1>4, <1>5 DEF OwnerInv, NothingLost, QueueTypes
<1>7. PendingNonEmpty'
  BY <1>1, <1>2, <1>3, <1>4
     DEF OwnerInv, PendingNonEmpty, NothingLost, QueueTypes, RevisionRange
<1>8. QED
  BY <1>1, <1>2, <1>6, <1>7 DEF OwnerInv, QueueTypes, StoreTypes, BatchInFlight

\* The worker takes what it kept for a retry, else all that is pending.
LEMMA TakeBatchStep ==
    ASSUME OwnerInv, TakeBatch
    PROVE  OwnerInv'
<1>1. /\ wpc = "take"
      /\ wpc' = "append"
      /\ UNCHANGED <<store, survivors, nextRevision, durable>>
      /\ \/ /\ retry # None
            /\ batch' = retry /\ retry' = None /\ pending' = pending
         \/ /\ retry = None /\ pending # None
            /\ batch' = pending /\ pending' = None /\ retry' = retry
  BY DEF TakeBatch, disk
<1>2. batch = None
  BY <1>1 DEF OwnerInv, BatchInFlight
<1>3. QueueTypes' /\ StoreTypes' /\ BatchInFlight' /\ PendingNonEmpty'
  BY <1>1 DEF OwnerInv, QueueTypes, StoreTypes, BatchInFlight, PendingNonEmpty
<1>4. NothingLost'
  <2>1. CASE retry # None
    BY <1>1, <1>2, <2>1 DEF OwnerInv, NothingLost
  <2>2. CASE retry = None
    <3>1. pending.first = durable + 1 /\ pending.last = nextRevision
      BY <1>1, <1>2, <2>2 DEF OwnerInv, NothingLost
    <3>2. QED
      BY <1>1, <1>2, <2>2, <3>1
         DEF OwnerInv, NothingLost, PendingNonEmpty, QueueTypes
  <2>3. QED
    BY <2>1, <2>2
<1>5. QED
  BY <1>3, <1>4 DEF OwnerInv

\* The batch that the worker appends.
LEMMA Appending ==
    ASSUME OwnerInv, wpc = "append"
    PROVE  /\ batch \in RevisionRange
           /\ retry = None
           /\ \A o \in AppendDelta :
                 o.store \in Stores /\ o.residue \subseteq Stores
<1>1. batch \in RevisionRange /\ retry = None
  BY DEF OwnerInv, QueueTypes, BatchInFlight, NothingLost
<1>2. store \in Stores
  BY DEF OwnerInv, StoreTypes
<1>3. ASSUME NEW o \in AppendDelta
      PROVE  o.store \in Stores /\ o.residue \subseteq Stores
  <2>1. \/ o \in AppendOutcomes(store, batch)
        \/ o.store = store /\ o.residue = {}
    BY DEF AppendDelta, Outcome
  <2>2. QED
    BY <1>1, <1>2, <2>1, AppendType
<1>4. QED
  BY <1>1, <1>3

\* A batch that was appended ends at the durable revision: AppendSucceeds and
\* MaterializeFails.
LEMMA Appended ==
    ASSUME OwnerInv, wpc = "append", wpc' # "append", StoreTypes',
           durable' = batch.last, batch' = None,
           UNCHANGED <<nextRevision, pending, retry>>
    PROVE  OwnerInv'
<1>1. batch \in RevisionRange /\ retry = None /\ batch # None
  BY Appending, NoneIsNoRange
<1>2. batch.last \in Nat
  BY <1>1 DEF RevisionRange
<1>3. NothingLost'
  BY <1>1, <1>2 DEF OwnerInv, NothingLost
<1>4. QED
  BY <1>1, <1>2, <1>3
     DEF OwnerInv, QueueTypes, BatchInFlight, PendingNonEmpty

\* append_delta returned Ok.
LEMMA AppendSucceedsStep ==
    ASSUME OwnerInv, AppendSucceeds
    PROVE  OwnerInv'
<1>1. wpc = "append"
  BY DEF AppendSucceeds
<1>2. StoreTypes'
  <2>1. PICK o \in AppendDelta : Perform(o)
    BY DEF AppendSucceeds
  <2>2. o.store \in Stores /\ o.residue \subseteq Stores
    BY <1>1, <2>1, Appending
  <2>3. QED
    BY <2>1, <2>2, DiskType DEF Perform, OwnerInv
<1>3. wpc' # "append"
  <2>1. PICK a \in {"reply", "save", "event"} : a = AfterAppend("ok", TRUE, batch.last)
    BY AfterAppendIsNotAppend
  <2>2. wpc' \in {"take", a}
    BY <2>1 DEF AppendSucceeds
  <2>3. QED
    BY <2>2
<1>4. QED
  BY <1>1, <1>2, <1>3, Appended DEF AppendSucceeds, shared

\* append_delta returned Ok and the image rejected the batch.
LEMMA MaterializeFailsStep ==
    ASSUME OwnerInv, MaterializeFails
    PROVE  OwnerInv'
<1>1. wpc = "append"
  BY DEF MaterializeFails
<1>2. StoreTypes'
  <2>1. PICK o \in AppendDelta :
           store' = o.store /\ survivors' = SurvivorsAfter(survivors, o)
    BY DEF MaterializeFails
  <2>2. o.store \in Stores /\ o.residue \subseteq Stores
    BY <1>1, <2>1, Appending
  <2>3. QED
    BY <2>1, <2>2, DiskType DEF OwnerInv
<1>3. QED
  BY <1>1, <1>2, Appended DEF MaterializeFails

\* A batch that could not be appended is kept as it is.
LEMMA AppendFailsStep ==
    ASSUME OwnerInv, AppendFails
    PROVE  OwnerInv'
<1>1. /\ wpc = "append" /\ wpc' # "append"
      /\ retry' = batch /\ batch' = None
      /\ UNCHANGED <<nextRevision, pending, durable>>
  BY DEF AppendFails
<1>2. StoreTypes'
  <2>1. PICK o \in AppendDelta : Perform(o)
    BY DEF AppendFails
  <2>2. o.store \in Stores /\ o.residue \subseteq Stores
    BY <1>1, <2>1, Appending
  <2>3. QED
    BY <2>1, <2>2, DiskType DEF Perform, OwnerInv
<1>3. retry = None /\ batch # None
  BY <1>1, Appending, NoneIsNoRange
<1>4. NothingLost'
  BY <1>1, <1>3 DEF OwnerInv, NothingLost
<1>5. QED
  BY <1>1, <1>2, <1>4
     DEF OwnerInv, QueueTypes, BatchInFlight, PendingNonEmpty

\* A checkpoint changes the disk and nothing of the queue.
LEMMA SaveStep ==
    ASSUME OwnerInv, SaveForPressure \/ SaveImage
    PROVE  OwnerInv'
<1>1. /\ wpc # "append" /\ wpc' # "append"
      /\ UNCHANGED <<nextRevision, pending, batch, retry, durable>>
  BY DEF SaveForPressure, SaveImage
<1>2. StoreTypes'
  <2>1. PICK o \in SaveOutcomes(store, durable) : Perform(o)
    BY DEF SaveForPressure, SaveImage
  <2>2. o.store \in Stores /\ o.residue \subseteq Stores
    BY <2>1, SaveType DEF OwnerInv, QueueTypes, StoreTypes
  <2>3. QED
    BY <2>1, <2>2, DiskType DEF Perform, OwnerInv
<1>3. QED
  BY <1>1, <1>2
     DEF OwnerInv, QueueTypes, BatchInFlight, PendingNonEmpty, NothingLost

\* The other steps of the worker.
LEMMA WorkerControlStep ==
    ASSUME OwnerInv,
           \/ Recv \/ Cleanup \/ NothingToAppend \/ AppendEvent \/ Reply
           \/ HandlesDropped \/ DeadlineExpires
    PROVE  OwnerInv'
<1>1. UNCHANGED queue
  BY DEF Recv, Cleanup, NothingToAppend, AppendEvent, Reply, HandlesDropped,
         DeadlineExpires, queue, disk, shared
<1>2. wpc # "append" /\ wpc' # "append"
  BY AfterAppendIsNotAppend
     DEF Recv, Cleanup, NothingToAppend, AppendEvent, Reply, HandlesDropped,
         DeadlineExpires
<1>3. QED
  BY <1>1, <1>2, Untouched

\* The other steps of a thread.
LEMMA ThreadControlStep ==
    ASSUME OwnerInv, NEW t \in Threads,
           \/ StageRefused(t) \/ TryWake(t) \/ Send(t) \/ Disconnected(t)
           \/ ThreadChoice(t)
    PROVE  OwnerInv'
<1>1. UNCHANGED <<queue, wpc>>
  BY DEF StageRefused, TryWake, Send, Disconnected, ThreadChoice, StageBegin,
         BootNothingToStage, Proceed, CallStaged, CallIdle, Admit, CallRefused,
         queue, disk, shared, worker
<1>2. QED
  BY <1>1, Untouched

\* Shutdown only talks to the worker.
LEMMA ShutdownControlStep ==
    ASSUME OwnerInv, ShutdownStep \/ Terminated
    PROVE  OwnerInv'
<1>1. UNCHANGED <<queue, wpc>>
  BY DEF ShutdownStep, ShutdownBegin, ShutdownTarget, ShutdownSend,
         ShutdownTimeout, DropOwner, Terminated, vars, queue, disk, shared,
         worker
<1>2. QED
  BY <1>1, Untouched

\* A new owner has an empty queue at the revision that the disk replays to.
LEMMA RestartStep ==
    ASSUME OwnerInv, Restart
    PROVE  OwnerInv'
<1>1. PICK s \in survivors : Started(Repaired(s))
  BY DEF Restart
<1>2. Repaired(s) \in Stores
  BY <1>1, ReplayedType DEF OwnerInv, StoreTypes
<1>3. ReplayedRevision(Repaired(s)) \in Nat
  BY <1>2, ReplayedType
<1>4. /\ store' = Repaired(s) /\ survivors' = {Repaired(s)}
      /\ nextRevision' = ReplayedRevision(Repaired(s))
      /\ durable' = ReplayedRevision(Repaired(s))
      /\ pending' = None /\ batch' = None /\ retry' = None
      /\ wpc' = "recv"
  BY <1>1 DEF Started
<1>5. QED
  BY <1>2, <1>3, <1>4
     DEF OwnerInv, QueueTypes, StoreTypes, BatchInFlight, PendingNonEmpty,
         NothingLost

-----------------------------------------------------------------------------
(* The theorem *)

\* A new owner of an empty directory.
LEMMA OwnerInvInit == Init => OwnerInv
BY EmptyStoreType
   DEF Init, OwnerInv, QueueTypes, StoreTypes, BatchInFlight, PendingNonEmpty,
       NothingLost

\* One case per kind of step.
LEMMA OwnerInvStep == OwnerInv /\ [Next]_vars => OwnerInv'
<1> SUFFICES ASSUME OwnerInv, [Next]_vars
             PROVE  OwnerInv'
  OBVIOUS
<1>1. CASE WorkerStep
  BY <1>1, TakeBatchStep, AppendSucceedsStep, MaterializeFailsStep,
     AppendFailsStep, SaveStep, WorkerControlStep DEF WorkerStep
<1>2. CASE DeadlineExpires
  BY <1>2, WorkerControlStep
<1>3. ASSUME NEW t \in Threads, ThreadStep(t) \/ ThreadChoice(t)
      PROVE  OwnerInv'
  BY <1>3, StageLockedStep, ThreadControlStep DEF ThreadStep
<1>4. CASE ShutdownStep \/ Terminated
  BY <1>4, ShutdownControlStep
<1>5. CASE Restart
  BY <1>5, RestartStep
<1>6. CASE UNCHANGED vars
  <2>1. UNCHANGED <<queue, wpc>>
    BY <1>6 DEF vars, queue, disk, shared, worker
  <2>2. QED
    BY <2>1, Untouched
<1>7. QED
  BY <1>1, <1>2, <1>3, <1>4, <1>5, <1>6 DEF Next

\* stage, append_pending and start_with_backend: at every moment the revisions
\* above the durable one are in the batch in flight or kept for a retry, or in
\* the pending delta, each in exactly one of them.
THEOREM NothingIsLost == Spec => []NothingLost
<1>1. OwnerInv => NothingLost
  BY DEF OwnerInv
<1>2. QED
  BY <1>1, OwnerInvInit, OwnerInvStep, PTL DEF Spec

-----------------------------------------------------------------------------
(* The disk *)

\* The log of a store is contiguous, starts at or below the checkpoint, and no
\* frame straddles the checkpoint.
Sound(s) ==
    /\ s.base <= s.ckpt
    /\ \A i \in 1..Len(s.frames) :
          /\ s.frames[i].first = Before(s, i) + 1
          /\ s.frames[i].first <= s.frames[i].last
          /\ s.frames[i].last <= WalTail(s)
          /\ s.frames[i].last > s.ckpt => Before(s, i) >= s.ckpt

EndsWith(s, b) == s.frames # <<>> /\ s.frames[Len(s.frames)] = b

\* The batch that may be in the log although its append was not acknowledged.
held == IF batch # None THEN batch ELSE retry

\* A store fits an owner at revision d, whose checkpoint is c and which holds b,
\* when its log ends at d or with exactly the batch that the owner will retry.
Fits(s, b, d, c) ==
    /\ Sound(s)
    /\ c <= s.ckpt
    /\ s.ckpt <= d
    /\ WalTail(s) = d \/ (b # None /\ EndsWith(s, b))

DiskInv ==
    /\ checkpointed \in Nat
    /\ store \in survivors
    /\ \A s \in survivors : Fits(s, held, durable, checkpointed)
    /\ wpc = "pressure" => WalTail(store) = durable
    /\ wpc \in {"save", "event"} => retry = None
    /\ NoSelfDivergence

-----------------------------------------------------------------------------
(* The store *)

\* What a store says does not depend on a torn suffix.
LEMMA SameLog ==
    ASSUME NEW s, NEW r,
           r.ckpt = s.ckpt, r.base = s.base, r.frames = s.frames
    PROVE  /\ Sound(r) <=> Sound(s)
           /\ WalTail(r) = WalTail(s)
           /\ \A b : EndsWith(r, b) <=> EndsWith(s, b)
           /\ \A b, d, c : Fits(r, b, d, c) <=> Fits(s, b, d, c)
           /\ ReplayedRevision(r) = ReplayedRevision(s)
<1>1. WalTail(r) = WalTail(s) /\ \A i : Before(r, i) = Before(s, i)
  BY DEF WalTail, Before
<1>2. Sound(r) <=> Sound(s)
  BY <1>1 DEF Sound
<1>3. \A b : EndsWith(r, b) <=> EndsWith(s, b)
  BY DEF EndsWith
<1>4. ReplayedRevision(r) = ReplayedRevision(s)
  BY <1>1 DEF ReplayedRevision
<1>5. QED
  BY <1>1, <1>2, <1>3, <1>4 DEF Fits

\* The fields of a store, and that repairing or tearing the log keeps them.
LEMMA StoreFields ==
    ASSUME NEW s \in Stores
    PROVE  /\ s.ckpt \in Nat
           /\ s.base \in Nat
           /\ s.frames \in Seq(RevisionRange)
           /\ WalTail(s) \in Nat
           /\ \A x : /\ [s EXCEPT !.torn = x].ckpt = s.ckpt
                     /\ [s EXCEPT !.torn = x].base = s.base
                     /\ [s EXCEPT !.torn = x].frames = s.frames
BY WalTailType DEF Stores

\* A sound store replays, to the end of its log or to its checkpoint.
LEMMA SoundReplays ==
    ASSUME NEW s \in Stores, Sound(s)
    PROVE  Replayable(s)
<1>1. \A i \in 1..Len(s.frames) : Before(s, i) \in Nat
  <2>1. \A i \in 1..Len(s.frames) : s.frames[i] \in RevisionRange
    BY StoreFields
  <2>2. \A i \in 1..Len(s.frames) : i # 1 => i - 1 \in 1..Len(s.frames)
    BY StoreFields
  <2>3. QED
    BY <2>1, <2>2, StoreFields DEF Before, RevisionRange
<1>2. DOMAIN s.frames = 1..Len(s.frames)
  BY StoreFields
<1>3. QED
  BY <1>1, <1>2, StoreFields DEF Sound, Replayable

\* A store that fits is at least at the owner's revision, and at it exactly
\* when the log does not end with a batch that is held.
LEMMA FitsReplays ==
    ASSUME NEW s \in Stores, NEW b, NEW d \in Nat, NEW c \in Nat,
           Fits(s, b, d, c),
           b # None => /\ b \in RevisionRange
                       /\ b.first = d + 1
                       /\ b.last >= b.first
    PROVE  /\ Replayable(s)
           /\ ReplayedRevision(s) = WalTail(s)
           /\ d <= WalTail(s)
           /\ b = None => WalTail(s) = d
           /\ b # None => WalTail(s) \in {d, b.last}
<1>1. EndsWith(s, b) => WalTail(s) = b.last
  BY DEF EndsWith, WalTail
<1>2. d <= WalTail(s) /\ (b = None => WalTail(s) = d)
      /\ (b # None => WalTail(s) \in {d, b.last})
  BY <1>1, StoreFields DEF Fits, RevisionRange
<1>3. ReplayedRevision(s) = WalTail(s)
  BY <1>2, StoreFields DEF ReplayedRevision, Fits
<1>4. Replayable(s)
  BY SoundReplays DEF Fits
<1>5. QED
  BY <1>2, <1>3, <1>4

\* A frame that continues the log at the owner's revision.
LEMMA FrameFits ==
    ASSUME NEW s \in Stores, NEW b \in RevisionRange, NEW d \in Nat, NEW c \in Nat,
           Fits(s, b, d, c), b.first = d + 1, b.first <= b.last,
           b.first = WalTail(s) + 1
    PROVE  /\ Fits(WithFrame(s, b), b, d, c)
           /\ Fits(WithFrame(s, b), None, b.last, c)
<1> DEFINE f == WithFrame(s, b)
           n == Len(s.frames)
<1>0. s.frames \in Seq(RevisionRange) /\ n \in Nat
  BY StoreFields
<1>1. /\ f.ckpt = s.ckpt /\ f.base = s.base
      /\ f.frames = Append(s.frames, b)
  BY DEF WithFrame, Stores
<1>2. /\ Len(f.frames) = n + 1
      /\ f.frames[n + 1] = b
      /\ \A i \in 1..n : f.frames[i] = s.frames[i]
      /\ f.frames # <<>>
  BY <1>0, <1>1
<1> HIDE DEF f
<1>3. WalTail(f) = b.last /\ EndsWith(f, b)
  BY <1>2 DEF WalTail, EndsWith
<1>4. WalTail(s) = d /\ d < b.last /\ b.last \in Nat
  BY StoreFields DEF RevisionRange
<1>5. \A i \in 1..n : Before(f, i) = Before(s, i)
  <2>1. \A i \in 1..n : i # 1 => i - 1 \in 1..n
    BY <1>0
  <2>2. QED
    BY <1>1, <1>2, <2>1 DEF Before
<1>6. Before(f, n + 1) = WalTail(s)
  <2>1. CASE s.frames = <<>>
    BY <2>1, <1>1 DEF Before, WalTail
  <2>2. CASE s.frames # <<>>
    <3>1. n \in 1..n /\ n + 1 # 1 /\ (n + 1) - 1 = n
      BY <1>0, <2>2
    <3>2. QED
      BY <3>1, <2>2, <1>2 DEF Before, WalTail
  <2>3. QED
    BY <2>1, <2>2
<1>7. Sound(f)
  <2>1. f.base <= f.ckpt
    BY <1>1 DEF Fits, Sound
  <2>2. ASSUME NEW i \in 1..n
        PROVE  /\ f.frames[i].first = Before(f, i) + 1
               /\ f.frames[i].first <= f.frames[i].last
               /\ f.frames[i].last <= WalTail(f)
               /\ f.frames[i].last > f.ckpt => Before(f, i) >= f.ckpt
    <3>1. /\ s.frames[i] \in RevisionRange
          /\ s.frames[i].first = Before(s, i) + 1
          /\ s.frames[i].first <= s.frames[i].last
          /\ s.frames[i].last <= WalTail(s)
          /\ s.frames[i].last > s.ckpt => Before(s, i) >= s.ckpt
      BY <1>0 DEF Fits, Sound
    <3>2. f.frames[i] = s.frames[i] /\ Before(f, i) = Before(s, i)
      BY <1>2, <1>5
    <3>3. s.frames[i].last <= b.last
      BY <3>1, <1>4 DEF RevisionRange
    <3>4. QED
      BY <3>1, <3>2, <3>3, <1>1, <1>3
  <2>3. /\ f.frames[n + 1].first = Before(f, n + 1) + 1
        /\ f.frames[n + 1].first <= f.frames[n + 1].last
        /\ f.frames[n + 1].last <= WalTail(f)
        /\ f.frames[n + 1].last > f.ckpt => Before(f, n + 1) >= f.ckpt
    <3>1. s.ckpt <= WalTail(s)
      BY <1>4, StoreFields DEF Fits
    <3>2. QED
      BY <1>1, <1>2, <1>3, <1>4, <1>6, <3>1
  <2>4. \A i \in 1..(n + 1) : i \in 1..n \/ i = n + 1
    BY <1>0
  <2>5. QED
    BY <1>2, <2>1, <2>2, <2>3, <2>4 DEF Sound
<1>8. /\ c <= f.ckpt /\ f.ckpt <= d /\ f.ckpt <= b.last
  BY <1>1, <1>4, StoreFields DEF Fits
<1>9. b # None
  BY NoneIsNoRange
<1>10. QED
  BY <1>3, <1>7, <1>8, <1>9 DEF f, Fits

\* What an append of the batch b may leave: stores that fit, and after success
\* only one that has the batch.  A gap is never reported.
GoodAppend(o, b, d, c) ==
    /\ o.fault \in BOOLEAN
    /\ o.result \in {"ok", "io", "tooLarge"}
    /\ \A r \in o.residue \cup {o.store} : Fits(r, b, d, c)
    /\ o.result = "ok" => /\ o.synced = TRUE
                          /\ o.residue = {}
                          /\ Fits(o.store, None, b.last, c)
    /\ o.result = "tooLarge" => WalTail(o.store) = d

\* What a checkpoint of an owner at revision d may leave: stores that fit, and
\* after success only one, which the checkpoint covers.
GoodSave(o, b, d, c) ==
    /\ o.fault \in BOOLEAN
    /\ o.result \in {"ok", "io"}
    /\ \A r \in o.residue \cup {o.store} : Fits(r, b, d, c)
    /\ o.result = "ok" => /\ o.synced = TRUE
                          /\ o.residue = {}
                          /\ o.store.ckpt = d
                          /\ Fits(o.store, b, d, d)

\* append_to_wal of the batch that the owner holds: never refused as a gap,
\* every store it may leave fits, and after success only one that has the batch.
LEMMA AppendFits ==
    ASSUME NEW s \in Stores, NEW b \in RevisionRange, NEW d \in Nat, NEW c \in Nat,
           Fits(s, b, d, c), b.first = d + 1, b.first <= b.last,
           NEW o \in AppendOutcomes(s, b)
    PROVE  GoodAppend(o, b, d, c)
<1> USE DEF GoodAppend
<1> DEFINE log == Repaired(s)
           torn == [log EXCEPT !.torn = TRUE]
<1>1. log \in Stores /\ torn \in Stores
  BY ReplayedType DEF Stores
<1>2. /\ log.ckpt = s.ckpt /\ log.base = s.base /\ log.frames = s.frames
      /\ torn.ckpt = s.ckpt /\ torn.base = s.base /\ torn.frames = s.frames
  BY <1>1, StoreFields DEF Repaired, Stores
<1> HIDE DEF log, torn
<1>3. Fits(log, b, d, c) /\ Fits(torn, b, d, c) /\ WalTail(log) = WalTail(s)
  BY <1>2, SameLog
<1>4. EndsWith(log, b) => Fits(log, None, b.last, c)
  <2>1. EndsWith(log, b) => WalTail(log) = b.last
    BY DEF EndsWith, WalTail
  <2>2. log.ckpt <= d => log.ckpt <= b.last
    BY <1>1, StoreFields DEF RevisionRange
  <2>3. QED
    BY <1>3, <2>1, <2>2 DEF Fits
<1>5. CASE o = Outcome(s, "io", TRUE, FALSE, {})
  BY <1>5 DEF Outcome
<1>6. CASE /\ EndsWith(log, b)
           /\ o \in {Outcome(log, "ok", FALSE, TRUE, {}),
                     Outcome(log, "io", TRUE, FALSE, {})}
  <2>1. CASE o = Outcome(log, "ok", FALSE, TRUE, {})
    <3>1. /\ o.store = log /\ o.residue = {} /\ o.result = "ok"
          /\ o.fault = FALSE /\ o.synced = TRUE
      BY <2>1 DEF Outcome
    <3>2. QED
      BY <3>1, <1>6, <1>3, <1>4
  <2>2. CASE o = Outcome(log, "io", TRUE, FALSE, {})
    <3>1. /\ o.store = log /\ o.residue = {} /\ o.result = "io"
          /\ o.fault = TRUE /\ o.synced = FALSE
      BY <2>2 DEF Outcome
    <3>2. QED
      BY <3>1, <1>3
  <2>3. QED
    BY <1>6, <2>1, <2>2
<1>7. CASE ~EndsWith(log, b) /\ b.first # WalTail(log) + 1
  BY <1>7, <1>3 DEF Fits
<1>8. CASE /\ b.first = WalTail(log) + 1
           /\ o = Outcome(log, "tooLarge", FALSE, FALSE, {})
  <2>1. WalTail(log) = d
    BY <1>8, <1>1, StoreFields
  <2>2. QED
    BY <1>8, <2>1, <1>3 DEF Outcome
<1>9. CASE b.first = WalTail(log) + 1 /\ o \in FrameOutcomes(log, b)
  <2>1. /\ Fits(WithFrame(log, b), b, d, c)
        /\ Fits(WithFrame(log, b), None, b.last, c)
    BY <1>9, <1>1, <1>3, FrameFits
  <2>2. o \in {Outcome(WithFrame(log, b), "ok", FALSE, TRUE, {}),
               Outcome(torn, "io", TRUE, FALSE, {log}),
               Outcome(WithFrame(log, b), "io", TRUE, FALSE, {log, torn})}
    BY <1>9 DEF FrameOutcomes, torn
  <2>3. CASE o = Outcome(WithFrame(log, b), "ok", FALSE, TRUE, {})
    <3>1. /\ o.store = WithFrame(log, b) /\ o.residue = {} /\ o.result = "ok"
          /\ o.fault = FALSE /\ o.synced = TRUE
      BY <2>3 DEF Outcome
    <3>2. QED
      BY <3>1, <2>1
  <2>4. CASE o = Outcome(torn, "io", TRUE, FALSE, {log})
    <3>1. /\ o.store = torn /\ o.residue = {log} /\ o.result = "io"
          /\ o.fault = TRUE /\ o.synced = FALSE
      BY <2>4 DEF Outcome
    <3>2. QED
      BY <3>1, <1>3
  <2>5. CASE o = Outcome(WithFrame(log, b), "io", TRUE, FALSE, {log, torn})
    <3>1. /\ o.store = WithFrame(log, b) /\ o.residue = {log, torn} /\ o.result = "io"
          /\ o.fault = TRUE /\ o.synced = FALSE
      BY <2>5 DEF Outcome
    <3>2. QED
      BY <3>1, <2>1, <1>3
  <2>6. QED
    BY <2>2, <2>3, <2>4, <2>5
<1>10. QED
  BY <1>5, <1>6, <1>7, <1>8, <1>9 DEF AppendOutcomes, EndsWith, log

\* The checkpoint of an owner whose log ends at its revision: never refused as
\* a diverging image, every store it may leave fits, and success leaves only
\* one, which the checkpoint covers.
LEMMA SaveFits ==
    ASSUME NEW s \in Stores, NEW b, NEW d \in Nat, NEW c \in Nat,
           Fits(s, b, d, c), WalTail(s) = d,
           NEW o \in SaveOutcomes(s, d)
    PROVE  GoodSave(o, b, d, c)
<1> USE DEF GoodSave
<1> DEFINE loaded == Repaired(s)
           published == [loaded EXCEPT !.ckpt = d]
           reset == [published EXCEPT !.base = d, !.frames = <<>>]
<1>1. loaded \in Stores
  BY ReplayedType
<1>2. /\ loaded.ckpt = s.ckpt /\ loaded.base = s.base /\ loaded.frames = s.frames
      /\ published.ckpt = d /\ published.base = s.base
      /\ published.frames = s.frames
      /\ reset.ckpt = d /\ reset.base = d /\ reset.frames = <<>>
  BY <1>1 DEF Repaired, Stores
<1> HIDE DEF loaded, published, reset
<1>3. Sound(s) /\ c <= s.ckpt /\ s.ckpt <= d /\ c <= d
  BY StoreFields DEF Fits
<1>4. Replayable(loaded) /\ ReplayedRevision(loaded) = d
  <2>1. Sound(loaded) /\ WalTail(loaded) = d
    BY <1>2, <1>3, SameLog
  <2>2. QED
    BY <1>1, <1>2, <1>3, <2>1, SoundReplays, StoreFields DEF ReplayedRevision
<1>5. Fits(published, b, d, c)
  <2>1. WalTail(published) = d /\ \A i : Before(published, i) = Before(s, i)
    BY <1>2 DEF WalTail, Before
  <2>2. \A i \in 1..Len(s.frames) : ~(s.frames[i].last > d)
    <3>1. \A i \in 1..Len(s.frames) :
             s.frames[i] \in RevisionRange /\ s.frames[i].last <= d
      BY <1>3, StoreFields DEF Sound
    <3>2. QED
      BY <3>1 DEF RevisionRange
  <2>3. s.base <= d
    BY <1>3, StoreFields DEF Sound
  <2>4. Sound(published)
    BY <1>2, <1>3, <2>1, <2>2, <2>3 DEF Sound
  <2>5. QED
    BY <1>2, <1>3, <2>1, <2>4 DEF Fits
<1>6. Fits(reset, b, d, c) /\ Fits(reset, b, d, d)
  <2>1. WalTail(reset) = d /\ Sound(reset)
    BY <1>2 DEF WalTail, Sound
  <2>2. QED
    BY <1>2, <1>3, <2>1 DEF Fits
<1>7. o \in {Outcome(s, "io", TRUE, FALSE, {}),
             Outcome(published, "io", TRUE, FALSE, {}),
             Outcome(published, "io", TRUE, TRUE, {}),
             Outcome(reset, "io", TRUE, TRUE, {published}),
             Outcome(reset, "ok", FALSE, TRUE, {})}
  BY <1>4 DEF SaveOutcomes, loaded, published, reset
<1>8. CASE o = Outcome(s, "io", TRUE, FALSE, {})
  <2>1. /\ o.store = s /\ o.residue = {} /\ o.result = "io"
        /\ o.fault = TRUE /\ o.synced = FALSE
    BY <1>8 DEF Outcome
  <2>2. QED
    BY <2>1
<1>9. CASE \/ o = Outcome(published, "io", TRUE, FALSE, {})
           \/ o = Outcome(published, "io", TRUE, TRUE, {})
  <2>1. /\ o.store = published /\ o.residue = {} /\ o.result = "io"
        /\ o.fault = TRUE
    BY <1>9 DEF Outcome
  <2>2. QED
    BY <2>1, <1>5
<1>10. CASE o = Outcome(reset, "io", TRUE, TRUE, {published})
  <2>1. /\ o.store = reset /\ o.residue = {published} /\ o.result = "io"
        /\ o.fault = TRUE /\ o.synced = TRUE
    BY <1>10 DEF Outcome
  <2>2. QED
    BY <2>1, <1>5, <1>6
<1>11. CASE o = Outcome(reset, "ok", FALSE, TRUE, {})
  <2>1. /\ o.store = reset /\ o.residue = {} /\ o.result = "ok"
        /\ o.fault = FALSE /\ o.synced = TRUE
    BY <1>11 DEF Outcome
  <2>2. QED
    BY <2>1, <1>2, <1>6
<1>12. QED
  BY <1>7, <1>8, <1>9, <1>10, <1>11

-----------------------------------------------------------------------------
(* Steps on the disk *)

\* The batch that the owner holds starts after its durable revision.
LEMMA HeldShape ==
    ASSUME OwnerInv
    PROVE  /\ durable \in Nat
           /\ held # None => /\ held \in RevisionRange
                             /\ held.first = durable + 1
                             /\ held.last >= held.first
                             /\ held.last <= nextRevision
           /\ durable <= nextRevision
           /\ wpc = "append" => held = batch /\ batch # None
           /\ wpc # "append" => held = retry
<1>1. durable \in Nat /\ nextRevision \in Nat
  BY DEF OwnerInv, QueueTypes
<1>2. wpc = "append" => held = batch /\ batch # None
  BY DEF OwnerInv, BatchInFlight, held
<1>3. wpc # "append" => held = retry
  BY DEF OwnerInv, BatchInFlight, held
<1>4. held # None => /\ held \in RevisionRange
                     /\ held.first = durable + 1
                     /\ held.last >= held.first
  BY DEF OwnerInv, QueueTypes, NothingLost, held
<1>5. /\ held # None => held.last <= nextRevision
      /\ durable <= nextRevision
  <2> DEFINE heldLast == IF held = None THEN durable ELSE held.last
  <2>1. heldLast \in Nat /\ durable <= heldLast
    BY <1>1, <1>4 DEF RevisionRange
  <2>2. IF pending = None THEN heldLast = nextRevision
        ELSE pending.first = heldLast + 1 /\ pending.last = nextRevision
    BY DEF OwnerInv, NothingLost, held
  <2>3. heldLast <= nextRevision
    <3>1. CASE pending = None
      BY <2>1, <2>2, <3>1
    <3>2. CASE pending # None
      <4>1. pending \in RevisionRange /\ pending.first <= pending.last
        BY <3>2 DEF OwnerInv, QueueTypes, PendingNonEmpty
      <4>2. QED
        BY <2>1, <2>2, <3>2, <4>1, <1>1 DEF RevisionRange
    <3>3. QED
      BY <3>1, <3>2
  <2>4. QED
    BY <2>1, <2>3, <1>1
<1>6. QED
  BY <1>1, <1>2, <1>3, <1>4, <1>5

\* A step that neither writes to the disk nor moves a batch.
LEMMA DiskUntouched ==
    ASSUME DiskInv,
           UNCHANGED <<store, survivors, batch, retry, durable, checkpointed>>,
           wpc' = "pressure" => wpc = "pressure",
           wpc' \in {"save", "event"} => retry = None,
           result' # "mismatch"
    PROVE  DiskInv'
BY DEF DiskInv, NoSelfDivergence, Fits, held

\* What may be on the disk after an operation of the worker fits again when all
\* that the operation may leave does, and all that it did not overwrite.
LEMMA SurvivorsFit ==
    ASSUME NEW o, NEW b, NEW d, NEW c,
           \A r \in o.residue \cup {o.store} : Fits(r, b, d, c),
           o.synced = TRUE \/ \A s \in survivors : Fits(s, b, d, c)
    PROVE  /\ o.store \in SurvivorsAfter(survivors, o)
           /\ \A s \in SurvivorsAfter(survivors, o) : Fits(s, b, d, c)
<1>1. CASE o.synced = TRUE
  BY <1>1 DEF SurvivorsAfter
<1>2. CASE o.synced # TRUE
  BY <1>2 DEF SurvivorsAfter
<1>3. QED
  BY <1>1, <1>2

\* An append that succeeded: only stores with the batch survive.
LEMMA DiskAppended ==
    ASSUME OwnerInv, DiskInv, wpc = "append",
           NEW o \in AppendDelta, o.result = "ok",
           store' = o.store, survivors' = SurvivorsAfter(survivors, o),
           durable' = batch.last, batch' = None,
           UNCHANGED <<retry, checkpointed>>,
           wpc' # "pressure", result' # "mismatch"
    PROVE  DiskInv'
<1>1. /\ held = batch /\ batch \in RevisionRange /\ retry = None
      /\ batch.first = durable + 1 /\ batch.first <= batch.last
      /\ durable \in Nat
  BY HeldShape, Appending
<1>2. store \in Stores /\ checkpointed \in Nat
      /\ Fits(store, batch, durable, checkpointed)
  BY <1>1 DEF OwnerInv, StoreTypes, DiskInv
<1>3. o \in AppendOutcomes(store, batch)
  BY <1>1 DEF AppendDelta
<1>4. GoodAppend(o, batch, durable, checkpointed)
  BY <1>1, <1>2, <1>3, AppendFits
<1>5. /\ o.store \in survivors'
      /\ \A s \in survivors' : Fits(s, None, batch.last, checkpointed)
  BY <1>4 DEF SurvivorsAfter, GoodAppend
<1>6. held' = None
  BY <1>1 DEF held
<1>7. QED
  BY <1>1, <1>2, <1>5, <1>6 DEF DiskInv, NoSelfDivergence

\* An append that failed: the log may have grown by the batch that is kept.
LEMMA DiskAppendFails ==
    ASSUME OwnerInv, DiskInv, AppendFails
    PROVE  DiskInv'
<1>0. wpc = "append"
  BY DEF AppendFails
<1>1. /\ held = batch /\ batch \in RevisionRange /\ retry = None
      /\ batch.first = durable + 1 /\ batch.first <= batch.last
      /\ durable \in Nat
  BY <1>0, HeldShape, Appending
<1>2. store \in Stores /\ checkpointed \in Nat
      /\ Fits(store, batch, durable, checkpointed)
  BY <1>1 DEF OwnerInv, StoreTypes, DiskInv
<1>3. PICK o \in AppendDelta :
         /\ Perform(o)
         /\ IF o.result = "tooLarge" /\ durable > checkpointed
            THEN wpc' = "pressure" /\ UNCHANGED result
            ELSE wpc' = "reply" /\ result' = o.result
  BY DEF AppendFails
<1>4. o \in AppendOutcomes(store, batch)
  BY <1>1 DEF AppendDelta
<1>5. GoodAppend(o, batch, durable, checkpointed)
  BY <1>1, <1>2, <1>4, AppendFits
<1>6. \A s \in survivors : Fits(s, batch, durable, checkpointed)
  BY <1>1 DEF DiskInv
<1>7. /\ store' \in survivors'
      /\ \A s \in survivors' : Fits(s, batch, durable, checkpointed)
  <2>1. \A r \in o.residue \cup {o.store} : Fits(r, batch, durable, checkpointed)
    BY <1>5 DEF GoodAppend
  <2>2. QED
    BY <2>1, <1>3, <1>6, SurvivorsFit DEF Perform
<1>8. /\ held' = batch /\ durable' = durable /\ checkpointed' = checkpointed
  BY <1>1 DEF held, AppendFails
<1>9. wpc' = "pressure" => WalTail(store') = durable
  BY <1>3, <1>5 DEF Perform, GoodAppend
<1>10. result' # "mismatch" /\ wpc' \in {"pressure", "reply"}
  BY <1>3, <1>5 DEF GoodAppend, DiskInv, NoSelfDivergence
<1>11. QED
  BY <1>2, <1>7, <1>8, <1>9, <1>10 DEF DiskInv, NoSelfDivergence

\* A checkpoint, explicit or to make room in a full log.
LEMMA DiskSaves ==
    ASSUME OwnerInv, DiskInv, SaveForPressure \/ SaveImage
    PROVE  DiskInv'
<1>1. /\ wpc \in {"pressure", "save"} /\ UNCHANGED <<batch, retry, durable>>
      /\ wpc' \in {"take", "event", "reply"} /\ (wpc = "pressure" => wpc' # "event")
  BY DEF SaveForPressure, SaveImage
<1>2. /\ store \in Stores /\ durable \in Nat /\ checkpointed \in Nat
      /\ \A s \in survivors : Fits(s, held, durable, checkpointed)
      /\ store \in survivors /\ held' = held
  BY <1>1 DEF OwnerInv, StoreTypes, QueueTypes, DiskInv, held
<1>3. WalTail(store) = durable
  <2>1. CASE wpc = "pressure"
    BY <2>1 DEF DiskInv
  <2>2. CASE wpc = "save"
    <3>1. held = None
      BY <2>2, HeldShape DEF DiskInv
    <3>2. Fits(store, None, durable, checkpointed)
      BY <3>1, <1>2
    <3>3. QED
      BY <3>2 DEF Fits
  <2>3. QED
    BY <1>1, <2>1, <2>2
<1>4. PICK o \in SaveOutcomes(store, durable) :
         /\ Perform(o)
         /\ IF o.result = "ok" THEN checkpointed' = durable
            ELSE checkpointed' = checkpointed
         /\ result' \in {o.result, result}
  BY DEF SaveForPressure, SaveImage, CheckpointSaved
<1>5. GoodSave(o, held, durable, checkpointed)
  BY <1>2, <1>3, SaveFits
<1>6. /\ store' \in survivors'
      /\ \A s \in survivors' : Fits(s, held, durable, checkpointed')
  <2>1. CASE o.result = "ok"
    BY <2>1, <1>4, <1>5 DEF Perform, SurvivorsAfter, GoodSave
  <2>2. CASE o.result # "ok"
    <3>1. checkpointed' = checkpointed
      BY <2>2, <1>4
    <3>2. \A r \in o.residue \cup {o.store} : Fits(r, held, durable, checkpointed)
      BY <1>5 DEF GoodSave
    <3>3. QED
      BY <3>1, <3>2, <1>2, <1>4, SurvivorsFit DEF Perform
  <2>3. QED
    BY <2>1, <2>2
<1>7. wpc' \in {"save", "event"} => retry' = None
  BY <1>1 DEF DiskInv
<1>8. checkpointed' \in Nat /\ result' # "mismatch"
  BY <1>2, <1>4, <1>5 DEF GoodSave, DiskInv, NoSelfDivergence
<1>9. QED
  BY <1>1, <1>2, <1>6, <1>7, <1>8 DEF DiskInv, NoSelfDivergence

\* Taking a batch does not change which logs fit: a retry is the batch that was
\* held, and without one every log ends at the durable revision.
LEMMA DiskTakes ==
    ASSUME OwnerInv, DiskInv, TakeBatch
    PROVE  DiskInv'
<1>1. /\ wpc = "take" /\ wpc' = "append" /\ result' = result
      /\ UNCHANGED <<store, survivors, durable, checkpointed>>
      /\ \/ retry # None /\ batch' = retry /\ retry' = None
         \/ retry = None /\ batch' = pending /\ retry' = retry
  BY DEF TakeBatch, disk
<1>2. held = retry
  BY <1>1, HeldShape
<1>3. \A s \in survivors : Fits(s, held', durable, checkpointed)
  <2>1. CASE retry # None
    BY <2>1, <1>1, <1>2 DEF held, DiskInv
  <2>2. CASE retry = None
    BY <2>2, <1>2 DEF DiskInv, Fits
  <2>3. QED
    BY <2>1, <2>2
<1>4. QED
  BY <1>1, <1>3 DEF DiskInv, NoSelfDivergence

\* What the owner starts from is the end of the log it found.
LEMMA RestartFits ==
    ASSUME OwnerInv, DiskInv, NEW s \in survivors
    PROVE  /\ s \in Stores /\ Repaired(s) \in Stores
           /\ Replayable(Repaired(s))
           /\ ReplayedRevision(Repaired(s)) = WalTail(s)
           /\ ReplayedRevision(s) = WalTail(s)
           /\ Repaired(s).ckpt = s.ckpt
           /\ WalTail(s) \in Nat /\ durable <= WalTail(s)
           /\ WalTail(s) <= nextRevision
           /\ s.ckpt \in Nat /\ checkpointed <= s.ckpt /\ s.ckpt <= durable
           /\ Fits(Repaired(s), None, WalTail(s), s.ckpt)
<1>1. s \in Stores /\ Fits(s, held, durable, checkpointed)
      /\ durable \in Nat /\ checkpointed \in Nat
  BY DEF OwnerInv, StoreTypes, QueueTypes, DiskInv
<1>2. Repaired(s) \in Stores
  BY <1>1, ReplayedType
<1>3. /\ Repaired(s).ckpt = s.ckpt /\ Repaired(s).base = s.base
      /\ Repaired(s).frames = s.frames
  BY <1>1, StoreFields DEF Repaired
<1>4. /\ WalTail(Repaired(s)) = WalTail(s)
      /\ Fits(Repaired(s), held, durable, checkpointed)
      /\ ReplayedRevision(Repaired(s)) = ReplayedRevision(s)
  BY <1>1, <1>3, SameLog
<1>5. /\ Replayable(Repaired(s))
      /\ ReplayedRevision(Repaired(s)) = WalTail(s)
      /\ durable <= WalTail(s)
      /\ held = None => WalTail(s) = durable
      /\ held # None => WalTail(s) \in {durable, held.last}
  BY <1>1, <1>2, <1>4, HeldShape, FitsReplays
<1>6. WalTail(s) <= nextRevision
  BY <1>5, HeldShape
<1>7. /\ s.ckpt \in Nat /\ WalTail(s) \in Nat
      /\ checkpointed <= s.ckpt /\ s.ckpt <= durable
  BY <1>1, StoreFields DEF Fits
<1>8. s.ckpt <= WalTail(s)
  BY <1>1, <1>5, <1>7
<1>9. Fits(Repaired(s), None, WalTail(s), s.ckpt)
  BY <1>3, <1>4, <1>7, <1>8 DEF Fits
<1>10. QED
  BY <1>1, <1>2, <1>3, <1>4, <1>5, <1>6, <1>7, <1>9

\* A new owner.
LEMMA DiskRestarts ==
    ASSUME OwnerInv, DiskInv, Restart
    PROVE  DiskInv'
<1>1. PICK s \in survivors : Started(Repaired(s))
  BY DEF Restart
<1>2. /\ store' = Repaired(s) /\ survivors' = {Repaired(s)}
      /\ batch' = None /\ retry' = None
      /\ durable' = ReplayedRevision(Repaired(s))
      /\ checkpointed' = Repaired(s).ckpt
      /\ wpc' = "recv" /\ result' = "ok"
  BY <1>1 DEF Started
<1>3. held' = None
  BY <1>2 DEF held
<1>4. /\ ReplayedRevision(Repaired(s)) = WalTail(s)
      /\ Repaired(s).ckpt = s.ckpt /\ s.ckpt \in Nat
      /\ Fits(Repaired(s), None, WalTail(s), s.ckpt)
  BY RestartFits
<1>5. QED
  BY <1>2, <1>3, <1>4 DEF DiskInv, NoSelfDivergence

\* The other steps.
LEMMA DiskControl ==
    ASSUME OwnerInv, DiskInv,
           \/ Recv \/ Cleanup \/ NothingToAppend \/ AppendEvent \/ Reply
           \/ HandlesDropped \/ DeadlineExpires \/ ShutdownStep \/ Terminated
           \/ UNCHANGED vars
           \/ \E t \in Threads : ThreadStep(t) \/ ThreadChoice(t)
    PROVE  DiskInv'
<1>1. CASE \/ Recv \/ Cleanup \/ NothingToAppend \/ AppendEvent \/ Reply
           \/ HandlesDropped \/ DeadlineExpires
  <2>1. UNCHANGED <<store, survivors, batch, retry, durable, checkpointed>>
    BY <1>1 DEF Recv, Cleanup, NothingToAppend, AppendEvent, Reply,
                HandlesDropped, DeadlineExpires, disk
  <2>2. wpc' # "pressure" /\ result' # "mismatch"
    BY <1>1, AfterAppendIsNotAppend
       DEF Recv, Cleanup, NothingToAppend, AppendEvent, Reply, HandlesDropped,
           DeadlineExpires, DiskInv, NoSelfDivergence
  <2>3. wpc' \in {"save", "event"} => retry = None
    BY <1>1 DEF Recv, Cleanup, NothingToAppend, AppendEvent, Reply,
                HandlesDropped, DeadlineExpires
  <2>4. QED
    BY <2>1, <2>2, <2>3, DiskUntouched
<1>2. CASE \/ ShutdownStep \/ Terminated \/ UNCHANGED vars
           \/ \E t \in Threads : ThreadStep(t) \/ ThreadChoice(t)
  <2>1. UNCHANGED <<store, survivors, batch, retry, durable, checkpointed, wpc,
                    result>>
    BY <1>2 DEF ShutdownStep, ShutdownBegin, ShutdownTarget, ShutdownSend,
         ShutdownTimeout, DropOwner, Terminated, vars, disk, shared, worker,
         ThreadStep, StageLocked, StageDelta, StageRefused, TryWake, Send,
         Disconnected, ThreadChoice, StageBegin, BootNothingToStage, Proceed,
         CallStaged, CallIdle, Admit, CallRefused
  <2>2. QED
    BY <2>1, DiskUntouched DEF DiskInv, NoSelfDivergence
<1>3. QED
  BY <1>1, <1>2

\* A new owner of an empty directory.
LEMMA DiskInvInit == Init => DiskInv
<1> SUFFICES ASSUME Init PROVE DiskInv
  OBVIOUS
<1>1. /\ store = EmptyStore /\ survivors = {EmptyStore}
      /\ batch = None /\ retry = None /\ durable = 0 /\ checkpointed = 0
      /\ wpc = "recv" /\ result = "ok"
  BY DEF Init
<1>2. Fits(EmptyStore, None, 0, 0)
  BY DEF Fits, Sound, WalTail, EmptyStore
<1>3. QED
  BY <1>1, <1>2 DEF DiskInv, NoSelfDivergence, held

\* One case per kind of step.
LEMMA DiskInvStep == OwnerInv /\ DiskInv /\ [Next]_vars => DiskInv'
<1> SUFFICES ASSUME OwnerInv, DiskInv, [Next]_vars
             PROVE  DiskInv'
  OBVIOUS
<1>1. CASE AppendSucceeds
  <2>1. PICK o \in AppendDelta : o.result = "ok" /\ Perform(o)
    BY <1>1 DEF AppendSucceeds
  <2>2. wpc' # "pressure" /\ result' # "mismatch"
    <3>1. PICK a \in {"reply", "save", "event"} : a = AfterAppend("ok", TRUE, batch.last)
      BY AfterAppendIsNotAppend
    <3>2. wpc' \in {"take", a} /\ result' \in {result, "ok"}
      BY <1>1, <3>1 DEF AppendSucceeds
    <3>3. result # "mismatch"
      BY DEF DiskInv, NoSelfDivergence
    <3>4. QED
      BY <3>2, <3>3
  <2>3. /\ wpc = "append" /\ durable' = batch.last /\ batch' = None
        /\ UNCHANGED <<retry, checkpointed>>
    BY <1>1 DEF AppendSucceeds
  <2>4. QED
    BY <2>1, <2>2, <2>3, DiskAppended DEF Perform
<1>2. CASE MaterializeFails
  <2>1. PICK o \in AppendDelta :
           /\ o.result = "ok"
           /\ store' = o.store /\ survivors' = SurvivorsAfter(survivors, o)
    BY <1>2 DEF MaterializeFails
  <2>2. /\ wpc = "append" /\ durable' = batch.last /\ batch' = None
        /\ UNCHANGED <<retry, checkpointed>>
        /\ wpc' = "reply" /\ result' = "fatal"
    BY <1>2 DEF MaterializeFails
  <2>3. QED
    BY <2>1, <2>2, DiskAppended
<1>3. QED
  BY <1>1, <1>2, DiskAppendFails, DiskSaves, DiskTakes, DiskRestarts,
     DiskControl DEF Next, WorkerStep

\* append_delta, save_current_image and start_with_backend never meet a log
\* that they would refuse: after any fault, retry or power failure the log ends
\* at the owner's revision or with exactly the batch that it will retry.
THEOREM OwnerAgreesWithItsLog == Spec => []NoSelfDivergence
<1>1. DiskInv => NoSelfDivergence
  BY DEF DiskInv
<1>2. QED
  BY <1>1, OwnerInvInit, OwnerInvStep, DiskInvInit, DiskInvStep, PTL DEF Spec

-----------------------------------------------------------------------------
(* The commands under way *)

\* A command that was made while the owner was at revision n: what it requires
\* was staged, background work requires nothing, and a shutdown was requested
\* after the owner stopped accepting, for everything that was staged.
Legit(c, n, a) ==
    /\ c \in Commands
    /\ c.target <= n
    /\ c.kind \in {"Wake", "Deadline", "Cleanup"} => c.target = -1
    /\ c.kind = "Shutdown" => a = FALSE /\ c.target = n /\ c.sender = None

ChannelOK(q, n, a) ==
    /\ q \in Seq(Commands)
    /\ Len(q) <= COMMAND_CAPACITY
    /\ \A i \in 1..Len(q) : Legit(q[i], n, a)

ThreadStates == {"idle", "staging", "waking", "staged", "sending", "waiting"}

WorkerStates == {"recv", "cleanup", "take", "append", "pressure", "save",
                 "event", "reply", "stopped"}

BootStates == {"stage", "flush", "checkpoint", "ready", "failed"}

ShutdownStates == {"running", "closing", "sending", "waiting", "done", "detached"}

WorkerOK ==
    /\ nextRevision \in 0..MaxRevision
    /\ accepting \in BOOLEAN
    /\ wpc \in WorkerStates
    /\ ChannelOK(channel, nextRevision, accepting)
    /\ command = None \/ Legit(command, nextRevision, accepting)
    /\ wpc \notin {"recv", "stopped"} => Legit(command, nextRevision, accepting)

ThreadsOK ==
    /\ tpc \in [Threads -> ThreadStates]
    /\ trev \in [Threads -> 0..nextRevision]
    /\ request \in [Threads -> Commands \cup {None}]
    /\ \A t \in Threads :
          request[t] # None \/ tpc[t] = "sending" =>
             Legit(request[t], nextRevision, accepting)
    /\ admissionLane \in Threads \cup {None}
    /\ boot \in BootStates

ShutdownOK ==
    /\ shutdown \in [pc : ShutdownStates, target : 0..MaxRevision]
    /\ shutdown.pc \in {"sending", "waiting"} => shutdown.target = nextRevision
    /\ shutdown.pc # "running" => accepting = FALSE

CallInv == WorkerOK /\ ThreadsOK /\ ShutdownOK

\* The revision counter and the flag: staging needs the flag, nothing sets it.
Goes(n, a, m, e) ==
    \/ m = n /\ e = a
    \/ m = n /\ e = FALSE
    \/ a = TRUE /\ e = a /\ m = n + 1 /\ m \in 0..MaxRevision

\* A command stays what it was.
LEMMA LegitKept ==
    ASSUME NEW c, NEW n \in 0..MaxRevision, NEW a \in BOOLEAN, NEW m, NEW e,
           Goes(n, a, m, e), Legit(c, n, a)
    PROVE  Legit(c, m, e)
<1>1. MaxRevision \in Nat /\ n \in Nat
  BY OwnerAssumption
<1>2. c.target \in -1..MaxRevision /\ c.kind \in Kinds
  BY DEF Legit, Commands
<1>3. CASE m = n /\ e = a
  BY <1>3
<1>4. CASE m = n /\ e = FALSE
  BY <1>4 DEF Legit
<1>5. CASE a = TRUE /\ m = n + 1
  <2>1. c.kind # "Shutdown"
    BY <1>5 DEF Legit
  <2>2. c.target <= m
    BY <1>1, <1>2, <1>5 DEF Legit
  <2>3. QED
    BY <2>1, <2>2 DEF Legit
<1>6. QED
  BY <1>3, <1>4, <1>5 DEF Goes

\* So do the commands in the channel.
LEMMA ChannelKept ==
    ASSUME NEW q, NEW n \in 0..MaxRevision, NEW a \in BOOLEAN, NEW m, NEW e,
           Goes(n, a, m, e), ChannelOK(q, n, a)
    PROVE  ChannelOK(q, m, e)
BY LegitKept DEF ChannelOK

\* A command is sent.
LEMMA Sent ==
    ASSUME NEW q, NEW n, NEW a, NEW c, ChannelOK(q, n, a), Legit(c, n, a),
           ~(Len(q) >= COMMAND_CAPACITY)
    PROVE  ChannelOK(Append(q, c), n, a)
<1>1. q \in Seq(Commands) /\ c \in Commands /\ Len(q) = 0
  BY DEF ChannelOK, Legit, COMMAND_CAPACITY
<1>2. /\ Append(q, c) \in Seq(Commands) /\ Len(Append(q, c)) = 1
      /\ Append(q, c)[1] = c
  BY <1>1
<1>3. \A i \in 1..1 : i = 1
  OBVIOUS
<1>4. QED
  BY <1>2, <1>3 DEF ChannelOK, COMMAND_CAPACITY

\* The worker receives a command.
LEMMA Received ==
    ASSUME NEW q, NEW n, NEW a, ChannelOK(q, n, a), q # <<>>
    PROVE  Legit(Head(q), n, a) /\ ChannelOK(Tail(q), n, a)
<1>1. q \in Seq(Commands) /\ Len(q) = 1
  <2>1. q \in Seq(Commands) /\ Len(q) <= 1
    BY DEF ChannelOK, COMMAND_CAPACITY
  <2>2. Len(q) \in Nat
    BY <2>1
  <2>3. Len(q) # 0
    BY <2>1
  <2>4. QED
    BY <2>1, <2>2, <2>3
<1>2. Head(q) = q[1] /\ Tail(q) \in Seq(Commands) /\ Len(Tail(q)) = 0
  BY <1>1
<1>3. QED
  BY <1>1, <1>2 DEF ChannelOK, COMMAND_CAPACITY

\* A command that a thread, the worker or shutdown makes.
LEMMA Made ==
    ASSUME NEW n \in 0..MaxRevision, NEW a \in BOOLEAN, NEW kind \in Kinds,
           NEW target \in -1..n, NEW sender \in Threads \cup {None},
           kind \in {"Wake", "Deadline", "Cleanup"} => target = -1,
           kind = "Shutdown" => a = FALSE /\ target = n /\ sender = None
    PROVE  Legit(Command(kind, target, sender), n, a)
<1> DEFINE c == Command(kind, target, sender)
<1>1. c.kind = kind /\ c.target = target /\ c.sender = sender
  BY DEF Command
<1>2. target \in -1..MaxRevision /\ target <= n
  BY OwnerAssumption
<1>3. c \in Commands
  BY <1>2 DEF Command, Commands
<1> HIDE DEF c
<1>4. Legit(c, n, a)
  BY <1>1, <1>2, <1>3 DEF Legit
<1>5. QED
  BY <1>4 DEF c

\* A step that stages or not, stops accepting or not, and sends nothing.
LEMMA WorkerKept ==
    ASSUME WorkerOK, Goes(nextRevision, accepting, nextRevision', accepting'),
           nextRevision' \in 0..MaxRevision, accepting' \in BOOLEAN,
           UNCHANGED <<wpc, channel, command>>
    PROVE  WorkerOK'
<1>1. ChannelOK(channel, nextRevision', accepting')
  BY ChannelKept DEF WorkerOK
<1>2. \/ command = None
      \/ Legit(command, nextRevision', accepting')
  BY LegitKept DEF WorkerOK
<1>3. wpc \notin {"recv", "stopped"} => Legit(command, nextRevision', accepting')
  BY LegitKept DEF WorkerOK
<1>4. QED
  BY <1>1, <1>2, <1>3 DEF WorkerOK

\* A step of thread t: its state, the revision it staged, what it requests.
LEMMA ThreadMoves ==
    ASSUME CallInv, NEW t \in Threads, NEW x \in ThreadStates,
           NEW y \in 0..nextRevision', NEW r \in Commands \cup {None},
           tpc' = [tpc EXCEPT ![t] = x],
           trev' = [trev EXCEPT ![t] = y],
           request' = [request EXCEPT ![t] = r],
           r # None \/ x = "sending" => Legit(r, nextRevision', accepting'),
           Goes(nextRevision, accepting, nextRevision', accepting'),
           admissionLane' \in Threads \cup {None}, boot' \in BootStates
    PROVE  ThreadsOK'
<1>0. nextRevision \in 0..MaxRevision /\ accepting \in BOOLEAN
      /\ MaxRevision \in Nat
  BY OwnerAssumption DEF CallInv, WorkerOK
<1>1. tpc' \in [Threads -> ThreadStates]
  BY DEF CallInv, ThreadsOK
<1>2. trev' \in [Threads -> 0..nextRevision']
  <2>1. \A u \in Threads : trev[u] \in 0..nextRevision'
    BY <1>0 DEF CallInv, ThreadsOK, Goes
  <2>2. QED
    BY <2>1 DEF CallInv, ThreadsOK
<1>3. request' \in [Threads -> Commands \cup {None}]
  BY DEF CallInv, ThreadsOK
<1>4. ASSUME NEW u \in Threads, request'[u] # None \/ tpc'[u] = "sending"
      PROVE  Legit(request'[u], nextRevision', accepting')
  <2>1. CASE u = t
    BY <2>1, <1>4 DEF CallInv, ThreadsOK
  <2>2. CASE u # t
    <3>1. request'[u] = request[u] /\ tpc'[u] = tpc[u]
      BY <2>2 DEF CallInv, ThreadsOK
    <3>2. Legit(request[u], nextRevision, accepting)
      BY <3>1, <1>4 DEF CallInv, ThreadsOK
    <3>3. QED
      BY <3>1, <3>2, <1>0, LegitKept
  <2>3. QED
    BY <2>1, <2>2
<1>5. QED
  BY <1>1, <1>2, <1>3, <1>4 DEF ThreadsOK

\* A step of the worker or of shutdown that returns no call.
LEMMA ThreadsKept ==
    ASSUME CallInv, UNCHANGED <<tpc, trev, request, admissionLane, boot>>,
           Goes(nextRevision, accepting, nextRevision', accepting')
    PROVE  ThreadsOK'
<1>0. nextRevision \in 0..MaxRevision /\ accepting \in BOOLEAN
      /\ MaxRevision \in Nat
  BY OwnerAssumption DEF CallInv, WorkerOK
<1>1. trev \in [Threads -> 0..nextRevision']
  <2>1. 0..nextRevision \subseteq 0..nextRevision'
    BY <1>0 DEF Goes
  <2>2. QED
    BY <2>1 DEF CallInv, ThreadsOK
<1>2. ASSUME NEW u \in Threads, request[u] # None \/ tpc[u] = "sending"
      PROVE  Legit(request[u], nextRevision', accepting')
  BY <1>0, <1>2, LegitKept DEF CallInv, ThreadsOK
<1>3. QED
  BY <1>1, <1>2 DEF CallInv, ThreadsOK

\* stage, under the lock.
LEMMA CallStageLocked ==
    ASSUME CallInv, NEW t \in Threads, StageLocked(t)
    PROVE  CallInv'
<1>1. /\ nextRevision' = nextRevision + 1 /\ nextRevision < MaxRevision
      /\ accepting = TRUE /\ accepting' = accepting
      /\ tpc' = [tpc EXCEPT ![t] = "waking"]
      /\ trev' = [trev EXCEPT ![t] = nextRevision + 1]
      /\ UNCHANGED <<wpc, channel, command, request, admissionLane, boot, shutdown>>
  BY DEF StageLocked, StageDelta, worker, CallInv, WorkerOK
<1>2. /\ nextRevision' \in 0..MaxRevision /\ accepting' \in BOOLEAN
      /\ nextRevision + 1 \in 0..nextRevision'
      /\ Goes(nextRevision, accepting, nextRevision', accepting')
  BY <1>1, OwnerAssumption DEF CallInv, WorkerOK, Goes
<1>3. WorkerOK'
  BY <1>1, <1>2, WorkerKept DEF CallInv
<1>4. ThreadsOK'
  <2>1. request' = [request EXCEPT ![t] = request[t]]
        /\ request[t] \in Commands \cup {None}
    BY <1>1 DEF CallInv, ThreadsOK
  <2>2. request[t] # None => Legit(request[t], nextRevision', accepting')
    BY <1>2, LegitKept DEF CallInv, ThreadsOK, WorkerOK
  <2>3. PICK r \in Commands \cup {None}, y \in 0..nextRevision' :
           r = request[t] /\ y = nextRevision + 1
    BY <1>2, <2>1
  <2>4. /\ trev' = [trev EXCEPT ![t] = y] /\ request' = [request EXCEPT ![t] = r]
        /\ r # None => Legit(r, nextRevision', accepting')
    BY <1>1, <2>1, <2>2, <2>3
  <2>5. "waking" \in ThreadStates /\ admissionLane' \in Threads \cup {None} /\ boot' \in BootStates
    BY <1>1 DEF ThreadStates, CallInv, ThreadsOK
  <2>6. QED
    BY <1>1, <1>2, <2>4, <2>5, ThreadMoves
<1>5. ShutdownOK'
  BY <1>1 DEF CallInv, ShutdownOK
<1>6. QED
  BY <1>3, <1>4, <1>5 DEF CallInv

\* A step of a thread that stages nothing.
LEMMA CallMoves ==
    ASSUME CallInv, NEW t \in Threads, NEW x \in ThreadStates,
           NEW y \in 0..nextRevision, NEW r \in Commands \cup {None},
           tpc' = [tpc EXCEPT ![t] = x],
           trev' = [trev EXCEPT ![t] = y],
           request' = [request EXCEPT ![t] = r],
           r # None \/ x = "sending" => Legit(r, nextRevision, accepting),
           UNCHANGED <<accepting, nextRevision, wpc, command, shutdown>>,
           ChannelOK(channel', nextRevision, accepting),
           admissionLane' \in Threads \cup {None}, boot' \in BootStates
    PROVE  CallInv'
<1>1. Goes(nextRevision, accepting, nextRevision', accepting')
  BY DEF Goes
<1>2. ThreadsOK'
  BY <1>1, ThreadMoves
<1>3. WorkerOK' /\ ShutdownOK'
  BY DEF CallInv, WorkerOK, ShutdownOK
<1>4. QED
  BY <1>2, <1>3 DEF CallInv

\* What a thread has, spelled as an update of its own state.
LEMMA ThreadHas ==
    ASSUME CallInv, NEW t \in Threads
    PROVE  /\ trev[t] \in 0..nextRevision
           /\ trev = [trev EXCEPT ![t] = trev[t]]
           /\ request[t] \in Commands \cup {None}
           /\ request = [request EXCEPT ![t] = request[t]]
           /\ request[t] # None \/ tpc[t] = "sending" =>
                 Legit(request[t], nextRevision, accepting)
           /\ nextRevision \in 0..MaxRevision /\ MaxRevision \in Nat
           /\ nextRevision \in 0..nextRevision /\ 0 \in 0..nextRevision
           /\ accepting \in BOOLEAN
           /\ ChannelOK(channel, nextRevision, accepting)
           /\ admissionLane \in Threads \cup {None} /\ boot \in BootStates
<1>1. nextRevision \in 0..MaxRevision /\ MaxRevision \in Nat
  BY OwnerAssumption DEF CallInv, WorkerOK
<1>2. nextRevision \in 0..nextRevision /\ 0 \in 0..nextRevision
  BY <1>1
<1>3. QED
  BY <1>1, <1>2 DEF CallInv, WorkerOK, ThreadsOK

\* The steps in which a thread neither sends nor requests.
LEMMA CallChoice ==
    ASSUME CallInv, NEW t \in Threads,
           \/ StageBegin(t) \/ StageRefused(t) \/ BootNothingToStage(t)
           \/ Proceed(t) \/ CallRefused(t)
    PROVE  CallInv'
<1>1. PICK x \in {"idle", "staging", "staged"} : tpc' = [tpc EXCEPT ![t] = x]
  BY DEF StageBegin, StageRefused, BootNothingToStage, Proceed, CallRefused
<1>2. PICK y \in {trev[t], 0, nextRevision} : trev' = [trev EXCEPT ![t] = y]
  BY ThreadHas DEF StageBegin, StageRefused, BootNothingToStage, Proceed,
                   CallRefused
<1>3. /\ UNCHANGED <<accepting, nextRevision, wpc, command, shutdown, channel,
                     request, admissionLane>>
      /\ boot' \in {boot, "failed", "flush"}
  BY DEF StageBegin, StageRefused, BootNothingToStage, Proceed, CallRefused,
         shared, worker
<1>4. x \in ThreadStates /\ x # "sending" /\ y \in 0..nextRevision
      /\ boot' \in BootStates
  BY <1>3, ThreadHas DEF ThreadStates, BootStates
<1>5. QED
  BY <1>1, <1>2, <1>3, <1>4, ThreadHas, CallMoves

\* A thread makes a request.
LEMMA CallRequests ==
    ASSUME CallInv, NEW t \in Threads, NEW kind \in Kinds,
           NEW target \in -1..nextRevision, Call(t, kind, target),
           kind \in {"Wake", "Deadline", "Cleanup"} => target = -1,
           kind # "Shutdown",
           UNCHANGED <<accepting, nextRevision, wpc, command, shutdown, channel,
                       boot>>,
           admissionLane' \in Threads \cup {None}
    PROVE  CallInv'
<1>1. Legit(Command(kind, target, t), nextRevision, accepting)
  BY Made, ThreadHas
<1>2. Command(kind, target, t) \in Commands
  BY <1>1 DEF Legit
<1>3. "sending" \in ThreadStates
  BY DEF ThreadStates
<1>4. QED
  BY <1>1, <1>2, <1>3, ThreadHas, CallMoves DEF Call

\* flush_through, flush, checkpoint_current, append_event, cleanup and
\* ensure_task_admitted.
LEMMA CallCalls ==
    ASSUME CallInv, NEW t \in Threads, CallStaged(t) \/ CallIdle(t) \/ Admit(t)
    PROVE  CallInv'
<1>0. /\ trev[t] \in -1..nextRevision /\ nextRevision \in -1..nextRevision
      /\ -1 \in -1..nextRevision
  BY ThreadHas
<1>1. /\ UNCHANGED <<accepting, nextRevision, wpc, command, shutdown, channel,
                     boot>>
      /\ admissionLane' \in {admissionLane, t}
  BY DEF CallStaged, CallIdle, Admit, shared, worker
<1>2. admissionLane' \in Threads \cup {None}
  BY <1>1, ThreadHas
<1>3. CASE \E kind \in {"Barrier", "AppendAdmittedEvent", "Checkpoint"} :
              Call(t, kind, trev[t])
  BY <1>0, <1>1, <1>2, <1>3, CallRequests DEF Kinds
<1>4. CASE \E kind \in {"Barrier", "AppendEvent", "Checkpoint"} :
              Call(t, kind, nextRevision)
  BY <1>0, <1>1, <1>2, <1>4, CallRequests DEF Kinds
<1>5. CASE Call(t, "Cleanup", -1)
  BY <1>0, <1>1, <1>2, <1>5, CallRequests DEF Kinds
<1>6. CASE /\ tpc' = [tpc EXCEPT ![t] = "idle"]
           /\ trev' = [trev EXCEPT ![t] = 0]
           /\ UNCHANGED <<request, admissionLane>>
  BY <1>1, <1>2, <1>6, ThreadHas, CallMoves DEF ThreadStates
<1>7. QED
  BY <1>3, <1>4, <1>5, <1>6 DEF CallStaged, CallIdle, Admit

\* A call ends: the worker answered or is gone.
LEMMA CallReturns ==
    ASSUME CallInv, NEW t \in Threads, NEW ok, Returned(t, ok),
           UNCHANGED <<accepting, nextRevision, trev>>
    PROVE  ThreadsOK'
<1>1. Goes(nextRevision, accepting, nextRevision', accepting')
  BY DEF Goes
<1>2. /\ boot' \in BootStates
      /\ admissionLane' \in Threads \cup {None}
  BY ThreadHas DEF Returned, BootStates
<1>3. /\ tpc' = [tpc EXCEPT ![t] = "idle"] /\ request' = [request EXCEPT ![t] = None]
      /\ "idle" \in ThreadStates
  BY DEF Returned, ThreadStates
<1>4. QED
  BY <1>1, <1>2, <1>3, ThreadHas, ThreadMoves

\* The steps in which a thread sends, or finds the worker gone.
LEMMA CallSends ==
    ASSUME CallInv, NEW t \in Threads, TryWake(t) \/ Send(t) \/ Disconnected(t)
    PROVE  CallInv'
<1>1. CASE TryWake(t)
  <2>1. ChannelOK(channel', nextRevision, accepting)
    <3>1. Legit(Command("Wake", -1, None), nextRevision, accepting)
      <4>1. -1 \in -1..nextRevision
        BY ThreadHas
      <4>2. QED
        BY <4>1, Made, ThreadHas DEF Kinds
    <3>2. QED
      BY <1>1, <3>1, Sent, ThreadHas DEF TryWake, ChannelFull
  <2>2. PICK x \in {"idle", "staged"}, y \in {0, trev[t]} :
           /\ tpc' = [tpc EXCEPT ![t] = x]
           /\ trev' = [trev EXCEPT ![t] = y]
    BY <1>1, ThreadHas DEF TryWake
  <2>3. /\ UNCHANGED <<accepting, nextRevision, wpc, command, shutdown, request,
                       admissionLane>>
        /\ boot' \in {boot, "failed", "flush"}
    BY <1>1 DEF TryWake, shared, worker
  <2>4. x \in ThreadStates /\ x # "sending" /\ y \in 0..nextRevision
        /\ boot' \in BootStates
    BY <2>3, ThreadHas DEF ThreadStates, BootStates
  <2>5. QED
    BY <2>1, <2>2, <2>3, <2>4, ThreadHas, CallMoves
<1>2. CASE Send(t)
  <2>1. Legit(request[t], nextRevision, accepting)
    BY <1>2, ThreadHas DEF Send
  <2>2. ChannelOK(channel', nextRevision, accepting)
    BY <1>2, <2>1, Sent, ThreadHas DEF Send, ChannelFull
  <2>3. /\ UNCHANGED <<accepting, nextRevision, wpc, command, shutdown, request,
                       trev, admissionLane, boot>>
        /\ tpc' = [tpc EXCEPT ![t] = "waiting"] /\ "waiting" \in ThreadStates
    BY <1>2 DEF Send, shared, worker, ThreadStates
  <2>4. PICK r \in Commands \cup {None}, y \in 0..nextRevision :
           r = request[t] /\ y = trev[t]
    BY ThreadHas
  <2>5. /\ trev' = [trev EXCEPT ![t] = y] /\ request' = [request EXCEPT ![t] = r]
        /\ Legit(r, nextRevision, accepting)
    BY <2>1, <2>3, <2>4, ThreadHas
  <2>6. UNCHANGED <<accepting, nextRevision, wpc, command, shutdown>>
        /\ admissionLane' \in Threads \cup {None} /\ boot' \in BootStates
    BY <2>3, ThreadHas
  <2>7. QED
    BY <2>2, <2>3, <2>5, <2>6, CallMoves
<1>3. CASE Disconnected(t)
  <2>1. /\ UNCHANGED <<accepting, nextRevision, wpc, command, channel, shutdown,
                       trev>>
        /\ Returned(t, FALSE)
    BY <1>3 DEF Disconnected, shared, worker
  <2>2. ThreadsOK'
    BY <2>1, CallReturns
  <2>3. QED
    BY <2>1, <2>2 DEF CallInv, WorkerOK, ShutdownOK
<1>4. QED
  BY <1>1, <1>2, <1>3

\* The worker goes on with the command it serves.
LEMMA CallServes ==
    ASSUME CallInv,
           \/ Cleanup \/ TakeBatch \/ NothingToAppend \/ AppendSucceeds
           \/ MaterializeFails \/ AppendFails \/ SaveForPressure \/ SaveImage
           \/ AppendEvent
    PROVE  CallInv'
<1>1. /\ UNCHANGED <<accepting, nextRevision, channel, command, tpc, trev, request,
                     admissionLane, boot, shutdown>>
      /\ wpc \notin {"recv", "stopped"}
      /\ wpc' \in WorkerStates
  BY AfterAppendIsNotAppend
     DEF Cleanup, TakeBatch, NothingToAppend, AppendSucceeds, MaterializeFails,
         AppendFails, SaveForPressure, SaveImage, AppendEvent, CheckpointSaved,
         shared, threads, WorkerStates
<1>2. QED
  BY <1>1 DEF CallInv, WorkerOK, ThreadsOK, ShutdownOK

\* The worker takes its next command.
LEMMA CallReceives ==
    ASSUME CallInv, Recv \/ DeadlineExpires \/ HandlesDropped
    PROVE  CallInv'
<1>1. /\ UNCHANGED <<accepting, nextRevision, tpc, trev, request, admissionLane,
                     boot, shutdown>>
      /\ wpc' \in {"cleanup", "take"}
  BY DEF Recv, DeadlineExpires, HandlesDropped, shared, threads
<1>2. /\ nextRevision \in 0..MaxRevision /\ accepting \in BOOLEAN
      /\ ChannelOK(channel, nextRevision, accepting)
      /\ nextRevision \in -1..nextRevision /\ -1 \in -1..nextRevision
  BY OwnerAssumption DEF CallInv, WorkerOK
<1>3. /\ Legit(command', nextRevision, accepting)
      /\ ChannelOK(channel', nextRevision, accepting)
  <2>1. CASE Recv
    BY <2>1, <1>2, Received DEF Recv
  <2>2. CASE DeadlineExpires
    BY <2>2, <1>2, Made DEF DeadlineExpires, Kinds
  <2>3. CASE HandlesDropped
    BY <2>3, <1>2, Made DEF HandlesDropped, Kinds
  <2>4. QED
    BY <2>1, <2>2, <2>3
<1>4. WorkerOK'
  BY <1>1, <1>2, <1>3 DEF CallInv, WorkerOK, WorkerStates
<1>5. QED
  BY <1>1, <1>4 DEF CallInv, ThreadsOK, ShutdownOK

\* The worker answers.
LEMMA CallReplies ==
    ASSUME CallInv, Reply
    PROVE  CallInv'
<1>1. /\ UNCHANGED <<accepting, nextRevision, channel, trev>>
      /\ wpc = "reply" /\ wpc' \in {"recv", "stopped"} /\ command' = None
      /\ \/ shutdown' = shutdown
         \/ shutdown.pc = "waiting" /\ shutdown' = [shutdown EXCEPT !.pc = "done"]
  BY DEF Reply, shared
<1>2. WorkerOK' /\ ShutdownOK'
  BY <1>1 DEF CallInv, WorkerOK, ShutdownOK, WorkerStates, ShutdownStates
<1>3. ThreadsOK'
  <2>1. CASE command.sender = None
    <3>1. UNCHANGED <<tpc, request, admissionLane, boot>>
      BY <2>1 DEF Reply
    <3>2. QED
      BY <3>1, <1>1, ThreadsKept DEF Goes
  <2>2. CASE command.sender # None
    <3>1. command.sender \in Threads
      BY <2>2, <1>1 DEF CallInv, WorkerOK, Legit, Commands
    <3>2. Returned(command.sender, result = "ok")
      BY <2>2 DEF Reply
    <3>3. QED
      BY <1>1, <3>1, <3>2, CallReturns
  <2>3. QED
    BY <2>1, <2>2
<1>4. QED
  BY <1>2, <1>3 DEF CallInv

\* Shutdown stops the counter before it reads it.
LEMMA CallShutsDown ==
    ASSUME CallInv, ShutdownStep
    PROVE  CallInv'
<1>1. /\ UNCHANGED <<nextRevision, wpc, command, tpc, trev, request,
                     admissionLane, boot>>
      /\ accepting' = accepting \/ accepting' = FALSE
  BY DEF ShutdownStep, ShutdownBegin, ShutdownTarget, ShutdownSend,
         ShutdownTimeout, DropOwner, shared, worker, threads
<1>2. /\ Goes(nextRevision, accepting, nextRevision', accepting')
      /\ accepting \in BOOLEAN /\ accepting' \in BOOLEAN
      /\ nextRevision \in 0..MaxRevision /\ nextRevision \in -1..nextRevision
      /\ nextRevision' = nextRevision
  <2>1. accepting \in BOOLEAN /\ nextRevision \in 0..MaxRevision
    BY DEF CallInv, WorkerOK
  <2>2. nextRevision \in -1..nextRevision
    BY <2>1, OwnerAssumption
  <2>3. accepting' \in BOOLEAN
    BY <1>1, <2>1
  <2>4. Goes(nextRevision, accepting, nextRevision', accepting')
    BY <1>1 DEF Goes
  <2>5. QED
    BY <1>1, <2>1, <2>2, <2>3, <2>4
<1>3. ThreadsOK'
  BY <1>1, <1>2, ThreadsKept
<1>4. ChannelOK(channel, nextRevision, accepting')
  BY <1>2, ChannelKept DEF CallInv, WorkerOK
<1>5. ChannelOK(channel', nextRevision, accepting') /\ ShutdownOK'
  <2>1. CASE ShutdownBegin
    BY <2>1, <1>4 DEF ShutdownBegin, CallInv, ShutdownOK, ShutdownStates
  <2>2. CASE ShutdownTarget
    <3>1. accepting' = accepting /\ channel' = channel
      BY <2>2 DEF ShutdownTarget, shared
    <3>2. QED
      BY <2>2, <3>1, <1>1, <1>2, <1>4
         DEF ShutdownTarget, CallInv, ShutdownOK, ShutdownStates
  <2>3. CASE ShutdownSend
    <3>1. accepting' = accepting /\ accepting = FALSE
          /\ shutdown.target = nextRevision
      BY <2>3 DEF ShutdownSend, shared, CallInv, ShutdownOK
    <3>2. Legit(Command("Shutdown", nextRevision, None), nextRevision, accepting)
      BY <3>1, <1>2, Made DEF Kinds
    <3>3. ChannelOK(channel', nextRevision, accepting')
      BY <2>3, <3>1, <3>2, <1>4, Sent DEF ShutdownSend, ChannelFull
    <3>4. ShutdownOK'
      BY <2>3, <3>1, <1>1 DEF ShutdownSend, CallInv, ShutdownOK, ShutdownStates
    <3>5. QED
      BY <3>3, <3>4
  <2>4. CASE ShutdownTimeout
    <3>1. accepting' = accepting /\ channel' = channel
      BY <2>4 DEF ShutdownTimeout, shared
    <3>2. QED
      BY <2>4, <3>1, <1>1, <1>4
         DEF ShutdownTimeout, CallInv, ShutdownOK, ShutdownStates
  <2>5. CASE DropOwner
    <3>1. accepting' = FALSE
      BY <2>5 DEF DropOwner
    <3>2. Legit(Command("Shutdown", nextRevision, None), nextRevision, accepting')
      BY <3>1, <1>2, Made DEF Kinds
    <3>3. ChannelOK(channel', nextRevision, accepting')
      BY <2>5, <3>2, <1>4, Sent DEF DropOwner, ChannelFull
    <3>4. ShutdownOK'
      BY <2>5, <3>1, <1>1 DEF DropOwner, CallInv, ShutdownOK, ShutdownStates
    <3>5. QED
      BY <3>3, <3>4
  <2>6. QED
    BY <2>1, <2>2, <2>3, <2>4, <2>5 DEF ShutdownStep
<1>6. WorkerOK'
  <2>1. \A c : Legit(c, nextRevision, accepting) =>
                  Legit(c, nextRevision, accepting')
    BY <1>2, LegitKept
  <2>2. QED
    BY <1>1, <1>2, <1>5, <2>1 DEF CallInv, WorkerOK
<1>7. QED
  BY <1>3, <1>5, <1>6 DEF CallInv

\* An empty channel and idle threads.
LEMMA CallNewOwner ==
    ASSUME NEW n \in 0..MaxRevision
    PROVE  /\ ChannelOK(<<>>, n, TRUE)
           /\ [t \in Threads |-> "idle"] \in [Threads -> ThreadStates]
           /\ [t \in Threads |-> 0] \in [Threads -> 0..n]
           /\ [t \in Threads |-> None] \in [Threads -> Commands \cup {None}]
           /\ "stage" \in BootStates /\ "recv" \in WorkerStates
           /\ [pc |-> "running", target |-> 0]
                 \in [pc : ShutdownStates, target : 0..MaxRevision]
<1>1. ChannelOK(<<>>, n, TRUE)
  BY DEF ChannelOK, COMMAND_CAPACITY
<1>2. 0 \in 0..MaxRevision /\ 0 \in 0..n
  BY OwnerAssumption
<1>3. QED
  BY <1>1, <1>2 DEF ThreadStates, BootStates, WorkerStates, ShutdownStates

\* A new owner of an empty directory.
LEMMA CallInvInit == Init => CallInv
<1> SUFFICES ASSUME Init PROVE CallInv
  OBVIOUS
<1>1. 0 \in 0..MaxRevision
  BY OwnerAssumption
<1>2. WorkerOK
  BY <1>1, CallNewOwner DEF Init, WorkerOK
<1>3. ThreadsOK
  BY <1>1, CallNewOwner DEF Init, ThreadsOK
<1>4. ShutdownOK
  BY <1>1, CallNewOwner DEF Init, ShutdownOK
<1>5. QED
  BY <1>2, <1>3, <1>4 DEF CallInv

\* A new owner of what a power failure left.
LEMMA CallRestarts ==
    ASSUME OwnerInv, DiskInv, CallInv, Restart
    PROVE  CallInv'
<1>1. PICK s \in survivors : Started(Repaired(s))
  BY DEF Restart
<1> DEFINE n == ReplayedRevision(Repaired(s))
<1>2. n \in 0..MaxRevision
  BY RestartFits, OwnerAssumption DEF CallInv, WorkerOK
<1>3. /\ nextRevision' = n /\ accepting' = TRUE /\ channel' = <<>>
      /\ wpc' = "recv" /\ command' = None
      /\ tpc' = [t \in Threads |-> "idle"] /\ trev' = [t \in Threads |-> 0]
      /\ request' = [t \in Threads |-> None] /\ admissionLane' = None
      /\ boot' = "stage" /\ shutdown' = [pc |-> "running", target |-> 0]
  BY <1>1 DEF Started
<1> HIDE DEF n
<1>4. WorkerOK'
  BY <1>2, <1>3, CallNewOwner DEF WorkerOK
<1>5. ThreadsOK'
  BY <1>2, <1>3, CallNewOwner DEF ThreadsOK
<1>6. ShutdownOK'
  BY <1>2, <1>3, CallNewOwner DEF ShutdownOK
<1>7. QED
  BY <1>4, <1>5, <1>6 DEF CallInv

\* One case per kind of step.
LEMMA CallInvStep == OwnerInv /\ DiskInv /\ CallInv /\ [Next]_vars => CallInv'
<1> SUFFICES ASSUME OwnerInv, DiskInv, CallInv, [Next]_vars
             PROVE  CallInv'
  OBVIOUS
<1>1. CASE WorkerStep
  BY <1>1, CallServes, CallReceives, CallReplies DEF WorkerStep
<1>2. CASE DeadlineExpires
  BY <1>2, CallReceives
<1>3. ASSUME NEW t \in Threads, ThreadStep(t) \/ ThreadChoice(t)
      PROVE  CallInv'
  BY <1>3, CallStageLocked, CallChoice, CallCalls, CallSends
     DEF ThreadStep, ThreadChoice
<1>4. CASE ShutdownStep
  BY <1>4, CallShutsDown
<1>5. CASE Restart
  BY <1>5, CallRestarts
<1>6. CASE Terminated \/ UNCHANGED vars
  BY <1>6 DEF Terminated, vars, shared, worker, threads, CallInv, WorkerOK,
              ThreadsOK, ShutdownOK
<1>7. QED
  BY <1>1, <1>2, <1>3, <1>4, <1>5, <1>6 DEF Next

-----------------------------------------------------------------------------
(* What was promised *)

\* What callers were told is durable; what the worker is about to tell them is;
\* an admitted task is in the checkpoint; a shutdown that is about to succeed,
\* or did, left a checkpoint of everything.
PromiseInv ==
    /\ staged \in Seq(Threads) /\ Len(staged) = nextRevision
    /\ promised \in Nat /\ promised <= durable
    /\ wpc \in {"save", "event"} => command.target <= durable
    /\ wpc = "reply" /\ result = "ok" => command.target <= durable
    /\ admitted \subseteq TasksThrough(checkpointed)
    /\ wpc = "cleanup" => command.kind = "Cleanup"
    /\ wpc = "event" => command.kind # "Shutdown"
    /\ wpc = "reply" /\ result = "ok" /\ command.kind = "Shutdown" =>
          \A s \in survivors : s.ckpt = durable
    /\ finished # None => wpc = "stopped" /\ accepting = FALSE
    /\ ShutdownCovers

\* Revisions that the worker compares.
LEMMA Numbers ==
    ASSUME OwnerInv, DiskInv, CallInv
    PROVE  /\ durable \in Nat /\ checkpointed \in Nat /\ nextRevision \in Nat
           /\ checkpointed <= durable /\ durable <= nextRevision
           /\ wpc \notin {"recv", "stopped"} =>
                 /\ command.target \in -1..MaxRevision
                 /\ command.target <= nextRevision
<1>1. durable \in Nat /\ checkpointed \in Nat /\ nextRevision \in Nat
      /\ durable <= nextRevision
  BY HeldShape DEF OwnerInv, QueueTypes, DiskInv
<1>2. checkpointed <= durable
  BY <1>1, RestartFits DEF DiskInv
<1>3. wpc \notin {"recv", "stopped"} =>
                 /\ command.target \in -1..MaxRevision
                 /\ command.target <= nextRevision
  BY DEF CallInv, WorkerOK, Legit, Commands
<1>4. QED
  BY <1>1, <1>2, <1>3

\* A step that leaves the disk, the revisions and the history alone.
LEMMA PromiseKept ==
    ASSUME PromiseInv,
           UNCHANGED <<survivors, durable, checkpointed, nextRevision, staged,
                       admitted, promised, finished>>,
           accepting' = accepting \/ accepting' = FALSE,
           wpc' \in {"save", "event"} => command'.target <= durable,
           wpc' = "reply" /\ result' = "ok" => command'.target <= durable,
           wpc' = "reply" /\ result' = "ok" /\ command'.kind = "Shutdown" =>
              \A s \in survivors : s.ckpt = durable,
           wpc' = "cleanup" => command'.kind = "Cleanup",
           wpc' = "event" => command'.kind # "Shutdown",
           wpc = "stopped" => wpc' = "stopped"
    PROVE  PromiseInv'
BY DEF PromiseInv, TasksThrough, ShutdownCovers

\* Staging adds a task behind those that are durable.
LEMMA PromiseStages ==
    ASSUME OwnerInv, DiskInv, CallInv, PromiseInv, NEW t \in Threads,
           StageLocked(t)
    PROVE  PromiseInv'
<1>1. /\ accepting = TRUE /\ nextRevision' = nextRevision + 1
      /\ staged' = Append(staged, t)
      /\ UNCHANGED <<survivors, durable, checkpointed, admitted, promised,
                     finished, wpc, command, result, accepting>>
  BY DEF StageLocked, StageDelta, disk, worker, history, CallInv, WorkerOK
<1>2. finished = None
  BY <1>1 DEF PromiseInv
<1>3. /\ staged' \in Seq(Threads) /\ Len(staged') = nextRevision'
      /\ \A r \in 1..nextRevision : staged'[r] = staged[r]
  BY <1>1 DEF PromiseInv
<1>4. TasksThrough(checkpointed)' = TasksThrough(checkpointed)
  <2>1. \A r \in 1..checkpointed : r \in 1..nextRevision
    BY Numbers
  <2>2. QED
    BY <1>1, <1>3, <2>1 DEF TasksThrough
<1>5. QED
  BY <1>1, <1>2, <1>3, <1>4 DEF PromiseInv, ShutdownCovers

\* append_pending returned without appending, or after its last batch.
LEMMA AfterAppendMeans ==
    ASSUME NEW r, NEW any, NEW d, AfterAppend(r, any, d) = "reply",
           r = "ok", command.kind = "Shutdown"
    PROVE  checkpointed = d
BY DEF AfterAppend

\* The worker leaves append_pending only with what the command requires.
LEMMA PromiseNothing ==
    ASSUME OwnerInv, DiskInv, CallInv, PromiseInv, NothingToAppend
    PROVE  PromiseInv'
<1>1. /\ wpc = "take"
      /\ wpc' = AfterAppend(result', appended, durable)
      /\ UNCHANGED <<survivors, durable, checkpointed, nextRevision, staged,
                     admitted, promised, finished, accepting, command>>
      /\ result' = "ok" => ~(Requires(command) /\ durable < command.target)
  BY DEF NothingToAppend, disk, history
<1>2. Legit(command, nextRevision, accepting)
  BY <1>1 DEF CallInv, WorkerOK
<1>3. result' = "ok" => command.target <= durable
  <2>1. ~Requires(command) => command.target = -1
    BY <1>2 DEF Requires, Legit
  <2>2. command.target \in Int /\ durable \in Nat
    BY <1>1, Numbers
  <2>3. QED
    BY <1>1, <2>1, <2>2
<1>4. /\ wpc' \in {"save", "event"} => result' = "ok"
      /\ wpc' = "event" => command.kind # "Shutdown"
      /\ wpc' # "cleanup"
  BY <1>1 DEF AfterAppend
<1>5. wpc' = "reply" /\ result' = "ok" /\ command.kind = "Shutdown" =>
         \A s \in survivors : s.ckpt = durable
  <2>1. checkpointed = durable => \A s \in survivors : s.ckpt = durable
    BY Numbers, RestartFits
  <2>2. QED
    BY <1>1, <2>1, AfterAppendMeans
<1>6. QED
  BY <1>1, <1>3, <1>4, <1>5, PromiseKept

\* An append moves the durable revision up.
LEMMA PromiseAppends ==
    ASSUME OwnerInv, DiskInv, CallInv, PromiseInv,
           AppendSucceeds \/ MaterializeFails
    PROVE  PromiseInv'
<1>1. /\ wpc = "append" /\ durable' = batch.last
      /\ UNCHANGED <<checkpointed, nextRevision, staged, admitted, promised,
                     finished, command>>
      /\ accepting' = accepting
  BY DEF AppendSucceeds, MaterializeFails, shared, history
<1>2. batch.last \in Nat /\ durable < batch.last /\ durable \in Nat
  BY <1>1, HeldShape, Appending DEF RevisionRange
<1>3. finished = None
  BY <1>1 DEF PromiseInv
<1>4. promised' \in Nat /\ promised' <= durable'
  BY <1>1, <1>2 DEF PromiseInv
<1>5. /\ wpc' \in {"save", "event"} \/ (wpc' = "reply" /\ result' = "ok") =>
            ~Requires(command)
      /\ wpc' # "cleanup"
  <2>1. CASE AppendSucceeds
    <3>1. PICK a \in {"reply", "save", "event"} : a = AfterAppend("ok", TRUE, batch.last)
      BY AfterAppendIsNotAppend
    <3>2. wpc' = "take" \/ (wpc' = a /\ ~Requires(command))
      BY <2>1, <3>1 DEF AppendSucceeds
    <3>3. QED
      BY <3>2
  <2>2. CASE MaterializeFails
    BY <2>2 DEF MaterializeFails
  <2>3. QED
    BY <2>1, <2>2
<1>6. ~Requires(command) =>
         command.target <= durable' /\ command.kind # "Shutdown"
  <2>1. Legit(command, nextRevision, accepting)
    BY <1>1 DEF CallInv, WorkerOK
  <2>2. ~Requires(command) => command.target = -1 /\ command.kind # "Shutdown"
    BY <2>1 DEF Requires, Legit
  <2>3. QED
    BY <2>2, <1>1, <1>2
<1>7. QED
  BY <1>1, <1>3, <1>4, <1>5, <1>6 DEF PromiseInv, ShutdownCovers, TasksThrough

\* A failed append promises nothing.
LEMMA PromiseAppendFails ==
    ASSUME OwnerInv, DiskInv, CallInv, PromiseInv, AppendFails
    PROVE  PromiseInv'
<1>1. /\ wpc = "append"
      /\ UNCHANGED <<durable, checkpointed, nextRevision, staged, admitted,
                     promised, finished, command, accepting>>
      /\ wpc' = "pressure" \/ (wpc' = "reply" /\ result' # "ok")
  BY DEF AppendFails, history
<1>2. finished = None
  BY <1>1 DEF PromiseInv
<1>3. QED
  BY <1>1, <1>2 DEF PromiseInv, ShutdownCovers, TasksThrough

\* A checkpoint admits the tasks that it covers.
LEMMA PromiseSaves ==
    ASSUME OwnerInv, DiskInv, CallInv, PromiseInv, SaveForPressure \/ SaveImage
    PROVE  PromiseInv'
<1>1. /\ wpc \in {"pressure", "save"}
      /\ UNCHANGED <<durable, nextRevision, staged, promised, finished, command,
                     accepting>>
      /\ \/ checkpointed' = durable /\ admitted' = TasksThrough(durable)
         \/ UNCHANGED <<checkpointed, admitted>>
      /\ wpc' \in {"take", "event", "reply"}
      /\ wpc' = "event" => wpc = "save" /\ command.kind # "Shutdown"
      /\ wpc' = "reply" /\ result' = "ok" => wpc = "save" /\ checkpointed' = durable
  <2>1. CASE SaveForPressure
    <3>1. PICK o \in SaveOutcomes(store, durable) :
             IF o.result = "ok"
             THEN CheckpointSaved /\ wpc' = "take"
             ELSE result' = o.result /\ wpc' = "reply"
                  /\ UNCHANGED <<checkpointed, admitted>>
      BY <2>1 DEF SaveForPressure
    <3>2. QED
      BY <2>1, <3>1 DEF SaveForPressure, CheckpointSaved, history
  <2>2. CASE SaveImage
    BY <2>2 DEF SaveImage, CheckpointSaved, history
  <2>3. QED
    BY <2>1, <2>2
<1>2. finished = None
  BY <1>1 DEF PromiseInv
<1>3. admitted' \subseteq TasksThrough(checkpointed)'
  BY <1>1 DEF PromiseInv, TasksThrough
<1>4. wpc' = "reply" /\ result' = "ok" => \A s \in survivors' : s.ckpt = durable
  <2>1. DiskInv'
    BY DiskInvStep DEF Next, WorkerStep
  <2>2. OwnerInv'
    BY SaveStep
  <2>3. \A s \in survivors' :
           s.ckpt \in Nat /\ checkpointed' <= s.ckpt /\ s.ckpt <= durable'
    BY <2>1, <2>2 DEF DiskInv, Fits, OwnerInv, StoreTypes, Stores
  <2>4. QED
    BY <1>1, <2>3, Numbers
<1>5. wpc = "save" => command.target <= durable
  BY DEF PromiseInv
<1>6. QED
  BY <1>1, <1>2, <1>3, <1>4, <1>5 DEF PromiseInv, ShutdownCovers

\* The event is in its log when its revision is durable.
LEMMA PromiseEvent ==
    ASSUME OwnerInv, DiskInv, CallInv, PromiseInv, AppendEvent
    PROVE  PromiseInv'
<1>1. /\ wpc = "event" /\ wpc' = "reply"
      /\ UNCHANGED <<survivors, durable, checkpointed, nextRevision, staged,
                     admitted, finished, command, accepting>>
      /\ promised' = promised \/ promised' = Promised(command.target)
  BY DEF AppendEvent, disk, shared
<1>2. /\ command.target <= durable /\ command.target \in Int /\ durable \in Nat
      /\ finished = None /\ promised \in Nat /\ promised <= durable
  BY <1>1, Numbers DEF PromiseInv
<1>3. promised' \in Nat /\ promised' <= durable
  BY <1>1, <1>2 DEF Promised
<1>4. QED
  BY <1>1, <1>2, <1>3 DEF PromiseInv, ShutdownCovers, TasksThrough

\* The end of a command: its caller is promised what it required.
LEMMA PromiseReplies ==
    ASSUME OwnerInv, DiskInv, CallInv, PromiseInv, Reply
    PROVE  PromiseInv'
<1>1. /\ wpc = "reply" /\ wpc' \in {"recv", "stopped"}
      /\ UNCHANGED <<survivors, durable, checkpointed, nextRevision, staged,
                     admitted, accepting>>
      /\ promised' = IF result = "ok" THEN Promised(command.target) ELSE promised
      /\ \/ finished' = finished
         \/ /\ command.kind = "Shutdown" /\ wpc' = "stopped"
            /\ finished' = IF result = "ok" THEN command.target ELSE None
  BY DEF Reply, disk, shared
<1>2. /\ finished = None /\ promised \in Nat /\ promised <= durable
      /\ command.target \in Int /\ durable \in Nat /\ nextRevision \in Nat
      /\ durable <= nextRevision
  BY <1>1, Numbers DEF PromiseInv
<1>3. promised' \in Nat /\ promised' <= durable
  BY <1>1, <1>2 DEF PromiseInv, Promised
<1>4. finished' # None =>
         /\ wpc' = "stopped" /\ accepting' = FALSE
         /\ finished' = nextRevision
         /\ \A s \in survivors : s.ckpt = nextRevision
  <2> SUFFICES ASSUME finished' # None
               PROVE  /\ wpc' = "stopped" /\ accepting' = FALSE
                      /\ finished' = nextRevision
                      /\ \A s \in survivors : s.ckpt = nextRevision
    OBVIOUS
  <2>1. /\ command.kind = "Shutdown" /\ wpc' = "stopped" /\ result = "ok"
        /\ finished' = command.target
    BY <1>1, <1>2
  <2>2. accepting = FALSE /\ command.target = nextRevision
    BY <1>1, <2>1 DEF CallInv, WorkerOK, Legit
  <2>3. command.target <= durable /\ \A s \in survivors : s.ckpt = durable
    BY <1>1, <2>1 DEF PromiseInv
  <2>4. durable = nextRevision
    BY <1>2, <2>2, <2>3
  <2>5. QED
    BY <1>1, <2>1, <2>2, <2>3, <2>4
<1>5. QED
  BY <1>1, <1>3, <1>4 DEF PromiseInv, ShutdownCovers, TasksThrough

\* A new owner knows what the old one promised.
LEMMA PromiseRestarts ==
    ASSUME OwnerInv, DiskInv, CallInv, PromiseInv, Restart
    PROVE  PromiseInv'
<1>1. PICK s \in survivors : Started(Repaired(s))
  BY DEF Restart
<1> DEFINE n == WalTail(s)
<1>2. /\ ReplayedRevision(Repaired(s)) = n /\ Repaired(s).ckpt = s.ckpt
      /\ n \in Nat /\ durable <= n /\ n <= nextRevision
      /\ s.ckpt \in Nat /\ s.ckpt <= durable
  BY RestartFits
<1>3. /\ nextRevision' = n /\ durable' = n /\ checkpointed' = s.ckpt
      /\ staged' = SubSeq(staged, 1, n)
      /\ admitted' \in {TasksThrough(s.ckpt), {}}
      /\ wpc' = "recv" /\ finished' = None /\ promised' = promised
  BY <1>1, <1>2 DEF Started, AdmittedAtStart, Restart
<1> HIDE DEF n
<1>4. durable \in Nat /\ nextRevision \in Nat
  BY Numbers
<1>5. /\ staged' \in Seq(Threads) /\ Len(staged') = n
      /\ \A r \in 1..n : staged'[r] = staged[r]
  <2>1. staged \in Seq(Threads) /\ Len(staged) = nextRevision
    BY DEF PromiseInv
  <2>2. QED
    BY <1>2, <1>3, <1>4, <2>1
<1>6. TasksThrough(checkpointed)' = TasksThrough(s.ckpt)
  <2>1. \A r \in 1..s.ckpt : r \in 1..n
    BY <1>2, <1>4
  <2>2. QED
    BY <1>3, <1>5, <2>1 DEF TasksThrough
<1>7. promised' \in Nat /\ promised' <= durable'
  BY <1>2, <1>3, <1>4 DEF PromiseInv
<1>8. QED
  BY <1>3, <1>5, <1>6, <1>7 DEF PromiseInv, ShutdownCovers

\* The other steps.
LEMMA PromiseControl ==
    ASSUME OwnerInv, DiskInv, CallInv, PromiseInv,
           \/ Recv \/ Cleanup \/ TakeBatch \/ HandlesDropped \/ DeadlineExpires
           \/ ShutdownStep \/ Terminated \/ UNCHANGED vars
           \/ \E t \in Threads :
                 \/ StageRefused(t) \/ TryWake(t) \/ Send(t) \/ Disconnected(t)
                 \/ ThreadChoice(t)
    PROVE  PromiseInv'
<1>1. CASE Recv \/ TakeBatch \/ HandlesDropped \/ DeadlineExpires
  <2>1. /\ UNCHANGED <<survivors, durable, checkpointed, nextRevision, staged,
                       admitted, promised, finished, accepting>>
        /\ wpc # "stopped" /\ wpc' \in {"cleanup", "take", "append"}
        /\ wpc' = "cleanup" => command'.kind = "Cleanup"
    BY <1>1 DEF Recv, TakeBatch, HandlesDropped, DeadlineExpires, disk, shared,
                history
  <2>2. QED
    BY <2>1, PromiseKept
<1>2. CASE Cleanup
  <2>1. /\ UNCHANGED <<survivors, durable, checkpointed, nextRevision, staged,
                       admitted, promised, finished, accepting, command>>
        /\ wpc = "cleanup" /\ wpc' = "reply"
    BY <1>2 DEF Cleanup, disk, shared, history
  <2>2. command.kind = "Cleanup" /\ command.target = -1
    BY <2>1 DEF PromiseInv, CallInv, WorkerOK, Legit
  <2>3. durable \in Nat
    BY Numbers
  <2>4. QED
    BY <2>1, <2>2, <2>3, PromiseKept
<1>3. CASE \/ ShutdownStep \/ Terminated \/ UNCHANGED vars
           \/ \E t \in Threads :
                 \/ StageRefused(t) \/ TryWake(t) \/ Send(t) \/ Disconnected(t)
                 \/ ThreadChoice(t)
  <2>1. /\ UNCHANGED <<survivors, durable, checkpointed, nextRevision, staged,
                       admitted, promised, finished, wpc, command, result>>
        /\ accepting' = accepting \/ accepting' = FALSE
    BY <1>3 DEF ShutdownStep, ShutdownBegin, ShutdownTarget, ShutdownSend,
         ShutdownTimeout, DropOwner, Terminated, vars, disk, shared, worker,
         history, StageRefused, TryWake, Send, Disconnected, ThreadChoice,
         StageBegin, BootNothingToStage, Proceed, CallStaged, CallIdle, Admit,
         CallRefused
  <2>2. QED
    BY <2>1, PromiseKept DEF PromiseInv
<1>4. QED
  BY <1>1, <1>2, <1>3

\* A new owner of an empty directory has promised nothing.
LEMMA PromiseInvInit == Init => PromiseInv
<1> SUFFICES ASSUME Init PROVE PromiseInv
  OBVIOUS
<1>1. staged \in Seq(Threads) /\ Len(staged) = nextRevision
  BY DEF Init
<1>2. QED
  BY <1>1 DEF Init, PromiseInv, ShutdownCovers

\* One case per kind of step.
LEMMA PromiseInvStep ==
    OwnerInv /\ DiskInv /\ CallInv /\ PromiseInv /\ [Next]_vars => PromiseInv'
<1> SUFFICES ASSUME OwnerInv, DiskInv, CallInv, PromiseInv, [Next]_vars
             PROVE  PromiseInv'
  OBVIOUS
<1>1. CASE WorkerStep
  BY <1>1, PromiseControl, PromiseNothing, PromiseAppends, PromiseAppendFails,
     PromiseSaves, PromiseEvent, PromiseReplies DEF WorkerStep
<1>2. ASSUME NEW t \in Threads, ThreadStep(t) \/ ThreadChoice(t)
      PROVE  PromiseInv'
  BY <1>2, PromiseStages, PromiseControl DEF ThreadStep
<1>3. CASE Restart
  BY <1>3, PromiseRestarts
<1>4. CASE DeadlineExpires \/ ShutdownStep \/ Terminated \/ UNCHANGED vars
  BY <1>4, PromiseControl
<1>5. QED
  BY <1>1, <1>2, <1>3, <1>4 DEF Next

\* PersistenceOwner::shutdown: a shutdown that reported success left nothing
\* staged above its target, and every power failure afterwards starts from a
\* checkpoint that covers everything that was staged.
THEOREM ShutdownLeavesNothing == Spec => []ShutdownCovers
<1>1. PromiseInv => ShutdownCovers
  BY DEF PromiseInv
<1>2. QED
  BY <1>1, OwnerInvInit, OwnerInvStep, DiskInvInit, DiskInvStep, CallInvInit,
     CallInvStep, PromiseInvInit, PromiseInvStep, PTL DEF Spec

-----------------------------------------------------------------------------
(* Types *)

Results == {"ok", "io", "mismatch", "tooLarge", "fatal", "prior", "unavailable"}

FlagInv ==
    /\ unsurfaced \in BOOLEAN /\ fatal \in BOOLEAN
    /\ armed \in BOOLEAN /\ appended \in BOOLEAN
    /\ result \in Results
    /\ faults \in 0..MaxFaults
    /\ crashes \in 0..MaxCrashes

\* The deadline is a flag.
LEMMA NewDeadlineType ==
    ASSUME armed \in BOOLEAN, appended \in BOOLEAN
    PROVE  NewDeadline \in BOOLEAN
<1>1. DeadlineAfterAppend \in BOOLEAN
  BY DEF DeadlineAfterAppend
<1>2. CASE command.kind = "Checkpoint"
  BY <1>1, <1>2 DEF NewDeadline
<1>3. CASE command.kind = "Deadline"
  BY <1>3 DEF NewDeadline
<1>4. CASE command.kind = "Cleanup"
  BY <1>4 DEF NewDeadline
<1>5. CASE command.kind \notin {"Checkpoint", "Deadline", "Cleanup"}
  BY <1>1, <1>5 DEF NewDeadline
<1>6. QED
  BY <1>2, <1>3, <1>4, <1>5

\* The outcomes of the store operations that the worker performs.
LEMMA Outcomes ==
    ASSUME OwnerInv, DiskInv
    PROVE  /\ wpc = "append" => \A o \in AppendDelta :
                 o.fault \in BOOLEAN /\ o.result \in Results
           /\ wpc \in {"pressure", "save"} => \A o \in SaveOutcomes(store, durable) :
                 o.fault \in BOOLEAN /\ o.result \in Results
<1>0. /\ store \in Stores /\ durable \in Nat /\ checkpointed \in Nat
      /\ Fits(store, held, durable, checkpointed)
  BY DEF OwnerInv, StoreTypes, QueueTypes, DiskInv
<1>1. ASSUME wpc = "append", NEW o \in AppendDelta
      PROVE  o.fault \in BOOLEAN /\ o.result \in Results
  <2>1. /\ held = batch /\ batch \in RevisionRange
        /\ batch.first = durable + 1 /\ batch.first <= batch.last
    BY <1>1, HeldShape, Appending
  <2>2. o \in AppendOutcomes(store, batch)
    BY <1>1, <2>1 DEF AppendDelta
  <2>3. GoodAppend(o, batch, durable, checkpointed)
    BY <1>0, <2>1, <2>2, AppendFits
  <2>4. QED
    BY <2>3 DEF GoodAppend, Results
<1>2. ASSUME wpc \in {"pressure", "save"}, NEW o \in SaveOutcomes(store, durable)
      PROVE  o.fault \in BOOLEAN /\ o.result \in Results
  <2>1. WalTail(store) = durable
    <3>1. CASE wpc = "pressure"
      BY <3>1 DEF DiskInv
    <3>2. CASE wpc = "save"
      <4>1. held = None
        BY <3>2, HeldShape DEF DiskInv
      <4>2. Fits(store, None, durable, checkpointed)
        BY <4>1, <1>0
      <4>3. QED
        BY <4>2 DEF Fits
    <3>3. QED
      BY <1>2, <3>1, <3>2
  <2>2. GoodSave(o, held, durable, checkpointed)
    BY <1>0, <1>2, <2>1, SaveFits
  <2>3. QED
    BY <2>2 DEF GoodSave, Results
<1>3. QED
  BY <1>1, <1>2

\* A store operation counts at most one fault.
LEMMA PerformCounts ==
    ASSUME NEW o, o.fault \in BOOLEAN, Perform(o), faults \in 0..MaxFaults
    PROVE  faults' \in 0..MaxFaults
<1>1. CASE o.fault = TRUE
  BY <1>1, OwnerAssumption DEF Perform
<1>2. CASE o.fault = FALSE
  BY <1>2 DEF Perform
<1>3. QED
  BY <1>1, <1>2

\* The steps of the worker.
LEMMA FlagWorker ==
    ASSUME OwnerInv, DiskInv, FlagInv, WorkerStep
    PROVE  FlagInv'
<1>1. CASE Recv \/ HandlesDropped \/ TakeBatch
  <2>1. UNCHANGED <<unsurfaced, fatal, armed, appended, result, faults, crashes>>
    BY <1>1 DEF Recv, HandlesDropped, TakeBatch, shared, bounds
  <2>2. QED
    BY <2>1 DEF FlagInv
<1>2. CASE Cleanup \/ AppendEvent
  <2>1. /\ UNCHANGED <<unsurfaced, fatal, armed, appended, crashes>>
        /\ result' \in {"ok", "io"}
        /\ faults' = faults \/ (faults < MaxFaults /\ faults' = faults + 1)
    BY <1>2 DEF Cleanup, AppendEvent, shared
  <2>2. faults' \in 0..MaxFaults
    BY <2>1, OwnerAssumption DEF FlagInv
  <2>3. QED
    BY <2>1, <2>2 DEF FlagInv, Results
<1>3. CASE NothingToAppend
  <2>1. /\ UNCHANGED <<fatal, armed, appended, faults, crashes>>
        /\ result' \in {"fatal", "unavailable", "prior", "ok"}
        /\ unsurfaced' = FALSE \/ unsurfaced' = unsurfaced
    BY <1>3 DEF NothingToAppend, bounds
  <2>2. QED
    BY <2>1 DEF FlagInv, Results
<1>4. CASE AppendSucceeds
  <2>1. PICK o \in AppendDelta : Perform(o)
    BY <1>4 DEF AppendSucceeds
  <2>2. faults' \in 0..MaxFaults
    BY <1>4, <2>1, Outcomes, PerformCounts DEF AppendSucceeds, FlagInv
  <2>3. /\ UNCHANGED <<unsurfaced, fatal, armed, crashes>>
        /\ appended' = TRUE /\ result' \in {result, "ok"}
    BY <1>4 DEF AppendSucceeds, shared
  <2>4. QED
    BY <2>2, <2>3 DEF FlagInv, Results
<1>5. CASE MaterializeFails
  <2>1. /\ faults < MaxFaults /\ faults' = faults + 1
        /\ appended' = TRUE /\ fatal' = TRUE /\ unsurfaced' = FALSE
        /\ result' = "fatal" /\ UNCHANGED <<armed, crashes>>
    BY <1>5 DEF MaterializeFails
  <2>2. faults' \in 0..MaxFaults
    BY <2>1, OwnerAssumption DEF FlagInv
  <2>3. QED
    BY <2>1, <2>2 DEF FlagInv, Results
<1>6. CASE AppendFails
  <2>1. PICK o \in AppendDelta :
           /\ Perform(o)
           /\ \/ UNCHANGED <<unsurfaced, result>>
              \/ result' = o.result /\ unsurfaced' = ~Surfaces(command)
    BY <1>6 DEF AppendFails
  <2>2. o.fault \in BOOLEAN /\ o.result \in Results
    BY <1>6, Outcomes DEF AppendFails
  <2>3. faults' \in 0..MaxFaults
    BY <2>1, <2>2, PerformCounts DEF FlagInv
  <2>4. UNCHANGED <<fatal, armed, appended, crashes>>
    BY <1>6 DEF AppendFails
  <2>5. unsurfaced' \in BOOLEAN
    BY <2>1 DEF FlagInv
  <2>6. result' \in Results
    BY <2>1, <2>2 DEF FlagInv
  <2>7. QED
    BY <2>3, <2>4, <2>5, <2>6 DEF FlagInv
<1>7. CASE SaveForPressure
  <2>1. PICK o \in SaveOutcomes(store, durable) :
           /\ Perform(o)
           /\ \/ UNCHANGED <<unsurfaced, result>>
              \/ result' = o.result /\ unsurfaced' = ~Surfaces(command)
    BY <1>7 DEF SaveForPressure
  <2>2. o.fault \in BOOLEAN /\ o.result \in Results
    BY <1>7, Outcomes DEF SaveForPressure
  <2>3. faults' \in 0..MaxFaults
    BY <2>1, <2>2, PerformCounts DEF FlagInv
  <2>4. UNCHANGED <<fatal, armed, appended, crashes>>
    BY <1>7 DEF SaveForPressure
  <2>5. unsurfaced' \in BOOLEAN
    BY <2>1 DEF FlagInv
  <2>6. result' \in Results
    BY <2>1, <2>2 DEF FlagInv
  <2>7. QED
    BY <2>3, <2>4, <2>5, <2>6 DEF FlagInv
<1>8. CASE SaveImage
  <2>1. PICK o \in SaveOutcomes(store, durable) :
           Perform(o) /\ result' = o.result
    BY <1>8 DEF SaveImage
  <2>2. o.fault \in BOOLEAN /\ o.result \in Results
    BY <1>8, Outcomes DEF SaveImage
  <2>3. faults' \in 0..MaxFaults
    BY <2>1, <2>2, PerformCounts DEF FlagInv
  <2>4. UNCHANGED <<unsurfaced, fatal, armed, appended, crashes>>
    BY <1>8 DEF SaveImage
  <2>5. QED
    BY <2>1, <2>2, <2>3, <2>4 DEF FlagInv
<1>9. CASE Reply
  <2>1. /\ armed' = NewDeadline /\ appended' = FALSE /\ result' = "ok"
        /\ UNCHANGED <<unsurfaced, fatal, faults, crashes>>
    BY <1>9 DEF Reply, shared, bounds
  <2>2. armed' \in BOOLEAN
    BY <2>1, NewDeadlineType DEF FlagInv
  <2>3. QED
    BY <2>1, <2>2 DEF FlagInv, Results
<1>10. QED
  BY <1>1, <1>2, <1>3, <1>4, <1>5, <1>6, <1>7, <1>8, <1>9 DEF WorkerStep

\* Nobody else touches the flags; a restart resets them.
LEMMA FlagInvStep == OwnerInv /\ DiskInv /\ FlagInv /\ [Next]_vars => FlagInv'
<1> SUFFICES ASSUME OwnerInv, DiskInv, FlagInv, [Next]_vars
             PROVE  FlagInv'
  OBVIOUS
<1>1. CASE WorkerStep
  BY <1>1, FlagWorker
<1>2. CASE \/ DeadlineExpires \/ ShutdownStep \/ Terminated \/ UNCHANGED vars
           \/ \E t \in Threads : ThreadStep(t) \/ ThreadChoice(t)
  <2>1. UNCHANGED <<unsurfaced, fatal, armed, appended, result, faults, crashes>>
    BY <1>2 DEF DeadlineExpires, ShutdownStep, ShutdownBegin, ShutdownTarget,
         ShutdownSend, ShutdownTimeout, DropOwner, Terminated, vars, shared,
         worker, bounds, ThreadStep, StageLocked, StageDelta, StageRefused,
         TryWake, Send, Disconnected, ThreadChoice, StageBegin,
         BootNothingToStage, Proceed, CallStaged, CallIdle, Admit, CallRefused
  <2>2. QED
    BY <2>1 DEF FlagInv
<1>3. CASE Restart
  <2>1. PICK s \in survivors : Started(Repaired(s))
    BY <1>3 DEF Restart
  <2>2. /\ unsurfaced' = FALSE /\ fatal' = FALSE /\ appended' = FALSE
        /\ result' = "ok" /\ armed' \in BOOLEAN
    BY <2>1 DEF Started
  <2>3. crashes' \in 0..MaxCrashes /\ faults' = faults
    BY <1>3, OwnerAssumption DEF Restart, FlagInv
  <2>4. QED
    BY <2>2, <2>3 DEF FlagInv, Results
<1>4. QED
  BY <1>1, <1>2, <1>3 DEF Next

\* The flags of a new owner.
LEMMA FlagInvInit == Init => FlagInv
<1>1. 0 \in 0..MaxFaults /\ 0 \in 0..MaxCrashes /\ "ok" \in Results
  BY OwnerAssumption DEF Results
<1>2. Init => /\ unsurfaced = FALSE /\ fatal = FALSE /\ armed = FALSE
              /\ appended = FALSE /\ result = "ok" /\ faults = 0 /\ crashes = 0
  BY DEF Init
<1>3. QED
  BY <1>1, <1>2 DEF FlagInv

\* The ranges of revisions that the owner has are between 1 and the bound.
LEMMA TypesFollow ==
    ASSUME OwnerInv, DiskInv, CallInv, PromiseInv, FlagInv
    PROVE  TypeOK
<1>1. /\ nextRevision \in 0..MaxRevision /\ nextRevision \in Nat
      /\ MaxRevision \in Nat /\ durable \in Nat /\ checkpointed \in Nat
      /\ durable <= nextRevision /\ checkpointed <= durable
  BY Numbers, OwnerAssumption DEF CallInv, WorkerOK
<1>2. durable \in 0..nextRevision /\ checkpointed \in 0..durable
  BY <1>1
<1>3. batch \in Ranges \cup {None} /\ retry \in Ranges \cup {None}
  <2>1. held \in Ranges \cup {None}
    <3>1. CASE held # None
      <4>1. /\ held \in RevisionRange /\ held.first \in 1..MaxRevision
            /\ held.last \in 1..MaxRevision
        BY <3>1, <1>1, HeldShape DEF RevisionRange
      <4>2. QED
        BY <4>1 DEF Ranges, RevisionRange
    <3>2. QED
      BY <3>1
  <2>2. batch = None \/ retry = None
    BY DEF OwnerInv, NothingLost
  <2>3. QED
    BY <2>1, <2>2 DEF held
<1>4. pending \in Ranges \cup {None}
  <2>1. CASE pending # None
    <3>1. pending \in RevisionRange /\ pending.first <= pending.last
      BY <2>1 DEF OwnerInv, QueueTypes, PendingNonEmpty
    <3>2. /\ pending.first = (IF held = None THEN durable ELSE held.last) + 1
          /\ pending.last = nextRevision
      BY <2>1 DEF OwnerInv, NothingLost, held
    <3>3. (IF held = None THEN durable ELSE held.last) \in Nat
      BY <1>1, HeldShape DEF RevisionRange
    <3>4. pending.first \in 1..MaxRevision /\ pending.last \in 1..MaxRevision
      BY <1>1, <3>1, <3>2, <3>3 DEF RevisionRange
    <3>5. QED
      BY <3>1, <3>4 DEF Ranges, RevisionRange
  <2>2. QED
    BY <2>1
<1>5. admitted \subseteq Threads
  <2>1. \A r \in 1..checkpointed : staged[r] \in Threads
    BY <1>1 DEF PromiseInv
  <2>2. QED
    BY <2>1 DEF PromiseInv, TasksThrough
<1>6. promised \in 0..MaxRevision
  BY <1>1 DEF PromiseInv
<1>7. finished \in 0..MaxRevision \cup {None}
  BY <1>1 DEF PromiseInv, ShutdownCovers
<1>8. command \in Commands \cup {None} /\ trev \in [Threads -> 0..MaxRevision]
  <2>1. 0..nextRevision \subseteq 0..MaxRevision
    BY <1>1
  <2>2. QED
    BY <2>1 DEF CallInv, WorkerOK, ThreadsOK, Legit
<1>9. /\ store \in Stores /\ survivors \subseteq Stores
      /\ unsurfaced \in BOOLEAN /\ fatal \in BOOLEAN /\ armed \in BOOLEAN
      /\ appended \in BOOLEAN /\ result \in Results
      /\ faults \in 0..MaxFaults /\ crashes \in 0..MaxCrashes
      /\ staged \in Seq(Threads) /\ Len(staged) = nextRevision
  BY DEF OwnerInv, StoreTypes, FlagInv, PromiseInv
<1>10. /\ accepting \in BOOLEAN /\ admissionLane \in Threads \cup {None}
       /\ channel \in Seq(Commands) /\ Len(channel) <= COMMAND_CAPACITY
       /\ wpc \in WorkerStates /\ tpc \in [Threads -> ThreadStates]
       /\ request \in [Threads -> Commands \cup {None}]
       /\ boot \in BootStates
       /\ shutdown \in [pc : ShutdownStates, target : 0..MaxRevision]
  BY DEF CallInv, WorkerOK, ThreadsOK, ShutdownOK, ChannelOK
<1>11. QED
  BY <1>1, <1>2, <1>3, <1>4, <1>5, <1>6, <1>7, <1>8, <1>9, <1>10
     DEF TypeOK, Results, WorkerStates, ThreadStates, BootStates, ShutdownStates

\* load, append_delta, save_current_image and start_with_backend: whatever a
\* power failure leaves replays, to at least what callers were promised, from a
\* checkpoint that knows every admitted task.
THEOREM SurvivorsAlwaysServe == Spec => []SurvivorsServe
<1>1. OwnerInv /\ DiskInv /\ CallInv /\ PromiseInv /\ FlagInv => SurvivorsServe
  <2> SUFFICES ASSUME OwnerInv, DiskInv, CallInv, PromiseInv, FlagInv
               PROVE  SurvivorsServe
    OBVIOUS
  <2>1. TypeOK
    BY TypesFollow
  <2>2. AlwaysReplayable
    BY RestartFits DEF AlwaysReplayable
  <2>3. AckedDurable
    <3>1. \A s \in survivors : /\ ReplayedRevision(s) \in Nat
                               /\ durable <= ReplayedRevision(s)
      BY RestartFits
    <3>2. QED
      BY <3>1, Numbers DEF AckedDurable, PromiseInv
  <2>4. AdmittedIsCheckpointed
    <3>1. \A s \in survivors : 1..checkpointed \subseteq 1..s.ckpt
      BY RestartFits, Numbers
    <3>2. QED
      BY <3>1 DEF AdmittedIsCheckpointed, PromiseInv, TasksThrough
  <2>5. QED
    BY <2>1, <2>2, <2>3, <2>4 DEF SurvivorsServe
<1>2. QED
  BY <1>1, OwnerInvInit, OwnerInvStep, DiskInvInit, DiskInvStep, CallInvInit,
     CallInvStep, PromiseInvInit, PromiseInvStep, FlagInvInit, FlagInvStep, PTL
     DEF Spec

-----------------------------------------------------------------------------
(***************************************************************************)
(* The content of a batch.  PersistenceOwner takes a batch for its range   *)
(* of revisions, whether it was staged at once or coalesced, and appends   *)
(* it to a log that is later replayed batch by batch.  For task records    *)
(* that is right: coalesced, two batches do what they do one after the     *)
(* other, and the fast path does what replay does.  The watches of a batch *)
(* are sequences that are filtered; they need an induction and stay with   *)
(* the model checker.                                                      *)
(***************************************************************************)

Delta == INSTANCE RegistryBatch

\* Both sides of the equations below are functions built by Override; they are
\* equal when they agree on their domains and on every key.
LEMMA OverrideEqual ==
    ASSUME NEW f, NEW g, NEW h, NEW i,
           DOMAIN f \cup DOMAIN g = DOMAIN h \cup DOMAIN i,
           \A k \in DOMAIN f \cup DOMAIN g :
              (IF k \in DOMAIN g THEN g[k] ELSE f[k])
                 = (IF k \in DOMAIN i THEN i[k] ELSE h[k])
    PROVE  Delta!Override(f, g) = Delta!Override(h, i)
BY DEF Delta!Override

\* merge_later_wins on task records: applying the coalesced batch is applying
\* the earlier batch and then the later one, whatever keys they share and
\* whether or not the batches are valid.
THEOREM MergeTasksComposes ==
    ASSUME NEW b, NEW later, NEW tasks
    PROVE  Delta!ApplyTasks(Delta!merge_later_wins(b, later), tasks)
              = Delta!ApplyTasks(later, Delta!ApplyTasks(b, tasks))
<1> DEFINE ups == Delta!MergedTaskUpserts(b, later)
           rem == Delta!MergedTaskRemovals(b, later)
           first == Delta!Override(Delta!Without(tasks, b.task_removals), b.task_upserts)
<1>1. /\ Delta!merge_later_wins(b, later).task_upserts = ups
      /\ Delta!merge_later_wins(b, later).task_removals = rem
  BY DEF Delta!merge_later_wins
<1>2. /\ DOMAIN ups = (DOMAIN b.task_upserts \ later.task_removals)
                         \cup DOMAIN later.task_upserts
      /\ \A k \in DOMAIN later.task_upserts : ups[k] = later.task_upserts[k]
      /\ \A k \in (DOMAIN b.task_upserts \ later.task_removals)
                     \ DOMAIN later.task_upserts : ups[k] = b.task_upserts[k]
  BY DEF Delta!MergedTaskUpserts, Delta!Override, Delta!Without
<1>3. /\ DOMAIN first = (DOMAIN tasks \ b.task_removals) \cup DOMAIN b.task_upserts
      /\ \A k \in DOMAIN b.task_upserts : first[k] = b.task_upserts[k]
      /\ \A k \in (DOMAIN tasks \ b.task_removals) \ DOMAIN b.task_upserts :
            first[k] = tasks[k]
  BY DEF Delta!Override, Delta!Without
<1> HIDE DEF ups, first
<1>4. DOMAIN Delta!Without(tasks, rem) \cup DOMAIN ups
         = DOMAIN Delta!Without(first, later.task_removals)
              \cup DOMAIN later.task_upserts
  BY <1>2, <1>3 DEF Delta!MergedTaskRemovals, Delta!Without
<1>5. ASSUME NEW k \in DOMAIN Delta!Without(tasks, rem) \cup DOMAIN ups
      PROVE  (IF k \in DOMAIN ups THEN ups[k] ELSE Delta!Without(tasks, rem)[k])
                = (IF k \in DOMAIN later.task_upserts
                   THEN later.task_upserts[k]
                   ELSE Delta!Without(first, later.task_removals)[k])
  <2>1. CASE k \in DOMAIN later.task_upserts
    BY <2>1, <1>2
  <2>2. CASE k \in DOMAIN ups /\ k \notin DOMAIN later.task_upserts
    BY <2>2, <1>2, <1>3 DEF Delta!Without
  <2>3. CASE k \notin DOMAIN ups
    BY <2>3, <1>2, <1>3, <1>5 DEF Delta!MergedTaskRemovals, Delta!Without
  <2>4. QED
    BY <2>1, <2>2, <2>3
<1>6. Delta!Override(Delta!Without(tasks, rem), ups)
         = Delta!Override(Delta!Without(first, later.task_removals), later.task_upserts)
  BY <1>4, <1>5, OverrideEqual
<1>7. QED
  BY <1>1, <1>6 DEF Delta!ApplyTasks, first, ups

\* preserves_authenticated_relationships: on the fast path inserting the
\* upserted tasks is all that apply_to would have done to the tasks, no task
\* appears or disappears, and no task changes the watches it lists, which is
\* why the relationships need no new validation.
THEOREM FastPathAgrees ==
    ASSUME NEW b, NEW tasks, Delta!Preserves(b, tasks)
    PROVE  /\ Delta!Override(tasks, b.task_upserts) = Delta!ApplyTasks(b, tasks)
           /\ DOMAIN Delta!Override(tasks, b.task_upserts) = DOMAIN tasks
           /\ \A t \in DOMAIN tasks :
                 Delta!Override(tasks, b.task_upserts)[t].watch_ids
                    = tasks[t].watch_ids
<1>1. /\ DOMAIN Delta!Without(tasks, b.task_removals) = DOMAIN tasks
      /\ \A k \in DOMAIN tasks : Delta!Without(tasks, b.task_removals)[k] = tasks[k]
  BY DEF Delta!Preserves, Delta!Without
<1>2. Delta!Override(tasks, b.task_upserts) = Delta!ApplyTasks(b, tasks)
  BY <1>1 DEF Delta!ApplyTasks, Delta!Override
<1>3. DOMAIN b.task_upserts \subseteq DOMAIN tasks
  BY DEF Delta!Preserves
<1>4. DOMAIN Delta!Override(tasks, b.task_upserts) = DOMAIN tasks
  BY <1>3 DEF Delta!Override
<1>5. ASSUME NEW t \in DOMAIN tasks
      PROVE  Delta!Override(tasks, b.task_upserts)[t].watch_ids = tasks[t].watch_ids
  BY DEF Delta!Preserves, Delta!Override
<1>6. QED
  BY <1>2, <1>4, <1>5

=============================================================================
