------------------------- MODULE TaskAdmissionProofs -------------------------
(***************************************************************************)
(* Proofs about the life of a task, for any threads, watches, scenarios    *)
(* and number of generations.                                              *)
(*                                                                         *)
(* A thread that emits an event is at the label it will continue at, its   *)
(* Site.  The invariant is built in layers, each preserved with the help   *)
(* of the ones before it:                                                  *)
(*   types and shape   what frame and leases a thread has at its site, and *)
(*                     from where it can have come there (Flow);           *)
(*   lane and tokens   leases are those of the active generation; a thread *)
(*                     that ends a generation has cancelled it, and past   *)
(*                     its wait nobody holds a lease of it;                *)
(*   children, watches and terminal records                                *)
(*                     processes, watchers and records go before their     *)
(*                     generation does;                                    *)
(*   the log           appends keep the order of generations, and the      *)
(*                     record stays within the log;                        *)
(*   sequences, runs and owners                                            *)
(*                     a live generation has one runner, and a queued      *)
(*                     replan a thread that is about to claim it.          *)
(* AdmissionInv is their conjunction.                                      *)
(***************************************************************************)
EXTENDS TaskAdmission, TLAPS

-----------------------------------------------------------------------------
(* Types *)

CancelSites == {"remove", "quiesce", "complete", "cancel_publish"}

InstallSites == {"install", "install_publish"}

RollbackSites == {"rollback", "rollback_quiesce", "rollback_clean", "rollback_final"}

\* Before the end of a run, and with it.
RunnerSites == {"claimed", "started", "execute"}

RunSites == RunnerSites \cup {"refreshed", "ended"}

\* Where a thread continues after an event.
Returns == {"done", "replan", "execute", "refreshed", "ended", "release", "reap"}

Ops == {"none", "submit", "cancel", "watch", "recovered", "launch", "waiter", "write"}

EventKinds ==
    {"task_started", "step_completed", "context_updated", "task_failed", "task_completed",
     "watch_triggered", "watch_error", "agent_launch_started", "agent_launch_completed"}

Kinds == EventKinds \cup {"none", "task_cancelled"} \cup WatchIds

Entries == [gen : Nat, kind : Kinds, ok : BOOLEAN]

Frames ==
    [op : Ops, ids : SUBSET WatchIds, gen : Nat, todo : SUBSET WatchIds,
     replaced : Records \cup {None}, initial : BOOLEAN,
     fence : {"Unfenced", "Initial", "RecoveredReplan"},
     run : Nat, ok : BOOLEAN, rerun : BOOLEAN, kind : Kinds, for : Nat,
     ret : Labels, res : {"none", "true", "false", "error"}, seq : Nat]

Leases == [op : Nat, run : Nat, event : Nat, launch : Nat]

TaskOK == task \in Records \cup {None}
WatchesOK == watches \subseteq WatchIds
HandlesOK == handles \in [WatchIds -> Nat]
TokensOK ==
    /\ nextId \in 0..MaxGenerations
    /\ current \in {0, nextId}
    /\ cancelled \subseteq 1..nextId
ProcOK == children \subseteq Generations /\ proc \in [Generations -> {"none", "gated", "running", "dead"}]
FiredOK == fired \subseteq WatchIds \X (1..nextId)
FlagsOK == requested \in BOOLEAN /\ stopping \in BOOLEAN
LogOK == log \in Seq(Entries) /\ lane \in Threads \cup {None}
PcOK == pc \in [Threads -> Labels]
FrOK == fr \in [Threads -> Frames]
LeaseOK == lease \in [Threads -> Leases]
GenOK == \A c \in Threads : fr[c].gen <= nextId
LimitsOK == limits \in Scenarios

\* Every variable has its type.
TypeInv ==
    /\ TaskOK /\ WatchesOK /\ HandlesOK /\ TokensOK /\ ProcOK /\ FiredOK /\ FlagsOK /\ LogOK
    /\ PcOK /\ FrOK /\ LeaseOK /\ GenOK /\ LimitsOK

ThreadOK == PcOK /\ FrOK /\ LeaseOK

Others(c) ==
    \A d \in Threads \ {c} : pc'[d] = pc[d] /\ fr'[d] = fr[d] /\ lease'[d] = lease[d]

\* Thread c goes to label p with frame f and leases l.
Moves(c, p, f, l) ==
    /\ ThreadOK'
    /\ pc'[c] = p /\ fr'[c] = f /\ lease'[c] = l
    /\ Others(c)

\* The frame and the leases of an idle thread.
LEMMA NoFrameType == NoFrame \in Frames /\ NoLease \in Leases
BY DEF NoFrame, Frames, NoLease, Leases, Ops, Kinds, Labels

\* Assignments to one thread's label, frame and leases are a move of that thread.
LEMMA MovesTo ==
    ASSUME ThreadOK, NEW c \in Threads, NEW p \in Labels, NEW f \in Frames, NEW l \in Leases,
           pc' = [pc EXCEPT ![c] = p], fr' = [fr EXCEPT ![c] = f], lease' = [lease EXCEPT ![c] = l]
    PROVE  Moves(c, p, f, l)
BY DEF ThreadOK, PcOK, FrOK, LeaseOK, Moves, Others

\* An operation that returns leaves its thread idle.
LEMMA ReturnMoves ==
    ASSUME ThreadOK, NEW c \in Threads, Return(c)
    PROVE  Moves(c, "idle", NoFrame, NoLease)
BY NoFrameType, MovesTo DEF Return, Goto, Labels

\* A frame that calls emit_task_event_ordered.
Emits(f, kind, for, ret) == [f EXCEPT !.kind = kind, !.for = for, !.ret = ret]

\* A call of emit_task_event_ordered moves its thread to the event.
LEMMA CallEmitMoves ==
    ASSUME ThreadOK, NEW c \in Threads, NEW f \in Frames, NEW kind \in Kinds, NEW for \in Nat,
           NEW ret \in Labels, CallEmit(c, f, kind, for, ret), lease'[c] \in Leases,
           lease' = [lease EXCEPT ![c] = lease'[c]]
    PROVE  Moves(c, "emit", Emits(f, kind, for, ret), lease'[c])
<1>1. Emits(f, kind, for, ret) \in Frames
  BY DEF Emits, Frames
<1>2. QED
  BY <1>1, MovesTo DEF CallEmit, Goto, Labels, Emits

\* What the type invariant says of one thread.
LEMMA Threads0 == ASSUME TypeInv PROVE ThreadOK /\ \A c \in Threads : fr[c] \in Frames /\ lease[c] \in Leases /\ pc[c] \in Labels
BY DEF TypeInv, ThreadOK, PcOK, FrOK, LeaseOK

\* Frames and leases with one or two fields changed.
LEMMA FrameTypes ==
    ASSUME NEW f \in Frames, NEW l \in Leases, NEW g \in Nat, NEW ids \in SUBSET WatchIds
    PROVE  /\ [f EXCEPT !.res = "error"] \in Frames /\ [f EXCEPT !.res = "false"] \in Frames
           /\ [f EXCEPT !.seq = g] \in Frames
           /\ [f EXCEPT !.res = "error", !.seq = 0] \in Frames
           /\ [f EXCEPT !.res = "true", !.seq = 0] \in Frames
           /\ [f EXCEPT !.gen = g, !.todo = ids] \in Frames
           /\ [f EXCEPT !.todo = ids] \in Frames
           /\ [f EXCEPT !.initial = FALSE, !.todo = {}] \in Frames
           /\ [f EXCEPT !.initial = TRUE, !.run = 0] \in Frames
           /\ [f EXCEPT !.for = 0, !.kind = "none"] \in Frames
           /\ [f EXCEPT !.for = 0, !.kind = "none", !.todo = {}] \in Frames
           /\ [f EXCEPT !.fence = "Initial"] \in Frames
           /\ [f EXCEPT !.run = g] \in Frames
           /\ [l EXCEPT !.op = g] \in Leases /\ [l EXCEPT !.run = g] \in Leases
           /\ [l EXCEPT !.event = g] \in Leases /\ [l EXCEPT !.op = g, !.launch = g] \in Leases
<1>1. /\ [f EXCEPT !.res = "error"] \in Frames /\ [f EXCEPT !.res = "false"] \in Frames
      /\ [f EXCEPT !.seq = g] \in Frames
      /\ [f EXCEPT !.res = "error", !.seq = 0] \in Frames
      /\ [f EXCEPT !.res = "true", !.seq = 0] \in Frames
  BY DEF Frames
<1>2. /\ [f EXCEPT !.gen = g, !.todo = ids] \in Frames
      /\ [f EXCEPT !.todo = ids] \in Frames
      /\ [f EXCEPT !.initial = FALSE, !.todo = {}] \in Frames
      /\ [f EXCEPT !.initial = TRUE, !.run = 0] \in Frames
      /\ [f EXCEPT !.fence = "Initial"] \in Frames
      /\ [f EXCEPT !.run = g] \in Frames
  BY DEF Frames
<1>3. /\ [f EXCEPT !.for = 0, !.kind = "none"] \in Frames
      /\ [f EXCEPT !.for = 0, !.kind = "none", !.todo = {}] \in Frames
  BY DEF Frames, Kinds
<1>4. QED
  BY <1>1, <1>2, <1>3 DEF Leases

\* The entry of an event and of a cancellation; ok: its append succeeds.
EventGen(c) == IF fr[c].for = 0 THEN Ensured ELSE fr[c].for

EventEntry(c, ok) == Entry(EventGen(c), fr[c].kind, ok)

CancelEntry(c, ok) == Entry(fr[c].gen, "task_cancelled", ok)

\* Entries have their type, and a log grows by one of them.
LEMMA EntryTypes ==
    ASSUME TypeInv, NEW c \in Threads, NEW ok \in BOOLEAN
    PROVE  /\ EventEntry(c, ok) \in Entries /\ CancelEntry(c, ok) \in Entries
           /\ EventEntry(c, ok).ok = ok /\ CancelEntry(c, ok).ok = ok
           /\ EventEntry(c, ok).gen = EventGen(c) /\ CancelEntry(c, ok).gen = fr[c].gen
           /\ EventEntry(c, ok).kind = fr[c].kind /\ CancelEntry(c, ok).kind = "task_cancelled"
           /\ EventGen(c) \in Nat
<1>1. fr[c] \in Frames
  BY Threads0
<1>2. EventGen(c) \in Nat /\ fr[c].gen \in Nat /\ fr[c].kind \in Kinds /\ "task_cancelled" \in Kinds
  BY <1>1 DEF EventGen, Ensured, TypeInv, TokensOK, Frames, Kinds
<1>3. QED
  BY <1>2 DEF EventEntry, CancelEntry, Entry, Entries

\* One more entry in the log.
LEMMA LogAppends ==
    ASSUME TypeInv, NEW e \in Entries, log' = Append(log, e)
    PROVE  log' \in Seq(Entries) /\ Len(log') \in Nat
<1>1. log \in Seq(Entries)
  BY DEF TypeInv, LogOK
<1>2. log' \in Seq(Entries)
  BY <1>1
<1>3. QED
  BY <1>2

\* A failed append leaves the log alone, or leaves the entry in it.
Failed(entry) == UNCHANGED lane /\ (UNCHANGED log \/ log' = Append(log, entry))

\* How an event is appended, fails, or is refused.
LEMMA EmitAppendMoves ==
    ASSUME TypeInv, NEW c \in Threads, EmitAppend(c)
    PROVE  \/ /\ EventAdmitted(fr[c])
              /\ Moves(c, "emit_publish", [fr[c] EXCEPT !.seq = Len(log')],
                   [lease[c] EXCEPT !.event = EventGen(c)])
              /\ lane' = c
              /\ log' = Append(log, EventEntry(c, TRUE))
           \/ /\ EventAdmitted(fr[c]) /\ Failed(EventEntry(c, FALSE))
              /\ Moves(c, fr[c].ret, [fr[c] EXCEPT !.res = "error"], lease[c])
           \/ /\ ~EventAdmitted(fr[c]) /\ UNCHANGED events
              /\ Moves(c, fr[c].ret, [fr[c] EXCEPT !.res = "false"], lease[c])
<1> DEFINE g == EventGen(c)
<1>1. ThreadOK /\ fr[c] \in Frames /\ lease[c] \in Leases /\ fr[c].ret \in Labels /\ fr[c].for \in Nat
  BY Threads0 DEF Frames
<1>2. g \in Nat /\ EventEntry(c, TRUE) \in Entries
  BY EntryTypes
<1>4. CASE /\ EventAdmitted(fr[c]) /\ lane' = c
           /\ log' = Append(log, EventEntry(c, TRUE))
           /\ lease' = [lease EXCEPT ![c].event = g]
           /\ fr' = [fr EXCEPT ![c].seq = Len(log')] /\ Goto(c, "emit_publish")
  <2>1. Len(log') \in Nat
    BY <1>2, <1>4, LogAppends
  <2>2. [fr[c] EXCEPT !.seq = Len(log')] \in Frames /\ [lease[c] EXCEPT !.event = g] \in Leases
    BY <1>1, <1>2, <2>1, FrameTypes
  <2> HIDE DEF g
  <2>3. Moves(c, "emit_publish", [fr[c] EXCEPT !.seq = Len(log')], [lease[c] EXCEPT !.event = g])
    BY <1>1, <1>4, <2>2, MovesTo DEF Goto, Labels
  <2>4. QED
    BY <1>4, <2>3 DEF g
<1>5. CASE /\ EventAdmitted(fr[c]) /\ fr' = [fr EXCEPT ![c].res = "error"]
           /\ Goto(c, fr[c].ret) /\ UNCHANGED lease /\ Failed(EventEntry(c, FALSE))
  <2>1. [fr[c] EXCEPT !.res = "error"] \in Frames
    BY <1>1, FrameTypes
  <2>2. Moves(c, fr[c].ret, [fr[c] EXCEPT !.res = "error"], lease[c])
    BY <1>1, <1>5, <2>1, MovesTo DEF Goto, ThreadOK, LeaseOK
  <2>3. QED
    BY <1>5, <2>2
<1>6. CASE /\ ~EventAdmitted(fr[c]) /\ fr' = [fr EXCEPT ![c].res = "false"]
           /\ Goto(c, fr[c].ret) /\ UNCHANGED <<events, lease>>
  <2>1. [fr[c] EXCEPT !.res = "false"] \in Frames
    BY <1>1, FrameTypes
  <2>2. Moves(c, fr[c].ret, [fr[c] EXCEPT !.res = "false"], lease[c])
    BY <1>1, <1>6, <2>1, MovesTo DEF Goto, ThreadOK, LeaseOK
  <2>3. QED
    BY <1>6, <2>2
<1>7. QED
  BY <1>4, <1>5, <1>6 DEF EmitAppend, AppendFails, Failed, EventEntry, EventGen

\* The end of a publication goes back to the caller with the outcome.
LEMMA EmitPublishMoves ==
    ASSUME TypeInv, NEW c \in Threads, EmitPublish(c)
    PROVE  \E r \in {"true", "error"} :
              Moves(c, fr[c].ret, [fr[c] EXCEPT !.res = r, !.seq = 0], [lease[c] EXCEPT !.event = 0])
<1>1. ThreadOK /\ fr[c] \in Frames /\ lease[c] \in Leases /\ fr[c].ret \in Labels
  BY Threads0 DEF Frames
<1>2. [lease[c] EXCEPT !.event = 0] \in Leases
  BY <1>1, FrameTypes
<1>3. ASSUME NEW r \in {"true", "error"}, fr' = [fr EXCEPT ![c].res = r, ![c].seq = 0]
      PROVE  Moves(c, fr[c].ret, [fr[c] EXCEPT !.res = r, !.seq = 0], [lease[c] EXCEPT !.event = 0])
  <2>1. [fr[c] EXCEPT !.res = r, !.seq = 0] \in Frames
    BY <1>1, FrameTypes
  <2>2. fr' = [fr EXCEPT ![c] = [fr[c] EXCEPT !.res = r, !.seq = 0]]
    BY <1>1, <1>3 DEF ThreadOK, FrOK
  <2>3. QED
    BY <1>1, <1>2, <2>1, <2>2, MovesTo DEF EmitPublish, Goto
<1>4. QED
  BY <1>3 DEF EmitPublish

\* A step that changes one of frame and leases, or none.
LEMMA MovesSame ==
    ASSUME TypeInv, NEW c \in Threads, NEW p \in Labels, Goto(c, p), UNCHANGED lease
    PROVE  /\ UNCHANGED fr => Moves(c, p, fr[c], lease[c])
           /\ \A f \in Frames : fr' = [fr EXCEPT ![c] = f] => Moves(c, p, f, lease[c])
<1>1. ThreadOK /\ fr[c] \in Frames /\ lease[c] \in Leases
  BY Threads0
<1>2. lease' = [lease EXCEPT ![c] = lease[c]]
  BY DEF TypeInv, LeaseOK
<1>3. UNCHANGED fr => fr' = [fr EXCEPT ![c] = fr[c]]
  BY DEF TypeInv, FrOK
<1>4. QED
  BY <1>1, <1>2, <1>3, MovesTo DEF Goto

\* A cancellation returns, or a submission goes on to register.
LEMMA AfterCancelMoves ==
    ASSUME TypeInv, NEW c \in Threads, NEW ok, AfterCancel(c, ok)
    PROVE  \/ Moves(c, "idle", NoFrame, NoLease)
           \/ /\ ok /\ fr[c].op = "submit"
              /\ Moves(c, "register", [NoFrame EXCEPT !.op = "submit", !.ids = fr[c].ids], lease[c])
<1>1. ThreadOK /\ fr[c] \in Frames
  BY Threads0
<1>2. [NoFrame EXCEPT !.op = "submit", !.ids = fr[c].ids] \in Frames
  BY <1>1, NoFrameType DEF Frames, Ops
<1>3. QED
  BY <1>1, <1>2, ReturnMoves, MovesSame DEF AfterCancel, Labels

\* A cancellation leaves a terminal task alone, or cancels its generation.
LEMMA CancelRequestMoves ==
    ASSUME TypeInv, NEW c \in Threads, CancelRequest(c)
    PROVE  \/ /\ task = None \/ task.life = "Cancelled"
              /\ AfterCancel(c, TRUE) /\ UNCHANGED <<task, tokens>>
           \/ /\ task # None /\ task.life # "Cancelled"
              /\ Ensure /\ cancelled' = cancelled \cup {Ensured}
              /\ task' = [task EXCEPT !.life = "Cancelling"]
              /\ Moves(c, "remove", [fr[c] EXCEPT !.gen = Ensured, !.todo = task.ids], lease[c])
<1>1. ThreadOK /\ fr[c] \in Frames
  BY Threads0
<1>2. task # None => [fr[c] EXCEPT !.gen = Ensured, !.todo = task.ids] \in Frames
  <2>1. Ensured \in Nat /\ (task # None => task.ids \subseteq WatchIds)
    BY DEF Ensured, TypeInv, TokensOK, TaskOK, Records
  <2>2. QED
    BY <1>1, <2>1 DEF Frames
<1>3. QED
  BY <1>1, <1>2, MovesSame DEF CancelRequest, Labels, TypeInv, FrOK

\* A cancellation removes one of the watches it read.
LEMMA CancelRemoveWatchMoves ==
    ASSUME TypeInv, NEW c \in Threads, CancelRemoveWatch(c)
    PROVE  \E w \in fr[c].todo :
              RemoveWatch(w) /\ Moves(c, "remove", [fr[c] EXCEPT !.todo = @ \ {w}], lease[c])
<1>1. ThreadOK /\ fr[c] \in Frames /\ fr[c].todo \subseteq WatchIds
  BY Threads0 DEF Frames
<1>2. PICK w \in fr[c].todo : RemoveWatch(w) /\ fr' = [fr EXCEPT ![c].todo = @ \ {w}]
  BY DEF CancelRemoveWatch
<1>3. [fr[c] EXCEPT !.todo = @ \ {w}] \in Frames
  BY <1>1 DEF Frames
<1>4. fr' = [fr EXCEPT ![c] = [fr[c] EXCEPT !.todo = @ \ {w}]]
  BY <1>1, <1>2 DEF ThreadOK, FrOK
<1>5. pc' = [pc EXCEPT ![c] = "remove"]
  BY <1>1 DEF CancelRemoveWatch, At, ThreadOK, PcOK
<1>6. QED
  BY <1>1, <1>2, <1>3, <1>4, <1>5, MovesSame DEF CancelRemoveWatch, Goto, Labels

\* The wait of a cancellation, and its end by timeout.
LEMMA CancelQuiesceMoves ==
    ASSUME TypeInv, NEW c \in Threads
    PROVE  /\ CancelTerminate(c) => Moves(c, "quiesce", fr[c], lease[c])
           /\ CancelQuiesce(c) => Moves(c, "complete", fr[c], lease[c])
           /\ CancelTimeout(c) => Moves(c, "idle", NoFrame, NoLease)
BY AfterCancelMoves, MovesSame DEF CancelTerminate, CancelQuiesce, CancelTimeout, Labels

\* The terminal event is appended, or the cancellation is over.
LEMMA CancelAppendMoves ==
    ASSUME TypeInv, NEW c \in Threads, CancelAppend(c)
    PROVE  \/ (AfterCancel(c, TRUE) \/ AfterCancel(c, FALSE)) /\ UNCHANGED events
           \/ /\ current = fr[c].gen /\ fr[c].gen \in cancelled
              /\ AfterCancel(c, FALSE) /\ Failed(CancelEntry(c, FALSE))
           \/ /\ task # None /\ task.life # "Cancelled"
              /\ current = fr[c].gen /\ fr[c].gen \in cancelled
              /\ log' = Append(log, CancelEntry(c, TRUE)) /\ lane' = c
              /\ Moves(c, "cancel_publish", [fr[c] EXCEPT !.seq = Len(log')], lease[c])
<1>1. ThreadOK /\ fr[c] \in Frames /\ fr[c].gen \in Nat
  BY Threads0 DEF Frames
<1>2. CancelEntry(c, TRUE) \in Entries
  BY EntryTypes
<1>4. CASE log' = Append(log, CancelEntry(c, TRUE))
           /\ fr' = [fr EXCEPT ![c].seq = Len(log')] /\ Goto(c, "cancel_publish") /\ UNCHANGED lease
           /\ task # None /\ task.life # "Cancelled" /\ current = fr[c].gen /\ fr[c].gen \in cancelled /\ lane' = c
  <2>1. [fr[c] EXCEPT !.seq = Len(log')] \in Frames
    BY <1>1, <1>2, <1>4, LogAppends DEF Frames
  <2>2. Moves(c, "cancel_publish", [fr[c] EXCEPT !.seq = Len(log')], lease[c])
    BY <1>1, <1>4, <2>1, MovesSame DEF Labels
  <2>3. QED
    BY <1>4, <2>2
<1>5. QED
  BY <1>4 DEF CancelAppend, AppendFails, Failed, CancelEntry

\* The first step of a removal, of a cancellation and of a submission.
LEMMA CallMoves ==
    ASSUME TypeInv, NEW c \in Threads
    PROVE  /\ CallUnwatch(c) => UNCHANGED threads
           /\ CallCancel(c) => Moves(c, "cancel", [fr[c] EXCEPT !.op = "cancel"], lease[c])
           /\ CallSubmit(c) => \E ids \in SUBSET WatchIds, p \in {"register", "cancel"} :
                  Moves(c, p, [fr[c] EXCEPT !.op = "submit", !.ids = ids], lease[c])
<1>1. ThreadOK /\ fr[c] \in Frames
  BY Threads0
<1>2. CallCancel(c) => Moves(c, "cancel", [fr[c] EXCEPT !.op = "cancel"], lease[c])
  <2>1. [fr[c] EXCEPT !.op = "cancel"] \in Frames
    BY <1>1 DEF Frames, Ops
  <2>2. QED
    BY <1>1, <2>1, MovesSame DEF CallCancel, Labels
<1>3. ASSUME CallSubmit(c)
      PROVE  \E ids \in SUBSET WatchIds, p \in {"register", "cancel"} :
                  Moves(c, p, [fr[c] EXCEPT !.op = "submit", !.ids = ids], lease[c])
  <2>1. PICK ids \in SUBSET WatchIds : fr' = [fr EXCEPT ![c].op = "submit", ![c].ids = ids]
    BY <1>3 DEF CallSubmit
  <2>2. [fr[c] EXCEPT !.op = "submit", !.ids = ids] \in Frames
    BY <1>1 DEF Frames, Ops
  <2>3. fr' = [fr EXCEPT ![c] = [fr[c] EXCEPT !.op = "submit", !.ids = ids]]
    BY <1>1, <2>1 DEF ThreadOK, FrOK
  <2>4. QED
    BY <1>3, <2>2, <2>3, MovesSame DEF CallSubmit, Labels
<1>4. QED
  BY <1>2, <1>3 DEF CallUnwatch

\* A registration is refused, or makes the record and a new generation.
LEMMA RegisterMoves ==
    ASSUME TypeInv, NEW c \in Threads, Register(c)
    PROVE  \/ /\ Moves(c, "idle", NoFrame, NoLease) /\ UNCHANGED <<task, watches, current, nextId>>
           \/ /\ MayRegister /\ nextId + 1 \in Generations
              /\ nextId' = nextId + 1 /\ current' = nextId + 1
              /\ task' = Record("Idle", fr[c].ids, TRUE, 0) /\ watches' = watches \cup fr[c].ids
              /\ Moves(c, "install",
                       [fr[c] EXCEPT !.gen = nextId + 1, !.todo = fr[c].ids, !.replaced = task],
                       lease[c])
<1>1. ThreadOK /\ fr[c] \in Frames
  BY Threads0
<1>2. [fr[c] EXCEPT !.gen = nextId + 1, !.todo = fr[c].ids, !.replaced = task] \in Frames
  <2>1. nextId + 1 \in Nat /\ task \in Records \cup {None}
    BY DEF TypeInv, TokensOK, TaskOK
  <2>2. QED
    BY <1>1, <2>1 DEF Frames
<1>3. QED
  BY <1>1, <1>2, MovesSame, ReturnMoves DEF Register, Labels, TypeInv, FrOK

\* A failed admission goes to its rollback.
LEMMA AdmissionFailsMoves ==
    ASSUME TypeInv, NEW c \in Threads, AdmissionFails(c), UNCHANGED lease
    PROVE  Moves(c, "rollback", [fr[c] EXCEPT !.initial = FALSE, !.todo = {}], lease[c])
<1>1. [fr[c] EXCEPT !.initial = FALSE, !.todo = {}] \in Frames
  BY Threads0 DEF Frames
<1>2. QED
  BY <1>1, MovesSame DEF AdmissionFails, Labels, TypeInv, FrOK

\* A watcher is made for a registered watch, or the admission fails.
LEMMA InstallLookupMoves ==
    ASSUME TypeInv, NEW c \in Threads, InstallLookup(c)
    PROVE  \/ /\ Ensure /\ watches # {} /\ task # None
              /\ \E w \in fr[c].todo \cap watches :
                    /\ fired' = fired \cup {<<w, Ensured>>}
                    /\ Moves(c, "install_publish",
                             [fr[c] EXCEPT !.for = Ensured, !.todo = @ \ {w}, !.kind = w], lease[c])
           \/ /\ UNCHANGED fired
              /\ (Ensure /\ watches # {} /\ task # None) \/ UNCHANGED <<current, nextId>>
              /\ Moves(c, "rollback", [fr[c] EXCEPT !.initial = FALSE, !.todo = {}], lease[c])
<1>1. ThreadOK /\ fr[c] \in Frames /\ fr[c].todo \subseteq WatchIds
  BY Threads0 DEF Frames
<1>2. UNCHANGED lease
  BY DEF InstallLookup
<1>3. PICK w \in fr[c].todo :
          \/ /\ w \in watches /\ task # None
             /\ Ensure
             /\ fired' = fired \cup {<<w, Ensured>>}
             /\ fr' = [fr EXCEPT ![c].for = Ensured, ![c].todo = @ \ {w}, ![c].kind = w]
             /\ Goto(c, "install_publish")
          \/ /\ w \in watches /\ task # None
             /\ Ensure
             /\ AdmissionFails(c)
             /\ UNCHANGED fired
          \/ /\ AdmissionFails(c)
             /\ UNCHANGED <<current, nextId, fired>>
  BY DEF InstallLookup
<1>4. CASE /\ w \in watches /\ task # None /\ Ensure /\ fired' = fired \cup {<<w, Ensured>>}
           /\ fr' = [fr EXCEPT ![c].for = Ensured, ![c].todo = @ \ {w}, ![c].kind = w]
           /\ Goto(c, "install_publish")
  <2>1. Ensured \in Nat /\ w \in Kinds
    BY <1>1 DEF Ensured, TypeInv, TokensOK, Kinds
  <2>2. [fr[c] EXCEPT !.for = Ensured, !.todo = @ \ {w}, !.kind = w] \in Frames
    BY <1>1, <2>1 DEF Frames
  <2>3. fr' = [fr EXCEPT ![c] = [fr[c] EXCEPT !.for = Ensured, !.todo = @ \ {w}, !.kind = w]]
    BY <1>1, <1>4 DEF ThreadOK, FrOK
  <2>4. Moves(c, "install_publish",
              [fr[c] EXCEPT !.for = Ensured, !.todo = @ \ {w}, !.kind = w], lease[c])
    BY <1>2, <1>4, <2>2, <2>3, MovesSame DEF Labels
  <2>5. QED
    BY <1>4, <2>4
<1>5. QED
  BY <1>2, <1>3, <1>4, AdmissionFailsMoves

\* A watcher is put in place, or the admission fails.
LEMMA InstallPublishMoves ==
    ASSUME TypeInv, NEW c \in Threads, InstallPublish(c)
    PROVE  \/ /\ Live(fr[c].for) /\ fr[c].kind \in watches
              /\ handles' = [handles EXCEPT ![fr[c].kind] = fr[c].for]
              /\ Moves(c, "install", [fr[c] EXCEPT !.for = 0, !.kind = "none"], lease[c])
           \/ /\ UNCHANGED handles
              /\ Moves(c, "rollback", [fr[c] EXCEPT !.for = 0, !.kind = "none", !.todo = {}], lease[c])
<1>1. [fr[c] EXCEPT !.for = 0, !.kind = "none"] \in Frames
  BY Threads0, ZenonT(60) DEF Frames, Kinds
<1>2. [fr[c] EXCEPT !.for = 0, !.kind = "none", !.todo = {}] \in Frames
  BY Threads0 DEF Frames, Kinds
<1>3. QED
  BY <1>1, <1>2, MovesSame DEF InstallPublish, InstallAllowed, Labels, TypeInv, FrOK

\* An admission starts its initial run, or fails.
LEMMA InstallDoneMoves ==
    ASSUME TypeInv, NEW c \in Threads, InstallDone(c)
    PROVE  \/ /\ current = fr[c].gen /\ task # None
              /\ Moves(c, "run", [fr[c] EXCEPT !.fence = "Initial"], lease[c])
           \/ Moves(c, "rollback", [fr[c] EXCEPT !.initial = FALSE, !.todo = {}], lease[c])
<1>1. [fr[c] EXCEPT !.fence = "Initial"] \in Frames
  BY Threads0 DEF Frames
<1>2. QED
  BY <1>1, MovesSame, AdmissionFailsMoves DEF InstallDone, Labels, TypeInv, FrOK

\* The steps of a rollback.
LEMMA RollbackMoves ==
    ASSUME TypeInv, NEW c \in Threads
    PROVE  /\ RollbackBegin(c) =>
                 \/ /\ current # fr[c].gen /\ UNCHANGED <<handles, cancelled, proc>>
                    /\ Moves(c, "idle", NoFrame, NoLease)
                 \/ /\ current = fr[c].gen /\ cancelled' = cancelled \cup {fr[c].gen}
                    /\ handles' = [w \in WatchIds |-> IF w \in watches THEN 0 ELSE handles[w]]
                    /\ proc' = Signalled(fr[c].gen)
                    /\ Moves(c, "rollback_quiesce", fr[c], lease[c])
           /\ RollbackQuiesce(c) =>
                 \/ /\ Quiesced(fr[c].gen) /\ UNCHANGED requested
                    /\ \/ RemovesStorage(fr[c]) /\ Moves(c, "rollback_clean", fr[c], lease[c])
                       \/ Moves(c, "rollback_final", fr[c], lease[c])
                 \/ requested' = TRUE /\ Moves(c, "idle", NoFrame, NoLease)
           /\ RollbackClean(c) =>
                 \/ /\ StillMine(c) /\ lane = None /\ lane' = c /\ log' = <<>> /\ UNCHANGED requested
                    /\ Moves(c, "rollback_final", fr[c], lease[c])
                 \/ /\ UNCHANGED events /\ (requested' = TRUE \/ UNCHANGED requested)
                    /\ Moves(c, "idle", NoFrame, NoLease)
           /\ RollbackFinal(c) =>
                 /\ requested' = TRUE \/ UNCHANGED requested
                 /\ Moves(c, "idle", NoFrame, NoLease)
<1>1. ThreadOK
  BY Threads0
<1>2. /\ "rollback_quiesce" \in Labels /\ "rollback_clean" \in Labels /\ "rollback_final" \in Labels
  BY DEF Labels
<1>3. RollbackBegin(c) =>
                 \/ /\ current # fr[c].gen /\ UNCHANGED <<handles, cancelled, proc>>
                    /\ Moves(c, "idle", NoFrame, NoLease)
                 \/ /\ current = fr[c].gen /\ cancelled' = cancelled \cup {fr[c].gen}
                    /\ handles' = [w \in WatchIds |-> IF w \in watches THEN 0 ELSE handles[w]]
                    /\ proc' = Signalled(fr[c].gen)
                    /\ Moves(c, "rollback_quiesce", fr[c], lease[c])
  BY <1>1, <1>2, MovesSame, ReturnMoves DEF RollbackBegin
<1>4. RollbackQuiesce(c) =>
                 \/ /\ Quiesced(fr[c].gen) /\ UNCHANGED requested
                    /\ \/ RemovesStorage(fr[c]) /\ Moves(c, "rollback_clean", fr[c], lease[c])
                       \/ Moves(c, "rollback_final", fr[c], lease[c])
                 \/ requested' = TRUE /\ Moves(c, "idle", NoFrame, NoLease)
  BY <1>1, <1>2, MovesSame, ReturnMoves DEF RollbackQuiesce, RollbackFails
<1>5. RollbackClean(c) =>
                 \/ /\ StillMine(c) /\ lane = None /\ lane' = c /\ log' = <<>> /\ UNCHANGED requested
                    /\ Moves(c, "rollback_final", fr[c], lease[c])
                 \/ /\ UNCHANGED events /\ (requested' = TRUE \/ UNCHANGED requested)
                    /\ Moves(c, "idle", NoFrame, NoLease)
  BY <1>1, <1>2, MovesSame, ReturnMoves DEF RollbackClean, RollbackFails
<1>6. RollbackFinal(c) =>
                 /\ requested' = TRUE \/ UNCHANGED requested
                 /\ Moves(c, "idle", NoFrame, NoLease)
  BY <1>1, ReturnMoves DEF RollbackFinal, RollbackFails
<1>7. QED
  BY <1>3, <1>4, <1>5, <1>6
\* The run is over: the caller returns, rolls its admission back or looks for work left.
RunOver(c) ==
    \/ Moves(c, "idle", NoFrame, NoLease)
    \/ /\ fr[c].op = "submit"
       /\ Moves(c, "rollback", [fr[c] EXCEPT !.initial = TRUE, !.run = 0], NoLease)
    \/ /\ fr[c].op \in {"watch", "recovered"}
       /\ Moves(c, "owned", fr[c], [lease[c] EXCEPT !.run = 0])

\* Every outcome of a run is one of the ends of RunOver.
LEMMA AfterRunMoves ==
    ASSUME TypeInv, NEW c \in Threads, NEW o \in {"some", "none", "error"}, AfterRun(c, o)
    PROVE  RunOver(c)
<1>1. ThreadOK /\ fr[c] \in Frames /\ lease[c] \in Leases
  BY Threads0
<1>2. [fr[c] EXCEPT !.initial = TRUE, !.run = 0] \in Frames
  BY <1>1 DEF Frames
<1>3. [lease[c] EXCEPT !.run = 0] \in Leases
  BY <1>1 DEF Leases
<1>4. CASE Goto(c, "rollback") /\ fr' = [fr EXCEPT ![c].initial = TRUE, ![c].run = 0]
           /\ lease' = [lease EXCEPT ![c] = NoLease] /\ fr[c].op = "submit"
  <2>1. fr' = [fr EXCEPT ![c] = [fr[c] EXCEPT !.initial = TRUE, !.run = 0]]
    BY <1>1, <1>4 DEF ThreadOK, FrOK
  <2>2. QED
    BY <1>1, <1>2, <1>4, <2>1, NoFrameType, MovesTo DEF Goto, Labels, RunOver
<1>5. CASE Goto(c, "owned") /\ UNCHANGED fr
           /\ lease' = [lease EXCEPT ![c].run = 0] /\ fr[c].op \in {"watch", "recovered"}
  <2>1. fr' = [fr EXCEPT ![c] = fr[c]] /\ lease' = [lease EXCEPT ![c] = [lease[c] EXCEPT !.run = 0]]
    BY <1>1, <1>5 DEF ThreadOK, FrOK, LeaseOK
  <2>2. QED
    BY <1>1, <1>3, <1>5, <2>1, MovesTo DEF Goto, Labels, RunOver
<1>6. CASE Return(c)
  BY <1>1, <1>6, ReturnMoves DEF RunOver
<1>7. \/ Goto(c, "rollback") /\ fr' = [fr EXCEPT ![c].initial = TRUE, ![c].run = 0]
           /\ lease' = [lease EXCEPT ![c] = NoLease] /\ fr[c].op = "submit"
      \/ Goto(c, "owned") /\ UNCHANGED fr
           /\ lease' = [lease EXCEPT ![c].run = 0] /\ fr[c].op \in {"watch", "recovered"}
      \/ Return(c)
  BY DEF AfterRun
<1>8. QED
  BY <1>4, <1>5, <1>6, <1>7

\* A run is refused, claimed, or stops the daemon.
LEMMA RunClaimMoves ==
    ASSUME TypeInv, NEW c \in Threads, RunClaim(c)
    PROVE  \/ ~RunAdmitted(c) /\ RunOver(c) /\ UNCHANGED <<task, current, nextId, requested>>
           \/ /\ RunAdmitted(c) /\ Ensure /\ UNCHANGED requested
              /\ task' = [task EXCEPT !.life = Started(@)]
              /\ \E p \in {"claimed", "started"} :
                    /\ p = "claimed" => task.life = "ReplanPending"
                    /\ Moves(c, p, [fr[c] EXCEPT !.run = Ensured], [lease[c] EXCEPT !.run = Ensured])
           \/ requested' = TRUE /\ RunOver(c) /\ UNCHANGED <<task, current, nextId>>
<1>1. ThreadOK /\ fr[c] \in Frames /\ lease[c] \in Leases /\ Ensured \in Nat
  BY Threads0 DEF Ensured, TypeInv, TokensOK
<1>2. [fr[c] EXCEPT !.run = Ensured] \in Frames
  BY <1>1 DEF Frames
<1>3. [lease[c] EXCEPT !.run = Ensured] \in Leases
  BY <1>1 DEF Leases
<1>4. Refusal(c) \in {"some", "none", "error"}
  BY DEF Refusal
<1>5. ASSUME NEW p \in {"claimed", "started"}, Goto(c, p),
             lease' = [lease EXCEPT ![c].run = Ensured], fr' = [fr EXCEPT ![c].run = Ensured]
      PROVE  Moves(c, p, [fr[c] EXCEPT !.run = Ensured], [lease[c] EXCEPT !.run = Ensured])
  <2>1. /\ fr' = [fr EXCEPT ![c] = [fr[c] EXCEPT !.run = Ensured]]
        /\ lease' = [lease EXCEPT ![c] = [lease[c] EXCEPT !.run = Ensured]]
    BY <1>1, <1>5 DEF ThreadOK, FrOK, LeaseOK
  <2>2. p \in Labels /\ pc' = [pc EXCEPT ![c] = p]
    BY <1>5 DEF Goto, Labels
  <2>3. QED
    BY <1>1, <1>2, <1>3, <2>1, <2>2, MovesTo
<1>6. CASE ~RunAdmitted(c) /\ AfterRun(c, Refusal(c)) /\ UNCHANGED <<task, current, nextId, requested>>
  BY <1>4, <1>6, AfterRunMoves
<1>7. CASE /\ RunAdmitted(c) /\ Ensure /\ UNCHANGED requested
           /\ task' = [task EXCEPT !.life = Started(@)]
           /\ lease' = [lease EXCEPT ![c].run = Ensured]
           /\ fr' = [fr EXCEPT ![c].run = Ensured]
           /\ Goto(c, IF task.life = "ReplanPending" THEN "claimed" ELSE "started")
  BY <1>5, <1>7
<1>8. CASE requested' = TRUE /\ AfterRun(c, "error") /\ UNCHANGED <<task, current, nextId>>
  BY <1>8, AfterRunMoves
<1>9. QED
  BY <1>6, <1>7, <1>8 DEF RunClaim

\* The fields with which Rerun starts the loop again.
RerunFrame(f) ==
    [f EXCEPT !.run = 0, !.ok = FALSE, !.rerun = FALSE, !.kind = "none", !.for = 0,
              !.ret = "idle", !.res = "none"]

\* An owned rerun goes back to the claim with its generation.
LEMMA RerunMoves ==
    ASSUME TypeInv, NEW c \in Threads, Rerun(c)
    PROVE  Moves(c, "run", RerunFrame(fr[c]), [lease[c] EXCEPT !.run = 0])
<1>1. ThreadOK /\ fr[c] \in Frames /\ lease[c] \in Leases
  BY Threads0
<1>2. RerunFrame(fr[c]) \in Frames
  BY <1>1, ZenonT(60) DEF Frames, RerunFrame, Kinds, Labels
<1>3. [lease[c] EXCEPT !.run = 0] \in Leases
  BY <1>1 DEF Leases
<1>4. fr' = [fr EXCEPT ![c] = RerunFrame(fr[c])]
  BY <1>1 DEF Rerun, ThreadOK, FrOK, RerunFrame
<1>5. lease' = [lease EXCEPT ![c] = [lease[c] EXCEPT !.run = 0]]
  BY <1>1 DEF Rerun, ThreadOK, LeaseOK
<1>6. QED
  BY <1>1, <1>2, <1>3, <1>4, <1>5, MovesTo DEF Rerun, Goto, Labels

\* A call of emit_task_event_ordered with the thread's own frame.
LEMMA EmitCallMoves ==
    ASSUME TypeInv, NEW c \in Threads, NEW kind \in EventKinds, NEW for \in Nat, NEW ret \in Returns,
           CallEmit(c, fr[c], kind, for, ret), UNCHANGED lease
    PROVE  Moves(c, "emit", Emits(fr[c], kind, for, ret), lease[c])
<1>1. ThreadOK /\ fr[c] \in Frames /\ lease[c] \in Leases
  BY Threads0
<1>2. lease' = [lease EXCEPT ![c] = lease[c]]
  BY <1>1 DEF ThreadOK, LeaseOK
<1>3. kind \in Kinds /\ ret \in Labels
  BY DEF Kinds, Returns, Labels
<1>4. QED
  BY <1>1, <1>2, <1>3, CallEmitMoves

\* A claimed replan starts, unless it stops the daemon or its claim is no longer valid.
LEMMA RunClaimedMoves ==
    ASSUME TypeInv, NEW c \in Threads, RunClaimed(c)
    PROVE  \/ requested' = TRUE /\ RunOver(c)
           \/ UNCHANGED requested /\ Moves(c, "started", fr[c], lease[c])
           \/ /\ UNCHANGED requested /\ RunOver(c)
              /\ ~(/\ ~stopping /\ Live(fr[c].run) /\ task # None
                   /\ task.life \in {"RunningRecoveredReplan", "RunningReplanPending"})
<1>1. "started" \in Labels
  BY DEF Labels
<1>2. QED
  BY <1>1, AfterRunMoves, MovesSame DEF RunClaimed

\* A run reports its start and its steps.
LEMMA RunEmitMoves ==
    ASSUME TypeInv, NEW c \in Threads
    PROVE  /\ RunStarted(c) => Moves(c, "emit", Emits(fr[c], "task_started", fr[c].run, "execute"), lease[c])
           /\ RunStep(c) => Moves(c, "emit", Emits(fr[c], "step_completed", fr[c].run, "execute"), lease[c])
<1>1. fr[c].run \in Nat
  BY Threads0 DEF Frames
<1>2. QED
  BY <1>1, EmitCallMoves DEF RunStarted, RunStep, EventKinds, Returns

\* finish_run finishes a live run, and otherwise changes nothing.
LEMMA RunFinishMoves ==
    ASSUME TypeInv, NEW c \in Threads, RunFinish(c)
    PROVE  \/ /\ Live(fr[c].run) /\ task # None /\ IsRunning(task.life)
              /\ task' = [task EXCEPT !.life = Finished(@)]
              /\ \E ok \in BOOLEAN :
                    LET f == [fr[c] EXCEPT !.ok = ok, !.rerun = (task.life = "RunningReplanPending")]
                    IN  /\ f \in Frames
                        /\ ok => Moves(c, "emit", Emits(f, "context_updated", fr[c].run, "refreshed"), lease[c])
                        /\ ~ok => Moves(c, "emit", Emits(f, "task_failed", fr[c].run, "ended"), lease[c])
           \/ /\ ~(Live(fr[c].run) /\ task # None /\ IsRunning(task.life))
              /\ UNCHANGED task /\ RunOver(c)
<1>1. ThreadOK /\ fr[c] \in Frames /\ lease[c] \in Leases /\ fr[c].run \in Nat
  BY Threads0 DEF Frames
<1>2. CASE Live(fr[c].run) /\ task # None /\ IsRunning(task.life)
  <2> DEFINE f(ok) == [fr[c] EXCEPT !.ok = ok, !.rerun = (task.life = "RunningReplanPending")]
  <2>1. PICK ok \in BOOLEAN :
              /\ task' = [task EXCEPT !.life = Finished(@)]
              /\ IF ok THEN CallEmit(c, f(ok), "context_updated", f(ok).run, "refreshed")
                 ELSE CallEmit(c, f(ok), "task_failed", f(ok).run, "ended")
              /\ UNCHANGED lease
    BY <1>2 DEF RunFinish
  <2>2. f(ok) \in Frames /\ f(ok).run = fr[c].run
    BY <1>1 DEF Frames
  <2>3. lease' = [lease EXCEPT ![c] = lease[c]] /\ lease'[c] = lease[c]
    BY <1>1, <2>1 DEF ThreadOK, LeaseOK
  <2>4. /\ {"context_updated", "task_failed"} \subseteq Kinds /\ {"refreshed", "ended"} \subseteq Labels
    BY DEF Kinds, EventKinds, Labels
  <2> HIDE DEF f
  <2>5. /\ ok => Moves(c, "emit", Emits(f(ok), "context_updated", fr[c].run, "refreshed"), lease[c])
        /\ ~ok => Moves(c, "emit", Emits(f(ok), "task_failed", fr[c].run, "ended"), lease[c])
    BY <1>1, <2>1, <2>2, <2>3, <2>4, CallEmitMoves
  <2>6. QED
    BY <1>2, <2>1, <2>2, <2>5 DEF f
<1>3. CASE ~(Live(fr[c].run) /\ task # None /\ IsRunning(task.life))
  BY <1>3, AfterRunMoves DEF RunFinish
<1>4. QED
  BY <1>2, <1>3

\* A finished run reruns, gives up or reports its completion.
LEMMA RunEndMoves ==
    ASSUME TypeInv, NEW c \in Threads
    PROVE  /\ RunRefreshed(c) =>
                 \/ OwnsRerun(fr[c]) /\ Moves(c, "run", RerunFrame(fr[c]), [lease[c] EXCEPT !.run = 0])
                 \/ ~OwnsRerun(fr[c]) /\ RunOver(c)
                 \/ /\ ~OwnsRerun(fr[c])
                    /\ Moves(c, "emit", Emits(fr[c], "task_completed", fr[c].run, "ended"), lease[c])
           /\ RunEnded(c) =>
                 \/ Moves(c, "run", RerunFrame(fr[c]), [lease[c] EXCEPT !.run = 0])
                 \/ /\ fr[c].ok \/ ~OwnsRerun(fr[c]) \/ fr[c].res = "false"
                    /\ RunOver(c)
<1>1. fr[c].run \in Nat
  BY Threads0 DEF Frames
<1>2. RunRefreshed(c) =>
                 \/ OwnsRerun(fr[c]) /\ Moves(c, "run", RerunFrame(fr[c]), [lease[c] EXCEPT !.run = 0])
                 \/ ~OwnsRerun(fr[c]) /\ RunOver(c)
                 \/ /\ ~OwnsRerun(fr[c])
                    /\ Moves(c, "emit", Emits(fr[c], "task_completed", fr[c].run, "ended"), lease[c])
  BY <1>1, RerunMoves, AfterRunMoves, EmitCallMoves DEF RunRefreshed, EventKinds, Returns
<1>3. RunEnded(c) =>
                 \/ Moves(c, "run", RerunFrame(fr[c]), [lease[c] EXCEPT !.run = 0])
                 \/ /\ fr[c].ok \/ ~OwnsRerun(fr[c]) \/ fr[c].res = "false"
                    /\ RunOver(c)
  BY RerunMoves, AfterRunMoves DEF RunEnded
<1>4. QED
  BY <1>2, <1>3

\* The steps of a watch event and of the owner of a failed run.
LEMMA WatchMoves ==
    ASSUME TypeInv, NEW c \in Threads
    PROVE  /\ CallWatchEvent(c) =>
                 \/ UNCHANGED threads
                 \/ \E m \in fired :
                       /\ Live(m[2])
                       /\ Moves(c, "touch", [NoFrame EXCEPT !.op = "watch", !.ids = {m[1]}, !.gen = m[2]],
                                [lease[c] EXCEPT !.op = m[2]])
           /\ WatchTouch(c) =>
                 \/ Moves(c, "idle", NoFrame, NoLease)
                 \/ \E kind \in {"watch_triggered", "watch_error"}, ret \in {"done", "replan"} :
                       Moves(c, "emit", Emits([NoFrame EXCEPT !.op = "watch", !.gen = fr[c].gen], kind,
                                              fr[c].gen, ret), lease[c])
           /\ OperationDone(c) => Moves(c, "idle", NoFrame, NoLease)
           /\ RunOwned(c) => Moves(c, "idle", NoFrame, NoLease)
           /\ WatchReplan(c) =>
                 \/ /\ UNCHANGED task /\ (requested' = TRUE \/ UNCHANGED requested)
                    /\ Moves(c, "idle", NoFrame, NoLease)
                 \/ /\ Live(fr[c].gen) /\ task # None /\ task.life \notin {"Cancelling", "Cancelled"}
                    /\ task' = [task EXCEPT !.life = Replanned(@)]
                    /\ \/ /\ task.life = "Idle" /\ UNCHANGED requested
                          /\ Moves(c, "run", [NoFrame EXCEPT !.op = "watch", !.gen = fr[c].gen], lease[c])
                       \/ /\ task.life # "Idle" /\ UNCHANGED requested
                          /\ Moves(c, "idle", NoFrame, NoLease)
                       \/ requested' = TRUE /\ Moves(c, "idle", NoFrame, NoLease)
<1>1. ThreadOK /\ fr[c] \in Frames /\ lease[c] \in Leases /\ fr[c].gen \in Nat
  BY Threads0 DEF Frames
<1>2. ASSUME CallWatchEvent(c)
      PROVE  \/ UNCHANGED threads
             \/ \E m \in fired :
                   /\ Live(m[2])
                   /\ Moves(c, "touch", [NoFrame EXCEPT !.op = "watch", !.ids = {m[1]}, !.gen = m[2]],
                            [lease[c] EXCEPT !.op = m[2]])
  <2>1. PICK m \in fired :
            IF m[1] \in watches /\ Live(m[2])
            THEN /\ Goto(c, "touch")
                 /\ fr' = [fr EXCEPT ![c] = [NoFrame EXCEPT !.op = "watch", !.ids = {m[1]}, !.gen = m[2]]]
                 /\ lease' = [lease EXCEPT ![c].op = m[2]]
            ELSE UNCHANGED threads
    BY <1>2 DEF CallWatchEvent
  <2>2. m[1] \in WatchIds /\ m[2] \in Nat
    BY DEF TypeInv, FiredOK, TokensOK
  <2>3. CASE Live(m[2]) /\ Goto(c, "touch") /\ lease' = [lease EXCEPT ![c].op = m[2]]
             /\ fr' = [fr EXCEPT ![c] = [NoFrame EXCEPT !.op = "watch", !.ids = {m[1]}, !.gen = m[2]]]
    <3> DEFINE f == [NoFrame EXCEPT !.op = "watch", !.ids = {m[1]}, !.gen = m[2]]
               l == [lease[c] EXCEPT !.op = m[2]]
    <3>1. f \in Frames
      BY <2>2, NoFrameType DEF Frames, Ops
    <3>2. l \in Leases /\ lease' = [lease EXCEPT ![c] = l]
      BY <1>1, <2>2, <2>3 DEF ThreadOK, LeaseOK, Leases
    <3> HIDE DEF f, l
    <3>3. Moves(c, "touch", f, l)
      BY <1>1, <2>3, <3>1, <3>2, MovesTo DEF Goto, Labels, f
    <3>4. QED
      BY <2>3, <3>3 DEF f, l
  <2>4. QED
    BY <2>1, <2>3
<1>2a. ASSUME WatchTouch(c)
      PROVE  \/ Moves(c, "idle", NoFrame, NoLease)
             \/ \E kind \in {"watch_triggered", "watch_error"}, ret \in {"done", "replan"} :
                   Moves(c, "emit", Emits([NoFrame EXCEPT !.op = "watch", !.gen = fr[c].gen], kind,
                                          fr[c].gen, ret), lease[c])
  <2> DEFINE f == [NoFrame EXCEPT !.op = "watch", !.gen = fr[c].gen]
  <2>1. f \in Frames
    BY <1>1, NoFrameType DEF Frames, Ops
  <2>2. \/ Return(c)
        \/ /\ UNCHANGED lease
           /\ \E kind \in {"watch_triggered", "watch_error"}, ret \in {"done", "replan"} :
                 CallEmit(c, f, kind, fr[c].gen, ret)
    BY <1>2a DEF WatchTouch
  <2> HIDE DEF f
  <2>3. ASSUME NEW kind \in {"watch_triggered", "watch_error"}, NEW ret \in {"done", "replan"}, UNCHANGED lease,
               CallEmit(c, f, kind, fr[c].gen, ret)
        PROVE  Moves(c, "emit", Emits(f, kind, fr[c].gen, ret), lease[c])
    <3>1. kind \in Kinds /\ ret \in Labels
      BY DEF Kinds, EventKinds, Labels
    <3>2. lease' = [lease EXCEPT ![c] = lease[c]]
      BY <1>1, <2>3 DEF ThreadOK, LeaseOK
    <3>3. QED
      BY <1>1, <2>1, <2>3, <3>1, <3>2, CallEmitMoves
  <2>4. QED
    BY <1>1, <2>2, <2>3, ReturnMoves DEF f
<1>3. OperationDone(c) => Moves(c, "idle", NoFrame, NoLease)
  BY <1>1, ReturnMoves DEF OperationDone
<1>4. RunOwned(c) => Moves(c, "idle", NoFrame, NoLease)
  BY <1>1, ReturnMoves DEF RunOwned
<1>5. ASSUME WatchReplan(c)
      PROVE      \/ /\ UNCHANGED task /\ (requested' = TRUE \/ UNCHANGED requested)
                    /\ Moves(c, "idle", NoFrame, NoLease)
                 \/ /\ Live(fr[c].gen) /\ task # None /\ task.life \notin {"Cancelling", "Cancelled"}
                    /\ task' = [task EXCEPT !.life = Replanned(@)]
                    /\ \/ /\ task.life = "Idle" /\ UNCHANGED requested
                          /\ Moves(c, "run", [NoFrame EXCEPT !.op = "watch", !.gen = fr[c].gen], lease[c])
                       \/ /\ task.life # "Idle" /\ UNCHANGED requested
                          /\ Moves(c, "idle", NoFrame, NoLease)
                       \/ requested' = TRUE /\ Moves(c, "idle", NoFrame, NoLease)
  <2>1. [NoFrame EXCEPT !.op = "watch", !.gen = fr[c].gen] \in Frames
    BY <1>1, NoFrameType DEF Frames, Ops
  <2>2. Goto(c, "run") /\ fr' = [fr EXCEPT ![c] = [NoFrame EXCEPT !.op = "watch", !.gen = fr[c].gen]]
           /\ UNCHANGED lease
        => Moves(c, "run", [NoFrame EXCEPT !.op = "watch", !.gen = fr[c].gen], lease[c])
    BY <2>1, MovesSame DEF Labels
  <2>3. Return(c) => Moves(c, "idle", NoFrame, NoLease)
    BY <1>1, ReturnMoves
  <2>4. QED
    BY <1>5, <2>2, <2>3 DEF WatchReplan
<1>6. QED
  BY <1>2, <1>3, <1>4, <1>5, <1>2a

\* The steps of a launch and of its child waiter.
LEMMA LaunchMoves ==
    ASSUME TypeInv, NEW c \in Threads
    PROVE  /\ CallLaunch(c) =>
                 \/ UNCHANGED threads
                 \/ /\ Ensured \notin cancelled /\ LaunchFree(Ensured)
                    /\ Moves(c, "spawn", [fr[c] EXCEPT !.op = "launch", !.gen = Ensured],
                             [lease[c] EXCEPT !.op = Ensured, !.launch = Ensured])
           /\ LaunchSpawn(c) =>
                 \/ /\ fr[c].gen \notin cancelled /\ children' = register_child(fr[c].gen)
                    /\ proc' = [proc EXCEPT ![fr[c].gen] = "gated"]
                    /\ Moves(c, "own", fr[c], lease[c])
                 \/ UNCHANGED processes /\ Moves(c, "idle", NoFrame, NoLease)
           /\ LaunchOwn(c) =>
                 \/ /\ UNCHANGED processes
                    /\ Moves(c, "emit", Emits(fr[c], "agent_launch_started", fr[c].gen, "release"), lease[c])
                 \/ LaunchAborted(c)
           /\ LaunchAborted(c) => Moves(c, "idle", NoFrame, NoLease)
           /\ LaunchRelease(c) =>
                 \/ /\ proc[fr[c].gen] = "gated" /\ UNCHANGED children
                    /\ proc' = [proc EXCEPT ![fr[c].gen] = "running"]
                    /\ Moves(c, "wait", [NoFrame EXCEPT !.op = "waiter", !.gen = fr[c].gen], NoLease)
                 \/ LaunchAborted(c)
           /\ WaiterReports(c) =>
                 Moves(c, "emit", Emits(fr[c], "agent_launch_completed", fr[c].gen, "reap"), lease[c])
           /\ WaiterDone(c) => Moves(c, "idle", NoFrame, NoLease)
<1>1. ThreadOK /\ fr[c] \in Frames /\ lease[c] \in Leases /\ fr[c].gen \in Nat /\ Ensured \in Nat
  BY Threads0 DEF Frames, Ensured, TypeInv, TokensOK
<1>2. Return(c) => Moves(c, "idle", NoFrame, NoLease)
  BY <1>1, ReturnMoves
<1>3. ASSUME CallLaunch(c)
      PROVE  \/ UNCHANGED threads
             \/ /\ Ensured \notin cancelled /\ LaunchFree(Ensured)
                /\ Moves(c, "spawn", [fr[c] EXCEPT !.op = "launch", !.gen = Ensured],
                         [lease[c] EXCEPT !.op = Ensured, !.launch = Ensured])
  <2>1. [fr[c] EXCEPT !.op = "launch", !.gen = Ensured] \in Frames
    BY <1>1 DEF Frames, Ops
  <2>2. [lease[c] EXCEPT !.op = Ensured, !.launch = Ensured] \in Leases
    BY <1>1 DEF Leases
  <2>3. CASE Ensured \notin cancelled /\ LaunchFree(Ensured)
    <3>1. /\ lease' = [lease EXCEPT ![c] = [lease[c] EXCEPT !.op = Ensured, !.launch = Ensured]]
          /\ fr' = [fr EXCEPT ![c] = [fr[c] EXCEPT !.op = "launch", !.gen = Ensured]]
          /\ pc' = [pc EXCEPT ![c] = "spawn"]
      BY <1>1, <1>3, <2>3 DEF CallLaunch, Goto, ThreadOK, FrOK, LeaseOK
    <3>2. "spawn" \in Labels
      BY DEF Labels
    <3>3. QED
      BY <1>1, <2>1, <2>2, <2>3, <3>1, <3>2, MovesTo
  <2>4. QED
    BY <1>3, <2>3 DEF CallLaunch
<1>4. LaunchSpawn(c) =>
                 \/ /\ fr[c].gen \notin cancelled /\ children' = register_child(fr[c].gen)
                    /\ proc' = [proc EXCEPT ![fr[c].gen] = "gated"]
                    /\ Moves(c, "own", fr[c], lease[c])
                 \/ UNCHANGED processes /\ Moves(c, "idle", NoFrame, NoLease)
  <2>1. "own" \in Labels
    BY DEF Labels
  <2>2. QED
    BY <1>2, <2>1, MovesSame DEF LaunchSpawn
<1>5. LaunchOwn(c) =>
                 \/ /\ UNCHANGED processes
                    /\ Moves(c, "emit", Emits(fr[c], "agent_launch_started", fr[c].gen, "release"), lease[c])
                 \/ LaunchAborted(c)
  BY <1>1, EmitCallMoves DEF LaunchOwn, EventKinds, Returns
<1>6. LaunchAborted(c) => Moves(c, "idle", NoFrame, NoLease)
  BY <1>2 DEF LaunchAborted
<1>7. LaunchRelease(c) =>
                 \/ /\ proc[fr[c].gen] = "gated" /\ UNCHANGED children
                    /\ proc' = [proc EXCEPT ![fr[c].gen] = "running"]
                    /\ Moves(c, "wait", [NoFrame EXCEPT !.op = "waiter", !.gen = fr[c].gen], NoLease)
                 \/ LaunchAborted(c)
  <2>1. [NoFrame EXCEPT !.op = "waiter", !.gen = fr[c].gen] \in Frames
    BY <1>1, NoFrameType DEF Frames, Ops
  <2>2. "wait" \in Labels
    BY DEF Labels
  <2>3. Goto(c, "wait") /\ lease' = [lease EXCEPT ![c] = NoLease]
           /\ fr' = [fr EXCEPT ![c] = [NoFrame EXCEPT !.op = "waiter", !.gen = fr[c].gen]]
        => Moves(c, "wait", [NoFrame EXCEPT !.op = "waiter", !.gen = fr[c].gen], NoLease)
    BY <1>1, <2>1, <2>2, NoFrameType, MovesTo DEF Goto
  <2>4. QED
    BY <2>3 DEF LaunchRelease
<1>8. WaiterReports(c) =>
         Moves(c, "emit", Emits(fr[c], "agent_launch_completed", fr[c].gen, "reap"), lease[c])
  BY <1>1, EmitCallMoves DEF WaiterReports, EventKinds, Returns
<1>9. WaiterDone(c) => Moves(c, "idle", NoFrame, NoLease)
  BY <1>2 DEF WaiterDone
<1>10. QED
  BY <1>3, <1>4, <1>5, <1>6, <1>7, <1>8, <1>9

\* A state write emits an unfenced event.
LEMMA CallWriteMoves ==
    ASSUME TypeInv, NEW c \in Threads, CallWrite(c)
    PROVE  Moves(c, "emit", Emits([NoFrame EXCEPT !.op = "write"], "context_updated", 0, "done"), lease[c])
<1> DEFINE f == [NoFrame EXCEPT !.op = "write"]
<1>1. ThreadOK /\ f \in Frames
  BY Threads0, NoFrameType DEF Frames, Ops
<1>2. "context_updated" \in Kinds /\ "done" \in Labels /\ 0 \in Nat
  BY DEF Kinds, EventKinds, Labels
<1>3. lease'[c] = lease[c] /\ lease[c] \in Leases /\ lease' = [lease EXCEPT ![c] = lease'[c]]
  BY <1>1, Threads0 DEF CallWrite, ThreadOK, LeaseOK
<1>4. CallEmit(c, f, "context_updated", 0, "done")
  BY DEF CallWrite
<1> HIDE DEF f
<1>5. Moves(c, "emit", Emits(f, "context_updated", 0, "done"), lease'[c])
  BY <1>1, <1>2, <1>3, <1>4, CallEmitMoves
<1>6. QED
  BY <1>3, <1>5 DEF f
-----------------------------------------------------------------------------
(* Every action moves one thread *)

Acts(c) == Calls(c) \/ Step(c) \/ RunStep(c) \/ CancelTimeout(c)

\* A move of thread c leaves the other threads where they are.
LEMMA MovesOne ==
    ASSUME TypeInv, NEW c \in Threads
    PROVE  /\ UNCHANGED threads => ThreadOK' /\ Others(c)
           /\ \A p, f, l : Moves(c, p, f, l) => ThreadOK' /\ Others(c)
           /\ RunOver(c) => ThreadOK' /\ Others(c)
           /\ \A ok : AfterCancel(c, ok) => ThreadOK' /\ Others(c)
<1>1. UNCHANGED threads => ThreadOK' /\ Others(c)
  BY Threads0 DEF threads, ThreadOK, PcOK, FrOK, LeaseOK, Others
<1>2. \A p, f, l : Moves(c, p, f, l) => ThreadOK' /\ Others(c)
  BY DEF Moves
<1>3. QED
  BY <1>1, <1>2, AfterCancelMoves DEF RunOver

\* Every step of a thread moves that thread and no other.
LEMMA EveryMove ==
    ASSUME TypeInv, NEW c \in Threads, Acts(c)
    PROVE  ThreadOK' /\ Others(c)
<1>1. CASE EmitAppend(c) \/ EmitPublish(c)
  BY <1>1, EmitAppendMoves, EmitPublishMoves, MovesOne
<1>2. CASE CancelRequest(c) \/ CancelRemoveWatch(c) \/ CancelTerminate(c) \/ CancelQuiesce(c)
           \/ CancelTimeout(c)
  BY <1>2, CancelRequestMoves, CancelRemoveWatchMoves, CancelQuiesceMoves, MovesOne
<1>3. CASE CancelAppend(c) \/ CancelPublish(c)
  <2>1. CancelPublish(c) => AfterCancel(c, TRUE) \/ AfterCancel(c, FALSE)
    BY DEF CancelPublish, AfterCancel
  <2>2. QED
    BY <1>3, <2>1, CancelAppendMoves, MovesOne
<1>4. CASE CallSubmit(c) \/ CallCancel(c) \/ CallUnwatch(c)
  BY <1>4, CallMoves, MovesOne
<1>5. CASE CallWatchEvent(c) \/ WatchTouch(c) \/ OperationDone(c) \/ RunOwned(c) \/ WatchReplan(c)
  BY <1>5, WatchMoves, MovesOne
<1>6. CASE Register(c) \/ InstallLookup(c) \/ InstallPublish(c) \/ InstallDone(c)
  BY <1>6, RegisterMoves, InstallLookupMoves, InstallPublishMoves, InstallDoneMoves, MovesOne
<1>7. CASE RollbackBegin(c) \/ RollbackQuiesce(c) \/ RollbackClean(c) \/ RollbackFinal(c)
  BY <1>7, RollbackMoves, MovesOne
<1>8. CASE RunClaim(c) \/ RunClaimed(c) \/ RunStarted(c) \/ RunStep(c)
  BY <1>8, RunClaimMoves, RunClaimedMoves, RunEmitMoves, MovesOne
<1>9. CASE RunFinish(c) \/ RunRefreshed(c) \/ RunEnded(c)
  <2>1. CASE RunFinish(c)
    BY <2>1, RunFinishMoves, MovesOne
  <2>2. QED
    BY <1>9, <2>1, RunEndMoves, MovesOne
<1>10. CASE CallLaunch(c) \/ LaunchSpawn(c) \/ LaunchOwn(c) \/ LaunchRelease(c)
            \/ WaiterReports(c) \/ WaiterDone(c)
  BY <1>10, LaunchMoves, MovesOne
<1>11. CASE CallWrite(c)
  BY <1>11, CallWriteMoves, MovesOne
<1>12. QED
  BY <1>1, <1>2, <1>3, <1>4, <1>5, <1>6, <1>7, <1>8, <1>9, <1>10, <1>11 DEF Acts, Calls, Step

-----------------------------------------------------------------------------
(* Where a thread is and what it holds *)

Emitting == {"emit", "emit_publish"}

\* The label of a thread, or the one at which it continues after its event.
SiteOf(p, f) == IF p \in Emitting THEN f.ret ELSE p

Site(c) == SiteOf(pc[c], fr[c])

SitesOf(op) ==
    CASE op = "none" -> {"idle"}
      [] op = "submit" -> {"cancel", "register", "run"} \cup CancelSites \cup InstallSites
                             \cup RollbackSites \cup RunSites
      [] op = "cancel" -> {"cancel"} \cup CancelSites
      [] op = "watch" -> {"touch", "replan", "done", "run", "owned"} \cup RunSites
      [] op = "recovered" -> {"run", "owned"} \cup RunSites
      [] op = "launch" -> {"spawn", "own", "release"}
      [] op = "waiter" -> {"wait", "reap"}
      [] OTHER -> {"done"}

FenceOf(op) ==
    CASE op = "submit" -> "Initial" [] op = "watch" -> "Unfenced" [] OTHER -> "RecoveredReplan"

\* The label fits the operation, an event is fenced by the generation it is for, and the
\* leases are those of the label.
ShapeOf(p, f, l) ==
    LET s == SiteOf(p, f) IN
    /\ s \in SitesOf(f.op)
    /\ p = "idle" => f = NoFrame /\ l = NoLease
    /\ p \in Emitting => f.ret \in Returns
    /\ p = "emit" => /\ f.kind \in EventKinds
                     /\ f.for = IF f.op = "write" THEN 0 ELSE IF s \in RunSites THEN f.run ELSE f.gen
    /\ f.op \notin {"none", "write"} /\ s \notin {"cancel", "register"} => f.gen # 0
    /\ l.op = IF f.op \in {"watch", "launch"} THEN f.gen ELSE 0
    /\ l.launch = IF f.op = "launch" THEN f.gen ELSE 0
    /\ l.run = IF s \in RunSites THEN f.run ELSE 0
    /\ s \in RunSites => f.run # 0
    /\ l.event # 0 <=> p = "emit_publish"
    /\ s \in RunSites \cup {"run"} => f.fence = FenceOf(f.op)

Shape(c) == ShapeOf(pc[c], fr[c], lease[c])

\* Every thread has the frame and the leases that belong to its site.
ShapeInv == \A c \in Threads : Shape(c)

\* A move to a well-shaped place keeps the shape of all threads.
LEMMA ShapeMoves ==
    ASSUME ShapeInv, NEW c \in Threads, NEW p, NEW f, NEW l, Moves(c, p, f, l), ShapeOf(p, f, l)
    PROVE  ShapeInv'
BY DEF ShapeInv, Shape, Moves, Others

\* Nothing changes for threads that do not move.
LEMMA ShapeStays == ASSUME ShapeInv, UNCHANGED threads PROVE ShapeInv'
BY DEF ShapeInv, Shape, threads

USE DEF CancelSites, InstallSites, RollbackSites, RunnerSites, RunSites

\* An idle thread is well shaped.
LEMMA ShapeIdle == ShapeOf("idle", NoFrame, NoLease)
BY DEF ShapeOf, SiteOf, SitesOf, NoFrame, NoLease, Emitting

\* What the shape says of a thread at a given label.
LEMMA ShapeAt ==
    ASSUME TypeInv, ShapeInv, NEW c \in Threads
    PROVE  /\ fr[c] \in Frames /\ lease[c] \in Leases /\ pc[c] \in Labels
           /\ ShapeOf(pc[c], fr[c], lease[c])
           /\ fr[c].op \in Ops
BY Threads0 DEF ShapeInv, Shape, Frames

\* The ends of a run keep the shape.
LEMMA RunOverShape ==
    ASSUME TypeInv, ShapeInv, NEW c \in Threads, Site(c) \in RunSites \cup {"run"}, pc[c] \notin Emitting, RunOver(c)
    PROVE  ShapeInv'
<1>1. /\ fr[c] \in Frames /\ lease[c] \in Leases /\ ShapeOf(pc[c], fr[c], lease[c])
  BY ShapeAt
<1>2. CASE Moves(c, "idle", NoFrame, NoLease)
  BY <1>2, ShapeIdle, ShapeMoves
<1>3. CASE /\ fr[c].op = "submit"
           /\ Moves(c, "rollback", [fr[c] EXCEPT !.initial = TRUE, !.run = 0], NoLease)
  <2>1. ShapeOf("rollback", [fr[c] EXCEPT !.initial = TRUE, !.run = 0], NoLease)
    BY <1>1, <1>3 DEF ShapeOf, Site, SiteOf, SitesOf, NoLease, Emitting, Frames
  <2>2. QED
    BY <1>3, <2>1, ShapeMoves
<1>4. CASE /\ fr[c].op \in {"watch", "recovered"}
           /\ Moves(c, "owned", fr[c], [lease[c] EXCEPT !.run = 0])
  <2>1. ShapeOf("owned", fr[c], [lease[c] EXCEPT !.run = 0])
    BY <1>1, <1>4 DEF ShapeOf, Site, SiteOf, SitesOf, NoLease, Emitting, Leases, Labels
  <2>2. QED
    BY <1>4, <2>1, ShapeMoves
<1>5. QED
  BY <1>2, <1>3, <1>4 DEF RunOver

\* The steps of an event keep the shape.
LEMMA EmitShape ==
    ASSUME TypeInv, ShapeInv, NEW c \in Threads, EmitAppend(c) \/ EmitPublish(c)
    PROVE  ShapeInv'
<1>1. /\ fr[c] \in Frames /\ lease[c] \in Leases /\ ShapeOf(pc[c], fr[c], lease[c])
  BY ShapeAt
<1>2. CASE EmitAppend(c)
  <2> DEFINE g == EventGen(c)
  <2>1. pc[c] = "emit"
    BY <1>2 DEF EmitAppend, At
  <2>2. g # 0 /\ g \in Nat
    BY <1>1 DEF EventGen, Ensured, TypeInv, TokensOK, Frames
  <2> HIDE DEF g
  <2>3. ASSUME NEW n \in Nat
        PROVE  ShapeOf("emit_publish", [fr[c] EXCEPT !.seq = n], [lease[c] EXCEPT !.event = g])
    BY <1>1, <2>1, <2>2 DEF ShapeOf, SiteOf, Emitting, Frames, Leases
  <2>4. ASSUME NEW r \in {"error", "false"} PROVE ShapeOf(fr[c].ret, [fr[c] EXCEPT !.res = r], lease[c])
    BY <1>1, <2>1 DEF ShapeOf, SiteOf, Emitting, Frames, Returns
  <2>5. log' = Append(log, EventEntry(c, TRUE)) => Len(log') \in Nat
    BY EntryTypes, LogAppends
  <2>6. \/ /\ Moves(c, "emit_publish", [fr[c] EXCEPT !.seq = Len(log')], [lease[c] EXCEPT !.event = g])
           /\ log' = Append(log, EventEntry(c, TRUE))
        \/ Moves(c, fr[c].ret, [fr[c] EXCEPT !.res = "error"], lease[c])
        \/ Moves(c, fr[c].ret, [fr[c] EXCEPT !.res = "false"], lease[c])
    BY <1>2, EmitAppendMoves DEF g
  <2>7. QED
    BY <2>3, <2>4, <2>5, <2>6, ShapeMoves
<1>3. CASE EmitPublish(c)
  <2>1. pc[c] = "emit_publish"
    BY <1>3 DEF EmitPublish, At
  <2>2. PICK r \in {"true", "error"} :
            Moves(c, fr[c].ret, [fr[c] EXCEPT !.res = r, !.seq = 0], [lease[c] EXCEPT !.event = 0])
    BY <1>3, EmitPublishMoves
  <2>3. ShapeOf(fr[c].ret, [fr[c] EXCEPT !.res = r, !.seq = 0], [lease[c] EXCEPT !.event = 0])
    BY <1>1, <2>1 DEF ShapeOf, SiteOf, Emitting, Frames, Leases, Returns
  <2>4. QED
    BY <2>2, <2>3, ShapeMoves
<1>4. QED
  BY <1>2, <1>3

\* The end of a cancellation keeps the shape.
LEMMA AfterCancelShape ==
    ASSUME TypeInv, ShapeInv, NEW c \in Threads, pc[c] \in CancelSites \cup {"cancel"}, NEW ok, AfterCancel(c, ok)
    PROVE  ShapeInv'
<1>1. /\ fr[c] \in Frames /\ lease[c] \in Leases /\ ShapeOf(pc[c], fr[c], lease[c])
  BY ShapeAt
<1>2. CASE Moves(c, "idle", NoFrame, NoLease)
  BY <1>2, ShapeIdle, ShapeMoves
<1>3. CASE fr[c].op = "submit" /\ Moves(c, "register", [NoFrame EXCEPT !.op = "submit", !.ids = fr[c].ids], lease[c])
  <2>1. ShapeOf("register", [NoFrame EXCEPT !.op = "submit", !.ids = fr[c].ids], lease[c])
    BY <1>1, <1>3 DEF ShapeOf, SiteOf, SitesOf, Emitting, NoFrame
  <2>2. QED
    BY <1>3, <2>1, ShapeMoves
<1>4. QED
  BY <1>2, <1>3, AfterCancelMoves

\* The steps of a cancellation keep the shape.
LEMMA CancelShape ==
    ASSUME TypeInv, ShapeInv, NEW c \in Threads,
           \/ CancelRequest(c) \/ CancelRemoveWatch(c) \/ CancelTerminate(c) \/ CancelQuiesce(c)
           \/ CancelTimeout(c) \/ CancelAppend(c) \/ CancelPublish(c)
    PROVE  ShapeInv'
<1>1. /\ fr[c] \in Frames /\ lease[c] \in Leases /\ ShapeOf(pc[c], fr[c], lease[c])
      /\ fr[c].op \in Ops
  BY ShapeAt
<1>2. pc[c] \in CancelSites \cup {"cancel"} => fr[c].op \in {"submit", "cancel"}
  BY <1>1 DEF ShapeOf, SiteOf, SitesOf, Emitting, Ops
<1>3. Ensured \in Nat /\ Ensured # 0
  BY DEF Ensured, TypeInv, TokensOK
<1>4. ASSUME NEW f \in Frames, f.op = fr[c].op, f.gen # 0, NEW p \in CancelSites,
             pc[c] \in CancelSites \cup {"cancel"}
      PROVE  ShapeOf(p, f, lease[c])
  BY <1>1, <1>2, <1>4 DEF ShapeOf, SiteOf, SitesOf, Emitting
<1>5. CASE CancelRequest(c)
  <2>1. pc[c] = "cancel"
    BY <1>5 DEF CancelRequest, At
  <2>2. CASE AfterCancel(c, TRUE)
    BY <2>1, <2>2, AfterCancelShape
  <2>3. CASE task # None /\ Moves(c, "remove", [fr[c] EXCEPT !.gen = Ensured, !.todo = task.ids], lease[c])
    <3>1. task.ids \subseteq WatchIds
      BY <2>3 DEF TypeInv, TaskOK, Records
    <3>2. [fr[c] EXCEPT !.gen = Ensured, !.todo = task.ids] \in Frames
      BY <1>1, <1>3, <3>1 DEF Frames
    <3>3. ShapeOf("remove", [fr[c] EXCEPT !.gen = Ensured, !.todo = task.ids], lease[c])
      BY <1>1, <1>3, <1>4, <2>1, <3>2 DEF Frames
    <3>4. QED
      BY <2>3, <3>3, ShapeMoves
  <2>4. QED
    BY <1>5, <2>2, <2>3, CancelRequestMoves
<1>6. CASE CancelRemoveWatch(c)
  <2>1. pc[c] = "remove"
    BY <1>6 DEF CancelRemoveWatch, At
  <2>2. PICK w \in fr[c].todo : Moves(c, "remove", [fr[c] EXCEPT !.todo = @ \ {w}], lease[c])
    BY <1>6, CancelRemoveWatchMoves
  <2>3. fr[c].gen # 0
    BY <1>1, <1>2, <2>1 DEF ShapeOf, SiteOf, Emitting
  <2>4. [fr[c] EXCEPT !.todo = @ \ {w}] \in Frames
    BY <1>1 DEF Frames
  <2>5. ShapeOf("remove", [fr[c] EXCEPT !.todo = @ \ {w}], lease[c])
    BY <1>1, <1>4, <2>1, <2>3, <2>4 DEF Frames
  <2>6. QED
    BY <2>2, <2>5, ShapeMoves
<1>7. CASE CancelTerminate(c) \/ CancelQuiesce(c)
  <2>1. pc[c] \in {"remove", "quiesce"}
    BY <1>7 DEF CancelTerminate, CancelQuiesce, At
  <2>2. fr[c].gen # 0
    BY <1>1, <1>2, <2>1 DEF ShapeOf, SiteOf, Emitting
  <2>3. ShapeOf("quiesce", fr[c], lease[c]) /\ ShapeOf("complete", fr[c], lease[c])
    BY <1>1, <1>4, <2>1, <2>2
  <2>4. QED
    BY <1>7, <2>3, CancelQuiesceMoves, ShapeMoves
<1>8. CASE CancelTimeout(c)
  BY <1>8, CancelQuiesceMoves, ShapeIdle, ShapeMoves
<1>9. CASE CancelAppend(c)
  <2>1. pc[c] = "complete"
    BY <1>9 DEF CancelAppend, At
  <2>2. CASE AfterCancel(c, TRUE) \/ AfterCancel(c, FALSE)
    BY <2>1, <2>2, AfterCancelShape
  <2>3. CASE /\ log' = Append(log, CancelEntry(c, TRUE))
             /\ Moves(c, "cancel_publish", [fr[c] EXCEPT !.seq = Len(log')], lease[c])
    <3>1. fr[c].gen # 0
      BY <1>1, <1>2, <2>1 DEF ShapeOf, SiteOf, Emitting
    <3>2. Len(log') \in Nat
      BY <2>3, EntryTypes, LogAppends
    <3>3. [fr[c] EXCEPT !.seq = Len(log')] \in Frames
      BY <1>1, <3>2 DEF Frames
    <3>4. ShapeOf("cancel_publish", [fr[c] EXCEPT !.seq = Len(log')], lease[c])
      BY <1>1, <1>4, <2>1, <3>1, <3>3 DEF Frames
    <3>5. QED
      BY <2>3, <3>4, ShapeMoves
  <2>4. QED
    BY <1>9, <2>2, <2>3, CancelAppendMoves
<1>10. CASE CancelPublish(c)
  <2>1. pc[c] = "cancel_publish" /\ (AfterCancel(c, TRUE) \/ AfterCancel(c, FALSE))
    BY <1>10 DEF CancelPublish, At, AfterCancel
  <2>2. QED
    BY <2>1, AfterCancelShape
<1>11. QED
  BY <1>5, <1>6, <1>7, <1>8, <1>9, <1>10

\* The first steps of the operations keep the shape.
LEMMA CallShape ==
    ASSUME TypeInv, ShapeInv, NEW c \in Threads, Calls(c)
    PROVE  ShapeInv'
<1>1. /\ fr[c] \in Frames /\ lease[c] \in Leases /\ ShapeOf(pc[c], fr[c], lease[c])
  BY ShapeAt
<1>2. pc[c] = "idle"
  BY DEF Calls, CallSubmit, CallCancel, CallUnwatch, CallWatchEvent, CallLaunch, CallWrite, Begin, At
<1>3. fr[c] = NoFrame /\ lease[c] = NoLease
  BY <1>1, <1>2 DEF ShapeOf
<1>4. CASE CallUnwatch(c)
  BY <1>4, CallMoves, ShapeStays
<1>5. CASE CallCancel(c)
  <2>1. ShapeOf("cancel", [NoFrame EXCEPT !.op = "cancel"], NoLease)
    BY DEF ShapeOf, SiteOf, SitesOf, Emitting, NoFrame, NoLease
  <2>2. QED
    BY <1>3, <1>5, <2>1, CallMoves, ShapeMoves
<1>6. CASE CallSubmit(c)
  <2>1. ASSUME NEW ids \in SUBSET WatchIds, NEW p \in {"register", "cancel"}
        PROVE  ShapeOf(p, [NoFrame EXCEPT !.op = "submit", !.ids = ids], NoLease)
    BY DEF ShapeOf, SiteOf, SitesOf, Emitting, NoFrame, NoLease
  <2>2. QED
    BY <1>3, <1>6, <2>1, CallMoves, ShapeMoves
<1>7. CASE CallWatchEvent(c)
  <2>1. ASSUME NEW m \in fired, Live(m[2])
        PROVE  ShapeOf("touch", [NoFrame EXCEPT !.op = "watch", !.ids = {m[1]}, !.gen = m[2]],
                       [NoLease EXCEPT !.op = m[2]])
    BY <2>1 DEF ShapeOf, SiteOf, SitesOf, Emitting, NoFrame, NoLease, Live
  <2>2. CASE UNCHANGED threads
    BY <2>2, ShapeStays
  <2>3. ASSUME NEW m \in fired, Live(m[2]),
               Moves(c, "touch", [NoFrame EXCEPT !.op = "watch", !.ids = {m[1]}, !.gen = m[2]],
                     [lease[c] EXCEPT !.op = m[2]])
        PROVE  ShapeInv'
    <3> DEFINE f == [NoFrame EXCEPT !.op = "watch", !.ids = {m[1]}, !.gen = m[2]]
               l == [NoLease EXCEPT !.op = m[2]]
    <3>2. ShapeOf("touch", f, l) /\ Moves(c, "touch", f, l)
      BY <1>3, <2>1, <2>3
    <3> HIDE DEF f, l
    <3>3. QED
      BY <3>2, ShapeMoves
  <2>4. QED
    BY <1>7, <2>2, <2>3, WatchMoves
<1>8. CASE CallLaunch(c)
  <2>1. Ensured # 0
    BY DEF Ensured, TypeInv, TokensOK
  <2>2. ShapeOf("spawn", [NoFrame EXCEPT !.op = "launch", !.gen = Ensured],
                [NoLease EXCEPT !.op = Ensured, !.launch = Ensured])
    BY <2>1 DEF ShapeOf, SiteOf, SitesOf, Emitting, NoFrame, NoLease
  <2>3. QED
    BY <1>3, <1>8, <2>2, LaunchMoves, ShapeMoves, ShapeStays
<1>9. CASE CallWrite(c)
  <2>1. ShapeOf("emit", Emits([NoFrame EXCEPT !.op = "write"], "context_updated", 0, "done"), NoLease)
    BY DEF ShapeOf, SiteOf, SitesOf, Emitting, NoFrame, NoLease, Emits, Returns, EventKinds
  <2>2. QED
    BY <1>3, <1>9, <2>1, CallWriteMoves, ShapeMoves
<1>10. QED
  BY <1>4, <1>5, <1>6, <1>7, <1>8, <1>9 DEF Calls

\* Registration and installation keep the shape.
LEMMA AdmissionShape ==
    ASSUME TypeInv, ShapeInv, NEW c \in Threads,
           Register(c) \/ InstallLookup(c) \/ InstallPublish(c) \/ InstallDone(c)
    PROVE  ShapeInv'
<1>1. /\ fr[c] \in Frames /\ lease[c] \in Leases /\ ShapeOf(pc[c], fr[c], lease[c])
      /\ fr[c].op \in Ops
  BY ShapeAt
<1>2. pc[c] \in {"register", "install", "install_publish"}
  BY DEF Register, InstallLookup, InstallPublish, InstallDone, At
<1>3. fr[c].op = "submit" /\ (pc[c] # "register" => fr[c].gen # 0)
  BY <1>1, <1>2 DEF ShapeOf, SiteOf, SitesOf, Emitting, Ops
<1>4. ASSUME NEW f \in Frames, f.op = "submit", f.gen # 0,
             NEW p \in {"install", "install_publish", "rollback", "run"}, p = "run" => f.fence = "Initial"
      PROVE  ShapeOf(p, f, lease[c])
  BY <1>1, <1>2, <1>3, <1>4 DEF ShapeOf, SiteOf, SitesOf, Emitting, FenceOf
<1>5. ASSUME NEW p \in {"install", "install_publish", "rollback", "run"}, NEW f \in Frames,
             f.op = "submit", f.gen # 0, p = "run" => f.fence = "Initial", Moves(c, p, f, lease[c])
      PROVE  ShapeInv'
  BY <1>4, <1>5, ShapeMoves
<1>6. CASE Register(c)
  <2>1. nextId + 1 \in Nat /\ nextId + 1 # 0 /\ task \in Records \cup {None}
    BY DEF TypeInv, TokensOK, TaskOK
  <2> DEFINE f == [fr[c] EXCEPT !.gen = nextId + 1, !.todo = fr[c].ids, !.replaced = task]
  <2>2. f \in Frames /\ f.op = "submit" /\ f.gen # 0
    BY <1>1, <1>3, <2>1 DEF Frames
  <2>3. Moves(c, "idle", NoFrame, NoLease) \/ Moves(c, "install", f, lease[c])
    BY <1>6, RegisterMoves
  <2> HIDE DEF f
  <2>4. QED
    BY <1>5, <2>2, <2>3, ShapeIdle, ShapeMoves
<1>7. CASE InstallLookup(c)
  <2>1. pc[c] = "install" /\ Ensured \in Nat
    <3>1. Ensured \in Nat
      BY DEF Ensured, TypeInv, TokensOK
    <3>2. QED
      BY <1>7, <3>1 DEF InstallLookup, At
  <2>2. CASE Moves(c, "rollback", [fr[c] EXCEPT !.initial = FALSE, !.todo = {}], lease[c])
    <3>1. [fr[c] EXCEPT !.initial = FALSE, !.todo = {}] \in Frames
      BY <1>1 DEF Frames
    <3>2. QED
      BY <1>1, <1>3, <1>5, <2>1, <2>2, <3>1 DEF Frames
  <2>3. ASSUME NEW w \in fr[c].todo,
               Moves(c, "install_publish", [fr[c] EXCEPT !.for = Ensured, !.todo = @ \ {w}, !.kind = w], lease[c])
        PROVE  ShapeInv'
    <3>1. w \in Kinds
      BY <1>1 DEF Kinds, Frames
    <3>2. [fr[c] EXCEPT !.for = Ensured, !.todo = @ \ {w}, !.kind = w] \in Frames
      BY <1>1, <2>1, <3>1 DEF Frames
    <3>3. QED
      BY <1>1, <1>3, <1>5, <2>1, <2>3, <3>2 DEF Frames
  <2>4. QED
    BY <1>7, <2>2, <2>3, InstallLookupMoves
<1>8. CASE InstallPublish(c)
  <2>1. pc[c] = "install_publish"
    BY <1>8 DEF InstallPublish, At
  <2>2. [fr[c] EXCEPT !.for = 0, !.kind = "none"] \in Frames
    BY <1>1 DEF Frames, Kinds
  <2>3. [fr[c] EXCEPT !.for = 0, !.kind = "none", !.todo = {}] \in Frames
    BY <1>1 DEF Frames, Kinds
  <2>4. CASE Moves(c, "install", [fr[c] EXCEPT !.for = 0, !.kind = "none"], lease[c])
    BY <1>1, <1>3, <1>5, <2>1, <2>2, <2>4 DEF Frames
  <2>5. CASE Moves(c, "rollback", [fr[c] EXCEPT !.for = 0, !.kind = "none", !.todo = {}], lease[c])
    BY <1>1, <1>3, <1>5, <2>1, <2>3, <2>5 DEF Frames
  <2>6. QED
    BY <1>8, <2>4, <2>5, InstallPublishMoves
<1>9. CASE InstallDone(c)
  <2>1. pc[c] = "install"
    BY <1>9 DEF InstallDone, At
  <2>2. [fr[c] EXCEPT !.fence = "Initial"] \in Frames
    BY <1>1 DEF Frames
  <2>3. [fr[c] EXCEPT !.initial = FALSE, !.todo = {}] \in Frames
    BY <1>1 DEF Frames
  <2>4. CASE Moves(c, "run", [fr[c] EXCEPT !.fence = "Initial"], lease[c])
    BY <1>1, <1>3, <1>5, <2>1, <2>2, <2>4 DEF Frames
  <2>5. CASE Moves(c, "rollback", [fr[c] EXCEPT !.initial = FALSE, !.todo = {}], lease[c])
    BY <1>1, <1>3, <1>5, <2>1, <2>3, <2>5 DEF Frames
  <2>6. QED
    BY <1>9, <2>4, <2>5, InstallDoneMoves
<1>10. QED
  BY <1>6, <1>7, <1>8, <1>9

\* The steps of a rollback keep the shape.
LEMMA RollbackShape ==
    ASSUME TypeInv, ShapeInv, NEW c \in Threads,
           RollbackBegin(c) \/ RollbackQuiesce(c) \/ RollbackClean(c) \/ RollbackFinal(c)
    PROVE  ShapeInv'
<1>1. /\ fr[c] \in Frames /\ lease[c] \in Leases /\ ShapeOf(pc[c], fr[c], lease[c])
      /\ fr[c].op \in Ops
  BY ShapeAt
<1>2. pc[c] \in RollbackSites
  BY DEF RollbackBegin, RollbackQuiesce, RollbackClean, RollbackFinal, At
<1>3. \A p \in RollbackSites : ShapeOf(p, fr[c], lease[c])
  BY <1>1, <1>2 DEF ShapeOf, SiteOf, SitesOf, Emitting, Ops
<1>4. QED
  BY <1>3, RollbackMoves, ShapeIdle, ShapeMoves

\* The steps of a run up to its start keep the shape.
LEMMA RunShape ==
    ASSUME TypeInv, ShapeInv, NEW c \in Threads, RunClaim(c) \/ RunClaimed(c) \/ RunStarted(c) \/ RunStep(c)
    PROVE  ShapeInv'
<1>1. /\ fr[c] \in Frames /\ lease[c] \in Leases /\ ShapeOf(pc[c], fr[c], lease[c])
      /\ fr[c].op \in Ops
  BY ShapeAt
<1>2. pc[c] \in {"run", "claimed", "started", "execute"}
  BY DEF RunClaim, RunClaimed, RunStarted, RunStep, At
<1>3. Site(c) \in RunSites \cup {"run"} /\ pc[c] \notin Emitting
  BY <1>2 DEF Site, SiteOf, Emitting
<1>4. fr[c].op \in {"submit", "watch", "recovered"} /\ fr[c].gen # 0
  BY <1>1, <1>2 DEF ShapeOf, SiteOf, SitesOf, Emitting, Ops
<1>5. RunOver(c) => ShapeInv'
  BY <1>3, RunOverShape
<1>6. CASE RunClaim(c)
  <2>1. Ensured \in Nat /\ Ensured # 0
    BY DEF Ensured, TypeInv, TokensOK
  <2>2. pc[c] = "run"
    BY <1>6 DEF RunClaim, At
  <2>3. \A p \in {"claimed", "started"} :
           ShapeOf(p, [fr[c] EXCEPT !.run = Ensured], [lease[c] EXCEPT !.run = Ensured])
    BY <1>1, <1>4, <2>1, <2>2 DEF ShapeOf, SiteOf, SitesOf, Emitting, Frames, Leases
  <2>4. \/ RunOver(c)
        \/ \E p \in {"claimed", "started"} :
              Moves(c, p, [fr[c] EXCEPT !.run = Ensured], [lease[c] EXCEPT !.run = Ensured])
    BY <1>6, RunClaimMoves
  <2>5. QED
    BY <1>5, <2>3, <2>4, ShapeMoves
<1>7. CASE RunClaimed(c)
  <2>1. pc[c] = "claimed"
    BY <1>7 DEF RunClaimed, At
  <2>2. ShapeOf("started", fr[c], lease[c])
    BY <1>1, <1>4, <2>1 DEF ShapeOf, SiteOf, SitesOf, Emitting
  <2>3. RunOver(c) \/ Moves(c, "started", fr[c], lease[c])
    BY <1>7, RunClaimedMoves
  <2>4. QED
    BY <1>5, <2>2, <2>3, ShapeMoves
<1>8. CASE RunStarted(c) \/ RunStep(c)
  <2>1. pc[c] \in {"started", "execute"}
    BY <1>8 DEF RunStarted, RunStep, At
  <2>2. \A kind \in {"task_started", "step_completed"} :
           ShapeOf("emit", Emits(fr[c], kind, fr[c].run, "execute"), lease[c])
    BY <1>1, <1>4, <2>1 DEF ShapeOf, SiteOf, SitesOf, Emitting, Emits, Frames, Returns, EventKinds
  <2>3. \E kind \in {"task_started", "step_completed"} :
           Moves(c, "emit", Emits(fr[c], kind, fr[c].run, "execute"), lease[c])
    BY <1>8, RunEmitMoves
  <2>4. QED
    BY <2>2, <2>3, ShapeMoves
<1>9. QED
  BY <1>6, <1>7, <1>8

\* The steps that end a run keep the shape.
LEMMA RunEndShape ==
    ASSUME TypeInv, ShapeInv, NEW c \in Threads, RunFinish(c) \/ RunRefreshed(c) \/ RunEnded(c)
    PROVE  ShapeInv'
<1>1. /\ fr[c] \in Frames /\ lease[c] \in Leases /\ ShapeOf(pc[c], fr[c], lease[c])
      /\ fr[c].op \in Ops
  BY ShapeAt
<1>2. pc[c] \in {"execute", "refreshed", "ended"}
  BY DEF RunFinish, RunRefreshed, RunEnded, At
<1>3. Site(c) \in RunSites \cup {"run"} /\ pc[c] \notin Emitting
  BY <1>2 DEF Site, SiteOf, Emitting
<1>4. fr[c].op \in {"submit", "watch", "recovered"} /\ fr[c].gen # 0
  BY <1>1, <1>2 DEF ShapeOf, SiteOf, SitesOf, Emitting, Ops
<1>5. RunOver(c) => ShapeInv'
  BY <1>3, RunOverShape
<1>6. ShapeOf("run", RerunFrame(fr[c]), [lease[c] EXCEPT !.run = 0])
  BY <1>1, <1>2, <1>4 DEF ShapeOf, SiteOf, SitesOf, Emitting, Frames, Leases, RerunFrame
<1>7. ASSUME NEW f \in Frames, f.op = fr[c].op, f.gen = fr[c].gen, f.run = fr[c].run, f.fence = fr[c].fence,
             NEW kind \in EventKinds, NEW ret \in {"refreshed", "ended"}
      PROVE  ShapeOf("emit", Emits(f, kind, fr[c].run, ret), lease[c])
  BY <1>1, <1>2, <1>4, <1>7 DEF ShapeOf, SiteOf, SitesOf, Emitting, Emits, Frames, Returns
<1>8. CASE RunFinish(c)
  <2>1. CASE RunOver(c)
    BY <1>5, <2>1
  <2>2. CASE \E ok \in BOOLEAN :
                    LET f == [fr[c] EXCEPT !.ok = ok, !.rerun = (task.life = "RunningReplanPending")]
                    IN  /\ f \in Frames
                        /\ ok => Moves(c, "emit", Emits(f, "context_updated", fr[c].run, "refreshed"), lease[c])
                        /\ ~ok => Moves(c, "emit", Emits(f, "task_failed", fr[c].run, "ended"), lease[c])
    <3> DEFINE f(ok) == [fr[c] EXCEPT !.ok = ok, !.rerun = (task.life = "RunningReplanPending")]
    <3>1. PICK ok \in BOOLEAN :
                        /\ f(ok) \in Frames
                        /\ ok => Moves(c, "emit", Emits(f(ok), "context_updated", fr[c].run, "refreshed"), lease[c])
                        /\ ~ok => Moves(c, "emit", Emits(f(ok), "task_failed", fr[c].run, "ended"), lease[c])
      BY <2>2
    <3>2. f(ok).op = fr[c].op /\ f(ok).gen = fr[c].gen /\ f(ok).run = fr[c].run /\ f(ok).fence = fr[c].fence
      BY <1>1 DEF Frames
    <3> HIDE DEF f
    <3>3. /\ ShapeOf("emit", Emits(f(ok), "context_updated", fr[c].run, "refreshed"), lease[c])
          /\ ShapeOf("emit", Emits(f(ok), "task_failed", fr[c].run, "ended"), lease[c])
      BY <1>7, <3>1, <3>2 DEF EventKinds
    <3>4. QED
      BY <3>1, <3>3, ShapeMoves
  <2>3. QED
    BY <1>8, <2>1, <2>2, RunFinishMoves
<1>9. CASE RunRefreshed(c)
  <2>1. ShapeOf("emit", Emits(fr[c], "task_completed", fr[c].run, "ended"), lease[c])
    BY <1>1, <1>7 DEF EventKinds
  <2>2. QED
    BY <1>5, <1>6, <1>9, <2>1, RunEndMoves, ShapeMoves
<1>10. CASE RunEnded(c)
  BY <1>5, <1>6, <1>10, RunEndMoves, ShapeMoves
<1>11. QED
  BY <1>8, <1>9, <1>10

\* Watch events, launches and the waiter keep the shape.
LEMMA OtherShape ==
    ASSUME TypeInv, ShapeInv, NEW c \in Threads,
           \/ RunOwned(c) \/ OperationDone(c) \/ WatchTouch(c) \/ WatchReplan(c) \/ LaunchSpawn(c) \/ LaunchOwn(c)
           \/ LaunchRelease(c) \/ WaiterReports(c) \/ WaiterDone(c)
    PROVE  ShapeInv'
<1>1. /\ fr[c] \in Frames /\ lease[c] \in Leases /\ ShapeOf(pc[c], fr[c], lease[c])
      /\ fr[c].op \in Ops
  BY ShapeAt
<1>2. Moves(c, "idle", NoFrame, NoLease) => ShapeInv'
  BY ShapeIdle, ShapeMoves
<1>3. CASE RunOwned(c) \/ OperationDone(c) \/ WaiterDone(c)
  BY <1>2, <1>3, WatchMoves, LaunchMoves
<1>4. CASE WatchReplan(c)
  <2>1. pc[c] = "replan"
    BY <1>4 DEF WatchReplan, At
  <2>2. ShapeOf("run", [NoFrame EXCEPT !.op = "watch", !.gen = fr[c].gen], lease[c])
    BY <1>1, <2>1 DEF ShapeOf, SiteOf, SitesOf, Emitting, NoFrame, FenceOf, Ops
  <2>3. QED
    BY <1>2, <1>4, <2>2, WatchMoves, ShapeMoves
<1>5. CASE LaunchSpawn(c) \/ LaunchOwn(c) \/ LaunchRelease(c)
  <2>1. pc[c] \in {"spawn", "own", "release"}
    BY <1>5 DEF LaunchSpawn, LaunchOwn, LaunchRelease, At
  <2>2. fr[c].op = "launch" /\ fr[c].gen # 0
    BY <1>1, <2>1 DEF ShapeOf, SiteOf, SitesOf, Emitting, Ops
  <2>3. ShapeOf("own", fr[c], lease[c])
    BY <1>1, <2>1, <2>2 DEF ShapeOf, SiteOf, SitesOf, Emitting
  <2>4. ShapeOf("emit", Emits(fr[c], "agent_launch_started", fr[c].gen, "release"), lease[c])
    BY <1>1, <2>1, <2>2 DEF ShapeOf, SiteOf, SitesOf, Emitting, Emits, Frames, Returns, EventKinds
  <2>5. ShapeOf("wait", [NoFrame EXCEPT !.op = "waiter", !.gen = fr[c].gen], NoLease)
    BY <2>2 DEF ShapeOf, SiteOf, SitesOf, Emitting, NoFrame, NoLease
  <2>6. QED
    BY <1>2, <1>5, <2>3, <2>4, <2>5, LaunchMoves, ShapeMoves
<1>6. CASE WaiterReports(c)
  <2>1. pc[c] = "wait"
    BY <1>6 DEF WaiterReports, At
  <2>2. ShapeOf("emit", Emits(fr[c], "agent_launch_completed", fr[c].gen, "reap"), lease[c])
    BY <1>1, <2>1 DEF ShapeOf, SiteOf, SitesOf, Emitting, Emits, Frames, Returns, EventKinds, Ops
  <2>3. QED
    BY <1>6, <2>2, LaunchMoves, ShapeMoves
<1>7. CASE WatchTouch(c)
  <2>1. pc[c] = "touch"
    BY <1>7 DEF WatchTouch, At
  <2>2. fr[c].op = "watch" /\ fr[c].gen # 0
    BY <1>1, <2>1 DEF ShapeOf, SiteOf, SitesOf, Emitting, Ops
  <2>3. ASSUME NEW kind \in {"watch_triggered", "watch_error"}, NEW ret \in {"done", "replan"}
        PROVE  ShapeOf("emit", Emits([NoFrame EXCEPT !.op = "watch", !.gen = fr[c].gen], kind, fr[c].gen, ret),
                       lease[c])
    BY <1>1, <2>1, <2>2 DEF ShapeOf, SiteOf, SitesOf, Emitting, NoFrame, Emits, Returns, EventKinds
  <2>4. ASSUME NEW kind \in {"watch_triggered", "watch_error"}, NEW ret \in {"done", "replan"},
               Moves(c, "emit", Emits([NoFrame EXCEPT !.op = "watch", !.gen = fr[c].gen], kind, fr[c].gen, ret),
                     lease[c])
        PROVE  ShapeInv'
    BY <2>3, <2>4, ShapeMoves
  <2>5. QED
    BY <1>2, <1>7, <2>4, WatchMoves
<1>8. QED
  BY <1>3, <1>4, <1>5, <1>6, <1>7

\* Every step of a thread keeps the shape of all threads.
LEMMA ShapeActs ==
    ASSUME TypeInv, ShapeInv, NEW c \in Threads, Acts(c)
    PROVE  ShapeInv'
BY EmitShape, CancelShape, CallShape, AdmissionShape, RollbackShape, RunShape, RunEndShape, OtherShape
   DEF Acts, Step
-----------------------------------------------------------------------------
(* Types are kept *)

Globals ==
    TaskOK /\ WatchesOK /\ HandlesOK /\ TokensOK /\ ProcOK /\ FiredOK /\ FlagsOK /\ LogOK

\* Steps that change only the thread, the bounds and the shutdown request.
Quiet == UNCHANGED <<registry, tokens, processes, events, fired>>

\* Which steps leave the task, its tokens, its processes and its log alone.
LEMMA QuietSteps ==
    ASSUME NEW c \in Threads,
           \/ CallSubmit(c) \/ CallCancel(c) \/ CallWatchEvent(c) \/ CancelQuiesce(c) \/ CancelTimeout(c)
           \/ InstallDone(c) \/ RollbackQuiesce(c) \/ RunClaimed(c) \/ RunStarted(c) \/ RunStep(c)
           \/ RunRefreshed(c) \/ RunEnded(c) \/ RunOwned(c) \/ OperationDone(c) \/ WatchTouch(c) \/ WaiterReports(c)
    PROVE  Quiet
<1>1. CASE CallSubmit(c) \/ CallCancel(c) \/ CallWatchEvent(c)
  BY <1>1 DEF CallSubmit, CallCancel, CallWatchEvent, Quiet
<1>2. CASE CancelQuiesce(c) \/ CancelTimeout(c) \/ InstallDone(c) \/ RollbackQuiesce(c)
  BY <1>2 DEF CancelQuiesce, CancelTimeout, InstallDone, RollbackQuiesce, Quiet
<1>3. CASE RunClaimed(c) \/ RunStarted(c) \/ RunStep(c) \/ RunRefreshed(c) \/ RunEnded(c)
  BY <1>3 DEF RunClaimed, RunStarted, RunStep, RunRefreshed, RunEnded, Quiet
<1>4. CASE RunOwned(c) \/ OperationDone(c) \/ WatchTouch(c) \/ WaiterReports(c)
  BY <1>4 DEF RunOwned, OperationDone, WatchTouch, WaiterReports, Quiet
<1>5. QED
  BY <1>1, <1>2, <1>3, <1>4

\* Shutdown is asked for by some steps and begun by BeginShutdown alone.
LEMMA FlagSteps ==
    ASSUME TypeInv, NEW c \in Threads, Acts(c)
    PROVE  (requested' = TRUE \/ requested' = requested \/ RunOwned(c)) /\ requested' \in BOOLEAN /\ UNCHANGED stopping
<1> USE DEF daemon
<1>0. FlagsOK
  BY DEF TypeInv
<1>1. CASE Calls(c)
  BY <1>0, <1>1 DEF Calls, CallSubmit, CallCancel, CallUnwatch, CallWatchEvent, CallLaunch, CallWrite, FlagsOK
<1>2. CASE EmitAppend(c) \/ EmitPublish(c) \/ CancelRequest(c) \/ CancelRemoveWatch(c) \/ CancelTerminate(c)
           \/ CancelQuiesce(c) \/ CancelAppend(c) \/ CancelPublish(c) \/ CancelTimeout(c)
  BY <1>0, <1>2 DEF EmitAppend, EmitPublish, CancelRequest, CancelRemoveWatch, CancelTerminate, CancelQuiesce,
     CancelAppend, CancelPublish, CancelTimeout, FlagsOK
<1>3. CASE Register(c) \/ InstallLookup(c) \/ InstallPublish(c) \/ InstallDone(c) \/ RollbackBegin(c)
  BY <1>0, <1>3 DEF Register, InstallLookup, InstallPublish, InstallDone, RollbackBegin, FlagsOK
<1>4. CASE RollbackQuiesce(c) \/ RollbackClean(c) \/ RollbackFinal(c)
  BY <1>0, <1>4 DEF RollbackQuiesce, RollbackClean, RollbackFinal, RollbackFails, FlagsOK
<1>5. CASE RunClaim(c) \/ RunClaimed(c)
  BY <1>0, <1>5 DEF RunClaim, RunClaimed, FlagsOK
<1>6. CASE RunStarted(c) \/ RunStep(c) \/ RunFinish(c) \/ RunRefreshed(c) \/ RunEnded(c)
  BY <1>0, <1>6 DEF RunStarted, RunStep, RunFinish, RunRefreshed, RunEnded, FlagsOK
<1>7. CASE RunOwned(c)
  BY <1>0, <1>7 DEF RunOwned, FlagsOK
<1>8. CASE OperationDone(c) \/ WatchTouch(c) \/ WatchReplan(c)
  BY <1>0, <1>8 DEF OperationDone, WatchTouch, WatchReplan, FlagsOK
<1>9. CASE LaunchSpawn(c) \/ LaunchOwn(c) \/ LaunchRelease(c) \/ WaiterReports(c) \/ WaiterDone(c)
  BY <1>0, <1>9 DEF LaunchSpawn, LaunchOwn, LaunchRelease, WaiterReports, WaiterDone, FlagsOK
<1>10. QED
  BY <1>1, <1>2, <1>3, <1>4, <1>5, <1>6, <1>7, <1>8, <1>9 DEF Acts, Step

\* What ensure does to the tokens.
LEMMA EnsureTokens ==
    ASSUME TypeInv, Ensure
    PROVE  /\ Ensured \in Generations /\ current' = Ensured /\ Ensured # 0 /\ Ensured = nextId'
           /\ nextId' \in 0..MaxGenerations /\ nextId <= nextId'
           /\ \/ current # 0 /\ current' = current /\ nextId' = nextId
              \/ current = 0 /\ current' = nextId + 1 /\ nextId' = nextId + 1
BY AdmissionAssumption DEF Ensure, Ensured, TypeInv, TokensOK, Generations

\* Every record the steps build is a record, and none is None.
LEMMA RecordTypes ==
    ASSUME TypeInv
    PROVE  /\ EnsureTask \in Records /\ EnsureTask # None
           /\ \A life \in Lifecycles : task # None => [task EXCEPT !.life = life] \in Records
           /\ \A n \in Nat : task # None => [task EXCEPT !.seq = n] \in Records
           /\ \A n \in Nat : task # None => [task EXCEPT !.life = "Cancelled", !.seq = n] \in Records
           /\ \A ids \in SUBSET WatchIds : Record("Idle", ids, TRUE, 0) \in Records
           /\ \A w : task # None => [task EXCEPT !.ids = @ \ {w}] \in Records
           /\ \A r \in Records : r # None
           /\ task # None => task \in Records
<1>1. \A r \in Records : r # None
  BY NoneIsNoRecord
<1>2. task # None => task \in Records
  BY DEF TypeInv, TaskOK
<1>3. EnsureTask \in Records
  BY <1>2 DEF EnsureTask, Fresh, Record, Records, Lifecycles
<1>4. /\ \A life \in Lifecycles : task # None => [task EXCEPT !.life = life] \in Records
      /\ \A n \in Nat : task # None => [task EXCEPT !.seq = n] \in Records
      /\ \A w : task # None => [task EXCEPT !.ids = @ \ {w}] \in Records
  BY <1>2 DEF Records
<1>5. \A n \in Nat : task # None => [task EXCEPT !.life = "Cancelled", !.seq = n] \in Records
  BY <1>2 DEF Records, Lifecycles
<1>6. \A ids \in SUBSET WatchIds : Record("Idle", ids, TRUE, 0) \in Records
  BY DEF Record, Records, Lifecycles
<1>7. QED
  BY <1>1, <1>2, <1>3, <1>4, <1>5, <1>6

\* The lifecycle transitions of a present record.
LEMMA LifeTypes ==
    ASSUME TypeInv, task # None
    PROVE  /\ task.life \in Lifecycles
           /\ {Started(task.life), Finished(task.life), Replanned(task.life), "Cancelling"} \subseteq Lifecycles
<1>1. task.life \in Lifecycles
  BY RecordTypes DEF Records
<1>2. QED
  BY <1>1 DEF Started, Finished, Replanned, Lifecycles

\* The record after any step of a thread: gone only with its generation.
LEMMA TaskSteps ==
    ASSUME TypeInv, ShapeInv, NEW c \in Threads, Acts(c)
    PROVE  /\ TaskOK'
           /\ task # None /\ task' = None => RollbackFinal(c) /\ StillMine(c)
           /\ current' \notin {0, current} => task' # None
<1> USE DEF registry, tokens, TaskOK
<1>0. TaskOK /\ fr[c] \in Frames /\ ShapeOf(pc[c], fr[c], lease[c])
  BY ShapeAt DEF TypeInv
<1>1. CASE CallLaunch(c) \/ CallWrite(c)
  BY <1>1, RecordTypes DEF CallLaunch, CallWrite
<1>2. CASE EmitAppend(c)
  <2>1. fr[c].for # 0 => UNCHANGED <<current, task>>
    BY <1>2 DEF EmitAppend
  <2>2. fr[c].for = 0 => task' = EnsureTask
    BY <1>2 DEF EmitAppend
  <2>3. QED
    BY <1>0, <2>1, <2>2, RecordTypes
<1>3. CASE EmitPublish(c)
  <2>1. fr[c].seq \in Nat /\ UNCHANGED current
    BY <1>0, <1>3 DEF EmitPublish, Frames
  <2>2. UNCHANGED task \/ (task # None /\ task' = [task EXCEPT !.seq = fr[c].seq])
    BY <1>3 DEF EmitPublish
  <2>3. QED
    BY <1>0, <2>1, <2>2, RecordTypes
<1>4. CASE CallUnwatch(c) \/ CancelRemoveWatch(c)
  <2>1. (\E w : RemoveWatch(w)) /\ UNCHANGED current
    BY <1>4 DEF CallUnwatch, CancelRemoveWatch
  <2>2. UNCHANGED task \/ (task # None /\ \E w : task' = [task EXCEPT !.ids = @ \ {w}])
    BY <2>1 DEF RemoveWatch
  <2>3. QED
    BY <1>0, <2>1, <2>2, RecordTypes
<1>5. CASE CancelRequest(c)
  <2>1. \/ UNCHANGED <<task, current>>
        \/ task # None /\ task' = [task EXCEPT !.life = "Cancelling"]
    BY <1>5 DEF CancelRequest
  <2>2. QED
    BY <1>0, <2>1, RecordTypes, LifeTypes
<1>6. CASE CancelPublish(c)
  <2>1. fr[c].seq \in Nat
    BY <1>0 DEF Frames
  <2>2. \/ UNCHANGED <<task, current>>
        \/ task # None /\ task' = [task EXCEPT !.life = "Cancelled", !.seq = fr[c].seq]
    BY <1>6 DEF CancelPublish, Retire
  <2>3. QED
    BY <1>0, <2>1, <2>2, RecordTypes
<1>7. CASE Register(c)
  <2>1. fr[c].ids \subseteq WatchIds
    BY <1>0 DEF Frames
  <2>2. QED
    BY <1>0, <1>7, <2>1, RegisterMoves, RecordTypes
<1>8. CASE RunClaim(c)
  <2>1. \/ UNCHANGED <<task, current>>
        \/ task # None /\ task' = [task EXCEPT !.life = Started(@)]
    BY <1>8, RunClaimMoves DEF RunAdmitted
  <2>2. QED
    BY <1>0, <2>1, RecordTypes, LifeTypes
<1>9. CASE RunFinish(c)
  <2>1. \/ UNCHANGED task
        \/ task # None /\ task' = [task EXCEPT !.life = Finished(@)]
    BY <1>9, RunFinishMoves
  <2>2. UNCHANGED current
    BY <1>9 DEF RunFinish
  <2>3. QED
    BY <1>0, <2>1, <2>2, RecordTypes, LifeTypes
<1>10. CASE WatchReplan(c)
  <2>1. \/ UNCHANGED task
        \/ task # None /\ task' = [task EXCEPT !.life = Replanned(@)]
    BY <1>10, WatchMoves
  <2>2. UNCHANGED current
    BY <1>10 DEF WatchReplan
  <2>3. QED
    BY <1>0, <2>1, <2>2, RecordTypes, LifeTypes
<1>11. CASE RollbackFinal(c)
  <2>1. CASE StillMine(c)
    <3>1. current' = 0
      BY <1>11, <2>1 DEF RollbackFinal
    <3> DEFINE old == fr[c].replaced
               n == IF (IF task = None THEN 0 ELSE task.seq) > old.seq
                    THEN (IF task = None THEN 0 ELSE task.seq) ELSE old.seq
    <3>2. old \in Records \cup {None} /\ (task # None => task.seq \in Nat)
      BY <1>0, RecordTypes DEF Frames, Records
    <3>3. task' = IF old = None THEN None ELSE [old EXCEPT !.seq = n]
      BY <1>11, <2>1 DEF RollbackFinal
    <3>4. old # None => n \in Nat
      BY <3>2 DEF Records
    <3> HIDE DEF n, old
    <3>5. old # None => [old EXCEPT !.seq = n] \in Records
      BY <3>2, <3>4 DEF Records
    <3>6. QED
      BY <1>11, <2>1, <3>1, <3>3, <3>5
  <2>2. CASE ~StillMine(c)
    BY <1>0, <1>11, <2>2 DEF RollbackFinal
  <2>3. QED
    BY <2>1, <2>2
<1>12. CASE InstallLookup(c)
  <2>1. UNCHANGED task
    BY <1>12 DEF InstallLookup
  <2>2. QED
    BY <1>0, <1>12, <2>1, InstallLookupMoves
<1>13. CASE CancelTerminate(c) \/ CancelAppend(c) \/ InstallPublish(c) \/ RollbackBegin(c)
  BY <1>0, <1>13 DEF CancelTerminate, CancelAppend, InstallPublish, RollbackBegin
<1>14. CASE RollbackClean(c) \/ LaunchSpawn(c) \/ LaunchOwn(c) \/ LaunchRelease(c) \/ WaiterDone(c)
  BY <1>0, <1>14 DEF RollbackClean, LaunchSpawn, LaunchOwn, LaunchRelease, WaiterDone
<1>15. CASE Quiet
  BY <1>0, <1>15 DEF Quiet
<1>16. QED
  BY <1>1, <1>2, <1>3, <1>4, <1>5, <1>6, <1>7, <1>8, <1>9, <1>10, <1>11, <1>12, <1>13, <1>14, <1>15,
     QuietSteps DEF Acts, Calls, Step

\* The watches and the watcher handles.
LEMMA WatchSteps ==
    ASSUME TypeInv, ShapeInv, NEW c \in Threads, Acts(c)
    PROVE  WatchesOK' /\ HandlesOK'
<1> USE DEF registry, WatchesOK, HandlesOK
<1>0. WatchesOK /\ HandlesOK /\ fr[c] \in Frames
  BY ShapeAt DEF TypeInv
<1>1. CASE CallUnwatch(c) \/ CancelRemoveWatch(c)
  <2>1. PICK w : RemoveWatch(w)
    BY <1>1 DEF CallUnwatch, CancelRemoveWatch
  <2>2. watches' = watches \ {w} /\ handles' = [handles EXCEPT ![w] = 0]
    BY <2>1 DEF RemoveWatch
  <2>3. QED
    BY <1>0, <2>2
<1>2. CASE Register(c)
  <2>1. fr[c].ids \subseteq WatchIds
    BY <1>0 DEF Frames
  <2>2. UNCHANGED handles
    BY <1>2 DEF Register
  <2>3. QED
    BY <1>0, <1>2, <2>1, <2>2, RegisterMoves
<1>3. CASE InstallPublish(c)
  <2>1. fr[c].for \in Nat
    BY <1>0 DEF Frames
  <2>2. UNCHANGED watches
    BY <1>3 DEF InstallPublish
  <2>3. QED
    BY <1>0, <1>3, <2>1, <2>2, InstallPublishMoves
<1>4. CASE RollbackBegin(c) \/ RollbackFinal(c)
  BY <1>0, <1>4 DEF RollbackBegin, RollbackFinal
<1>5. CASE CallLaunch(c) \/ CallWrite(c) \/ EmitAppend(c) \/ EmitPublish(c) \/ CancelRequest(c)
           \/ CancelTerminate(c) \/ CancelAppend(c) \/ CancelPublish(c)
  BY <1>0, <1>5 DEF CallLaunch, CallWrite, EmitAppend, EmitPublish, CancelRequest, CancelTerminate,
     CancelAppend, CancelPublish
<1>6. CASE InstallLookup(c) \/ RollbackClean(c) \/ RunClaim(c) \/ RunFinish(c) \/ WatchReplan(c)
  BY <1>0, <1>6 DEF InstallLookup, RollbackClean, RunClaim, RunFinish, WatchReplan
<1>7. CASE LaunchSpawn(c) \/ LaunchOwn(c) \/ LaunchRelease(c) \/ WaiterDone(c)
  BY <1>0, <1>7 DEF LaunchSpawn, LaunchOwn, LaunchRelease, WaiterDone
<1>8. CASE Quiet
  BY <1>0, <1>8 DEF Quiet
<1>9. QED
  BY <1>1, <1>2, <1>3, <1>4, <1>5, <1>6, <1>7, <1>8, QuietSteps DEF Acts, Calls, Step

-----------------------------------------------------------------------------
(* Generations *)

GenKept == current' = current /\ nextId' = nextId

GenMade == current = 0 /\ current' = nextId + 1 /\ nextId' = nextId + 1 /\ nextId + 1 \in Generations

\* Two steps retire a generation, each on the lane and for the generation of its thread.
GenRetired(c) ==
    /\ current' = 0 /\ nextId' = nextId /\ fr[c].gen = current
    /\ CancelPublish(c) \/ RollbackFinal(c)

\* A step keeps the active generation, makes one where there is none, or retires it.
LEMMA GenSteps ==
    ASSUME TypeInv, ShapeInv, NEW c \in Threads, Acts(c)
    PROVE  GenKept \/ GenMade \/ GenRetired(c)
<1> USE DEF tokens
<1>1. CASE CallLaunch(c) \/ CancelRequest(c)
  <2>1. Ensure \/ UNCHANGED tokens
    BY <1>1 DEF CallLaunch, CancelRequest
  <2>2. QED
    BY <2>1, EnsureTokens DEF GenKept, GenMade
<1>2. CASE EmitAppend(c)
  <2>1. Ensure \/ UNCHANGED <<current, nextId>>
    BY <1>2 DEF EmitAppend
  <2>2. QED
    BY <2>1, EnsureTokens DEF GenKept, GenMade
<1>3. CASE InstallLookup(c)
  <2>1. Ensure \/ UNCHANGED <<current, nextId>>
    BY <1>3, InstallLookupMoves
  <2>2. QED
    BY <2>1, EnsureTokens DEF GenKept, GenMade
<1>4. CASE RunClaim(c)
  <2>1. Ensure \/ UNCHANGED <<current, nextId>>
    BY <1>4, RunClaimMoves
  <2>2. QED
    BY <2>1, EnsureTokens DEF GenKept, GenMade
<1>5. CASE Register(c)
  BY <1>5, RegisterMoves DEF GenKept, GenMade, MayRegister
<1>6. CASE CancelPublish(c)
  BY <1>6 DEF CancelPublish, Retire, GenKept, GenRetired
<1>7. CASE RollbackFinal(c)
  <2>1. nextId' = nextId
    BY <1>7 DEF RollbackFinal
  <2>2. (StillMine(c) /\ current' = 0) \/ UNCHANGED current
    BY <1>7 DEF RollbackFinal, registry
  <2>3. QED
    BY <1>7, <2>1, <2>2 DEF GenKept, GenRetired, StillMine
<1>8. CASE CallUnwatch(c) \/ CallWrite(c) \/ EmitPublish(c) \/ CancelRemoveWatch(c) \/ CancelTerminate(c)
           \/ CancelAppend(c) \/ InstallPublish(c) \/ RollbackBegin(c) \/ RollbackClean(c)
  BY <1>8 DEF CallUnwatch, CallWrite, EmitPublish, CancelRemoveWatch, CancelTerminate, CancelAppend,
     InstallPublish, RollbackBegin, RollbackClean, GenKept
<1>9. CASE RunFinish(c) \/ WatchReplan(c) \/ LaunchSpawn(c) \/ LaunchOwn(c) \/ LaunchRelease(c) \/ WaiterDone(c)
  BY <1>9 DEF RunFinish, WatchReplan, LaunchSpawn, LaunchOwn, LaunchRelease, WaiterDone, GenKept
<1>10. CASE Quiet
  BY <1>10 DEF Quiet, GenKept
<1>11. QED
  BY <1>1, <1>2, <1>3, <1>4, <1>5, <1>6, <1>7, <1>8, <1>9, <1>10, QuietSteps DEF Acts, Calls, Step

\* Only a cancellation and a rollback cancel a generation, each the active one.
LEMMA CancelSteps ==
    ASSUME TypeInv, ShapeInv, NEW c \in Threads, Acts(c)
    PROVE  \/ UNCHANGED cancelled
           \/ /\ CancelRequest(c) \/ RollbackBegin(c)
              /\ cancelled' = cancelled \cup {current'} /\ current' = nextId' /\ current' \in Generations
<1> USE DEF tokens
<1>1. CASE CancelRequest(c)
  <2>1. UNCHANGED cancelled \/ (Ensure /\ cancelled' = cancelled \cup {Ensured})
    BY <1>1, CancelRequestMoves
  <2>2. QED
    BY <1>1, <2>1, EnsureTokens
<1>2. CASE RollbackBegin(c)
  <2>1. fr[c].gen # 0
    <3>1. pc[c] = "rollback" /\ ShapeOf(pc[c], fr[c], lease[c]) /\ fr[c].op \in Ops
      BY <1>2, ShapeAt DEF RollbackBegin, At
    <3>2. QED
      BY <3>1 DEF ShapeOf, SiteOf, SitesOf, Emitting, Ops
  <2>2. UNCHANGED cancelled \/ (current = fr[c].gen /\ cancelled' = cancelled \cup {current})
    BY <1>2 DEF RollbackBegin
  <2>3. UNCHANGED <<current, nextId>>
    BY <1>2 DEF RollbackBegin
  <2>4. current # 0 => current = nextId /\ current \in Generations
    BY AdmissionAssumption DEF TypeInv, TokensOK, Generations
  <2>5. QED
    BY <1>2, <2>1, <2>2, <2>3, <2>4
<1>3. CASE CallLaunch(c) \/ EmitAppend(c) \/ InstallLookup(c) \/ RunClaim(c) \/ Register(c)
  BY <1>3 DEF CallLaunch, EmitAppend, InstallLookup, RunClaim, Register
<1>4. CASE CancelPublish(c) \/ RollbackFinal(c)
  BY <1>4 DEF CancelPublish, RollbackFinal
<1>8. CASE CallUnwatch(c) \/ CallWrite(c) \/ EmitPublish(c) \/ CancelRemoveWatch(c) \/ CancelTerminate(c)
           \/ CancelAppend(c) \/ InstallPublish(c) \/ RollbackClean(c)
  BY <1>8 DEF CallUnwatch, CallWrite, EmitPublish, CancelRemoveWatch, CancelTerminate, CancelAppend,
     InstallPublish, RollbackClean
<1>9. CASE RunFinish(c) \/ WatchReplan(c) \/ LaunchSpawn(c) \/ LaunchOwn(c) \/ LaunchRelease(c) \/ WaiterDone(c)
  BY <1>9 DEF RunFinish, WatchReplan, LaunchSpawn, LaunchOwn, LaunchRelease, WaiterDone
<1>10. CASE Quiet
  BY <1>10 DEF Quiet
<1>11. QED
  BY <1>1, <1>2, <1>3, <1>4, <1>8, <1>9, <1>10, QuietSteps DEF Acts, Calls, Step

\* Generation ids only grow, and a cancelled token stays cancelled.
LEMMA TokenTypes ==
    ASSUME TypeInv, ShapeInv, NEW c \in Threads, Acts(c)
    PROVE  TokensOK' /\ nextId <= nextId' /\ cancelled \subseteq cancelled'
<1>1. TokensOK /\ MaxGenerations \in Nat
  BY AdmissionAssumption DEF TypeInv
<1>2. nextId' \in 0..MaxGenerations /\ nextId <= nextId' /\ current' \in {0, nextId'}
  BY <1>1, GenSteps DEF GenKept, GenMade, GenRetired, TokensOK, Generations
<1>3. cancelled \subseteq cancelled' /\ cancelled' \subseteq 1..nextId'
  <2>1. cancelled \subseteq 1..nextId'
    BY <1>1, <1>2 DEF TokensOK
  <2>2. current' \in Generations /\ current' = nextId' => current' \in 1..nextId'
    BY <1>2 DEF Generations
  <2>3. QED
    BY <2>1, <2>2, CancelSteps
<1>4. QED
  BY <1>2, <1>3 DEF TokensOK
\* What a step does to the processes.
LEMMA ProcSteps ==
    ASSUME TypeInv, ShapeInv, NEW c \in Threads, Acts(c)
    PROVE  \/ UNCHANGED processes
           \/ (CancelTerminate(c) \/ RollbackBegin(c)) /\ UNCHANGED children /\ proc' = Signalled(fr[c].gen)
           \/ /\ LaunchSpawn(c) /\ fr[c].gen \notin cancelled /\ children' = children \cup {fr[c].gen}
              /\ proc' = [proc EXCEPT ![fr[c].gen] = "gated"]
              /\ Moves(c, "own", fr[c], lease[c])
           \/ (LaunchOwn(c) \/ LaunchRelease(c)) /\ LaunchAborted(c)
           \/ /\ LaunchRelease(c) /\ UNCHANGED children
              /\ proc' = [proc EXCEPT ![fr[c].gen] = "running"]
              /\ Moves(c, "wait", [NoFrame EXCEPT !.op = "waiter", !.gen = fr[c].gen], NoLease)
           \/ WaiterDone(c) /\ UNCHANGED proc /\ children' = children \ {fr[c].gen}
<1> USE DEF processes
<1>1. CASE LaunchSpawn(c) \/ LaunchOwn(c) \/ LaunchRelease(c)
  BY <1>1, LaunchMoves DEF register_child
<1>2. CASE WaiterDone(c)
  BY <1>2 DEF WaiterDone, complete_child
<1>3. CASE CancelTerminate(c) \/ RollbackBegin(c)
  BY <1>3 DEF CancelTerminate, RollbackBegin
<1>4. CASE Calls(c)
  BY <1>4 DEF Calls, CallSubmit, CallCancel, CallUnwatch, CallWatchEvent, CallLaunch, CallWrite
<1>5. CASE EmitAppend(c) \/ EmitPublish(c) \/ CancelRequest(c) \/ CancelRemoveWatch(c) \/ CancelAppend(c)
           \/ CancelPublish(c)
  BY <1>5 DEF EmitAppend, EmitPublish, CancelRequest, CancelRemoveWatch, CancelAppend, CancelPublish
<1>6. CASE Register(c) \/ InstallLookup(c) \/ InstallPublish(c) \/ RollbackClean(c) \/ RollbackFinal(c)
  BY <1>6 DEF Register, InstallLookup, InstallPublish, RollbackClean, RollbackFinal
<1>7. CASE RunClaim(c) \/ RunFinish(c) \/ WatchReplan(c)
  BY <1>7 DEF RunClaim, RunFinish, WatchReplan
<1>8. CASE Quiet
  BY <1>8 DEF Quiet
<1>9. QED
  BY <1>1, <1>2, <1>3, <1>4, <1>5, <1>6, <1>7, <1>8, QuietSteps DEF Acts, Step

\* The processes keep their type.
LEMMA ProcTypes ==
    ASSUME TypeInv, ShapeInv, NEW c \in Threads, Acts(c)
    PROVE  ProcOK'
<1>1. ProcOK /\ TokensOK /\ GenOK /\ MaxGenerations \in Nat
  BY AdmissionAssumption DEF TypeInv
<1>2. CASE UNCHANGED processes
  BY <1>1, <1>2 DEF processes, ProcOK
<1>3. CASE UNCHANGED children /\ proc' = Signalled(fr[c].gen)
  BY <1>1, <1>3 DEF ProcOK, Signalled
<1>4. CASE /\ LaunchSpawn(c) /\ children' = children \cup {fr[c].gen}
           /\ proc' = [proc EXCEPT ![fr[c].gen] = "gated"]
  <2>1. pc[c] = "spawn" /\ ShapeOf(pc[c], fr[c], lease[c]) /\ fr[c].op \in Ops /\ fr[c] \in Frames
    BY <1>4, ShapeAt DEF LaunchSpawn, At
  <2>2. fr[c].gen # 0 /\ fr[c].gen \in Nat
    BY <2>1 DEF ShapeOf, SiteOf, SitesOf, Emitting, Ops, Frames
  <2>3. fr[c].gen \in Generations
    BY <1>1, <2>2 DEF GenOK, TokensOK, Generations
  <2>4. QED
    BY <1>1, <1>4, <2>3 DEF ProcOK
<1>5. CASE LaunchAborted(c)
  BY <1>1, <1>5 DEF LaunchAborted, complete_child, ProcOK
<1>6. CASE UNCHANGED children /\ proc' = [proc EXCEPT ![fr[c].gen] = "running"]
  BY <1>1, <1>6 DEF ProcOK
<1>7. CASE UNCHANGED proc /\ children' = children \ {fr[c].gen}
  BY <1>1, <1>7 DEF ProcOK
<1>8. QED
  BY <1>2, <1>3, <1>4, <1>5, <1>6, <1>7, ProcSteps

\* Watchers are created by installations only.
LEMMA FiredSteps ==
    ASSUME TypeInv, ShapeInv, NEW c \in Threads, Acts(c)
    PROVE  \/ UNCHANGED fired
           \/ /\ InstallLookup(c) /\ Ensure
              /\ \E w \in watches : fired' = fired \cup {<<w, current'>>}
<1>1. CASE InstallLookup(c)
  BY <1>1, InstallLookupMoves DEF Ensure
<1>2. CASE Calls(c)
  BY <1>2 DEF Calls, CallSubmit, CallCancel, CallUnwatch, CallWatchEvent, CallLaunch, CallWrite
<1>3. CASE EmitAppend(c) \/ EmitPublish(c) \/ CancelRequest(c) \/ CancelRemoveWatch(c) \/ CancelTerminate(c)
           \/ CancelAppend(c) \/ CancelPublish(c)
  BY <1>3 DEF EmitAppend, EmitPublish, CancelRequest, CancelRemoveWatch, CancelTerminate, CancelAppend, CancelPublish
<1>4. CASE Register(c) \/ InstallPublish(c) \/ RollbackBegin(c) \/ RollbackClean(c) \/ RollbackFinal(c)
  BY <1>4 DEF Register, InstallPublish, RollbackBegin, RollbackClean, RollbackFinal
<1>5. CASE RunClaim(c) \/ RunFinish(c) \/ WatchReplan(c)
  BY <1>5 DEF RunClaim, RunFinish, WatchReplan
<1>6. CASE LaunchSpawn(c) \/ LaunchOwn(c) \/ LaunchRelease(c) \/ WaiterDone(c)
  BY <1>6 DEF LaunchSpawn, LaunchOwn, LaunchRelease, WaiterDone
<1>7. CASE Quiet
  BY <1>7 DEF Quiet
<1>8. QED
  BY <1>1, <1>2, <1>3, <1>4, <1>5, <1>6, <1>7, QuietSteps DEF Acts, Step

\* The watchers ever made keep their type.
LEMMA FiredTypes ==
    ASSUME TypeInv, ShapeInv, NEW c \in Threads, Acts(c)
    PROVE  FiredOK'
<1>1. FiredOK /\ WatchesOK /\ TokensOK
  BY DEF TypeInv
<1>2. \A g \in 1..nextId : g \in 1..nextId'
  <2>1. nextId <= nextId' /\ nextId' \in Nat /\ nextId \in Nat
    BY <1>1, TokenTypes DEF TokensOK
  <2>2. QED
    BY <2>1
<1>3. CASE UNCHANGED fired
  BY <1>1, <1>2, <1>3 DEF FiredOK
<1>4. CASE Ensure /\ \E w \in watches : fired' = fired \cup {<<w, current'>>}
  <2>1. PICK w \in watches : fired' = fired \cup {<<w, current'>>}
    BY <1>4
  <2>2. current' \in 1..nextId'
    BY <1>1, <1>4, EnsureTokens DEF TokensOK, Generations
  <2>3. QED
    BY <1>1, <1>2, <2>1, <2>2 DEF FiredOK, WatchesOK
<1>5. QED
  BY <1>3, <1>4, FiredSteps

\* Who touches the event log and the lane.
LEMMA LogSteps ==
    ASSUME TypeInv, ShapeInv, NEW c \in Threads, Acts(c)
    PROVE  \/ UNCHANGED events
           \/ EmitAppend(c) \/ EmitPublish(c) \/ CancelAppend(c) \/ CancelPublish(c)
           \/ RollbackClean(c) \/ RollbackFinal(c)
<1>1. CASE Calls(c)
  BY <1>1 DEF Calls, CallSubmit, CallCancel, CallUnwatch, CallWatchEvent, CallLaunch, CallWrite
<1>2. CASE CancelRequest(c) \/ CancelRemoveWatch(c) \/ CancelTerminate(c) \/ Register(c) \/ InstallLookup(c)
           \/ InstallPublish(c) \/ RollbackBegin(c)
  BY <1>2 DEF CancelRequest, CancelRemoveWatch, CancelTerminate, Register, InstallLookup, InstallPublish,
     RollbackBegin
<1>3. CASE RunClaim(c) \/ RunFinish(c) \/ WatchReplan(c)
  BY <1>3 DEF RunClaim, RunFinish, WatchReplan
<1>4. CASE LaunchSpawn(c) \/ LaunchOwn(c) \/ LaunchRelease(c) \/ WaiterDone(c)
  BY <1>4 DEF LaunchSpawn, LaunchOwn, LaunchRelease, WaiterDone
<1>5. CASE Quiet
  BY <1>5 DEF Quiet
<1>6. QED
  BY <1>1, <1>2, <1>3, <1>4, <1>5, QuietSteps DEF Acts, Step

\* The log and its lane keep their type.
LEMMA LogTypes ==
    ASSUME TypeInv, ShapeInv, NEW c \in Threads, Acts(c)
    PROVE  LogOK'
<1> USE DEF LogOK, events
<1>1. LogOK /\ fr[c] \in Frames /\ fr[c].gen \in Nat /\ fr[c].for \in Nat /\ fr[c].kind \in Kinds /\ Ensured \in Nat
  BY Threads0 DEF TypeInv, Frames, Ensured, TokensOK
<1>2. CASE EmitAppend(c)
  <2>1. \/ UNCHANGED events \/ (lane' \in {lane, c} /\ log' = log)
        \/ lane' \in {lane, c} /\ \E ok \in BOOLEAN : log' = Append(log, EventEntry(c, ok))
    BY <1>2, EmitAppendMoves DEF Failed
  <2>2. QED
    BY <1>1, <2>1, EntryTypes, LogAppends
<1>3. CASE CancelAppend(c)
  <2>1. \/ UNCHANGED events \/ (lane' \in {lane, c} /\ log' = log)
        \/ lane' \in {lane, c} /\ \E ok \in BOOLEAN : log' = Append(log, CancelEntry(c, ok))
    BY <1>3, CancelAppendMoves DEF Failed
  <2>2. QED
    BY <1>1, <2>1, EntryTypes, LogAppends
<1>4. CASE RollbackClean(c)
  <2>1. UNCHANGED events \/ (log' = <<>> /\ lane' = c)
    BY <1>4, RollbackMoves
  <2>2. <<>> \in Seq(Entries)
    OBVIOUS
  <2>3. CASE UNCHANGED events
    BY <1>1, <2>3
  <2>4. CASE log' = <<>> /\ lane' = c
    BY <2>2, <2>4
  <2>5. QED
    BY <2>1, <2>3, <2>4
<1>5. CASE EmitPublish(c) \/ CancelPublish(c) \/ RollbackFinal(c)
  BY <1>1, <1>5 DEF EmitPublish, CancelPublish, RollbackFinal, LaneReleased
<1>6. CASE UNCHANGED events
  BY <1>1, <1>6
<1>7. QED
  BY <1>2, <1>3, <1>4, <1>5, <1>6, LogSteps
\* A thread keeps its generation, drops it, or takes the active one.
LEMMA FrameGens ==
    ASSUME TypeInv, ShapeInv, NEW c \in Threads, Acts(c)
    PROVE  fr'[c].gen \in {0, fr[c].gen} \/ (fr'[c].gen = current' /\ current' # 0)
<1> DEFINE G == fr'[c].gen \in {0, fr[c].gen} \/ (fr'[c].gen = current' /\ current' # 0)
<1>0. fr[c] \in Frames
  BY ShapeAt
<1>1. \A p, l : Moves(c, p, NoFrame, l) => G
  BY DEF Moves, NoFrame
<1>2. \A p, l : Moves(c, p, fr[c], l) => G
  BY DEF Moves
<1>3. UNCHANGED threads => G
  BY DEF threads
<1>4. \A ok : AfterCancel(c, ok) => G
  <2>1. \A p, l : Moves(c, p, [NoFrame EXCEPT !.op = "submit", !.ids = fr[c].ids], l) => G
    BY DEF Moves, NoFrame
  <2>2. QED
    BY <1>1, <2>1, AfterCancelMoves
<1>5. RunOver(c) => G
  <2>1. \A p, l : Moves(c, p, [fr[c] EXCEPT !.initial = TRUE, !.run = 0], l) => G
    BY <1>0 DEF Moves, Frames
  <2>2. QED
    BY <1>1, <1>2, <2>1 DEF RunOver
<1>6. ASSUME NEW p, NEW l, NEW kind, NEW for, NEW ret, NEW f, f \in Frames, f.gen = fr[c].gen,
             Moves(c, p, Emits(f, kind, for, ret), l)
      PROVE  G
  BY <1>6 DEF Moves, Emits, Frames
<1>7. CASE EmitAppend(c)
  <2>1. \A p, l, n : Moves(c, p, [fr[c] EXCEPT !.seq = n], l) \/ Moves(c, p, [fr[c] EXCEPT !.res = n], l) => G
    BY <1>0 DEF Moves, Frames
  <2>2. QED
    BY <1>7, <2>1, EmitAppendMoves
<1>8. CASE EmitPublish(c)
  <2>1. \A p, l, r, n : Moves(c, p, [fr[c] EXCEPT !.res = r, !.seq = n], l) => G
    BY <1>0 DEF Moves, Frames
  <2>2. QED
    BY <1>8, <2>1, EmitPublishMoves
<1>9. CASE CancelRequest(c)
  <2>1. Ensure => Ensured = current' /\ current' # 0
    BY EnsureTokens
  <2>2. Ensure /\ Moves(c, "remove", [fr[c] EXCEPT !.gen = Ensured, !.todo = task.ids], lease[c]) => G
    BY <1>0, <2>1 DEF Moves, Frames
  <2>3. QED
    BY <1>4, <1>9, <2>2, CancelRequestMoves
<1>10. CASE CancelRemoveWatch(c)
  <2>1. \A w : Moves(c, "remove", [fr[c] EXCEPT !.todo = @ \ {w}], lease[c]) => G
    BY <1>0 DEF Moves, Frames
  <2>2. QED
    BY <1>10, <2>1, CancelRemoveWatchMoves
<1>11. CASE CancelTerminate(c) \/ CancelQuiesce(c) \/ CancelTimeout(c)
  BY <1>1, <1>2, <1>11, CancelQuiesceMoves
<1>12. CASE CancelAppend(c)
  <2>1. \A p, l, n : Moves(c, p, [fr[c] EXCEPT !.seq = n], l) => G
    BY <1>0 DEF Moves, Frames
  <2>2. QED
    BY <1>4, <1>12, <2>1, CancelAppendMoves
<1>13. CASE CancelPublish(c)
  <2>1. \E ok : AfterCancel(c, ok)
    BY <1>13 DEF CancelPublish
  <2>2. QED
    BY <1>4, <2>1
<1>14. CASE CallSubmit(c) \/ CallCancel(c) \/ CallUnwatch(c)
  <2>1. \A p, l, ids : Moves(c, p, [fr[c] EXCEPT !.op = "submit", !.ids = ids], l) => G
    BY <1>0 DEF Moves, Frames
  <2>2. \A p, l : Moves(c, p, [fr[c] EXCEPT !.op = "cancel"], l) => G
    BY <1>0 DEF Moves, Frames
  <2>3. QED
    BY <1>3, <1>14, <2>1, <2>2, CallMoves
<1>15. CASE Register(c)
  <2>1. nextId + 1 # 0
    BY DEF TypeInv, TokensOK
  <2>2. current' = nextId + 1 /\ Moves(c, "install", [fr[c] EXCEPT !.gen = nextId + 1, !.todo = fr[c].ids, !.replaced = task],
                       lease[c]) => G
    BY <1>0, <2>1 DEF Moves, Frames
  <2>3. QED
    BY <1>1, <1>15, <2>2, RegisterMoves
<1>16. CASE InstallLookup(c) \/ InstallDone(c)
  <2>1. \A l, g, w : Moves(c, "install_publish", [fr[c] EXCEPT !.for = g, !.todo = @ \ {w}, !.kind = w], l) => G
    BY <1>0 DEF Moves, Frames
  <2>2. \A l : Moves(c, "rollback", [fr[c] EXCEPT !.initial = FALSE, !.todo = {}], l) => G
    BY <1>0 DEF Moves, Frames
  <2>3. \A l : Moves(c, "run", [fr[c] EXCEPT !.fence = "Initial"], l) => G
    BY <1>0 DEF Moves, Frames
  <2>4. QED
    BY <1>16, <2>1, <2>2, <2>3, InstallLookupMoves, InstallDoneMoves
<1>17. CASE InstallPublish(c)
  <2>1. \A l : Moves(c, "install", [fr[c] EXCEPT !.for = 0, !.kind = "none"], l) => G
    BY <1>0 DEF Moves, Frames
  <2>2. \A l : Moves(c, "rollback", [fr[c] EXCEPT !.for = 0, !.kind = "none", !.todo = {}], l) => G
    BY <1>0 DEF Moves, Frames
  <2>3. QED
    BY <1>17, <2>1, <2>2, InstallPublishMoves
<1>18. CASE RollbackBegin(c) \/ RollbackQuiesce(c) \/ RollbackClean(c) \/ RollbackFinal(c)
  BY <1>1, <1>2, <1>18, RollbackMoves
<1>19. CASE RunClaim(c)
  <2>1. \A p, l, g : Moves(c, p, [fr[c] EXCEPT !.run = g], l) => G
    BY <1>0 DEF Moves, Frames
  <2>2. QED
    BY <1>5, <1>19, <2>1, RunClaimMoves
<1>20. CASE RunClaimed(c)
  BY <1>2, <1>5, <1>20, RunClaimedMoves
<1>21. CASE RunStarted(c) \/ RunStep(c)
  BY <1>0, <1>6, <1>21, RunEmitMoves
<1>22. CASE RunFinish(c)
  <2>1. CASE RunOver(c)
    BY <1>5, <2>1
  <2>2. CASE \E ok \in BOOLEAN :
                    LET f == [fr[c] EXCEPT !.ok = ok, !.rerun = (task.life = "RunningReplanPending")]
                    IN  /\ f \in Frames
                        /\ ok => Moves(c, "emit", Emits(f, "context_updated", fr[c].run, "refreshed"), lease[c])
                        /\ ~ok => Moves(c, "emit", Emits(f, "task_failed", fr[c].run, "ended"), lease[c])
    <3> DEFINE f(ok) == [fr[c] EXCEPT !.ok = ok, !.rerun = (task.life = "RunningReplanPending")]
    <3>1. PICK ok \in BOOLEAN :
                        /\ f(ok) \in Frames
                        /\ ok => Moves(c, "emit", Emits(f(ok), "context_updated", fr[c].run, "refreshed"), lease[c])
                        /\ ~ok => Moves(c, "emit", Emits(f(ok), "task_failed", fr[c].run, "ended"), lease[c])
      BY <2>2
    <3>2. f(ok).gen = fr[c].gen
      BY <1>0 DEF Frames
    <3> HIDE DEF f
    <3>3. QED
      BY <1>6, <3>1, <3>2
  <2>3. QED
    BY <1>22, <2>1, <2>2, RunFinishMoves
<1>23. CASE RunRefreshed(c) \/ RunEnded(c)
  <2>1. \A p, l : Moves(c, p, RerunFrame(fr[c]), l) => G
    BY <1>0 DEF Moves, Frames, RerunFrame
  <2>2. QED
    BY <1>0, <1>5, <1>6, <1>23, <2>1, RunEndMoves
<1>24. CASE CallWatchEvent(c)
  <2>1. \A m, p, l : Live(m[2]) /\ current' = current
           /\ Moves(c, p, [NoFrame EXCEPT !.op = "watch", !.ids = {m[1]}, !.gen = m[2]], l) => G
    BY DEF Moves, NoFrame, Live
  <2>2. current' = current
    BY <1>24, QuietSteps DEF Quiet, tokens
  <2>3. QED
    BY <1>3, <1>24, <2>1, <2>2, WatchMoves
<1>25. CASE OperationDone(c) \/ RunOwned(c) \/ WatchTouch(c) \/ WatchReplan(c)
  <2>1. \A p, l : Moves(c, p, [NoFrame EXCEPT !.op = "watch", !.gen = fr[c].gen], l) => G
    BY DEF Moves, NoFrame
  <2>2. \A p, l, kind, for, ret :
            Moves(c, p, Emits([NoFrame EXCEPT !.op = "watch", !.gen = fr[c].gen], kind, for, ret), l) => G
    BY DEF Moves, NoFrame, Emits
  <2>3. QED
    BY <1>1, <1>25, <2>1, <2>2, WatchMoves
<1>26. CASE CallLaunch(c)
  <2>1. Ensured = current' /\ current' # 0
    BY <1>26, EnsureTokens DEF CallLaunch
  <2>2. \A l : Moves(c, "spawn", [fr[c] EXCEPT !.op = "launch", !.gen = Ensured], l) => G
    BY <1>0, <2>1 DEF Moves, Frames
  <2>3. QED
    BY <1>3, <1>26, <2>2, LaunchMoves
<1>27. CASE LaunchSpawn(c) \/ LaunchOwn(c) \/ LaunchRelease(c) \/ WaiterReports(c) \/ WaiterDone(c)
  <2>1. \A p, l : Moves(c, p, [NoFrame EXCEPT !.op = "waiter", !.gen = fr[c].gen], l) => G
    BY DEF Moves, NoFrame
  <2>2. QED
    BY <1>0, <1>1, <1>2, <1>6, <1>27, <2>1, LaunchMoves
<1>28. CASE CallWrite(c)
  <2>1. \A p, l, kind, for, ret : Moves(c, p, Emits([NoFrame EXCEPT !.op = "write"], kind, for, ret), l) => G
    BY DEF Moves, NoFrame, Emits
  <2>2. QED
    BY <1>28, <2>1, CallWriteMoves
<1>29. QED
  BY <1>7, <1>8, <1>9, <1>10, <1>11, <1>12, <1>13, <1>14, <1>15, <1>16, <1>17, <1>18, <1>19, <1>20, <1>21, <1>22,
     <1>23, <1>24, <1>25, <1>26, <1>27, <1>28 DEF Acts, Calls, Step

\* Every step of a thread keeps the types.
LEMMA TypeActs ==
    ASSUME TypeInv, ShapeInv, NEW c \in Threads, Acts(c), UNCHANGED limits
    PROVE  TypeInv'
<1>1. GenOK'
  <2>1. TokensOK /\ TokensOK' /\ nextId <= nextId'
    BY TokenTypes DEF TypeInv
  <2>2. ASSUME NEW d \in Threads PROVE fr'[d].gen <= nextId'
    <3>1. fr[d].gen <= nextId /\ fr[d].gen \in Nat
      BY Threads0 DEF TypeInv, GenOK, Frames
    <3>2. CASE d # c
      BY <2>1, <3>1, <3>2, EveryMove DEF Others, TokensOK
    <3>3. CASE d = c
      BY <2>1, <3>1, <3>3, FrameGens DEF TokensOK
    <3>4. QED
      BY <3>2, <3>3
  <2>3. QED
    BY <2>2 DEF GenOK
<1>2. TaskOK' /\ WatchesOK' /\ HandlesOK' /\ TokensOK' /\ ProcOK' /\ FiredOK' /\ LogOK'
  BY TaskSteps, WatchSteps, TokenTypes, ProcTypes, FiredTypes, LogTypes
<1>3. FlagsOK'
  BY FlagSteps DEF TypeInv, FlagsOK
<1>4. LimitsOK'
  BY DEF TypeInv, LimitsOK
<1>5. QED
  BY <1>1, <1>2, <1>3, <1>4, EveryMove DEF TypeInv, ThreadOK

-----------------------------------------------------------------------------
(* Steps of the environment *)

\* A process exits, shutdown begins, or nothing happens: no thread moves.
Environment == (\E g \in Generations : ChildExits(g)) \/ BeginShutdown \/ UNCHANGED moves

\* What an exit of a process, a shutdown or a stutter changes.
LEMMA EnvironmentSteps ==
    ASSUME TypeInv, Environment
    PROVE  /\ UNCHANGED <<threads, task, watches, current, nextId, children, events, fired, requested>>
           /\ cancelled' = cancelled \/ cancelled' = cancelled \cup ({current} \ {0})
           /\ \A w \in WatchIds : handles'[w] \in {0, handles[w]}
           /\ handles' \in [WatchIds -> Nat]
           /\ proc' \in [Generations -> {"none", "gated", "running", "dead"}]
           /\ \A g \in Generations : proc'[g] \in {proc[g], "dead"}
           /\ stopping' \in {stopping, TRUE}
           /\ stopping' = stopping => cancelled' = cancelled
<1> USE DEF moves, registry, tokens, processes, events, daemon, threads
<1>0. HandlesOK /\ ProcOK /\ FlagsOK
  BY DEF TypeInv
<1>1. CASE \E g \in Generations : ChildExits(g)
  BY <1>0, <1>1 DEF ChildExits, HandlesOK, ProcOK
<1>2. CASE BeginShutdown
  <2>1. stopping' = TRUE /\ stopping = FALSE
    BY <1>0, <1>2 DEF BeginShutdown, FlagsOK
  <2>2. /\ \A g \in Generations : proc'[g] \in {proc[g], "dead"}
        /\ proc' \in [Generations -> {"none", "gated", "running", "dead"}]
    BY <1>0, <1>2 DEF BeginShutdown, Signalled, ProcOK
  <2>3. handles' \in [WatchIds -> Nat] /\ \A w \in WatchIds : handles'[w] = 0
    BY <1>2 DEF BeginShutdown
  <2>4. /\ UNCHANGED <<threads, task, watches, current, nextId, children, events, fired, requested>>
        /\ cancelled' = cancelled \cup ({current} \ {0})
    BY <1>2 DEF BeginShutdown
  <2>5. QED
    BY <2>1, <2>2, <2>3, <2>4
<1>3. CASE UNCHANGED moves
  BY <1>0, <1>3 DEF HandlesOK, ProcOK
<1>4. QED
  BY <1>1, <1>2, <1>3 DEF Environment

\* The environment keeps types and shape.
LEMMA TypeEnvironment ==
    ASSUME TypeInv, ShapeInv, Environment, UNCHANGED limits
    PROVE  TypeInv' /\ ShapeInv'
<1>1. UNCHANGED <<threads, task, watches, current, nextId, children, events, fired, requested>>
  BY EnvironmentSteps
<1>2. TaskOK' /\ WatchesOK' /\ FiredOK' /\ LogOK' /\ PcOK' /\ FrOK' /\ LeaseOK' /\ GenOK' /\ LimitsOK'
  BY <1>1 DEF TypeInv, TaskOK, WatchesOK, FiredOK, LogOK, PcOK, FrOK, LeaseOK, GenOK, LimitsOK, threads, events
<1>3. HandlesOK' /\ ProcOK'
  BY <1>1, EnvironmentSteps DEF TypeInv, HandlesOK, ProcOK
<1>4. TokensOK'
  <2>1. TokensOK /\ MaxGenerations \in Nat
    BY AdmissionAssumption DEF TypeInv
  <2>2. {current} \ {0} \subseteq 1..nextId
    BY <2>1 DEF TokensOK
  <2>3. cancelled' \subseteq 1..nextId
    BY <2>1, <2>2, EnvironmentSteps DEF TokensOK
  <2>4. QED
    BY <1>1, <2>1, <2>3 DEF TokensOK
<1>5. FlagsOK'
  BY <1>1, EnvironmentSteps DEF TypeInv, FlagsOK
<1>6. QED
  BY <1>1, <1>2, <1>3, <1>4, <1>5, ShapeStays DEF TypeInv

\* Every step is one of a thread or of the environment.
LEMMA NextSteps ==
    ASSUME [Next]_vars
    PROVE  UNCHANGED limits /\ (Environment \/ \E c \in Threads : Acts(c))
BY DEF Next, vars, Environment, Acts, Quiescent
-----------------------------------------------------------------------------
(* How a thread gets where it is *)

Ending == CancelSites \cup {"rollback_quiesce", "rollback_clean", "rollback_final"}

\* Labels reached only after the wait for the generation's operations.
Doomed == {"complete", "cancel_publish", "rollback_clean", "rollback_final"}

EndFlow(c) ==
    Site(c)' \in Ending =>
        \/ /\ Site(c) \in Ending /\ fr'[c].gen = fr[c].gen
           /\ Site(c)' \in Doomed /\ Site(c) \notin Doomed =>
                 Quiesced(fr[c].gen) /\ UNCHANGED <<lease, children>>
           /\ pc'[c] = "cancel_publish" => pc[c] = "cancel_publish" \/ (CancelAppend(c) /\ current = fr[c].gen)
        \/ /\ CancelRequest(c) \/ RollbackBegin(c)
           /\ Site(c)' \notin Doomed /\ fr'[c].gen = current' /\ current' \in cancelled'

WatchFlow(c) ==
    Site(c)' \in CancelSites =>
        \/ /\ Site(c) \in CancelSites /\ fr'[c].gen = fr[c].gen
           /\ Site(c)' # "remove" => fr'[c].todo = fr[c].todo /\ (Site(c) = "remove" => fr[c].todo = {})
           /\ \/ fr'[c].todo = fr[c].todo
              \/ \E w : RemoveWatch(w) /\ fr'[c].todo = fr[c].todo \ {w}
        \/ CancelRequest(c) /\ Site(c)' = "remove" /\ task # None /\ fr'[c].todo = task.ids

LaunchFlow(c) ==
    fr'[c].op \in {"launch", "waiter"} =>
        \/ /\ CallLaunch(c) /\ fr'[c].op = "launch" /\ Site(c)' = "spawn" /\ fr'[c].gen = current'
           /\ current' \notin cancelled /\ LaunchFree(current')
        \/ /\ fr[c].op \in {"launch", "waiter"} /\ fr'[c].gen = fr[c].gen
           /\ fr'[c].op = "launch" => fr[c].op = "launch"
           /\ fr'[c].op = "waiter" \/ Site(c)' # "spawn" =>
                 \/ fr[c].op = "waiter" \/ Site(c) # "spawn"
                 \/ LaunchSpawn(c) /\ fr[c].gen \in children'
           /\ Site(c)' = "reap" => Site(c) = "reap" \/ (WaiterReports(c) /\ proc[fr[c].gen] = "dead")

\* The operations that work for an admitted task.
Works(op, s) ==
    \/ op \in {"watch", "recovered"}
    \/ op = "submit" /\ s \notin CancelSites \cup {"cancel", "register"}

OpFlow(c) ==
    Works(fr'[c].op, Site(c)') =>
        \/ /\ Works(fr[c].op, Site(c)) /\ fr'[c].op = fr[c].op /\ fr'[c].gen = fr[c].gen
           /\ fr[c].op = "submit" => fr'[c].replaced = fr[c].replaced
           /\ Site(c)' = "rollback_clean" => Site(c) = "rollback_clean" \/ fr[c].replaced = None
        \/ /\ CallWatchEvent(c) /\ fr'[c].op = "watch" /\ Live(fr'[c].gen)
           /\ \E m \in fired : m[2] = fr'[c].gen
        \/ /\ Register(c) /\ fr'[c].op = "submit" /\ fr'[c].gen = current' /\ fr'[c].replaced = task
           /\ Site(c)' = "install" /\ task' = Record("Idle", fr[c].ids, TRUE, 0)

ReplacedFlow(c) ==
    fr'[c].replaced \in {None, fr[c].replaced} \/ (Register(c) /\ MayRegister /\ fr'[c].replaced = task)

WriteFlow(c) == fr'[c].op = "write" => fr[c].op = "write" \/ "write" \in limits.ops

RunFlow(c) ==
    Site(c)' \in RunSites =>
        \/ /\ Site(c) \in RunSites /\ fr'[c].run = fr[c].run /\ fr'[c].gen = fr[c].gen
           /\ Site(c)' \in RunnerSites => Site(c) \in RunnerSites
           /\ Site(c)' = "claimed" => Site(c) = "claimed"
        \/ /\ RunClaim(c) /\ RunAdmitted(c) /\ Ensure /\ fr'[c].run = current' /\ fr'[c].gen = fr[c].gen
           /\ pc[c] = "run" /\ Site(c)' = pc'[c] /\ pc'[c] \in {"claimed", "started"}
           /\ pc'[c] = "claimed" => task.life = "ReplanPending"
           /\ task' = [task EXCEPT !.life = Started(@)]

Flow(c) ==
    EndFlow(c) /\ WatchFlow(c) /\ LaunchFlow(c) /\ OpFlow(c) /\ ReplacedFlow(c) /\ WriteFlow(c) /\ RunFlow(c)

\* A thread that becomes idle satisfies the flow facts.
LEMMA FlowIdle ==
    ASSUME NEW c \in Threads, Moves(c, "idle", NoFrame, NoLease)
    PROVE  Flow(c)
<1>1. Site(c)' = "idle" /\ fr'[c].op = "none" /\ fr'[c].replaced = None
  BY DEF Moves, Site, SiteOf, Emitting, NoFrame
<1>2. EndFlow(c) /\ WatchFlow(c) /\ LaunchFlow(c) /\ OpFlow(c)
  BY <1>1 DEF EndFlow, WatchFlow, LaunchFlow, OpFlow, Works, Ending
<1>3. ReplacedFlow(c) /\ WriteFlow(c) /\ RunFlow(c)
  BY <1>1 DEF ReplacedFlow, WriteFlow, RunFlow
<1>4. QED
  BY <1>2, <1>3 DEF Flow

\* The same thread at the same site.
LEMMA FlowSame ==
    ASSUME NEW c \in Threads, Site(c)' = Site(c),
           fr'[c].op = fr[c].op, fr'[c].gen = fr[c].gen, fr'[c].run = fr[c].run, fr'[c].todo = fr[c].todo,
           fr'[c].replaced = fr[c].replaced, pc'[c] = "cancel_publish" => pc[c] = "cancel_publish"
    PROVE  Flow(c)
<1>1. EndFlow(c) /\ WatchFlow(c) /\ LaunchFlow(c)
  <2>1. EndFlow(c)
    BY DEF EndFlow
  <2>2. WatchFlow(c) 
    <3>1. CASE Site(c)' # "remove"
      BY <3>1 DEF WatchFlow
    <3>2. CASE Site(c)' = "remove"
      BY <3>2 DEF WatchFlow
    <3>3. QED
      BY <3>1, <3>2
  <2>3. LaunchFlow(c)
    BY DEF LaunchFlow
  <2>4. QED
    BY <2>1, <2>2, <2>3
<1>2. OpFlow(c) /\ ReplacedFlow(c) /\ WriteFlow(c) /\ RunFlow(c)
  BY DEF OpFlow, ReplacedFlow, WriteFlow, RunFlow
<1>3. QED
  BY <1>1, <1>2 DEF Flow

\* So does one that does not move.
LEMMA FlowStays ==
    ASSUME NEW c \in Threads, UNCHANGED threads
    PROVE  Flow(c)
BY FlowSame DEF threads, Site

\* The flow of an event.
LEMMA FlowEmit ==
    ASSUME TypeInv, ShapeInv, NEW c \in Threads, EmitAppend(c) \/ EmitPublish(c)
    PROVE  Flow(c)
<1>1. fr[c] \in Frames /\ ShapeOf(pc[c], fr[c], lease[c])
  BY ShapeAt
<1>2. pc[c] \in Emitting /\ fr[c].ret \in Returns
  BY <1>1 DEF EmitAppend, EmitPublish, At, Emitting, ShapeOf
<1>3. \A l, n : Moves(c, "emit_publish", [fr[c] EXCEPT !.seq = n], l) => Flow(c)
  <2>1. SUFFICES ASSUME NEW l, NEW n, Moves(c, "emit_publish", [fr[c] EXCEPT !.seq = n], l) PROVE Flow(c)
    OBVIOUS
  <2>2. Site(c)' = Site(c) /\ pc'[c] # "cancel_publish"
    BY <1>1, <1>2, <2>1 DEF Moves, Site, SiteOf, Emitting, Frames
  <2>3. /\ fr'[c].op = fr[c].op /\ fr'[c].gen = fr[c].gen /\ fr'[c].run = fr[c].run /\ fr'[c].todo = fr[c].todo
        /\ fr'[c].replaced = fr[c].replaced
    BY <1>1, <2>1 DEF Moves, Frames
  <2>4. QED
    BY <2>2, <2>3, FlowSame
<1>4. ASSUME NEW f \in Frames, NEW l, Moves(c, fr[c].ret, f, l),
             f.op = fr[c].op, f.gen = fr[c].gen, f.run = fr[c].run, f.todo = fr[c].todo, f.replaced = fr[c].replaced
      PROVE  Flow(c)
  <2>1. Site(c)' = Site(c) /\ pc'[c] # "cancel_publish"
    BY <1>2, <1>4 DEF Moves, Site, SiteOf, Emitting, Returns
  <2>2. QED
    BY <1>4, <2>1, FlowSame DEF Moves
<1>5. CASE EmitAppend(c)
  <2>1. \A r \in {"error", "false"} : Moves(c, fr[c].ret, [fr[c] EXCEPT !.res = r], lease[c]) => Flow(c)
    <3>1. ASSUME NEW r \in {"error", "false"}, Moves(c, fr[c].ret, [fr[c] EXCEPT !.res = r], lease[c]) PROVE Flow(c)
      <4> DEFINE f == [fr[c] EXCEPT !.res = r]
      <4>1. /\ f \in Frames
            /\ f.op = fr[c].op /\ f.gen = fr[c].gen /\ f.run = fr[c].run /\ f.todo = fr[c].todo
            /\ f.replaced = fr[c].replaced
        BY <1>1 DEF Frames
      <4> HIDE DEF f
      <4>2. QED
        BY <1>4, <3>1, <4>1 DEF f
    <3>2. QED
      BY <3>1
  <2>2. QED
    BY <1>3, <1>5, <2>1, EmitAppendMoves
<1>6. CASE EmitPublish(c)
  <2>1. PICK r \in {"true", "error"} :
            Moves(c, fr[c].ret, [fr[c] EXCEPT !.res = r, !.seq = 0], [lease[c] EXCEPT !.event = 0])
    BY <1>6, EmitPublishMoves
  <2> DEFINE f == [fr[c] EXCEPT !.res = r, !.seq = 0]
  <2>2. /\ f \in Frames
        /\ f.op = fr[c].op /\ f.gen = fr[c].gen /\ f.run = fr[c].run /\ f.todo = fr[c].todo
        /\ f.replaced = fr[c].replaced
    BY <1>1 DEF Frames
  <2>3. Moves(c, fr[c].ret, f, [lease[c] EXCEPT !.event = 0])
    BY <2>1
  <2> HIDE DEF f
  <2>4. QED
    BY <1>4, <2>2, <2>3
<1>7. QED
  BY <1>5, <1>6
\* The thread goes to a label outside cancellation, rollback's wait and run.
LEMMA FlowPlain ==
    ASSUME NEW c \in Threads, Site(c)' \notin Ending \cup RunSites, fr'[c].op \notin {"launch", "waiter", "write"},
           Works(fr'[c].op, Site(c)') =>
              Works(fr[c].op, Site(c)) /\ fr'[c].op = fr[c].op /\ fr'[c].gen = fr[c].gen
                 /\ (fr[c].op = "submit" => fr'[c].replaced = fr[c].replaced),
           fr'[c].replaced \in {None, fr[c].replaced}
    PROVE  Flow(c)
<1>1. EndFlow(c) /\ WatchFlow(c) /\ LaunchFlow(c)
  BY DEF EndFlow, WatchFlow, LaunchFlow, Ending
<1>2. OpFlow(c)
  <2>1. Site(c)' # "rollback_clean"
    BY DEF Ending
  <2>2. QED
    BY <2>1 DEF OpFlow
<1>3. ReplacedFlow(c) /\ WriteFlow(c) /\ RunFlow(c)
  BY DEF ReplacedFlow, WriteFlow, RunFlow
<1>4. QED
  BY <1>1, <1>2, <1>3 DEF Flow

\* The flow of the end of a cancellation.
LEMMA FlowAfterCancel ==
    ASSUME TypeInv, NEW c \in Threads, NEW ok, AfterCancel(c, ok)
    PROVE  Flow(c)
<1>1. CASE Moves(c, "idle", NoFrame, NoLease)
  BY <1>1, FlowIdle
<1>2. CASE Moves(c, "register", [NoFrame EXCEPT !.op = "submit", !.ids = fr[c].ids], lease[c])
  <2>1. Site(c)' = "register" /\ fr'[c].op = "submit" /\ fr'[c].replaced = None
    BY <1>2 DEF Moves, Site, SiteOf, Emitting, NoFrame
  <2>2. QED
    BY <2>1, FlowPlain DEF Works, Ending
<1>3. QED
  BY <1>1, <1>2, AfterCancelMoves

\* The flow of a cancellation.
LEMMA FlowCancel ==
    ASSUME TypeInv, ShapeInv, NEW c \in Threads,
           \/ CancelRequest(c) \/ CancelRemoveWatch(c) \/ CancelTerminate(c) \/ CancelQuiesce(c)
           \/ CancelTimeout(c) \/ CancelAppend(c) \/ CancelPublish(c)
    PROVE  Flow(c)
<1>1. fr[c] \in Frames /\ fr[c].op \in Ops /\ ShapeOf(pc[c], fr[c], lease[c])
  BY ShapeAt
<1>2. pc[c] \in CancelSites \cup {"cancel"}
  BY DEF CancelRequest, CancelRemoveWatch, CancelTerminate, CancelQuiesce, CancelTimeout, CancelAppend,
     CancelPublish, At
<1>3. fr[c].op \in {"submit", "cancel"} /\ Site(c) = pc[c]
  BY <1>1, <1>2 DEF ShapeOf, Site, SiteOf, SitesOf, Emitting, Ops
<1>4. ASSUME NEW p \in CancelSites, NEW f \in Frames, NEW l, Moves(c, p, f, l),
             f.op = fr[c].op, f.replaced = fr[c].replaced, EndFlow(c), WatchFlow(c)
      PROVE  Flow(c)
  <2>1. Site(c)' = p /\ fr'[c] = f
    BY <1>4 DEF Moves, Site, SiteOf, Emitting
  <2>2. LaunchFlow(c) /\ OpFlow(c) /\ ReplacedFlow(c) /\ WriteFlow(c) /\ RunFlow(c)
    BY <1>3, <1>4, <2>1 DEF LaunchFlow, OpFlow, Works, ReplacedFlow, WriteFlow, RunFlow
  <2>3. QED
    BY <1>4, <2>2 DEF Flow
<1>5. CASE CancelRequest(c)
  <2>1. CASE AfterCancel(c, TRUE)
    BY <2>1, FlowAfterCancel
  <2>2. CASE /\ task # None /\ Ensure /\ cancelled' = cancelled \cup {Ensured}
             /\ Moves(c, "remove", [fr[c] EXCEPT !.gen = Ensured, !.todo = task.ids], lease[c])
    <3> DEFINE f == [fr[c] EXCEPT !.gen = Ensured, !.todo = task.ids]
    <3>1. Ensured = current' /\ Ensured \in Nat /\ task.ids \subseteq WatchIds
      <4>1. Ensured = current' /\ task \in Records
        BY <2>2, EnsureTokens, RecordTypes
      <4>2. Ensured \in Nat
        BY DEF Ensured, TypeInv, TokensOK
      <4>3. QED
        BY <4>1, <4>2 DEF Records
    <3>2. f \in Frames /\ f.op = fr[c].op /\ f.replaced = fr[c].replaced /\ f.gen = Ensured /\ f.todo = task.ids
      BY <1>1, <3>1 DEF Frames
    <3>3. Moves(c, "remove", f, lease[c])
      BY <2>2
    <3> HIDE DEF f
    <3>4. Site(c)' = "remove" /\ fr'[c] = f
      BY <3>3 DEF Moves, Site, SiteOf, Emitting
    <3>5. EndFlow(c) /\ WatchFlow(c)
      BY <1>5, <2>2, <3>1, <3>2, <3>4 DEF EndFlow, WatchFlow, Doomed
    <3>6. QED
      BY <1>4, <3>2, <3>3, <3>5
  <2>3. QED
    BY <1>5, <2>1, <2>2, CancelRequestMoves
<1>6. CASE CancelRemoveWatch(c)
  <2>1. pc[c] = "remove"
    BY <1>6 DEF CancelRemoveWatch, At
  <2>2. PICK w \in fr[c].todo : RemoveWatch(w) /\ Moves(c, "remove", [fr[c] EXCEPT !.todo = @ \ {w}], lease[c])
    BY <1>6, CancelRemoveWatchMoves
  <2> DEFINE f == [fr[c] EXCEPT !.todo = @ \ {w}]
  <2>3. f \in Frames /\ f.op = fr[c].op /\ f.replaced = fr[c].replaced /\ f.gen = fr[c].gen /\ f.todo = fr[c].todo \ {w}
    BY <1>1 DEF Frames
  <2>4. Moves(c, "remove", f, lease[c])
    BY <2>2
  <2> HIDE DEF f
  <2>5. Site(c)' = "remove" /\ fr'[c] = f /\ pc'[c] = "remove"
    BY <2>4 DEF Moves, Site, SiteOf, Emitting
  <2>6. EndFlow(c)
    BY <1>3, <2>1, <2>3, <2>5 DEF EndFlow, Doomed, Ending
  <2>7. WatchFlow(c)
    BY <1>3, <2>1, <2>2, <2>3, <2>5 DEF WatchFlow
  <2>8. QED
    BY <1>4, <2>3, <2>4, <2>6, <2>7
<1>7. CASE CancelTerminate(c) \/ CancelQuiesce(c)
  <2>1. PICK p \in {"quiesce", "complete"} : Moves(c, p, fr[c], lease[c]) /\ UNCHANGED fr
    BY <1>7, CancelQuiesceMoves DEF CancelTerminate, CancelQuiesce
  <2>2. /\ pc[c] \in {"remove", "quiesce"} /\ UNCHANGED <<lease, children>>
        /\ pc[c] = "remove" => fr[c].todo = {} 
    BY <1>7 DEF CancelTerminate, CancelQuiesce, processes, At
  <2>3. p = "complete" => Quiesced(fr[c].gen)
    BY <1>7, <2>1, CancelQuiesceMoves DEF CancelTerminate, CancelQuiesce, Moves
  <2>4. Site(c)' = p /\ fr'[c] = fr[c] /\ pc'[c] = p
    BY <2>1 DEF Moves, Site, SiteOf, Emitting
  <2>5. EndFlow(c)
    BY <1>3, <2>2, <2>3, <2>4 DEF EndFlow, Doomed, Ending
  <2>6. WatchFlow(c)
    BY <1>3, <2>2, <2>4 DEF WatchFlow
  <2>7. QED
    BY <1>1, <1>4, <2>1, <2>5, <2>6
<1>8. CASE CancelTimeout(c)
  BY <1>8, CancelQuiesceMoves, FlowIdle
<1>9. CASE CancelAppend(c)
  <2>1. pc[c] = "complete"
    BY <1>9 DEF CancelAppend, At
  <2>2. CASE AfterCancel(c, TRUE) \/ AfterCancel(c, FALSE)
    BY <2>2, FlowAfterCancel
  <2>3. CASE /\ current = fr[c].gen
             /\ Moves(c, "cancel_publish", [fr[c] EXCEPT !.seq = Len(log')], lease[c])
    <3> DEFINE f == [fr[c] EXCEPT !.seq = Len(log')]
    <3>1. f \in Frames /\ Moves(c, "cancel_publish", f, lease[c])
      BY <2>3 DEF Moves, ThreadOK, FrOK
    <3>2. f.op = fr[c].op /\ f.replaced = fr[c].replaced /\ f.gen = fr[c].gen /\ f.todo = fr[c].todo
      BY <1>1 DEF Frames
    <3> HIDE DEF f
    <3>3. Site(c)' = "cancel_publish" /\ fr'[c] = f
      BY <3>1 DEF Moves, Site, SiteOf, Emitting
    <3>4. EndFlow(c) /\ WatchFlow(c)
      BY <1>3, <1>9, <2>1, <2>3, <3>2, <3>3 DEF EndFlow, WatchFlow, Doomed, Ending
    <3>5. QED
      BY <1>4, <3>1, <3>2, <3>4
  <2>4. QED
    BY <1>9, <2>2, <2>3, CancelAppendMoves
<1>10. CASE CancelPublish(c)
  <2>1. \E ok : AfterCancel(c, ok)
    BY <1>10 DEF CancelPublish
  <2>2. QED
    BY <2>1, FlowAfterCancel
<1>11. QED
  BY <1>5, <1>6, <1>7, <1>8, <1>9, <1>10

\* The flow of the first steps of the operations.
LEMMA FlowCalls ==
    ASSUME TypeInv, ShapeInv, NEW c \in Threads, Calls(c)
    PROVE  Flow(c)
<1>1. fr[c] \in Frames /\ ShapeOf(pc[c], fr[c], lease[c])
  BY ShapeAt
<1>2. pc[c] = "idle"
  BY DEF Calls, CallSubmit, CallCancel, CallUnwatch, CallWatchEvent, CallLaunch, CallWrite, Begin, At
<1>3. fr[c] = NoFrame /\ lease[c] = NoLease
  BY <1>1, <1>2 DEF ShapeOf
<1>4. CASE CallUnwatch(c)
  BY <1>4, CallMoves, FlowStays
<1>5. CASE CallCancel(c)
  <2>1. Site(c)' = "cancel" /\ fr'[c].op = "cancel" /\ fr'[c].replaced = None
    <3>1. Moves(c, "cancel", [NoFrame EXCEPT !.op = "cancel"], lease[c])
      BY <1>3, <1>5, CallMoves
    <3>2. QED
      BY <3>1 DEF Moves, Site, SiteOf, Emitting, NoFrame
  <2>2. QED
    BY <2>1, FlowPlain DEF Works, Ending
<1>6. CASE CallSubmit(c)
  <2>1. PICK ids \in SUBSET WatchIds, p \in {"register", "cancel"} :
                  Moves(c, p, [fr[c] EXCEPT !.op = "submit", !.ids = ids], lease[c])
    BY <1>6, CallMoves
  <2>2. Site(c)' = p /\ fr'[c].op = "submit" /\ fr'[c].replaced = None
    BY <1>3, <2>1 DEF Moves, Site, SiteOf, Emitting, NoFrame
  <2>3. QED
    BY <2>2, FlowPlain DEF Works, Ending
<1>7. CASE CallWatchEvent(c)
  <2>1. CASE UNCHANGED threads
    BY <2>1, FlowStays
  <2>2. ASSUME NEW m \in fired, Live(m[2]),
               Moves(c, "touch", [NoFrame EXCEPT !.op = "watch", !.ids = {m[1]}, !.gen = m[2]],
                     [lease[c] EXCEPT !.op = m[2]])
        PROVE  Flow(c)
    <3>2. /\ Site(c)' = "touch" /\ fr'[c].op = "watch" /\ fr'[c].gen = m[2] /\ fr'[c].replaced = None
      BY <2>2 DEF Moves, Site, SiteOf, Emitting, NoFrame
    <3>3. EndFlow(c) /\ WatchFlow(c) /\ LaunchFlow(c) /\ RunFlow(c)
      BY <3>2 DEF EndFlow, WatchFlow, LaunchFlow, RunFlow, Ending
    <3>4. OpFlow(c)
      BY <1>7, <2>2, <3>2 DEF OpFlow
    <3>5. QED
      BY <3>2, <3>3, <3>4 DEF Flow, ReplacedFlow, WriteFlow
  <2>3. QED
    BY <1>7, <2>1, <2>2, WatchMoves
<1>8. CASE CallLaunch(c)
  <2>1. CASE UNCHANGED threads
    BY <2>1, FlowStays
  <2>2. CASE /\ Ensured \notin cancelled /\ LaunchFree(Ensured)
             /\ Moves(c, "spawn", [fr[c] EXCEPT !.op = "launch", !.gen = Ensured],
                             [lease[c] EXCEPT !.op = Ensured, !.launch = Ensured])
    <3>1. Ensured = current'
      BY <1>8, EnsureTokens DEF CallLaunch
    <3>2. /\ Site(c)' = "spawn" /\ fr'[c].op = "launch" /\ fr'[c].gen = Ensured /\ fr'[c].replaced = None
      BY <1>3, <2>2 DEF Moves, Site, SiteOf, Emitting, NoFrame
    <3>3. EndFlow(c) /\ WatchFlow(c) /\ OpFlow(c) /\ RunFlow(c)
      BY <3>2 DEF EndFlow, WatchFlow, OpFlow, Works, RunFlow, Ending
    <3>4. LaunchFlow(c)
      BY <1>8, <2>2, <3>1, <3>2 DEF LaunchFlow
    <3>5. QED
      BY <3>2, <3>3, <3>4 DEF Flow, ReplacedFlow, WriteFlow
  <2>3. QED
    BY <1>8, <2>1, <2>2, LaunchMoves
<1>9. CASE CallWrite(c)
  <2>1. /\ Site(c)' = "done" /\ fr'[c].op = "write" /\ fr'[c].replaced = None
    <3>1. Moves(c, "emit", Emits([NoFrame EXCEPT !.op = "write"], "context_updated", 0, "done"), lease[c])
      BY <1>9, CallWriteMoves
    <3>2. QED
      BY <3>1 DEF Moves, Site, SiteOf, Emitting, NoFrame, Emits
  <2>2. "write" \in limits.ops
    BY <1>9 DEF CallWrite, Begin
  <2>3. EndFlow(c) /\ WatchFlow(c) /\ LaunchFlow(c) /\ OpFlow(c) /\ RunFlow(c)
    BY <2>1 DEF EndFlow, WatchFlow, LaunchFlow, OpFlow, Works, RunFlow, Ending
  <2>4. QED
    BY <2>1, <2>2, <2>3 DEF Flow, ReplacedFlow, WriteFlow
<1>10. QED
  BY <1>4, <1>5, <1>6, <1>7, <1>8, <1>9 DEF Calls

\* The flow of an admission.
LEMMA FlowAdmission ==
    ASSUME TypeInv, ShapeInv, NEW c \in Threads,
           Register(c) \/ InstallLookup(c) \/ InstallPublish(c) \/ InstallDone(c)
    PROVE  Flow(c)
<1>1. fr[c] \in Frames /\ fr[c].op \in Ops /\ ShapeOf(pc[c], fr[c], lease[c])
  BY ShapeAt
<1>2. pc[c] \in {"register", "install", "install_publish"}
  BY DEF Register, InstallLookup, InstallPublish, InstallDone, At
<1>3. fr[c].op = "submit" /\ Site(c) = pc[c]
  BY <1>1, <1>2 DEF ShapeOf, Site, SiteOf, SitesOf, Emitting, Ops
<1>4. ASSUME NEW p \in {"install", "install_publish", "rollback", "run"}, NEW f, pc[c] # "register",
             f.op = "submit", f.gen = fr[c].gen, f.replaced = fr[c].replaced, Moves(c, p, f, lease[c])
      PROVE  Flow(c)
  <2>1. Site(c)' = p /\ fr'[c] = f
    BY <1>4 DEF Moves, Site, SiteOf, Emitting
  <2>2. Works(fr[c].op, Site(c))
    BY <1>2, <1>3, <1>4 DEF Works
  <2>3. QED
    BY <1>3, <1>4, <2>1, <2>2, FlowPlain DEF Ending
<1>5. CASE Register(c)
  <2>1. CASE Moves(c, "idle", NoFrame, NoLease)
    BY <2>1, FlowIdle
  <2>2. CASE /\ MayRegister
              /\ nextId' = nextId + 1 /\ current' = nextId + 1
              /\ task' = Record("Idle", fr[c].ids, TRUE, 0)
              /\ Moves(c, "install",
                       [fr[c] EXCEPT !.gen = nextId + 1, !.todo = fr[c].ids, !.replaced = task],
                       lease[c])
    <3>1. /\ Site(c)' = "install" /\ fr'[c].op = "submit" /\ fr'[c].gen = current' /\ fr'[c].replaced = task
      BY <1>1, <1>3, <2>2 DEF Moves, Site, SiteOf, Emitting, Frames
    <3>2. EndFlow(c) /\ WatchFlow(c) /\ LaunchFlow(c) /\ RunFlow(c)
      BY <3>1 DEF EndFlow, WatchFlow, LaunchFlow, RunFlow, Ending
    <3>3. OpFlow(c)
      BY <1>5, <2>2, <3>1 DEF OpFlow
    <3>4. QED
      BY <1>5, <2>2, <3>1, <3>2, <3>3 DEF Flow, ReplacedFlow, WriteFlow
  <2>3. QED
    BY <1>5, <2>1, <2>2, RegisterMoves
<1>6. Moves(c, "rollback", [fr[c] EXCEPT !.initial = FALSE, !.todo = {}], lease[c]) /\ pc[c] # "register" => Flow(c)
  <2> DEFINE f == [fr[c] EXCEPT !.initial = FALSE, !.todo = {}]
  <2>1. f.op = "submit" /\ f.gen = fr[c].gen /\ f.replaced = fr[c].replaced
    BY <1>1, <1>3 DEF Frames
  <2> HIDE DEF f
  <2>2. Moves(c, "rollback", f, lease[c]) /\ pc[c] # "register" => Flow(c)
    BY <1>4, <2>1
  <2>3. QED
    BY <2>2 DEF f
<1>7. CASE InstallLookup(c)
  <2>1. pc[c] = "install"
    BY <1>7 DEF InstallLookup, At
  <2>2. ASSUME NEW w, Moves(c, "install_publish", [fr[c] EXCEPT !.for = Ensured, !.todo = @ \ {w}, !.kind = w], lease[c])
        PROVE  Flow(c)
    <3> DEFINE f == [fr[c] EXCEPT !.for = Ensured, !.todo = @ \ {w}, !.kind = w]
    <3>1. f.op = "submit" /\ f.gen = fr[c].gen /\ f.replaced = fr[c].replaced /\ Moves(c, "install_publish", f, lease[c])
      BY <1>1, <1>3, <2>2 DEF Frames
    <3> HIDE DEF f
    <3>2. QED
      BY <1>4, <2>1, <3>1
  <2>3. QED
    BY <1>6, <1>7, <2>1, <2>2, InstallLookupMoves
<1>8. CASE InstallPublish(c)
  <2>1. pc[c] = "install_publish"
    BY <1>8 DEF InstallPublish, At
  <2>2. CASE Moves(c, "install", [fr[c] EXCEPT !.for = 0, !.kind = "none"], lease[c])
    <3> DEFINE f == [fr[c] EXCEPT !.for = 0, !.kind = "none"]
    <3>1. f.op = "submit" /\ f.gen = fr[c].gen /\ f.replaced = fr[c].replaced /\ Moves(c, "install", f, lease[c])
      BY <1>1, <1>3, <2>2 DEF Frames
    <3> HIDE DEF f
    <3>2. QED
      BY <1>4, <2>1, <3>1
  <2>3. CASE Moves(c, "rollback", [fr[c] EXCEPT !.for = 0, !.kind = "none", !.todo = {}], lease[c])
    <3> DEFINE f == [fr[c] EXCEPT !.for = 0, !.kind = "none", !.todo = {}]
    <3>1. f.op = "submit" /\ f.gen = fr[c].gen /\ f.replaced = fr[c].replaced /\ Moves(c, "rollback", f, lease[c])
      BY <1>1, <1>3, <2>3 DEF Frames
    <3> HIDE DEF f
    <3>2. QED
      BY <1>4, <2>1, <3>1
  <2>4. QED
    BY <1>8, <2>2, <2>3, InstallPublishMoves
<1>9. CASE InstallDone(c)
  <2>1. pc[c] = "install"
    BY <1>9 DEF InstallDone, At
  <2>2. CASE Moves(c, "run", [fr[c] EXCEPT !.fence = "Initial"], lease[c])
    <3> DEFINE f == [fr[c] EXCEPT !.fence = "Initial"]
    <3>1. f.op = "submit" /\ f.gen = fr[c].gen /\ f.replaced = fr[c].replaced /\ Moves(c, "run", f, lease[c])
      BY <1>1, <1>3, <2>2 DEF Frames
    <3> HIDE DEF f
    <3>2. QED
      BY <1>4, <2>1, <3>1
  <2>3. QED
    BY <1>6, <1>9, <2>1, <2>2, InstallDoneMoves
<1>10. QED
  BY <1>5, <1>7, <1>8, <1>9

\* The flow of a rollback.
LEMMA FlowRollback ==
    ASSUME TypeInv, ShapeInv, NEW c \in Threads,
           RollbackBegin(c) \/ RollbackQuiesce(c) \/ RollbackClean(c) \/ RollbackFinal(c)
    PROVE  Flow(c)
<1>1. fr[c] \in Frames /\ fr[c].op \in Ops /\ ShapeOf(pc[c], fr[c], lease[c])
  BY ShapeAt
<1>2. pc[c] \in RollbackSites
  BY DEF RollbackBegin, RollbackQuiesce, RollbackClean, RollbackFinal, At
<1>3. fr[c].op = "submit" /\ Site(c) = pc[c]
  BY <1>1, <1>2 DEF ShapeOf, Site, SiteOf, SitesOf, Emitting, Ops
<1>4. ASSUME NEW p \in RollbackSites, Moves(c, p, fr[c], lease[c]), EndFlow(c),
             p = "rollback_clean" => fr[c].replaced = None
      PROVE  Flow(c)
  <2>1. Site(c)' = p /\ fr'[c] = fr[c]
    BY <1>4 DEF Moves, Site, SiteOf, Emitting
  <2>2. WatchFlow(c) /\ LaunchFlow(c) /\ RunFlow(c) /\ ReplacedFlow(c) /\ WriteFlow(c)
    BY <1>3, <2>1 DEF WatchFlow, LaunchFlow, RunFlow, ReplacedFlow, WriteFlow
  <2>3. OpFlow(c)
    BY <1>2, <1>3, <1>4, <2>1 DEF OpFlow, Works
  <2>4. QED
    BY <1>4, <2>2, <2>3 DEF Flow
<1>5. Moves(c, "idle", NoFrame, NoLease) => Flow(c)
  BY FlowIdle
<1>6. CASE RollbackBegin(c)
  <2>1. CASE /\ current = fr[c].gen /\ cancelled' = cancelled \cup {fr[c].gen}
             /\ Moves(c, "rollback_quiesce", fr[c], lease[c])
    <3>1. Site(c)' = "rollback_quiesce" /\ fr'[c] = fr[c]
      BY <2>1 DEF Moves, Site, SiteOf, Emitting
    <3>2. current' = current
      BY <1>6 DEF RollbackBegin
    <3>3. EndFlow(c)
      BY <1>6, <2>1, <3>1, <3>2 DEF EndFlow, Doomed
    <3>4. QED
      BY <1>4, <2>1, <3>3
  <2>2. QED
    BY <1>5, <1>6, <2>1, RollbackMoves
<1>7. CASE RollbackQuiesce(c)
  <2>1. pc[c] = "rollback_quiesce" /\ UNCHANGED children
    BY <1>7 DEF RollbackQuiesce, At, processes
  <2>2. Moves(c, "idle", NoFrame, NoLease) \/ (Quiesced(fr[c].gen) /\ UNCHANGED lease)
    BY <1>7, RollbackMoves DEF RollbackQuiesce, RollbackFails, Return, Goto
  <2>3. ASSUME NEW p \in {"rollback_clean", "rollback_final"}, Moves(c, p, fr[c], lease[c]),
               p = "rollback_clean" => RemovesStorage(fr[c])
        PROVE  Flow(c)
    <3>1. Site(c)' = p /\ fr'[c] = fr[c] /\ pc'[c] = p
      BY <2>3 DEF Moves, Site, SiteOf, Emitting
    <3>2. Quiesced(fr[c].gen) /\ UNCHANGED lease
      BY <2>2, <2>3 DEF Moves
    <3>3. EndFlow(c)
      BY <1>3, <2>1, <3>1, <3>2 DEF EndFlow, Doomed, Ending
    <3>4. QED
      BY <1>4, <2>3, <3>3 DEF RemovesStorage
  <2>4. QED
    BY <1>5, <1>7, <2>3, RollbackMoves
<1>8. CASE RollbackClean(c)
  <2>1. pc[c] = "rollback_clean"
    BY <1>8 DEF RollbackClean, At
  <2>2. CASE Moves(c, "rollback_final", fr[c], lease[c])
    <3>1. Site(c)' = "rollback_final" /\ fr'[c] = fr[c] /\ pc'[c] = "rollback_final"
      BY <2>2 DEF Moves, Site, SiteOf, Emitting
    <3>2. EndFlow(c)
      BY <1>3, <2>1, <3>1 DEF EndFlow, Doomed, Ending
    <3>3. QED
      BY <1>4, <2>2, <3>2
  <2>3. QED
    BY <1>5, <1>8, <2>2, RollbackMoves
<1>9. CASE RollbackFinal(c)
  BY <1>5, <1>9, RollbackMoves
<1>10. QED
  BY <1>6, <1>7, <1>8, <1>9

\* The flow of the ends of a run.
LEMMA FlowRunOver ==
    ASSUME TypeInv, ShapeInv, NEW c \in Threads, pc[c] \in RunSites \cup {"run"}, RunOver(c)
    PROVE  Flow(c)
<1>1. fr[c] \in Frames /\ fr[c].op \in Ops /\ ShapeOf(pc[c], fr[c], lease[c])
  BY ShapeAt
<1>2. Site(c) = pc[c]
  BY DEF Site, SiteOf, Emitting
<1>3. CASE Moves(c, "idle", NoFrame, NoLease)
  BY <1>3, FlowIdle
<1>4. CASE /\ fr[c].op = "submit"
           /\ Moves(c, "rollback", [fr[c] EXCEPT !.initial = TRUE, !.run = 0], NoLease)
  <2>1. /\ Site(c)' = "rollback" /\ fr'[c].op = "submit" /\ fr'[c].gen = fr[c].gen
        /\ fr'[c].replaced = fr[c].replaced
    BY <1>1, <1>4 DEF Moves, Site, SiteOf, Emitting, Frames
  <2>2. Works(fr[c].op, Site(c))
    BY <1>2, <1>4 DEF Works
  <2>3. QED
    BY <1>4, <2>1, <2>2, FlowPlain DEF Ending
<1>5. CASE /\ fr[c].op \in {"watch", "recovered"}
           /\ Moves(c, "owned", fr[c], [lease[c] EXCEPT !.run = 0])
  <2>1. Site(c)' = "owned" /\ fr'[c] = fr[c]
    BY <1>5 DEF Moves, Site, SiteOf, Emitting
  <2>2. Works(fr[c].op, Site(c))
    BY <1>5 DEF Works
  <2>3. QED
    BY <1>5, <2>1, <2>2, FlowPlain DEF Ending
<1>6. QED
  BY <1>3, <1>4, <1>5 DEF RunOver

\* The flow of a run.
LEMMA FlowRun ==
    ASSUME TypeInv, ShapeInv, NEW c \in Threads,
           \/ RunClaim(c) \/ RunClaimed(c) \/ RunStarted(c) \/ RunStep(c)
           \/ RunFinish(c) \/ RunRefreshed(c) \/ RunEnded(c)
    PROVE  Flow(c)
<1>1. fr[c] \in Frames /\ fr[c].op \in Ops /\ ShapeOf(pc[c], fr[c], lease[c])
  BY ShapeAt
<1>2. pc[c] \in RunSites \cup {"run"}
  BY DEF RunClaim, RunClaimed, RunStarted, RunStep, RunFinish, RunRefreshed, RunEnded, At
<1>3. Site(c) = pc[c] /\ fr[c].op \in {"submit", "watch", "recovered"}
  BY <1>1, <1>2 DEF ShapeOf, Site, SiteOf, SitesOf, Emitting, Ops
<1>4. RunOver(c) => Flow(c)
  BY <1>2, FlowRunOver
<1>5. ASSUME NEW s \in RunSites, Site(c)' = s,
             fr'[c].op = fr[c].op, fr'[c].gen = fr[c].gen, fr'[c].replaced = fr[c].replaced, RunFlow(c)
      PROVE  Flow(c)
  <2>1. Works(fr[c].op, Site(c))
    BY <1>2, <1>3 DEF Works
  <2>2. EndFlow(c) /\ WatchFlow(c) /\ LaunchFlow(c) /\ WriteFlow(c) /\ ReplacedFlow(c)
    BY <1>3, <1>5 DEF EndFlow, WatchFlow, LaunchFlow, WriteFlow, ReplacedFlow, Ending
  <2>3. OpFlow(c)
    BY <1>5, <2>1 DEF OpFlow
  <2>4. QED
    BY <1>5, <2>2, <2>3 DEF Flow
<1>6. ASSUME NEW f \in Frames, NEW kind, NEW for, NEW ret \in RunSites, NEW l,
             f.op = fr[c].op, f.gen = fr[c].gen, f.replaced = fr[c].replaced, f.run = fr[c].run,
             pc[c] # "run", ret \in RunnerSites => pc[c] \in RunnerSites, ret # "claimed",
             Moves(c, "emit", Emits(f, kind, for, ret), l)
      PROVE  Flow(c)
  <2>1. /\ Site(c)' = ret /\ fr'[c].op = fr[c].op /\ fr'[c].gen = fr[c].gen /\ fr'[c].run = fr[c].run
        /\ fr'[c].replaced = fr[c].replaced
    BY <1>6 DEF Moves, Site, SiteOf, Emitting, Emits, Frames
  <2>2. RunFlow(c)
    BY <1>2, <1>3, <1>6, <2>1 DEF RunFlow
  <2>3. QED
    BY <1>5, <2>1, <2>2
<1>7. CASE RunClaim(c)
  <2>1. CASE RunOver(c)
    BY <1>4, <2>1
  <2>2. CASE /\ RunAdmitted(c) /\ Ensure
             /\ task' = [task EXCEPT !.life = Started(@)]
             /\ \E p \in {"claimed", "started"} :
                    /\ p = "claimed" => task.life = "ReplanPending"
                    /\ Moves(c, p, [fr[c] EXCEPT !.run = Ensured], [lease[c] EXCEPT !.run = Ensured])
    <3>1. PICK p \in {"claimed", "started"} :
                    /\ p = "claimed" => task.life = "ReplanPending"
                    /\ Moves(c, p, [fr[c] EXCEPT !.run = Ensured], [lease[c] EXCEPT !.run = Ensured])
      BY <2>2
    <3>2. /\ Site(c)' = p /\ pc'[c] = p /\ fr'[c].op = fr[c].op /\ fr'[c].gen = fr[c].gen /\ fr'[c].run = Ensured
          /\ fr'[c].replaced = fr[c].replaced
      BY <1>1, <3>1 DEF Moves, Site, SiteOf, Emitting, Frames
    <3>3. Ensured = current' /\ pc[c] = "run"
      BY <1>7, <2>2, EnsureTokens DEF RunClaim, At
    <3>4. RunFlow(c)
      BY <1>7, <2>2, <3>1, <3>2, <3>3 DEF RunFlow
    <3>5. QED
      BY <1>5, <3>2, <3>4
  <2>3. QED
    BY <1>7, <2>1, <2>2, RunClaimMoves
<1>8. CASE RunClaimed(c)
  <2>1. pc[c] = "claimed"
    BY <1>8 DEF RunClaimed, At
  <2>2. CASE Moves(c, "started", fr[c], lease[c])
    <3>1. Site(c)' = "started" /\ fr'[c] = fr[c]
      BY <2>2 DEF Moves, Site, SiteOf, Emitting
    <3>2. RunFlow(c)
      BY <1>3, <2>1, <3>1 DEF RunFlow
    <3>3. QED
      BY <1>5, <3>1, <3>2
  <2>3. QED
    BY <1>4, <1>8, <2>2, RunClaimedMoves
<1>9. CASE RunStarted(c) \/ RunStep(c)
  <2>1. pc[c] \in {"started", "execute"}
    BY <1>9 DEF RunStarted, RunStep, At
  <2>2. QED
    BY <1>1, <1>6, <1>9, <2>1, RunEmitMoves
<1>10. CASE RunFinish(c)
  <2>1. pc[c] = "execute"
    BY <1>10 DEF RunFinish, At
  <2>2. CASE RunOver(c)
    BY <1>4, <2>2
  <2>3. CASE \E ok \in BOOLEAN :
                    LET f == [fr[c] EXCEPT !.ok = ok, !.rerun = (task.life = "RunningReplanPending")]
                    IN  /\ f \in Frames
                        /\ ok => Moves(c, "emit", Emits(f, "context_updated", fr[c].run, "refreshed"), lease[c])
                        /\ ~ok => Moves(c, "emit", Emits(f, "task_failed", fr[c].run, "ended"), lease[c])
    <3> DEFINE f(ok) == [fr[c] EXCEPT !.ok = ok, !.rerun = (task.life = "RunningReplanPending")]
    <3>1. PICK ok \in BOOLEAN :
                        /\ f(ok) \in Frames
                        /\ ok => Moves(c, "emit", Emits(f(ok), "context_updated", fr[c].run, "refreshed"), lease[c])
                        /\ ~ok => Moves(c, "emit", Emits(f(ok), "task_failed", fr[c].run, "ended"), lease[c])
      BY <2>3
    <3>2. /\ f(ok).gen = fr[c].gen /\ f(ok).op = fr[c].op /\ f(ok).run = fr[c].run
          /\ f(ok).replaced = fr[c].replaced
      BY <1>1 DEF Frames
    <3> HIDE DEF f
    <3>3. QED
      BY <1>6, <2>1, <3>1, <3>2
  <2>4. QED
    BY <1>10, <2>2, <2>3, RunFinishMoves
<1>11. CASE RunRefreshed(c) \/ RunEnded(c)
  <2>1. pc[c] \in {"refreshed", "ended"}
    BY <1>11 DEF RunRefreshed, RunEnded, At
  <2>2. CASE Moves(c, "run", RerunFrame(fr[c]), [lease[c] EXCEPT !.run = 0])
    <3>1. /\ Site(c)' = "run" /\ fr'[c].op = fr[c].op /\ fr'[c].gen = fr[c].gen /\ fr'[c].replaced = fr[c].replaced
      BY <1>1, <2>2 DEF Moves, Site, SiteOf, Emitting, Frames, RerunFrame
    <3>2. Works(fr[c].op, Site(c))
      BY <1>3, <2>1 DEF Works
    <3>3. QED
      BY <1>3, <3>1, <3>2, FlowPlain DEF Ending
  <2>3. CASE RunRefreshed(c) /\ Moves(c, "emit", Emits(fr[c], "task_completed", fr[c].run, "ended"), lease[c])
    BY <1>1, <1>6, <2>1, <2>3
  <2>4. QED
    BY <1>4, <1>11, <2>2, <2>3, RunEndMoves
<1>12. QED
  BY <1>7, <1>8, <1>9, <1>10, <1>11

\* The flow of watch events, launches and the waiter.
LEMMA FlowOther ==
    ASSUME TypeInv, ShapeInv, NEW c \in Threads,
           \/ RunOwned(c) \/ OperationDone(c) \/ WatchTouch(c) \/ WatchReplan(c) \/ LaunchSpawn(c) \/ LaunchOwn(c)
           \/ LaunchRelease(c) \/ WaiterReports(c) \/ WaiterDone(c)
    PROVE  Flow(c)
<1>1. fr[c] \in Frames /\ fr[c].op \in Ops /\ ShapeOf(pc[c], fr[c], lease[c])
  BY ShapeAt
<1>2. Moves(c, "idle", NoFrame, NoLease) => Flow(c)
  BY FlowIdle
<1>3. CASE RunOwned(c) \/ OperationDone(c) \/ WaiterDone(c)
  BY <1>2, <1>3, WatchMoves, LaunchMoves
<1>4. CASE WatchReplan(c)
  <2>1. pc[c] = "replan"
    BY <1>4 DEF WatchReplan, At
  <2>2. fr[c].op = "watch"
    BY <1>1, <2>1 DEF ShapeOf, SiteOf, SitesOf, Emitting, Ops
  <2>3. CASE Moves(c, "run", [NoFrame EXCEPT !.op = "watch", !.gen = fr[c].gen], lease[c])
    <3>1. /\ Site(c)' = "run" /\ fr'[c].op = "watch" /\ fr'[c].gen = fr[c].gen /\ fr'[c].replaced = None
      BY <2>3 DEF Moves, Site, SiteOf, Emitting, NoFrame
    <3>2. QED
      BY <2>2, <3>1, FlowPlain DEF Works, Ending
  <2>4. QED
    BY <1>2, <1>4, <2>3, WatchMoves
<1>5. ASSUME NEW s \in {"own", "release", "wait", "reap"}, Site(c)' = s, fr[c].op \in {"launch", "waiter"},
             fr'[c].op \in {"launch", "waiter"}, fr'[c].gen = fr[c].gen, fr'[c].replaced \in {None, fr[c].replaced}, LaunchFlow(c)
      PROVE  Flow(c)
  BY <1>5 DEF Flow, EndFlow, WatchFlow, OpFlow, Works, ReplacedFlow, WriteFlow, RunFlow, Ending
<1>6. CASE LaunchSpawn(c)
  <2>1. pc[c] = "spawn"
    BY <1>6 DEF LaunchSpawn, At
  <2>2. fr[c].op = "launch"
    BY <1>1, <2>1 DEF ShapeOf, SiteOf, SitesOf, Emitting, Ops
  <2>3. CASE children' = register_child(fr[c].gen) /\ Moves(c, "own", fr[c], lease[c])
    <3>1. Site(c)' = "own" /\ fr'[c] = fr[c]
      BY <2>3 DEF Moves, Site, SiteOf, Emitting
    <3>2. fr[c].gen \in children'
      BY <2>3 DEF register_child
    <3>3. LaunchFlow(c)
      BY <1>6, <2>2, <3>1, <3>2 DEF LaunchFlow
    <3>4. QED
      BY <1>5, <2>2, <3>1, <3>3
  <2>4. QED
    BY <1>2, <1>6, <2>3, LaunchMoves
<1>7. CASE LaunchOwn(c)
  <2>1. pc[c] = "own"
    BY <1>7 DEF LaunchOwn, At
  <2>2. fr[c].op = "launch" /\ Site(c) = "own"
    BY <1>1, <2>1 DEF ShapeOf, Site, SiteOf, SitesOf, Emitting, Ops
  <2>3. CASE Moves(c, "emit", Emits(fr[c], "agent_launch_started", fr[c].gen, "release"), lease[c])
    <3>1. /\ Site(c)' = "release" /\ fr'[c].op = "launch" /\ fr'[c].gen = fr[c].gen /\ fr'[c].replaced = fr[c].replaced
      BY <1>1, <2>2, <2>3 DEF Moves, Site, SiteOf, Emitting, Emits, Frames
    <3>2. LaunchFlow(c)
      BY <2>2, <3>1 DEF LaunchFlow
    <3>3. QED
      BY <1>5, <2>2, <3>1, <3>2
  <2>4. QED
    BY <1>2, <1>7, <2>3, LaunchMoves
<1>8. CASE LaunchRelease(c)
  <2>1. pc[c] = "release"
    BY <1>8 DEF LaunchRelease, At
  <2>2. fr[c].op = "launch" /\ Site(c) = "release"
    BY <1>1, <2>1 DEF ShapeOf, Site, SiteOf, SitesOf, Emitting, Ops
  <2>3. CASE Moves(c, "wait", [NoFrame EXCEPT !.op = "waiter", !.gen = fr[c].gen], NoLease)
    <3>1. /\ Site(c)' = "wait" /\ fr'[c].op = "waiter" /\ fr'[c].gen = fr[c].gen /\ fr'[c].replaced = None
      BY <2>3 DEF Moves, Site, SiteOf, Emitting, NoFrame
    <3>2. LaunchFlow(c)
      BY <2>2, <3>1 DEF LaunchFlow
    <3>3. QED
      BY <1>5, <2>2, <3>1, <3>2
  <2>4. QED
    BY <1>2, <1>8, <2>3, LaunchMoves
<1>9. CASE WaiterReports(c)
  <2>1. pc[c] = "wait" /\ proc[fr[c].gen] = "dead"
    BY <1>9 DEF WaiterReports, At
  <2>2. fr[c].op = "waiter" /\ Site(c) = "wait"
    BY <1>1, <2>1 DEF ShapeOf, Site, SiteOf, SitesOf, Emitting, Ops
  <2>3. Moves(c, "emit", Emits(fr[c], "agent_launch_completed", fr[c].gen, "reap"), lease[c])
    BY <1>9, LaunchMoves
  <2>4. /\ Site(c)' = "reap" /\ fr'[c].op = "waiter" /\ fr'[c].gen = fr[c].gen /\ fr'[c].replaced = fr[c].replaced
    BY <1>1, <2>2, <2>3 DEF Moves, Site, SiteOf, Emitting, Emits, Frames
  <2>5. LaunchFlow(c)
    BY <1>9, <2>1, <2>2, <2>4 DEF LaunchFlow
  <2>6. QED
    BY <1>5, <2>2, <2>4, <2>5
<1>10. CASE WatchTouch(c)
  <2>1. pc[c] = "touch"
    BY <1>10 DEF WatchTouch, At
  <2>2. fr[c].op = "watch"
    BY <1>1, <2>1 DEF ShapeOf, SiteOf, SitesOf, Emitting, Ops
  <2>3. ASSUME NEW kind \in {"watch_triggered", "watch_error"}, NEW ret \in {"done", "replan"},
               Moves(c, "emit", Emits([NoFrame EXCEPT !.op = "watch", !.gen = fr[c].gen], kind, fr[c].gen, ret),
                     lease[c])
        PROVE  Flow(c)
    <3>1. /\ Site(c)' = ret /\ fr'[c].op = "watch" /\ fr'[c].gen = fr[c].gen /\ fr'[c].replaced = None
      BY <2>3 DEF Moves, Site, SiteOf, Emitting, NoFrame, Emits
    <3>2. QED
      BY <2>2, <3>1, FlowPlain DEF Works, Ending
  <2>4. QED
    BY <1>2, <1>10, <2>3, WatchMoves
<1>11. QED
  BY <1>3, <1>4, <1>6, <1>7, <1>8, <1>9, <1>10

\* Where a thread can have come from, for every step.
LEMMA Flows ==
    ASSUME TypeInv, ShapeInv, NEW c \in Threads, Acts(c)
    PROVE  Flow(c)
BY FlowEmit, FlowCancel, FlowCalls, FlowAdmission, FlowRollback, FlowRun, FlowOther DEF Acts, Step
-----------------------------------------------------------------------------
(* The event lane *)

\* Only an append reaches the publication of an event.
LEMMA PublishEntry ==
    ASSUME TypeInv, ShapeInv, NEW c \in Threads, Acts(c)
    PROVE  EmitAppend(c) \/ pc'[c] # "emit_publish"
<1> DEFINE G == pc'[c] # "emit_publish"
<1>0. fr[c] \in Frames /\ ShapeOf(pc[c], fr[c], lease[c])
  BY ShapeAt
<1>1. \A p, f, l : p # "emit_publish" /\ Moves(c, p, f, l) => G
  BY DEF Moves
<1>2. RunOver(c) => G
  BY <1>1 DEF RunOver
<1>3. \A ok : AfterCancel(c, ok) => G
  BY <1>1, AfterCancelMoves
<1>4. UNCHANGED threads /\ pc[c] = "idle" => G
  BY DEF threads
<1>5. CASE EmitPublish(c)
  <2>1. pc[c] = "emit_publish" /\ fr[c].ret \in Returns
    BY <1>0, <1>5 DEF EmitPublish, At, ShapeOf, Emitting
  <2>2. fr[c].ret # "emit_publish"
    BY <2>1 DEF Returns
  <2>3. QED
    BY <1>1, <1>5, <2>2, EmitPublishMoves
<1>6. CASE CancelRequest(c) \/ CancelRemoveWatch(c) \/ CancelTerminate(c) \/ CancelQuiesce(c)
           \/ CancelTimeout(c)
  BY <1>1, <1>3, <1>6, CancelRequestMoves, CancelRemoveWatchMoves, CancelQuiesceMoves
<1>7. CASE CancelAppend(c) \/ CancelPublish(c)
  <2>1. CancelPublish(c) => AfterCancel(c, TRUE) \/ AfterCancel(c, FALSE)
    BY DEF CancelPublish, AfterCancel
  <2>2. QED
    BY <1>1, <1>3, <1>7, <2>1, CancelAppendMoves
<1>8. CASE CallSubmit(c) \/ CallCancel(c) \/ CallUnwatch(c)
  <2>1. pc[c] = "idle"
    BY <1>8 DEF CallSubmit, CallCancel, CallUnwatch, Begin, At
  <2>2. QED
    BY <1>1, <1>4, <1>8, <2>1, CallMoves
<1>9. CASE CallWatchEvent(c)
  <2>1. pc[c] = "idle"
    BY <1>9 DEF CallWatchEvent, Begin, At
  <2>2. QED
    BY <1>1, <1>4, <1>9, <2>1, WatchMoves
<1>10. CASE OperationDone(c) \/ RunOwned(c) \/ WatchTouch(c) \/ WatchReplan(c)
  BY <1>1, <1>10, WatchMoves
<1>11. CASE Register(c) \/ InstallLookup(c) \/ InstallPublish(c) \/ InstallDone(c)
  BY <1>1, <1>11, RegisterMoves, InstallLookupMoves, InstallPublishMoves, InstallDoneMoves
<1>12. CASE RollbackBegin(c) \/ RollbackQuiesce(c) \/ RollbackClean(c) \/ RollbackFinal(c)
  BY <1>1, <1>12, RollbackMoves
<1>13. CASE RunClaim(c) \/ RunClaimed(c) \/ RunStarted(c) \/ RunStep(c)
  BY <1>1, <1>2, <1>13, RunClaimMoves, RunClaimedMoves, RunEmitMoves
<1>14. CASE RunFinish(c)
  BY <1>1, <1>2, <1>14, RunFinishMoves
<1>15. CASE RunRefreshed(c) \/ RunEnded(c)
  BY <1>1, <1>2, <1>15, RunEndMoves
<1>16. CASE CallLaunch(c)
  <2>1. pc[c] = "idle"
    BY <1>16 DEF CallLaunch, Begin, At
  <2>2. QED
    BY <1>1, <1>4, <1>16, <2>1, LaunchMoves
<1>17. CASE LaunchSpawn(c) \/ LaunchOwn(c) \/ LaunchRelease(c) \/ WaiterReports(c) \/ WaiterDone(c)
  BY <1>1, <1>17, LaunchMoves
<1>18. CASE CallWrite(c)
  BY <1>1, <1>18, CallWriteMoves
<1>19. QED
  BY <1>5, <1>6, <1>7, <1>8, <1>9, <1>10, <1>11, <1>12, <1>13, <1>14, <1>15, <1>16, <1>17, <1>18
     DEF Acts, Calls, Step

\* A thread that may hold the lane releases it with its next step.
LEMMA LaneLabels ==
    ASSUME NEW c \in Threads, Acts(c), pc[c] \in {"emit_publish", "cancel_publish", "rollback_final"}
    PROVE  \/ EmitPublish(c) /\ pc[c] = "emit_publish"
           \/ CancelPublish(c) /\ pc[c] = "cancel_publish"
           \/ RollbackFinal(c) /\ pc[c] = "rollback_final"
<1> USE DEF At
<1>1. ~Calls(c)
  BY DEF Calls, CallSubmit, CallCancel, CallUnwatch, CallWatchEvent, CallLaunch, CallWrite, Begin
<1>2. ~(EmitAppend(c) \/ CancelRequest(c) \/ CancelRemoveWatch(c) \/ CancelTerminate(c) \/ CancelQuiesce(c)
           \/ CancelAppend(c) \/ CancelTimeout(c))
  BY DEF EmitAppend, CancelRequest, CancelRemoveWatch, CancelTerminate, CancelQuiesce, CancelAppend, CancelTimeout
<1>3. ~(Register(c) \/ InstallLookup(c) \/ InstallPublish(c) \/ InstallDone(c) \/ RollbackBegin(c)
           \/ RollbackQuiesce(c) \/ RollbackClean(c))
  BY DEF Register, InstallLookup, InstallPublish, InstallDone, RollbackBegin, RollbackQuiesce, RollbackClean
<1>4. ~(RunClaim(c) \/ RunClaimed(c) \/ RunStarted(c) \/ RunStep(c) \/ RunFinish(c) \/ RunRefreshed(c)
           \/ RunEnded(c) \/ RunOwned(c) \/ OperationDone(c) \/ WatchTouch(c) \/ WatchReplan(c))
  BY DEF RunClaim, RunClaimed, RunStarted, RunStep, RunFinish, RunRefreshed, RunEnded, RunOwned, OperationDone,
     WatchTouch, WatchReplan
<1>5. ~(LaunchSpawn(c) \/ LaunchOwn(c) \/ LaunchRelease(c) \/ WaiterReports(c) \/ WaiterDone(c))
  BY DEF LaunchSpawn, LaunchOwn, LaunchRelease, WaiterReports, WaiterDone
<1>6. EmitPublish(c) \/ CancelPublish(c) \/ RollbackFinal(c)
  BY <1>1, <1>2, <1>3, <1>4, <1>5 DEF Acts, Step
<1>7. QED
  BY <1>6 DEF EmitPublish, CancelPublish, RollbackFinal

Publishing == {"emit_publish", "cancel_publish"}

\* The lane belongs to the thread between append and publication, or to a final rollback.
LaneInv ==
    \A c \in Threads :
        /\ pc[c] \in Publishing => lane = c
        /\ lane = c => pc[c] \in Publishing \cup {"rollback_final"}

\* Every step keeps the lane with the thread between append and publication.
LEMMA LaneActs ==
    ASSUME TypeInv, ShapeInv, LaneInv, NEW c \in Threads, Acts(c)
    PROVE  LaneInv'
<1>1. None \notin Threads
  BY AdmissionAssumption
<1>2. \A d \in Threads \ {c} : pc'[d] = pc[d]
  BY EveryMove DEF Others
<1>3. ASSUME UNCHANGED lane, lane # c, pc'[c] \notin Publishing PROVE LaneInv'
  BY <1>2, <1>3 DEF LaneInv
<1>4. ASSUME lane = None, lane' = c, pc'[c] \in Publishing \cup {"rollback_final"} PROVE LaneInv'
  BY <1>1, <1>2, <1>4 DEF LaneInv
<1>5. ASSUME lane \in {None, c}, lane' = None, pc'[c] \notin Publishing PROVE LaneInv'
  BY <1>1, <1>2, <1>5 DEF LaneInv
<1>6. pc'[c] = "cancel_publish" => pc[c] = "cancel_publish" \/ CancelAppend(c)
  <2>1. pc'[c] = "cancel_publish" => Site(c)' \in Ending /\ Site(c)' \in Doomed
    BY DEF Site, SiteOf, Emitting, Ending, Doomed
  <2>2. QED
    BY <2>1, Flows DEF Flow, EndFlow
<1>7. CASE EmitAppend(c)
  <2>1. lane = None /\ pc[c] = "emit" /\ fr[c].ret \in Returns
    BY <1>7, ShapeAt DEF EmitAppend, At, ShapeOf, Emitting
  <2>2. CASE lane' = c /\ \E f, l : Moves(c, "emit_publish", f, l)
    BY <1>4, <2>1, <2>2 DEF Moves, Publishing
  <2>3. CASE UNCHANGED lane /\ \E f, l : Moves(c, fr[c].ret, f, l)
    <3>1. UNCHANGED lane /\ pc'[c] \notin Publishing /\ lane # c
      BY <1>1, <2>1, <2>3 DEF Moves, Publishing, Returns
    <3>2. QED
      BY <1>3, <3>1
  <2>4. QED
    BY <1>7, <2>2, <2>3, EmitAppendMoves DEF Failed, events
<1>8. CASE EmitPublish(c)
  <2>1. pc[c] = "emit_publish" /\ lane' = None
    BY <1>8 DEF EmitPublish, At, LaneReleased
  <2>2. lane = c /\ pc'[c] # "emit_publish"
    BY <1>8, <2>1, PublishEntry DEF LaneInv, Publishing, EmitAppend, At
  <2>3. pc'[c] # "cancel_publish"
    BY <1>6, <2>1 DEF CancelAppend, At
  <2>4. QED
    BY <1>5, <2>1, <2>2, <2>3 DEF Publishing
<1>9. CASE CancelAppend(c)
  <2>1. lane = None
    BY <1>9 DEF CancelAppend
  <2>2. CASE lane' = c /\ \E f, l : Moves(c, "cancel_publish", f, l)
    BY <1>4, <2>1, <2>2 DEF Moves, Publishing
  <2>3. CASE UNCHANGED lane /\ \E ok : AfterCancel(c, ok)
    <3>1. pc'[c] \in {"idle", "register"}
      BY <2>3, AfterCancelMoves DEF Moves
    <3>2. UNCHANGED lane /\ pc'[c] \notin Publishing /\ lane # c
      BY <1>1, <2>1, <2>3, <3>1 DEF Publishing
    <3>3. QED
      BY <1>3, <3>2
  <2>4. QED
    BY <1>9, <2>2, <2>3, CancelAppendMoves DEF Failed, events
<1>10. CASE CancelPublish(c)
  <2>1. pc[c] = "cancel_publish" /\ lane' = None /\ \E ok : AfterCancel(c, ok)
    BY <1>10 DEF CancelPublish, At, LaneReleased
  <2>2. pc'[c] \in {"idle", "register"}
    BY <2>1, AfterCancelMoves DEF Moves
  <2>3. lane = c
    BY <2>1 DEF LaneInv, Publishing
  <2>4. QED
    BY <1>5, <2>1, <2>2, <2>3 DEF Publishing
<1>11. CASE RollbackClean(c)
  <2>1. pc[c] = "rollback_clean" /\ lane = None
    BY <1>11 DEF RollbackClean, At
  <2>2. CASE lane' = c /\ Moves(c, "rollback_final", fr[c], lease[c])
    BY <1>4, <2>1, <2>2 DEF Moves
  <2>3. CASE UNCHANGED events /\ Moves(c, "idle", NoFrame, NoLease)
    BY <1>1, <1>3, <2>1, <2>3 DEF Moves, events, Publishing
  <2>4. QED
    BY <1>11, <2>2, <2>3, RollbackMoves
<1>12. CASE RollbackFinal(c)
  <2>1. lane \in {None, c} /\ lane' = None /\ Moves(c, "idle", NoFrame, NoLease)
    BY <1>12, RollbackMoves DEF RollbackFinal
  <2>2. QED
    BY <1>5, <2>1 DEF Moves, Publishing
<1>13. CASE /\ UNCHANGED events
            /\ ~(EmitAppend(c) \/ EmitPublish(c) \/ CancelAppend(c) \/ CancelPublish(c) \/ RollbackFinal(c))
  <2>1. pc[c] \notin Publishing \cup {"rollback_final"}
    BY <1>13, LaneLabels DEF Publishing
  <2>2. lane # c
    BY <2>1 DEF LaneInv
  <2>3. pc'[c] \notin Publishing
    BY <1>6, <1>13, <2>1, PublishEntry DEF Publishing
  <2>4. QED
    BY <1>3, <1>13, <2>2, <2>3 DEF events
<1>14. QED
  BY <1>7, <1>8, <1>9, <1>10, <1>11, <1>12, <1>13, LogSteps
-----------------------------------------------------------------------------
(* Leases belong to the active generation *)

\* A lease is kept, dropped, or taken of an active generation that is not cancelled.
NewLease(new, old) == new \in {0, old} \/ (new = current' /\ current' # 0 /\ current' \notin cancelled')

\* A lease is taken in the active generation, which is not cancelled, or was already held.
LEMMA LeaseFlow ==
    ASSUME TypeInv, ShapeInv, ShapeInv', TypeInv', NEW c \in Threads, Acts(c)
    PROVE  /\ NewLease(lease'[c].op, lease[c].op) /\ NewLease(lease'[c].run, lease[c].run)
           /\ NewLease(lease'[c].event, lease[c].event)
           /\ lease'[c].launch \in {0, lease'[c].op} /\ lease[c].launch \in {0, lease[c].op}
<1>1. /\ fr[c] \in Frames /\ lease[c] \in Leases /\ ShapeOf(pc[c], fr[c], lease[c])
      /\ ShapeOf(pc'[c], fr'[c], lease'[c]) /\ fr'[c] \in Frames /\ lease'[c] \in Leases
  BY ShapeAt DEF ShapeInv, Shape, TypeInv, FrOK, LeaseOK
<1>2. Flow(c)
  BY Flows
<1>3. NewLease(lease'[c].op, lease[c].op)
  <2>1. CASE fr'[c].op = "watch"
    <3>1. lease'[c].op = fr'[c].gen
      BY <1>1, <2>1 DEF ShapeOf
    <3>2. OpFlow(c) /\ Works(fr'[c].op, Site(c)')
      BY <1>2, <2>1 DEF Flow, Works
    <3>3. CASE fr'[c].op = fr[c].op /\ fr'[c].gen = fr[c].gen
      BY <1>1, <2>1, <3>1, <3>3 DEF ShapeOf, NewLease
    <3>4. CASE CallWatchEvent(c) /\ Live(fr'[c].gen)
      <4>1. UNCHANGED tokens
        BY <3>4, QuietSteps DEF Quiet
      <4>2. QED
        BY <3>1, <3>4, <4>1 DEF Live, tokens, NewLease
    <3>5. QED
      BY <2>1, <3>2, <3>3, <3>4 DEF OpFlow
  <2>2. CASE fr'[c].op = "launch"
    <3>1. lease'[c].op = fr'[c].gen /\ fr'[c].gen # 0
      BY <1>1, <2>2 DEF ShapeOf, SiteOf, SitesOf
    <3>2. CASE CallLaunch(c) /\ fr'[c].gen = current' /\ current' \notin cancelled
      <4>1. UNCHANGED cancelled
        BY <3>2 DEF CallLaunch
      <4>2. QED
        BY <3>1, <3>2, <4>1 DEF NewLease
    <3>3. CASE fr[c].op = "launch" /\ fr'[c].gen = fr[c].gen
      BY <1>1, <3>1, <3>3 DEF ShapeOf, NewLease
    <3>4. QED
      BY <1>2, <2>2, <3>2, <3>3 DEF Flow, LaunchFlow
  <2>3. CASE fr'[c].op \notin {"watch", "launch"}
    BY <1>1, <2>3 DEF ShapeOf, NewLease
  <2>4. QED
    BY <2>1, <2>2, <2>3
<1>4. NewLease(lease'[c].run, lease[c].run)
  <2>1. CASE Site(c)' \in RunSites
    <3>1. lease'[c].run = fr'[c].run
      BY <1>1, <2>1 DEF ShapeOf, Site
    <3>2. CASE Site(c) \in RunSites /\ fr'[c].run = fr[c].run
      BY <1>1, <3>1, <3>2 DEF ShapeOf, NewLease, Site
    <3>3. CASE RunClaim(c) /\ RunAdmitted(c) /\ Ensure /\ fr'[c].run = current'
      <4>1. UNCHANGED cancelled /\ Ensured \notin cancelled
        BY <3>3 DEF RunClaim, RunAdmitted
      <4>2. QED
        BY <3>1, <3>3, <4>1, EnsureTokens DEF NewLease
    <3>4. QED
      BY <1>2, <2>1, <3>2, <3>3 DEF Flow, RunFlow
  <2>2. CASE Site(c)' \notin RunSites
    BY <1>1, <2>2 DEF ShapeOf, NewLease, Site
  <2>3. QED
    BY <2>1, <2>2
<1>5. NewLease(lease'[c].event, lease[c].event)
  <2>1. CASE lease'[c].event = 0
    BY <2>1 DEF NewLease
  <2>2. CASE lease'[c].event # 0
    <3>1. pc'[c] = "emit_publish" /\ EmitAppend(c)
      BY <1>1, <2>2, PublishEntry DEF ShapeOf
    <3>2. pc[c] = "emit" /\ fr[c].ret \in Returns /\ UNCHANGED cancelled
      BY <1>1, <3>1 DEF EmitAppend, At, ShapeOf, Emitting
    <3>3. fr[c].ret # "emit_publish"
      BY <3>2 DEF Returns
    <3>4. \A f, l : ~Moves(c, fr[c].ret, f, l)
      BY <3>1, <3>3 DEF Moves
    <3>5. /\ EventAdmitted(fr[c])
          /\ lease'[c] = [lease[c] EXCEPT !.event = IF fr[c].for = 0 THEN Ensured ELSE fr[c].for]
      BY <3>1, <3>4, EmitAppendMoves DEF Moves, EventGen
    <3>6. lease'[c].event = IF fr[c].for = 0 THEN Ensured ELSE fr[c].for
      BY <1>1, <3>5 DEF Leases
    <3>7. CASE fr[c].for = 0
      <4>1. Ensure
        BY <3>1, <3>7 DEF EmitAppend
      <4>2. Ensured \notin cancelled /\ Ensured = current' /\ current' # 0
        BY <3>5, <3>7, <4>1, EnsureTokens DEF EventAdmitted
      <4>3. QED
        BY <3>2, <3>6, <3>7, <4>2 DEF NewLease
    <3>8. CASE fr[c].for # 0
      <4>1. UNCHANGED current
        BY <3>1, <3>8 DEF EmitAppend
      <4>2. Live(fr[c].for)
        BY <3>5, <3>8 DEF EventAdmitted
      <4>3. QED
        BY <3>2, <3>6, <3>8, <4>1, <4>2 DEF NewLease, Live
    <3>9. QED
      BY <3>7, <3>8
  <2>3. QED
    BY <2>1, <2>2
<1>6. lease'[c].launch \in {0, lease'[c].op} /\ lease[c].launch \in {0, lease[c].op}
  BY <1>1 DEF ShapeOf
<1>7. QED
  BY <1>3, <1>4, <1>5, <1>6

\* A child is registered by the holder of an operation lease, before cancellation.
LEMMA ChildFlow ==
    ASSUME TypeInv, ShapeInv, NEW c \in Threads, Acts(c)
    PROVE  \/ children' \subseteq children
           \/ /\ children' = children \cup {fr[c].gen} /\ lease[c].op = fr[c].gen /\ fr[c].gen # 0
              /\ fr[c].gen \notin cancelled /\ UNCHANGED tokens /\ lease'[c] = lease[c]
<1>1. CASE /\ LaunchSpawn(c) /\ fr[c].gen \notin cancelled /\ children' = children \cup {fr[c].gen}
           /\ Moves(c, "own", fr[c], lease[c])
  <2>1. /\ pc[c] = "spawn" /\ ShapeOf(pc[c], fr[c], lease[c]) /\ fr[c].op \in Ops
    BY <1>1, ShapeAt DEF LaunchSpawn, At
  <2>2. lease[c].op = fr[c].gen /\ fr[c].gen # 0
    BY <2>1 DEF ShapeOf, SiteOf, SitesOf, Emitting, Ops
  <2>3. UNCHANGED tokens
    BY <1>1 DEF LaunchSpawn
  <2>4. QED
    BY <1>1, <2>2, <2>3 DEF Moves
<1>2. CASE children' \subseteq children
  BY <1>2
<1>3. QED
  BY <1>1, <1>2, ProcSteps DEF processes, LaunchAborted, complete_child

GenerationHasRecord == current # 0 => task # None

EndingIsCancelled ==
    \A c \in Threads : Site(c) \in Ending /\ fr[c].gen = current => current \in cancelled

DoomedIsQuiesced ==
    \A c \in Threads : Site(c) \in Doomed /\ fr[c].gen = current => Quiesced(current)

PublishedIsCurrent ==
    \A c \in Threads : pc[c] = "cancel_publish" => fr[c].gen = current

\* What a generation has left, and what has to be over before it is retired.
TokenInv ==
    /\ GenerationHasRecord /\ LeasesAreCurrent /\ children \subseteq {current}
    /\ EndingIsCancelled /\ DoomedIsQuiesced /\ PublishedIsCurrent

\* A cancelled generation that is idle stays idle: nobody takes a lease of it again.
LEMMA QuiescedStays ==
    ASSUME TypeInv, ShapeInv, ShapeInv', TypeInv', TokenInv, NEW c \in Threads, Acts(c),
           current # 0, current' = current, current \in cancelled, Quiesced(current)
    PROVE  Quiesced(current)'
<1>1. cancelled \subseteq cancelled'
  BY TokenTypes
<1>2. current \in cancelled'
  BY <1>1
<1>3. ASSUME NEW d \in Threads PROVE current \notin {lease'[d].op, lease'[d].run, lease'[d].event}
  <2>1. current \notin {lease[d].op, lease[d].run, lease[d].event}
    BY DEF Quiesced, Busy
  <2>2. CASE d # c
    BY <2>1, <2>2, EveryMove DEF Others
  <2>3. CASE d = c
    BY <1>2, <2>1, <2>3, LeaseFlow DEF NewLease
  <2>4. QED
    BY <2>2, <2>3
<1>4. current \notin children'
  BY ChildFlow DEF Quiesced
<1>5. QED
  BY <1>3, <1>4 DEF Quiesced, Busy

\* The sites at which a thread has a generation.
LEMMA SiteGen ==
    ASSUME TypeInv, ShapeInv, NEW c \in Threads
    PROVE  /\ Site(c) \in Ending => fr[c].gen # 0
           /\ Site(c) \in RunSites => fr[c].gen # 0 /\ fr[c].run # 0 /\ lease[c].run = fr[c].run
           /\ Works(fr[c].op, Site(c)) => fr[c].gen # 0
           /\ fr[c].op \in {"launch", "waiter"} => fr[c].gen # 0
           /\ fr[c].gen \in Nat /\ fr[c].gen <= nextId /\ nextId \in Nat
<1>1. fr[c] \in Frames /\ fr[c].op \in Ops /\ ShapeOf(pc[c], fr[c], lease[c])
  BY ShapeAt
<1>2. Site(c) \in Ending \/ Site(c) \in RunSites => fr[c].op \notin {"none", "write"} /\ Site(c) \notin {"cancel", "register"}
  BY <1>1 DEF ShapeOf, Site, SitesOf, Ending
<1>3. Works(fr[c].op, Site(c)) \/ fr[c].op \in {"launch", "waiter"}
        => fr[c].op \notin {"none", "write"} /\ Site(c) \notin {"cancel", "register"}
  BY <1>1 DEF ShapeOf, Site, SitesOf, Works
<1>4. fr[c].op \notin {"none", "write"} /\ Site(c) \notin {"cancel", "register"} => fr[c].gen # 0
  BY <1>1 DEF ShapeOf, Site
<1>5. Site(c) \in RunSites => fr[c].run # 0 /\ lease[c].run = fr[c].run
  BY <1>1 DEF ShapeOf, Site
<1>6. fr[c].gen \in Nat /\ fr[c].gen <= nextId /\ nextId \in Nat
  BY <1>1, AdmissionAssumption DEF TypeInv, GenOK, TokensOK, Frames
<1>7. QED
  BY <1>2, <1>3, <1>4, <1>5, <1>6

\* A launch holds the lease of an operation, so that a wait for operations waits for it.
LEMMA LaunchIsOperation ==
    ASSUME TypeInv, ShapeInv, NEW c \in Threads
    PROVE  lease[c].launch \in {0, lease[c].op}
BY ShapeAt DEF ShapeOf

\* The lease fields of the threads after a step.
LEMMA LeasesKept ==
    ASSUME TypeInv, ShapeInv, ShapeInv', TypeInv', TokenInv, NEW c \in Threads, Acts(c), current = 0 \/ current' = current
    PROVE  LeasesAreCurrent'
<1>1. ASSUME NEW d \in Threads
      PROVE  {lease'[d].op, lease'[d].run, lease'[d].event, lease'[d].launch} \subseteq {0, current'}
  <2>1. {lease[d].op, lease[d].run, lease[d].event, lease[d].launch} \subseteq {0, current}
    BY DEF TokenInv, LeasesAreCurrent
  <2>2. CASE d # c
    BY <2>1, <2>2, EveryMove DEF Others
  <2>3. CASE d = c
    BY <2>1, <2>3, LeaseFlow DEF NewLease
  <2>4. QED
    BY <2>2, <2>3
<1>2. QED
  BY <1>1 DEF LeasesAreCurrent

\* The token invariant, where the generation is kept,
LEMMA TokenKept ==
    ASSUME TypeInv, ShapeInv, ShapeInv', TypeInv', TokenInv, NEW c \in Threads, Acts(c), GenKept
    PROVE  TokenInv'
<1>1. current' = current /\ cancelled \subseteq cancelled' /\ Flow(c)
  BY TokenTypes, Flows DEF GenKept
<1>2. \A d \in Threads \ {c} : Site(d)' = Site(d) /\ pc'[d] = pc[d] /\ fr'[d] = fr[d]
  BY EveryMove DEF Others, Site
<1>3. GenerationHasRecord'
  <2>1. RollbackFinal(c) /\ StillMine(c) => current' = 0
    BY DEF RollbackFinal
  <2>2. QED
    BY <1>1, <2>1, TaskSteps DEF TokenInv, GenerationHasRecord
<1>4. LeasesAreCurrent'
  BY <1>1, LeasesKept
<1>5. children' \subseteq {current'}
  BY <1>1, ChildFlow DEF TokenInv, LeasesAreCurrent
<1>6. EndingIsCancelled'
  <2>1. ASSUME NEW d \in Threads, Site(d)' \in Ending, fr'[d].gen = current' PROVE current' \in cancelled'
    <3>1. CASE d # c
      BY <1>1, <1>2, <2>1, <3>1 DEF TokenInv, EndingIsCancelled
    <3>2. CASE d = c
      BY <1>1, <2>1, <3>2 DEF TokenInv, EndingIsCancelled, Flow, EndFlow
    <3>3. QED
      BY <3>1, <3>2
  <2>2. QED
    BY <2>1 DEF EndingIsCancelled
<1>7. DoomedIsQuiesced'
  <2>1. ASSUME NEW d \in Threads, Site(d)' \in Doomed, fr'[d].gen = current' PROVE Quiesced(current)'
    <3>1. ASSUME Site(d) \in Doomed, fr[d].gen = current PROVE Quiesced(current)'
      <4>1. Site(d) \in Ending
        BY <3>1 DEF Doomed, Ending
      <4>2. current # 0 /\ current \in cancelled /\ Quiesced(current)
        BY <3>1, <4>1, SiteGen DEF TokenInv, EndingIsCancelled, DoomedIsQuiesced
      <4>3. QED
        BY <1>1, <4>2, QuiescedStays
    <3>2. CASE d # c
      BY <1>1, <1>2, <2>1, <3>1, <3>2
    <3>3. CASE d = c
      <4>1. Site(c)' \in Ending
        BY <2>1, <3>3 DEF Doomed, Ending
      <4>2. CASE /\ Site(c) \in Ending /\ fr'[c].gen = fr[c].gen /\ Site(c) \notin Doomed
                 /\ Quiesced(fr[c].gen) /\ UNCHANGED <<lease, children>>
        BY <1>1, <2>1, <3>3, <4>2 DEF Quiesced, Busy
      <4>3. CASE Site(c) \in Doomed /\ fr'[c].gen = fr[c].gen
        BY <1>1, <2>1, <3>1, <3>3, <4>3
      <4>4. QED
        BY <1>1, <2>1, <3>3, <4>1, <4>2, <4>3 DEF Flow, EndFlow
    <3>4. QED
      BY <3>2, <3>3
  <2>2. QED
    BY <2>1 DEF DoomedIsQuiesced
<1>8. PublishedIsCurrent'
  <2>1. ASSUME NEW d \in Threads, pc'[d] = "cancel_publish" PROVE fr'[d].gen = current'
    <3>1. CASE d # c
      BY <1>1, <1>2, <2>1, <3>1 DEF TokenInv, PublishedIsCurrent
    <3>2. CASE d = c
      <4>1. Site(c)' \in Ending /\ Site(c)' \in Doomed
        BY <2>1, <3>2 DEF Site, SiteOf, Emitting, Ending, Doomed
      <4>2. QED
        BY <1>1, <2>1, <3>2, <4>1 DEF TokenInv, PublishedIsCurrent, Flow, EndFlow
    <3>3. QED
      BY <3>1, <3>2
  <2>2. QED
    BY <2>1 DEF PublishedIsCurrent
<1>9. QED
  BY <1>3, <1>4, <1>5, <1>6, <1>7, <1>8 DEF TokenInv

\* where one is made,
LEMMA TokenMade ==
    ASSUME TypeInv, ShapeInv, ShapeInv', TypeInv', TokenInv, NEW c \in Threads, Acts(c), GenMade
    PROVE  TokenInv'
<1>1. /\ current = 0 /\ current' = nextId + 1 /\ nextId' = nextId + 1 /\ nextId \in Nat
      /\ cancelled \subseteq cancelled' /\ Flow(c)
  BY TokenTypes, Flows DEF GenMade, TypeInv, TokensOK
<1>2. \A d \in Threads \ {c} : Site(d)' = Site(d) /\ pc'[d] = pc[d] /\ fr'[d] = fr[d]
  BY EveryMove DEF Others, Site
<1>3. current' # 0 /\ \A d \in Threads : fr[d].gen # current'
  BY <1>1, SiteGen
<1>4. GenerationHasRecord'
  BY <1>1, <1>3, TaskSteps DEF GenerationHasRecord
<1>5. LeasesAreCurrent'
  BY <1>1, LeasesKept
<1>6. children' \subseteq {current'}
  <2>1. children = {}
    BY <1>1 DEF TokenInv, TypeInv, ProcOK, Generations
  <2>2. ~UNCHANGED tokens
    BY <1>1 DEF tokens
  <2>3. QED
    BY <2>1, <2>2, ChildFlow
<1>7. EndingIsCancelled'
  <2>1. ASSUME NEW d \in Threads, Site(d)' \in Ending, fr'[d].gen = current' PROVE current' \in cancelled'
    BY <1>1, <1>2, <1>3, <2>1 DEF Flow, EndFlow
  <2>2. QED
    BY <2>1 DEF EndingIsCancelled
<1>8. DoomedIsQuiesced'
  <2>1. ASSUME NEW d \in Threads, Site(d)' \in Doomed, fr'[d].gen = current' PROVE FALSE
    <3>1. Site(d)' \in Ending
      BY <2>1 DEF Doomed, Ending
    <3>2. QED
      BY <1>1, <1>2, <1>3, <2>1, <3>1 DEF Flow, EndFlow
  <2>2. QED
    BY <2>1 DEF DoomedIsQuiesced
<1>9. PublishedIsCurrent'
  <2>1. ASSUME NEW d \in Threads, pc'[d] = "cancel_publish" PROVE FALSE
    <3>1. Site(d)' \in Ending /\ Site(d)' \in Doomed
      BY <2>1 DEF Site, SiteOf, Emitting, Ending, Doomed
    <3>2. ASSUME Site(d) \in Ending, fr[d].gen = current PROVE FALSE
      BY <1>1, <3>2, SiteGen
    <3>3. pc[d] = "cancel_publish" => Site(d) \in Ending /\ fr[d].gen = current
      BY DEF Site, SiteOf, Emitting, Ending, TokenInv, PublishedIsCurrent
    <3>4. CASE d # c
      BY <1>2, <2>1, <3>2, <3>3, <3>4
    <3>5. CASE d = c
      BY <1>1, <2>1, <3>1, <3>2, <3>3, <3>5 DEF Flow, EndFlow
    <3>6. QED
      BY <3>4, <3>5
  <2>2. QED
    BY <2>1 DEF PublishedIsCurrent
<1>10. QED
  BY <1>4, <1>5, <1>6, <1>7, <1>8, <1>9 DEF TokenInv

\* and where it is retired: nobody holds a lease of it any more.
LEMMA TokenRetired ==
    ASSUME TypeInv, ShapeInv, ShapeInv', TypeInv', LaneInv, TokenInv, NEW c \in Threads, Acts(c), GenRetired(c)
    PROVE  TokenInv'
<1>1. /\ current' = 0 /\ fr[c].gen = current /\ pc[c] \in {"cancel_publish", "rollback_final"} /\ lane \in {None, c}
  <2>1. CASE CancelPublish(c)
    BY <2>1 DEF GenRetired, CancelPublish, At, LaneInv, Publishing
  <2>2. CASE RollbackFinal(c)
    BY <2>2 DEF GenRetired, RollbackFinal, At
  <2>3. QED
    BY <2>1, <2>2 DEF GenRetired
<1>2. Site(c) \in Ending /\ Site(c) \in Doomed
  BY <1>1 DEF Site, SiteOf, Emitting, Ending, Doomed
<1>3. current # 0 /\ Quiesced(current)
  BY <1>1, <1>2, SiteGen DEF TokenInv, DoomedIsQuiesced
<1>4. \A d \in Threads \ {c} : Site(d)' = Site(d) /\ pc'[d] = pc[d] /\ fr'[d] = fr[d] /\ lease'[d] = lease[d]
  BY EveryMove DEF Others, Site
<1>5. Flow(c) /\ 0 \notin cancelled'
  BY Flows DEF TypeInv, TokensOK
<1>6. LeasesAreCurrent'
  <2>1. ASSUME NEW d \in Threads PROVE {lease[d].op, lease[d].run, lease[d].event, lease[d].launch} = {0}
    BY <1>3, LaunchIsOperation DEF Quiesced, Busy, TokenInv, LeasesAreCurrent
  <2>2. {lease'[c].op, lease'[c].run, lease'[c].event, lease'[c].launch} \subseteq {0}
    BY <1>1, <2>1, LeaseFlow DEF NewLease
  <2>3. QED
    BY <1>4, <2>1, <2>2 DEF LeasesAreCurrent
<1>7. children' \subseteq {current'}
  <2>1. children = {}
    BY <1>3 DEF Quiesced, TokenInv
  <2>2. ~UNCHANGED tokens
    BY <1>1, <1>3 DEF tokens
  <2>3. QED
    BY <2>1, <2>2, ChildFlow
<1>8. ASSUME NEW d \in Threads, Site(d)' \in Ending, fr'[d].gen = current' PROVE FALSE
  <2>1. CASE d # c
    BY <1>1, <1>4, <1>8, <2>1, SiteGen
  <2>2. CASE d = c
    BY <1>1, <1>3, <1>5, <1>8, <2>2 DEF Flow, EndFlow
  <2>3. QED
    BY <2>1, <2>2
<1>9. EndingIsCancelled' /\ DoomedIsQuiesced'
  <2>1. \A d \in Threads : Site(d)' \in Doomed => Site(d)' \in Ending
    BY DEF Doomed, Ending
  <2>2. QED
    BY <1>8, <2>1 DEF EndingIsCancelled, DoomedIsQuiesced
<1>10. PublishedIsCurrent'
  <2>1. ASSUME NEW d \in Threads, pc'[d] = "cancel_publish" PROVE FALSE
    <3>1. CASE d # c
      <4>1. lane = d
        BY <1>4, <2>1, <3>1 DEF LaneInv, Publishing
      <4>2. QED
        BY <1>1, <3>1, <4>1, AdmissionAssumption
    <3>2. CASE d = c
      <4>1. CASE CancelPublish(c)
        <5>1. \E ok : AfterCancel(c, ok)
          BY <4>1 DEF CancelPublish
        <5>2. pc'[c] \in {"idle", "register"}
          BY <5>1, AfterCancelMoves DEF Moves
        <5>3. QED
          BY <2>1, <3>2, <5>2
      <4>2. CASE RollbackFinal(c)
        <5>1. Moves(c, "idle", NoFrame, NoLease)
          BY <4>2, RollbackMoves
        <5>2. QED
          BY <2>1, <3>2, <5>1 DEF Moves
      <4>3. QED
        BY <4>1, <4>2 DEF GenRetired
    <3>3. QED
      BY <3>1, <3>2
  <2>2. QED
    BY <2>1 DEF PublishedIsCurrent
<1>11. QED
  BY <1>1, <1>6, <1>7, <1>9, <1>10 DEF TokenInv, GenerationHasRecord

\* Every step of a thread keeps leases, children and endings with their generation.
LEMMA TokenActs ==
    ASSUME TypeInv, ShapeInv, ShapeInv', TypeInv', LaneInv, TokenInv, NEW c \in Threads, Acts(c)
    PROVE  TokenInv'
BY GenSteps, TokenKept, TokenMade, TokenRetired

\* The environment keeps them as well, and the lane.
LEMMA TokenEnvironment ==
    ASSUME TypeInv, TokenInv, LaneInv, Environment
    PROVE  TokenInv' /\ LaneInv'
<1>1. UNCHANGED <<threads, task, current, children, lane>> /\ cancelled \subseteq cancelled'
  BY EnvironmentSteps DEF events
<1>2. GenerationHasRecord' /\ LeasesAreCurrent' /\ children' \subseteq {current'} /\ EndingIsCancelled' /\ PublishedIsCurrent'
  BY <1>1 DEF TokenInv, GenerationHasRecord, LeasesAreCurrent, EndingIsCancelled, PublishedIsCurrent, Site, threads
<1>3. DoomedIsQuiesced'
  <2>1. Quiesced(current)' = Quiesced(current)
    BY <1>1 DEF Quiesced, Busy, threads
  <2>2. \A c \in Threads : Site(c)' = Site(c) /\ fr'[c] = fr[c]
    BY <1>1 DEF threads, Site
  <2>3. QED
    BY <1>1, <2>1, <2>2 DEF TokenInv, DoomedIsQuiesced
<1>4. LaneInv'
  BY <1>1 DEF LaneInv, threads
<1>5. QED
  BY <1>2, <1>3, <1>4 DEF TokenInv
-----------------------------------------------------------------------------
(* Child processes *)

LaunchOps == {"launch", "waiter"}

OwnsChild(op, s) == op = "waiter" \/ (op = "launch" /\ s # "spawn")

\* The owner of a registered process is one thread: the launch, then its waiter.
ChildInv ==
    /\ \A c \in Threads : OwnsChild(fr[c].op, Site(c)) => fr[c].gen \in children
    /\ \A c, d \in Threads :
          fr[c].op \in LaunchOps /\ fr[d].op \in LaunchOps /\ fr[c].gen = fr[d].gen => c = d
    /\ \A c \in Threads : Site(c) = "reap" => proc[fr[c].gen] = "dead"
    /\ \A g \in Generations : proc[g] = "running" => g \in children

\* What a step does to the processes, and at which operation.
LEMMA ChildSteps ==
    ASSUME TypeInv, ShapeInv, NEW c \in Threads, Acts(c)
    PROVE  \/ UNCHANGED processes
           \/ UNCHANGED children /\ \A g \in Generations : proc'[g] \in {proc[g], "dead"}
           \/ /\ fr[c].op = "launch" /\ fr'[c] = fr[c] /\ Site(c) = "spawn" /\ children' = children \cup {fr[c].gen}
              /\ proc' = [proc EXCEPT ![fr[c].gen] = "gated"]
           \/ /\ fr[c].op = "launch" /\ fr'[c].op = "none" /\ children' = children \ {fr[c].gen}
              /\ proc' = [proc EXCEPT ![fr[c].gen] = "dead"]
           \/ /\ fr[c].op = "launch" /\ Site(c) = "release" /\ fr'[c].op = "waiter" /\ UNCHANGED children
              /\ proc' = [proc EXCEPT ![fr[c].gen] = "running"]
           \/ /\ fr[c].op = "waiter" /\ Site(c) = "reap" /\ fr'[c].op = "none"
              /\ children' = children \ {fr[c].gen} /\ UNCHANGED proc
<1>1. ShapeOf(pc[c], fr[c], lease[c]) /\ fr[c].op \in Ops /\ ProcOK
  BY ShapeAt DEF TypeInv
<1>2. pc[c] \in {"spawn", "own", "release"} => fr[c].op = "launch" /\ Site(c) = pc[c]
  BY <1>1 DEF ShapeOf, Site, SiteOf, SitesOf, Emitting, Ops
<1>3. pc[c] = "reap" => fr[c].op = "waiter" /\ Site(c) = "reap"
  BY <1>1 DEF ShapeOf, Site, SiteOf, SitesOf, Emitting, Ops
<1>4. CASE UNCHANGED children /\ proc' = Signalled(fr[c].gen)
  BY <1>1, <1>4 DEF Signalled, ProcOK
<1>5. CASE /\ LaunchSpawn(c) /\ children' = children \cup {fr[c].gen}
           /\ proc' = [proc EXCEPT ![fr[c].gen] = "gated"] /\ Moves(c, "own", fr[c], lease[c])
  BY <1>2, <1>5 DEF LaunchSpawn, At, Moves
<1>6. CASE (LaunchOwn(c) \/ LaunchRelease(c)) /\ LaunchAborted(c)
  <2>0. Moves(c, "idle", NoFrame, NoLease)
    BY <1>6, LaunchMoves
  <2>1. fr'[c].op = "none"
    BY <2>0 DEF Moves, NoFrame
  <2>2. fr[c].op = "launch"
    BY <1>2, <1>6 DEF LaunchOwn, LaunchRelease, At
  <2>3. QED
    BY <1>6, <2>1, <2>2 DEF LaunchAborted, complete_child
<1>7. CASE /\ LaunchRelease(c) /\ UNCHANGED children
           /\ proc' = [proc EXCEPT ![fr[c].gen] = "running"]
           /\ Moves(c, "wait", [NoFrame EXCEPT !.op = "waiter", !.gen = fr[c].gen], NoLease)
  <2>1. fr'[c].op = "waiter"
    BY <1>7 DEF Moves, NoFrame
  <2>2. QED
    BY <1>2, <1>7, <2>1 DEF LaunchRelease, At
<1>8. CASE WaiterDone(c) /\ UNCHANGED proc /\ children' = children \ {fr[c].gen}
  <2>0. Moves(c, "idle", NoFrame, NoLease)
    BY <1>8, LaunchMoves
  <2>1. fr'[c].op = "none"
    BY <2>0 DEF Moves, NoFrame
  <2>2. QED
    BY <1>3, <1>8, <2>1 DEF WaiterDone, At
<1>9. QED
  BY <1>4, <1>5, <1>6, <1>7, <1>8, ProcSteps

\* A registered process keeps the one thread that owns it.
LEMMA ChildActs ==
    ASSUME TypeInv, ShapeInv, ShapeInv', TypeInv', TokenInv, ChildInv, NEW c \in Threads, Acts(c)
    PROVE  ChildInv'
<1>1. \A d \in Threads \ {c} : Site(d)' = Site(d) /\ pc'[d] = pc[d] /\ fr'[d] = fr[d]
  BY EveryMove DEF Others, Site
<1>2. LaunchFlow(c) /\ ProcOK
  BY Flows DEF Flow, TypeInv
<1>3. \A d \in Threads : Site(d) = "reap" => fr[d].op = "waiter"
  <2>1. ASSUME NEW d \in Threads, Site(d) = "reap" PROVE fr[d].op = "waiter"
    <3>1. ShapeOf(pc[d], fr[d], lease[d]) /\ fr[d].op \in Ops
      BY ShapeAt
    <3>2. QED
      BY <2>1, <3>1 DEF ShapeOf, Site, SitesOf, Ops, CancelSites, InstallSites, RollbackSites, RunSites, RunnerSites
  <2>2. QED
    BY <2>1
<1>4. Site(c)' = "reap" => fr'[c].op = "waiter"
  <2>1. ShapeOf(pc'[c], fr'[c], lease'[c]) /\ fr'[c].op \in Ops
    BY DEF ShapeInv, Shape, TypeInv, FrOK, Frames
  <2>2. QED
    BY <2>1 DEF ShapeOf, Site, SitesOf, Ops, CancelSites, InstallSites, RollbackSites, RunSites, RunnerSites
<1>5. \A d \in Threads : OwnsChild(fr'[d].op, Site(d)') => fr'[d].gen \in children'
  <2>1. ASSUME NEW d \in Threads, d # c, OwnsChild(fr[d].op, Site(d)) PROVE fr[d].gen \in children'
    <3>1. fr[d].gen \in children /\ fr[d].op \in LaunchOps
      BY <2>1 DEF ChildInv, OwnsChild, LaunchOps
    <3>2. fr[c].op \in LaunchOps => fr[c].gen # fr[d].gen
      BY <2>1, <3>1 DEF ChildInv
    <3>3. QED
      BY <3>1, <3>2, ChildSteps DEF processes, LaunchOps
  <2>2. ASSUME OwnsChild(fr'[c].op, Site(c)') PROVE fr'[c].gen \in children'
    <3>1. fr'[c].op \in {"launch", "waiter"} /\ (fr'[c].op = "waiter" \/ Site(c)' # "spawn")
      BY <2>2 DEF OwnsChild
    <3>2. CASE LaunchSpawn(c) /\ fr[c].gen \in children' /\ fr'[c].gen = fr[c].gen
      BY <3>2
    <3>3. CASE fr'[c].gen = fr[c].gen /\ OwnsChild(fr[c].op, Site(c))
      <4>1. fr[c].gen \in children
        BY <3>3 DEF ChildInv
      <4>2. QED
        BY <3>1, <3>3, <4>1, ChildSteps DEF processes
    <3>4. QED
      BY <1>2, <3>1, <3>2, <3>3 DEF LaunchFlow, OwnsChild
  <2>3. QED
    BY <1>1, <2>1, <2>2
<1>6. \A a, b \in Threads :
          fr'[a].op \in LaunchOps /\ fr'[b].op \in LaunchOps /\ fr'[a].gen = fr'[b].gen => a = b
  <2>1. ASSUME NEW d \in Threads, d # c, fr'[c].op \in LaunchOps, fr[d].op \in LaunchOps, fr'[c].gen = fr[d].gen
        PROVE  FALSE
    <3>1. CASE fr[c].op \in LaunchOps /\ fr'[c].gen = fr[c].gen
      BY <2>1, <3>1 DEF ChildInv
    <3>2. CASE LaunchFree(current') /\ fr'[c].gen = current'
      <4>1. fr[d].gen \notin children /\ lease[d].launch # fr[d].gen
        BY <2>1, <3>2 DEF LaunchFree
      <4>2. fr[d].op = "launch" => lease[d].launch = fr[d].gen
        BY ShapeAt DEF ShapeOf
      <4>3. fr[d].op = "waiter" => fr[d].gen \in children
        BY DEF ChildInv, OwnsChild
      <4>4. QED
        BY <2>1, <4>1, <4>2, <4>3 DEF LaunchOps
    <3>3. QED
      BY <1>2, <2>1, <3>1, <3>2 DEF LaunchFlow, LaunchOps
  <2>2. ASSUME NEW a \in Threads, NEW b \in Threads, fr'[a].op \in LaunchOps, fr'[b].op \in LaunchOps,
               fr'[a].gen = fr'[b].gen, a # b
        PROVE  FALSE
    <3>1. CASE a # c /\ b # c
      BY <1>1, <2>2, <3>1 DEF ChildInv
    <3>2. CASE a = c
      BY <1>1, <2>1, <2>2, <3>2
    <3>3. CASE b = c
      BY <1>1, <2>1, <2>2, <3>3
    <3>4. QED
      BY <3>1, <3>2, <3>3
  <2>3. QED
    BY <2>2
<1>7. \A d \in Threads : Site(d)' = "reap" => proc'[fr'[d].gen] = "dead"
  <2>0. \A d \in Threads : fr[d].op \in LaunchOps => fr[d].gen \in Generations
    BY SiteGen, AdmissionAssumption DEF LaunchOps, Generations, TypeInv, TokensOK
  <2>1. ASSUME NEW d \in Threads, d # c, Site(d) = "reap" PROVE proc'[fr[d].gen] = "dead"
    <3>1. proc[fr[d].gen] = "dead" /\ fr[d].op \in LaunchOps
      BY <1>3, <2>1 DEF ChildInv, LaunchOps
    <3>2. fr[c].op \in LaunchOps => fr[c].gen # fr[d].gen
      BY <2>1, <3>1 DEF ChildInv
    <3>3. fr[d].gen \in Generations
      BY <2>0, <3>1
    <3>4. QED
      BY <1>2, <3>1, <3>2, <3>3, ChildSteps DEF processes, LaunchOps, ProcOK
  <2>2. ASSUME Site(c)' = "reap" PROVE proc'[fr'[c].gen] = "dead"
    <3>1. fr'[c].op = "waiter" /\ fr'[c].gen = fr[c].gen /\ fr[c].op \in LaunchOps
      BY <1>2, <1>4, <2>2 DEF LaunchFlow, LaunchOps
    <3>2. CASE Site(c) = "reap"
      <4>1. fr[c].op = "waiter" /\ proc[fr[c].gen] = "dead" /\ fr[c].gen \in Generations
        BY <1>3, <2>0, <3>1, <3>2 DEF ChildInv
      <4>2. QED
        BY <3>1, <4>1, ChildSteps DEF processes
    <3>3. CASE WaiterReports(c) /\ proc[fr[c].gen] = "dead"
      <4>1. UNCHANGED proc
        BY <3>3 DEF WaiterReports, processes
      <4>2. QED
        BY <3>1, <3>3, <4>1
    <3>4. QED
      BY <1>2, <1>4, <2>2, <3>2, <3>3 DEF LaunchFlow
  <2>3. QED
    BY <1>1, <2>1, <2>2
<1>8. \A g \in Generations : proc'[g] = "running" => g \in children'
  <2>1. ASSUME NEW g \in Generations, proc'[g] = "running" PROVE g \in children'
    <3>1. proc[g] = "running" => g \in children
      BY DEF ChildInv
    <3>2. Site(c) = "release" /\ fr[c].op = "launch" => fr[c].gen \in children
      BY DEF ChildInv, OwnsChild
    <3>3. Site(c) = "reap" => proc[fr[c].gen] = "dead"
      BY DEF ChildInv
    <3>4. QED
      BY <1>2, <2>1, <3>1, <3>2, <3>3, ChildSteps DEF processes, ProcOK
  <2>2. QED
    BY <2>1
<1>9. QED
  BY <1>5, <1>6, <1>7, <1>8 DEF ChildInv

\* An exit or a signal leaves the owner in place.
LEMMA ChildEnvironment ==
    ASSUME TypeInv, ShapeInv, ChildInv, Environment
    PROVE  ChildInv'
<1>1. UNCHANGED <<threads, children>> /\ \A g \in Generations : proc'[g] \in {proc[g], "dead"}
  BY EnvironmentSteps
<1>2. \A c \in Threads : Site(c)' = Site(c) /\ fr'[c] = fr[c]
  BY <1>1 DEF threads, Site
<1>3. \A c \in Threads : Site(c) = "reap" => fr[c].gen \in Generations
  <2>1. ASSUME NEW c \in Threads, Site(c) = "reap" PROVE fr[c].gen \in Generations
    <3>1. ShapeOf(pc[c], fr[c], lease[c]) /\ fr[c].op \in Ops
      BY ShapeAt
    <3>2. fr[c].op = "waiter"
      BY <2>1, <3>1 DEF ShapeOf, Site, SitesOf, Ops, CancelSites, InstallSites, RollbackSites, RunSites, RunnerSites
    <3>3. QED
      BY <3>2, SiteGen, AdmissionAssumption DEF Generations, TypeInv, TokensOK
  <2>2. QED
    BY <2>1
<1>4. QED
  BY <1>1, <1>2, <1>3 DEF ChildInv
-----------------------------------------------------------------------------
(* Watches *)

\* The record of a registered task stays, with its watches and its sequence.
RecordKept ==
    task # None =>
        /\ task' # None /\ task'.ids = task.ids /\ task'.sequence = task.sequence
        /\ task'.life = "Cancelled" => task.life = "Cancelled"

\* Which steps keep watch ids, sequence and terminality of the record.
LEMMA RecordKeeps ==
    ASSUME TypeInv
    PROVE  /\ UNCHANGED task => RecordKept
           /\ task' = EnsureTask => RecordKept
           /\ \A n \in Nat : task' = [task EXCEPT !.seq = n] => RecordKept
           /\ \A life \in Lifecycles \ {"Cancelled"} : task' = [task EXCEPT !.life = life] => RecordKept
<1>1. task # None => task \in Records
  BY RecordTypes
<1>2. (UNCHANGED task => RecordKept) /\ (task' = EnsureTask => RecordKept)
  BY DEF RecordKept, EnsureTask
<1>3. ASSUME NEW n \in Nat, task' = [task EXCEPT !.seq = n] PROVE RecordKept
  <2>1. task # None => task' # None
    BY <1>3, RecordTypes
  <2>2. QED
    BY <1>1, <1>3, <2>1 DEF RecordKept, Records
<1>4. ASSUME NEW life \in Lifecycles \ {"Cancelled"}, task' = [task EXCEPT !.life = life] PROVE RecordKept
  <2>1. task # None => task' # None
    BY <1>4, RecordTypes
  <2>2. QED
    BY <1>1, <1>4, <2>1 DEF RecordKept, Records
<1>5. QED
  BY <1>2, <1>3, <1>4

\* The lifecycle transitions of a run and of a replan do not end the task.
LEMMA LifeGoesOn ==
    ASSUME TypeInv, task # None
    PROVE  /\ Started(task.life) \in Lifecycles \ {"Cancelled"} /\ Finished(task.life) \in Lifecycles \ {"Cancelled"}
           /\ task.life # "Cancelled" => Replanned(task.life) \in Lifecycles \ {"Cancelled"}
           /\ "Cancelling" \in Lifecycles \ {"Cancelled"}
BY LifeTypes DEF Started, Finished, Replanned, Lifecycles

\* How a step changes the watches and their handles, with the record.
WatchesKept ==
    /\ UNCHANGED watches /\ RecordKept /\ (GenKept \/ GenMade)
    /\ \A w \in WatchIds : handles'[w] \in {0, handles[w]}

WatchRemoved == (\E w : RemoveWatch(w)) /\ GenKept

WatchesAdded(c) ==
    /\ Register(c) /\ MayRegister /\ GenMade /\ UNCHANGED handles
    /\ task' = Record("Idle", fr[c].ids, TRUE, 0) /\ watches' = watches \cup fr[c].ids

WatchInstalled(c) ==
    /\ Live(fr[c].for) /\ fr[c].kind \in watches /\ UNCHANGED <<task, watches>> /\ GenKept
    /\ handles' = [handles EXCEPT ![fr[c].kind] = fr[c].for]

WatchesDropped(c) ==
    /\ RollbackFinal(c) /\ StillMine(c) /\ watches' = {} /\ current' = 0
    /\ handles' = [w \in WatchIds |-> IF w \in watches THEN 0 ELSE handles[w]]

WatchesRetired(c) ==
    /\ CancelPublish(c) /\ Retire(c) /\ fr[c].gen = current /\ task # None
    /\ UNCHANGED <<watches, handles>>

\* How a step changes the watches, one case for each kind of change.
LEMMA WatchChanges ==
    ASSUME TypeInv, ShapeInv, NEW c \in Threads, Acts(c)
    PROVE  WatchesKept \/ WatchRemoved \/ WatchesAdded(c) \/ WatchInstalled(c) \/ WatchesDropped(c) \/ WatchesRetired(c)
<1> USE DEF registry, tokens
<1>1. ASSUME UNCHANGED <<watches, handles>>, RecordKept, GenKept \/ GenMade PROVE WatchesKept
  BY <1>1 DEF WatchesKept
<1>2. fr[c] \in Frames /\ (task # None => task \in Records)
  BY ShapeAt, RecordTypes
<1>3. CASE CallLaunch(c) \/ CallWrite(c) \/ EmitAppend(c)
  <2>1. UNCHANGED <<watches, handles>> /\ (UNCHANGED task \/ task' = EnsureTask)
    BY <1>3 DEF CallLaunch, CallWrite, EmitAppend
  <2>2. GenKept \/ GenMade
    <3>1. ~CancelPublish(c) /\ ~RollbackFinal(c)
      BY <1>3 DEF CallLaunch, CallWrite, EmitAppend, CancelPublish, RollbackFinal, Begin, At
    <3>2. QED
      BY <3>1, GenSteps DEF GenRetired
  <2>3. QED
    BY <1>1, <2>1, <2>2, RecordKeeps
<1>4. CASE EmitPublish(c)
  <2>1. fr[c].seq \in Nat /\ UNCHANGED <<watches, handles>> /\ GenKept
    BY <1>2, <1>4 DEF EmitPublish, Frames, GenKept
  <2>2. UNCHANGED task \/ task' = [task EXCEPT !.seq = fr[c].seq]
    BY <1>4 DEF EmitPublish
  <2>3. QED
    BY <1>1, <2>1, <2>2, RecordKeeps
<1>5. CASE CallUnwatch(c) \/ CancelRemoveWatch(c)
  <2>1. (\E w : RemoveWatch(w)) /\ GenKept
    BY <1>5 DEF CallUnwatch, CancelRemoveWatch, GenKept
  <2>2. QED
    BY <2>1 DEF WatchRemoved
<1>6. CASE CancelRequest(c)
  <2>1. UNCHANGED <<watches, handles>>
    BY <1>6 DEF CancelRequest
  <2>2. UNCHANGED task \/ (task # None /\ task' = [task EXCEPT !.life = "Cancelling"])
    BY <1>6 DEF CancelRequest
  <2>3. RecordKept
    BY <2>2, RecordKeeps, LifeGoesOn
  <2>4. ~CancelPublish(c) /\ ~RollbackFinal(c)
    BY <1>6 DEF CancelRequest, CancelPublish, RollbackFinal, At
  <2>5. QED
    BY <1>1, <2>1, <2>3, <2>4, GenSteps DEF GenRetired
<1>7. CASE CancelPublish(c)
  <2>1. UNCHANGED <<watches, handles>>
    BY <1>7 DEF CancelPublish
  <2>2. CASE Retire(c) /\ fr[c].gen = current /\ task # None
    BY <1>7, <2>1, <2>2 DEF WatchesRetired
  <2>3. CASE UNCHANGED <<task, current>>
    <3>1. GenKept
      BY <1>7, <2>3 DEF CancelPublish, GenKept
    <3>2. QED
      BY <1>1, <2>1, <2>3, <3>1, RecordKeeps
  <2>4. QED
    BY <1>7, <2>2, <2>3 DEF CancelPublish
<1>8. CASE Register(c)
  <2>1. UNCHANGED handles
    BY <1>8 DEF Register
  <2>2. CASE UNCHANGED <<task, watches, current, nextId>>
    BY <1>1, <2>1, <2>2, RecordKeeps DEF GenKept
  <2>3. CASE /\ MayRegister /\ nextId + 1 \in Generations
             /\ nextId' = nextId + 1 /\ current' = nextId + 1
             /\ task' = Record("Idle", fr[c].ids, TRUE, 0) /\ watches' = watches \cup fr[c].ids
    BY <1>8, <2>1, <2>3 DEF WatchesAdded, GenMade, MayRegister
  <2>4. QED
    BY <1>8, <2>2, <2>3, RegisterMoves
<1>9. CASE InstallPublish(c)
  <2>1. UNCHANGED <<task, watches>> /\ GenKept
    BY <1>9 DEF InstallPublish, GenKept
  <2>2. QED
    BY <1>1, <1>9, <2>1, InstallPublishMoves, RecordKeeps DEF WatchInstalled
<1>10. CASE RollbackBegin(c)
  <2>1. UNCHANGED <<task, watches>> /\ GenKept
    BY <1>10 DEF RollbackBegin, GenKept
  <2>2. UNCHANGED handles \/ handles' = [w \in WatchIds |-> IF w \in watches THEN 0 ELSE handles[w]]
    BY <1>10 DEF RollbackBegin
  <2>3. QED
    BY <2>1, <2>2, RecordKeeps DEF WatchesKept
<1>11. CASE RollbackFinal(c)
  <2>1. CASE StillMine(c)
    BY <1>11, <2>1 DEF RollbackFinal, WatchesDropped
  <2>2. CASE ~StillMine(c)
    <3>1. UNCHANGED <<task, watches, handles>> /\ GenKept
      BY <1>11, <2>2 DEF RollbackFinal, GenKept
    <3>2. QED
      BY <1>1, <3>1, RecordKeeps
  <2>3. QED
    BY <2>1, <2>2
<1>12. CASE InstallLookup(c) \/ CancelTerminate(c) \/ CancelAppend(c) \/ RollbackClean(c)
  <2>1. UNCHANGED <<task, watches, handles>>
    BY <1>12 DEF InstallLookup, CancelTerminate, CancelAppend, RollbackClean
  <2>2. ~CancelPublish(c) /\ ~RollbackFinal(c)
    BY <1>12 DEF InstallLookup, CancelTerminate, CancelAppend, RollbackClean, CancelPublish, RollbackFinal, At
  <2>3. QED
    BY <1>1, <2>1, <2>2, GenSteps, RecordKeeps DEF GenRetired
<1>13. CASE RunClaim(c)
  <2>1. UNCHANGED <<watches, handles>>
    BY <1>13 DEF RunClaim
  <2>2. UNCHANGED task \/ (task # None /\ task' = [task EXCEPT !.life = Started(@)])
    BY <1>13, RunClaimMoves DEF RunAdmitted
  <2>3. RecordKept
    <3>1. CASE UNCHANGED task
      BY <3>1, RecordKeeps
    <3>2. CASE task # None /\ task' = [task EXCEPT !.life = Started(task.life)]
      BY <3>2, RecordKeeps, LifeGoesOn
    <3>3. QED
      BY <2>2, <3>1, <3>2
  <2>4. ~CancelPublish(c) /\ ~RollbackFinal(c)
    BY <1>13 DEF RunClaim, CancelPublish, RollbackFinal, At
  <2>5. QED
    BY <1>1, <2>1, <2>3, <2>4, GenSteps DEF GenRetired
<1>14. CASE RunFinish(c)
  <2>1. UNCHANGED <<watches, handles>> /\ GenKept
    BY <1>14 DEF RunFinish, GenKept
  <2>2. CASE UNCHANGED task
    BY <1>1, <2>1, <2>2, RecordKeeps
  <2>3. CASE task # None /\ task' = [task EXCEPT !.life = Finished(task.life)]
    BY <1>1, <2>1, <2>3, RecordKeeps, LifeGoesOn
  <2>4. QED
    BY <1>14, <2>2, <2>3, RunFinishMoves
<1>15. CASE WatchReplan(c)
  <2>1. UNCHANGED <<watches, handles>> /\ GenKept
    BY <1>15 DEF WatchReplan, GenKept
  <2>2. CASE UNCHANGED task
    BY <1>1, <2>1, <2>2, RecordKeeps
  <2>3. CASE task # None /\ task.life # "Cancelled" /\ task' = [task EXCEPT !.life = Replanned(task.life)]
    BY <1>1, <2>1, <2>3, RecordKeeps, LifeGoesOn
  <2>4. QED
    BY <1>15, <2>2, <2>3, WatchMoves
<1>16. CASE LaunchSpawn(c) \/ LaunchOwn(c) \/ LaunchRelease(c) \/ WaiterDone(c)
  <2>1. UNCHANGED <<task, watches, handles>> /\ GenKept
    BY <1>16 DEF LaunchSpawn, LaunchOwn, LaunchRelease, WaiterDone, GenKept
  <2>2. QED
    BY <1>1, <2>1, RecordKeeps
<1>17. CASE Quiet
  <2>1. UNCHANGED <<task, watches, handles>> /\ GenKept
    BY <1>17 DEF Quiet, GenKept
  <2>2. QED
    BY <1>1, <2>1, RecordKeeps
<1>18. QED
  BY <1>3, <1>4, <1>5, <1>6, <1>7, <1>8, <1>9, <1>10, <1>11, <1>12, <1>13, <1>14, <1>15, <1>16, <1>17,
     QuietSteps DEF Acts, Calls, Step
\* Only an active generation has watches, and they are those of its record; a cancellation
\* knows every watch that is left.
WatchInv ==
    /\ current = 0 => watches = {}
    /\ task # None => watches \subseteq task.ids
    /\ task # None /\ task.life = "Cancelled" => watches = {}
    /\ \A c \in Threads : Site(c) \in CancelSites /\ fr[c].gen = current => watches \subseteq fr[c].todo
    /\ \A c \in Threads : Site(c) \in CancelSites \ {"remove"} => fr[c].todo = {}
    /\ \A w \in WatchIds : handles[w] # 0 => handles[w] = current /\ w \in watches

\* A record that becomes terminal has lost its watches.
LEMMA RetiredHasNoWatches ==
    ASSUME ShapeInv, TypeInv, WatchInv, NEW c \in Threads, CancelPublish(c), fr[c].gen = current
    PROVE  watches = {} /\ fr[c].gen # 0
<1>1. Site(c) = "cancel_publish"
  BY DEF CancelPublish, At, Site, SiteOf, Emitting
<1>2. watches \subseteq fr[c].todo /\ fr[c].todo = {}
  BY <1>1 DEF WatchInv, CancelSites
<1>3. QED
  BY <1>1, <1>2, SiteGen DEF Ending, CancelSites

\* Every step keeps watches and handles with the active generation.
LEMMA WatchActs ==
    ASSUME TypeInv, ShapeInv, ShapeInv', TypeInv', TokenInv, WatchInv, NEW c \in Threads, Acts(c)
    PROVE  WatchInv'
<1>1. \A d \in Threads \ {c} : Site(d)' = Site(d) /\ fr'[d] = fr[d]
  BY EveryMove DEF Others, Site
<1>2. WatchFlow(c) /\ HandlesOK /\ WatchesOK /\ TokensOK
  BY Flows DEF Flow, TypeInv
<1>3. GenMade => watches = {} /\ current = 0 /\ current' # 0 /\ \A d \in Threads : fr[d].gen # current'
  <2>1. ASSUME GenMade, NEW d \in Threads PROVE fr[d].gen # current'
    BY <2>1, SiteGen DEF GenMade
  <2>2. QED
    BY <1>2, <2>1 DEF GenMade, WatchInv, TokensOK
<1>4. watches = {} => \A w \in WatchIds : handles[w] = 0
  BY DEF WatchInv
<1>5. ASSUME WatchesKept
      PROVE  /\ current' = 0 => watches' = {}
             /\ task' # None => watches' \subseteq task'.ids
             /\ task' # None /\ task'.life = "Cancelled" => watches' = {}
             /\ \A w \in WatchIds : handles'[w] # 0 => handles'[w] = current' /\ w \in watches'
  <2>1. task = None => watches = {}
    BY DEF TokenInv, GenerationHasRecord, WatchInv
  <2>2. task' # None => watches' \subseteq task'.ids
    BY <1>5, <2>1 DEF WatchesKept, RecordKept, WatchInv
  <2>3. task' # None /\ task'.life = "Cancelled" => watches' = {}
    BY <1>5, <2>1 DEF WatchesKept, RecordKept, WatchInv
  <2>4. current' = 0 => watches' = {}
    BY <1>3, <1>5 DEF WatchesKept, GenKept, WatchInv
  <2>5. \A w \in WatchIds : handles'[w] # 0 => handles'[w] = current' /\ w \in watches'
    BY <1>3, <1>4, <1>5 DEF WatchesKept, GenKept, WatchInv
  <2>6. QED
    BY <2>2, <2>3, <2>4, <2>5
<1>6. ASSUME WatchRemoved
      PROVE  /\ current' = 0 => watches' = {}
             /\ task' # None => watches' \subseteq task'.ids
             /\ task' # None /\ task'.life = "Cancelled" => watches' = {}
             /\ \A w \in WatchIds : handles'[w] # 0 => handles'[w] = current' /\ w \in watches'
  <2>1. PICK w : RemoveWatch(w)
    BY <1>6 DEF WatchRemoved
  <2>2. current' = current /\ watches' = watches \ {w} /\ handles' = [handles EXCEPT ![w] = 0]
    BY <1>6, <2>1 DEF WatchRemoved, GenKept, RemoveWatch
  <2>3. task # None => task \in Records
    BY RecordTypes
  <2>4. /\ task' # None => watches' \subseteq task'.ids
        /\ task' # None /\ task'.life = "Cancelled" => watches' = {}
    <3>1. CASE w \in watches /\ task # None
      <4>1. task' = [task EXCEPT !.ids = @ \ {w}]
        BY <2>1, <3>1 DEF RemoveWatch
      <4>2. task'.ids = task.ids \ {w} /\ task'.life = task.life
        BY <2>3, <3>1, <4>1 DEF Records
      <4>3. QED
        BY <2>2, <3>1, <4>2 DEF WatchInv
    <3>2. CASE ~(w \in watches /\ task # None)
      BY <2>1, <2>2, <3>2 DEF RemoveWatch, WatchInv
    <3>3. QED
      BY <3>1, <3>2
  <2>5. QED
    BY <1>2, <2>2, <2>4 DEF WatchInv, HandlesOK
<1>7. ASSUME WatchesAdded(c)
      PROVE  /\ current' = 0 => watches' = {}
             /\ task' # None => watches' \subseteq task'.ids
             /\ task' # None /\ task'.life = "Cancelled" => watches' = {}
             /\ \A w \in WatchIds : handles'[w] # 0 => handles'[w] = current' /\ w \in watches'
  <2>1. watches' = fr[c].ids /\ current' # 0 /\ \A w \in WatchIds : handles'[w] = 0
    BY <1>3, <1>4, <1>7 DEF WatchesAdded
  <2>2. task'.ids = fr[c].ids /\ task'.life = "Idle"
    BY <1>7 DEF WatchesAdded, Record
  <2>3. QED
    BY <2>1, <2>2
<1>8. ASSUME WatchInstalled(c)
      PROVE  /\ current' = 0 => watches' = {}
             /\ task' # None => watches' \subseteq task'.ids
             /\ task' # None /\ task'.life = "Cancelled" => watches' = {}
             /\ \A w \in WatchIds : handles'[w] # 0 => handles'[w] = current' /\ w \in watches'
  BY <1>2, <1>8 DEF WatchInstalled, GenKept, WatchInv, HandlesOK, Live
<1>9. ASSUME WatchesDropped(c) \/ WatchesRetired(c)
      PROVE  /\ current' = 0 => watches' = {}
             /\ task' # None => watches' \subseteq task'.ids
             /\ task' # None /\ task'.life = "Cancelled" => watches' = {}
             /\ \A w \in WatchIds : handles'[w] # 0 => handles'[w] = current' /\ w \in watches'
  <2>1. watches' = {} /\ \A w \in WatchIds : handles'[w] = 0
    <3>1. CASE WatchesDropped(c)
      BY <3>1 DEF WatchesDropped, WatchInv
    <3>2. CASE WatchesRetired(c)
      <4>1. watches = {}
        BY <3>2, RetiredHasNoWatches DEF WatchesRetired
      <4>2. QED
        BY <1>4, <3>2, <4>1 DEF WatchesRetired
    <3>3. QED
      BY <1>9, <3>1, <3>2
  <2>2. QED
    BY <2>1
<1>10. ASSUME NEW d \in Threads, Site(d)' \in CancelSites, fr'[d].gen = current' PROVE watches' \subseteq fr'[d].todo
  <2>1. current' # 0
    <3>1. Site(d)' \in Ending /\ fr'[d].op \in Ops /\ ShapeOf(pc'[d], fr'[d], lease'[d])
      BY <1>10 DEF ShapeInv, Shape, TypeInv, FrOK, Frames, Ending
    <3>2. fr'[d].op \notin {"none", "write"} /\ Site(d)' \notin {"cancel", "register"}
      BY <3>1, <1>10 DEF ShapeOf, Site, SitesOf, CancelSites, Ops
    <3>3. QED
      BY <1>10, <3>1, <3>2 DEF ShapeOf, Site
  <2>2. CASE d # c
    <3>1. Site(d) \in CancelSites /\ fr[d].gen = current'
      BY <1>1, <1>10, <2>2
    <3>2. GenKept
      BY <1>3, <2>1, <3>1, GenSteps DEF GenRetired
    <3>3. watches \subseteq fr[d].todo
      BY <3>1, <3>2 DEF GenKept, WatchInv
    <3>4. watches' \subseteq watches
      BY <1>3, <3>2, WatchChanges DEF WatchesKept, WatchRemoved, RemoveWatch, WatchesAdded, WatchInstalled,
         WatchesDropped, WatchesRetired, GenKept, GenMade, Retire
    <3>5. QED
      BY <1>1, <2>2, <3>3, <3>4
  <2>3. CASE d = c
    <3>1. CASE Site(c) \in CancelSites /\ fr'[c].gen = fr[c].gen
      <4>1. GenKept
        BY <1>3, <1>10, <2>1, <2>3, <3>1, GenSteps DEF GenRetired
      <4>2. watches \subseteq fr[c].todo
        BY <1>10, <2>3, <3>1, <4>1 DEF GenKept, WatchInv
      <4>3. watches' \subseteq watches
        BY <1>3, <4>1, WatchChanges DEF WatchesKept, WatchRemoved, RemoveWatch, WatchesAdded, WatchInstalled,
           WatchesDropped, WatchesRetired, GenKept, GenMade, Retire
      <4>4. CASE fr'[c].todo = fr[c].todo
        BY <2>3, <4>2, <4>3, <4>4
      <4>5. CASE \E w : RemoveWatch(w) /\ fr'[c].todo = fr[c].todo \ {w}
        BY <2>3, <4>2, <4>5 DEF RemoveWatch
      <4>6. CASE CancelRequest(c)
        BY <3>1, <4>6 DEF CancelRequest, At, Site, SiteOf, Emitting, CancelSites
      <4>7. QED
        BY <1>2, <1>10, <2>3, <4>4, <4>5, <4>6 DEF WatchFlow
    <3>2. CASE CancelRequest(c) /\ task # None /\ fr'[c].todo = task.ids
      <4>1. UNCHANGED watches
        BY <3>2 DEF CancelRequest
      <4>2. QED
        BY <2>3, <3>2, <4>1 DEF WatchInv
    <3>3. QED
      BY <1>2, <1>10, <2>3, <3>1, <3>2 DEF WatchFlow
  <2>4. QED
    BY <2>2, <2>3
<1>11. ASSUME NEW d \in Threads, Site(d)' \in CancelSites \ {"remove"} PROVE fr'[d].todo = {}
  <2>1. CASE d # c
    BY <1>1, <1>11, <2>1 DEF WatchInv
  <2>2. CASE d = c
    <3>1. Site(c) \in CancelSites /\ fr'[c].todo = fr[c].todo /\ (Site(c) = "remove" => fr[c].todo = {})
      BY <1>2, <1>11, <2>2 DEF WatchFlow
    <3>2. QED
      BY <2>2, <3>1 DEF WatchInv
  <2>3. QED
    BY <2>1, <2>2
<1>12. QED
  BY <1>5, <1>6, <1>7, <1>8, <1>9, <1>10, <1>11, WatchChanges DEF WatchInv

\* A shutdown only drops handles.
LEMMA WatchEnvironment ==
    ASSUME TypeInv, WatchInv, Environment
    PROVE  WatchInv'
<1>1. UNCHANGED <<threads, task, watches, current>> /\ \A w \in WatchIds : handles'[w] \in {0, handles[w]}
  BY EnvironmentSteps
<1>2. \A c \in Threads : Site(c)' = Site(c) /\ fr'[c] = fr[c]
  BY <1>1 DEF threads, Site
<1>3. QED
  BY <1>1, <1>2 DEF WatchInv
-----------------------------------------------------------------------------
(* Terminal records *)

\* Who gives a task a generation.
LEMMA MadeBy ==
    ASSUME TypeInv, ShapeInv, NEW c \in Threads, Acts(c), GenMade
    PROVE  \/ CallLaunch(c) \/ (EmitAppend(c) /\ fr[c].op = "write")
           \/ watches # {}
           \/ (CancelRequest(c) \/ RunClaim(c) \/ WatchesAdded(c)) /\ task' # None /\ task'.life # "Cancelled"
<1> USE DEF tokens
<1>1. current' # current
  BY DEF GenMade, TypeInv, TokensOK
<1>2. fr[c] \in Frames /\ fr[c].op \in Ops /\ ShapeOf(pc[c], fr[c], lease[c]) /\ (task # None => task \in Records)
  BY ShapeAt, RecordTypes
<1>3. CASE EmitAppend(c)
  <2>1. pc[c] = "emit" /\ fr[c].for = 0
    BY <1>1, <1>3 DEF EmitAppend, At
  <2>2. fr[c].ret \in Returns /\ fr[c].ret \in SitesOf(fr[c].op)
    BY <1>2, <2>1 DEF ShapeOf, SiteOf, Emitting
  <2>3. fr[c].ret \notin {"idle", "cancel", "register"}
    BY <2>2 DEF Returns
  <2>4. fr[c].op # "none"
    BY <2>2, <2>3 DEF SitesOf
  <2>5. fr[c].op = "write"
    BY <1>2, <2>1, <2>3, <2>4 DEF ShapeOf, SiteOf, Emitting
  <2>6. QED
    BY <1>3, <2>5
<1>4. CASE InstallLookup(c)
  BY <1>1, <1>4, InstallLookupMoves
<1>5. CASE CancelRequest(c)
  <2>1. task # None /\ task' = [task EXCEPT !.life = "Cancelling"]
    BY <1>1, <1>5, CancelRequestMoves
  <2>2. task'.life = "Cancelling" /\ task' # None
    BY <1>2, <2>1, RecordTypes, LifeGoesOn DEF Records
  <2>3. QED
    BY <1>5, <2>2
<1>6. CASE RunClaim(c)
  <2>1. task # None /\ task' = [task EXCEPT !.life = Started(@)]
    BY <1>1, <1>6, RunClaimMoves DEF RunAdmitted
  <2>2. task'.life = Started(task.life) /\ task' # None
    BY <1>2, <2>1, RecordTypes, LifeGoesOn DEF Records
  <2>3. QED
    BY <1>6, <2>1, <2>2, LifeGoesOn
<1>7. CASE Register(c)
  <2>1. WatchesAdded(c)
    <3>1. UNCHANGED handles
      BY <1>7 DEF Register
    <3>2. QED
      BY <1>1, <1>7, <3>1, RegisterMoves DEF WatchesAdded
  <2>2. task'.life = "Idle" /\ task' # None
    <3>1. fr[c].ids \subseteq WatchIds /\ task' = Record("Idle", fr[c].ids, TRUE, 0)
      BY <1>2, <2>1 DEF Frames, WatchesAdded
    <3>2. QED
      BY <3>1, RecordTypes DEF Record
  <2>3. QED
    BY <2>1, <2>2
<1>8. CASE CancelPublish(c) \/ RollbackFinal(c)
  <2>1. nextId' = nextId
    BY <1>8 DEF CancelPublish, RollbackFinal
  <2>2. QED
    BY <2>1 DEF GenMade, TypeInv, TokensOK
<1>9. CASE CallUnwatch(c) \/ CallWrite(c) \/ EmitPublish(c) \/ CancelRemoveWatch(c) \/ CancelTerminate(c)
           \/ CancelAppend(c) \/ InstallPublish(c) \/ RollbackBegin(c) \/ RollbackClean(c)
  BY <1>1, <1>9 DEF CallUnwatch, CallWrite, EmitPublish, CancelRemoveWatch, CancelTerminate, CancelAppend,
     InstallPublish, RollbackBegin, RollbackClean
<1>10. CASE RunFinish(c) \/ WatchReplan(c) \/ LaunchSpawn(c) \/ LaunchOwn(c) \/ LaunchRelease(c) \/ WaiterDone(c)
  BY <1>1, <1>10 DEF RunFinish, WatchReplan, LaunchSpawn, LaunchOwn, LaunchRelease, WaiterDone
<1>11. CASE Quiet
  BY <1>1, <1>11 DEF Quiet
<1>12. QED
  BY <1>3, <1>4, <1>5, <1>6, <1>7, <1>8, <1>9, <1>10, <1>11, QuietSteps DEF Acts, Calls, Step

\* Who can give a terminal record a generation.
TerminalInv ==
    /\ \A c \in Threads : fr[c].op = "write" => "write" \in limits.ops
    /\ CancelledHasNoGeneration

\* A terminal record gets no generation but from a launch or an unfenced event.
LEMMA TerminalActs ==
    ASSUME TypeInv, ShapeInv, TokenInv, WatchInv, TerminalInv, NEW c \in Threads, Acts(c), UNCHANGED limits
    PROVE  TerminalInv'
<1>1. \A d \in Threads : fr'[d].op = "write" => "write" \in limits'.ops
  <2>1. ASSUME NEW d \in Threads, fr'[d].op = "write" PROVE "write" \in limits.ops
    <3>1. CASE d # c
      BY <2>1, <3>1, EveryMove DEF Others, TerminalInv
    <3>2. CASE d = c
      BY <2>1, <3>2, Flows DEF Flow, WriteFlow, TerminalInv
    <3>3. QED
      BY <3>1, <3>2
  <2>2. QED
    BY <2>1
<1>2. CancelledHasNoGeneration'
  <2>1. SUFFICES ASSUME limits.ops \cap {"write", "launch"} = {}, task' # None, task'.life = "Cancelled", current' # 0
                 PROVE  FALSE
    BY DEF CancelledHasNoGeneration
  <2>2. CASE GenMade
    <3>1. ~CallLaunch(c) /\ fr[c].op # "write"
      BY <2>1 DEF CallLaunch, Begin, TerminalInv
    <3>2. watches = {}
      BY <2>2 DEF GenMade, WatchInv
    <3>3. QED
      BY <2>1, <2>2, <3>1, <3>2, MadeBy
  <2>3. CASE GenKept
    <3>1. task # None /\ current' = current
      BY <2>1, <2>3 DEF GenKept, TokenInv, GenerationHasRecord
    <3>2. task.life # "Cancelled"
      BY <2>1, <3>1 DEF TerminalInv, CancelledHasNoGeneration
    <3>3. CASE WatchesKept
      BY <2>1, <3>1, <3>2, <3>3 DEF WatchesKept, RecordKept
    <3>4. CASE WatchRemoved
      <4>1. PICK w : RemoveWatch(w)
        BY <3>4 DEF WatchRemoved
      <4>2. task' = task \/ task' = [task EXCEPT !.ids = @ \ {w}]
        BY <4>1 DEF RemoveWatch
      <4>3. task \in Records
        BY <3>1, RecordTypes
      <4>4. task'.life = task.life
        BY <4>2, <4>3 DEF Records
      <4>5. QED
        BY <2>1, <3>2, <4>4
    <3>5. CASE WatchInstalled(c)
      BY <2>1, <3>2, <3>5 DEF WatchInstalled
    <3>6. CASE WatchesAdded(c)
      BY <2>1, <3>6 DEF WatchesAdded, Record
    <3>7. QED
      BY <2>1, <3>3, <3>4, <3>5, <3>6, WatchChanges DEF WatchesDropped, WatchesRetired, Retire
  <2>4. QED
    BY <2>1, <2>2, <2>3, GenSteps DEF GenRetired
<1>3. QED
  BY <1>1, <1>2 DEF TerminalInv

\* The environment gives it none.
LEMMA TerminalEnvironment ==
    ASSUME TypeInv, TerminalInv, Environment, UNCHANGED limits
    PROVE  TerminalInv'
<1>1. UNCHANGED <<threads, task, current>>
  BY EnvironmentSteps
<1>2. QED
  BY <1>1 DEF TerminalInv, CancelledHasNoGeneration, threads
-----------------------------------------------------------------------------
(* The event log of a recovered task *)

LogGrown(c, e) ==
    /\ log' = Append(log, e) /\ lane = None
    /\ e.gen = current' /\ current' # 0
    /\ e.kind = "task_cancelled" <=> current' \in cancelled'
    /\ \/ /\ lane' = c /\ pc'[c] \in Publishing /\ fr'[c].seq = Len(log')
          /\ e.kind = "task_cancelled" => pc'[c] = "cancel_publish"
       \/ ~e.ok /\ UNCHANGED lane /\ pc'[c] \notin Publishing

\* The log grows by one event at a time, which its thread is about to publish unless
\* the append failed.
LEMMA LogChanges ==
    ASSUME TypeInv, ShapeInv, NEW c \in Threads, Acts(c), pc[c] # "rollback_clean"
    PROVE  (UNCHANGED log /\ pc'[c] \notin Publishing) \/ \E e \in Entries : LogGrown(c, e)
<1>1. /\ fr[c] \in Frames /\ fr[c].gen \in Nat /\ fr[c].for \in Nat /\ fr[c].kind \in Kinds /\ Ensured \in Nat
      /\ LogOK /\ ShapeOf(pc[c], fr[c], lease[c])
  BY Threads0, ShapeAt DEF TypeInv, Frames, Ensured, TokensOK
<1>2. pc'[c] = "cancel_publish" => pc[c] = "cancel_publish" \/ CancelAppend(c)
  <2>1. pc'[c] = "cancel_publish" => Site(c)' \in Ending /\ Site(c)' \in Doomed
    BY DEF Site, SiteOf, Emitting, Ending, Doomed
  <2>2. QED
    BY <2>1, Flows DEF Flow, EndFlow
<1>3. CASE EmitAppend(c)
  <2>1. pc[c] = "emit" /\ lane = None /\ UNCHANGED cancelled
    BY <1>3 DEF EmitAppend, At
  <2>2. fr[c].kind \in EventKinds /\ fr[c].ret \in Returns
    BY <1>1, <2>1 DEF ShapeOf, Emitting
  <2>3. ASSUME EventAdmitted(fr[c])
        PROVE  /\ EventGen(c) = current' /\ current' # 0 /\ current' \notin cancelled'
               /\ \A ok \in BOOLEAN :
                     /\ EventEntry(c, ok) \in Entries /\ EventEntry(c, ok).gen = current'
                     /\ EventEntry(c, ok).kind # "task_cancelled" /\ EventEntry(c, ok).ok = ok
    <3>1. EventGen(c) = current' /\ current' # 0 /\ current' \notin cancelled'
      <4>1. CASE fr[c].for = 0
        <5>1. Ensure
          BY <1>3, <4>1 DEF EmitAppend
        <5>2. QED
          BY <2>1, <2>3, <4>1, <5>1, EnsureTokens DEF EventGen, EventAdmitted
      <4>2. CASE fr[c].for # 0
        <5>1. UNCHANGED current /\ Live(fr[c].for)
          BY <1>3, <2>3, <4>2 DEF EmitAppend, EventAdmitted
        <5>2. QED
          BY <2>1, <4>2, <5>1 DEF Live, EventGen
      <4>3. QED
        BY <4>1, <4>2
    <3>2. fr[c].kind # "task_cancelled"
      BY <2>2 DEF EventKinds
    <3>3. QED
      BY <3>1, <3>2, EntryTypes
  <2>4. CASE /\ EventAdmitted(fr[c]) /\ log' = Append(log, EventEntry(c, TRUE)) /\ lane' = c
             /\ \E l : Moves(c, "emit_publish", [fr[c] EXCEPT !.seq = Len(log')], l)
    <3>1. pc'[c] = "emit_publish" /\ fr'[c].seq = Len(log')
      BY <1>1, <2>4 DEF Moves, Frames
    <3>2. LogGrown(c, EventEntry(c, TRUE)) /\ EventEntry(c, TRUE) \in Entries
      BY <2>1, <2>3, <2>4, <3>1 DEF LogGrown, Publishing
    <3>3. QED
      BY <3>2
  <2>5. CASE \E f, l : Moves(c, fr[c].ret, f, l)
    <3>1. pc'[c] \notin Publishing
      BY <2>2, <2>5 DEF Moves, Publishing, Returns
    <3>2. CASE EventAdmitted(fr[c]) /\ Failed(EventEntry(c, FALSE)) /\ log' = Append(log, EventEntry(c, FALSE))
      <4>1. LogGrown(c, EventEntry(c, FALSE)) /\ EventEntry(c, FALSE) \in Entries
        BY <2>1, <2>3, <3>1, <3>2 DEF LogGrown, Failed
      <4>2. QED
        BY <4>1
    <3>3. CASE UNCHANGED log
      BY <3>1, <3>3
    <3>4. QED
      BY <1>3, <2>2, <3>1, <3>2, <3>3, EmitAppendMoves DEF Failed, events, Moves, Publishing
  <2>6. QED
    BY <1>3, <2>4, <2>5, EmitAppendMoves
<1>4. CASE CancelAppend(c)
  <2>1. pc[c] = "complete" /\ lane = None /\ UNCHANGED <<current, cancelled>>
    BY <1>4 DEF CancelAppend, At, tokens
  <2>2. fr[c].gen # 0
    BY <2>1, SiteGen DEF Site, SiteOf, Emitting, Ending, CancelSites
  <2>3. \A ok \in BOOLEAN : CancelEntry(c, ok) \in Entries /\ CancelEntry(c, ok).gen = fr[c].gen
           /\ CancelEntry(c, ok).kind = "task_cancelled" /\ CancelEntry(c, ok).ok = ok
    BY EntryTypes
  <2>4. CASE /\ log' = Append(log, CancelEntry(c, TRUE)) /\ lane' = c
             /\ current = fr[c].gen /\ fr[c].gen \in cancelled
             /\ Moves(c, "cancel_publish", [fr[c] EXCEPT !.seq = Len(log')], lease[c])
    <3>1. pc'[c] = "cancel_publish" /\ fr'[c].seq = Len(log')
      BY <1>1, <2>4 DEF Moves, Frames
    <3>2. LogGrown(c, CancelEntry(c, TRUE)) /\ CancelEntry(c, TRUE) \in Entries
      BY <2>1, <2>2, <2>3, <2>4, <3>1 DEF LogGrown, Publishing
    <3>3. QED
      BY <3>2
  <2>5. CASE \E ok : AfterCancel(c, ok)
    <3>1. pc'[c] \in {"idle", "register"}
      BY <2>5, AfterCancelMoves DEF Moves
    <3>2. pc'[c] \notin Publishing
      BY <3>1 DEF Publishing
    <3>3. CASE /\ current = fr[c].gen /\ fr[c].gen \in cancelled /\ UNCHANGED lane
               /\ log' = Append(log, CancelEntry(c, FALSE))
      <4>1. LogGrown(c, CancelEntry(c, FALSE)) /\ CancelEntry(c, FALSE) \in Entries
        BY <2>1, <2>2, <2>3, <3>2, <3>3 DEF LogGrown
      <4>2. QED
        BY <4>1
    <3>4. CASE UNCHANGED log
      BY <3>2, <3>4
    <3>5. \A f, l : ~Moves(c, "cancel_publish", f, l)
      BY <3>1 DEF Moves
    <3>6. QED
      BY <1>4, <3>3, <3>4, <3>5, CancelAppendMoves DEF Failed, events
  <2>6. QED
    BY <1>4, <2>4, <2>5, CancelAppendMoves
<1>5. CASE ~EmitAppend(c) /\ ~CancelAppend(c)
  <2>1. UNCHANGED log
    <3>1. ~RollbackClean(c)
      BY DEF RollbackClean, At
    <3>2. EmitPublish(c) \/ CancelPublish(c) \/ RollbackFinal(c) => UNCHANGED log
      BY DEF EmitPublish, CancelPublish, RollbackFinal
    <3>3. QED
      BY <1>5, <3>1, <3>2, LogSteps DEF events
  <2>2. pc'[c] # "emit_publish"
    BY <1>5, PublishEntry
  <2>3. pc'[c] # "cancel_publish"
    <3>1. CASE pc[c] = "cancel_publish"
      <4>1. CancelPublish(c)
        BY <3>1, LaneLabels
      <4>2. \E ok : AfterCancel(c, ok)
        BY <4>1 DEF CancelPublish
      <4>3. QED
        BY <4>2, AfterCancelMoves DEF Moves
    <3>2. CASE pc[c] # "cancel_publish"
      BY <1>2, <1>5, <3>2
    <3>3. QED
      BY <3>1, <3>2
  <2>4. QED
    BY <2>1, <2>2, <2>3 DEF Publishing
<1>6. QED
  BY <1>3, <1>4, <1>5

\* The sequence number of the record is that of an event its thread publishes, or restored.
LEMMA SeqSteps ==
    ASSUME TypeInv, ShapeInv, task # None, NEW c \in Threads, Acts(c)
    PROVE  \/ task' = None \/ task'.seq \in {task.seq, 0}
           \/ pc[c] \in Publishing /\ task'.seq = fr[c].seq
           \/ fr[c].replaced # None /\ task'.seq = fr[c].replaced.seq
<1> USE DEF registry
<1>1. fr[c] \in Frames /\ task \in Records /\ EnsureTask = task
  BY ShapeAt, RecordTypes DEF EnsureTask
<1>2. \A life : task' = [task EXCEPT !.life = life] => task'.seq = task.seq
  BY <1>1 DEF Records
<1>3. CASE CallLaunch(c) \/ CallWrite(c) \/ EmitAppend(c)
  BY <1>1, <1>3 DEF CallLaunch, CallWrite, EmitAppend
<1>4. CASE EmitPublish(c)
  <2>1. pc[c] \in Publishing
    BY <1>4 DEF EmitPublish, At, Publishing
  <2>2. UNCHANGED task \/ task' = [task EXCEPT !.seq = fr[c].seq]
    BY <1>4 DEF EmitPublish
  <2>3. QED
    BY <1>1, <2>1, <2>2 DEF Records
<1>5. CASE CallUnwatch(c) \/ CancelRemoveWatch(c)
  <2>1. PICK w : RemoveWatch(w)
    BY <1>5 DEF CallUnwatch, CancelRemoveWatch
  <2>2. UNCHANGED task \/ task' = [task EXCEPT !.ids = @ \ {w}]
    BY <2>1 DEF RemoveWatch
  <2>3. QED
    BY <1>1, <2>2 DEF Records
<1>6. CASE CancelRequest(c)
  <2>1. UNCHANGED task \/ task' = [task EXCEPT !.life = "Cancelling"]
    BY <1>6 DEF CancelRequest
  <2>2. QED
    BY <1>2, <2>1
<1>7. CASE CancelPublish(c)
  <2>1. pc[c] \in Publishing
    BY <1>7 DEF CancelPublish, At, Publishing
  <2>2. UNCHANGED task \/ task' = [task EXCEPT !.life = "Cancelled", !.seq = fr[c].seq]
    BY <1>7 DEF CancelPublish, Retire
  <2>3. QED
    BY <1>1, <2>1, <2>2 DEF Records
<1>8. CASE Register(c)
  <2>1. UNCHANGED task \/ task' = Record("Idle", fr[c].ids, TRUE, 0)
    BY <1>8 DEF Register
  <2>2. QED
    BY <2>1 DEF Record
<1>9. CASE RollbackFinal(c)
  <2> DEFINE old == fr[c].replaced
             n == IF task.seq > old.seq THEN task.seq ELSE old.seq
  <2>1. UNCHANGED task \/ task' = IF old = None THEN None ELSE [old EXCEPT !.seq = n]
    BY <1>9 DEF RollbackFinal
  <2>2. old \in Records \cup {None} /\ n \in {task.seq, old.seq}
    BY <1>1 DEF Frames
  <2> HIDE DEF n
  <2>3. old # None /\ task' = [old EXCEPT !.seq = n] => task'.seq = n
    BY <2>2 DEF Records
  <2>4. QED
    BY <2>1, <2>2, <2>3
<1>10. CASE RunClaim(c)
  <2>1. UNCHANGED task \/ task' = [task EXCEPT !.life = Started(@)]
    BY <1>10, RunClaimMoves
  <2>2. QED
    BY <1>2, <2>1
<1>11. CASE RunFinish(c)
  <2>1. UNCHANGED task \/ task' = [task EXCEPT !.life = Finished(@)]
    BY <1>11, RunFinishMoves
  <2>2. QED
    BY <1>2, <2>1
<1>12. CASE WatchReplan(c)
  <2>1. UNCHANGED task \/ task' = [task EXCEPT !.life = Replanned(@)]
    BY <1>12, WatchMoves
  <2>2. QED
    BY <1>2, <2>1
<1>13. CASE InstallLookup(c) \/ InstallPublish(c) \/ CancelTerminate(c) \/ CancelAppend(c) \/ RollbackBegin(c)
            \/ RollbackClean(c) \/ LaunchSpawn(c) \/ LaunchOwn(c) \/ LaunchRelease(c) \/ WaiterDone(c)
  BY <1>13 DEF InstallLookup, InstallPublish, CancelTerminate, CancelAppend, RollbackBegin, RollbackClean,
     LaunchSpawn, LaunchOwn, LaunchRelease, WaiterDone
<1>14. CASE Quiet
  BY <1>14 DEF Quiet
<1>15. QED
  BY <1>3, <1>4, <1>5, <1>6, <1>7, <1>8, <1>9, <1>10, <1>11, <1>12, <1>13, <1>14, QuietSteps DEF Acts, Calls, Step
\* A recovered task never loses its record, so a rollback never removes its log.
RecordStays ==
    /\ task # None
    /\ \A c \in Threads : fr[c].op = "submit" /\ Works(fr[c].op, Site(c)) => fr[c].replaced # None
    /\ \A c \in Threads : Site(c) # "rollback_clean"

\* A task_cancelled event of the active generation is of a cancelled one, and is about to be
\* published unless its append failed.
LogOrdered ==
    /\ LogOrdersGenerations
    /\ \A i \in DOMAIN log : log[i].gen <= nextId
    /\ \A i \in DOMAIN log : log[i].gen = current /\ current # 0 /\ log[i].kind = "task_cancelled" =>
          /\ current \in cancelled
          /\ log[i].ok => lane \in Threads /\ pc[lane] = "cancel_publish"

SeqBounded ==
    /\ task.seq <= Len(log)
    /\ \A c \in Threads : fr[c].replaced # None => fr[c].replaced.seq <= Len(log)
    /\ \A c \in Threads : pc[c] \in Publishing => fr[c].seq = Len(log)

\* The log of a recovered task.
LogInv == limits.recovered => RecordStays /\ LogOrdered /\ SeqBounded

\* A recovered task never loses its record, and its log is never removed.
LEMMA RecordStaysActs ==
    ASSUME TypeInv, ShapeInv, ShapeInv', TypeInv', RecordStays, NEW c \in Threads, Acts(c)
    PROVE  RecordStays'
<1>1. \A d \in Threads \ {c} : Site(d)' = Site(d) /\ fr'[d] = fr[d]
  BY EveryMove DEF Others, Site
<1>2. OpFlow(c)
  BY Flows DEF Flow
<1>3. task' # None
  <2>1. ASSUME RollbackFinal(c), StillMine(c), task' = None PROVE FALSE
    <3>1. pc[c] = "rollback_final" /\ ShapeOf(pc[c], fr[c], lease[c]) /\ fr[c].op \in Ops /\ fr[c] \in Frames
      BY <2>1, ShapeAt DEF RollbackFinal, At
    <3>2. fr[c].op = "submit" /\ Site(c) = "rollback_final"
      BY <3>1 DEF ShapeOf, SiteOf, SitesOf, Emitting, Ops, Site
    <3>3. fr[c].replaced # None /\ fr[c].replaced \in Records
      BY <3>1, <3>2 DEF RecordStays, Works, CancelSites, Frames
    <3> DEFINE old == fr[c].replaced
               n == IF (IF task = None THEN 0 ELSE task.seq) > old.seq
                    THEN (IF task = None THEN 0 ELSE task.seq) ELSE old.seq
    <3>4. task' = [old EXCEPT !.seq = n]
      BY <2>1, <3>3 DEF RollbackFinal
    <3>5. n \in Nat
      BY <3>3, RecordTypes DEF Records
    <3> HIDE DEF n, old
    <3>6. [old EXCEPT !.seq = n] \in Records
      BY <3>3, <3>5 DEF Records, old
    <3>7. QED
      BY <2>1, <3>4, <3>6, NoneIsNoRecord
  <2>2. QED
    BY <2>1, TaskSteps DEF RecordStays
<1>4. ASSUME fr'[c].op = "submit", Works(fr'[c].op, Site(c)') PROVE fr'[c].replaced # None
  BY <1>2, <1>4 DEF OpFlow, RecordStays
<1>5. Site(c)' # "rollback_clean"
  <2>1. SUFFICES ASSUME Site(c)' = "rollback_clean" PROVE FALSE
    OBVIOUS
  <2>2. ShapeOf(pc'[c], fr'[c], lease'[c]) /\ fr'[c].op \in Ops
    BY DEF ShapeInv, Shape, TypeInv, FrOK, Frames
  <2>3. fr'[c].op = "submit"
    BY <2>1, <2>2 DEF ShapeOf, Site, SitesOf, Ops, CancelSites, InstallSites, RunSites, RunnerSites
  <2>4. Works(fr'[c].op, Site(c)')
    BY <2>1, <2>3 DEF Works, CancelSites
  <2>5. /\ Works(fr[c].op, Site(c)) /\ fr[c].op = "submit"
        /\ Site(c) = "rollback_clean" \/ fr[c].replaced = None
    BY <1>2, <2>1, <2>3, <2>4 DEF OpFlow
  <2>6. QED
    BY <2>5 DEF RecordStays
<1>6. QED
  BY <1>1, <1>3, <1>4, <1>5 DEF RecordStays

\* The record's sequence number stays within the log.
LEMMA SeqBoundedActs ==
    ASSUME TypeInv, ShapeInv, LaneInv, RecordStays, RecordStays', SeqBounded, TypeInv', NEW c \in Threads, Acts(c)
    PROVE  SeqBounded'
<1>1. \A d \in Threads \ {c} : pc'[d] = pc[d] /\ fr'[d] = fr[d]
  BY EveryMove DEF Others
<1>2. log \in Seq(Entries) /\ task \in Records /\ fr[c] \in Frames /\ Len(log) \in Nat
  <2>1. log \in Seq(Entries)
    BY DEF TypeInv, LogOK
  <2>2. task \in Records /\ fr[c] \in Frames
    BY ShapeAt, RecordTypes DEF RecordStays
  <2>3. QED
    BY <2>1, <2>2
<1>3. pc[c] # "rollback_clean"
  BY DEF RecordStays, Site, SiteOf, Emitting
<1>4. Len(log') \in Nat /\ Len(log) <= Len(log')
  BY <1>2, <1>3, LogChanges DEF LogGrown
<1>5. task'.seq <= Len(log')
  <2>1. task' # None /\ task # None
    BY DEF RecordStays
  <2>2. task.seq <= Len(log) /\ task.seq \in Nat
    BY <1>2 DEF SeqBounded, Records
  <2>3. pc[c] \in Publishing => fr[c].seq = Len(log)
    BY DEF SeqBounded
  <2>4. fr[c].replaced # None => fr[c].replaced.seq <= Len(log) /\ fr[c].replaced.seq \in Nat
    BY <1>2 DEF SeqBounded, Frames, Records
  <2>5. QED
    BY <1>2, <1>4, <2>1, <2>2, <2>3, <2>4, SeqSteps
<1>6. ASSUME NEW d \in Threads, fr'[d].replaced # None PROVE fr'[d].replaced.seq <= Len(log')
  <2>1. ASSUME NEW r \in Records, r.seq <= Len(log) PROVE r.seq <= Len(log')
    BY <1>2, <1>4, <2>1 DEF Records
  <2>2. \A b \in Threads : fr[b].replaced # None => fr[b].replaced \in Records /\ fr[b].replaced.seq <= Len(log)
    BY Threads0 DEF SeqBounded, Frames
  <2>3. CASE d # c
    BY <1>1, <1>6, <2>1, <2>2, <2>3
  <2>4. CASE d = c
    <3>1. fr'[c].replaced = fr[c].replaced \/ fr'[c].replaced = task
      BY <1>6, <2>4, Flows DEF Flow, ReplacedFlow
    <3>2. task.seq <= Len(log)
      BY DEF SeqBounded
    <3>3. QED
      BY <1>2, <1>6, <2>1, <2>2, <2>4, <3>1, <3>2
  <2>5. QED
    BY <2>3, <2>4
<1>7. ASSUME NEW d \in Threads, pc'[d] \in Publishing PROVE fr'[d].seq = Len(log')
  <2>1. CASE d # c
    <3>1. lane = d /\ fr[d].seq = Len(log)
      BY <1>1, <1>7, <2>1 DEF LaneInv, SeqBounded
    <3>2. UNCHANGED log
      BY <1>3, <3>1, LogChanges, AdmissionAssumption DEF LogGrown
    <3>3. QED
      BY <1>1, <2>1, <3>1, <3>2
  <2>2. CASE d = c
    BY <1>3, <1>7, <2>2, LogChanges DEF LogGrown
  <2>3. QED
    BY <2>1, <2>2
<1>8. QED
  BY <1>5, <1>6, <1>7 DEF SeqBounded

\* A cancellation that published its event retires the generation.
LEMMA PublishRetires ==
    ASSUME TypeInv, ShapeInv, TokenInv, RecordStays, SeqBounded, NEW c \in Threads, CancelPublish(c)
    PROVE  current' = 0
<1>1. pc[c] = "cancel_publish"
  BY DEF CancelPublish, At
<1>2. Site(c) \in Ending /\ pc[c] \in Publishing
  BY <1>1 DEF Site, SiteOf, Emitting, Ending, CancelSites, Publishing
<1>3. fr[c].gen = current /\ current \in cancelled
  BY <1>1, <1>2 DEF TokenInv, PublishedIsCurrent, EndingIsCancelled
<1>4. task # None /\ task.seq <= fr[c].seq
  BY <1>2 DEF RecordStays, SeqBounded
<1>5. QED
  BY <1>3, <1>4 DEF CancelPublish, Retire

\* Every append keeps the generations of the log in order.
LEMMA LogOrderedActs ==
    ASSUME TypeInv, ShapeInv, LaneInv, TokenInv, RecordStays, SeqBounded, LogOrdered, limits.recovered,
           NEW c \in Threads, Acts(c), UNCHANGED limits
    PROVE  LogOrdered'
<1>1. \A d \in Threads \ {c} : pc'[d] = pc[d]
  BY EveryMove DEF Others
<1>2. /\ log \in Seq(Entries) /\ Len(log) \in Nat /\ DOMAIN log = 1..Len(log)
      /\ nextId \in Nat /\ nextId' \in Nat /\ nextId <= nextId'
  BY TokenTypes DEF TypeInv, LogOK, TokensOK
<1>3. pc[c] # "rollback_clean"
  BY DEF RecordStays, Site, SiteOf, Emitting
<1>4. \A i \in DOMAIN log : log[i].gen \in Nat /\ log[i].gen <= nextId
  <2>1. \A i \in DOMAIN log : log[i] \in Entries
    BY <1>2
  <2>2. QED
    BY <2>1 DEF LogOrdered, Entries
<1>5. current' \in {0, nextId'} /\ (current' # current => current' = 0 \/ current' = nextId + 1)
  BY GenSteps, TokenTypes DEF GenKept, GenMade, GenRetired, TokensOK
<1>5a. cancelled \subseteq cancelled'
  BY CancelSteps
<1>6. CASE UNCHANGED log
  <2>1. LogOrdersGenerations' /\ \A i \in DOMAIN log' : log'[i].gen <= nextId'
    <3>1. \A i \in DOMAIN log' : log'[i].gen <= nextId'
      BY <1>2, <1>4, <1>6
    <3>2. QED
      BY <1>6, <3>1 DEF LogOrdered, LogOrdersGenerations, LogIsKept
  <2>2. ASSUME NEW i \in DOMAIN log, log[i].gen = current', current' # 0, log[i].kind = "task_cancelled",
               log[i].ok
        PROVE  lane' \in Threads /\ pc'[lane'] = "cancel_publish"
    <3>1. current' = current
      BY <1>2, <1>4, <1>5, <2>2
    <3>2. lane \in Threads /\ pc[lane] = "cancel_publish"
      BY <2>2, <3>1 DEF LogOrdered
    <3>3. lane # None
      BY <3>2, AdmissionAssumption
    <3>4. lane # c
      <4>1. lane = c => CancelPublish(c)
        BY <3>2, LaneLabels
      <4>2. QED
        BY <2>2, <4>1, PublishRetires
    <3>5. UNCHANGED lane
      <4>1. ~EmitAppend(c) /\ ~CancelAppend(c) /\ ~RollbackClean(c) /\ ~RollbackFinal(c)
        BY <3>3, <3>4 DEF EmitAppend, CancelAppend, RollbackClean, RollbackFinal
      <4>2. ~EmitPublish(c) /\ ~CancelPublish(c)
        BY <3>4 DEF EmitPublish, CancelPublish, At, LaneInv, Publishing
      <4>3. QED
        BY <4>1, <4>2, LogSteps DEF events
    <3>6. QED
      BY <1>1, <3>2, <3>4, <3>5
  <2>3. ASSUME NEW i \in DOMAIN log, log[i].gen = current', current' # 0, log[i].kind = "task_cancelled"
        PROVE  current' \in cancelled'
    <3>1. current' = current
      BY <1>2, <1>4, <1>5, <2>3
    <3>2. QED
      BY <1>5a, <2>3, <3>1 DEF LogOrdered
  <2>4. QED
    BY <1>6, <2>1, <2>2, <2>3 DEF LogOrdered
<1>7. ASSUME NEW e \in Entries, LogGrown(c, e) PROVE LogOrdered'
  <2>1. /\ log' = Append(log, e) /\ lane = None /\ e.gen = current' /\ current' # 0
        /\ e.kind = "task_cancelled" <=> current' \in cancelled'
        /\ e.kind = "task_cancelled" /\ e.ok => lane' = c /\ pc'[c] = "cancel_publish"
    BY <1>7 DEF LogGrown
  <2>2. /\ DOMAIN log' = 1..(Len(log) + 1) /\ log'[Len(log) + 1] = e
        /\ \A i \in DOMAIN log : log'[i] = log[i]
    BY <1>2, <2>1
  <2>3. \A i \in DOMAIN log : log[i].gen = current /\ current # 0 /\ log[i].kind = "task_cancelled" =>
                                 ~log[i].ok /\ current \in cancelled'
    BY <1>5a, <2>1, AdmissionAssumption DEF LogOrdered
  <2>4. e.gen \in Nat /\ e.gen = nextId'
    BY <1>2, <1>5, <2>1
  <2>5. ASSUME NEW i \in DOMAIN log
        PROVE  \/ log[i].gen < e.gen
               \/ /\ log[i].gen = e.gen
                  /\ log[i].kind = "task_cancelled" => ~log[i].ok /\ e.kind = "task_cancelled"
    <3>1. CASE current' = current
      <4>1. e.gen = nextId
        BY <2>1, <3>1 DEF TypeInv, TokensOK
      <4>2. QED
        BY <1>2, <1>4, <2>1, <2>3, <3>1, <4>1
    <3>2. CASE current' = nextId + 1
      BY <1>2, <1>4, <2>1, <3>2
    <3>3. QED
      BY <1>5, <2>1, <3>1, <3>2
  <2>6. LogOrdersGenerations'
    <3>1. ASSUME NEW i \in DOMAIN log', NEW j \in DOMAIN log', i < j
          PROVE  \/ log'[i].gen < log'[j].gen
                 \/ /\ log'[i].gen = log'[j].gen
                    /\ log'[i].kind = "task_cancelled" => ~log'[i].ok /\ log'[j].kind = "task_cancelled"
      <4>1. i \in DOMAIN log
        BY <1>2, <2>2, <3>1
      <4>2. CASE j \in DOMAIN log
        <5>1. \/ log[i].gen < log[j].gen
              \/ /\ log[i].gen = log[j].gen
                 /\ log[i].kind = "task_cancelled" => ~log[i].ok /\ log[j].kind = "task_cancelled"
          BY <3>1, <4>1, <4>2 DEF LogOrdered, LogOrdersGenerations, LogIsKept
        <5>2. QED
          BY <2>2, <4>1, <4>2, <5>1
      <4>3. CASE j = Len(log) + 1
        BY <2>2, <2>5, <4>1, <4>3
      <4>4. QED
        BY <1>2, <2>2, <4>2, <4>3
    <3>2. QED
      BY <3>1 DEF LogOrdersGenerations
  <2>7. ASSUME NEW i \in DOMAIN log' PROVE log'[i].gen <= nextId'
    <3>1. CASE i \in DOMAIN log
      BY <1>2, <1>4, <2>2, <3>1
    <3>2. CASE i = Len(log) + 1
      BY <2>2, <2>4, <3>2
    <3>3. QED
      BY <1>2, <2>2, <3>1, <3>2
  <2>8. ASSUME NEW i \in DOMAIN log', log'[i].gen = current', current' # 0, log'[i].kind = "task_cancelled"
        PROVE  /\ current' \in cancelled'
               /\ log'[i].ok => lane' \in Threads /\ pc'[lane'] = "cancel_publish"
    <3>1. CASE i \in DOMAIN log
      BY <2>1, <2>2, <2>4, <2>5, <2>8, <3>1, <1>4, <1>2
    <3>2. CASE i = Len(log) + 1
      BY <2>1, <2>2, <2>8, <3>2
    <3>3. QED
      BY <1>2, <2>2, <3>1, <3>2
  <2>9. QED
    BY <2>6, <2>7, <2>8 DEF LogOrdered
<1>8. QED
  BY <1>3, <1>6, <1>7, LogChanges

\* Every step of a thread keeps the log invariant.
LEMMA LogActs ==
    ASSUME TypeInv, ShapeInv, ShapeInv', TypeInv', LaneInv, TokenInv, LogInv, NEW c \in Threads, Acts(c), UNCHANGED limits
    PROVE  LogInv'
BY RecordStaysActs, SeqBoundedActs, LogOrderedActs DEF LogInv

\* The environment does not touch log or record.
LEMMA LogEnvironment ==
    ASSUME TypeInv, LogInv, Environment, UNCHANGED limits
    PROVE  LogInv'
<1>1. UNCHANGED <<threads, task, current, nextId, log, lane>> /\ cancelled \subseteq cancelled'
  BY EnvironmentSteps DEF events
<1>2. \A c \in Threads : Site(c)' = Site(c) /\ fr'[c] = fr[c] /\ pc'[c] = pc[c]
  BY <1>1 DEF threads, Site
<1>3. LogOrdersGenerations' = LogOrdersGenerations
  BY <1>1 DEF LogOrdersGenerations, LogIsKept
<1>4. QED
  BY <1>1, <1>2, <1>3 DEF LogInv, RecordStays, LogOrdered, SeqBounded
-----------------------------------------------------------------------------
(* A task with watches, or with work in flight, has a sequence to run *)

HasSequence == task # None /\ task.sequence

\* A record with watches, queued callbacks or work has a sequence; an admission displaces only
\* terminal records.
SequenceInv ==
    /\ watches # {} => HasSequence
    /\ \A m \in fired : m[2] = current => HasSequence
    /\ \A c \in Threads : Works(fr[c].op, Site(c)) /\ fr[c].gen = current => HasSequence
    /\ \A c \in Threads : fr[c].replaced # None => fr[c].replaced.life = "Cancelled"

\* The record of a generation that stays active keeps its sequence.
LEMMA SequenceKept ==
    ASSUME TypeInv, ShapeInv, TokenInv, NEW c \in Threads, Acts(c), GenKept, current # 0, HasSequence
    PROVE  HasSequence'
<1>1. task \in Records /\ task # None
  BY RecordTypes DEF HasSequence
<1>2. CASE WatchesKept
  BY <1>1, <1>2 DEF WatchesKept, RecordKept, HasSequence
<1>3. CASE WatchRemoved
  <2>1. PICK w : RemoveWatch(w)
    BY <1>3 DEF WatchRemoved
  <2>2. UNCHANGED task \/ task' = [task EXCEPT !.ids = @ \ {w}]
    BY <2>1 DEF RemoveWatch
  <2>3. task' # None
    BY <1>1, <2>2, RecordTypes
  <2>4. task'.sequence = task.sequence
    BY <1>1, <2>2 DEF Records
  <2>5. QED
    BY <2>3, <2>4 DEF HasSequence
<1>4. CASE WatchInstalled(c)
  BY <1>4 DEF WatchInstalled, HasSequence
<1>5. ~WatchesAdded(c) /\ ~WatchesDropped(c) /\ ~WatchesRetired(c)
  BY DEF WatchesAdded, GenMade, WatchesDropped, WatchesRetired, Retire, GenKept
<1>6. QED
  BY <1>2, <1>3, <1>4, <1>5, WatchChanges

\* A registered task has a sequence.
LEMMA AddedHasSequence ==
    ASSUME TypeInv, ShapeInv, NEW c \in Threads, WatchesAdded(c)
    PROVE  HasSequence'
<1>1. fr[c].ids \subseteq WatchIds
  BY ShapeAt DEF Frames
<1>2. task' = Record("Idle", fr[c].ids, TRUE, 0)
  BY DEF WatchesAdded
<1>3. task' # None
  BY <1>1, <1>2, RecordTypes
<1>4. task'.sequence = TRUE
  BY <1>2 DEF Record
<1>5. QED
  BY <1>3, <1>4 DEF HasSequence

\* Every step keeps a sequence in a record that has work.
LEMMA SequenceActs ==
    ASSUME TypeInv, ShapeInv, ShapeInv', TypeInv', TokenInv, WatchInv, WatchInv', SequenceInv, NEW c \in Threads, Acts(c)
    PROVE  SequenceInv'
<1>1. \A d \in Threads \ {c} : Site(d)' = Site(d) /\ fr'[d] = fr[d]
  BY EveryMove DEF Others, Site
<1>2. OpFlow(c) /\ ReplacedFlow(c) /\ TokensOK /\ TokensOK' /\ FiredOK /\ FiredOK'
  BY Flows DEF Flow, TypeInv
<1>3. \A d \in Threads : fr'[d].replaced # None => fr'[d].replaced.life = "Cancelled"
  <2>1. fr'[c].replaced # None => fr'[c].replaced.life = "Cancelled"
    BY <1>2 DEF ReplacedFlow, MayRegister, SequenceInv
  <2>2. QED
    BY <1>1, <2>1 DEF SequenceInv
<1>4. \A m \in fired' : m[2] # 0
  BY <1>2 DEF FiredOK, TokensOK
<1>5. \A d \in Threads : Works(fr'[d].op, Site(d)') => fr'[d].gen # 0
  <2>1. ASSUME NEW d \in Threads, Works(fr'[d].op, Site(d)') PROVE fr'[d].gen # 0
    <3>1. ShapeOf(pc'[d], fr'[d], lease'[d])
      BY DEF ShapeInv, Shape
    <3>2. fr'[d].op \notin {"none", "write"} /\ Site(d)' \notin {"cancel", "register"}
      BY <2>1, <3>1 DEF ShapeOf, Site, SitesOf, Works
    <3>3. QED
      BY <3>1, <3>2 DEF ShapeOf, Site
  <2>2. QED
    BY <2>1
<1>6. current' # 0 => 
        /\ watches' # {} => HasSequence'
        /\ \A m \in fired' : m[2] = current' => HasSequence'
        /\ \A d \in Threads : Works(fr'[d].op, Site(d)') /\ fr'[d].gen = current' => HasSequence'
  <2>1. SUFFICES ASSUME current' # 0, ~HasSequence'
                 PROVE  /\ watches' = {}
                        /\ \A m \in fired' : m[2] # current'
                        /\ \A d \in Threads : Works(fr'[d].op, Site(d)') => fr'[d].gen # current'
    OBVIOUS
  <2>2. ~WatchesAdded(c)
    BY <2>1, AddedHasSequence
  <2>3. ~(Register(c) /\ task' = Record("Idle", fr[c].ids, TRUE, 0))
    <3>1. ASSUME task' = Record("Idle", fr[c].ids, TRUE, 0) PROVE FALSE
      <4>1. fr[c].ids \subseteq WatchIds
        BY ShapeAt DEF Frames
      <4>2. task' # None /\ task'.sequence = TRUE
        BY <3>1, <4>1, RecordTypes DEF Record
      <4>3. QED
        BY <2>1, <4>2 DEF HasSequence
    <3>2. QED
      BY <3>1
  <2>4. CASE GenKept
    <3>1. ~HasSequence /\ current' = current
      BY <2>1, <2>4, SequenceKept DEF GenKept
    <3>2. watches = {} /\ \A m \in fired : m[2] # current
      BY <3>1 DEF SequenceInv
    <3>3. watches' = {}
      BY <2>1, <2>2, <3>1, <3>2, WatchChanges DEF WatchesKept, WatchRemoved, RemoveWatch, WatchInstalled,
         WatchesDropped, WatchesRetired, Retire
    <3>4. \A m \in fired' : m[2] # current'
      BY <3>1, <3>2, FiredSteps
    <3>5. ASSUME NEW d \in Threads, Works(fr'[d].op, Site(d)'), fr'[d].gen = current' PROVE FALSE
      <4>1. CASE d # c
        BY <1>1, <3>1, <3>5, <4>1 DEF SequenceInv
      <4>2. CASE d = c
        BY <1>2, <2>3, <3>1, <3>2, <3>5, <4>2 DEF OpFlow, SequenceInv
      <4>3. QED
        BY <4>1, <4>2
    <3>6. QED
      BY <3>3, <3>4, <3>5
  <2>5. CASE GenMade
    <3>1. current = 0 /\ current' = nextId + 1 /\ watches = {} /\ nextId \in Nat
      BY <1>2, <2>5 DEF GenMade, WatchInv, TokensOK
    <3>2. watches' = {}
      BY <2>1, <2>2, <3>1, WatchChanges DEF WatchesKept, WatchRemoved, RemoveWatch, WatchInstalled,
         WatchesDropped, WatchesRetired, Retire
    <3>3. \A m \in fired : m[2] # current'
      BY <1>2, <3>1 DEF FiredOK
    <3>4. fired' = fired
      BY <3>1, FiredSteps
    <3>5. ASSUME NEW d \in Threads, Works(fr'[d].op, Site(d)'), fr'[d].gen = current' PROVE FALSE
      <4>1. \A b \in Threads : fr[b].gen # current'
        BY <3>1, SiteGen
      <4>2. CASE d # c
        BY <1>1, <3>5, <4>1, <4>2
      <4>3. CASE d = c
        BY <1>2, <2>3, <3>3, <3>5, <4>1, <4>3 DEF OpFlow
      <4>4. QED
        BY <4>2, <4>3
    <3>6. QED
      BY <3>2, <3>3, <3>4, <3>5
  <2>6. QED
    BY <2>1, <2>4, <2>5, GenSteps DEF GenRetired
<1>7. current' = 0 => watches' = {}
  BY DEF WatchInv
<1>8. QED
  BY <1>3, <1>4, <1>5, <1>6, <1>7 DEF SequenceInv

\* The environment leaves record and threads alone.
LEMMA SequenceEnvironment ==
    ASSUME TypeInv, SequenceInv, Environment
    PROVE  SequenceInv'
<1>1. UNCHANGED <<threads, task, watches, fired, current>>
  BY EnvironmentSteps
<1>2. \A c \in Threads : Site(c)' = Site(c) /\ fr'[c] = fr[c]
  BY <1>1 DEF threads, Site
<1>3. HasSequence' = HasSequence
  BY <1>1 DEF HasSequence
<1>4. QED
  BY <1>1, <1>2, <1>3 DEF SequenceInv
-----------------------------------------------------------------------------
(* Runs *)

\* What a thread with an event or a run does next.
LEMMA RunLabels ==
    ASSUME NEW c \in Threads, Acts(c),
           pc[c] \in Emitting \cup RunSites \cup {"run"}
    PROVE  \/ EmitAppend(c) /\ pc[c] = "emit"
           \/ EmitPublish(c) /\ pc[c] = "emit_publish"
           \/ RunClaim(c) /\ pc[c] = "run"
           \/ RunClaimed(c) /\ pc[c] = "claimed"
           \/ RunStarted(c) /\ pc[c] = "started"
           \/ (RunStep(c) \/ RunFinish(c)) /\ pc[c] = "execute"
           \/ RunRefreshed(c) /\ pc[c] = "refreshed"
           \/ RunEnded(c) /\ pc[c] = "ended"
<1> USE DEF At, Emitting, RunSites, RunnerSites
<1>1. ~Calls(c)
  BY DEF Calls, CallSubmit, CallCancel, CallUnwatch, CallWatchEvent, CallLaunch, CallWrite, Begin
<1>2. ~(CancelRequest(c) \/ CancelRemoveWatch(c) \/ CancelTerminate(c) \/ CancelQuiesce(c)
           \/ CancelAppend(c) \/ CancelTimeout(c) \/ CancelPublish(c))
  BY DEF CancelRequest, CancelRemoveWatch, CancelTerminate, CancelQuiesce, CancelAppend, CancelTimeout, CancelPublish
<1>3. ~(Register(c) \/ InstallLookup(c) \/ InstallPublish(c) \/ InstallDone(c) \/ RollbackBegin(c)
           \/ RollbackQuiesce(c) \/ RollbackClean(c) \/ RollbackFinal(c))
  BY DEF Register, InstallLookup, InstallPublish, InstallDone, RollbackBegin, RollbackQuiesce, RollbackClean, RollbackFinal
<1>4. ~(RunOwned(c) \/ OperationDone(c) \/ WatchTouch(c) \/ WatchReplan(c))
  BY DEF RunOwned, OperationDone, WatchTouch, WatchReplan
<1>5. ~(LaunchSpawn(c) \/ LaunchOwn(c) \/ LaunchRelease(c) \/ WaiterReports(c) \/ WaiterDone(c))
  BY DEF LaunchSpawn, LaunchOwn, LaunchRelease, WaiterReports, WaiterDone
<1>6. \/ EmitAppend(c) \/ EmitPublish(c) \/ RunClaim(c) \/ RunClaimed(c) \/ RunStarted(c) \/ RunStep(c)
      \/ RunFinish(c) \/ RunRefreshed(c) \/ RunEnded(c)
  BY <1>1, <1>2, <1>3, <1>4, <1>5 DEF Acts, Step
<1>7. /\ EmitAppend(c) => pc[c] = "emit"
      /\ EmitPublish(c) => pc[c] = "emit_publish"
      /\ RunClaim(c) => pc[c] = "run"
  BY DEF EmitAppend, EmitPublish, RunClaim
<1>8. /\ RunClaimed(c) => pc[c] = "claimed"
      /\ RunStarted(c) => pc[c] = "started"
      /\ RunStep(c) \/ RunFinish(c) => pc[c] = "execute"
      /\ RunRefreshed(c) => pc[c] = "refreshed"
      /\ RunEnded(c) => pc[c] = "ended"
  BY DEF RunClaimed, RunStarted, RunStep, RunFinish, RunRefreshed, RunEnded
<1>9. QED
  BY <1>6, <1>7, <1>8

\* An event leaves the thread at its site, with the run it reports.
LEMMA EmitStays ==
    ASSUME TypeInv, ShapeInv, NEW c \in Threads, EmitAppend(c) \/ EmitPublish(c)
    PROVE  /\ Site(c)' = Site(c) /\ fr'[c].ok = fr[c].ok /\ fr'[c].rerun = fr[c].rerun
           /\ fr'[c].run = fr[c].run /\ fr'[c].gen = fr[c].gen /\ fr'[c].op = fr[c].op
           /\ pc'[c] \in {"emit_publish", fr[c].ret}
           /\ fr'[c].res = "false" => pc'[c] = "emit_publish" \/ (EmitAppend(c) /\ ~EventAdmitted(fr[c]))
<1>1. fr[c] \in Frames /\ ShapeOf(pc[c], fr[c], lease[c])
  BY ShapeAt
<1>2. pc[c] \in Emitting /\ fr[c].ret \in Returns
  <2>1. pc[c] \in Emitting
    BY DEF EmitAppend, EmitPublish, At, Emitting
  <2>2. QED
    BY <1>1, <2>1 DEF ShapeOf
<1>3. fr[c].ret \notin Emitting /\ "emit_publish" \in Emitting
  BY <1>2 DEF Returns, Emitting
<1>4. ASSUME NEW f \in Frames, NEW p \in {"emit_publish", fr[c].ret}, pc'[c] = p, fr'[c] = f, f.ret = fr[c].ret
      PROVE  Site(c)' = Site(c)
  BY <1>2, <1>3, <1>4 DEF Site, SiteOf
<1>5. CASE EmitAppend(c)
  <2>1. ASSUME NEW n \in Nat, NEW l, Moves(c, "emit_publish", [fr[c] EXCEPT !.seq = n], l)
        PROVE  /\ Site(c)' = Site(c) /\ fr'[c].ok = fr[c].ok /\ fr'[c].rerun = fr[c].rerun
               /\ fr'[c].run = fr[c].run /\ fr'[c].gen = fr[c].gen /\ fr'[c].op = fr[c].op
               /\ pc'[c] = "emit_publish"
    <3> DEFINE f == [fr[c] EXCEPT !.seq = n]
    <3>1. /\ f \in Frames /\ f.ok = fr[c].ok /\ f.rerun = fr[c].rerun /\ f.run = fr[c].run /\ f.gen = fr[c].gen
          /\ f.op = fr[c].op /\ f.ret = fr[c].ret
      BY <1>1, <2>1 DEF Frames
    <3>2. pc'[c] = "emit_publish" /\ fr'[c] = f
      BY <2>1 DEF Moves
    <3> HIDE DEF f
    <3>3. QED
      BY <1>4, <3>1, <3>2
  <2>2. ASSUME NEW r \in {"error", "false"}, NEW l, Moves(c, fr[c].ret, [fr[c] EXCEPT !.res = r], l)
        PROVE  /\ Site(c)' = Site(c) /\ fr'[c].ok = fr[c].ok /\ fr'[c].rerun = fr[c].rerun
               /\ fr'[c].run = fr[c].run /\ fr'[c].gen = fr[c].gen /\ fr'[c].op = fr[c].op
               /\ pc'[c] = fr[c].ret /\ fr'[c].res = r
    <3> DEFINE f == [fr[c] EXCEPT !.res = r]
    <3>1. /\ f \in Frames /\ f.ok = fr[c].ok /\ f.rerun = fr[c].rerun /\ f.run = fr[c].run /\ f.gen = fr[c].gen
          /\ f.op = fr[c].op /\ f.ret = fr[c].ret /\ f.res = r
      BY <1>1, <2>2 DEF Frames
    <3>2. pc'[c] = fr[c].ret /\ fr'[c] = f
      BY <2>2 DEF Moves
    <3> HIDE DEF f
    <3>3. QED
      BY <1>4, <3>1, <3>2
  <2>3. CASE /\ Moves(c, "emit_publish", [fr[c] EXCEPT !.seq = Len(log')],
                   [lease[c] EXCEPT !.event = EventGen(c)])
    <3>1. Len(log') \in Nat
      <4>1. log' \in Seq(Entries)
        BY LogTypes, <1>5 DEF LogOK, Acts, Step
      <4>2. QED
        BY <4>1
    <3>2. QED
      BY <2>1, <2>3, <3>1
  <2>4. CASE Moves(c, fr[c].ret, [fr[c] EXCEPT !.res = "error"], lease[c])
    BY <2>2, <2>4
  <2>5. CASE ~EventAdmitted(fr[c]) /\ Moves(c, fr[c].ret, [fr[c] EXCEPT !.res = "false"], lease[c])
    BY <1>5, <2>2, <2>5
  <2>6. QED
    BY <1>5, <2>3, <2>4, <2>5, EmitAppendMoves
<1>6. CASE EmitPublish(c)
  <2>1. PICK r \in {"true", "error"} :
            Moves(c, fr[c].ret, [fr[c] EXCEPT !.res = r, !.seq = 0], [lease[c] EXCEPT !.event = 0])
    BY <1>6, EmitPublishMoves
  <2> DEFINE f == [fr[c] EXCEPT !.res = r, !.seq = 0]
  <2>2. /\ f \in Frames /\ f.ok = fr[c].ok /\ f.rerun = fr[c].rerun /\ f.run = fr[c].run /\ f.gen = fr[c].gen
        /\ f.op = fr[c].op /\ f.ret = fr[c].ret /\ f.res = r
    BY <1>1, <2>1 DEF Frames
  <2>3. pc'[c] = fr[c].ret /\ fr'[c] = f
    BY <2>1 DEF Moves
  <2> HIDE DEF f
  <2>4. QED
    BY <1>4, <2>2, <2>3
<1>7. QED
  BY <1>5, <1>6

\* How the lifecycle of the record changes.
LEMMA LifeSteps ==
    ASSUME TypeInv, ShapeInv, NEW c \in Threads, Acts(c), task' # None
    PROVE  \/ task # None /\ task'.life = task.life
           \/ task = None /\ task'.life = "Idle"
           \/ CancelRequest(c) /\ current' \in cancelled'
           \/ GenRetired(c) /\ (task'.life = "Cancelled" \/ (fr[c].replaced # None /\ task'.life = fr[c].replaced.life))
           \/ WatchesAdded(c) /\ task'.life = "Idle"
           \/ /\ RunClaim(c) /\ RunAdmitted(c) /\ task # None /\ task'.life = Started(task.life)
              /\ pc'[c] \in {"claimed", "started"}
           \/ RunFinish(c) /\ task # None /\ task'.life = Finished(task.life)
           \/ WatchReplan(c) /\ Live(fr[c].gen) /\ task # None /\ task'.life = Replanned(task.life)
<1> USE DEF registry
<1>1. fr[c] \in Frames /\ (task # None => task \in Records)
  BY ShapeAt, RecordTypes
<1>2. ASSUME task # None, NEW life, task' = [task EXCEPT !.life = life] PROVE task'.life = life
  BY <1>1, <1>2 DEF Records
<1>3. UNCHANGED task => task # None /\ task'.life = task.life
  OBVIOUS
<1>4. CASE CallLaunch(c) \/ CallWrite(c) \/ EmitAppend(c)
  <2>1. UNCHANGED task \/ task' = EnsureTask
    BY <1>4 DEF CallLaunch, CallWrite, EmitAppend
  <2>2. QED
    BY <2>1 DEF EnsureTask, Fresh, Record
<1>5. CASE EmitPublish(c)
  <2>1. UNCHANGED task \/ (task # None /\ task' = [task EXCEPT !.seq = fr[c].seq])
    BY <1>5 DEF EmitPublish
  <2>2. QED
    BY <1>1, <2>1 DEF Records
<1>6. CASE CallUnwatch(c) \/ CancelRemoveWatch(c)
  <2>1. PICK w : RemoveWatch(w)
    BY <1>6 DEF CallUnwatch, CancelRemoveWatch
  <2>2. UNCHANGED task \/ (task # None /\ task' = [task EXCEPT !.ids = @ \ {w}])
    BY <2>1 DEF RemoveWatch
  <2>3. QED
    BY <1>1, <2>2 DEF Records
<1>7. CASE CancelRequest(c)
  <2>1. UNCHANGED task \/ (Ensure /\ cancelled' = cancelled \cup {Ensured})
    BY <1>7, CancelRequestMoves
  <2>2. QED
    BY <1>7, <2>1 DEF Ensure
<1>8. CASE CancelPublish(c)
  <2>1. \/ UNCHANGED task
        \/ /\ task # None /\ task' = [task EXCEPT !.life = "Cancelled", !.seq = fr[c].seq]
           /\ current' = 0 /\ fr[c].gen = current /\ nextId' = nextId
    BY <1>8 DEF CancelPublish, Retire
  <2>2. QED
    BY <1>1, <1>8, <2>1 DEF GenRetired, Records
<1>9. CASE Register(c)
  <2>1. UNCHANGED handles
    BY <1>9 DEF Register
  <2>2. UNCHANGED task \/ WatchesAdded(c)
    BY <1>9, <2>1, RegisterMoves DEF WatchesAdded, GenMade, MayRegister
  <2>3. WatchesAdded(c) => task'.life = "Idle"
    BY DEF WatchesAdded, Record
  <2>4. QED
    BY <2>2, <2>3
<1>10. CASE RollbackFinal(c)
  <2>1. CASE ~StillMine(c)
    BY <1>10, <2>1 DEF RollbackFinal
  <2>2. CASE StillMine(c)
    <3> DEFINE old == fr[c].replaced
               n == IF (IF task = None THEN 0 ELSE task.seq) > old.seq
                    THEN (IF task = None THEN 0 ELSE task.seq) ELSE old.seq
    <3>1. old \in Records \cup {None}
      BY <1>1 DEF Frames
    <3>2. task' = IF old = None THEN None ELSE [old EXCEPT !.seq = n]
      BY <1>10, <2>2 DEF RollbackFinal
    <3>3. current' = 0 /\ nextId' = nextId /\ fr[c].gen = current
      BY <1>10, <2>2 DEF RollbackFinal, StillMine
    <3> HIDE DEF n, old
    <3>4. old # None /\ task'.life = old.life
      BY <3>1, <3>2 DEF Records
    <3>5. QED
      BY <1>10, <3>3, <3>4 DEF GenRetired, old
  <2>3. QED
    BY <2>1, <2>2
<1>11. CASE RunClaim(c)
  <2>1. CASE UNCHANGED task
    BY <1>3, <2>1
  <2>2. CASE /\ RunAdmitted(c) /\ task' = [task EXCEPT !.life = Started(task.life)]
             /\ \E p \in {"claimed", "started"} :
                    Moves(c, p, [fr[c] EXCEPT !.run = Ensured], [lease[c] EXCEPT !.run = Ensured])
    <3>1. task # None /\ pc'[c] \in {"claimed", "started"}
      BY <2>2 DEF RunAdmitted, Moves
    <3>2. QED
      BY <1>2, <1>11, <2>2, <3>1
  <2>3. QED
    BY <1>11, <2>1, <2>2, RunClaimMoves
<1>12. CASE RunFinish(c)
  <2>1. UNCHANGED task \/ (task # None /\ task' = [task EXCEPT !.life = Finished(@)])
    BY <1>12, RunFinishMoves
  <2>2. QED
    BY <1>2, <1>12, <2>1
<1>13. CASE WatchReplan(c)
  <2>1. UNCHANGED task \/ (Live(fr[c].gen) /\ task # None /\ task' = [task EXCEPT !.life = Replanned(@)])
    BY <1>13, WatchMoves
  <2>2. QED
    BY <1>2, <1>13, <2>1
<1>14. CASE InstallLookup(c) \/ InstallPublish(c) \/ CancelTerminate(c) \/ CancelAppend(c) \/ RollbackBegin(c)
            \/ RollbackClean(c) \/ LaunchSpawn(c) \/ LaunchOwn(c) \/ LaunchRelease(c) \/ WaiterDone(c)
  BY <1>14 DEF InstallLookup, InstallPublish, CancelTerminate, CancelAppend, RollbackBegin, RollbackClean,
     LaunchSpawn, LaunchOwn, LaunchRelease, WaiterDone
<1>15. CASE Quiet
  BY <1>15 DEF Quiet
<1>16. QED
  BY <1>4, <1>5, <1>6, <1>7, <1>8, <1>9, <1>10, <1>11, <1>12, <1>13, <1>14, <1>15, QuietSteps DEF Acts, Calls, Step
\* Where a run stands when it ends.
EndedFlow(c) ==
    Site(c)' = "ended" =>
        \/ /\ EmitAppend(c) \/ EmitPublish(c)
           /\ Site(c) = "ended" /\ fr'[c].ok = fr[c].ok /\ fr'[c].rerun = fr[c].rerun /\ fr'[c].run = fr[c].run
           /\ pc'[c] = "ended" /\ fr'[c].res = "false" => EmitAppend(c) /\ ~EventAdmitted(fr[c])
        \/ /\ pc'[c] = "emit" /\ Site(c) \in RunSites /\ fr'[c].run = fr[c].run
           /\ ~fr'[c].ok \/ (fr'[c].rerun = fr[c].rerun /\ ~OwnsRerun(fr[c]))

\* Every step that brings a run to its end is one of these.
LEMMA EndedFlows ==
    ASSUME TypeInv, ShapeInv, NEW c \in Threads, Acts(c)
    PROVE  EndedFlow(c)
<1>0. SUFFICES ASSUME Site(c)' = "ended" PROVE EndedFlow(c)
  BY DEF EndedFlow
<1>1. fr[c] \in Frames /\ ShapeOf(pc[c], fr[c], lease[c])
  BY ShapeAt
<1>2. ~RunOver(c)
  <2>1. \A p, f, l : p \notin Emitting /\ p # "ended" /\ Moves(c, p, f, l) => FALSE
    BY <1>0 DEF Moves, Site, SiteOf
  <2>2. QED
    BY <2>1 DEF RunOver, Emitting
<1>3. Site(c) \in RunSites \cup {"run"}
  BY <1>0, Flows DEF Flow, RunFlow, RunSites, Site, SiteOf, Emitting
<1>4. Site(c) \in RunSites
  <2>1. Site(c) = "run" => RunClaim(c) /\ Site(c)' \in {"claimed", "started"}
    BY <1>0, Flows DEF Flow, RunFlow, RunSites, RunnerSites
  <2>2. QED
    BY <1>0, <1>3, <2>1
<1>5. pc[c] \in Emitting \cup RunSites
  BY <1>4 DEF Site, SiteOf
<1>6. CASE EmitAppend(c) \/ EmitPublish(c)
  <2>1. pc'[c] = "ended" /\ fr'[c].res = "false" => EmitAppend(c) /\ ~EventAdmitted(fr[c])
    BY <1>6, EmitStays
  <2>2. QED
    BY <1>0, <1>6, <2>1, EmitStays DEF EndedFlow
<1>7. ASSUME NEW p \in RunnerSites \cup {"run"}, NEW f, NEW l, Moves(c, p, f, l) PROVE FALSE
  BY <1>0, <1>7 DEF Moves, Site, SiteOf, Emitting, RunnerSites
<1>8. ASSUME NEW f \in Frames, NEW kind, NEW for, NEW l, NEW ret \in Returns, Moves(c, "emit", Emits(f, kind, for, ret), l)
      PROVE  /\ ret = "ended" /\ pc'[c] = "emit"
             /\ fr'[c].run = f.run /\ fr'[c].ok = f.ok /\ fr'[c].rerun = f.rerun
  <2>1. pc'[c] = "emit" /\ fr'[c] = Emits(f, kind, for, ret)
    BY <1>8 DEF Moves
  <2>2. /\ fr'[c].ret = ret
        /\ fr'[c].run = f.run /\ fr'[c].ok = f.ok /\ fr'[c].rerun = f.rerun
    BY <2>1 DEF Emits, Frames
  <2>3. QED
    BY <1>0, <2>1, <2>2 DEF Site, SiteOf, Emitting
<1>9. CASE RunClaimed(c)
  BY <1>2, <1>7, <1>9, RunClaimedMoves DEF RunnerSites
<1>10. CASE RunStarted(c) \/ RunStep(c)
  <2>1. PICK kind : Moves(c, "emit", Emits(fr[c], kind, fr[c].run, "execute"), lease[c])
    BY <1>10, RunEmitMoves
  <2>2. QED
    BY <1>1, <1>8, <2>1 DEF Returns
<1>11. CASE RunFinish(c)
  <2>1. PICK ok \in BOOLEAN :
            LET f == [fr[c] EXCEPT !.ok = ok, !.rerun = (task.life = "RunningReplanPending")]
            IN  /\ f \in Frames
                /\ ok => Moves(c, "emit", Emits(f, "context_updated", fr[c].run, "refreshed"), lease[c])
                /\ ~ok => Moves(c, "emit", Emits(f, "task_failed", fr[c].run, "ended"), lease[c])
    BY <1>2, <1>11, RunFinishMoves
  <2> DEFINE f == [fr[c] EXCEPT !.ok = ok, !.rerun = (task.life = "RunningReplanPending")]
  <2>2. f \in Frames /\ f.run = fr[c].run /\ f.ok = ok
    BY <1>1, <2>1 DEF Frames
  <2>3. /\ ok => Moves(c, "emit", Emits(f, "context_updated", fr[c].run, "refreshed"), lease[c])
        /\ ~ok => Moves(c, "emit", Emits(f, "task_failed", fr[c].run, "ended"), lease[c])
    BY <2>1
  <2> HIDE DEF f
  <2>4. ~ok /\ pc'[c] = "emit" /\ fr'[c].run = f.run /\ fr'[c].ok = f.ok
    <3>1. CASE ok
      BY <1>8, <2>2, <2>3, <3>1 DEF Returns
    <3>2. CASE ~ok
      BY <1>8, <2>2, <2>3, <3>2 DEF Returns
    <3>3. QED
      BY <3>1, <3>2
  <2>5. QED
    BY <1>4, <2>2, <2>4 DEF EndedFlow
<1>12. CASE RunRefreshed(c)
  <2>1. ~OwnsRerun(fr[c]) /\ Moves(c, "emit", Emits(fr[c], "task_completed", fr[c].run, "ended"), lease[c])
    BY <1>2, <1>7, <1>12, RunEndMoves
  <2>2. pc'[c] = "emit" /\ fr'[c].run = fr[c].run /\ fr'[c].rerun = fr[c].rerun
    BY <1>1, <1>8, <2>1 DEF Returns
  <2>3. QED
    BY <1>4, <2>1, <2>2 DEF EndedFlow
<1>13. CASE RunEnded(c)
  BY <1>2, <1>7, <1>13, RunEndMoves
<1>14. QED
  BY <1>5, <1>6, <1>9, <1>10, <1>11, <1>12, <1>13, RunLabels DEF RunSites, RunnerSites, RunClaim, At, Emitting

\* A live generation has at most one runner, and the record is in the lifecycle it claimed;
\* a run that ended without its rerun was cancelled.
RunInv ==
    /\ \A c \in Threads : Site(c) \in RunSites => fr[c].run = fr[c].gen
    /\ current \notin cancelled => \A c \in Threads :
          /\ Site(c) \in RunnerSites => /\ IsRunning(task.life)
                                        /\ \A d \in Threads : Site(d) \in RunnerSites => c = d
          /\ Site(c) = "claimed" => task.life \in {"RunningRecoveredReplan", "RunningReplanPending"}
    /\ \A c \in Threads : pc[c] = "ended" /\ fr[c].res = "false" => fr[c].run \in cancelled
    /\ \A c \in Threads : Site(c) = "ended" /\ fr[c].ok /\ fr[c].rerun => fr[c].run \in cancelled

\* A run holds the lease of the active generation.
LEMMA RunIsCurrent ==
    ASSUME TypeInv, ShapeInv, TokenInv, NEW c \in Threads, Site(c) \in RunSites
    PROVE  fr[c].run = current /\ current # 0 /\ task # None
BY SiteGen DEF TokenInv, LeasesAreCurrent, GenerationHasRecord

\* A run that is claimed is one of the active generation, its caller's.
LEMMA ClaimIsCurrent ==
    ASSUME TypeInv, ShapeInv, TokenInv, NEW c \in Threads, pc[c] = "run", FenceMatches(c)
    PROVE  fr[c].gen = current /\ current # 0 /\ Ensured = current
<1>1. fr[c].op \in Ops /\ ShapeOf(pc[c], fr[c], lease[c])
  BY ShapeAt
<1>2. fr[c].op \in {"submit", "watch", "recovered"} /\ fr[c].fence = FenceOf(fr[c].op) /\ fr[c].gen # 0
  BY <1>1 DEF ShapeOf, SiteOf, SitesOf, Emitting, Ops
<1>3. CASE fr[c].op = "watch"
  BY <1>1, <1>2, <1>3 DEF ShapeOf, TokenInv, LeasesAreCurrent, Ensured
<1>4. CASE fr[c].op # "watch"
  BY <1>2, <1>4 DEF FenceOf, FenceMatches, Fenced, Ensured
<1>5. QED
  BY <1>3, <1>4

\* Every step keeps one runner per live generation, with the lifecycle it claimed.
LEMMA RunActs ==
    ASSUME TypeInv, ShapeInv, ShapeInv', TypeInv', TokenInv, TokenInv', RunInv, NEW c \in Threads, Acts(c)
    PROVE  RunInv'
<1>1. \A d \in Threads \ {c} : Site(d)' = Site(d) /\ pc'[d] = pc[d] /\ fr'[d] = fr[d] /\ lease'[d] = lease[d]
  BY EveryMove DEF Others, Site
<1>2. RunFlow(c) /\ EndedFlow(c) /\ cancelled \subseteq cancelled'
  BY Flows, EndedFlows, TokenTypes DEF Flow
<1>3. \A d \in Threads : Site(d)' \in RunSites => fr'[d].run = fr'[d].gen
  <2>1. ASSUME Site(c)' \in RunSites PROVE fr'[c].run = fr'[c].gen
    <3>1. CASE Site(c) \in RunSites /\ fr'[c].run = fr[c].run /\ fr'[c].gen = fr[c].gen
      BY <3>1 DEF RunInv
    <3>2. CASE pc[c] = "run" /\ RunAdmitted(c) /\ Ensure /\ fr'[c].run = current' /\ fr'[c].gen = fr[c].gen
      <4>1. FenceMatches(c) /\ current' = Ensured
        BY <3>2 DEF RunAdmitted, Ensure
      <4>2. QED
        BY <3>2, <4>1, ClaimIsCurrent
    <3>3. QED
      BY <1>2, <2>1, <3>1, <3>2 DEF RunFlow
  <2>2. QED
    BY <1>1, <2>1 DEF RunInv
<1>4. ASSUME current' \notin cancelled'
      PROVE  \A d \in Threads :
                /\ Site(d)' \in RunnerSites => /\ IsRunning(task'.life)
                                               /\ \A b \in Threads : Site(b)' \in RunnerSites => d = b
                /\ Site(d)' = "claimed" => task'.life \in {"RunningRecoveredReplan", "RunningReplanPending"}
  <2>1. CASE \A d \in Threads : Site(d)' \notin RunnerSites
    BY <2>1 DEF RunnerSites
  <2>2. CASE RunClaim(c) /\ RunAdmitted(c) /\ task' = [task EXCEPT !.life = Started(@)] /\ pc[c] = "run"
             /\ UNCHANGED cancelled /\ Ensure
             /\ (pc'[c] = "claimed" => task.life = "ReplanPending") /\ Site(c)' = pc'[c]
    <3>1. FenceMatches(c) /\ task # None /\ MayStart(task.life) /\ Ensured \notin cancelled
      BY <2>2 DEF RunAdmitted
    <3>2. current \notin cancelled /\ task \in Records
      BY <2>2, <3>1, ClaimIsCurrent, RecordTypes
    <3>3. \A d \in Threads : Site(d) \notin RunnerSites
      BY <3>1, <3>2 DEF RunInv, MayStart, IsRunning
    <3>4. task'.life = Started(task.life)
      BY <2>2, <3>2 DEF Records
    <3>5. IsRunning(task'.life) /\ (task.life = "ReplanPending" => task'.life = "RunningRecoveredReplan")
      BY <3>4 DEF IsRunning, Started
    <3>6. \A d \in Threads : Site(d)' \in RunnerSites => d = c
      BY <1>1, <3>3
    <3>7. QED
      BY <2>2, <3>5, <3>6 DEF RunnerSites
  <2>3. CASE /\ \E d \in Threads : Site(d)' \in RunnerSites
             /\ Site(c)' \in RunnerSites => Site(c) \in RunnerSites
             /\ Site(c)' = "claimed" => Site(c) = "claimed"
    <3>1. PICK d \in Threads : Site(d)' \in RunnerSites
      BY <2>3
    <3>2. Site(d) \in RunnerSites
      BY <1>1, <2>3, <3>1
    <3>3. current # 0 /\ task # None /\ fr[d].run = current /\ lease[d].run = current
      <4>1. Site(d) \in RunSites
        BY <3>2 DEF RunSites
      <4>2. QED
        BY <4>1, RunIsCurrent, SiteGen
    <3>4. current' # 0
      <4>1. ShapeOf(pc'[d], fr'[d], lease'[d]) /\ Site(d)' \in RunSites
        BY <3>1 DEF ShapeInv, Shape, RunSites
      <4>2. lease'[d].run # 0
        BY <4>1 DEF ShapeOf, Site
      <4>3. QED
        BY <4>2 DEF TokenInv, LeasesAreCurrent
    <3>5. GenKept
      BY <3>3, <3>4, GenSteps DEF GenMade, GenRetired
    <3>6. current \notin cancelled
      BY <1>2, <1>4, <3>5 DEF GenKept
    <3>7. /\ IsRunning(task.life) /\ \A b \in Threads : Site(b) \in RunnerSites => b = d
          /\ \A b \in Threads : Site(b) = "claimed" => task.life \in {"RunningRecoveredReplan", "RunningReplanPending"}
      BY <3>2, <3>6 DEF RunInv
    <3>8. \A b \in Threads : (Site(b)' \in RunnerSites => b = d) /\ (Site(b)' = "claimed" => Site(b) = "claimed")
      BY <1>1, <2>3, <3>7
    <3>9. task' # None
      BY <3>4 DEF TokenInv, GenerationHasRecord
    <3>10. IsRunning(task'.life) /\ ((\E b \in Threads : Site(b) = "claimed") => task'.life \in {"RunningRecoveredReplan", "RunningReplanPending"})
      <4>1. CASE task'.life = task.life
        BY <3>7, <4>1
      <4>2. CASE WatchReplan(c) /\ task'.life = Replanned(task.life)
        <5>1. task.life \in Lifecycles
          BY <3>3, LifeTypes
        <5>2. QED
          BY <3>7, <4>2, <5>1 DEF Replanned, IsRunning, Lifecycles
      <4>3. CASE RunFinish(c)
        <5>1. pc[c] = "execute"
          BY <4>3 DEF RunFinish, At
        <5>2. Site(c) \in RunnerSites
          BY <5>1 DEF Site, SiteOf, Emitting, RunnerSites
        <5>3. Site(c)' \notin RunnerSites
          <6>1. RunOver(c) => Site(c)' \notin RunnerSites
            BY DEF RunOver, Moves, Site, SiteOf, Emitting, RunnerSites
          <6>2. ASSUME NEW f \in Frames, NEW kind, NEW for, NEW l, NEW ret \in {"refreshed", "ended"},
                       Moves(c, "emit", Emits(f, kind, for, ret), l)
                PROVE  Site(c)' \notin RunnerSites
            <7>1. pc'[c] = "emit" /\ fr'[c] = Emits(f, kind, for, ret)
              BY <6>2 DEF Moves
            <7>2. fr'[c].ret = ret
              BY <7>1 DEF Emits, Frames
            <7>3. QED
              BY <7>1, <7>2 DEF Site, SiteOf, Emitting, RunnerSites
          <6>3. CASE \E ok \in BOOLEAN :
                    LET f == [fr[c] EXCEPT !.ok = ok, !.rerun = (task.life = "RunningReplanPending")]
                    IN  /\ f \in Frames
                        /\ ok => Moves(c, "emit", Emits(f, "context_updated", fr[c].run, "refreshed"), lease[c])
                        /\ ~ok => Moves(c, "emit", Emits(f, "task_failed", fr[c].run, "ended"), lease[c])
            BY <6>2, <6>3
          <6>4. QED
            BY <4>3, <6>1, <6>3, RunFinishMoves
        <5>4. QED
          BY <3>1, <3>7, <5>2, <5>3
      <4>4. ~(RunClaim(c) /\ RunAdmitted(c))
        BY <3>7 DEF RunAdmitted, MayStart, IsRunning
      <4>5. ~(CancelRequest(c) /\ current' \in cancelled')
        BY <1>4
      <4>6. ~GenRetired(c) /\ ~WatchesAdded(c)
        BY <3>3, <3>4 DEF GenRetired, WatchesAdded, MayRegister
      <4>7. QED
        BY <3>3, <3>9, <4>1, <4>2, <4>3, <4>4, <4>5, <4>6, LifeSteps
    <3>11. QED
      BY <3>8, <3>10
  <2>4. Site(c)' \notin RunSites => Site(c)' \notin RunnerSites /\ Site(c)' # "claimed"
    BY DEF RunSites, RunnerSites
  <2>5. RunClaim(c) => UNCHANGED cancelled
    BY DEF RunClaim
  <2>6. QED
    BY <1>2, <2>1, <2>2, <2>3, <2>4, <2>5 DEF RunFlow
<1>5. ASSUME NEW d \in Threads, pc'[d] = "ended", fr'[d].res = "false" PROVE fr'[d].run \in cancelled'
  <2>1. CASE d # c
    BY <1>1, <1>2, <1>5, <2>1 DEF RunInv
  <2>2. CASE d = c
    <3>1. Site(c)' = "ended"
      BY <1>5, <2>2 DEF Site, SiteOf, Emitting
    <3>2. EmitAppend(c) /\ ~EventAdmitted(fr[c]) /\ Site(c) = "ended" /\ fr'[c].run = fr[c].run
      BY <1>2, <1>5, <2>2, <3>1 DEF EndedFlow
    <3>3. pc[c] = "emit" /\ Site(c) \in RunSites /\ ShapeOf(pc[c], fr[c], lease[c])
      BY <3>2, ShapeAt DEF EmitAppend, At, RunSites
    <3>4. fr[c].for = fr[c].run
      <4>1. fr[c].op # "write"
        BY <3>2, <3>3 DEF ShapeOf, Site, SitesOf
      <4>2. QED
        BY <3>3, <4>1 DEF ShapeOf, Site
    <3>5. fr[c].run = current /\ current # 0 /\ task # None
      BY <3>3, RunIsCurrent
    <3>6. fr[c].run \in cancelled
      BY <3>2, <3>4, <3>5 DEF EventAdmitted, Live
    <3>7. QED
      BY <1>2, <2>2, <3>2, <3>6
  <2>3. QED
    BY <2>1, <2>2
<1>6. ASSUME NEW d \in Threads, Site(d)' = "ended", fr'[d].ok, fr'[d].rerun PROVE fr'[d].run \in cancelled'
  <2>1. CASE d # c
    BY <1>1, <1>2, <1>6, <2>1 DEF RunInv
  <2>2. CASE d = c
    <3>1. CASE Site(c) = "ended" /\ fr'[c].ok = fr[c].ok /\ fr'[c].rerun = fr[c].rerun /\ fr'[c].run = fr[c].run
      BY <1>2, <1>6, <2>2, <3>1 DEF RunInv
    <3>2. CASE fr'[c].rerun = fr[c].rerun /\ ~OwnsRerun(fr[c]) /\ fr'[c].run = fr[c].run
      BY <1>2, <1>6, <2>2, <3>2 DEF OwnsRerun
    <3>3. QED
      BY <1>2, <1>6, <2>2, <3>1, <3>2 DEF EndedFlow
  <2>3. QED
    BY <2>1, <2>2
<1>7. QED
  BY <1>3, <1>4, <1>5, <1>6 DEF RunInv

\* A shutdown only adds a cancelled generation.
LEMMA RunEnvironment ==
    ASSUME TypeInv, TokenInv, RunInv, Environment
    PROVE  RunInv'
<1>1. UNCHANGED <<threads, task, current>> /\ cancelled \subseteq cancelled'
  BY EnvironmentSteps
<1>2. \A c \in Threads : Site(c)' = Site(c) /\ fr'[c] = fr[c] /\ pc'[c] = pc[c]
  BY <1>1 DEF threads, Site
<1>3. QED
  BY <1>1, <1>2 DEF RunInv
-----------------------------------------------------------------------------
(* Owners of claimed and of queued work *)

\* Thread c is on its way to run the replan that is queued.
Queues(c) ==
    \/ pc[c] = "run" /\ fr[c].gen = current
    \/ Site(c) \in {"refreshed", "ended"} /\ fr[c].rerun

\* While the daemon is not stopping, claimed work of a live generation has a runner and a
\* queued replan a thread that is about to claim it.
OwnerInv ==
    ~requested /\ ~stopping /\ current \notin cancelled /\ task # None =>
        /\ IsRunning(task.life) => \E c \in Threads : Site(c) \in RunnerSites
        /\ task.life = "ReplanPending" => \E c \in Threads : Queues(c)

\* A claimed run of a live generation goes on until finish_run.
LEMMA RunnerStays ==
    ASSUME TypeInv, ShapeInv, TokenInv, RunInv, NEW c \in Threads, Acts(c),
           Site(c) \in RunnerSites, ~requested', ~stopping, current \notin cancelled
    PROVE  \/ Site(c)' \in RunnerSites /\ ~RunFinish(c)
           \/ /\ RunFinish(c) /\ Site(c)' \in {"refreshed", "ended"}
              /\ fr'[c].rerun = (task.life = "RunningReplanPending")
<1>1. fr[c] \in Frames /\ ShapeOf(pc[c], fr[c], lease[c])
  BY ShapeAt
<1>2. Site(c) \in RunSites /\ pc[c] \in Emitting \cup RunnerSites
  BY DEF RunSites, Site, SiteOf
<1>3. fr[c].run = current /\ current # 0 /\ task # None /\ IsRunning(task.life)
  BY <1>2, RunIsCurrent DEF RunInv
<1>4. Live(fr[c].run)
  BY <1>3 DEF Live
<1>5. ASSUME NEW f \in Frames, NEW kind, NEW for, NEW l, NEW ret \in Returns, Moves(c, "emit", Emits(f, kind, for, ret), l)
      PROVE  Site(c)' = ret /\ fr'[c].rerun = f.rerun
  <2>1. pc'[c] = "emit" /\ fr'[c] = Emits(f, kind, for, ret)
    BY <1>5 DEF Moves
  <2>2. fr'[c].ret = ret /\ fr'[c].rerun = f.rerun
    BY <2>1 DEF Emits, Frames
  <2>3. QED
    BY <2>1, <2>2 DEF Site, SiteOf, Emitting
<1>6. RunFinish(c) => pc[c] = "execute"
  BY DEF RunFinish, At
<1>7. CASE EmitAppend(c) \/ EmitPublish(c)
  <2>1. pc[c] \in Emitting
    BY <1>7 DEF EmitAppend, EmitPublish, At, Emitting
  <2>2. QED
    BY <1>6, <1>7, <2>1, EmitStays DEF Emitting
<1>8. CASE RunClaimed(c) /\ pc[c] = "claimed"
  <2>1. task.life \in {"RunningRecoveredReplan", "RunningReplanPending"}
    BY <1>8 DEF RunInv, Site, SiteOf, Emitting
  <2>2. Moves(c, "started", fr[c], lease[c])
    BY <1>3, <1>4, <1>8, <2>1, RunClaimedMoves
  <2>3. pc'[c] = "started"
    BY <2>2 DEF Moves
  <2>4. QED
    BY <1>6, <1>8, <2>3 DEF Site, SiteOf, Emitting, RunnerSites
<1>9. CASE (RunStarted(c) /\ pc[c] = "started") \/ (RunStep(c) /\ ~RunFinish(c))
  <2>1. PICK kind : Moves(c, "emit", Emits(fr[c], kind, fr[c].run, "execute"), lease[c])
    BY <1>9, RunEmitMoves
  <2>2. Site(c)' = "execute"
    BY <1>1, <1>5, <2>1 DEF Returns
  <2>3. QED
    BY <1>6, <1>9, <2>2 DEF RunnerSites
<1>10. CASE RunFinish(c)
  <2>1. PICK ok \in BOOLEAN :
            LET f == [fr[c] EXCEPT !.ok = ok, !.rerun = (task.life = "RunningReplanPending")]
            IN  /\ f \in Frames
                /\ ok => Moves(c, "emit", Emits(f, "context_updated", fr[c].run, "refreshed"), lease[c])
                /\ ~ok => Moves(c, "emit", Emits(f, "task_failed", fr[c].run, "ended"), lease[c])
    BY <1>3, <1>4, <1>10, RunFinishMoves
  <2> DEFINE f == [fr[c] EXCEPT !.ok = ok, !.rerun = (task.life = "RunningReplanPending")]
  <2>2. f \in Frames /\ f.rerun = (task.life = "RunningReplanPending")
    BY <1>1, <2>1 DEF Frames
  <2>3. /\ ok => Moves(c, "emit", Emits(f, "context_updated", fr[c].run, "refreshed"), lease[c])
        /\ ~ok => Moves(c, "emit", Emits(f, "task_failed", fr[c].run, "ended"), lease[c])
    BY <2>1
  <2> HIDE DEF f
  <2>4. Site(c)' \in {"refreshed", "ended"} /\ fr'[c].rerun = f.rerun
    <3>1. CASE ok
      BY <1>5, <2>2, <2>3, <3>1 DEF Returns
    <3>2. CASE ~ok
      BY <1>5, <2>2, <2>3, <3>2 DEF Returns
    <3>3. QED
      BY <3>1, <3>2
  <2>5. QED
    BY <1>10, <2>2, <2>4
<1>11. QED
  BY <1>2, <1>7, <1>8, <1>9, <1>10, RunLabels DEF RunSites, RunnerSites, Emitting

\* The thread that will run a queued replan of a live generation keeps it, or claims it.
LEMMA QueuerStays ==
    ASSUME TypeInv, ShapeInv, TokenInv, SequenceInv, RunInv, NEW c \in Threads, Acts(c),
           Queues(c), ~requested', ~stopping, current \notin cancelled,
           task # None, task.life = "ReplanPending", current' = current
    PROVE  Queues(c)' \/ (RunClaim(c) /\ task'.life = "RunningRecoveredReplan")
<1>1. fr[c] \in Frames /\ ShapeOf(pc[c], fr[c], lease[c]) /\ fr[c].op \in Ops /\ task \in Records
  BY ShapeAt, RecordTypes
<1>2. CASE pc[c] = "run" /\ fr[c].gen = current
  <2>1. RunClaim(c)
    BY <1>2, RunLabels DEF Emitting, RunSites, RunnerSites
  <2>2. /\ fr[c].op \in {"submit", "watch", "recovered"} /\ fr[c].gen # 0
        /\ Works(fr[c].op, Site(c))
    BY <1>1, <1>2 DEF ShapeOf, Site, SiteOf, SitesOf, Emitting, Ops, Works, CancelSites
  <2>3. HasSequence
    BY <1>2, <2>2 DEF SequenceInv
  <2>4. FenceMatches(c) /\ MayStart(task.life)
    BY <1>2 DEF FenceMatches, MayStart
  <2>5. RunAdmitted(c)
    BY <1>2, <2>2, <2>3, <2>4, ClaimIsCurrent DEF RunAdmitted, HasSequence
  <2>6. task' = [task EXCEPT !.life = Started(@)]
    BY <2>1, <2>5, RunClaimMoves
  <2>7. task'.life = "RunningRecoveredReplan"
    BY <1>1, <2>6 DEF Records, Started
  <2>8. QED
    BY <2>1, <2>7
<1>3. CASE Site(c) \in {"refreshed", "ended"} /\ fr[c].rerun
  <2>1. Site(c) \in RunSites /\ pc[c] \in Emitting \cup {"refreshed", "ended"}
    BY <1>3 DEF RunSites, Site, SiteOf
  <2>2. fr[c].run = current /\ fr[c].gen = current /\ OwnsRerun(fr[c])
    BY <1>3, <2>1, RunIsCurrent DEF RunInv, OwnsRerun
  <2>3. ASSUME Moves(c, "run", RerunFrame(fr[c]), [lease[c] EXCEPT !.run = 0])
        PROVE  Queues(c)'
    <3>1. pc'[c] = "run" /\ fr'[c] = RerunFrame(fr[c])
      BY <2>3 DEF Moves
    <3>2. fr'[c].gen = fr[c].gen
      BY <1>1, <3>1 DEF RerunFrame, Frames
    <3>3. QED
      BY <2>2, <3>1, <3>2 DEF Queues
  <2>4. CASE EmitAppend(c) \/ EmitPublish(c)
    <3>1. Site(c)' = Site(c) /\ fr'[c].rerun = fr[c].rerun
      BY <2>4, EmitStays
    <3>2. QED
      BY <1>3, <3>1 DEF Queues
  <2>5. CASE RunRefreshed(c)
    BY <2>2, <2>3, <2>5, RunEndMoves
  <2>6. CASE RunEnded(c) /\ pc[c] = "ended"
    <3>1. ~fr[c].ok /\ fr[c].res # "false"
      BY <1>3, <2>2, <2>6 DEF RunInv, Site, SiteOf, Emitting
    <3>2. QED
      BY <2>2, <2>3, <2>6, <3>1, RunEndMoves
  <2>7. QED
    BY <2>1, <2>4, <2>5, <2>6, RunLabels DEF RunSites, RunnerSites, Emitting
<1>4. QED
  BY <1>2, <1>3 DEF Queues
\* A generation is retired with a terminal record, or with none.
LEMMA RetiredIsTerminal ==
    ASSUME TypeInv, ShapeInv, SequenceInv, NEW c \in Threads, Acts(c), GenRetired(c), task' # None
    PROVE  task'.life = "Cancelled"
<1>1. fr[c] \in Frames /\ (task # None => task \in Records)
  BY ShapeAt, RecordTypes
<1>2. fr[c].gen # 0
  <2>1. Site(c) \in Ending
    BY DEF GenRetired, CancelPublish, RollbackFinal, At, Site, SiteOf, Emitting, Ending, CancelSites, RollbackSites
  <2>2. QED
    BY <2>1, SiteGen
<1>3. current # 0 /\ current' = 0
  BY <1>2 DEF GenRetired
<1>4. CASE CancelPublish(c)
  <2>1. task # None /\ task' = [task EXCEPT !.life = "Cancelled", !.seq = fr[c].seq]
    BY <1>3, <1>4 DEF CancelPublish, Retire, tokens
  <2>2. QED
    BY <1>1, <2>1 DEF Records
<1>5. CASE RollbackFinal(c)
  <2> DEFINE old == fr[c].replaced
             n == IF (IF task = None THEN 0 ELSE task.seq) > old.seq
                  THEN (IF task = None THEN 0 ELSE task.seq) ELSE old.seq
  <2>1. old \in Records \cup {None} /\ (old # None => old.life = "Cancelled")
    BY <1>1 DEF Frames, SequenceInv
  <2>2. task' = IF old = None THEN None ELSE [old EXCEPT !.seq = n]
    BY <1>3, <1>5 DEF RollbackFinal
  <2> HIDE DEF n, old
  <2>3. QED
    BY <2>1, <2>2 DEF Records
<1>6. QED
  BY <1>4, <1>5 DEF GenRetired

\* Without a generation, nothing is claimed or queued.
LEMMA NoWorkWithoutGeneration ==
    ASSUME TypeInv, ShapeInv, TokenInv, OwnerInv, current = 0, ~requested, ~stopping, task # None
    PROVE  ~IsRunning(task.life) /\ task.life # "ReplanPending"
<1>1. current \notin cancelled
  BY DEF TypeInv, TokensOK
<1>2. \A c \in Threads : Site(c) \notin RunSites
  BY RunIsCurrent
<1>3. \A c \in Threads : pc[c] = "run" => fr[c].gen # 0
  <2>1. SUFFICES ASSUME NEW c \in Threads, pc[c] = "run" PROVE fr[c].gen # 0
    OBVIOUS
  <2>2. fr[c].op \in Ops /\ ShapeOf(pc[c], fr[c], lease[c])
    BY ShapeAt
  <2>3. QED
    BY <2>1, <2>2 DEF ShapeOf, SiteOf, SitesOf, Emitting, Ops, CancelSites
<1>4. QED
  BY <1>1, <1>2, <1>3 DEF OwnerInv, Queues, RunSites

\* Every step leaves pending work of a live generation with an owner.
LEMMA OwnerActs ==
    ASSUME TypeInv, ShapeInv, ShapeInv', TypeInv', TokenInv, SequenceInv, RunInv, OwnerInv, NEW c \in Threads, Acts(c)
    PROVE  OwnerInv'
<1>1. SUFFICES ASSUME ~requested', ~stopping', current' \notin cancelled', task' # None
               PROVE  /\ IsRunning(task'.life) => \E d \in Threads : Site(d)' \in RunnerSites
                      /\ task'.life = "ReplanPending" => \E d \in Threads : Queues(d)'
  BY DEF OwnerInv
<1>2. ~requested /\ ~stopping
  <2>1. requested \in BOOLEAN /\ requested' \in BOOLEAN
    BY FlagSteps DEF TypeInv, FlagsOK
  <2>2. RunOwned(c) => ~requested
    BY <1>1, <2>1 DEF RunOwned
  <2>3. QED
    BY <1>1, <2>1, <2>2, FlagSteps
<1>3. cancelled \subseteq cancelled'
  BY TokenTypes
<1>4. \A d \in Threads \ {c} : Site(d)' = Site(d) /\ pc'[d] = pc[d] /\ fr'[d] = fr[d]
  BY EveryMove DEF Others, Site
<1>5. ~(CancelRequest(c) /\ current' \in cancelled')
  BY <1>1
<1>6. CASE task'.life \in {"Idle", "Cancelled"}
  BY <1>6 DEF IsRunning
<1>7. CASE GenRetired(c)
  BY <1>1, <1>6, <1>7, RetiredIsTerminal
<1>8. CASE task = None
  BY <1>1, <1>5, <1>6, <1>7, <1>8, LifeSteps
<1>9. CASE GenMade /\ task # None
  <2>1. current = 0 /\ ~IsRunning(task.life) /\ task.life # "ReplanPending"
    BY <1>2, <1>9, NoWorkWithoutGeneration DEF GenMade
  <2>2. ~(RunClaim(c) /\ RunAdmitted(c))
    BY <2>1, ClaimIsCurrent DEF RunClaim, At, RunAdmitted
  <2>3. ~RunFinish(c)
    BY <2>1, RunIsCurrent DEF RunFinish, At, Site, SiteOf, Emitting, RunSites, RunnerSites
  <2>4. ~Live(fr[c].gen)
    BY <2>1 DEF Live
  <2>5. QED
    BY <1>1, <1>5, <1>6, <1>7, <2>1, <2>2, <2>3, <2>4, LifeSteps
<1>10. CASE GenKept /\ task # None
  <2>1. current' = current /\ current \notin cancelled
    BY <1>1, <1>3, <1>10 DEF GenKept
  <2>2. /\ IsRunning(task.life) => \E d \in Threads : Site(d) \in RunnerSites
        /\ task.life = "ReplanPending" => \E d \in Threads : Queues(d)
    BY <1>2, <1>10, <2>1 DEF OwnerInv
  <2>3. \A d \in Threads \ {c} : Queues(d)' = Queues(d)
    BY <1>4, <2>1 DEF Queues
  <2>4. task.life \in Lifecycles
    BY <1>10, LifeTypes
  <2>5. Site(c) \in RunnerSites =>
            \/ Site(c)' \in RunnerSites /\ ~RunFinish(c)
            \/ /\ RunFinish(c) /\ Site(c)' \in {"refreshed", "ended"}
               /\ fr'[c].rerun = (task.life = "RunningReplanPending")
    BY <1>1, <1>2, <2>1, RunnerStays
  <2>6. CASE RunFinish(c) /\ task'.life = Finished(task.life)
    <3>1. ~IsRunning(task'.life) /\ (task'.life = "ReplanPending" => task.life = "RunningReplanPending")
      BY <2>6 DEF Finished, IsRunning
    <3>2. Site(c) \in RunnerSites
      BY <2>6 DEF RunFinish, At, Site, SiteOf, Emitting, RunnerSites
    <3>3. task'.life = "ReplanPending" => Queues(c)'
      BY <2>5, <2>6, <3>1, <3>2 DEF Queues
    <3>4. QED
      BY <3>1, <3>3
  <2>7. CASE task'.life = task.life
    <3>1. ASSUME IsRunning(task'.life) PROVE \E d \in Threads : Site(d)' \in RunnerSites
      <4>1. PICK d \in Threads : Site(d) \in RunnerSites
        BY <2>2, <2>7, <3>1
      <4>2. ASSUME RunFinish(c), d = c PROVE FALSE
        <5>1. Live(fr[c].run) /\ task \in Records
          <6>1. Site(c) \in RunSites
            BY <4>1, <4>2 DEF RunSites
          <6>2. QED
            BY <1>10, <2>1, <6>1, RunIsCurrent, RecordTypes DEF Live
        <5>2. task' = [task EXCEPT !.life = Finished(@)]
          BY <1>10, <2>7, <3>1, <4>2, <5>1, RunFinishMoves
        <5>3. task'.life = Finished(task.life)
          BY <5>1, <5>2 DEF Records
        <5>4. QED
          BY <3>1, <5>3 DEF Finished, IsRunning
      <4>3. QED
        BY <1>4, <2>5, <4>1, <4>2
    <3>2. ASSUME task'.life = "ReplanPending" PROVE \E d \in Threads : Queues(d)'
      <4>1. PICK d \in Threads : Queues(d)
        BY <2>2, <2>7, <3>2
      <4>2. CASE d # c
        BY <2>3, <4>1, <4>2
      <4>3. CASE d = c
        BY <1>1, <1>2, <1>10, <2>1, <2>7, <3>2, <4>1, <4>3, QueuerStays
      <4>4. QED
        BY <4>2, <4>3
    <3>3. QED
      BY <3>1, <3>2
  <2>8. CASE RunClaim(c) /\ task'.life = Started(task.life) /\ pc'[c] \in {"claimed", "started"}
    <3>1. Site(c)' \in RunnerSites
      BY <2>8 DEF Site, SiteOf, Emitting, RunnerSites
    <3>2. task'.life # "ReplanPending"
      BY <2>8 DEF Started
    <3>3. QED
      BY <3>1, <3>2
  <2>9. CASE WatchReplan(c) /\ Live(fr[c].gen) /\ task'.life = Replanned(task.life) /\ task'.life # task.life
    <3>1. pc[c] = "replan"
      BY <2>9 DEF WatchReplan, At
    <3>2. Site(c) \notin RunnerSites
      BY <3>1 DEF Site, SiteOf, Emitting, RunnerSites
    <3>3. CASE task.life = "Idle"
      <4>1. task'.life = "ReplanPending"
        BY <2>9, <3>3 DEF Replanned
      <4>2. Moves(c, "run", [NoFrame EXCEPT !.op = "watch", !.gen = fr[c].gen], lease[c])
        BY <1>1, <2>9, <3>3, WatchMoves
      <4>3. pc'[c] = "run" /\ fr'[c] = [NoFrame EXCEPT !.op = "watch", !.gen = fr[c].gen]
        BY <4>2 DEF Moves
      <4>4. fr'[c].gen = current'
        BY <2>1, <2>9, <4>3 DEF NoFrame, Live
      <4>5. Queues(c)'
        BY <4>3, <4>4 DEF Queues
      <4>6. QED
        BY <4>1, <4>5 DEF IsRunning
    <3>4. CASE IsRunning(task.life)
      <4>1. task'.life = "RunningReplanPending"
        BY <2>9, <3>4 DEF Replanned, IsRunning
      <4>2. PICK d \in Threads : Site(d) \in RunnerSites
        BY <2>2, <3>4
      <4>3. Site(d)' \in RunnerSites
        BY <1>4, <3>2, <4>2
      <4>4. QED
        BY <4>1, <4>3
    <3>5. QED
      BY <2>4, <2>9, <3>3, <3>4 DEF Replanned, IsRunning, Lifecycles
  <2>10. WatchesAdded(c) => task'.life = "Idle"
    BY DEF WatchesAdded, Record
  <2>11. QED
    BY <1>1, <1>5, <1>6, <1>7, <1>10, <2>6, <2>7, <2>8, <2>9, <2>10, LifeSteps
<1>11. QED
  BY <1>7, <1>8, <1>9, <1>10, GenSteps

\* A shutdown stops the daemon; nothing else of the environment matters.
LEMMA OwnerEnvironment ==
    ASSUME TypeInv, OwnerInv, Environment
    PROVE  OwnerInv'
<1>1. /\ UNCHANGED <<threads, task, current, requested>> /\ stopping' \in {stopping, TRUE}
      /\ stopping' = stopping => cancelled' = cancelled
  BY EnvironmentSteps
<1>2. \A c \in Threads : Site(c)' = Site(c) /\ fr'[c] = fr[c] /\ pc'[c] = pc[c]
  BY <1>1 DEF threads, Site
<1>3. stopping \in BOOLEAN
  BY DEF TypeInv, FlagsOK
<1>4. \A c \in Threads : Queues(c)' = Queues(c)
  BY <1>1, <1>2 DEF Queues
<1>5. CASE stopping'
  BY <1>5 DEF OwnerInv
<1>6. CASE ~stopping'
  <2>1. stopping' = stopping \/ stopping' = TRUE
    BY <1>1
  <2>2. stopping' = stopping
    BY <1>6, <2>1, Zenon
  <2>3. ~stopping
    BY <1>6, <2>2, Zenon
  <2>4. UNCHANGED <<task, current, requested, cancelled>> /\ ~stopping
    BY <1>1, <2>2, <2>3
  <2>5. (\E c \in Threads : Site(c)' \in RunnerSites) <=> (\E c \in Threads : Site(c) \in RunnerSites)
    BY <1>2
  <2>6. (\E c \in Threads : Queues(c)') <=> (\E c \in Threads : Queues(c))
    BY <1>4
  <2>7. QED
    BY <2>4, <2>5, <2>6 DEF OwnerInv
<1>7. QED
  BY <1>5, <1>6
-----------------------------------------------------------------------------
(* The initial states *)

\* The background worker that startup gives a recovered replan.
RecoveredFrame == [NoFrame EXCEPT !.op = "recovered", !.gen = 1, !.fence = "RecoveredReplan"]

\* The fields of the two initial frames.
LEMMA InitFrames ==
    /\ NoFrame.op = "none" /\ NoFrame.gen = 0 /\ NoFrame.replaced = None
    /\ RecoveredFrame.op = "recovered" /\ RecoveredFrame.gen = 1 /\ RecoveredFrame.replaced = None
    /\ RecoveredFrame.fence = "RecoveredReplan" /\ RecoveredFrame \in Frames
<1>1. NoFrame \in Frames /\ "recovered" \in Ops
  BY NoFrameType DEF Ops
<1>2. /\ NoFrame.op = "none" /\ NoFrame.gen = 0 /\ NoFrame.replaced = None
  BY DEF NoFrame
<1>3. /\ RecoveredFrame.op = "recovered" /\ RecoveredFrame.gen = 1 /\ RecoveredFrame.fence = "RecoveredReplan"
      /\ RecoveredFrame.replaced = NoFrame.replaced /\ RecoveredFrame \in Frames
  BY <1>1 DEF RecoveredFrame, Frames
<1>4. QED
  BY <1>2, <1>3

\* Threads start idle, but for the worker of a recovered replan.
LEMMA InitThreads ==
    ASSUME Init
    PROVE  /\ ThreadOK
           /\ \A c \in Threads :
                 /\ lease[c] = NoLease
                 /\ \/ pc[c] = "idle" /\ fr[c] = NoFrame
                    \/ pc[c] = "run" /\ fr[c] = RecoveredFrame /\ limits.recovered
           /\ limits.recovered => \E c \in Threads : pc[c] = "run" /\ fr[c] = RecoveredFrame
<1>1. NoFrame \in Frames /\ NoLease \in Leases /\ RecoveredFrame \in Frames /\ {"idle", "run"} \subseteq Labels
  BY NoFrameType, InitFrames DEF Labels
<1>2. lease = [c \in Threads |-> NoLease]
  BY DEF Init
<1>3. CASE ~limits.recovered
  <2>1. pc = [c \in Threads |-> "idle"] /\ fr = [c \in Threads |-> NoFrame]
    BY <1>3 DEF Init, Idle
  <2>2. QED
    BY <1>1, <1>2, <1>3, <2>1 DEF ThreadOK, PcOK, FrOK, LeaseOK
<1>4. CASE limits.recovered
  <2>1. PICK b \in Threads :
             /\ pc = [Idle EXCEPT ![b] = "run"]
             /\ fr = [[c \in Threads |-> NoFrame] EXCEPT
                        ![b].op = "recovered", ![b].gen = 1, ![b].fence = "RecoveredReplan"]
    BY <1>4 DEF Init
  <2>2. pc = [c \in Threads |-> IF c = b THEN "run" ELSE "idle"]
    BY <2>1 DEF Idle
  <2>3. fr = [c \in Threads |-> IF c = b THEN RecoveredFrame ELSE NoFrame]
    BY <2>1 DEF RecoveredFrame
  <2>4. QED
    BY <1>1, <1>2, <1>4, <2>2, <2>3 DEF ThreadOK, PcOK, FrOK, LeaseOK
<1>5. QED
  BY <1>3, <1>4

\* The initial record and its generation.
LEMMA InitGlobals ==
    ASSUME Init
    PROVE  /\ limits \in Scenarios /\ limits.recovered \in BOOLEAN /\ MaxGenerations \in Nat
           /\ current = (IF limits.recovered THEN 1 ELSE 0) /\ nextId = current /\ current <= MaxGenerations
           /\ task = (IF limits.recovered THEN Record("ReplanPending", WatchIds, TRUE, 1) ELSE None)
           /\ task \in Records \cup {None} /\ (task # None <=> limits.recovered)
<1>1. limits \in Scenarios /\ limits.recovered \in BOOLEAN /\ MaxGenerations \in Nat
  BY AdmissionAssumption DEF Init
<1>2. limits.calls \in Nat /\ 2 * limits.calls + (IF limits.recovered THEN 1 ELSE 0) <= MaxGenerations
  BY <1>1, AdmissionAssumption
<1>3. current = (IF limits.recovered THEN 1 ELSE 0) /\ nextId = current
  BY DEF Init
<1>4. task = (IF limits.recovered THEN Record("ReplanPending", WatchIds, TRUE, 1) ELSE None)
  BY DEF Init
<1>5. Record("ReplanPending", WatchIds, TRUE, 1) \in Records
  BY DEF Record, Records, Lifecycles
<1>6. current <= MaxGenerations
  BY <1>1, <1>2, <1>3
<1>7. QED
  BY <1>1, <1>3, <1>4, <1>5, <1>6, NoneIsNoRecord

\* The types hold initially.
LEMMA InitTypes ==
    ASSUME Init
    PROVE  TypeInv
<1>1. TaskOK /\ LimitsOK
  BY InitGlobals DEF TaskOK, LimitsOK
<1>2. TokensOK
  <2>1. cancelled = {}
    BY DEF Init
  <2>2. QED
    <3>1. CASE limits.recovered
      BY <2>1, <3>1, InitGlobals DEF TokensOK
    <3>2. CASE ~limits.recovered
      BY <2>1, <3>2, InitGlobals DEF TokensOK
    <3>3. QED
      BY <3>1, <3>2
<1>3. WatchesOK /\ HandlesOK
  BY InitGlobals DEF Init, WatchesOK, HandlesOK
<1>4. ProcOK /\ FlagsOK
  BY DEF Init, ProcOK, FlagsOK
<1>5. FiredOK
  <2>1. CASE limits.recovered
    BY <2>1, InitGlobals DEF Init, FiredOK
  <2>2. CASE ~limits.recovered
    BY <2>2 DEF Init, FiredOK
  <2>3. QED
    BY <2>1, <2>2
<1>6. LogOK
  <2>1. Entry(0, "task_started", TRUE) \in Entries
    BY DEF Entry, Entries, Kinds, EventKinds
  <2> DEFINE e == Entry(0, "task_started", TRUE)
  <2>2. lane = None /\ log = IF limits.recovered THEN <<e>> ELSE <<>>
    BY DEF Init
  <2>3. e \in Entries
    BY <2>1
  <2> HIDE DEF e
  <2>4. CASE limits.recovered
    <3>1. log = <<e>>
      BY <2>2, <2>4
    <3>2. QED
      BY <2>2, <2>3, <3>1 DEF LogOK
  <2>5. CASE ~limits.recovered
    BY <2>2, <2>5 DEF LogOK
  <2>6. QED
    BY <2>4, <2>5
<1>7. GenOK
  <2>1. \A c \in Threads : fr[c].gen = 0 \/ (fr[c].gen = 1 /\ limits.recovered)
    BY InitThreads, InitFrames
  <2>2. QED
    <3>1. nextId = IF limits.recovered THEN 1 ELSE 0
      BY InitGlobals
    <3>2. \A c \in Threads : fr[c].gen <= nextId
      BY <2>1, <3>1
    <3>3. QED
      BY <3>2 DEF GenOK
<1>8. QED
  BY <1>1, <1>2, <1>3, <1>4, <1>5, <1>6, <1>7, InitThreads DEF TypeInv, ThreadOK

\* So does the shape,
LEMMA InitShape ==
    ASSUME Init
    PROVE  ShapeInv
<1>1. SUFFICES ASSUME NEW c \in Threads PROVE ShapeOf(pc[c], fr[c], lease[c])
  BY DEF ShapeInv, Shape
<1>2. lease[c].op = 0 /\ lease[c].launch = 0 /\ lease[c].run = 0 /\ lease[c].event = 0
  BY InitThreads DEF NoLease
<1>3. CASE pc[c] = "idle" /\ fr[c] = NoFrame
  <2>1. fr[c].op = "none" /\ SiteOf(pc[c], fr[c]) = "idle"
    BY <1>3 DEF NoFrame, SiteOf, Emitting
  <2>2. "idle" \in SitesOf("none")
    BY DEF SitesOf
  <2>3. QED
    BY <1>2, <1>3, <2>1, <2>2, InitThreads DEF ShapeOf, Emitting, RunSites, RunnerSites
<1>4. CASE pc[c] = "run" /\ fr[c] = RecoveredFrame
  <2>1. /\ fr[c].op = "recovered" /\ fr[c].gen = 1 /\ fr[c].fence = "RecoveredReplan"
        /\ SiteOf(pc[c], fr[c]) = "run"
    BY <1>4, InitFrames DEF SiteOf, Emitting
  <2>2. "run" \in SitesOf("recovered") /\ FenceOf("recovered") = "RecoveredReplan"
    BY DEF SitesOf, FenceOf
  <2>3. QED
    BY <1>2, <1>4, <2>1, <2>2 DEF ShapeOf, Emitting, RunSites, RunnerSites
<1>5. QED
  BY <1>3, <1>4, InitThreads

\* Every thread is idle or about to run the recovered replan.
LEMMA InitSites ==
    ASSUME Init, NEW c \in Threads
    PROVE  /\ Site(c) = pc[c] /\ pc[c] \in {"idle", "run"}
           /\ fr[c].replaced = None /\ fr[c].op \in {"none", "recovered"}
           /\ pc[c] = "run" => limits.recovered /\ fr[c].gen = 1
           /\ fr[c].op = "recovered" => pc[c] = "run"
BY InitThreads, InitFrames DEF Site, SiteOf, Emitting

\* the lane and the tokens,
LEMMA InitTokens ==
    ASSUME Init
    PROVE  LaneInv /\ TokenInv
<1>1. lane = None /\ children = {} /\ None \notin Threads
  BY AdmissionAssumption DEF Init
<1>2. LaneInv
  BY <1>1, InitSites DEF LaneInv, Publishing
<1>3. GenerationHasRecord
  BY InitGlobals DEF GenerationHasRecord
<1>4. LeasesAreCurrent
  BY InitThreads DEF LeasesAreCurrent, NoLease
<1>5. EndingIsCancelled /\ DoomedIsQuiesced /\ PublishedIsCurrent
  BY InitSites DEF EndingIsCancelled, DoomedIsQuiesced, PublishedIsCurrent, Ending, Doomed, CancelSites, RollbackSites
<1>6. QED
  BY <1>1, <1>2, <1>3, <1>4, <1>5 DEF TokenInv

\* processes, watches, terminal records and sequences,
LEMMA InitRecords ==
    ASSUME Init
    PROVE  ChildInv /\ WatchInv /\ TerminalInv /\ SequenceInv
<1>1. ChildInv
  <2>1. \A g \in Generations : proc[g] = "none"
    BY DEF Init
  <2>2. QED
    BY <2>1, InitSites DEF ChildInv, OwnsChild, LaunchOps
<1>2. task # None => task.life = "ReplanPending" /\ task.ids = WatchIds /\ task.sequence = TRUE
  BY InitGlobals DEF Record
<1>3. WatchInv
  <2>1. watches = (IF limits.recovered THEN WatchIds ELSE {}) /\ \A w \in WatchIds : handles[w] = current
    BY DEF Init
  <2>2. QED
    <3>1. current = 0 => watches = {}
      BY <2>1, InitGlobals
    <3>2. task # None => watches \subseteq task.ids /\ task.life # "Cancelled"
      BY <1>2, <2>1
    <3>3. \A w \in WatchIds : handles[w] # 0 => handles[w] = current /\ w \in watches
      BY <2>1, InitGlobals
    <3>4. \A c \in Threads : Site(c) \notin CancelSites
      BY InitSites DEF CancelSites
    <3>5. QED
      BY <3>1, <3>2, <3>3, <3>4 DEF WatchInv
<1>4. TerminalInv
  BY <1>2, InitSites DEF TerminalInv, CancelledHasNoGeneration
<1>5. SequenceInv
  <2>1. watches # {} => limits.recovered
    BY DEF Init
  <2>2. \A m \in fired : limits.recovered
    BY DEF Init
  <2>3. limits.recovered => HasSequence
    BY <1>2, InitGlobals DEF HasSequence
  <2>4. \A c \in Threads : Works(fr[c].op, Site(c)) => limits.recovered
    BY InitSites DEF Works
  <2>5. QED
    BY <2>1, <2>2, <2>3, <2>4, InitSites DEF SequenceInv
<1>6. QED
  BY <1>1, <1>3, <1>4, <1>5

\* the log of a recovered task,
LEMMA InitLog ==
    ASSUME Init
    PROVE  LogInv
<1>1. SUFFICES ASSUME limits.recovered PROVE RecordStays /\ LogOrdered /\ SeqBounded
  BY DEF LogInv
<1>2. log = <<Entry(0, "task_started", TRUE)>>
  BY <1>1 DEF Init
<1>3. DOMAIN log = {1} /\ Len(log) = 1 /\ log[1].gen = 0 /\ log[1].kind = "task_started"
  BY <1>2 DEF Entry
<1>4. task # None /\ task.seq = 1 /\ nextId = 1
  BY <1>1, InitGlobals DEF Record
<1>5. RecordStays
  BY <1>4, InitSites DEF RecordStays
<1>6. LogOrdered
  <2>1. LogOrdersGenerations
    BY <1>3 DEF LogOrdersGenerations
  <2>2. QED
    BY <1>3, <1>4, <2>1 DEF LogOrdered
<1>7. SeqBounded
  BY <1>3, <1>4, InitSites DEF SeqBounded, Publishing
<1>8. QED
  BY <1>5, <1>6, <1>7

\* and the runner and its owner.
LEMMA InitRuns ==
    ASSUME Init
    PROVE  RunInv /\ OwnerInv
<1>1. RunInv
  BY InitSites DEF RunInv, RunSites, RunnerSites
<1>2. limits.recovered => task.life = "ReplanPending" /\ current = 1 /\ \E c \in Threads : pc[c] = "run"
  BY InitGlobals, InitThreads DEF Record
<1>3. OwnerInv
  <2>1. CASE limits.recovered
    <3>1. PICK c \in Threads : pc[c] = "run"
      BY <1>2, <2>1
    <3>2. Queues(c)
      BY <1>2, <2>1, <3>1, InitSites DEF Queues
    <3>3. QED
      BY <1>2, <2>1, <3>2 DEF OwnerInv, IsRunning
  <2>2. CASE ~limits.recovered
    BY <2>2, InitGlobals DEF OwnerInv
  <2>3. QED
    BY <2>1, <2>2
<1>4. QED
  BY <1>1, <1>3
-----------------------------------------------------------------------------
(* The inductive invariant and the theorems *)

\* All layers together.
AdmissionInv ==
    /\ TypeInv /\ ShapeInv /\ LaneInv /\ TokenInv /\ ChildInv /\ WatchInv
    /\ TerminalInv /\ LogInv /\ SequenceInv /\ RunInv /\ OwnerInv

\* The invariant is inductive: the environment and every step of a thread keep all of it.
LEMMA AdmissionInvariant == Spec => []AdmissionInv
<1>1. Init => AdmissionInv
  BY InitTypes, InitShape, InitTokens, InitRecords, InitLog, InitRuns DEF AdmissionInv
<1>2. AdmissionInv /\ [Next]_vars => AdmissionInv'
  <2>1. SUFFICES ASSUME AdmissionInv, [Next]_vars PROVE AdmissionInv'
    OBVIOUS
  <2>2. /\ TypeInv /\ ShapeInv /\ LaneInv /\ TokenInv /\ ChildInv /\ WatchInv
        /\ TerminalInv /\ LogInv /\ SequenceInv /\ RunInv /\ OwnerInv
    BY <2>1 DEF AdmissionInv
  <2>3. UNCHANGED limits
    BY <2>1, NextSteps
  <2>4. CASE Environment
    <3>1. TypeInv' /\ ShapeInv' /\ TokenInv' /\ LaneInv'
      BY <2>2, <2>3, <2>4, TypeEnvironment, TokenEnvironment
    <3>2. ChildInv' /\ WatchInv' /\ TerminalInv' /\ LogInv'
      BY <2>2, <2>3, <2>4, ChildEnvironment, WatchEnvironment, TerminalEnvironment, LogEnvironment
    <3>3. SequenceInv' /\ RunInv' /\ OwnerInv'
      BY <2>2, <2>4, SequenceEnvironment, RunEnvironment, OwnerEnvironment
    <3>4. QED
      BY <3>1, <3>2, <3>3 DEF AdmissionInv
  <2>5. ASSUME NEW c \in Threads, Acts(c) PROVE AdmissionInv'
    <3>1. TypeInv' /\ ShapeInv' /\ LaneInv'
      BY <2>2, <2>3, <2>5, TypeActs, ShapeActs, LaneActs
    <3>2. TokenInv'
      BY <2>2, <2>5, <3>1, TokenActs
    <3>3. ChildInv' /\ WatchInv' /\ TerminalInv' /\ LogInv'
      BY <2>2, <2>3, <2>5, <3>1, ChildActs, WatchActs, TerminalActs, LogActs
    <3>4. SequenceInv' /\ RunInv' /\ OwnerInv'
      BY <2>2, <2>5, <3>1, <3>2, <3>3, SequenceActs, RunActs, OwnerActs
    <3>5. QED
      BY <3>1, <3>2, <3>3, <3>4 DEF AdmissionInv
  <2>6. QED
    BY <2>1, <2>4, <2>5, NextSteps
<1>3. QED
  BY <1>1, <1>2, PTL DEF Spec

\* The type invariant of the model is part of it.
LEMMA TypesAreOK ==
    ASSUME AdmissionInv
    PROVE  TypeOK
<1>1. TypeInv /\ ShapeInv /\ LaneInv /\ WatchInv
  BY DEF AdmissionInv
<1>2. /\ task \in Records \cup {None} /\ watches \subseteq WatchIds
      /\ nextId \in 0..MaxGenerations /\ nextId \in Nat /\ current \in 0..nextId /\ cancelled \subseteq 1..nextId
      /\ children \subseteq Generations /\ proc \in [Generations -> {"none", "gated", "running", "dead"}]
      /\ requested \in BOOLEAN /\ stopping \in BOOLEAN
      /\ pc \in [Threads -> Labels]
  BY <1>1 DEF TypeInv, TaskOK, WatchesOK, TokensOK, ProcOK, FlagsOK, PcOK
<1>3. handles \in [WatchIds -> 0..nextId]
  <2>1. handles \in [WatchIds -> Nat] /\ \A w \in WatchIds : handles[w] \in {0, current}
    BY <1>1 DEF TypeInv, HandlesOK, WatchInv
  <2>2. QED
    BY <1>2, <2>1
<1>4. fired \subseteq WatchIds \X Generations
  <2>1. fired \subseteq WatchIds \X (1..nextId)
    BY <1>1 DEF TypeInv, FiredOK
  <2>2. 1..nextId \subseteq Generations
    BY <1>2, AdmissionAssumption DEF Generations
  <2>3. QED
    BY <2>1, <2>2
<1>5. ASSUME NEW c \in Threads
      PROVE  /\ fr[c].gen \in 0..nextId
             /\ fr[c].replaced \in Records \cup {None}
             /\ fr[c].fence \in {"Unfenced", "Initial", "RecoveredReplan"}
             /\ pc[c] \in {"emit_publish", "cancel_publish"} <=> (lane = c /\ pc[c] # "rollback_final")
  <2>1. fr[c] \in Frames
    BY <1>1, ShapeAt
  <2>2. /\ fr[c].gen \in Nat /\ fr[c].replaced \in Records \cup {None}
        /\ fr[c].fence \in {"Unfenced", "Initial", "RecoveredReplan"}
    BY <2>1 DEF Frames
  <2>3. fr[c].gen <= nextId
    BY <1>1 DEF TypeInv, GenOK
  <2>4. pc[c] \in {"emit_publish", "cancel_publish"} <=> (lane = c /\ pc[c] # "rollback_final")
    BY <1>1 DEF LaneInv, Publishing
  <2>5. QED
    BY <1>2, <2>2, <2>3, <2>4
<1>6. QED
  BY <1>2, <1>3, <1>4, <1>5 DEF TypeOK

\* Whatever belongs to a generation ends before the generation does: leases, watchers
\* and processes are those of the active one, and a terminal record has none.
THEOREM NothingOutlivesIt == Spec => []NothingOutlivesGeneration
<1>1. ASSUME AdmissionInv PROVE NothingOutlivesGeneration
  <2>1. TypeInv /\ ShapeInv /\ TokenInv /\ ChildInv /\ WatchInv /\ TerminalInv
    BY <1>1 DEF AdmissionInv
  <2>2. TypeOK
    BY <1>1, TypesAreOK
  <2>3. LeasesAreCurrent /\ GenerationHasRecord /\ children \subseteq {current}
    BY <2>1 DEF TokenInv
  <2>4. HandleIsCurrent
    BY <2>1, <2>3 DEF WatchInv, HandleIsCurrent, GenerationHasRecord
  <2>5. NoOrphanProcess
    BY <2>1, <2>3 DEF ChildInv, NoOrphanProcess
  <2>6. CancelledHasNoGeneration
    BY <2>1 DEF TerminalInv
  <2>7. QED
    BY <2>2, <2>3, <2>4, <2>5, <2>6 DEF NothingOutlivesGeneration
<1>2. QED
  BY <1>1, AdmissionInvariant, PTL

\* append_task_event and cancel_task append and publish an event in the generation that made
\* it: generations follow each other in the log, nothing of a generation comes after its
\* task_cancelled, and the record is never ahead of the log.  An append whose sync failed may
\* leave its frame; after such a task_cancelled a repeated cancellation appends another one.
THEOREM EventsAreKept == Spec => []EventsKeepGenerations
<1>1. ASSUME AdmissionInv PROVE EventsKeepGenerations
  <2>1. TypeInv /\ ShapeInv /\ TokenInv /\ LogInv
    BY <1>1 DEF AdmissionInv
  <2>2. EventPublishedInOwnGeneration
    <3>1. ASSUME NEW c \in Threads, At(c, "emit_publish") PROVE task # None /\ current = lease[c].event
      <4>1. ShapeOf(pc[c], fr[c], lease[c])
        BY <2>1, ShapeAt
      <4>2. lease[c].event # 0
        BY <3>1, <4>1 DEF ShapeOf, At
      <4>3. QED
        BY <2>1, <4>2 DEF TokenInv, LeasesAreCurrent, GenerationHasRecord
    <3>2. QED
      BY <3>1 DEF EventPublishedInOwnGeneration
  <2>3. LogOrdersGenerations /\ RegistryNotAhead
    <3>1. limits.recovered => LogOrdersGenerations /\ task.seq <= Len(log)
      BY <2>1 DEF LogInv, LogOrdered, SeqBounded
    <3>2. LogOrdersGenerations
      BY <3>1 DEF LogOrdersGenerations, LogIsKept
    <3>3. RegistryNotAhead
      BY <3>1 DEF RegistryNotAhead, LogIsKept
    <3>4. QED
      BY <3>2, <3>3
  <2>4. QED
    BY <2>2, <2>3 DEF EventsKeepGenerations
<1>2. QED
  BY <1>1, AdmissionInvariant, PTL

\* Work that a live generation claimed or queued has a thread that will run it,
\* unless the daemon was asked to stop.
THEOREM WorkIsOwned == Spec => []PendingWorkHasOwner
<1>1. ASSUME AdmissionInv PROVE PendingWorkHasOwner
  <2>1. TypeInv /\ ShapeInv /\ OwnerInv
    BY <1>1 DEF AdmissionInv
  <2>2. SUFFICES ASSUME task # None,
                        task.life \in {"ReplanPending", "Running", "RunningRecoveredReplan", "RunningReplanPending"},
                        ~requested, ~stopping, current \notin cancelled
                 PROVE  \E c \in Threads : pc[c] \in Owners /\ fr[c].op \in {"submit", "watch", "recovered"}
    BY DEF PendingWorkHasOwner
  <2>3. PICK c \in Threads : Site(c) \in RunSites \cup {"run"}
    <3>1. CASE task.life = "ReplanPending"
      <4>1. PICK c \in Threads : Queues(c)
        BY <2>1, <2>2, <3>1 DEF OwnerInv
      <4>2. Site(c) \in RunSites \cup {"run"}
        BY <4>1 DEF Queues, Site, SiteOf, Emitting, RunSites
      <4>3. QED
        BY <4>2
    <3>2. CASE IsRunning(task.life)
      BY <2>1, <2>2, <3>2 DEF OwnerInv, RunSites
    <3>3. QED
      BY <2>2, <3>1, <3>2 DEF IsRunning
  <2>4. fr[c].op \in Ops /\ ShapeOf(pc[c], fr[c], lease[c])
    BY <2>1, ShapeAt
  <2>5. fr[c].op \in {"submit", "watch", "recovered"}
    BY <2>3, <2>4 DEF ShapeOf, Site, SitesOf, Ops, RunSites, RunnerSites, CancelSites
  <2>6. pc[c] \in Owners
    BY <2>3 DEF Site, SiteOf, Emitting, RunSites, RunnerSites, Owners
  <2>7. QED
    BY <2>5, <2>6
<1>2. QED
  BY <1>1, AdmissionInvariant, PTL
=============================================================================
