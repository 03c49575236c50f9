-------------------------- MODULE CacheOwnerProofs --------------------------
(***************************************************************************)
(* The cache owner keeps its promises, for any number of threads, keys and *)
(* generations, any capacity of queue and dirty map, and any number of     *)
(* faults, panics and expired waits.  Each invariant is inductive given    *)
(* the ones before it:                                                     *)
(*   TypeInv     types; the counters that go down are integers here        *)
(*   CommandInv  a command in the queue or with the worker is the only one *)
(*               of a thread that still awaits its answer                  *)
(*   FenceInv    the phase names the newest generation; only its worker    *)
(*               may touch the files                                       *)
(*   GuardInv    the holder of the live cache's mutex is the only thread   *)
(*               with a reservation                                        *)
(*   QuietInv    a last flush begins when no mutation can arrive any more  *)
(*   DeltaInv    a key goes from the dirty map to the worker to the disk   *)
(*               and never back in time                                    *)
(*   FlushInv    what a flush asked for is pending, in flight or on disk,  *)
(*               and on disk when it is answered with success              *)
(* LiveInv and SlotInv rest on all of them: what requests read is what     *)
(* will be written, and every slot in use has its delta.                   *)
(***************************************************************************)
EXTENDS CacheOwner, Integers, FiniteSetTheorems, TLAPS

-----------------------------------------------------------------------------
(* Types *)

PhaseType == [kind : {"Vacant", "Live", "Closing", "Faulted"}, gen : 0..MaxOwners]

\* Counters that go down are integers at first: that they stay above zero is an
\* argument of its own.
OwnerType == [count : Nat, strong : Int, requested : BOOLEAN, sent : BOOLEAN,
              reserving : Int, sender : BOOLEAN, joinable : BOOLEAN, rev : Nat,
              slots : Int, completion : {"none", "ok", "error"}]

Commands == {<<"wake">>, <<"shutdown">>} \cup {<<"flush", c>> : c \in Threads \cup {None}}

WorkerType == [pc : WorkerLabels, why : {"none", "debounce", "flush", "shutdown"},
               for : Threads \cup {None}, since : Nat]

FrameType == [op : Ops \cup {"none"}, gen : 0..MaxOwners, batch : SUBSET Keys,
              key : Keys \cup {None}, rev : Nat, want : [Keys -> Nat],
              reply : {"none", "ok", "error"}]

Stopping == {"stop", "stop_wait", "stop_send", "stop_await", "stop_join", "stop_complete"}

\* What a thread does at label p, and the owner it does it to.
Shape(p, f) ==
    /\ p \in {"idle", "open"} => f = NoFrame
    /\ p \notin {"idle", "open"} => f.gen \in Owners
    /\ p \in {"record", "publish"} => f.op \in {"commit", "prune"}
    /\ p \in {"flush", "await"} => f.op \in {"flush", "prune", "shutdown"}
    /\ p \in Stopping => f.op = "shutdown"
    /\ p \in {"drop", "release", "signal"} => f.op = "drop"
    /\ p \in {"record", "publish", "flush"} => f.reply = "none"

LimitsOK == limits \in Scenarios
SlotOK == phase \in PhaseType /\ nextGen \in 0..MaxOwners
OwnOK == own \in [Owners -> OwnerType]
MemoryOK == memory \in [Owners -> [Keys -> Values]]
GuardOK == guard \in [Owners -> Threads \cup {None}]
DirtyOK == dirty \in [Owners -> [Keys -> Deltas]]
TakenOK == taken \in [Owners -> [Keys -> Deltas]]
PersistedOK == persisted \in [Owners -> [Keys -> Nat]]
DurableOK == durable \in [Keys -> Deltas]
QueueOK == queue \in [Owners -> Seq(Commands)] /\ \A g \in Owners : Len(queue[g]) <= QueueCapacity
WorkerOK == wk \in [Owners -> WorkerType]
ThreadsOK ==
    /\ pc \in [Threads -> Labels]
    /\ fr \in [Threads -> FrameType]
    /\ \A c \in Threads : Shape(pc[c], fr[c])

TypeInv ==
    /\ LimitsOK /\ SlotOK /\ OwnOK /\ MemoryOK /\ GuardOK /\ DirtyOK /\ TakenOK
    /\ PersistedOK /\ DurableOK /\ QueueOK /\ WorkerOK /\ ThreadsOK

\* The flags of an owner.
LEMMA FlagTypes ==
    ASSUME OwnOK, NEW g \in Owners, NEW b \in BOOLEAN
    PROVE  /\ [own EXCEPT ![g].requested = b] \in [Owners -> OwnerType]
           /\ [own EXCEPT ![g].sent = b] \in [Owners -> OwnerType]
           /\ [own EXCEPT ![g].sender = b, ![g].joinable = b] \in [Owners -> OwnerType]
<1>1. PICK o \in OwnerType : o = own[g]
  BY DEF OwnOK
<1>2. [o EXCEPT !.requested = b] \in OwnerType
  BY DEF OwnerType
<1>3. [o EXCEPT !.sent = b] \in OwnerType
  BY DEF OwnerType
<1>4. [o EXCEPT !.sender = b, !.joinable = b] \in OwnerType
  BY DEF OwnerType
<1>5. [own EXCEPT ![g].requested = b] \in [Owners -> OwnerType]
  BY <1>1, <1>2 DEF OwnOK
<1>6. [own EXCEPT ![g].sent = b] \in [Owners -> OwnerType]
  BY <1>1, <1>3 DEF OwnOK
<1>7. [own EXCEPT ![g].sender = b, ![g].joinable = b] \in [Owners -> OwnerType]
  BY <1>1, <1>4 DEF OwnOK
<1>8. QED
  BY <1>5, <1>6, <1>7

\* What a step leaves alone keeps its type.
LEMMA TypesStay ==
    /\ SlotOK /\ UNCHANGED slot => SlotOK'
    /\ OwnOK /\ UNCHANGED own => OwnOK'
    /\ MemoryOK /\ UNCHANGED memory => MemoryOK'
    /\ GuardOK /\ UNCHANGED guard => GuardOK'
    /\ DirtyOK /\ UNCHANGED dirty => DirtyOK'
    /\ TakenOK /\ UNCHANGED taken => TakenOK'
    /\ PersistedOK /\ UNCHANGED persisted => PersistedOK'
    /\ DurableOK /\ UNCHANGED durable => DurableOK'
    /\ QueueOK /\ UNCHANGED queue => QueueOK'
    /\ WorkerOK /\ UNCHANGED wk => WorkerOK'
    /\ ThreadsOK /\ UNCHANGED threads => ThreadsOK'
    /\ LimitsOK /\ UNCHANGED limits => LimitsOK'
BY DEF SlotOK, OwnOK, MemoryOK, GuardOK, DirtyOK, TakenOK, PersistedOK, DurableOK, QueueOK,
       WorkerOK, ThreadsOK, LimitsOK, slot, threads

\* A thread that returns has no frame.
LEMMA NoFrameType == NoFrame \in FrameType /\ Shape("idle", NoFrame) /\ Shape("open", NoFrame)
BY CacheOwnerAssumption DEF NoFrame, FrameType, Shape, Stopping

\* One thread moves.
LEMMA ThreadMoves ==
    ASSUME ThreadsOK, NEW c \in Threads, NEW x \in Labels, NEW f \in FrameType, Shape(x, f),
           pc' = [pc EXCEPT ![c] = x], fr' = [fr EXCEPT ![c] = f]
    PROVE  ThreadsOK'
BY DEF ThreadsOK

\* One thread moves and keeps its frame.
LEMMA ThreadWalks ==
    ASSUME ThreadsOK, NEW c \in Threads, NEW x \in Labels, Shape(x, fr[c]),
           Goto(c, x), UNCHANGED fr
    PROVE  ThreadsOK'
BY DEF ThreadsOK, Goto

\* One thread returns.
LEMMA ThreadReturns == ASSUME ThreadsOK, NEW c \in Threads, Return(c) PROVE ThreadsOK'
BY NoFrameType, ThreadMoves DEF Return, Goto, Labels

\* The sets of keys in the model are finite.
LEMMA KeySets == \A S \in SUBSET Keys : IsFiniteSet(S) /\ Cardinality(S) \in Nat
BY CacheOwnerAssumption, FS_Subset, FS_CardinalityType

\* A delta is a record.
LEMMA DeltaType ==
    /\ None \in Deltas
    /\ None \in Values
    /\ \A d \in Deltas : d # None => d.gen \in 0..MaxOwners /\ d.rev \in Nat /\ d.val \in Values
    /\ \A g \in Owners, r \in Nat : <<g, r>> \in Values
    /\ \A g \in 0..MaxOwners, r \in Nat, v \in Values : Delta(g, r, v) \in Deltas
    /\ \A g \in 0..MaxOwners, r \in Nat, v \in Values :
          Delta(g, r, v) # None /\ Delta(g, r, v).gen = g /\ Delta(g, r, v).rev = r
             /\ Delta(g, r, v).val = v
BY NoneIsNoDelta DEF Deltas, Values, Delta

LEMMA InitTypes == Init => TypeInv
<1> SUFFICES ASSUME Init PROVE TypeInv
  OBVIOUS
<1>0. MaxOwners \in Nat /\ 1 \in 0..MaxOwners
  BY CacheOwnerAssumption
<1>1. LimitsOK /\ SlotOK /\ GuardOK
  BY <1>0 DEF Init, LimitsOK, SlotOK, GuardOK, PhaseType
<1>2. OwnOK
  <2>1. Opened \in OwnerType /\ Unopened \in OwnerType
    BY DEF OwnerType, Opened, Unopened, Owner
  <2>2. QED
    BY <2>1 DEF Init, OwnOK
<1>3. DurableOK
  <2>1. 0 \in 0..MaxOwners /\ 0 \in Nat /\ <<0, 0>> \in Values
    BY <1>0 DEF Values
  <2>2. {None, Delta(0, 0, <<0, 0>>)} \subseteq Deltas
    BY <2>1, DeltaType
  <2>3. QED
    BY <2>2 DEF Init, DurableOK
<1>4. MemoryOK
  BY <1>3, DeltaType DEF Init, MemoryOK, DurableOK
<1>5. DirtyOK /\ TakenOK /\ PersistedOK
  BY DeltaType DEF Init, DirtyOK, TakenOK, PersistedOK, NoDeltas
<1>6. QueueOK
  BY CacheOwnerAssumption DEF Init, QueueOK
<1>7. WorkerOK
  BY DEF Init, WorkerOK, WorkerType, Worker, WorkerLabels
<1>8. ThreadsOK
  BY NoFrameType DEF Init, ThreadsOK, Labels
<1>9. QED
  BY <1>1, <1>2, <1>3, <1>4, <1>5, <1>6, <1>7, <1>8 DEF TypeInv

\* The types of a state and the steps that threads take.
LEMMA OpenTypes ==
    ASSUME TypeInv, UNCHANGED limits, NEW c \in Threads, CallOpen(c) \/ OpenShared(c) \/ OpenVacant(c)
    PROVE  TypeInv'
<1>1. CASE CallOpen(c)
  <2>1. ThreadsOK'
    BY <1>1, NoFrameType, ThreadWalks DEF CallOpen, TypeInv, ThreadsOK, At, Shape, Labels, Stopping
  <2>2. QED
    BY <1>1, <2>1, TypesStay DEF CallOpen, TypeInv, data, worker
<1>2. CASE OpenShared(c)
  <2>1. phase.gen \in 0..MaxOwners
    BY DEF TypeInv, SlotOK, PhaseType
  <2>2. OwnOK'
    <3>1. CASE phase.gen \in Owners
      BY <1>2, <3>1 DEF OpenShared, TypeInv, OwnOK, OwnerType
    <3>2. CASE phase.gen \notin Owners
      BY <1>2, <3>2 DEF OpenShared, TypeInv, OwnOK
    <3>3. QED
      BY <3>1, <3>2
  <2>3. QED
    BY <1>2, <2>2, TypesStay, ThreadReturns DEF OpenShared, TypeInv, data, worker
<1>3. CASE OpenVacant(c)
  <2> DEFINE g == nextGen + 1
  <2>1. g \in Owners /\ nextGen' = g /\ Return(c) /\ 0..MaxOwners \subseteq Nat /\ g \in 0..MaxOwners
    BY <1>3, CacheOwnerAssumption DEF OpenVacant, Owners
  <2>2. CASE UNCHANGED <<phase, own, memory, wk>>
    <3>1. SlotOK'
      BY <2>1, <2>2 DEF TypeInv, SlotOK
    <3>2. QED
      BY <1>3, <2>1, <2>2, <3>1, TypesStay, ThreadReturns DEF OpenVacant, TypeInv
  <2>3. CASE /\ phase' = [kind |-> "Live", gen |-> g]
             /\ own' = [own EXCEPT ![g] = Opened]
             /\ memory' = [memory EXCEPT ![g] =
                             [k \in Keys |-> IF durable[k] = None THEN None ELSE durable[k].val]]
             /\ wk' = [wk EXCEPT ![g] = Worker("poll")]
    <3>1. SlotOK'
      BY <2>1, <2>3 DEF SlotOK, PhaseType
    <3>2. OwnOK'
      <4>1. Opened \in OwnerType
        BY DEF OwnerType, Opened, Owner
      <4>2. QED
        BY <2>1, <2>3, <4>1 DEF TypeInv, OwnOK
    <3>3. MemoryOK'
      <4>1. \A k \in Keys : (IF durable[k] = None THEN None ELSE durable[k].val) \in Values
        BY DeltaType DEF TypeInv, DurableOK
      <4>2. QED
        BY <2>1, <2>3, <4>1 DEF TypeInv, MemoryOK
    <3>4. WorkerOK'
      BY <2>1, <2>3 DEF TypeInv, WorkerOK, WorkerType, Worker, WorkerLabels
    <3>5. QED
      BY <1>3, <2>1, <3>1, <3>2, <3>3, <3>4, TypesStay, ThreadReturns DEF OpenVacant, TypeInv
  <2>4. QED
    BY <1>3, <2>2, <2>3 DEF OpenVacant
<1>4. QED
  BY <1>1, <1>2, <1>3

\* reserve_mutation
LEMMA ReserveTypes ==
    ASSUME TypeInv, UNCHANGED limits, NEW c \in Threads, NEW g \in Owners, NEW batch \in SUBSET Keys,
           NEW key \in Keys \cup {None}, NEW op \in {"commit", "prune"}, Reserve(c, op, g, batch, key)
    PROVE  TypeInv'
<1>1. Cardinality(batch) \in Nat
  BY KeySets
<1>2. CASE Admits(g) /\ Fits(g, Cardinality(batch))
  <2>1. OwnOK'
    BY <1>1, <1>2 DEF Reserve, TypeInv, OwnOK, OwnerType
  <2>2. GuardOK'
    BY <1>2 DEF Reserve, TypeInv, GuardOK
  <2>3. ThreadsOK'
    <3> DEFINE f == [NoFrame EXCEPT !.op = op, !.gen = g, !.batch = batch, !.key = key,
                                    !.rev = own[g].rev + 1]
    <3>1. own[g].rev + 1 \in Nat
      BY DEF TypeInv, OwnOK, OwnerType
    <3>2. g \in 0..MaxOwners
      BY CacheOwnerAssumption DEF Owners
    <3>3. f \in FrameType
      BY <3>1, <3>2, NoFrameType DEF FrameType, Ops
    <3>4. f.op = op /\ f.gen = g /\ f.reply = "none"
      BY DEF NoFrame
    <3>5. Shape("record", f)
      BY <3>4 DEF Shape, Stopping
    <3>6. QED
      BY <1>2, <3>3, <3>5, ThreadMoves DEF Reserve, Goto, TypeInv, Labels
  <2>4. QED
    BY <1>2, <2>1, <2>2, <2>3, TypesStay DEF Reserve, TypeInv, worker
<1>3. CASE ~(Admits(g) /\ Fits(g, Cardinality(batch)))
  <2>1. OwnOK'
    BY <1>3 DEF Reserve, TypeInv, OwnOK, OwnerType
  <2>2. QED
    BY <1>3, <2>1, TypesStay DEF Reserve, TypeInv, worker
<1>4. QED
  BY <1>2, <1>3

\* A delta of a batch is a delta.
LEMMA IncomingType ==
    ASSUME TypeInv, NEW c \in Threads, NEW k \in Keys, fr[c].gen \in Owners
    PROVE  /\ Incoming(c, k) \in Deltas /\ Incoming(c, k) # None
           /\ Incoming(c, k).gen = fr[c].gen /\ Incoming(c, k).rev = fr[c].rev
           /\ Incoming(c, k).val = (IF k = fr[c].key THEN <<fr[c].gen, fr[c].rev>> ELSE None)
           /\ Incoming(c, k).val \in Values
<1>1. fr[c].gen \in Owners /\ fr[c].gen \in 0..MaxOwners /\ fr[c].rev \in Nat
  BY DEF TypeInv, ThreadsOK, FrameType
<1>2. (IF k = fr[c].key THEN <<fr[c].gen, fr[c].rev>> ELSE None) \in Values
  BY <1>1, DeltaType
<1>3. QED
  BY <1>1, <1>2, DeltaType DEF Incoming

\* The deltas of a batch and those of the map.
LEMMA RecordedType ==
    ASSUME TypeInv, NEW c \in Threads, fr[c].gen \in Owners
    PROVE  Recorded(c) \in [Keys -> Deltas]
BY IncomingType DEF Recorded, Newer, TypeInv, DirtyOK

\* The queue after a wake-up.
LEMMA WokenType ==
    ASSUME QueueOK, NEW g \in Owners
    PROVE  Woken(g) \in Seq(Commands) /\ Len(Woken(g)) <= QueueCapacity
BY CacheOwnerAssumption DEF QueueOK, Woken, Commands

\* A command is put into the queue.
LEMMA SendTypes ==
    ASSUME QueueOK, NEW g \in Owners, NEW m \in Commands, NEW c, Send(c, g, m)
    PROVE  QueueOK'
BY CacheOwnerAssumption DEF QueueOK, Send

\* record_reserved_batch
LEMMA RecordTypes ==
    ASSUME TypeInv, UNCHANGED limits, NEW c \in Threads, Record(c)
    PROVE  TypeInv'
<1> DEFINE g == fr[c].gen
           f == fr[c]
           kept == {k \in f.batch : dirty[g][k] = None}
           n == Cardinality(f.batch)
<1>1. /\ At(c, "record") /\ g \in Owners /\ f.batch \in SUBSET Keys
      /\ f.op \in {"commit", "prune"} /\ f.reply = "none"
  BY DEF Record, TypeInv, ThreadsOK, FrameType, Shape, At
<1>2. n \in Nat /\ Cardinality(kept) \in Nat
  BY <1>1, KeySets
<1>3. CASE f.batch = {} \/ Wakes(g)
  <2>1. /\ dirty' = [dirty EXCEPT ![g] = Recorded(c)]
        /\ own' = [own EXCEPT ![g].reserving = finish_reservation(c),
                              ![g].slots = @ - (n - Cardinality(kept))]
        /\ queue' = IF f.batch = {} THEN queue ELSE [queue EXCEPT ![g] = Woken(g)]
        /\ Goto(c, "publish") /\ UNCHANGED <<slot, memory, guard, worker, fr>>
    BY <1>3 DEF Record
  <2>2. OwnOK'
    BY <1>1, <1>2, <2>1 DEF finish_reservation, TypeInv, OwnOK, OwnerType
  <2>3. DirtyOK'
    BY <1>1, <2>1, RecordedType DEF TypeInv, DirtyOK
  <2>4. QueueOK'
    BY <1>1, <2>1, WokenType DEF TypeInv, QueueOK
  <2>5. ThreadsOK'
    BY <1>1, <2>1, ThreadWalks DEF TypeInv, Shape, Stopping, Labels
  <2>6. QED
    BY <2>1, <2>2, <2>3, <2>4, <2>5, TypesStay DEF TypeInv, worker
<1>4. CASE ~(f.batch = {} \/ Wakes(g))
  <2>1. /\ own' = [own EXCEPT ![g].reserving = finish_reservation(c), ![g].slots = @ - n]
        /\ guard' = [guard EXCEPT ![g] = None]
        /\ Return(c)
        /\ UNCHANGED <<slot, memory, dirty, queue, worker>>
    BY <1>4 DEF Record
  <2>2. OwnOK'
    BY <1>1, <1>2, <2>1 DEF finish_reservation, TypeInv, OwnOK, OwnerType
  <2>3. GuardOK'
    BY <1>1, <2>1 DEF TypeInv, GuardOK
  <2>4. QED
    BY <2>1, <2>2, <2>3, TypesStay, ThreadReturns DEF TypeInv, worker
<1>5. QED
  BY <1>3, <1>4

\* What a flush called now waits for.
LEMMA OutstandingType ==
    ASSUME TypeInv, NEW g \in Owners
    PROVE  Outstanding(g) \in [Keys -> Nat]
BY DeltaType DEF Outstanding, TypeInv, DirtyOK, TakenOK

\* The live cache changes.
LEMMA PublishTypes ==
    ASSUME TypeInv, UNCHANGED limits, NEW c \in Threads, Publish(c)
    PROVE  TypeInv'
<1> DEFINE g == fr[c].gen
           f == fr[c]
<1>1. /\ At(c, "publish") /\ g \in Owners /\ f \in FrameType
      /\ f.op \in {"commit", "prune"} /\ f.reply = "none"
  BY DEF Publish, TypeInv, ThreadsOK, Shape, At
<1>2. MemoryOK'
  <2>1. \A k \in Keys : (IF k \in f.batch THEN Incoming(c, k).val ELSE memory[g][k]) \in Values
    BY <1>1, IncomingType DEF TypeInv, MemoryOK
  <2>2. QED
    BY <1>1, <2>1 DEF Publish, TypeInv, MemoryOK
<1>3. GuardOK'
  BY <1>1 DEF Publish, TypeInv, GuardOK
<1>4. ThreadsOK'
  <2>1. CASE f.op = "prune"
    <3> DEFINE h == [f EXCEPT !.want = Outstanding(g)]
    <3>1. h \in FrameType
      BY <1>1, OutstandingType DEF FrameType
    <3>2. h.op = f.op /\ h.gen = g /\ h.reply = "none"
      BY <1>1 DEF FrameType
    <3>3. Shape("flush", h)
      BY <1>1, <2>1, <3>2 DEF Shape, Stopping
    <3>4. pc' = [pc EXCEPT ![c] = "flush"] /\ fr' = [fr EXCEPT ![c] = h]
      BY <2>1 DEF Publish, Goto
    <3>5. QED
      BY <3>1, <3>3, <3>4, ThreadMoves DEF TypeInv, Labels
  <2>2. CASE f.op # "prune"
    BY <2>2, ThreadReturns DEF Publish, TypeInv
  <2>3. QED
    BY <2>1, <2>2
<1>5. QED
  BY <1>2, <1>3, <1>4, TypesStay DEF Publish, TypeInv, worker

\* The frame of an operation that has just been called.
Called(op, g, want) == [NoFrame EXCEPT !.op = op, !.gen = g, !.want = want]

LEMMA CalledFrame ==
    ASSUME NEW op \in Ops, NEW g \in Owners, NEW want \in [Keys -> Nat]
    PROVE  /\ Called(op, g, want) \in FrameType
           /\ Called(op, g, want).op = op /\ Called(op, g, want).gen = g
           /\ Called(op, g, want).want = want /\ Called(op, g, want).reply = "none"
<1>1. g \in 0..MaxOwners
  BY CacheOwnerAssumption DEF Owners
<1>2. Called(op, g, want) \in FrameType
  BY <1>1, NoFrameType DEF FrameType, Called
<1>3. QED
  BY <1>2 DEF NoFrame, Called

\* CachePersistence::flush
LEMMA FlushTypes ==
    ASSUME TypeInv, UNCHANGED limits, NEW c \in Threads,
           CallFlush(c) \/ FlushSend(c) \/ FlushDone(c) \/ FlushExpires(c)
    PROVE  TypeInv'
<1>1. CASE CallFlush(c)
  <2>1. PICK g \in Owners : fr' = [fr EXCEPT ![c] = Called("flush", g, Outstanding(g))]
    BY <1>1 DEF CallFlush, Called
  <2> DEFINE f == Called("flush", g, Outstanding(g))
  <2>2. f \in FrameType /\ f.op = "flush" /\ f.gen = g /\ f.reply = "none"
    BY CalledFrame, OutstandingType DEF Ops
  <2>3. Shape("flush", f)
    BY <2>2 DEF Shape, Stopping
  <2>4. ThreadsOK'
    BY <1>1, <2>1, <2>2, <2>3, ThreadMoves DEF CallFlush, Goto, TypeInv, Labels
  <2>5. QED
    BY <1>1, <2>4, TypesStay DEF CallFlush, TypeInv, data, worker
<1>2. CASE FlushSend(c)
  <2>1. /\ At(c, "flush") /\ fr[c].gen \in Owners /\ fr[c].op \in {"flush", "prune", "shutdown"}
        /\ UNCHANGED <<slot, own, data, worker>>
    BY <1>2 DEF FlushSend, TypeInv, ThreadsOK, Shape, At
  <2>2. CASE /\ Send(c, fr[c].gen, <<"flush", c>>)
             /\ Goto(c, "await") /\ UNCHANGED fr
    <3>1. <<"flush", c>> \in Commands
      BY DEF Commands
    <3>2. QueueOK'
      BY <2>1, <2>2, <3>1, SendTypes DEF TypeInv
    <3>3. ThreadsOK'
      BY <2>1, <2>2, ThreadWalks DEF TypeInv, Shape, Stopping, Labels
    <3>4. QED
      BY <2>1, <3>2, <3>3, TypesStay DEF TypeInv, data, worker
  <2>3. CASE Return(c) /\ UNCHANGED queue
    BY <2>1, <2>3, TypesStay, ThreadReturns DEF TypeInv, data, worker
  <2>4. QED
    BY <1>2, <2>2, <2>3 DEF FlushSend
<1>3. CASE FlushDone(c)
  BY <1>3, TypesStay, ThreadReturns DEF FlushDone, TypeInv, data, worker
<1>4. CASE FlushExpires(c)
  <2> DEFINE g == fr[c].gen
             q == [i \in DOMAIN queue[g] |->
                     IF queue[g][i] = <<"flush", c>> THEN <<"flush", None>> ELSE queue[g][i]]
  <2>1. g \in Owners
    BY <1>4 DEF FlushExpires, TypeInv, ThreadsOK, Shape, At
  <2>2. queue[g] \in Seq(Commands) /\ Len(queue[g]) <= QueueCapacity
    BY <2>1 DEF TypeInv, QueueOK
  <2>3. <<"flush", None>> \in Commands
    BY DEF Commands
  <2>4. q \in Seq(Commands) /\ Len(q) = Len(queue[g])
    <3>1. Len(queue[g]) \in Nat /\ DOMAIN queue[g] = 1..Len(queue[g])
      BY <2>2
    <3>2. \A i \in 1..Len(queue[g]) : queue[g][i] \in Commands
      BY <2>2
    <3>3. q \in [1..Len(queue[g]) -> Commands]
      BY <2>3, <3>1, <3>2
    <3>4. QED
      BY <3>1, <3>3
  <2>5. QueueOK'
    BY <1>4, <2>1, <2>2, <2>4 DEF FlushExpires, TypeInv, QueueOK
  <2>6. WorkerOK'
    BY <1>4, <2>1 DEF FlushExpires, TypeInv, WorkerOK, WorkerType
  <2>7. QED
    BY <1>4, <2>5, <2>6, TypesStay, ThreadReturns DEF FlushExpires, TypeInv, data, worker
<1>5. QED
  BY <1>1, <1>2, <1>3, <1>4

\* CachePersistence::shutdown
LEMMA StopTypes ==
    ASSUME TypeInv, UNCHANGED limits, NEW c \in Threads,
           \/ CallShutdown(c) \/ StopRequest(c) \/ StopWait(c) \/ StopSend(c)
           \/ StopAwait(c) \/ StopJoin(c) \/ StopComplete(c)
    PROVE  TypeInv'
<1> DEFINE g == fr[c].gen
<1>1. CASE CallShutdown(c)
  <2>1. PICK h \in Owners :
           /\ fr' = [fr EXCEPT ![c] = Called("shutdown", h, Outstanding(h))]
           /\ IF own[h].count > 1
              THEN Goto(c, "flush") /\ UNCHANGED phase
              ELSE /\ Goto(c, "stop")
                   /\ phase' = IF phase = [kind |-> "Live", gen |-> h]
                               THEN [phase EXCEPT !.kind = "Closing"] ELSE phase
    BY <1>1 DEF CallShutdown, Called
  <2> DEFINE f == Called("shutdown", h, Outstanding(h))
  <2>2. f \in FrameType /\ f.op = "shutdown" /\ f.gen = h /\ f.reply = "none"
    BY CalledFrame, OutstandingType DEF Ops
  <2>3. Shape("flush", f) /\ Shape("stop", f)
    BY <2>2 DEF Shape, Stopping
  <2>4. ThreadsOK'
    BY <2>1, <2>2, <2>3, ThreadMoves DEF Goto, TypeInv, Labels
  <2>5. SlotOK'
    BY <1>1, <2>1 DEF CallShutdown, TypeInv, SlotOK, PhaseType
  <2>6. QED
    BY <1>1, <2>4, <2>5, TypesStay DEF CallShutdown, TypeInv, data, worker
<1>2. CASE StopRequest(c)
  <2>1. /\ At(c, "stop") /\ g \in Owners /\ fr[c].op = "shutdown" /\ fr[c] \in FrameType
    BY <1>2 DEF StopRequest, TypeInv, ThreadsOK, Shape, At, Stopping
  <2>2. CASE own[g].joinable
    <3>1. OwnOK'
      <4>1. own' = [own EXCEPT ![g].requested = TRUE]
        BY <1>2, <2>2 DEF StopRequest
      <4>2. QED
        BY <2>1, <4>1, FlagTypes DEF TypeInv, OwnOK
    <3>2. ThreadsOK'
      BY <1>2, <2>1, <2>2, ThreadWalks DEF StopRequest, TypeInv, Shape, Stopping, Labels
    <3>3. QED
      BY <1>2, <3>1, <3>2, TypesStay DEF StopRequest, TypeInv, data, worker
  <2>3. CASE ~own[g].joinable
    <3> DEFINE r == IF own[g].completion = "none" THEN "ok" ELSE own[g].completion
               f == [fr[c] EXCEPT !.reply = r]
    <3>1. r \in {"none", "ok", "error"}
      BY <2>1 DEF TypeInv, OwnOK, OwnerType
    <3>2. f \in FrameType /\ f.gen = g /\ f.op = "shutdown"
      BY <2>1, <3>1 DEF FrameType
    <3>3. Shape("stop_complete", f)
      BY <2>1, <3>2 DEF Shape, Stopping
    <3>4. ThreadsOK'
      BY <1>2, <2>3, <3>2, <3>3, ThreadMoves DEF StopRequest, Goto, TypeInv, Labels
    <3>5. QED
      BY <1>2, <2>3, <3>4, TypesStay DEF StopRequest, TypeInv, data, worker
  <2>4. QED
    BY <2>2, <2>3
<1>3. CASE StopWait(c)
  <2>1. /\ At(c, "stop_wait") /\ g \in Owners /\ fr[c].op = "shutdown"
        /\ UNCHANGED <<slot, data, queue, worker>>
    BY <1>3 DEF StopWait, TypeInv, ThreadsOK, Shape, At, Stopping
  <2>2. CASE Return(c) /\ UNCHANGED own
    BY <2>1, <2>2, TypesStay, ThreadReturns DEF TypeInv, data, worker
  <2>3. CASE /\ Goto(c, IF own[g].sent THEN "stop_await" ELSE "stop_send")
             /\ own' = [own EXCEPT ![g].sent = TRUE]
             /\ UNCHANGED fr
    <3>1. OwnOK'
      BY <2>1, <2>3, FlagTypes DEF TypeInv, OwnOK
    <3>2. Shape("stop_await", fr[c]) /\ Shape("stop_send", fr[c])
      BY <2>1 DEF Shape, Stopping
    <3>3. ThreadsOK'
      BY <2>3, <3>2, ThreadWalks DEF TypeInv, Labels
    <3>4. QED
      BY <2>1, <3>1, <3>3, TypesStay DEF TypeInv, data, worker
  <2>4. QED
    BY <1>3, <2>2, <2>3 DEF StopWait
<1>4. CASE StopSend(c)
  <2>1. /\ At(c, "stop_send") /\ g \in Owners /\ fr[c].op = "shutdown"
        /\ UNCHANGED <<slot, data, worker>>
    BY <1>4 DEF StopSend, TypeInv, ThreadsOK, Shape, At, Stopping
  <2>2. CASE Send(c, g, <<"shutdown">>) /\ Goto(c, "stop_await") /\ UNCHANGED <<own, fr>>
    <3>1. <<"shutdown">> \in Commands
      BY DEF Commands
    <3>2. QueueOK'
      BY <2>1, <2>2, <3>1, SendTypes DEF TypeInv
    <3>3. ThreadsOK'
      BY <2>1, <2>2, ThreadWalks DEF TypeInv, Shape, Stopping, Labels
    <3>4. QED
      BY <2>1, <2>2, <3>2, <3>3, TypesStay DEF TypeInv, data, worker
  <2>3. CASE own' = [own EXCEPT ![g].sent = FALSE] /\ Return(c) /\ UNCHANGED queue
    <3>1. OwnOK'
      BY <2>1, <2>3, FlagTypes DEF TypeInv, OwnOK
    <3>2. QED
      BY <2>1, <2>3, <3>1, TypesStay, ThreadReturns DEF TypeInv, data, worker
  <2>4. QED
    BY <1>4, <2>2, <2>3 DEF StopSend
<1>5. CASE StopAwait(c)
  <2>1. /\ At(c, "stop_await") /\ g \in Owners /\ fr[c].op = "shutdown" /\ fr[c] \in FrameType
        /\ UNCHANGED <<slot, data, queue, worker>>
    BY <1>5 DEF StopAwait, TypeInv, ThreadsOK, Shape, At, Stopping
  <2>2. Joining(g) \in [Owners -> OwnerType] /\ own \in [Owners -> OwnerType]
    BY <2>1, FlagTypes DEF Joining, TypeInv, OwnOK
  <2>3. CASE Return(c) /\ (own' = Joining(g) \/ own' = own)
    <3>1. OwnOK'
      BY <2>2, <2>3 DEF OwnOK
    <3>2. QED
      BY <2>1, <2>3, <3>1, TypesStay, ThreadReturns DEF TypeInv, data, worker
  <2>4. CASE /\ own' = Joining(g)
             /\ fr' = [fr EXCEPT ![c].reply = own[g].completion]
             /\ Goto(c, IF own[g].joinable THEN "stop_join" ELSE "stop_complete")
    <3>1. OwnOK'
      BY <2>2, <2>4 DEF OwnOK
    <3> DEFINE f == [fr[c] EXCEPT !.reply = own[g].completion]
    <3>2. f \in FrameType /\ f.gen = g /\ f.op = "shutdown"
      BY <2>1, <2>2 DEF FrameType, OwnerType
    <3>3. Shape("stop_complete", f) /\ Shape("stop_join", f)
      BY <2>1, <3>2 DEF Shape, Stopping
    <3>4. ThreadsOK'
      BY <2>4, <3>2, <3>3, ThreadMoves DEF Goto, TypeInv, Labels
    <3>5. QED
      BY <2>1, <3>1, <3>4, TypesStay DEF TypeInv, data, worker
  <2>5. QED
    BY <1>5, <2>3, <2>4 DEF StopAwait
<1>6. CASE StopJoin(c)
  <2>1. At(c, "stop_join") /\ g \in Owners /\ fr[c].op = "shutdown"
    BY <1>6 DEF StopJoin, TypeInv, ThreadsOK, Shape, At, Stopping
  <2>2. ThreadsOK'
    BY <1>6, <2>1, ThreadWalks DEF StopJoin, TypeInv, Shape, Stopping, Labels
  <2>3. QED
    BY <1>6, <2>2, TypesStay DEF StopJoin, TypeInv, data, worker
<1>7. CASE StopComplete(c)
  <2>1. 0 \in 0..MaxOwners
    BY CacheOwnerAssumption
  <2>2. SlotOK'
    BY <1>7, <2>1 DEF StopComplete, TypeInv, SlotOK, PhaseType
  <2>3. QED
    BY <1>7, <2>2, TypesStay, ThreadReturns DEF StopComplete, TypeInv, data, worker
<1>8. QED
  BY <1>1, <1>2, <1>3, <1>4, <1>5, <1>6, <1>7

\* shutdown_on_drop
LEMMA OwnerSignalled ==
    ASSUME OwnOK, NEW g \in Owners, NEW b \in BOOLEAN,
           own' = [own EXCEPT ![g].requested = TRUE, ![g].sent = b,
                              ![g].sender = FALSE, ![g].joinable = FALSE]
    PROVE  OwnOK'
<1> DEFINE o == [own[g] EXCEPT !.requested = TRUE, !.sent = b]
           p == [o EXCEPT !.sender = FALSE, !.joinable = FALSE]
<1>1. o \in OwnerType
  BY DEF OwnOK, OwnerType
<1>2. p \in OwnerType
  <2> HIDE DEF o
  <2> QED
    BY <1>1 DEF OwnerType
<1>3. own' = [own EXCEPT ![g] = p]
  BY DEF OwnOK
<1>4. QED
  BY <1>2, <1>3 DEF OwnOK

\* Drop of a handle and of the owner
LEMMA DropTypes ==
    ASSUME TypeInv, UNCHANGED limits, NEW c \in Threads,
           CallDrop(c) \/ DropReference(c) \/ DropRelease(c) \/ DropSignal(c)
    PROVE  TypeInv'
<1> DEFINE g == fr[c].gen
<1>1. CASE CallDrop(c)
  <2>1. PICK h \in Owners :
           /\ own[h].count > 0 /\ own' = [own EXCEPT ![h].count = @ - 1]
           /\ fr' = [fr EXCEPT ![c] = [NoFrame EXCEPT !.op = "drop", !.gen = h]]
    BY <1>1 DEF CallDrop, Begin
  <2> DEFINE f == [NoFrame EXCEPT !.op = "drop", !.gen = h]
  <2>2. f \in FrameType /\ f.op = "drop" /\ f.gen = h
    <3>1. h \in 0..MaxOwners
      BY CacheOwnerAssumption DEF Owners
    <3>2. f \in FrameType
      BY <3>1, NoFrameType DEF FrameType, Ops
    <3>3. QED
      BY <3>2 DEF NoFrame
  <2>3. Shape("drop", f)
    BY <2>2 DEF Shape, Stopping
  <2>4. ThreadsOK'
    BY <1>1, <2>1, <2>2, <2>3, ThreadMoves DEF CallDrop, Goto, TypeInv, Labels
  <2>5. OwnOK'
    BY <2>1 DEF TypeInv, OwnOK, OwnerType
  <2>6. QED
    BY <1>1, <2>4, <2>5, TypesStay DEF CallDrop, TypeInv, data, worker
<1>2. CASE DropReference(c)
  <2>1. At(c, "drop") /\ g \in Owners /\ fr[c].op = "drop"
    BY <1>2 DEF DropReference, TypeInv, ThreadsOK, Shape, At
  <2>2. OwnOK'
    BY <1>2, <2>1 DEF DropReference, TypeInv, OwnOK, OwnerType
  <2>3. ThreadsOK'
    <3>1. CASE own[g].strong = 1
      BY <1>2, <2>1, <3>1, ThreadWalks DEF DropReference, TypeInv, Shape, Stopping, Labels
    <3>2. CASE own[g].strong # 1
      BY <1>2, <3>2, ThreadReturns DEF DropReference, TypeInv
    <3>3. QED
      BY <3>1, <3>2
  <2>4. QED
    BY <1>2, <2>2, <2>3, TypesStay DEF DropReference, TypeInv, data, worker
<1>3. CASE DropRelease(c)
  <2>1. At(c, "release") /\ g \in Owners /\ fr[c].op = "drop" /\ 0 \in 0..MaxOwners
    BY <1>3, CacheOwnerAssumption DEF DropRelease, TypeInv, ThreadsOK, Shape, At
  <2>2. SlotOK'
    <3>1. \/ phase' = [phase EXCEPT !.kind = "Closing"]
          \/ phase' = [kind |-> "Vacant", gen |-> 0]
          \/ phase' = phase
      BY <1>3 DEF DropRelease
    <3>2. QED
      BY <1>3, <2>1, <3>1 DEF DropRelease, TypeInv, SlotOK, PhaseType
  <2>3. ThreadsOK'
    BY <1>3, <2>1, ThreadWalks DEF DropRelease, TypeInv, Shape, Stopping, Labels
  <2>4. QED
    BY <1>3, <2>2, <2>3, TypesStay DEF DropRelease, TypeInv, data, worker
<1>4. CASE DropSignal(c)
  <2> DEFINE tell == ~own[g].sent /\ own[g].sender /\ Receiving(g) /\ Len(queue[g]) < QueueCapacity
  <2>1. At(c, "signal") /\ g \in Owners
    BY <1>4 DEF DropSignal, TypeInv, ThreadsOK, Shape, At
  <2>2. <<"shutdown">> \in Commands
    BY DEF Commands
  <2>3. CASE own[g].joinable
    <3>1. /\ queue' = IF tell THEN [queue EXCEPT ![g] = Append(@, <<"shutdown">>)] ELSE queue
          /\ own' = [own EXCEPT ![g].requested = TRUE, ![g].sent = @ \/ tell,
                                ![g].sender = FALSE, ![g].joinable = FALSE]
      BY <1>4, <2>3 DEF DropSignal
    <3>2. QueueOK'
      BY <2>1, <2>2, <3>1, CacheOwnerAssumption DEF TypeInv, QueueOK
    <3>3. PICK b \in BOOLEAN : b = (own[g].sent \/ tell)
      <4>1. (own[g].sent \/ tell) \in BOOLEAN
        OBVIOUS
      <4>2. QED
        BY <4>1
    <3>4. OwnOK'
      <4>1. own' = [own EXCEPT ![g].requested = TRUE, ![g].sent = b,
                               ![g].sender = FALSE, ![g].joinable = FALSE]
        BY <3>1, <3>3
      <4>2. QED
        BY <2>1, <4>1, OwnerSignalled DEF TypeInv
    <3>5. QED
      BY <1>4, <3>2, <3>4, TypesStay, ThreadReturns DEF DropSignal, TypeInv, data, worker
  <2>4. CASE ~own[g].joinable
    BY <1>4, <2>4, TypesStay, ThreadReturns DEF DropSignal, TypeInv, data, worker
  <2>5. QED
    BY <2>3, <2>4
<1>5. QED
  BY <1>1, <1>2, <1>3, <1>4

\* The worker goes on.
LEMMA WorkerGoes ==
    ASSUME WorkerOK, NEW g \in Owners, NEW at \in WorkerLabels, WorkerGoto(g, at)
    PROVE  WorkerOK'
BY DEF WorkerGoto, WorkerOK, WorkerType

\* The worker begins a flush.
LEMMA WorkerFlushes ==
    ASSUME WorkerOK, NEW g \in Owners, NEW why \in {"debounce", "flush", "shutdown"},
           NEW c \in Threads \cup {None}, Flush(g, why, c)
    PROVE  WorkerOK'
<1>1. [wk[g] EXCEPT !.pc = "take", !.why = why, !.for = c] \in WorkerType
  BY DEF WorkerOK, WorkerType, WorkerLabels
<1>2. wk' = [wk EXCEPT ![g] = [wk[g] EXCEPT !.pc = "take", !.why = why, !.for = c]]
  BY DEF Flush
<1>3. QED
  BY <1>1, <1>2 DEF WorkerOK

\* The worker counts what it wrote.
LEMMA WorkerWrites ==
    ASSUME WorkerOK, NEW g \in Owners, NEW at \in WorkerLabels, NEW n \in Nat,
           wk' = [wk EXCEPT ![g].since = @ + n, ![g].pc = at]
    PROVE  WorkerOK'
<1>1. PICK m \in Nat : m = wk[g].since + n
  BY DEF WorkerOK, WorkerType
<1>2. [wk[g] EXCEPT !.since = m, !.pc = at] \in WorkerType
  BY DEF WorkerOK, WorkerType
<1>3. wk' = [wk EXCEPT ![g] = [wk[g] EXCEPT !.since = m, !.pc = at]]
  BY <1>1 DEF WorkerOK
<1>4. QED
  BY <1>2, <1>3 DEF WorkerOK

\* The worker waits, and takes what is pending.
LEMMA LoopTypes ==
    ASSUME TypeInv, UNCHANGED limits, NEW g \in Owners, Poll(g) \/ Receive(g) \/ Take(g)
    PROVE  TypeInv'
<1>1. CASE Poll(g)
  <2>1. WorkerOK'
    BY <1>1 DEF Poll, WorkerGoto, TypeInv, WorkerOK, WorkerType, WorkerLabels
  <2>2. QED
    BY <1>1, <2>1, TypesStay DEF Poll, TypeInv, data
<1>2. CASE Receive(g)
  <2>1. WorkerOK' /\ QueueOK'
    <3>1. CASE /\ queue[g] # <<>>
               /\ queue' = [queue EXCEPT ![g] = Tail(@)]
               /\ \/ WorkerGoto(g, "poll")
                  \/ \E c \in Threads \cup {None} : Flush(g, "flush", c)
                  \/ Flush(g, "shutdown", None)
      <4>1. queue[g] \in Seq(Commands) /\ Len(queue[g]) <= QueueCapacity /\ Len(queue[g]) # 0
        BY <3>1 DEF TypeInv, QueueOK
      <4>2. Tail(queue[g]) \in Seq(Commands) /\ Len(Tail(queue[g])) <= QueueCapacity
        BY <4>1, CacheOwnerAssumption
      <4>3. QueueOK'
        BY <3>1, <4>2 DEF TypeInv, QueueOK
      <4>4. WorkerOK'
        BY <3>1, WorkerGoes, WorkerFlushes DEF TypeInv, WorkerLabels
      <4>5. QED
        BY <4>3, <4>4
    <3>2. CASE (Flush(g, "debounce", None) \/ Flush(g, "shutdown", None)) /\ UNCHANGED queue
      <4>1. WorkerOK'
        BY <3>2, WorkerFlushes DEF TypeInv
      <4>2. QED
        BY <3>2, <4>1, TypesStay DEF TypeInv
    <3>3. QED
      BY <1>2, <3>1, <3>2 DEF Receive
  <2>2. QED
    BY <1>2, <2>1, TypesStay DEF Receive, TypeInv, data
<1>3. CASE Take(g)
  <2> DEFINE fresh == {k \in Pending(dirty[g]) : persisted[g][k] < dirty[g][k].rev}
  <2>1. /\ taken' = [taken EXCEPT ![g] = [k \in Keys |-> IF k \in fresh THEN dirty[g][k] ELSE None]]
        /\ dirty' = [dirty EXCEPT ![g] = NoDeltas]
        /\ own' = [own EXCEPT ![g].slots = @ - Cardinality(Pending(dirty[g]) \ fresh)]
        /\ WorkerGoto(g, IF fresh = {} THEN "flushed" ELSE "persist")
    BY <1>3 DEF Take
  <2>2. PICK n \in Nat : n = Cardinality(Pending(dirty[g]) \ fresh)
    BY KeySets DEF Pending
  <2>3. OwnOK'
    <3>1. own' = [own EXCEPT ![g].slots = @ - n]
      BY <2>1, <2>2
    <3>2. QED
      BY <3>1 DEF TypeInv, OwnOK, OwnerType
  <2>4. DirtyOK'
    BY <2>1, DeltaType DEF TypeInv, DirtyOK, NoDeltas
  <2>5. TakenOK'
    <3>1. [k \in Keys |-> IF k \in fresh THEN dirty[g][k] ELSE None] \in [Keys -> Deltas]
      BY DeltaType DEF TypeInv, DirtyOK
    <3>2. QED
      BY <2>1, <3>1 DEF TypeInv, TakenOK
  <2>6. WorkerOK'
    BY <2>1 DEF WorkerGoto, TypeInv, WorkerOK, WorkerType, WorkerLabels
  <2>7. QED
    BY <1>3, <2>3, <2>4, <2>5, <2>6, TypesStay DEF Take, TypeInv
<1>4. QED
  BY <1>1, <1>2, <1>3

\* The worker writes.
LEMMA PersistTypes ==
    ASSUME TypeInv, UNCHANGED limits, NEW g \in Owners, Persist(g) \/ Checkpoint(g)
    PROVE  TypeInv'
<1>1. CASE Persist(g)
  <2> DEFINE keys == Pending(taken[g])
             n == Cardinality(Pending(taken[g]))
  <2>1. n \in Nat /\ Retired(g) \in Nat /\ keys \subseteq Keys
    BY KeySets DEF Pending, Retired
  <2>2. TakenOK'
    BY <1>1, DeltaType DEF Persist, TypeInv, TakenOK, NoDeltas
  <2>3. \A S \in SUBSET Keys : Written(g, S) \in [Keys -> Deltas]
    BY DEF Written, TypeInv, TakenOK, DurableOK
  <2>4. /\ taken' = [taken EXCEPT ![g] = NoDeltas]
        /\ UNCHANGED <<slot, memory, guard, queue, threads>>
    BY <1>1 DEF Persist
  <2>5. CASE /\ durable' = Written(g, keys)
             /\ persisted' = [persisted EXCEPT ![g] =
                                [k \in Keys |-> IF k \in keys THEN taken[g][k].rev ELSE @[k]]]
             /\ own' = [own EXCEPT ![g].slots = @ - n]
             /\ wk' = [wk EXCEPT ![g].since = @ + n,
                                 ![g].pc = IF wk[g].since + n >= limits.threshold
                                           THEN "checkpoint" ELSE "flushed"]
             /\ UNCHANGED dirty
    <3>1. DurableOK'
      BY <2>1, <2>3, <2>5 DEF DurableOK
    <3>2. PersistedOK'
      <4>1. \A k \in Keys : (IF k \in keys THEN taken[g][k].rev ELSE persisted[g][k]) \in Nat
        BY DeltaType DEF Pending, TypeInv, TakenOK, PersistedOK
      <4>2. QED
        BY <2>5, <4>1 DEF TypeInv, PersistedOK
    <3>3. OwnOK'
      BY <2>1, <2>5 DEF TypeInv, OwnOK, OwnerType
    <3>4. WorkerOK'
      <4>1. PICK at \in WorkerLabels :
               at = IF wk[g].since + n >= limits.threshold THEN "checkpoint" ELSE "flushed"
        BY DEF WorkerLabels
      <4>2. wk' = [wk EXCEPT ![g].since = @ + n, ![g].pc = at]
        BY <2>5, <4>1
      <4>3. QED
        BY <2>1, <4>2, WorkerWrites DEF TypeInv
    <3>5. QED
      BY <2>2, <2>4, <2>5, <3>1, <3>2, <3>3, <3>4, TypesStay DEF TypeInv
  <2>6. CASE /\ \E some \in SUBSET keys : durable' = Written(g, some)
             /\ dirty' = [dirty EXCEPT ![g] = Restored(g)]
             /\ own' = [own EXCEPT ![g].slots = @ - Retired(g)]
             /\ WorkerGoto(g, "failed")
             /\ UNCHANGED persisted
    <3>1. DurableOK'
      BY <2>1, <2>3, <2>6 DEF DurableOK
    <3>2. DirtyOK'
      <4>1. Restored(g) \in [Keys -> Deltas]
        BY DEF Restored, Newer, TypeInv, DirtyOK, TakenOK
      <4>2. QED
        BY <2>6, <4>1 DEF TypeInv, DirtyOK
    <3>3. OwnOK'
      BY <2>1, <2>6 DEF TypeInv, OwnOK, OwnerType
    <3>4. WorkerOK'
      BY <2>6 DEF WorkerGoto, TypeInv, WorkerOK, WorkerType, WorkerLabels
    <3>5. QED
      BY <2>2, <2>4, <2>6, <3>1, <3>2, <3>3, <3>4, TypesStay DEF TypeInv
  <2>7. QED
    BY <1>1, <2>5, <2>6 DEF Persist
<1>2. CASE Checkpoint(g)
  <2>1. WorkerOK'
    BY <1>2 DEF Checkpoint, WorkerGoto, TypeInv, WorkerOK, WorkerType, WorkerLabels
  <2>2. QED
    BY <1>2, <2>1, TypesStay DEF Checkpoint, TypeInv, data
<1>3. QED
  BY <1>1, <1>2

\* A thread gets its answer.
LEMMA Replied ==
    ASSUME ThreadsOK, UNCHANGED pc, NEW S \in SUBSET Threads, NEW r \in {"ok", "error"},
           \A c \in S : pc[c] = "await",
           fr' = [c \in Threads |-> IF c \in S THEN [fr[c] EXCEPT !.reply = r] ELSE fr[c]]
    PROVE  ThreadsOK'
<1>1. \A c \in S : [fr[c] EXCEPT !.reply = r] \in FrameType
  <2>1. ASSUME NEW f \in FrameType PROVE [f EXCEPT !.reply = r] \in FrameType
    BY DEF FrameType
  <2>2. QED
    BY <2>1 DEF ThreadsOK
<1>2. \A c \in S : /\ [fr[c] EXCEPT !.reply = r].op = fr[c].op
                   /\ [fr[c] EXCEPT !.reply = r].gen = fr[c].gen
  BY DEF ThreadsOK, FrameType
<1>3. \A c \in S : Shape(pc[c], [fr[c] EXCEPT !.reply = r])
  BY <1>2 DEF ThreadsOK, Shape, Stopping
<1>4. QED
  BY <1>1, <1>3 DEF ThreadsOK

\* The receiver goes.
LEMMA HangupTypes ==
    ASSUME TypeInv, NEW g \in Owners, Hangup(g), UNCHANGED pc
    PROVE  QueueOK' /\ WorkerOK' /\ ThreadsOK'
<1>1. QueueOK'
  BY CacheOwnerAssumption DEF Hangup, TypeInv, QueueOK
<1>2. WorkerOK'
  BY WorkerGoes DEF Hangup, TypeInv, WorkerLabels
<1>3. ThreadsOK'
  <2> DEFINE S == {c \in Threads : At(c, "await") /\ \E i \in DOMAIN queue[g] : queue[g][i] = <<"flush", c>>}
  <2>1. fr' = [c \in Threads |-> IF c \in S THEN [fr[c] EXCEPT !.reply = "error"] ELSE fr[c]]
    BY DEF Hangup
  <2>2. S \in SUBSET Threads /\ \A c \in S : pc[c] = "await"
    BY DEF At
  <2>3. QED
    <3> HIDE DEF S
    <3> QED
      BY <2>1, <2>2, Replied DEF TypeInv
<1>4. QED
  BY <1>1, <1>2, <1>3

\* The end of a flush, and of the worker.  Whom it answers waits for the answer.
LEMMA FlushedTypes ==
    ASSUME TypeInv, UNCHANGED limits, NEW g \in Owners,
           \A c \in Threads : wk[g].for = c => pc[c] = "await",
           Flushed(g) \/ Leave(g) \/ Die(g) \/ Exit(g)
    PROVE  TypeInv'
<1>1. CASE Flushed(g)
  <2>1. Result(g) \in {"ok", "error"}
    BY DEF Result
  <2>2. UNCHANGED <<slot, data, taken, persisted, durable, pc>>
    BY <1>1 DEF Flushed
  <2>3. /\ [Worker("poll") EXCEPT !.since = wk[g].since] \in WorkerType
        /\ wk[g].for \in Threads \cup {None}
    BY DEF TypeInv, WorkerOK, WorkerType, Worker, WorkerLabels
  <2>4. CASE /\ wk' = [wk EXCEPT ![g] = [Worker("poll") EXCEPT !.since = wk[g].since]]
             /\ fr' = fr \/ fr' = Answered(wk[g].for, Result(g))
             /\ UNCHANGED <<own, queue>>
    <3>1. WorkerOK'
      BY <2>3, <2>4 DEF TypeInv, WorkerOK
    <3>2. ThreadsOK'
      <4>1. CASE fr' = fr
        BY <2>2, <4>1, TypesStay DEF TypeInv, threads
      <4>2. CASE fr' = Answered(wk[g].for, Result(g)) /\ fr' # fr
        <5>1. PICK c \in Threads : wk[g].for = c
          BY <2>3, <4>2 DEF Answered
        <5>2. fr' = [d \in Threads |-> IF d \in {c} THEN [fr[d] EXCEPT !.reply = Result(g)] ELSE fr[d]]
          BY <4>2, <5>1, CacheOwnerAssumption DEF Answered, TypeInv, ThreadsOK
        <5>3. {c} \in SUBSET Threads /\ \A d \in {c} : pc[d] = "await"
          BY <5>1
        <5>4. QED
          BY <2>1, <2>2, <5>2, <5>3, Replied DEF TypeInv
      <4>3. QED
        BY <2>4, <4>1, <4>2
    <3>3. QED
      BY <2>2, <2>4, <3>1, <3>2, TypesStay DEF TypeInv, data
  <2>5. CASE /\ own' = own \/ own' = [own EXCEPT ![g].completion = Result(g)]
             /\ WorkerGoto(g, "checkpoint") \/ WorkerGoto(g, "leaving")
             /\ UNCHANGED <<fr, queue>>
    <3>1. OwnOK'
      BY <2>1, <2>5 DEF TypeInv, OwnOK, OwnerType
    <3>2. WorkerOK'
      BY <2>5, WorkerGoes DEF TypeInv, WorkerLabels
    <3>3. QED
      BY <2>2, <2>5, <3>1, <3>2, TypesStay DEF TypeInv, data, threads
  <2>6. QED
    BY <1>1, <2>4, <2>5 DEF Flushed
<1>2. CASE Leave(g)
  BY <1>2, HangupTypes, TypesStay DEF Leave, TypeInv, data
<1>3. CASE Die(g)
  BY <1>3, HangupTypes, TypesStay DEF Die, TypeInv, data
<1>4. CASE Exit(g)
  <2>1. WorkerOK'
    BY <1>4, WorkerGoes DEF Exit, TypeInv, WorkerLabels
  <2>2. 0 \in 0..MaxOwners /\ g \in 0..MaxOwners
    BY CacheOwnerAssumption DEF Owners
  <2>3. SlotOK'
    BY <1>4, <2>2 DEF Exit, worker_finished, TypeInv, SlotOK, PhaseType
  <2>4. QED
    BY <1>4, <2>1, <2>3, TypesStay DEF Exit, TypeInv, data
<1>5. QED
  BY <1>1, <1>2, <1>3, <1>4

-----------------------------------------------------------------------------
(* Commands and their answers *)

Flushing == {"take", "persist", "checkpoint", "flushed", "failed"}

\* Thread c waits for the answer of the worker of g.
Asked(g, c) == pc[c] = "await" /\ fr[c].gen = g /\ fr[c].reply = "none"

\* A thread that waits has one command: in the queue, or with the worker.
ForOK ==
    \A g \in Owners, c \in Threads :
        wk[g].for = c => wk[g].why = "flush" /\ wk[g].pc \in Flushing /\ Asked(g, c)

QueuedOK ==
    \A g \in Owners, c \in Threads : \A i \in 1..Len(queue[g]) :
        queue[g][i] = <<"flush", c>> =>
            /\ Asked(g, c) /\ wk[g].for # c
            /\ \A j \in 1..Len(queue[g]) : queue[g][j] = <<"flush", c>> => j = i

CommandInv == ForOK /\ QueuedOK

\* Nothing is asked at first.
LEMMA InitCommands == Init => CommandInv
BY CacheOwnerAssumption DEF Init, CommandInv, ForOK, QueuedOK, Worker

\* A queue that stays, or gets a command that nobody waits for.
Extended(q, r) == r = q \/ r = Append(q, <<"wake">>) \/ r = Append(q, <<"shutdown">>)

LEMMA ExtendedHas ==
    ASSUME NEW q \in Seq(Commands), NEW r \in Seq(Commands), Extended(q, r), NEW c,
           NEW i \in 1..Len(r), r[i] = <<"flush", c>>
    PROVE  i \in 1..Len(q) /\ q[i] = <<"flush", c>>
<1>1. CASE r = q
  BY <1>1
<1>2. CASE r = Append(q, <<"wake">>)
  BY <1>2
<1>3. CASE r = Append(q, <<"shutdown">>)
  BY <1>3
<1>4. QED
  BY <1>1, <1>2, <1>3 DEF Extended

\* Everybody who waits still does, and nothing new is asked.
LEMMA CommandsStay ==
    ASSUME CommandInv, QueueOK, QueueOK', NEW c,
           \A g \in Owners : ~Asked(g, c),
           \A d \in Threads : d # c => pc'[d] = pc[d] /\ fr'[d] = fr[d],
           \A g \in Owners : /\ wk'[g].for # None => wk'[g] = wk[g]
                             /\ Extended(queue[g], queue'[g])
    PROVE  CommandInv'
<1>1. \A g \in Owners, d \in Threads : Asked(g, d) => Asked(g, d)'
  BY DEF Asked
<1>2. ForOK'
  BY <1>1, CacheOwnerAssumption DEF CommandInv, ForOK
<1>3. QueuedOK'
  <2> SUFFICES ASSUME NEW g \in Owners, NEW d \in Threads, NEW i \in 1..Len(queue'[g]),
                      queue'[g][i] = <<"flush", d>>
               PROVE  /\ Asked(g, d)' /\ wk'[g].for # d
                      /\ \A j \in 1..Len(queue'[g]) : queue'[g][j] = <<"flush", d>> => j = i
    BY DEF QueuedOK
  <2>1. queue[g] \in Seq(Commands) /\ queue'[g] \in Seq(Commands) /\ Extended(queue[g], queue'[g])
    BY DEF QueueOK
  <2>2. i \in 1..Len(queue[g]) /\ queue[g][i] = <<"flush", d>>
    BY <2>1, ExtendedHas
  <2>3. \A j \in 1..Len(queue'[g]) : queue'[g][j] = <<"flush", d>> =>
           j \in 1..Len(queue[g]) /\ queue[g][j] = <<"flush", d>>
    BY <2>1, ExtendedHas
  <2>4. QED
    BY <1>1, <2>2, <2>3, CacheOwnerAssumption DEF CommandInv, QueuedOK
<1>4. QED
  BY <1>2, <1>3 DEF CommandInv

\* A thread that is not at "await" waits for no answer.
LEMMA CommandsWalk ==
    ASSUME CommandInv, QueueOK, QueueOK', NEW c \in Threads, pc[c] # "await",
           \A d \in Threads : d # c => pc'[d] = pc[d] /\ fr'[d] = fr[d],
           UNCHANGED <<queue, wk>>
    PROVE  CommandInv'
BY CommandsStay DEF Asked, Extended

\* The steps of threads outside flush.
LEMMA ThreadCommands ==
    ASSUME TypeInv, TypeInv', CommandInv, NEW c \in Threads, Calls(c) \/ (Step(c) /\ ~FlushSend(c))
    PROVE  CommandInv'
<1> USE DEF TypeInv
<1>0. ThreadsOK /\ QueueOK /\ QueueOK'
  OBVIOUS
<1>1. CASE CallOpen(c)
  BY <1>0, <1>1, CommandsWalk DEF CallOpen, Goto, At, ThreadsOK, worker
<1>2. CASE CallCommit(c) \/ CallPrune(c)
  <2>1. PICK op, g, batch, key : Reserve(c, op, g, batch, key)
    BY <1>2 DEF CallCommit, CallPrune
  <2>2. pc[c] # "await" /\ \A d \in Threads : d # c => pc'[d] = pc[d] /\ fr'[d] = fr[d]
    BY <2>1 DEF Reserve, Begin, At, Goto, ThreadsOK, threads
  <2>3. QED
    BY <1>0, <2>1, <2>2, CommandsWalk DEF Reserve, worker
<1>3. CASE CallFlush(c)
  BY <1>0, <1>3, CommandsWalk DEF CallFlush, Begin, Goto, At, ThreadsOK, worker
<1>4. CASE CallShutdown(c)
  <2>1. pc[c] # "await" /\ \A d \in Threads : d # c => pc'[d] = pc[d] /\ fr'[d] = fr[d]
    BY <1>4 DEF CallShutdown, Begin, At, Goto, ThreadsOK
  <2>2. QED
    BY <1>0, <1>4, <2>1, CommandsWalk DEF CallShutdown, worker
<1>5. CASE CallDrop(c)
  BY <1>0, <1>5, CommandsWalk DEF CallDrop, Begin, Goto, At, ThreadsOK, worker
<1>6. CASE OpenShared(c)
  BY <1>0, <1>6, CommandsWalk DEF OpenShared, Return, Goto, At, ThreadsOK, worker
<1>7. CASE OpenVacant(c)
  <2>1. pc[c] # "await" /\ \A d \in Threads : d # c => pc'[d] = pc[d] /\ fr'[d] = fr[d]
    BY <1>7 DEF OpenVacant, Return, Goto, At, ThreadsOK
  <2>2. \A h \in Owners : wk'[h].for # None => wk'[h] = wk[h]
    <3>1. wk' = wk \/ wk' = [wk EXCEPT ![nextGen + 1] = Worker("poll")]
      BY <1>7 DEF OpenVacant
    <3>2. QED
      BY <3>1 DEF WorkerOK, Worker
  <2>3. QED
    BY <1>0, <1>7, <2>1, <2>2, CommandsStay DEF OpenVacant, Asked, Extended
<1>8. CASE Record(c)
  <2>1. pc[c] # "await" /\ \A d \in Threads : d # c => pc'[d] = pc[d] /\ fr'[d] = fr[d]
    BY <1>8 DEF Record, Return, Goto, At, ThreadsOK
  <2>2. queue' = queue \/ queue' = [queue EXCEPT ![fr[c].gen] = Woken(fr[c].gen)]
    BY <1>8 DEF Record
  <2>3. \A h \in Owners : Extended(queue[h], queue'[h])
    BY <2>2 DEF Extended, Woken, QueueOK
  <2>4. QED
    BY <1>0, <1>8, <2>1, <2>3, CommandsStay DEF Record, Asked, worker
<1>9. CASE Publish(c)
  BY <1>0, <1>9, CommandsWalk DEF Publish, Return, Goto, At, ThreadsOK, worker
<1>10. CASE FlushDone(c)
  <2>1. \A g \in Owners : ~Asked(g, c)
    BY <1>10 DEF FlushDone, Asked
  <2>2. QED
    BY <1>0, <1>10, <2>1, CommandsStay DEF FlushDone, Return, Goto, ThreadsOK, worker, Extended
<1>11. CASE StopRequest(c)
  <2>1. pc[c] # "await" /\ \A d \in Threads : d # c => pc'[d] = pc[d] /\ fr'[d] = fr[d]
    BY <1>11 DEF StopRequest, Goto, At, ThreadsOK
  <2>2. QED
    BY <1>0, <1>11, <2>1, CommandsWalk DEF StopRequest, worker
<1>12. CASE StopWait(c)
  <2>1. pc[c] # "await" /\ \A d \in Threads : d # c => pc'[d] = pc[d] /\ fr'[d] = fr[d]
    BY <1>12 DEF StopWait, Return, Goto, At, ThreadsOK
  <2>2. QED
    BY <1>0, <1>12, <2>1, CommandsWalk DEF StopWait, worker
<1>13. CASE StopSend(c)
  <2>1. pc[c] # "await" /\ \A d \in Threads : d # c => pc'[d] = pc[d] /\ fr'[d] = fr[d]
    BY <1>13 DEF StopSend, Return, Goto, At, ThreadsOK
  <2>2. queue' = queue \/ queue' = [queue EXCEPT ![fr[c].gen] = Append(@, <<"shutdown">>)]
    BY <1>13 DEF StopSend, Send
  <2>3. \A h \in Owners : Extended(queue[h], queue'[h])
    BY <2>2 DEF Extended, QueueOK
  <2>4. QED
    BY <1>0, <1>13, <2>1, <2>3, CommandsStay DEF StopSend, Asked, worker
<1>14. CASE StopAwait(c)
  <2>1. pc[c] # "await" /\ \A d \in Threads : d # c => pc'[d] = pc[d] /\ fr'[d] = fr[d]
    BY <1>14 DEF StopAwait, Return, Goto, At, ThreadsOK
  <2>2. QED
    BY <1>0, <1>14, <2>1, CommandsWalk DEF StopAwait, worker
<1>15. CASE StopJoin(c)
  BY <1>0, <1>15, CommandsWalk DEF StopJoin, Goto, At, ThreadsOK, worker
<1>16. CASE StopComplete(c)
  BY <1>0, <1>16, CommandsWalk DEF StopComplete, Return, Goto, At, ThreadsOK, worker
<1>17. CASE DropReference(c)
  BY <1>0, <1>17, CommandsWalk DEF DropReference, Return, Goto, At, ThreadsOK, worker
<1>18. CASE DropRelease(c)
  BY <1>0, <1>18, CommandsWalk DEF DropRelease, Goto, At, ThreadsOK, worker
<1>19. CASE DropSignal(c)
  <2>1. pc[c] # "await" /\ \A d \in Threads : d # c => pc'[d] = pc[d] /\ fr'[d] = fr[d]
    BY <1>19 DEF DropSignal, Return, Goto, At, ThreadsOK
  <2>2. queue' = queue \/ queue' = [queue EXCEPT ![fr[c].gen] = Append(@, <<"shutdown">>)]
    BY <1>19 DEF DropSignal
  <2>3. \A h \in Owners : Extended(queue[h], queue'[h])
    BY <2>2 DEF Extended, QueueOK
  <2>4. QED
    BY <1>0, <1>19, <2>1, <2>3, CommandsStay DEF DropSignal, Asked, worker
<1>20. QED
  BY <1>1, <1>2, <1>3, <1>4, <1>5, <1>6, <1>7, <1>8, <1>9, <1>10, <1>11, <1>12, <1>13, <1>14,
     <1>15, <1>16, <1>17, <1>18, <1>19 DEF Calls, Step

\* A flush is sent, or given up.
LEMMA FlushCommands ==
    ASSUME TypeInv, TypeInv', CommandInv, NEW c \in Threads, FlushSend(c) \/ FlushExpires(c)
    PROVE  CommandInv'
<1>0. ThreadsOK /\ QueueOK /\ QueueOK' /\ WorkerOK
  BY DEF TypeInv
<1>g. PICK g \in Owners : g = fr[c].gen
  BY <1>0 DEF FlushSend, FlushExpires, At, ThreadsOK, Shape
<1>1. CASE FlushSend(c)
  <2>1. /\ pc[c] = "flush" /\ g \in Owners /\ fr[c].reply = "none" /\ UNCHANGED wk
        /\ \A d \in Threads : d # c => pc'[d] = pc[d] /\ fr'[d] = fr[d]
    BY <1>0, <1>g, <1>1 DEF FlushSend, Return, Goto, At, ThreadsOK, Shape, worker
  <2>2. CASE UNCHANGED queue
    BY <1>0, <2>1, <2>2, CommandsWalk
  <2>3. CASE Send(c, g, <<"flush", c>>) /\ Goto(c, "await") /\ UNCHANGED fr
    <3>1. pc'[c] = "await" /\ fr'[c].gen = g /\ fr'[c].reply = "none"
      BY <1>0, <1>g, <2>1, <2>3 DEF Goto, ThreadsOK
    <3>2. \A h \in Owners, d \in Threads : Asked(h, d) => d # c /\ Asked(h, d)'
      BY <2>1 DEF Asked
    <3>3. ForOK'
      BY <2>1, <3>2 DEF CommandInv, ForOK
    <3>4. QueuedOK'
      <4> SUFFICES ASSUME NEW h \in Owners, NEW d \in Threads, NEW i \in 1..Len(queue'[h]),
                          queue'[h][i] = <<"flush", d>>
                   PROVE  /\ Asked(h, d)' /\ wk'[h].for # d
                          /\ \A j \in 1..Len(queue'[h]) : queue'[h][j] = <<"flush", d>> => j = i
        BY DEF QueuedOK
      <4>1. queue[h] \in Seq(Commands)
        BY <1>0 DEF QueueOK
      <4>2. CASE h # g
        <5>1. queue'[h] = queue[h]
          BY <1>0, <2>1, <2>3, <4>2 DEF Send, QueueOK
        <5>2. QED
          BY <2>1, <3>2, <5>1 DEF CommandInv, QueuedOK
      <4>3. CASE h = g
        <5>1. queue'[g] = Append(queue[g], <<"flush", c>>)
          BY <1>0, <2>1, <2>3 DEF Send, QueueOK
        <5>2. \A j \in 1..Len(queue[g]) : queue[g][j] # <<"flush", c>>
          BY <2>1 DEF CommandInv, QueuedOK, Asked
        <5>3. /\ Len(queue'[g]) = Len(queue[g]) + 1 /\ Len(queue[g]) \in Nat
              /\ queue'[g][Len(queue[g]) + 1] = <<"flush", c>>
              /\ \A j \in 1..Len(queue[g]) : queue'[g][j] = queue[g][j]
          BY <4>1, <4>3, <5>1
        <5>4. CASE i = Len(queue[g]) + 1
          <6>1. d = c
            BY <4>3, <5>3, <5>4
          <6>2. Asked(g, c)' /\ wk'[g].for # c
            BY <2>1, <3>1 DEF Asked, CommandInv, ForOK
          <6>3. \A j \in 1..Len(queue'[g]) : queue'[g][j] = <<"flush", c>> => j = i
            BY <5>2, <5>3, <5>4
          <6>4. QED
            BY <4>3, <6>1, <6>2, <6>3
        <5>5. CASE i # Len(queue[g]) + 1
          <6>1. i \in 1..Len(queue[g]) /\ queue[g][i] = <<"flush", d>>
            BY <4>3, <5>3, <5>5
          <6>2. /\ Asked(g, d) /\ wk[g].for # d
                /\ \A j \in 1..Len(queue[g]) : queue[g][j] = <<"flush", d>> => j = i
            BY <2>1, <6>1 DEF CommandInv, QueuedOK
          <6>3. <<"flush", d>> # <<"flush", c>>
            BY <5>2, <6>1
          <6>4. \A j \in 1..Len(queue'[g]) : queue'[g][j] = <<"flush", d>> => j = i
            <7> SUFFICES ASSUME NEW j \in 1..Len(queue'[g]), queue'[g][j] = <<"flush", d>>
                         PROVE  j = i
              OBVIOUS
            <7>1. j # Len(queue[g]) + 1
              BY <5>3, <6>3
            <7>2. j \in 1..Len(queue[g])
              BY <5>3, <7>1
            <7>3. QED
              BY <5>3, <6>2, <7>2
          <6>5. Asked(g, d)' /\ wk'[g].for # d
            BY <2>1, <3>2, <6>2
          <6>6. QED
            BY <4>3, <6>4, <6>5
        <5>6. QED
          BY <5>4, <5>5
      <4>4. QED
        BY <4>2, <4>3
    <3>5. QED
      BY <3>3, <3>4 DEF CommandInv
  <2>4. QED
    BY <1>g, <1>1, <2>2, <2>3 DEF FlushSend
<1>2. CASE FlushExpires(c)
  <2>1. /\ pc[c] = "await" /\ g \in Owners
        /\ queue' = [queue EXCEPT ![g] =
                       [i \in DOMAIN @ |-> IF @[i] = <<"flush", c>> THEN <<"flush", None>> ELSE @[i]]]
        /\ wk' = [wk EXCEPT ![g].for = IF @ = c THEN None ELSE @]
        /\ \A d \in Threads : d # c => pc'[d] = pc[d] /\ fr'[d] = fr[d]
    BY <1>0, <1>g, <1>2 DEF FlushExpires, Return, Goto, At, ThreadsOK, Shape
  <2>2. \A h \in Owners, d \in Threads : d # c /\ Asked(h, d) => Asked(h, d)'
    BY <2>1 DEF Asked
  <2>3. \A h \in Owners : /\ wk'[h].why = wk[h].why /\ wk'[h].pc = wk[h].pc
                          /\ wk'[h].for = IF h = g /\ wk[h].for = c THEN None ELSE wk[h].for
    BY <1>0, <2>1 DEF WorkerOK, WorkerType
  <2>4. \A h \in Owners : wk'[h].for # c
    BY <1>g, <2>1, <2>3, CacheOwnerAssumption DEF CommandInv, ForOK, Asked
  <2>5. ForOK'
    BY <2>2, <2>3, <2>4, CacheOwnerAssumption DEF CommandInv, ForOK
  <2>6. \A h \in Owners : \A i \in 1..Len(queue'[h]) :
           /\ i \in 1..Len(queue[h])
           /\ queue'[h][i] # <<"flush", c>>
           /\ \A d \in Threads : queue'[h][i] = <<"flush", d>> => queue[h][i] = <<"flush", d>>
    <3> SUFFICES ASSUME NEW h \in Owners, NEW i \in 1..Len(queue'[h])
                 PROVE  /\ i \in 1..Len(queue[h])
                        /\ queue'[h][i] # <<"flush", c>>
                        /\ \A d \in Threads : queue'[h][i] = <<"flush", d>> =>
                              queue[h][i] = <<"flush", d>>
      OBVIOUS
    <3>1. CASE h # g
      <4>1. queue'[h] = queue[h]
        BY <1>0, <2>1, <3>1 DEF QueueOK
      <4>2. QED
        BY <1>g, <2>1, <3>1, <4>1 DEF CommandInv, QueuedOK, Asked
    <3>2. CASE h = g
      <4>1. queue[g] \in Seq(Commands) /\ queue'[g] \in Seq(Commands)
        BY <1>0, <2>1 DEF QueueOK
      <4>2. queue'[g] = [j \in 1..Len(queue[g]) |->
                           IF queue[g][j] = <<"flush", c>> THEN <<"flush", None>> ELSE queue[g][j]]
        <5>1. DOMAIN queue[g] = 1..Len(queue[g])
          BY <4>1
        <5>2. queue'[g] = [j \in DOMAIN queue[g] |->
                IF queue[g][j] = <<"flush", c>> THEN <<"flush", None>> ELSE queue[g][j]]
          BY <1>0, <2>1 DEF QueueOK
        <5>3. QED
          BY <5>1, <5>2
      <4>3. i \in 1..Len(queue[g])
        BY <3>2, <4>1, <4>2
      <4>4. queue'[g][i] = IF queue[g][i] = <<"flush", c>> THEN <<"flush", None>> ELSE queue[g][i]
        BY <4>2, <4>3
      <4>5. \A d \in Threads : <<"flush", None>> # <<"flush", d>>
        BY CacheOwnerAssumption
      <4>6. QED
        BY <3>2, <4>3, <4>4, <4>5
    <3>3. QED
      BY <3>1, <3>2
  <2>7. QueuedOK'
    <3> SUFFICES ASSUME NEW h \in Owners, NEW d \in Threads, NEW i \in 1..Len(queue'[h]),
                        queue'[h][i] = <<"flush", d>>
                 PROVE  /\ Asked(h, d)' /\ wk'[h].for # d
                        /\ \A j \in 1..Len(queue'[h]) : queue'[h][j] = <<"flush", d>> => j = i
      BY DEF QueuedOK
    <3>1. i \in 1..Len(queue[h]) /\ queue[h][i] = <<"flush", d>> /\ d # c
      BY <2>6
    <3>2. /\ Asked(h, d) /\ wk[h].for # d
          /\ \A j \in 1..Len(queue[h]) : queue[h][j] = <<"flush", d>> => j = i
      BY <3>1 DEF CommandInv, QueuedOK
    <3>3. QED
      BY <2>2, <2>3, <2>6, <3>1, <3>2, CacheOwnerAssumption
  <2>8. QED
    BY <2>5, <2>7 DEF CommandInv
<1>3. QED
  BY <1>1, <1>2

\* The worker takes commands from the front of its queue.
LEMMA QueueShifts ==
    ASSUME CommandInv, NEW g \in Owners, NEW n \in Nat,
           \A i \in 1..Len(queue'[g]) :
              i + n \in 1..Len(queue[g]) /\ queue'[g][i] = queue[g][i + n],
           \A h \in Owners : h # g => wk'[h] = wk[h] /\ queue'[h] = queue[h],
           \A h \in Owners, d \in Threads : Asked(h, d) => Asked(h, d)',
           \A d \in Threads : wk'[g].for = d =>
              \A i \in 1..Len(queue'[g]) : queue'[g][i] # <<"flush", d>>
    PROVE  QueuedOK'
<1> SUFFICES ASSUME NEW h \in Owners, NEW d \in Threads, NEW i \in 1..Len(queue'[h]),
                    queue'[h][i] = <<"flush", d>>
             PROVE  /\ Asked(h, d)' /\ wk'[h].for # d
                    /\ \A j \in 1..Len(queue'[h]) : queue'[h][j] = <<"flush", d>> => j = i
  BY DEF QueuedOK
<1>1. CASE h # g
  BY <1>1 DEF CommandInv, QueuedOK
<1>2. CASE h = g
  <2>1. i + n \in 1..Len(queue[g]) /\ queue[g][i + n] = <<"flush", d>>
    BY <1>2
  <2>2. /\ Asked(g, d)
        /\ \A j \in 1..Len(queue[g]) : queue[g][j] = <<"flush", d>> => j = i + n
    BY <2>1 DEF CommandInv, QueuedOK
  <2>3. \A j \in 1..Len(queue'[g]) : queue'[g][j] = <<"flush", d>> => j + n = i + n
    BY <2>2
  <2>4. \A j \in 1..Len(queue'[g]) : queue'[g][j] = <<"flush", d>> => j = i
    BY <1>2, <2>3
  <2>5. QED
    BY <1>2, <2>2, <2>4
<1>3. QED
  BY <1>1, <1>2

\* The worker begins, continues or ends a flush that nobody waits for.
LEMMA WorkerCommands ==
    ASSUME TypeInv, TypeInv', CommandInv, NEW g \in Owners, Work(g) \/ Die(g)
    PROVE  CommandInv'
<1>0. ThreadsOK /\ QueueOK /\ QueueOK' /\ WorkerOK
  BY DEF TypeInv
<1> DEFINE Goes(at) == /\ wk'[g].pc = at /\ wk'[g].for = wk[g].for /\ wk'[g].why = wk[g].why
                       /\ \A h \in Owners : h # g => wk'[h] = wk[h]
<1>1. \A at \in WorkerLabels : WorkerGoto(g, at) => Goes(at)
  BY <1>0 DEF WorkerGoto, WorkerOK, WorkerType
<1>2. ASSUME UNCHANGED <<pc, fr, queue>>, NEW at \in Flushing, Goes(at)
      PROVE  CommandInv'
  <2>1. \A h \in Owners, d \in Threads : Asked(h, d) => Asked(h, d)'
    BY <1>2 DEF Asked
  <2>2. ForOK'
    BY <1>2, <2>1 DEF CommandInv, ForOK
  <2>3. QueuedOK'
    BY <1>2, <2>1 DEF CommandInv, QueuedOK
  <2>4. QED
    BY <2>2, <2>3 DEF CommandInv
<1>3. ASSUME UNCHANGED <<pc, fr, queue>>, NEW at, Goes(at), wk[g].pc \notin Flushing
      PROVE  CommandInv'
  <2>1. \A h \in Owners, d \in Threads : Asked(h, d) => Asked(h, d)'
    BY <1>3 DEF Asked
  <2>2. ForOK'
    BY <1>3, <2>1 DEF CommandInv, ForOK
  <2>3. QueuedOK'
    BY <1>3, <2>1 DEF CommandInv, QueuedOK
  <2>4. QED
    BY <2>2, <2>3 DEF CommandInv
<1>4. CASE Poll(g)
  <2>1. PICK at \in WorkerLabels : WorkerGoto(g, at)
    BY <1>4 DEF Poll, WorkerLabels
  <2>2. wk[g].pc \notin Flushing /\ UNCHANGED <<pc, fr, queue>>
    BY <1>4 DEF Poll, Flushing, threads
  <2>3. QED
    BY <1>1, <1>3, <2>1, <2>2
<1>5. CASE Take(g) \/ Persist(g) \/ Checkpoint(g)
  <2>1. wk[g].pc \in Flushing /\ UNCHANGED <<pc, fr, queue>>
    BY <1>5 DEF Take, Persist, Checkpoint, Flushing, threads
  <2>2. \E at \in Flushing : Goes(at)
    BY <1>0, <1>5 DEF Take, Persist, Checkpoint, WorkerGoto, WorkerOK, WorkerType, Flushing
  <2>3. QED
    BY <1>2, <2>1, <2>2
<1>6. CASE Exit(g)
  <2>1. WorkerGoto(g, "finished") /\ wk[g].pc \notin Flushing /\ UNCHANGED <<pc, fr, queue>>
    BY <1>6 DEF Exit, Flushing, threads
  <2>2. QED
    BY <1>1, <1>3, <2>1 DEF WorkerLabels
<1>7. CASE Leave(g) \/ Die(g)
  <2>1. Hangup(g) /\ wk[g].pc \notin Flushing /\ UNCHANGED pc
    BY <1>7 DEF Leave, Die, Flushing
  <2>2. Goes("exiting")
    BY <1>1, <2>1 DEF Hangup, WorkerLabels
  <2>3. \A d \in Threads : wk[g].for # d
    BY <2>1 DEF CommandInv, ForOK
  <2>4. \A h \in Owners, d \in Threads : h # g /\ Asked(h, d) => Asked(h, d)'
    <3>1. DOMAIN queue[g] = 1..Len(queue[g])
      BY <1>0 DEF QueueOK
    <3>2. \A d \in Threads : \A i \in DOMAIN queue[g] : queue[g][i] = <<"flush", d>> => Asked(g, d)
      BY <3>1 DEF CommandInv, QueuedOK
    <3>3. \A d \in Threads : ~Asked(g, d) => fr'[d] = fr[d]
      BY <2>1, <3>2 DEF Hangup
    <3>4. QED
      BY <2>1, <3>3 DEF Asked
  <2>5. ForOK'
    BY <2>2, <2>3, <2>4 DEF CommandInv, ForOK
  <2>6. queue'[g] = <<>> /\ \A h \in Owners : h # g => queue'[h] = queue[h]
    BY <1>0, <2>1 DEF Hangup, QueueOK
  <2>7. QueuedOK'
    BY <2>2, <2>4, <2>6 DEF CommandInv, QueuedOK
  <2>8. QED
    BY <2>5, <2>7 DEF CommandInv
<1>8. CASE Flushed(g)
  <2>1. UNCHANGED <<pc, queue>> /\ wk[g].pc \in Flushing
    BY <1>8 DEF Flushed, Flushing
  <2>2. CASE fr' = fr /\ WorkerGoto(g, "checkpoint")
    BY <1>1, <1>2, <2>1, <2>2 DEF Flushing, WorkerLabels
  <2>3. ASSUME \/ wk[g].why # "flush" /\ fr' = fr
               \/ wk[g].why = "flush" /\ fr' = Answered(wk[g].for, Result(g)),
               \/ wk'[g].for = None
               \/ wk'[g].for = wk[g].for /\ wk[g].why # "flush",
               \A h \in Owners : h # g => wk'[h] = wk[h]
        PROVE  CommandInv'
    <3>1. \A d \in Threads : wk'[g].for # d
      BY <2>3, CacheOwnerAssumption DEF CommandInv, ForOK
    <3>2. \A h \in Owners, d \in Threads : wk[g].for # d /\ Asked(h, d) => Asked(h, d)'
      BY <1>0, <2>1, <2>3 DEF Asked, Answered, ThreadsOK
    <3>3. \A h \in Owners, d \in Threads : h # g /\ Asked(h, d) => wk[g].for # d
      BY DEF CommandInv, ForOK, Asked
    <3>4. ForOK'
      BY <2>3, <3>1, <3>2, <3>3 DEF CommandInv, ForOK
    <3>5. QueuedOK'
      BY <2>1, <2>3, <3>1, <3>2, <3>3 DEF CommandInv, QueuedOK
    <3>6. QED
      BY <3>4, <3>5 DEF CommandInv
  <2>4. \A h \in Owners : h # g => wk'[h] = wk[h]
    BY <1>0, <1>8 DEF Flushed, WorkerGoto, WorkerOK
  <2>5. CASE /\ wk' = [wk EXCEPT ![g] = [Worker("poll") EXCEPT !.since = wk[g].since]]
             /\ wk[g].why = "flush" /\ fr' = Answered(wk[g].for, Result(g))
    <3>1. wk'[g].for = None
      BY <1>0, <2>5 DEF Worker, WorkerOK
    <3>2. QED
      BY <2>3, <2>4, <2>5, <3>1
  <2>6. CASE /\ wk' = [wk EXCEPT ![g] = [Worker("poll") EXCEPT !.since = wk[g].since]]
             /\ wk[g].why = "debounce" /\ fr' = fr
    <3>1. wk'[g].for = None
      BY <1>0, <2>6 DEF Worker, WorkerOK
    <3>2. QED
      BY <2>3, <2>4, <2>6, <3>1
  <2>7. CASE WorkerGoto(g, "leaving") /\ wk[g].why # "flush" /\ fr' = fr
    <3>1. wk'[g].for = wk[g].for
      BY <1>1, <2>7 DEF WorkerLabels
    <3>2. QED
      BY <2>3, <2>4, <2>7, <3>1
  <2>8. QED
    BY <1>8, <2>2, <2>5, <2>6, <2>7 DEF Flushed
<1>9. CASE Receive(g)
  <2>1. UNCHANGED <<pc, fr>> /\ wk[g].pc \notin Flushing
    BY <1>9 DEF Receive, Flushing, threads
  <2>2. \A d \in Threads : wk[g].for # d
    BY <2>1 DEF CommandInv, ForOK
  <2>3. \A h \in Owners, d \in Threads : Asked(h, d) => Asked(h, d)'
    BY <2>1 DEF Asked
  <2>4. \A h \in Owners : h # g => wk'[h] = wk[h] /\ queue'[h] = queue[h]
    BY <1>0, <1>9 DEF Receive, WorkerGoto, Flush, WorkerOK, QueueOK
  <2>5. queue[g] \in Seq(Commands)
    BY <1>0 DEF QueueOK
  <2>6. ASSUME wk'[g].for = None \/ wk'[g].for = wk[g].for,
               queue'[g] = queue[g] \/ (queue[g] # <<>> /\ queue'[g] = Tail(queue[g]))
        PROVE  CommandInv'
    <3>1. \A d \in Threads : wk'[g].for # d
      BY <2>2, <2>6, CacheOwnerAssumption
    <3>2. ForOK'
      BY <2>3, <2>4, <3>1 DEF CommandInv, ForOK
    <3>3. QueuedOK'
      <4>1. CASE queue'[g] = queue[g]
        <5>1. \A i \in 1..Len(queue'[g]) :
                 i + 0 \in 1..Len(queue[g]) /\ queue'[g][i] = queue[g][i + 0]
          BY <4>1
        <5>2. QED
          BY <2>3, <2>4, <3>1, <5>1, QueueShifts
      <4>2. CASE queue[g] # <<>> /\ queue'[g] = Tail(queue[g])
        <5>1. \A i \in 1..Len(queue'[g]) :
                 i + 1 \in 1..Len(queue[g]) /\ queue'[g][i] = queue[g][i + 1]
          BY <2>5, <4>2
        <5>2. QED
          BY <2>3, <2>4, <3>1, <5>1, QueueShifts
      <4>3. QED
        BY <2>6, <4>1, <4>2
    <3>4. QED
      BY <3>2, <3>3 DEF CommandInv
  <2>7. CASE /\ queue[g] # <<>>
             /\ queue' = [queue EXCEPT ![g] = Tail(@)]
             /\ \E c \in Threads : Head(queue[g]) = <<"flush", c>> /\ Flush(g, "flush", c)
    <3>1. PICK c \in Threads : Head(queue[g]) = <<"flush", c>> /\ Flush(g, "flush", c)
      BY <2>7
    <3>2. wk'[g].for = c /\ wk'[g].why = "flush" /\ wk'[g].pc = "take"
      BY <1>0, <3>1 DEF Flush, WorkerOK, WorkerType
    <3>3. Len(queue[g]) # 0 /\ Len(queue[g]) \in Nat
      BY <2>5, <2>7
    <3>4. 1 \in 1..Len(queue[g]) /\ queue[g][1] = <<"flush", c>>
      BY <2>5, <3>1, <3>3
    <3>5. Asked(g, c) /\ \A j \in 1..Len(queue[g]) : queue[g][j] = <<"flush", c>> => j = 1
      BY <3>4 DEF CommandInv, QueuedOK
    <3>6. ForOK'
      BY <2>3, <2>4, <3>2, <3>5 DEF CommandInv, ForOK, Flushing
    <3>7. queue'[g] = Tail(queue[g])
      BY <1>0, <2>7 DEF QueueOK
    <3>8. \A i \in 1..Len(queue'[g]) : i + 1 \in 1..Len(queue[g]) /\ queue'[g][i] = queue[g][i + 1]
      BY <2>5, <3>3, <3>7
    <3>9. ASSUME NEW i \in 1..Len(queue'[g]) PROVE queue'[g][i] # <<"flush", c>>
      <4>1. i + 1 \in 1..Len(queue[g]) /\ queue'[g][i] = queue[g][i + 1] /\ i + 1 # 1
        BY <3>8
      <4>2. QED
        BY <3>5, <4>1
    <3>10. QueuedOK'
      BY <2>3, <2>4, <3>2, <3>8, <3>9, QueueShifts
    <3>11. QED
      BY <3>6, <3>10 DEF CommandInv
  <2>8. CASE /\ queue[g] # <<>>
             /\ queue' = [queue EXCEPT ![g] = Tail(@)]
             /\ WorkerGoto(g, "poll") \/ Flush(g, "flush", None) \/ Flush(g, "shutdown", None)
    <3>1. wk'[g].for = None \/ wk'[g].for = wk[g].for
      BY <1>0, <2>8 DEF Flush, WorkerGoto, WorkerOK, WorkerType
    <3>2. queue'[g] = Tail(queue[g])
      BY <1>0, <2>8 DEF QueueOK
    <3>3. QED
      BY <2>6, <2>8, <3>1, <3>2
  <2>9. CASE (Flush(g, "debounce", None) \/ Flush(g, "shutdown", None)) /\ UNCHANGED queue
    <3>1. wk'[g].for = None
      BY <1>0, <2>9 DEF Flush, WorkerOK, WorkerType
    <3>2. QED
      BY <2>6, <2>9, <3>1
  <2>10. QED
    BY <1>9, <2>7, <2>8, <2>9 DEF Receive
<1>10. QED
  BY <1>4, <1>5, <1>6, <1>7, <1>8, <1>9 DEF Work

\* Types and commands, together.
LEMMA TypesStep ==
    ASSUME TypeInv, CommandInv, Next
    PROVE  TypeInv' /\ CommandInv'
<1>0. UNCHANGED limits
  BY DEF Next
<1>1. CASE \E c \in Threads : Calls(c) \/ Step(c) \/ FlushExpires(c)
  <2>1. PICK c \in Threads : Calls(c) \/ Step(c) \/ FlushExpires(c)
    BY <1>1
  <2>2. TypeInv'
    <3>1. CASE CallCommit(c)
      <4>1. PICK g \in Owners, k \in limits.keys : \E expired \in SUBSET (Present(g) \ {k}) :
               Reserve(c, "commit", g, expired \cup {k}, k)
        BY <3>1 DEF CallCommit
      <4>2. PICK expired \in SUBSET (Present(g) \ {k}) : Reserve(c, "commit", g, expired \cup {k}, k)
        BY <4>1
      <4>3. k \in Keys /\ expired \cup {k} \in SUBSET Keys
        BY CacheOwnerAssumption DEF Present, TypeInv, LimitsOK
      <4>4. QED
        BY <1>0, <4>2, <4>3, ReserveTypes
    <3>2. CASE CallPrune(c)
      <4>1. PICK g \in Owners : \E pruned \in SUBSET Present(g) : Reserve(c, "prune", g, pruned, None)
        BY <3>2 DEF CallPrune
      <4>2. PICK pruned \in SUBSET Present(g) : Reserve(c, "prune", g, pruned, None)
        BY <4>1
      <4>3. pruned \in SUBSET Keys
        BY DEF Present
      <4>4. QED
        BY <1>0, <4>2, <4>3, ReserveTypes
    <3>3. CASE ~(CallCommit(c) \/ CallPrune(c))
      BY <1>0, <2>1, <3>3, OpenTypes, RecordTypes, PublishTypes, FlushTypes, StopTypes, DropTypes
         DEF Calls, Step
    <3>4. QED
      BY <3>1, <3>2, <3>3
  <2>3. QED
    BY <2>1, <2>2, ThreadCommands, FlushCommands
<1>2. CASE \E g \in Owners : Work(g) \/ Die(g)
  <2>1. PICK g \in Owners : Work(g) \/ Die(g)
    BY <1>2
  <2>2. \A c \in Threads : wk[g].for = c => pc[c] = "await"
    BY DEF CommandInv, ForOK, Asked
  <2>3. TypeInv'
    BY <1>0, <2>1, <2>2, LoopTypes, PersistTypes, FlushedTypes DEF Work
  <2>4. QED
    BY <2>1, <2>3, WorkerCommands
<1>3. QED
  BY <1>1, <1>2 DEF Next

LEMMA TypesStutter == TypeInv /\ CommandInv /\ UNCHANGED vars => TypeInv' /\ CommandInv'
<1> SUFFICES ASSUME TypeInv, CommandInv, UNCHANGED vars PROVE TypeInv' /\ CommandInv'
  OBVIOUS
<1>1. TypeInv'
  BY TypesStay DEF TypeInv, vars, moves, data, worker
<1>2. CommandInv'
  BY DEF CommandInv, ForOK, QueuedOK, Asked, vars, moves, worker, threads
<1>3. QED
  BY <1>1, <1>2

-----------------------------------------------------------------------------
(* The fence of the root *)

Droppers(g) == {c \in Threads : pc[c] = "drop" /\ fr[c].gen = g}

\* Labels of a thread that holds a handle.
Borrowing == Labels \ {"idle", "open", "drop", "release", "signal"}

Ended == {"leaving", "exiting", "finished"}

PhaseOK == phase.kind # "Vacant" => phase.gen = nextGen

\* A generation to come, the references to an owner, and what is left of it once
\* it is complete or detached.
OwnerOK(g) ==
    /\ g > nextGen => /\ wk[g].pc = "none" /\ own[g].completion = "none"
                      /\ own[g].count = 0 /\ own[g].strong = 0
    /\ own[g].strong = own[g].count + Cardinality(Droppers(g))
    /\ own[g].completion # "none" => wk[g].pc \in Ended
    /\ own[g].joinable \/ own[g].completion # "none" \/ Finished(g) \/ own[g].strong = 0

\* What a thread knows of the owner that it works on.
CallerOK(c) ==
    /\ fr[c].gen <= nextGen
    /\ pc[c] \in Borrowing => own[fr[c].gen].count > 0
    /\ pc[c] \in {"release", "signal"} => own[fr[c].gen].strong = 0
    /\ pc[c] \in {"stop_join", "stop_complete"} /\ fr[c].reply = "ok" => ~Working(fr[c].gen)

FenceInv ==
    /\ PhaseOK
    /\ RootFenced
    /\ \A g \in Owners : OwnerOK(g)
    /\ \A c \in Threads : CallerOK(c)

\* Those who drop a handle are finitely many.
LEMMA DropperSets == \A g : IsFiniteSet(Droppers(g)) /\ Cardinality(Droppers(g)) \in Nat
<1>1. \A g : Droppers(g) \subseteq Threads
  BY DEF Droppers
<1>2. QED
  BY <1>1, CacheOwnerAssumption, FS_Subset, FS_CardinalityType

LEMMA InitFence == ASSUME Init PROVE FenceInv
<1>1. TypeInv
  BY InitTypes
<1>2. \A g \in Owners : Droppers(g) = {}
  BY DEF Init, Droppers
<1>3. \A g \in Owners : Cardinality(Droppers(g)) = 0
  BY <1>2, FS_EmptySet
<1>4. \A g \in Owners : OwnerOK(g)
  BY <1>3 DEF Init, OwnerOK, Opened, Unopened, Owner, Worker, Owners
<1>5. \A c \in Threads : CallerOK(c)
  BY DEF Init, CallerOK, NoFrame, Borrowing
<1>6. RootFenced
  BY DEF Init, RootFenced, Working, Worker
<1>7. PhaseOK
  BY DEF Init, PhaseOK
<1>8. QED
  BY <1>4, <1>5, <1>6, <1>7 DEF FenceInv

\* What the fence depends on of an owner.
SameOwner(o, p) ==
    /\ p.count = o.count /\ p.strong = o.strong
    /\ p.joinable = o.joinable /\ p.completion = o.completion

SameHandles(o, p) == p.count = o.count /\ p.strong = o.strong /\ p.completion = o.completion

\* The worker of g is gone or goes, or nobody can ask for it.
Detached(g) == own[g].completion # "none" \/ Finished(g) \/ own[g].strong = 0

\* A thread that drops no handle moves; phase and handles stay.
LEMMA FenceMoves ==
    ASSUME TypeInv, FenceInv, UNCHANGED slot, NEW c \in Threads, CallerOK(c)',
           \A d \in Threads : d # c => pc'[d] = pc[d] /\ fr'[d] = fr[d],
           pc[c] # "drop", pc'[c] # "drop",
           \A g \in Owners : /\ SameHandles(own[g], own'[g]) /\ wk'[g].pc = wk[g].pc
                             /\ own'[g].joinable = own[g].joinable \/ Detached(g)
    PROVE  FenceInv'
<1>1. \A g \in Owners : (Droppers(g))' = Droppers(g)
  BY DEF Droppers
<1>2. \A g \in Owners : OwnerOK(g)'
  BY <1>1 DEF FenceInv, OwnerOK, SameHandles, Detached, slot, Finished
<1>3. \A d \in Threads : CallerOK(d)'
  <2> SUFFICES ASSUME NEW d \in Threads, d # c PROVE CallerOK(d)'
    OBVIOUS
  <2>1. CASE pc[d] \in {"idle", "open"}
    BY <2>1 DEF FenceInv, CallerOK, slot, Borrowing
  <2>2. CASE pc[d] \notin {"idle", "open"}
    <3>1. fr[d].gen \in Owners
      BY <2>2 DEF TypeInv, ThreadsOK, Shape
    <3>2. QED
      BY <3>1 DEF FenceInv, CallerOK, slot, SameHandles, Working
  <2>3. QED
    BY <2>1, <2>2
<1>4. RootFenced'
  BY DEF FenceInv, RootFenced, Working, slot
<1>5. QED
  BY <1>2, <1>3, <1>4 DEF FenceInv, PhaseOK, slot

\* The same, and the owners stay.
LEMMA FenceWalk ==
    ASSUME TypeInv, FenceInv, UNCHANGED slot, NEW c \in Threads, CallerOK(c)',
           \A d \in Threads : d # c => pc'[d] = pc[d] /\ fr'[d] = fr[d],
           pc[c] # "drop", pc'[c] # "drop",
           \A g \in Owners : SameOwner(own[g], own'[g]) /\ wk'[g].pc = wk[g].pc
    PROVE  FenceInv'
BY FenceMoves DEF SameOwner, SameHandles

\* A thread that returns knows nothing.
LEMMA CallerReturns ==
    ASSUME TypeInv, TypeInv', NEW c \in Threads, Return(c)
    PROVE  CallerOK(c)' /\ pc'[c] = "idle" /\ \A d \in Threads : d # c => pc'[d] = pc[d] /\ fr'[d] = fr[d]
<1>1. pc'[c] = "idle" /\ fr'[c] = NoFrame
  BY DEF Return, Goto, TypeInv, ThreadsOK
<1>2. nextGen' >= 0
  BY CacheOwnerAssumption DEF TypeInv, SlotOK
<1>3. CallerOK(c)'
  BY <1>1, <1>2 DEF CallerOK, Borrowing, NoFrame
<1>4. QED
  BY <1>1, <1>3 DEF Return, Goto, TypeInv, ThreadsOK

\* A handle that is alive belongs to an owner that has been opened.
LEMMA AliveIsOpened ==
    ASSUME TypeInv, FenceInv, NEW g \in Owners, own[g].count > 0 \/ own[g].strong > 0
    PROVE  g <= nextGen
<1>1. g \in Nat /\ nextGen \in Nat
  BY CacheOwnerAssumption DEF TypeInv, SlotOK, Owners
<1>2. QED
  BY <1>1 DEF FenceInv, OwnerOK

\* commit_prepared_update, prune and flush leave the fence alone.
LEMMA ChangeFence ==
    ASSUME TypeInv, TypeInv', FenceInv, NEW c \in Threads,
           \/ CallOpen(c) \/ CallCommit(c) \/ CallPrune(c) \/ CallFlush(c)
           \/ Record(c) \/ Publish(c) \/ FlushSend(c) \/ FlushDone(c) \/ FlushExpires(c)
    PROVE  FenceInv'
<1>0. ThreadsOK /\ OwnOK /\ WorkerOK /\ ThreadsOK'
  BY DEF TypeInv
<1>1. CASE CallOpen(c)
  <2>1. pc[c] = "idle" /\ pc'[c] = "open" /\ UNCHANGED <<own, slot, wk, fr>>
    BY <1>0, <1>1 DEF CallOpen, At, Goto, ThreadsOK, worker
  <2>2. CallerOK(c)'
    BY <2>1 DEF FenceInv, CallerOK, Borrowing, slot
  <2>3. QED
    BY <1>0, <1>1, <2>1, <2>2, FenceWalk DEF CallOpen, Goto, ThreadsOK, SameOwner
<1>2. CASE CallCommit(c) \/ CallPrune(c)
  <2>1. PICK g \in Owners : \E op, batch, key : Reserve(c, op, g, batch, key)
    BY <1>2 DEF CallCommit, CallPrune
  <2> PICK op, batch, key : Reserve(c, op, g, batch, key)
    BY <2>1
  <2>2. pc[c] = "idle" /\ own[g].count > 0 /\ UNCHANGED <<slot, wk>>
    BY DEF Reserve, Begin, At, worker
  <2>3. \A h \in Owners : SameOwner(own[h], own'[h])
    BY <1>0 DEF Reserve, SameOwner, OwnOK, OwnerType
  <2>4. \A d \in Threads : d # c => pc'[d] = pc[d] /\ fr'[d] = fr[d]
    BY <1>0 DEF Reserve, Goto, ThreadsOK, threads
  <2>5. \/ pc'[c] = "record" /\ fr'[c].gen = g
        \/ pc'[c] = "idle" /\ fr'[c] = fr[c]
    <3>1. CASE Admits(g) /\ Fits(g, Cardinality(batch))
      <4>1. /\ Goto(c, "record")
            /\ fr' = [fr EXCEPT ![c] = [NoFrame EXCEPT !.op = op, !.gen = g, !.batch = batch,
                                                       !.key = key, !.rev = own[g].rev + 1]]
        BY <3>1 DEF Reserve
      <4>2. QED
        BY <1>0, <4>1 DEF Goto, ThreadsOK, NoFrame
    <3>2. CASE ~(Admits(g) /\ Fits(g, Cardinality(batch)))
      BY <2>2, <3>2 DEF Reserve, threads
    <3>3. QED
      BY <3>1, <3>2
  <2>6. g <= nextGen
    BY <2>2, AliveIsOpened
  <2>7. CallerOK(c)'
    BY <2>2, <2>3, <2>5, <2>6 DEF FenceInv, CallerOK, Borrowing, slot, SameOwner
  <2>8. QED
    BY <2>2, <2>3, <2>4, <2>5, <2>7, FenceWalk
<1>3. CASE CallFlush(c)
  <2>1. PICK g \in Owners : /\ pc[c] = "idle" /\ own[g].count > 0
                            /\ fr' = [fr EXCEPT ![c] = [NoFrame EXCEPT !.op = "flush", !.gen = g,
                                                                       !.want = Outstanding(g)]]
    BY <1>3 DEF CallFlush, Begin, At
  <2>2. UNCHANGED <<own, slot, wk>> /\ pc'[c] = "flush" /\ fr'[c].gen = g
    BY <1>0, <1>3, <2>1 DEF CallFlush, Goto, ThreadsOK, NoFrame, worker
  <2>3. g <= nextGen
    BY <2>1, AliveIsOpened
  <2>4. CallerOK(c)'
    BY <2>1, <2>2, <2>3 DEF CallerOK, slot
  <2>5. QED
    BY <1>0, <1>3, <2>1, <2>2, <2>4, FenceWalk DEF CallFlush, Goto, ThreadsOK, SameOwner
<1>4. CASE Record(c)
  <2>1. pc[c] = "record" /\ UNCHANGED <<slot, wk>> /\ fr[c].gen \in Owners
    BY <1>0, <1>4 DEF Record, At, worker, ThreadsOK, Shape
  <2>2. \A h \in Owners : SameOwner(own[h], own'[h])
    BY <1>0, <1>4, <2>1 DEF Record, SameOwner, OwnOK, OwnerType
  <2>3. CASE Return(c)
    BY <2>1, <2>2, <2>3, FenceWalk, CallerReturns
  <2>4. CASE Goto(c, "publish") /\ UNCHANGED fr
    <3>1. pc'[c] = "publish"
      BY <1>0, <2>4 DEF Goto, ThreadsOK
    <3>2. CallerOK(c)'
      BY <2>1, <2>2, <2>4, <3>1 DEF FenceInv, CallerOK, Borrowing, Labels, slot, SameOwner
    <3>3. QED
      BY <1>0, <2>1, <2>2, <2>4, <3>1, <3>2, FenceWalk DEF Goto, ThreadsOK
  <2>5. QED
    BY <1>4, <2>3, <2>4 DEF Record
<1>5. CASE Publish(c)
  <2>1. pc[c] = "publish" /\ UNCHANGED <<own, slot, wk>> /\ fr[c].gen \in Owners
    BY <1>0, <1>5 DEF Publish, At, worker, ThreadsOK, Shape
  <2>2. CASE Return(c)
    BY <2>1, <2>2, FenceWalk, CallerReturns DEF SameOwner
  <2>3. CASE Goto(c, "flush") /\ fr' = [fr EXCEPT ![c].want = Outstanding(fr[c].gen)]
    <3>1. pc'[c] = "flush" /\ fr'[c].gen = fr[c].gen
      BY <1>0, <2>3 DEF Goto, ThreadsOK, FrameType
    <3>2. CallerOK(c)'
      BY <2>1, <3>1 DEF FenceInv, CallerOK, Borrowing, Labels, slot
    <3>3. QED
      BY <1>0, <2>1, <2>3, <3>1, <3>2, FenceWalk DEF Goto, ThreadsOK, SameOwner
  <2>4. QED
    BY <1>5, <2>2, <2>3 DEF Publish
<1>6. CASE FlushSend(c)
  <2>1. pc[c] = "flush" /\ UNCHANGED <<own, slot, wk>> /\ fr[c].gen \in Owners
    BY <1>0, <1>6 DEF FlushSend, At, worker, ThreadsOK, Shape
  <2>2. CASE Return(c)
    BY <2>1, <2>2, FenceWalk, CallerReturns DEF SameOwner
  <2>3. CASE Goto(c, "await") /\ UNCHANGED fr
    <3>1. pc'[c] = "await"
      BY <1>0, <2>3 DEF Goto, ThreadsOK
    <3>2. CallerOK(c)'
      BY <2>1, <2>3, <3>1 DEF FenceInv, CallerOK, Borrowing, Labels, slot
    <3>3. QED
      BY <1>0, <2>1, <2>3, <3>1, <3>2, FenceWalk DEF Goto, ThreadsOK, SameOwner
  <2>4. QED
    BY <1>6, <2>2, <2>3 DEF FlushSend
<1>7. CASE FlushDone(c)
  <2>1. pc[c] = "await" /\ UNCHANGED <<own, slot, wk>> /\ Return(c)
    BY <1>7 DEF FlushDone, At, worker
  <2>2. QED
    BY <2>1, FenceWalk, CallerReturns DEF SameOwner
<1>8. CASE FlushExpires(c)
  <2>1. pc[c] = "await" /\ UNCHANGED <<own, slot>> /\ Return(c)
    BY <1>8 DEF FlushExpires, At
  <2>2. \A h \in Owners : wk'[h].pc = wk[h].pc
    BY <1>0, <1>8 DEF FlushExpires, WorkerOK, WorkerType
  <2>3. QED
    BY <2>1, <2>2, FenceWalk, CallerReturns DEF SameOwner
<1>9. QED
  BY <1>1, <1>2, <1>3, <1>4, <1>5, <1>6, <1>7, <1>8

\* The phase changes with the owners as they are.
LEMMA FencePhase ==
    ASSUME TypeInv, FenceInv, UNCHANGED <<nextGen, own, wk>>, NEW c \in Threads, CallerOK(c)',
           \A d \in Threads : d # c => pc'[d] = pc[d] /\ fr'[d] = fr[d],
           pc[c] # "drop", pc'[c] # "drop",
           phase'.kind # "Vacant" => phase'.gen = nextGen,
           \A g \in Owners : Working(g) => phase'.gen = g /\ phase'.kind \in {"Live", "Closing"}
    PROVE  FenceInv'
<1>1. \A g \in Owners : (Droppers(g))' = Droppers(g)
  BY DEF Droppers
<1>2. \A g \in Owners : OwnerOK(g)'
  BY <1>1 DEF FenceInv, OwnerOK, Finished
<1>3. \A d \in Threads : CallerOK(d)'
  BY DEF FenceInv, CallerOK, Working
<1>4. QED
  BY <1>2, <1>3 DEF FenceInv, PhaseOK, RootFenced, Working

\* shutdown: the last handle closes the root, and opens it again when the worker
\* is done.
LEMMA StopFence ==
    ASSUME TypeInv, TypeInv', FenceInv, NEW c \in Threads,
           \/ CallShutdown(c) \/ StopRequest(c) \/ StopWait(c) \/ StopSend(c)
           \/ StopAwait(c) \/ StopJoin(c) \/ StopComplete(c)
    PROVE  FenceInv'
<1>0. ThreadsOK /\ OwnOK /\ WorkerOK /\ ThreadsOK' /\ SlotOK
  BY DEF TypeInv
<1>1. CASE CallShutdown(c)
  <2>1. PICK g \in Owners :
           /\ pc[c] = "idle" /\ own[g].count > 0
           /\ fr' = [fr EXCEPT ![c] = [NoFrame EXCEPT !.op = "shutdown", !.gen = g,
                                                      !.want = Outstanding(g)]]
           /\ Goto(c, "flush") \/ Goto(c, "stop")
           /\ \/ UNCHANGED phase
              \/ phase.kind = "Live" /\ phase.gen = g /\ phase' = [phase EXCEPT !.kind = "Closing"]
    <3>1. PICK g \in Owners :
             /\ Begin(c, "shutdown", g)
             /\ fr' = [fr EXCEPT ![c] = [NoFrame EXCEPT !.op = "shutdown", !.gen = g,
                                                        !.want = Outstanding(g)]]
             /\ IF own[g].count > 1
                THEN Goto(c, "flush") /\ UNCHANGED phase
                ELSE /\ Goto(c, "stop")
                     /\ phase' = IF phase = [kind |-> "Live", gen |-> g]
                                 THEN [phase EXCEPT !.kind = "Closing"] ELSE phase
      BY <1>1 DEF CallShutdown
    <3>2. \/ UNCHANGED phase
          \/ phase.kind = "Live" /\ phase.gen = g /\ phase' = [phase EXCEPT !.kind = "Closing"]
      BY <3>1
    <3>3. Goto(c, "flush") \/ Goto(c, "stop")
      BY <3>1
    <3>4. QED
      BY <3>1, <3>2, <3>3 DEF Begin, At
  <2>2. /\ UNCHANGED <<own, nextGen, wk>> /\ pc'[c] \in {"flush", "stop"} /\ fr'[c].gen = g
        /\ \A d \in Threads : d # c => pc'[d] = pc[d] /\ fr'[d] = fr[d]
    BY <1>0, <1>1, <2>1 DEF CallShutdown, Goto, ThreadsOK, NoFrame, worker
  <2>3. g <= nextGen
    BY <2>1, AliveIsOpened
  <2>4. CallerOK(c)'
    BY <2>1, <2>2, <2>3 DEF CallerOK
  <2>5. /\ phase'.gen = phase.gen /\ (phase'.kind # "Vacant" <=> phase.kind # "Vacant")
        /\ phase.kind \in {"Live", "Closing"} => phase'.kind \in {"Live", "Closing"}
    BY <1>0, <2>1 DEF SlotOK, PhaseType
  <2>6. QED
    BY <2>1, <2>2, <2>4, <2>5, FencePhase DEF FenceInv, PhaseOK, RootFenced
<1>2. CASE StopRequest(c)
  <2>1. pc[c] = "stop" /\ UNCHANGED <<slot, wk>> /\ fr[c].gen \in Owners
    BY <1>0, <1>2 DEF StopRequest, At, worker, ThreadsOK, Shape
  <2>2. \A h \in Owners : SameOwner(own[h], own'[h])
    BY <1>0, <1>2, <2>1 DEF StopRequest, SameOwner, OwnOK, OwnerType
  <2>3. /\ \A d \in Threads : d # c => pc'[d] = pc[d] /\ fr'[d] = fr[d]
        /\ fr'[c].gen = fr[c].gen
    BY <1>0, <1>2 DEF StopRequest, Goto, ThreadsOK, FrameType
  <2>4. own[fr[c].gen].count > 0 /\ fr[c].gen <= nextGen
    BY <2>1 DEF FenceInv, CallerOK, Borrowing, Labels
  <2>5. CASE pc'[c] = "stop_wait"
    <3>1. CallerOK(c)'
      BY <2>1, <2>2, <2>3, <2>4, <2>5 DEF CallerOK, slot, SameOwner
    <3>2. QED
      BY <2>1, <2>2, <2>3, <2>5, <3>1, FenceWalk
  <2>6. CASE ~own[fr[c].gen].joinable /\ pc'[c] = "stop_complete"
    <3>1. own[fr[c].gen].strong # 0
      <4>1. PICK n \in Nat : n = Cardinality(Droppers(fr[c].gen))
        BY DropperSets
      <4>2. own[fr[c].gen].strong = own[fr[c].gen].count + n /\ own[fr[c].gen].count \in Nat
        BY <1>0, <2>1, <4>1 DEF FenceInv, OwnerOK, OwnOK, OwnerType
      <4>3. QED
        BY <2>4, <4>2
    <3>2. ~Working(fr[c].gen)
      BY <2>1, <2>6, <3>1 DEF FenceInv, OwnerOK, Working, Finished, Ended
    <3>3. CallerOK(c)'
      BY <2>1, <2>2, <2>3, <2>4, <2>6, <3>2 DEF CallerOK, slot, SameOwner, Working
    <3>4. QED
      BY <2>1, <2>2, <2>3, <2>6, <3>3, FenceWalk
  <2>7. QED
    BY <1>0, <1>2, <2>5, <2>6 DEF StopRequest, Goto, ThreadsOK
<1>3. CASE StopWait(c)
  <2>1. pc[c] = "stop_wait" /\ UNCHANGED <<slot, wk>> /\ fr[c].gen \in Owners
    BY <1>0, <1>3 DEF StopWait, At, worker, ThreadsOK, Shape
  <2>2. \A h \in Owners : SameOwner(own[h], own'[h])
    BY <1>0, <1>3, <2>1 DEF StopWait, SameOwner, OwnOK, OwnerType
  <2>3. CASE Return(c)
    BY <2>1, <2>2, <2>3, FenceWalk, CallerReturns
  <2>4. CASE (Goto(c, "stop_await") \/ Goto(c, "stop_send")) /\ UNCHANGED fr
    <3>1. pc'[c] \in {"stop_await", "stop_send"}
      BY <1>0, <2>4 DEF Goto, ThreadsOK
    <3>2. CallerOK(c)'
      BY <2>1, <2>2, <2>4, <3>1 DEF FenceInv, CallerOK, Borrowing, Labels, slot, SameOwner
    <3>3. QED
      BY <1>0, <2>1, <2>2, <2>4, <3>1, <3>2, FenceWalk DEF Goto, ThreadsOK
  <2>5. QED
    BY <1>3, <2>3, <2>4 DEF StopWait
<1>4. CASE StopSend(c)
  <2>1. pc[c] = "stop_send" /\ UNCHANGED <<slot, wk>> /\ fr[c].gen \in Owners
    BY <1>0, <1>4 DEF StopSend, At, worker, ThreadsOK, Shape
  <2>2. \A h \in Owners : SameOwner(own[h], own'[h])
    <3>1. own' = own \/ own' = [own EXCEPT ![fr[c].gen].sent = FALSE]
      BY <1>4 DEF StopSend
    <3>2. QED
      BY <1>0, <2>1, <3>1 DEF SameOwner, OwnOK, OwnerType
  <2>3. CASE Return(c)
    BY <2>1, <2>2, <2>3, FenceWalk, CallerReturns
  <2>4. CASE Goto(c, "stop_await") /\ UNCHANGED fr
    <3>1. pc'[c] = "stop_await"
      BY <1>0, <2>4 DEF Goto, ThreadsOK
    <3>2. CallerOK(c)'
      BY <2>1, <2>2, <2>4, <3>1 DEF FenceInv, CallerOK, Borrowing, Labels, slot, SameOwner
    <3>3. QED
      BY <1>0, <2>1, <2>2, <2>4, <3>1, <3>2, FenceWalk DEF Goto, ThreadsOK
  <2>5. QED
    BY <1>4, <2>3, <2>4 DEF StopSend
<1>5. CASE StopAwait(c)
  <2>0. PICK g \in Owners : g = fr[c].gen
    BY <1>0, <1>5 DEF StopAwait, At, ThreadsOK, Shape
  <2>1. pc[c] = "stop_await" /\ UNCHANGED <<slot, wk>>
    BY <1>0, <1>5 DEF StopAwait, At, worker
  <2>2. \/ own' = own
        \/ own' = Joining(g) /\ (own[g].completion # "none" \/ Finished(g))
    BY <1>5, <2>0 DEF StopAwait
  <2>3. \A h \in Owners : /\ SameHandles(own[h], own'[h])
                          /\ own'[h].joinable = own[h].joinable \/ Detached(h)
    BY <1>0, <2>2 DEF Joining, SameHandles, Detached, OwnOK, OwnerType
  <2>4. CASE Return(c)
    BY <2>1, <2>3, <2>4, FenceMoves, CallerReturns
  <2>5. CASE /\ own[g].completion # "none"
             /\ fr' = [fr EXCEPT ![c].reply = own[g].completion]
             /\ Goto(c, IF own[g].joinable THEN "stop_join" ELSE "stop_complete")
    <3>1. pc'[c] \in {"stop_join", "stop_complete"} /\ fr'[c].gen = g
      BY <1>0, <2>0, <2>5 DEF Goto, ThreadsOK, FrameType
    <3>2. ~Working(g)
      BY <2>5 DEF FenceInv, OwnerOK, Working, Ended
    <3>3. own[g].count > 0 /\ g <= nextGen
      BY <2>0, <2>1 DEF FenceInv, CallerOK, Borrowing, Labels
    <3>4. CallerOK(c)'
      BY <2>1, <2>3, <3>1, <3>2, <3>3 DEF CallerOK, SameHandles, slot, Working
    <3>5. QED
      BY <1>0, <2>1, <2>3, <2>5, <3>1, <3>4, FenceMoves DEF Goto, ThreadsOK
  <2>6. QED
    BY <1>5, <2>0, <2>4, <2>5 DEF StopAwait
<1>6. CASE StopJoin(c)
  <2>1. pc[c] = "stop_join" /\ UNCHANGED <<own, slot, wk, fr>> /\ pc'[c] = "stop_complete"
    BY <1>0, <1>6 DEF StopJoin, At, worker, Goto, ThreadsOK
  <2>2. CallerOK(c)'
    BY <2>1 DEF FenceInv, CallerOK, Borrowing, Labels, slot, Working
  <2>3. QED
    BY <1>0, <1>6, <2>1, <2>2, FenceWalk DEF StopJoin, Goto, ThreadsOK, SameOwner
<1>7. CASE StopComplete(c)
  <2>1. /\ pc[c] = "stop_complete" /\ UNCHANGED <<own, nextGen, wk>> /\ Return(c)
        /\ \/ UNCHANGED phase
           \/ /\ fr[c].reply = "ok" /\ phase.gen = fr[c].gen
              /\ phase' = [kind |-> "Vacant", gen |-> 0]
    BY <1>7 DEF StopComplete, At, worker
  <2>2. CASE UNCHANGED phase
    BY <2>1, <2>2, FencePhase, CallerReturns DEF FenceInv, PhaseOK, RootFenced
  <2>3. CASE /\ fr[c].reply = "ok" /\ phase.gen = fr[c].gen
             /\ phase' = [kind |-> "Vacant", gen |-> 0]
    <3>1. \A g \in Owners : ~Working(g)
      BY <2>1, <2>3 DEF FenceInv, CallerOK, RootFenced
    <3>2. QED
      BY <2>1, <2>3, <3>1, FencePhase, CallerReturns
  <2>4. QED
    BY <2>1, <2>2, <2>3
<1>8. QED
  BY <1>1, <1>2, <1>3, <1>4, <1>5, <1>6, <1>7

\* open: another handle, or the next generation.
LEMMA OpenFence ==
    ASSUME TypeInv, TypeInv', FenceInv, NEW c \in Threads, OpenShared(c) \/ OpenVacant(c)
    PROVE  FenceInv'
<1>0. ThreadsOK /\ OwnOK /\ WorkerOK /\ SlotOK /\ SlotOK'
  BY DEF TypeInv
<1>1. /\ CallerOK(c)' /\ pc[c] = "open" /\ pc'[c] = "idle"
      /\ \A d \in Threads : d # c => pc'[d] = pc[d] /\ fr'[d] = fr[d]
  BY CallerReturns DEF OpenShared, OpenVacant, At
<1>2. \A g \in Owners : (Droppers(g))' = Droppers(g)
  BY <1>1 DEF Droppers
<1>3. CASE OpenShared(c)
  <2> DEFINE g == phase.gen
  <2>1. /\ own' = [own EXCEPT ![g].count = @ + 1, ![g].strong = @ + 1]
        /\ own[g].strong > 0 /\ UNCHANGED <<slot, wk>>
    BY <1>3 DEF OpenShared, worker
  <2>2. \A h \in Owners : /\ h # g => own'[h] = own[h]
                          /\ own'[h].joinable = own[h].joinable
                          /\ own'[h].completion = own[h].completion
    BY <1>0, <2>1 DEF OwnOK, OwnerType
  <2>3. g \in Owners => own'[g].count = own[g].count + 1 /\ own'[g].strong = own[g].strong + 1
    BY <1>0, <2>1 DEF OwnOK, OwnerType
  <2>4. g \in Owners => own[g].count \in Nat /\ own[g].strong \in Int /\ ~(g > nextGen)
    BY <1>0, <2>1 DEF OwnOK, OwnerType, FenceInv, OwnerOK
  <2>5. \A h \in Owners : OwnerOK(h)'
    <3> SUFFICES ASSUME NEW h \in Owners PROVE OwnerOK(h)'
      OBVIOUS
    <3>1. OwnerOK(h)
      BY DEF FenceInv
    <3>2. CASE h # g
      BY <1>2, <2>1, <2>2, <3>1, <3>2 DEF OwnerOK, slot, Finished
    <3>3. CASE h = g
      <4>1. PICK n \in Nat : n = Cardinality(Droppers(h))
        BY DropperSets
      <4>2. own[h].strong = own[h].count + n
        BY <3>1, <4>1 DEF OwnerOK
      <4>3. own'[h].strong = own'[h].count + Cardinality(Droppers(h))'
        <5>1. Cardinality(Droppers(h))' = n
          BY <1>2, <4>1
        <5>2. own'[h].strong = own[h].strong + 1 /\ own'[h].count = own[h].count + 1
          BY <2>3, <3>3
        <5>3. own[h].strong \in Int /\ own[h].count \in Nat
          BY <2>4, <3>3
        <5>4. QED
          BY <4>2, <5>1, <5>2, <5>3
      <4>4. own'[h].joinable \/ own'[h].completion # "none" \/ Finished(h)'
        <5>1. own[h].strong # 0
          BY <2>1, <2>4, <3>3
        <5>2. own[h].joinable \/ own[h].completion # "none" \/ Finished(h)
          BY <3>1, <5>1 DEF OwnerOK
        <5>3. Finished(h)' = Finished(h)
          BY <2>1 DEF Finished
        <5>4. QED
          BY <2>2, <5>2, <5>3
      <4>5. own'[h].completion # "none" => wk'[h].pc \in Ended
        BY <2>1, <2>2, <3>1 DEF OwnerOK
      <4>6. ~(h > nextGen')
        BY <2>1, <2>4, <3>3 DEF slot
      <4>7. QED
        BY <4>3, <4>4, <4>5, <4>6 DEF OwnerOK
    <3>4. QED
      BY <3>2, <3>3
  <2>6. \A d \in Threads : CallerOK(d)'
    <3> SUFFICES ASSUME NEW d \in Threads, d # c PROVE CallerOK(d)'
      BY <1>1
    <3>1. CallerOK(d) /\ (pc[d] \notin {"idle", "open"} => fr[d].gen \in Owners)
      BY <1>0 DEF FenceInv, ThreadsOK, Shape
    <3>2. CASE pc[d] \in {"idle", "open"}
      BY <1>1, <2>1, <3>1, <3>2 DEF CallerOK, slot, Borrowing
    <3>3. CASE pc[d] \notin {"idle", "open"} /\ fr[d].gen # g
      BY <1>1, <2>1, <2>2, <3>1, <3>3 DEF CallerOK, slot, Working
    <3>4. CASE pc[d] \notin {"idle", "open"} /\ fr[d].gen = g
      <4>1. pc[d] \notin {"release", "signal"}
        BY <2>1, <3>1, <3>4 DEF CallerOK
      <4>2. own'[g].count > 0
        BY <2>3, <2>4, <3>1, <3>4
      <4>3. QED
        BY <1>1, <2>1, <3>1, <3>4, <4>1, <4>2 DEF CallerOK, slot, Working
    <3>5. QED
      BY <3>2, <3>3, <3>4
  <2>7. QED
    BY <2>1, <2>5, <2>6 DEF FenceInv, PhaseOK, RootFenced, Working, slot
<1>4. CASE OpenVacant(c)
  <2>0. PICK g \in Owners : g = nextGen + 1
    BY <1>4 DEF OpenVacant
  <2>1. phase.kind = "Vacant" /\ nextGen' = g /\ nextGen \in Nat /\ g \in Nat
    BY <1>0, <1>4, <2>0, CacheOwnerAssumption DEF OpenVacant, SlotOK
  <2>2. \/ UNCHANGED <<phase, own, wk>>
        \/ /\ phase' = [kind |-> "Live", gen |-> g]
           /\ own' = [own EXCEPT ![g] = Opened]
           /\ wk' = [wk EXCEPT ![g] = Worker("poll")]
    BY <1>4, <2>0 DEF OpenVacant
  <2>3. \A h \in Owners : ~Working(h)
    BY <2>1 DEF FenceInv, RootFenced
  <2>4. \A d \in Threads : fr[d].gen <= nextGen /\ fr[d].gen \in Nat /\ fr[d].gen # g
    BY <1>0, <2>0, <2>1 DEF FenceInv, CallerOK, ThreadsOK, FrameType
  <2>5. \A h \in Owners : h # g => own'[h] = own[h] /\ wk'[h] = wk[h]
    BY <1>0, <2>2 DEF OwnOK, WorkerOK
  <2>6. \A d \in Threads : CallerOK(d)'
    <3> SUFFICES ASSUME NEW d \in Threads, d # c PROVE CallerOK(d)'
      BY <1>1
    <3>1. CallerOK(d) /\ (pc[d] \notin {"idle", "open"} => fr[d].gen \in Owners)
      BY <1>0 DEF FenceInv, ThreadsOK, Shape
    <3>2. fr'[d].gen <= nextGen'
      BY <1>1, <2>0, <2>1, <2>4
    <3>3. QED
      BY <1>1, <2>4, <2>5, <3>1, <3>2 DEF CallerOK, Borrowing, Working
  <2>7. ASSUME NEW h \in Owners, h # g PROVE OwnerOK(h)'
    <3>1. h > nextGen' => h > nextGen
      BY <2>0, <2>1
    <3>2. QED
      BY <1>2, <2>5, <2>7, <3>1 DEF FenceInv, OwnerOK, Finished
  <2>8. ~(g > nextGen')
    BY <2>1
  <2>9. CASE UNCHANGED <<phase, own, wk>>
    <3>1. OwnerOK(g)'
      BY <1>2, <2>8, <2>9 DEF FenceInv, OwnerOK, Finished
    <3>2. QED
      BY <2>1, <2>3, <2>6, <2>7, <2>9, <3>1 DEF FenceInv, PhaseOK, RootFenced, Working
  <2>10. CASE /\ phase' = [kind |-> "Live", gen |-> g]
              /\ own' = [own EXCEPT ![g] = Opened]
              /\ wk' = [wk EXCEPT ![g] = Worker("poll")]
    <3>1. own'[g] = Opened /\ wk'[g].pc = "poll"
      BY <1>0, <2>10 DEF OwnOK, WorkerOK, Worker
    <3>2. Droppers(g) = {}
      BY <2>4 DEF Droppers
    <3>3. Cardinality(Droppers(g)) = 0
      BY <3>2, FS_EmptySet
    <3>4. OwnerOK(g)'
      BY <1>2, <2>8, <3>1, <3>3 DEF OwnerOK, Opened, Owner
    <3>5. RootFenced'
      BY <2>3, <2>5, <2>10 DEF RootFenced, Working
    <3>6. QED
      BY <2>1, <2>6, <2>7, <2>10, <3>4, <3>5 DEF FenceInv, PhaseOK
  <2>11. QED
    BY <2>2, <2>9, <2>10
<1>5. QED
  BY <1>3, <1>4

\* The drop of a handle, of the reference, and of the owner.
LEMMA DropFence ==
    ASSUME TypeInv, TypeInv', FenceInv, NEW c \in Threads,
           CallDrop(c) \/ DropReference(c) \/ DropRelease(c) \/ DropSignal(c)
    PROVE  FenceInv'
<1>0. ThreadsOK /\ OwnOK /\ WorkerOK /\ SlotOK /\ ThreadsOK'
  BY DEF TypeInv
<1>1. CASE CallDrop(c)
  <2>1. PICK g \in Owners :
           /\ pc[c] = "idle" /\ own[g].count > 0
           /\ own[g].count > 1 \/ ~Borrowed(g)
           /\ own' = [own EXCEPT ![g].count = @ - 1]
           /\ fr' = [fr EXCEPT ![c] = [NoFrame EXCEPT !.op = "drop", !.gen = g]]
    BY <1>1 DEF CallDrop, Begin, At
  <2>2. /\ UNCHANGED <<slot, wk>> /\ pc'[c] = "drop" /\ fr'[c].gen = g
        /\ \A d \in Threads : d # c => pc'[d] = pc[d] /\ fr'[d] = fr[d]
    BY <1>0, <1>1, <2>1 DEF CallDrop, Goto, ThreadsOK, NoFrame, worker
  <2>3. /\ \A h \in Owners : /\ h # g => own'[h] = own[h]
                             /\ own'[h].joinable = own[h].joinable
                             /\ own'[h].completion = own[h].completion
                             /\ own'[h].strong = own[h].strong
        /\ own'[g].count = own[g].count - 1 /\ own[g].count \in Nat /\ own[g].strong \in Int
    BY <1>0, <2>1 DEF OwnOK, OwnerType
  <2>4. g <= nextGen
    BY <2>1, AliveIsOpened
  <2>5. \A h \in Owners : h # g => (Droppers(h))' = Droppers(h)
    BY <2>1, <2>2 DEF Droppers
  <2>6. (Droppers(g))' = Droppers(g) \cup {c} /\ c \notin Droppers(g)
    BY <2>1, <2>2 DEF Droppers
  <2>7. Cardinality(Droppers(g))' = Cardinality(Droppers(g)) + 1
    BY <2>6, DropperSets, FS_AddElement
  <2>8. \A h \in Owners : OwnerOK(h)'
    <3> SUFFICES ASSUME NEW h \in Owners PROVE OwnerOK(h)'
      OBVIOUS
    <3>1. OwnerOK(h)
      BY DEF FenceInv
    <3>2. CASE h # g
      BY <2>2, <2>3, <2>5, <3>1, <3>2 DEF OwnerOK, slot, Finished
    <3>3. CASE h = g
      <4>1. PICK n \in Nat : n = Cardinality(Droppers(h))
        BY DropperSets
      <4>2. own'[h].strong = own'[h].count + Cardinality(Droppers(h))'
        BY <2>3, <2>7, <3>1, <3>3, <4>1 DEF OwnerOK
      <4>3. ~(h > nextGen')
        BY <1>0, <2>2, <2>4, <3>3, CacheOwnerAssumption DEF slot, SlotOK, Owners
      <4>4. QED
        BY <2>2, <2>3, <3>1, <4>2, <4>3 DEF OwnerOK, Finished
    <3>4. QED
      BY <3>2, <3>3
  <2>9. \A d \in Threads : CallerOK(d)'
    <3>1. CallerOK(c)'
      BY <2>2, <2>4 DEF CallerOK, Borrowing, slot
    <3>2. ASSUME NEW d \in Threads, d # c PROVE CallerOK(d)'
      <4>1. CallerOK(d) /\ (pc[d] \notin {"idle", "open"} => fr[d].gen \in Owners)
        BY <1>0 DEF FenceInv, ThreadsOK, Shape
      <4>2. pc[d] \in Borrowing => own'[fr[d].gen].count > 0
        <5> SUFFICES ASSUME pc[d] \in Borrowing, fr[d].gen = g PROVE own'[g].count > 0
          BY <2>3, <4>1 DEF CallerOK, Borrowing
        <5>1. fr[d].op # "drop"
          BY <1>0 DEF ThreadsOK, Shape, Borrowing, Labels, Stopping
        <5>2. QED
          BY <2>1, <2>3, <5>1 DEF Borrowed
      <4>3. QED
        BY <2>2, <2>3, <3>2, <4>1, <4>2 DEF CallerOK, slot, Working
    <3>3. QED
      BY <3>1, <3>2
  <2>10. QED
    BY <2>2, <2>8, <2>9 DEF FenceInv, PhaseOK, RootFenced, Working, slot
<1>2. CASE DropReference(c)
  <2>0. PICK g \in Owners : g = fr[c].gen
    BY <1>0, <1>2 DEF DropReference, At, ThreadsOK, Shape
  <2>1. /\ pc[c] = "drop" /\ own' = [own EXCEPT ![g].strong = @ - 1] /\ UNCHANGED <<slot, wk>>
    BY <1>2, <2>0 DEF DropReference, At, worker
  <2>2. /\ pc'[c] \in {"release", "idle"} /\ (pc'[c] = "release" => own[g].strong = 1 /\ fr'[c].gen = g)
        /\ pc'[c] = "idle" => fr'[c] = NoFrame
        /\ \A d \in Threads : d # c => pc'[d] = pc[d] /\ fr'[d] = fr[d]
    BY <1>0, <1>2, <2>0 DEF DropReference, Return, Goto, ThreadsOK
  <2>3. /\ \A h \in Owners : /\ h # g => own'[h] = own[h]
                             /\ own'[h].joinable = own[h].joinable
                             /\ own'[h].completion = own[h].completion
                             /\ own'[h].count = own[h].count
        /\ own'[g].strong = own[g].strong - 1 /\ own[g].count \in Nat /\ own[g].strong \in Int
    BY <1>0, <2>1 DEF OwnOK, OwnerType
  <2>4. \A h \in Owners : h # g => (Droppers(h))' = Droppers(h)
    BY <2>0, <2>1, <2>2 DEF Droppers
  <2>5. (Droppers(g))' = Droppers(g) \ {c} /\ c \in Droppers(g)
    BY <2>0, <2>1, <2>2 DEF Droppers
  <2>6. PICK n \in Nat : n = Cardinality(Droppers(g))
    BY DropperSets
  <2>7. Cardinality(Droppers(g))' = n - 1 /\ n > 0
    <3>1. Cardinality(Droppers(g))' = n - 1
      BY <2>5, <2>6, DropperSets, FS_RemoveElement
    <3>2. n # 0
      BY <2>5, <2>6, DropperSets, FS_EmptySet
    <3>3. QED
      BY <3>1, <3>2
  <2>8. own[g].strong = own[g].count + n
    BY <2>6 DEF FenceInv, OwnerOK
  <2>9. g <= nextGen
    BY <2>0 DEF FenceInv, CallerOK
  <2>10. \A h \in Owners : OwnerOK(h)'
    <3> SUFFICES ASSUME NEW h \in Owners PROVE OwnerOK(h)'
      OBVIOUS
    <3>1. OwnerOK(h)
      BY DEF FenceInv
    <3>2. CASE h # g
      BY <2>1, <2>3, <2>4, <3>1, <3>2 DEF OwnerOK, slot, Finished
    <3>3. CASE h = g
      <4>1. own'[h].strong = own'[h].count + Cardinality(Droppers(h))'
        BY <2>3, <2>7, <2>8, <3>3
      <4>2. ~(h > nextGen')
        BY <1>0, <2>1, <2>9, <3>3, CacheOwnerAssumption DEF slot, SlotOK, Owners
      <4>3. own[h].strong # 0
        BY <2>3, <2>7, <2>8, <3>3
      <4>4. QED
        BY <2>1, <2>3, <3>1, <4>1, <4>2, <4>3 DEF OwnerOK, Finished
    <3>4. QED
      BY <3>2, <3>3
  <2>11. \A d \in Threads : CallerOK(d)'
    <3>1. CallerOK(c)'
      <4>1. nextGen' >= 0 /\ nextGen' = nextGen
        BY <1>0, <2>1, CacheOwnerAssumption DEF SlotOK, slot
      <4>2. CASE pc'[c] = "idle"
        BY <2>2, <4>1, <4>2 DEF CallerOK, Borrowing, NoFrame
      <4>3. CASE pc'[c] = "release"
        BY <2>2, <2>3, <2>9, <4>1, <4>3 DEF CallerOK, Borrowing
      <4>4. QED
        BY <2>2, <4>2, <4>3
    <3>2. ASSUME NEW d \in Threads, d # c PROVE CallerOK(d)'
      <4>1. CallerOK(d) /\ (pc[d] \notin {"idle", "open"} => fr[d].gen \in Owners)
        BY <1>0 DEF FenceInv, ThreadsOK, Shape
      <4>2. pc[d] \in {"release", "signal"} => fr[d].gen # g
        BY <2>3, <2>7, <2>8, <4>1 DEF CallerOK
      <4>3. QED
        BY <2>1, <2>2, <2>3, <3>2, <4>1, <4>2 DEF CallerOK, slot, Working, Borrowing
    <3>3. QED
      BY <3>1, <3>2
  <2>12. QED
    BY <2>1, <2>10, <2>11 DEF FenceInv, PhaseOK, RootFenced, Working, slot
<1>3. CASE DropRelease(c)
  <2>1. pc[c] = "release" /\ pc'[c] = "signal" /\ UNCHANGED <<fr, own, wk, nextGen>>
    BY <1>0, <1>3 DEF DropRelease, At, Goto, ThreadsOK, worker
  <2>2. CallerOK(c)'
    BY <2>1 DEF FenceInv, CallerOK, Borrowing
  <2>3. \/ phase.kind = "Live" /\ phase'.kind = "Closing" /\ phase'.gen = phase.gen
        \/ phase.kind = "Faulted" /\ phase'.kind = "Vacant"
        \/ phase' = phase
    BY <1>0, <1>3 DEF DropRelease, SlotOK, PhaseType
  <2>4. /\ phase'.kind # "Vacant" => phase'.gen = nextGen
        /\ \A g \in Owners : Working(g) => phase'.gen = g /\ phase'.kind \in {"Live", "Closing"}
    BY <2>3 DEF FenceInv, PhaseOK, RootFenced
  <2>5. QED
    BY <1>0, <1>3, <2>1, <2>2, <2>4, FencePhase DEF DropRelease, Goto, ThreadsOK
<1>4. CASE DropSignal(c)
  <2>0. PICK g \in Owners : g = fr[c].gen
    BY <1>0, <1>4 DEF DropSignal, At, ThreadsOK, Shape
  <2>1. pc[c] = "signal" /\ Return(c) /\ UNCHANGED <<slot, wk>> /\ own[g].strong = 0
    BY <1>4, <2>0 DEF DropSignal, At, worker, FenceInv, CallerOK
  <2>2. \E b : \/ own' = own
               \/ own' = [own EXCEPT ![g].requested = TRUE, ![g].sent = b,
                                     ![g].sender = FALSE, ![g].joinable = FALSE]
    BY <1>4, <2>0 DEF DropSignal
  <2>3. \A h \in Owners : /\ SameHandles(own[h], own'[h])
                          /\ own'[h].joinable = own[h].joinable \/ Detached(h)
    BY <1>0, <2>1, <2>2 DEF SameHandles, Detached, OwnOK, OwnerType
  <2>4. QED
    BY <2>1, <2>3, FenceMoves, CallerReturns
<1>5. QED
  BY <1>1, <1>2, <1>3, <1>4

\* The worker moves on, towards its end once it is there.
LEMMA WorkerFence ==
    ASSUME TypeInv, TypeInv', CommandInv, FenceInv, NEW g \in Owners, Work(g) \/ Die(g)
    PROVE  FenceInv'
<1>0. ThreadsOK /\ OwnOK /\ WorkerOK /\ SlotOK
  BY DEF TypeInv
<1>1. \A h \in Owners : (pc' = pc /\ \A c \in Threads : fr'[c].gen = fr[c].gen) =>
         (Droppers(h))' = Droppers(h)
  BY DEF Droppers
<1>2. ASSUME UNCHANGED <<slot, pc>>,
             \A c \in Threads : fr'[c].gen = fr[c].gen /\ (pc[c] # "await" => fr'[c] = fr[c]),
             \A h \in Owners : /\ own'[h].count = own[h].count /\ own'[h].strong = own[h].strong
                               /\ own'[h].joinable = own[h].joinable
                               /\ h # g => own'[h] = own[h] /\ wk'[h] = wk[h],
             wk[g].pc \notin {"none", "finished"},
             wk'[g].pc \in Ended \/ (Working(g) /\ own'[g].completion = own[g].completion),
             own'[g].completion = "none" => own[g].completion = "none"
      PROVE  FenceInv'
  <2>1. \A h \in Owners : (Droppers(h))' = Droppers(h)
    BY <1>1, <1>2
  <2>2. \A h \in Owners : OwnerOK(h)'
    <3> SUFFICES ASSUME NEW h \in Owners PROVE OwnerOK(h)'
      OBVIOUS
    <3>1. OwnerOK(h)
      BY DEF FenceInv
    <3>2. CASE h # g
      BY <1>2, <2>1, <3>1, <3>2 DEF OwnerOK, slot, Finished
    <3>3. CASE h = g
      <4>1. ~(g > nextGen)
        BY <1>2, <3>1, <3>3 DEF OwnerOK
      <4>2. own'[g].completion # "none" => wk'[g].pc \in Ended
        BY <1>2, <3>1, <3>3 DEF OwnerOK, Working, Ended
      <4>3. own'[g].joinable \/ own'[g].completion # "none" \/ own'[g].strong = 0
        BY <1>2, <3>1, <3>3 DEF OwnerOK, Finished
      <4>4. own'[g].strong = own'[g].count + Cardinality(Droppers(g))'
        BY <1>2, <2>1, <3>1, <3>3 DEF OwnerOK
      <4>5. QED
        BY <1>2, <3>3, <4>1, <4>2, <4>3, <4>4 DEF OwnerOK, slot
    <3>4. QED
      BY <3>2, <3>3
  <2>3. \A h \in Owners : ~Working(h) => ~Working(h)'
    BY <1>2 DEF Working, Ended
  <2>4. \A c \in Threads : CallerOK(c)'
    <3> SUFFICES ASSUME NEW c \in Threads PROVE CallerOK(c)'
      OBVIOUS
    <3>1. CallerOK(c) /\ (pc[c] \notin {"idle", "open"} => fr[c].gen \in Owners)
      BY <1>0 DEF FenceInv, ThreadsOK, Shape
    <3>2. pc'[c] = pc[c] /\ fr'[c].gen = fr[c].gen /\ nextGen' = nextGen
      BY <1>2 DEF slot
    <3>3. fr[c].gen <= nextGen
      BY <3>1 DEF CallerOK
    <3>4. pc[c] \in Borrowing => own'[fr[c].gen].count > 0
      BY <1>2, <3>1 DEF CallerOK, Borrowing
    <3>5. pc[c] \in {"release", "signal"} => own'[fr[c].gen].strong = 0
      BY <1>2, <3>1 DEF CallerOK
    <3>6. ASSUME pc[c] \in {"stop_join", "stop_complete"}, fr'[c].reply = "ok"
          PROVE  wk'[fr[c].gen].pc \in {"none", "leaving", "exiting", "finished"}
      <4>1. fr'[c] = fr[c] /\ fr[c].gen \in Owners
        BY <1>2, <3>1, <3>6
      <4>2. PICK h \in Owners : h = fr[c].gen
        BY <4>1
      <4>3. ~Working(h)
        BY <3>1, <3>6, <4>1, <4>2 DEF CallerOK
      <4>4. ~Working(h)'
        BY <2>3, <4>3
      <4>5. QED
        BY <4>2, <4>4 DEF Working
    <3>7. QED
      BY <3>2, <3>3, <3>4, <3>5, <3>6 DEF CallerOK, Working
  <2>5. RootFenced'
    BY <1>2, <2>3 DEF FenceInv, RootFenced, slot
  <2>6. QED
    BY <1>2, <2>2, <2>4, <2>5 DEF FenceInv, PhaseOK, slot
<1>3. ASSUME NEW at, WorkerGoto(g, at) PROVE wk'[g].pc = at /\ \A h \in Owners : h # g => wk'[h] = wk[h]
  BY <1>0, <1>3 DEF WorkerGoto, WorkerOK, WorkerType
<1>4. CASE Poll(g) \/ Receive(g) \/ Checkpoint(g)
  <2>1. UNCHANGED <<slot, own, threads>> /\ Working(g)
    BY <1>4 DEF Poll, Receive, Checkpoint, Working
  <2>2. \A h \in Owners : h # g => wk'[h] = wk[h]
    BY <1>0, <1>4 DEF Poll, Receive, Checkpoint, WorkerGoto, Flush, WorkerOK
  <2>3. QED
    BY <1>2, <2>1, <2>2 DEF threads, Working
<1>5. CASE Take(g) \/ Persist(g)
  <2>1. UNCHANGED <<slot, threads>> /\ Working(g)
    BY <1>5 DEF Take, Persist, Working
  <2>2. \A h \in Owners : h # g => wk'[h] = wk[h]
    BY <1>0, <1>5 DEF Take, Persist, WorkerGoto, WorkerOK
  <2>3. \E n : own' = [own EXCEPT ![g].slots = n]
    BY <1>5 DEF Take, Persist
  <2>4. \A h \in Owners : SameOwner(own[h], own'[h]) /\ (h # g => own'[h] = own[h])
    BY <1>0, <2>3 DEF SameOwner, OwnOK, OwnerType
  <2>5. QED
    BY <1>2, <2>1, <2>2, <2>4 DEF threads, Working, SameOwner
<1>6. CASE Flushed(g)
  <2>1. UNCHANGED <<slot, pc>> /\ Working(g)
    BY <1>6 DEF Flushed, Working
  <2>2. \A h \in Owners : h # g => wk'[h] = wk[h]
    BY <1>0, <1>6 DEF Flushed, WorkerGoto, WorkerOK
  <2>3. \/ own' = own
        \/ own' = [own EXCEPT ![g].completion = Result(g)] /\ WorkerGoto(g, "leaving")
    BY <1>6 DEF Flushed
  <2>4. fr' = fr \/ fr' = Answered(wk[g].for, Result(g))
    BY <1>6 DEF Flushed
  <2>5. \A c \in Threads : fr'[c].gen = fr[c].gen /\ (pc[c] # "await" => fr'[c] = fr[c])
    <3>1. \A c \in Threads : wk[g].for = c => pc[c] = "await"
      BY DEF CommandInv, ForOK, Asked
    <3>2. QED
      BY <1>0, <2>4, <3>1 DEF Answered, ThreadsOK, FrameType
  <2>6. /\ \A h \in Owners : /\ own'[h].count = own[h].count /\ own'[h].strong = own[h].strong
                             /\ own'[h].joinable = own[h].joinable
                             /\ h # g => own'[h] = own[h]
        /\ own'[g].completion = own[g].completion \/ (own'[g].completion = Result(g) /\ wk'[g].pc = "leaving")
    BY <1>0, <1>3, <2>3 DEF OwnOK, OwnerType
  <2>7. Result(g) # "none"
    BY DEF Result
  <2>8. QED
    BY <1>2, <2>1, <2>2, <2>5, <2>6, <2>7 DEF Ended, Working
<1>7. CASE Leave(g) \/ Die(g)
  <2>1. UNCHANGED <<slot, own, pc>> /\ Hangup(g) /\ wk[g].pc \in {"leaving", "poll"}
    BY <1>7 DEF Leave, Die
  <2>2. \A c \in Threads : fr'[c].gen = fr[c].gen /\ (pc[c] # "await" => fr'[c] = fr[c])
    BY <1>0, <2>1 DEF Hangup, At, ThreadsOK, FrameType
  <2>3. wk'[g].pc = "exiting" /\ \A h \in Owners : h # g => wk'[h] = wk[h]
    BY <1>3, <2>1 DEF Hangup
  <2>4. QED
    BY <1>2, <2>1, <2>2, <2>3 DEF Ended
<1>8. CASE Exit(g)
  <2>1. UNCHANGED <<nextGen, own, pc, fr>> /\ wk[g].pc = "exiting" /\ phase' = worker_finished(g)
    BY <1>8 DEF Exit, threads
  <2>2. wk'[g].pc = "finished" /\ \A h \in Owners : h # g => wk'[h] = wk[h]
    BY <1>3, <1>8 DEF Exit
  <2>3. \A h \in Owners : (Droppers(h))' = Droppers(h)
    BY <1>1, <2>1
  <2>4. \A h \in Owners : OwnerOK(h)'
    BY <2>1, <2>2, <2>3 DEF FenceInv, OwnerOK, Finished, Ended
  <2>5. \A h \in Owners : Working(h)' => Working(h) /\ h # g
    BY <2>2 DEF Working
  <2>6. \A c \in Threads : CallerOK(c)'
    <3> SUFFICES ASSUME NEW c \in Threads PROVE CallerOK(c)'
      OBVIOUS
    <3>1. CallerOK(c) /\ (pc[c] \notin {"idle", "open"} => fr[c].gen \in Owners)
      BY <1>0 DEF FenceInv, ThreadsOK, Shape
    <3>2. QED
      BY <2>1, <2>2, <3>1 DEF CallerOK, Working
  <2>7. \/ phase' = phase
        \/ phase' = [kind |-> "Vacant", gen |-> 0]
        \/ phase' = [kind |-> "Faulted", gen |-> g] /\ phase.gen = g /\ phase.kind # "Vacant"
    BY <2>1 DEF worker_finished
  <2>8. PhaseOK'
    BY <2>1, <2>7 DEF FenceInv, PhaseOK
  <2>9. RootFenced'
    <3>1. ASSUME NEW h \in Owners, Working(h)' PROVE phase' = phase
      <4>1. phase.gen = h /\ h # g
        BY <2>5, <3>1 DEF FenceInv, RootFenced
      <4>2. QED
        BY <2>1, <4>1 DEF worker_finished
    <3>2. QED
      BY <2>5, <3>1 DEF FenceInv, RootFenced
  <2>10. QED
    BY <2>4, <2>6, <2>8, <2>9 DEF FenceInv
<1>9. QED
  BY <1>4, <1>5, <1>6, <1>7, <1>8 DEF Work

\* The invariant of the fence.
LEMMA FenceStep ==
    ASSUME TypeInv, TypeInv', CommandInv, FenceInv, Next
    PROVE  FenceInv'
<1>1. CASE \E c \in Threads : Calls(c) \/ Step(c) \/ FlushExpires(c)
  <2>1. PICK c \in Threads : Calls(c) \/ Step(c) \/ FlushExpires(c)
    BY <1>1
  <2>2. QED
    BY <2>1, ChangeFence, StopFence, OpenFence, DropFence DEF Calls, Step
<1>2. CASE \E g \in Owners : Work(g) \/ Die(g)
  BY <1>2, WorkerFence
<1>3. QED
  BY <1>1, <1>2 DEF Next

LEMMA FenceStutter == FenceInv /\ UNCHANGED vars => FenceInv'
BY DEF FenceInv, PhaseOK, RootFenced, OwnerOK, CallerOK, Droppers, Working, Finished, vars, moves,
       slot, worker, threads

\* Types, commands and fence, of every state.
LEMMA FenceHolds == Spec => [](TypeInv /\ CommandInv /\ FenceInv)
<1>1. Init => TypeInv /\ CommandInv /\ FenceInv
  BY InitTypes, InitCommands, InitFence
<1>2. TypeInv /\ CommandInv /\ FenceInv /\ [Next]_vars => (TypeInv /\ CommandInv /\ FenceInv)'
  BY TypesStep, TypesStutter, FenceStep, FenceStutter
<1>3. QED
  BY <1>1, <1>2, PTL DEF Spec

\* release_root_owner, complete_root_shutdown and the fence of a worker: a worker
\* writes only while the root is bound to its generation; a late one
\* neither writes next to its successor nor changes the phase its successor is in,
\* however opens, shutdowns, drops and the death of workers follow each other.
THEOREM WorkerIsFenced == Spec => []RootFenced
<1>1. FenceInv => RootFenced
  BY DEF FenceInv
<1>2. QED
  BY <1>1, FenceHolds, PTL

-----------------------------------------------------------------------------
(* The live cache and its lock *)

\* A thread inside the live cache.
Inside(c) == pc[c] \in {"record", "publish"}

Recording(g) == \E c \in Threads : pc[c] = "record" /\ fr[c].gen = g

\* The mutex has one holder, and it is the thread that is inside; only that one
\* has a reservation.
GuardInv ==
    /\ \A g \in Owners, c \in Threads : guard[g] = c <=> Inside(c) /\ fr[c].gen = g
    /\ \A g \in Owners : own[g].reserving = IF Recording(g) THEN 1 ELSE 0

\* A step of c that is not inside, before or after it, and opens no owner.
Outside(c) ==
    /\ UNCHANGED <<nextGen, data, taken, persisted, durable>>
    /\ ~Inside(c) /\ ~Inside(c)'
    /\ \A d \in Threads : d # c => pc'[d] = pc[d] /\ fr'[d] = fr[d]
    /\ \A h \in Owners : /\ own'[h].reserving = own[h].reserving /\ own'[h].slots = own[h].slots
                         /\ own'[h].rev >= own[h].rev
                         /\ guard[h] # None => own'[h].rev = own[h].rev
                         /\ own'[h].strong > 0 => own[h].strong > 0
                         /\ wk'[h].pc = wk[h].pc /\ wk'[h].why = wk[h].why
                         /\ wk'[h].for \in {wk[h].for, None}

\* A thread that returns is not inside.
LEMMA Returns ==
    ASSUME TypeInv, NEW c \in Threads, Return(c)
    PROVE  /\ ~Inside(c)' /\ pc'[c] = "idle"
           /\ \A d \in Threads : d # c => pc'[d] = pc[d] /\ fr'[d] = fr[d]
BY DEF TypeInv, ThreadsOK, Return, Goto, Inside

\* Every step of a thread that neither opens an owner nor changes the live cache.
Elsewhere(c) ==
    \/ CallOpen(c) \/ CallFlush(c) \/ CallShutdown(c) \/ CallDrop(c) \/ OpenShared(c)
    \/ FlushSend(c) \/ FlushDone(c) \/ FlushExpires(c)
    \/ StopRequest(c) \/ StopWait(c) \/ StopSend(c) \/ StopAwait(c) \/ StopJoin(c)
    \/ StopComplete(c) \/ DropReference(c) \/ DropRelease(c) \/ DropSignal(c)

LEMMA ElsewhereIsOutside ==
    ASSUME TypeInv, NEW c \in Threads, Elsewhere(c)
    PROVE  Outside(c)
<1>0. ThreadsOK /\ OwnOK /\ WorkerOK
  BY DEF TypeInv
<1>1. UNCHANGED <<nextGen, data, taken, persisted, durable>>
  BY DEF Elsewhere, CallOpen, CallFlush, CallShutdown, CallDrop, OpenShared, FlushSend, FlushDone,
         FlushExpires, StopRequest, StopWait, StopSend, StopAwait, StopJoin, StopComplete,
         DropReference, DropRelease, DropSignal, slot, worker
<1>2. ~Inside(c)
  BY DEF Elsewhere, CallOpen, CallFlush, CallShutdown, CallDrop, OpenShared, FlushSend, FlushDone,
         FlushExpires, StopRequest, StopWait, StopSend, StopAwait, StopJoin, StopComplete,
         DropReference, DropRelease, DropSignal, At, Begin, Inside
<1>3. ~Inside(c)' /\ \A d \in Threads : d # c => pc'[d] = pc[d] /\ fr'[d] = fr[d]
  <2>1. CASE Return(c)
    BY <2>1, Returns
  <2>2. CASE \E x \in Labels \ {"record", "publish"} : Goto(c, x)
    <3>1. ~Inside(c)' /\ \A d \in Threads : d # c => pc'[d] = pc[d]
      BY <1>0, <2>2 DEF Goto, ThreadsOK, Inside
    <3>2. \A d \in Threads : d # c => fr'[d] = fr[d]
      BY <1>0, Returns DEF Elsewhere, CallOpen, CallFlush, CallShutdown, CallDrop, OpenShared,
         FlushSend, FlushDone, FlushExpires, StopRequest, StopWait, StopSend, StopAwait, StopJoin,
         StopComplete, DropReference, DropRelease, DropSignal, ThreadsOK
    <3>3. QED
      BY <3>1, <3>2
  <2>3. Return(c) \/ \E x \in Labels \ {"record", "publish"} : Goto(c, x)
    BY DEF Elsewhere, CallOpen, CallFlush, CallShutdown, CallDrop, OpenShared, FlushSend, FlushDone,
           FlushExpires, StopRequest, StopWait, StopSend, StopAwait, StopJoin, StopComplete,
           DropReference, DropRelease, DropSignal, Labels
  <2>4. QED
    BY <2>1, <2>2, <2>3
<1>4. \A h \in Owners : /\ wk'[h].pc = wk[h].pc /\ wk'[h].why = wk[h].why
                        /\ wk'[h].for \in {wk[h].for, None}
  <2>1. CASE FlushExpires(c)
    BY <1>0, <2>1 DEF FlushExpires, WorkerOK, WorkerType
  <2>2. CASE ~FlushExpires(c)
    BY <2>2 DEF Elsewhere, CallOpen, CallFlush, CallShutdown, CallDrop, OpenShared, FlushSend,
       FlushDone, StopRequest, StopWait, StopSend, StopAwait, StopJoin, StopComplete,
       DropReference, DropRelease, DropSignal, worker
  <2>3. QED
    BY <2>1, <2>2
<1>5. \A h \in Owners : /\ own'[h].reserving = own[h].reserving /\ own'[h].slots = own[h].slots
                        /\ own'[h].rev = own[h].rev
                        /\ own'[h].strong > 0 => own[h].strong > 0
  <2>1. CASE own' = own
    BY <1>0, <2>1 DEF OwnOK, OwnerType
  <2>2. CASE OpenShared(c) \/ CallDrop(c) \/ DropReference(c)
    <3>1. \E g, n, m : \/ own[g].strong > 0 /\ own' = [own EXCEPT ![g].count = n, ![g].strong = m]
                      \/ own' = [own EXCEPT ![g].count = n]
                      \/ own' = [own EXCEPT ![g].strong = @ - 1]
      BY <2>2 DEF OpenShared, CallDrop, DropReference
    <3>2. QED
      BY <1>0, <3>1 DEF OwnOK, OwnerType
  <2>3. CASE StopRequest(c) \/ StopWait(c) \/ StopSend(c)
    <3>1. \E g : \/ own' = own
                \/ own' = [own EXCEPT ![g].requested = TRUE]
                \/ own' = [own EXCEPT ![g].sent = TRUE]
                \/ own' = [own EXCEPT ![g].sent = FALSE]
      BY <2>3 DEF StopRequest, StopWait, StopSend
    <3>2. QED
      BY <1>0, <3>1 DEF OwnOK, OwnerType
  <2>4. CASE StopAwait(c)
    <3>1. \E g : own' = own \/ own' = Joining(g)
      BY <2>4 DEF StopAwait
    <3>2. QED
      BY <1>0, <3>1 DEF Joining, OwnOK, OwnerType
  <2>5. CASE DropSignal(c)
    <3>1. \E g, b : \/ own' = own
                   \/ own' = [own EXCEPT ![g].requested = TRUE, ![g].sent = b,
                                         ![g].sender = FALSE, ![g].joinable = FALSE]
      BY <2>5 DEF DropSignal
    <3>2. QED
      BY <1>0, <3>1 DEF OwnOK, OwnerType
  <2>6. QED
    BY <2>1, <2>2, <2>3, <2>4, <2>5 DEF Elsewhere, CallOpen, CallFlush, CallShutdown, FlushSend,
       FlushDone, FlushExpires, StopJoin, StopComplete, DropRelease
<1>6. \A h \in Owners : own[h].rev \in Nat
  BY <1>0 DEF OwnOK, OwnerType
<1>7. QED
  BY <1>1, <1>2, <1>3, <1>4, <1>5, <1>6 DEF Outside

\* What every step of the worker of g leaves alone.
Apart(g) ==
    /\ UNCHANGED <<nextGen, memory, guard, pc>>
    /\ wk[g].pc # "none"
    /\ \A c \in Threads : /\ fr'[c].gen = fr[c].gen /\ fr'[c].want = fr[c].want
                          /\ pc[c] # "await" => fr'[c] = fr[c]
    /\ \A h \in Owners : /\ own'[h].reserving = own[h].reserving /\ own'[h].rev = own[h].rev
                         /\ own'[h].requested = own[h].requested /\ own'[h].sender = own[h].sender
                         /\ own'[h].strong = own[h].strong
    /\ \A h \in Owners : h # g =>
          /\ own'[h] = own[h] /\ wk'[h] = wk[h] /\ queue'[h] = queue[h]
          /\ dirty'[h] = dirty[h] /\ taken'[h] = taken[h] /\ persisted'[h] = persisted[h]

LEMMA WorkIsApart ==
    ASSUME TypeInv, CommandInv, NEW g \in Owners, Work(g) \/ Die(g)
    PROVE  Apart(g)
<1>0. ThreadsOK /\ OwnOK /\ WorkerOK /\ QueueOK /\ DirtyOK /\ TakenOK /\ PersistedOK
  BY DEF TypeInv
<1>1. UNCHANGED <<nextGen, memory, guard, pc>> /\ wk[g].pc # "none"
  BY DEF Work, Poll, Receive, Take, Persist, Checkpoint, Flushed, Leave, Die, Exit, slot, data, threads
<1>2. \A c \in Threads : /\ fr'[c].gen = fr[c].gen /\ fr'[c].want = fr[c].want
                         /\ pc[c] # "await" => fr'[c] = fr[c]
  <2>1. CASE fr' = fr
    BY <2>1
  <2>2. CASE Flushed(g)
    <3>1. fr' = fr \/ fr' = Answered(wk[g].for, Result(g))
      BY <2>2 DEF Flushed
    <3>2. \A c \in Threads : wk[g].for = c => pc[c] = "await"
      BY DEF CommandInv, ForOK, Asked
    <3>3. QED
      BY <1>0, <3>1, <3>2 DEF Answered, ThreadsOK, FrameType
  <2>3. CASE Leave(g) \/ Die(g)
    <3>1. \A c \in Threads :
             fr'[c] = fr[c] \/ (pc[c] = "await" /\ fr'[c] = [fr[c] EXCEPT !.reply = "error"])
      BY <2>3 DEF Leave, Die, Hangup, At
    <3>2. \A c \in Threads : /\ [fr[c] EXCEPT !.reply = "error"].gen = fr[c].gen
                             /\ [fr[c] EXCEPT !.reply = "error"].want = fr[c].want
      BY <1>0 DEF ThreadsOK, FrameType
    <3>3. QED
      BY <3>1, <3>2
  <2>4. QED
    BY <2>1, <2>2, <2>3 DEF Work, Poll, Receive, Take, Persist, Checkpoint, Exit, threads
<1>3. /\ \A h \in Owners : /\ own'[h].reserving = own[h].reserving /\ own'[h].rev = own[h].rev
                           /\ own'[h].requested = own[h].requested /\ own'[h].sender = own[h].sender
                           /\ own'[h].strong = own[h].strong
      /\ \A h \in Owners : h # g => own'[h] = own[h]
  <2>1. \E x : \/ own' = own
               \/ own' = [own EXCEPT ![g].slots = x]
               \/ own' = [own EXCEPT ![g].completion = x]
    BY DEF Work, Poll, Receive, Take, Persist, Checkpoint, Flushed, Leave, Die, Exit
  <2>2. QED
    BY <1>0, <2>1 DEF OwnOK, OwnerType
<1>4. \A h \in Owners : h # g => wk'[h] = wk[h]
  <2>1. \E x : wk' = [wk EXCEPT ![g] = x]
    <3>1. CASE Poll(g) \/ Receive(g) \/ Take(g) \/ Checkpoint(g) \/ Leave(g) \/ Die(g) \/ Exit(g)
      BY <3>1 DEF Poll, Receive, Take, Checkpoint, Leave, Die, Exit, Hangup, WorkerGoto, Flush
    <3>2. CASE Persist(g)
      BY <3>2 DEF Persist, WorkerGoto
    <3>3. CASE Flushed(g)
      BY <3>3 DEF Flushed, WorkerGoto
    <3>4. QED
      BY <3>1, <3>2, <3>3 DEF Work
  <2>2. QED
    BY <1>0, <2>1 DEF WorkerOK
<1>5. \A h \in Owners : h # g => queue'[h] = queue[h]
  <2>1. \E x : queue' = queue \/ queue' = [queue EXCEPT ![g] = x]
    BY DEF Work, Poll, Receive, Take, Persist, Checkpoint, Flushed, Leave, Die, Exit, Hangup
  <2>2. QED
    BY <1>0, <2>1 DEF QueueOK
<1>6. \A h \in Owners : h # g =>
         dirty'[h] = dirty[h] /\ taken'[h] = taken[h] /\ persisted'[h] = persisted[h]
  <2>1. \E x : dirty' = dirty \/ dirty' = [dirty EXCEPT ![g] = x]
    BY DEF Work, Poll, Receive, Take, Persist, Checkpoint, Flushed, Leave, Die, Exit, data
  <2>2. \E x : taken' = taken \/ taken' = [taken EXCEPT ![g] = x]
    BY DEF Work, Poll, Receive, Take, Persist, Checkpoint, Flushed, Leave, Die, Exit
  <2>3. \E x : persisted' = persisted \/ persisted' = [persisted EXCEPT ![g] = x]
    BY DEF Work, Poll, Receive, Take, Persist, Checkpoint, Flushed, Leave, Die, Exit
  <2>4. QED
    BY <1>0, <2>1, <2>2, <2>3 DEF DirtyOK, TakenOK, PersistedOK
<1>7. QED
  BY <1>1, <1>2, <1>3, <1>4, <1>5, <1>6 DEF Apart

\* A reservation is admitted.
Admitted(c, op, g, batch, key) ==
    /\ pc[c] = "idle" /\ own[g].count > 0 /\ guard[g] = None /\ Admits(g)
    /\ Fits(g, Cardinality(batch))
    /\ own' = [own EXCEPT ![g].reserving = @ + 1, ![g].rev = @ + 1,
                          ![g].slots = @ + Cardinality(batch)]
    /\ guard' = [guard EXCEPT ![g] = c]
    /\ fr' = [fr EXCEPT ![c] = [NoFrame EXCEPT !.op = op, !.gen = g, !.batch = batch,
                                               !.key = key, !.rev = own[g].rev + 1]]
    /\ pc' = [pc EXCEPT ![c] = "record"]
    /\ UNCHANGED <<slot, memory, dirty, queue, worker>>

\* A reservation is rejected.
Rejected(c) ==
    /\ \E g \in Owners : guard[g] = None /\ (own' = own \/ own' = [own EXCEPT ![g].rev = @ + 1])
    /\ UNCHANGED <<slot, data, queue, worker, threads>> /\ pc[c] = "idle"

LEMMA Reserves ==
    ASSUME TypeInv, NEW c \in Threads, CallCommit(c) \/ CallPrune(c)
    PROVE  \/ Rejected(c)
           \/ \E op \in {"commit", "prune"}, g \in Owners, batch \in SUBSET Keys, key \in Keys \cup {None} :
                 Admitted(c, op, g, batch, key)
<1>1. PICK op \in {"commit", "prune"}, g \in Owners, batch \in SUBSET Keys, key \in Keys \cup {None} :
         Reserve(c, op, g, batch, key)
  <2>1. CASE CallCommit(c)
    <3>1. PICK g \in Owners, k \in limits.keys : \E expired \in SUBSET (Present(g) \ {k}) :
             Reserve(c, "commit", g, expired \cup {k}, k)
      BY <2>1 DEF CallCommit
    <3>2. PICK expired \in SUBSET (Present(g) \ {k}) : Reserve(c, "commit", g, expired \cup {k}, k)
      BY <3>1
    <3>3. k \in Keys /\ expired \cup {k} \in SUBSET Keys
      BY CacheOwnerAssumption DEF Present, TypeInv, LimitsOK
    <3>4. QED
      BY <3>2, <3>3
  <2>2. CASE CallPrune(c)
    <3>1. PICK g \in Owners : \E pruned \in SUBSET Present(g) : Reserve(c, "prune", g, pruned, None)
      BY <2>2 DEF CallPrune
    <3>2. PICK pruned \in SUBSET Present(g) : Reserve(c, "prune", g, pruned, None)
      BY <3>1
    <3>3. pruned \in SUBSET Keys
      BY DEF Present
    <3>4. QED
      BY <3>2, <3>3
  <2>3. QED
    BY <2>1, <2>2
<1>2. CASE Admits(g) /\ Fits(g, Cardinality(batch))
  <2>1. Admitted(c, op, g, batch, key)
    BY <1>1, <1>2 DEF Reserve, Begin, At, Goto, Admitted
  <2>2. QED
    BY <2>1
<1>3. CASE ~(Admits(g) /\ Fits(g, Cardinality(batch)))
  <2>1. own' = [own EXCEPT ![g].rev = IF Admits(g) THEN @ + 1 ELSE @]
    BY <1>1, <1>3 DEF Reserve
  <2>2. own' = own \/ own' = [own EXCEPT ![g].rev = @ + 1]
    BY <2>1 DEF TypeInv, OwnOK, OwnerType
  <2>3. UNCHANGED <<slot, data, queue, worker, threads>> /\ pc[c] = "idle" /\ guard[g] = None
    BY <1>1, <1>3 DEF Reserve, Begin, At, data
  <2>4. QED
    BY <2>2, <2>3 DEF Rejected
<1>4. QED
  BY <1>2, <1>3

LEMMA RejectedIsOutside == ASSUME TypeInv, NEW c \in Threads, Rejected(c) PROVE Outside(c)
<1>1. PICK g \in Owners : guard[g] = None /\ (own' = own \/ own' = [own EXCEPT ![g].rev = @ + 1])
  BY DEF Rejected
<1>2. \A h \in Owners : /\ own'[h].reserving = own[h].reserving /\ own'[h].slots = own[h].slots
                        /\ own'[h].rev >= own[h].rev /\ (guard[h] # None => own'[h].rev = own[h].rev)
                        /\ own'[h].strong = own[h].strong
  BY <1>1 DEF TypeInv, OwnOK, OwnerType
<1>3. QED
  BY <1>2 DEF Rejected, Outside, Inside, slot, worker, threads

\* A thread is inside with its own generation.
LEMMA InsideOwner ==
    ASSUME TypeInv, NEW c \in Threads, Inside(c)
    PROVE  fr[c].gen \in Owners /\ fr[c].op \in {"commit", "prune"} /\ fr[c] \in FrameType
BY DEF TypeInv, ThreadsOK, Shape, Inside

\* Two threads are not inside of one live cache.
LEMMA InsideAlone ==
    ASSUME TypeInv, GuardInv, NEW c \in Threads, NEW d \in Threads, Inside(c), Inside(d),
           fr[c].gen = fr[d].gen
    PROVE  c = d
BY InsideOwner DEF GuardInv

LEMMA InitGuard == Init => GuardInv
BY CacheOwnerAssumption DEF Init, GuardInv, Inside, Recording, Opened, Unopened, Owner

\* Nobody enters or leaves.
LEMMA GuardStays ==
    ASSUME TypeInv, GuardInv, UNCHANGED guard,
           \A d \in Threads : /\ Inside(d)' <=> Inside(d)
                              /\ Inside(d) => pc'[d] = pc[d] /\ fr'[d].gen = fr[d].gen,
           \A h \in Owners : own'[h].reserving = own[h].reserving
    PROVE  GuardInv'
<1>1. \A h \in Owners : Recording(h)' <=> Recording(h)
  BY DEF Recording, Inside
<1>2. \A h \in Owners : own'[h].reserving = IF Recording(h)' THEN 1 ELSE 0
  BY <1>1 DEF GuardInv
<1>3. QED
  BY <1>2 DEF GuardInv

\* The lock and the reservations.
LEMMA GuardStep ==
    ASSUME TypeInv, TypeInv', CommandInv, FenceInv, GuardInv, Next
    PROVE  GuardInv'
<1>0. ThreadsOK /\ OwnOK /\ GuardOK
  BY DEF TypeInv
<1>1. ASSUME NEW c \in Threads, Outside(c) PROVE GuardInv'
  <2>1. \A d \in Threads : /\ Inside(d)' <=> Inside(d)
                           /\ Inside(d) => pc'[d] = pc[d] /\ fr'[d].gen = fr[d].gen
    BY <1>1 DEF Outside, Inside
  <2>2. QED
    BY <1>1, <2>1, GuardStays DEF Outside, data
<1>2. ASSUME NEW g \in Owners, Work(g) \/ Die(g) PROVE GuardInv'
  <2>1. Apart(g)
    BY <1>2, WorkIsApart
  <2>2. \A d \in Threads : /\ Inside(d)' <=> Inside(d)
                           /\ Inside(d) => pc'[d] = pc[d] /\ fr'[d].gen = fr[d].gen
    BY <2>1 DEF Apart, Inside
  <2>3. QED
    BY <2>1, <2>2, GuardStays DEF Apart
<1>3. ASSUME NEW c \in Threads, OpenVacant(c) PROVE GuardInv'
  <2>1. pc[c] = "open" /\ Return(c) /\ UNCHANGED guard
    BY <1>3 DEF OpenVacant, At
  <2>2. \A d \in Threads : /\ Inside(d)' <=> Inside(d)
                           /\ Inside(d) => pc'[d] = pc[d] /\ fr'[d].gen = fr[d].gen
    BY <2>1, Returns DEF Inside
  <2>3. \A h \in Owners : own'[h].reserving = own[h].reserving
    <3>1. own' = own \/ own' = [own EXCEPT ![nextGen + 1] = Opened]
      BY <1>3 DEF OpenVacant
    <3>2. \A h \in Owners : h = nextGen + 1 => own[h].reserving = 0
      <4>1. nextGen \in Nat
        BY CacheOwnerAssumption DEF TypeInv, SlotOK
      <4>2. \A d \in Threads : fr[d].gen # nextGen + 1
        BY <1>0, <4>1 DEF FenceInv, CallerOK, ThreadsOK, FrameType
      <4>3. QED
        BY <4>2 DEF GuardInv, Recording
    <3>3. QED
      BY <1>0, <3>1, <3>2 DEF OwnOK, Opened, Owner
  <2>4. QED
    BY <2>1, <2>2, <2>3, GuardStays
<1>4. ASSUME NEW c \in Threads, NEW op, NEW g \in Owners, NEW batch, NEW key,
             Admitted(c, op, g, batch, key)
      PROVE  GuardInv'
  <2>1. /\ pc[c] = "idle" /\ pc'[c] = "record" /\ fr'[c].gen = g
        /\ \A d \in Threads : d # c => pc'[d] = pc[d] /\ fr'[d] = fr[d]
    BY <1>0, <1>4 DEF Admitted, ThreadsOK, NoFrame
  <2>2. guard[g] = None /\ guard'[g] = c /\ \A h \in Owners : h # g => guard'[h] = guard[h]
    BY <1>0, <1>4 DEF Admitted, GuardOK
  <2>3. \A d \in Threads : ~(Inside(d) /\ fr[d].gen = g)
    BY <2>2, CacheOwnerAssumption DEF GuardInv
  <2>4. \A h \in Owners, d \in Threads : guard'[h] = d <=> Inside(d)' /\ fr'[d].gen = h
    BY <2>1, <2>2, <2>3 DEF GuardInv, Inside
  <2>5. ~Recording(g) /\ Recording(g)'
    BY <2>1, <2>3 DEF Recording, Inside
  <2>6. \A h \in Owners : h # g => (Recording(h)' <=> Recording(h))
    BY <2>1 DEF Recording
  <2>7. own'[g].reserving = own[g].reserving + 1 /\ \A h \in Owners : h # g => own'[h] = own[h]
    BY <1>0, <1>4 DEF Admitted, OwnOK, OwnerType
  <2>8. \A h \in Owners : own'[h].reserving = IF Recording(h)' THEN 1 ELSE 0
    BY <2>5, <2>6, <2>7 DEF GuardInv
  <2>9. QED
    BY <2>4, <2>8 DEF GuardInv
<1>5. ASSUME NEW c \in Threads, Record(c) PROVE GuardInv'
  <2>0. PICK g \in Owners : g = fr[c].gen /\ Inside(c)
    BY <1>5, InsideOwner DEF Record, At, Inside
  <2>1. /\ pc[c] = "record" /\ pc'[c] \in {"publish", "idle"}
        /\ \A d \in Threads : d # c => pc'[d] = pc[d] /\ fr'[d] = fr[d]
        /\ pc'[c] = "publish" => fr'[c] = fr[c] /\ guard' = guard
        /\ pc'[c] = "idle" => guard' = [guard EXCEPT ![g] = None]
    BY <1>0, <1>5, <2>0 DEF Record, Return, Goto, At, ThreadsOK
  <2>2. \A d \in Threads : Inside(d) /\ fr[d].gen = g => d = c
    BY <2>0, InsideAlone
  <2>3. guard[g] = c
    BY <2>0 DEF GuardInv
  <2>4. \A h \in Owners, d \in Threads : guard'[h] = d <=> Inside(d)' /\ fr'[d].gen = h
    <3>1. CASE pc'[c] = "publish"
      BY <2>0, <2>1, <3>1 DEF GuardInv, Inside
    <3>2. CASE pc'[c] = "idle"
      <4>1. guard'[g] = None /\ \A h \in Owners : h # g => guard'[h] = guard[h]
        BY <1>0, <2>1, <3>2 DEF GuardOK
      <4>2. QED
        BY <2>0, <2>1, <2>2, <3>2, <4>1, CacheOwnerAssumption DEF GuardInv, Inside
    <3>3. QED
      BY <2>1, <3>1, <3>2
  <2>5. Recording(g) /\ ~Recording(g)'
    BY <2>0, <2>1, <2>2 DEF Recording, Inside
  <2>6. \A h \in Owners : h # g => (Recording(h)' <=> Recording(h))
    BY <2>0, <2>1 DEF Recording
  <2>7. own'[g].reserving = own[g].reserving - 1 /\ \A h \in Owners : h # g => own'[h] = own[h]
    <3>1. \E n : own' = [own EXCEPT ![g].reserving = own[g].reserving - 1, ![g].slots = n]
      BY <1>5, <2>0 DEF Record, finish_reservation
    <3>2. QED
      BY <1>0, <3>1 DEF OwnOK, OwnerType
  <2>8. \A h \in Owners : own'[h].reserving = IF Recording(h)' THEN 1 ELSE 0
    BY <2>5, <2>6, <2>7 DEF GuardInv
  <2>9. QED
    BY <2>4, <2>8 DEF GuardInv
<1>6. ASSUME NEW c \in Threads, Publish(c) PROVE GuardInv'
  <2>0. PICK g \in Owners : g = fr[c].gen /\ Inside(c)
    BY <1>6, InsideOwner DEF Publish, At, Inside
  <2>1. /\ pc[c] = "publish" /\ pc'[c] \in {"flush", "idle"}
        /\ \A d \in Threads : d # c => pc'[d] = pc[d] /\ fr'[d] = fr[d]
        /\ guard' = [guard EXCEPT ![g] = None] /\ own' = own
    BY <1>0, <1>6, <2>0 DEF Publish, Return, Goto, At, ThreadsOK
  <2>2. \A d \in Threads : Inside(d) /\ fr[d].gen = g => d = c
    BY <2>0, InsideAlone
  <2>3. guard'[g] = None /\ \A h \in Owners : h # g => guard'[h] = guard[h]
    BY <1>0, <2>1 DEF GuardOK
  <2>4. \A h \in Owners, d \in Threads : guard'[h] = d <=> Inside(d)' /\ fr'[d].gen = h
    BY <2>0, <2>1, <2>2, <2>3, CacheOwnerAssumption DEF GuardInv, Inside
  <2>5. \A h \in Owners : Recording(h)' <=> Recording(h)
    BY <2>1 DEF Recording
  <2>6. QED
    BY <2>1, <2>4, <2>5 DEF GuardInv
<1>7. CASE \E c \in Threads : Calls(c) \/ Step(c) \/ FlushExpires(c)
  <2>1. PICK c \in Threads : Calls(c) \/ Step(c) \/ FlushExpires(c)
    BY <1>7
  <2>2. CASE CallCommit(c) \/ CallPrune(c)
    BY <1>1, <1>4, <2>2, Reserves, RejectedIsOutside
  <2>3. CASE Elsewhere(c)
    BY <1>1, <2>3, ElsewhereIsOutside
  <2>4. QED
    BY <1>3, <1>5, <1>6, <2>1, <2>2, <2>3 DEF Calls, Step, Elsewhere
<1>8. QED
  BY <1>2, <1>7 DEF Next

LEMMA GuardStutter == GuardInv /\ UNCHANGED vars => GuardInv'
BY DEF GuardInv, Inside, Recording, vars, moves, data, threads

-----------------------------------------------------------------------------
(* Shutdown *)

\* The owner admits no mutation any more, and none is under way.
Calm(g) == own[g].requested /\ own[g].reserving = 0

\* The command to shut down is in the queue.
Told(g) == \E i \in 1..Len(queue[g]) : queue[g][i] = <<"shutdown">>

\* The last flush of a worker begins when the owner is calm: what it takes is all
\* there will be.
QuietOK(g) ==
    /\ g > nextGen => /\ queue[g] = <<>> /\ dirty[g] = NoDeltas /\ taken[g] = NoDeltas
                      /\ persisted[g] = [k \in Keys |-> 0]
    /\ Told(g) => Calm(g)
    /\ wk[g].why = "shutdown" => Calm(g)
    /\ own[g].sender \/ Calm(g) \/ ~Working(g)
    /\ wk[g].why = "shutdown" /\ wk[g].pc \in {"persist", "checkpoint", "flushed"} =>
          dirty[g] = NoDeltas
    /\ wk[g].pc # "persist" => taken[g] = NoDeltas
    /\ own[g].completion = "ok" => dirty[g] = NoDeltas /\ Calm(g)
    /\ wk[g].pc \in Flushing => wk[g].why # "none"

QuietCaller(c) ==
    /\ pc[c] = "stop_wait" => own[fr[c].gen].requested
    /\ pc[c] = "stop_send" => Calm(fr[c].gen)

QuietInv ==
    /\ \A g \in Owners : QuietOK(g)
    /\ \A c \in Threads : QuietCaller(c)

LEMMA InitQuiet == Init => QuietInv
<1> SUFFICES ASSUME Init PROVE QuietInv
  OBVIOUS
<1>1. \A g \in Owners : QuietOK(g)
  <2> SUFFICES ASSUME NEW g \in Owners PROVE QuietOK(g)
    OBVIOUS
  <2>1. /\ queue[g] = <<>> /\ dirty[g] = NoDeltas /\ taken[g] = NoDeltas
        /\ persisted[g] = [k \in Keys |-> 0]
        /\ wk[g] = Worker(IF g = 1 THEN "poll" ELSE "none")
        /\ own[g] = IF g = 1 THEN Opened ELSE Unopened
    BY DEF Init
  <2>2. own[g].completion = "none" /\ (own[g].sender \/ g # 1)
    BY <2>1 DEF Opened, Unopened, Owner
  <2>3. wk[g].why = "none" /\ wk[g].pc \notin Flushing /\ wk[g].pc # "persist" /\ (g # 1 => ~Working(g))
    BY <2>1 DEF Worker, Flushing, Working
  <2>4. ~Told(g)
    BY <2>1 DEF Told
  <2>5. QED
    BY <2>1, <2>2, <2>3, <2>4 DEF QuietOK
<1>2. \A c \in Threads : QuietCaller(c)
  BY DEF Init, QuietCaller
<1>3. QED
  BY <1>1, <1>2 DEF QuietInv

\* What a step may do to an owner without disturbing its end.
Undisturbed(h) ==
    /\ own[h].requested => own'[h].requested
    /\ own'[h].completion = own[h].completion
    /\ own'[h].sender \/ ~own[h].sender \/ Calm(h)' \/ ~Working(h)
    /\ Told(h)' => Told(h) \/ Calm(h)'
    /\ h > nextGen => queue'[h] = queue[h]

LEMMA QuietOutside ==
    ASSUME TypeInv, QuietInv, NEW c \in Threads, Outside(c), QuietCaller(c)',
           \A h \in Owners : Undisturbed(h)
    PROVE  QuietInv'
<1>1. \A h \in Owners : Calm(h) => Calm(h)'
  BY DEF Outside, Undisturbed, Calm
<1>2. \A h \in Owners : QuietOK(h)'
  <2> SUFFICES ASSUME NEW h \in Owners PROVE QuietOK(h)'
    OBVIOUS
  <2>1. QuietOK(h) /\ Undisturbed(h) /\ (Calm(h) => Calm(h)')
    BY <1>1 DEF QuietInv
  <2>2. /\ nextGen' = nextGen /\ dirty'[h] = dirty[h] /\ taken'[h] = taken[h]
        /\ persisted'[h] = persisted[h] /\ wk'[h].pc = wk[h].pc /\ wk'[h].why = wk[h].why
    BY DEF Outside, data
  <2>3. Working(h)' <=> Working(h)
    BY <2>2 DEF Working
  <2>4. QED
    BY <2>1, <2>2, <2>3 DEF QuietOK, Undisturbed
<1>3. ASSUME NEW d \in Threads, d # c PROVE QuietCaller(d)'
  <2>1. pc'[d] = pc[d] /\ fr'[d] = fr[d] /\ QuietCaller(d)
    BY <1>3 DEF Outside, QuietInv
  <2>2. CASE pc[d] \in {"stop_wait", "stop_send"}
    <3>1. PICK h \in Owners : h = fr[d].gen
      BY <2>2 DEF TypeInv, ThreadsOK, Shape
    <3>2. Undisturbed(h) /\ (Calm(h) => Calm(h)')
      BY <1>1
    <3>3. QED
      BY <2>1, <3>1, <3>2 DEF QuietCaller, Undisturbed, Calm
  <2>3. CASE pc[d] \notin {"stop_wait", "stop_send"}
    BY <2>1, <2>3 DEF QuietCaller
  <2>4. QED
    BY <2>2, <2>3
<1>4. QED
  BY <1>2, <1>3 DEF QuietInv

\* A queue that is left alone, or gets another command.
LEMMA ToldNot ==
    ASSUME QueueOK, NEW h \in Owners, NEW m, m # <<"shutdown">>,
           queue'[h] = queue[h] \/ queue'[h] = Append(queue[h], m)
    PROVE  Told(h)' => Told(h)
<1>1. queue[h] \in Seq(Commands)
  BY DEF QueueOK
<1>2. CASE queue'[h] = queue[h]
  BY <1>2 DEF Told
<1>3. CASE queue'[h] = Append(queue[h], m)
  <2> SUFFICES ASSUME Told(h)' PROVE Told(h)
    OBVIOUS
  <2>1. PICK n \in Nat : n = Len(queue[h])
    BY <1>1
  <2>2. Len(queue'[h]) = n + 1 /\ queue'[h][n + 1] = m
    BY <1>1, <1>3, <2>1
  <2>3. \A j \in 1..n : queue'[h][j] = queue[h][j]
    BY <1>1, <1>3, <2>1
  <2>4. PICK i \in 1..(n + 1) : queue'[h][i] = <<"shutdown">>
    BY <2>2 DEF Told
  <2>5. i # n + 1
    BY <2>2, <2>4, Zenon
  <2>6. i \in 1..n
    BY <2>5
  <2>7. QED
    BY <2>1, <2>3, <2>4, <2>6 DEF Told
<1>4. QED
  BY <1>2, <1>3

\* A step that sends nothing, and does not change what a shutdown looks at.
LEMMA QuietWalk ==
    ASSUME TypeInv, QuietInv, NEW c \in Threads, Outside(c), UNCHANGED queue,
           pc'[c] \notin {"stop_wait", "stop_send"},
           \A h \in Owners : /\ own'[h].requested = own[h].requested /\ own'[h].sender = own[h].sender
                             /\ own'[h].completion = own[h].completion
    PROVE  QuietInv'
<1>1. QuietCaller(c)'
  BY DEF QuietCaller
<1>2. \A h \in Owners : Undisturbed(h)
  BY DEF Undisturbed, Told
<1>3. QED
  BY <1>1, <1>2, QuietOutside

\* What the steps of a thread do to the part of its owner that a shutdown looks at.
LEMMA QuietCalls ==
    ASSUME TypeInv, QuietInv, NEW c \in Threads,
           \/ CallOpen(c) \/ CallFlush(c) \/ CallShutdown(c) \/ CallDrop(c) \/ OpenShared(c)
           \/ FlushDone(c) \/ StopJoin(c) \/ StopComplete(c) \/ DropReference(c) \/ DropRelease(c)
    PROVE  QuietInv'
<1>0. ThreadsOK /\ OwnOK
  BY DEF TypeInv
<1>1. Outside(c)
  BY ElsewhereIsOutside DEF Elsewhere
<1>2. UNCHANGED queue
  BY DEF CallOpen, CallFlush, CallShutdown, CallDrop, OpenShared, FlushDone, StopJoin,
         StopComplete, DropReference, DropRelease
<1>3. pc'[c] \notin {"stop_wait", "stop_send"}
  BY <1>0 DEF CallOpen, CallFlush, CallShutdown, CallDrop, OpenShared, FlushDone, StopJoin,
         StopComplete, DropReference, DropRelease, Return, Goto, ThreadsOK
<1>4. \A h \in Owners : /\ own'[h].requested = own[h].requested /\ own'[h].sender = own[h].sender
                        /\ own'[h].completion = own[h].completion
  <2>1. \E g, n, m : \/ own' = own
                     \/ own' = [own EXCEPT ![g].count = n, ![g].strong = m]
                     \/ own' = [own EXCEPT ![g].count = n]
                     \/ own' = [own EXCEPT ![g].strong = m]
    BY DEF CallOpen, CallFlush, CallShutdown, CallDrop, OpenShared, FlushDone, StopJoin,
           StopComplete, DropReference, DropRelease
  <2>2. QED
    BY <1>0, <2>1 DEF OwnOK, OwnerType
<1>5. QED
  BY <1>1, <1>2, <1>3, <1>4, QuietWalk

LEMMA QuietFlushes ==
    ASSUME TypeInv, TypeInv', FenceInv, QuietInv, NEW c \in Threads, FlushSend(c) \/ FlushExpires(c)
    PROVE  QuietInv'
<1>0. ThreadsOK /\ OwnOK /\ QueueOK
  BY DEF TypeInv
<1>1. Outside(c)
  BY ElsewhereIsOutside DEF Elsewhere
<1>2. pc[c] \in {"flush", "await"} /\ own' = own
  BY DEF FlushSend, FlushExpires, At
<1>3. PICK g \in Owners : g = fr[c].gen
  BY <1>0, <1>2 DEF ThreadsOK, Shape
<1>4. g <= nextGen
  BY <1>3 DEF FenceInv, CallerOK
<1>5. QuietCaller(c)'
  BY <1>0 DEF FlushSend, FlushExpires, Return, Goto, ThreadsOK, QuietCaller
<1>6. \A h \in Owners : h # g => queue'[h] = queue[h]
  BY <1>0, <1>3 DEF FlushSend, FlushExpires, Send, QueueOK
<1>7. Told(g)' => Told(g)
  <2>1. CASE FlushSend(c)
    <3>1. queue'[g] = queue[g] \/ queue'[g] = Append(queue[g], <<"flush", c>>)
      BY <1>0, <1>3, <2>1 DEF FlushSend, Send, QueueOK
    <3>2. <<"flush", c>> # <<"shutdown">>
      OBVIOUS
    <3>3. PICK m : m = <<"flush", c>>
      OBVIOUS
    <3>4. m # <<"shutdown">> /\ (queue'[g] = queue[g] \/ queue'[g] = Append(queue[g], m))
      BY <3>1, <3>2, <3>3
    <3>5. QED
      BY <1>0, <3>4, ToldNot
  <2>2. CASE FlushExpires(c)
    <3>1. queue[g] \in Seq(Commands)
      BY <1>0 DEF QueueOK
    <3>2. queue'[g] = [i \in DOMAIN queue[g] |->
                         IF queue[g][i] = <<"flush", c>> THEN <<"flush", None>> ELSE queue[g][i]]
      BY <1>0, <1>3, <2>2 DEF FlushExpires, QueueOK
    <3>3. DOMAIN queue[g] = 1..Len(queue[g])
      BY <3>1
    <3>4. queue'[g] \in Seq(Commands)
      BY DEF TypeInv, QueueOK
    <3>5. DOMAIN queue'[g] = 1..Len(queue'[g])
      BY <3>4
    <3>6. DOMAIN queue'[g] = DOMAIN queue[g]
      BY <3>2
    <3>7. \A i \in DOMAIN queue[g] : queue'[g][i] = <<"shutdown">> => queue[g][i] = <<"shutdown">>
      BY <3>2
    <3>8. QED
      BY <3>3, <3>5, <3>6, <3>7 DEF Told
  <2>3. QED
    BY <2>1, <2>2
<1>8. \A h \in Owners : Undisturbed(h)
  <2>1. \A h \in Owners : Told(h)' => Told(h)
    BY <1>6, <1>7 DEF Told
  <2>2. \A h \in Owners : h > nextGen => h # g
    BY <1>4, CacheOwnerAssumption DEF Owners, TypeInv, SlotOK
  <2>3. QED
    BY <1>2, <1>6, <2>1, <2>2 DEF Undisturbed
<1>9. QED
  BY <1>1, <1>5, <1>8, QuietOutside

\* An owner without references has nobody inside.
LEMMA NobodyRecords ==
    ASSUME TypeInv, FenceInv, GuardInv, NEW g \in Owners, own[g].strong = 0
    PROVE  own[g].reserving = 0
<1>1. own[g].count \in Nat /\ own[g].strong = own[g].count + Cardinality(Droppers(g))
  BY DEF TypeInv, OwnOK, OwnerType, FenceInv, OwnerOK
<1>2. own[g].count = 0
  <2>1. PICK n \in Nat : n = Cardinality(Droppers(g))
    BY DropperSets
  <2>2. QED
    BY <1>1, <2>1
<1>3. ~Recording(g)
  <2> SUFFICES ASSUME NEW d \in Threads, pc[d] = "record", fr[d].gen = g PROVE FALSE
    BY DEF Recording
  <2>1. pc[d] \in Borrowing
    BY DEF Borrowing, Labels
  <2>2. QED
    BY <1>2, <2>1 DEF FenceInv, CallerOK
<1>4. QED
  BY <1>3 DEF GuardInv

LEMMA QuietStops ==
    ASSUME TypeInv, TypeInv', FenceInv, GuardInv, QuietInv, NEW c \in Threads,
           StopRequest(c) \/ StopWait(c) \/ StopSend(c) \/ StopAwait(c)
    PROVE  QuietInv'
<1>0. ThreadsOK /\ OwnOK /\ QueueOK
  BY DEF TypeInv
<1>1. Outside(c)
  BY ElsewhereIsOutside DEF Elsewhere
<1>2. pc[c] \in {"stop", "stop_wait", "stop_send", "stop_await"}
  BY DEF StopRequest, StopWait, StopSend, StopAwait, At
<1>3. PICK g \in Owners : g = fr[c].gen
  BY <1>0, <1>2 DEF ThreadsOK, Shape
<1>4. g <= nextGen
  BY <1>3 DEF FenceInv, CallerOK
<1>5. own[g] \in OwnerType /\ QuietCaller(c)
  BY <1>0 DEF OwnOK, QuietInv
<1>6. \A h \in Owners : h > nextGen => h # g
  BY <1>4, CacheOwnerAssumption DEF Owners, TypeInv, SlotOK
<1>7. CASE StopRequest(c)
  <2>1. own' = own \/ own' = [own EXCEPT ![g].requested = TRUE]
    BY <1>3, <1>7 DEF StopRequest
  <2>2. \A h \in Owners : /\ own[h].requested => own'[h].requested
                          /\ own'[h].completion = own[h].completion /\ own'[h].sender = own[h].sender
    BY <1>0, <2>1 DEF OwnOK, OwnerType
  <2>3. UNCHANGED queue
    BY <1>7 DEF StopRequest
  <2>4. \A h \in Owners : Undisturbed(h)
    BY <2>2, <2>3 DEF Undisturbed, Told
  <2>5. QuietCaller(c)'
    <3>1. CASE own[g].joinable
      <4>1. pc'[c] = "stop_wait" /\ fr'[c] = fr[c] /\ own' = [own EXCEPT ![g].requested = TRUE]
        BY <1>0, <1>3, <1>7, <3>1 DEF StopRequest, Goto, ThreadsOK
      <4>2. own'[g].requested
        BY <1>0, <4>1 DEF OwnOK, OwnerType
      <4>3. QED
        BY <1>3, <4>1, <4>2 DEF QuietCaller
    <3>2. CASE ~own[g].joinable
      BY <1>0, <1>3, <1>7, <3>2 DEF StopRequest, Goto, ThreadsOK, QuietCaller
    <3>3. QED
      BY <3>1, <3>2
  <2>6. QED
    BY <1>1, <2>4, <2>5, QuietOutside
<1>8. CASE StopWait(c)
  <2>1. own' = own \/ own' = [own EXCEPT ![g].sent = TRUE]
    BY <1>3, <1>8 DEF StopWait
  <2>2. \A h \in Owners : /\ own'[h].requested = own[h].requested
                          /\ own'[h].completion = own[h].completion /\ own'[h].sender = own[h].sender
    BY <1>0, <2>1 DEF OwnOK, OwnerType
  <2>3. UNCHANGED queue
    BY <1>8 DEF StopWait
  <2>4. \A h \in Owners : Undisturbed(h)
    BY <2>2, <2>3 DEF Undisturbed, Told
  <2>5. QuietCaller(c)'
    <3>1. CASE Drained(g)
      <4>1. pc'[c] \in {"stop_await", "stop_send"} /\ fr'[c] = fr[c]
        BY <1>0, <1>3, <1>8, <3>1 DEF StopWait, Goto, ThreadsOK
      <4>2. own[g].requested /\ own[g].reserving = 0
        BY <1>3, <1>5, <1>8, <3>1 DEF QuietCaller, StopWait, At, Drained
      <4>3. own'[g].reserving = own[g].reserving
        BY <1>1 DEF Outside
      <4>4. QED
        BY <1>3, <2>2, <4>1, <4>2, <4>3 DEF QuietCaller, Calm
    <3>2. CASE ~Drained(g)
      BY <1>0, <1>3, <1>8, <3>2 DEF StopWait, Return, Goto, ThreadsOK, QuietCaller
    <3>3. QED
      BY <3>1, <3>2
  <2>6. QED
    BY <1>1, <2>4, <2>5, QuietOutside
<1>9. CASE StopSend(c)
  <2>1. own' = own \/ own' = [own EXCEPT ![g].sent = FALSE]
    BY <1>3, <1>9 DEF StopSend
  <2>2. \A h \in Owners : /\ own'[h].requested = own[h].requested
                          /\ own'[h].completion = own[h].completion /\ own'[h].sender = own[h].sender
                          /\ own'[h].reserving = own[h].reserving
    BY <1>0, <2>1 DEF OwnOK, OwnerType
  <2>3. \A h \in Owners : h # g => queue'[h] = queue[h]
    BY <1>0, <1>3, <1>9 DEF StopSend, Send, QueueOK
  <2>4. Calm(g)'
    BY <1>3, <1>5, <1>9, <2>2 DEF QuietCaller, StopSend, At, Calm
  <2>5. \A h \in Owners : Undisturbed(h)
    BY <1>6, <2>2, <2>3, <2>4 DEF Undisturbed, Told
  <2>6. QuietCaller(c)'
    BY <1>0, <1>9 DEF StopSend, Return, Goto, ThreadsOK, QuietCaller
  <2>7. QED
    BY <1>1, <2>5, <2>6, QuietOutside
<1>10. CASE StopAwait(c)
  <2>1. own' = own \/ (own' = Joining(g) /\ (own[g].completion # "none" \/ Finished(g)))
    BY <1>3, <1>10 DEF StopAwait
  <2>2. \A h \in Owners : /\ own'[h].requested = own[h].requested
                          /\ own'[h].completion = own[h].completion
                          /\ h # g => own'[h].sender = own[h].sender
    BY <1>0, <2>1 DEF Joining, OwnOK, OwnerType
  <2>3. own' = own \/ ~Working(g)
    BY <2>1 DEF FenceInv, OwnerOK, Ended, Finished, Working
  <2>4. UNCHANGED queue
    BY <1>10 DEF StopAwait
  <2>5. \A h \in Owners : Undisturbed(h)
    BY <2>2, <2>3, <2>4 DEF Undisturbed, Told
  <2>6. QuietCaller(c)'
    BY <1>0, <1>10 DEF StopAwait, Return, Goto, ThreadsOK, QuietCaller
  <2>7. QED
    BY <1>1, <2>5, <2>6, QuietOutside
<1>11. QED
  BY <1>7, <1>8, <1>9, <1>10

LEMMA QuietSignal ==
    ASSUME TypeInv, FenceInv, GuardInv, QuietInv, NEW c \in Threads, DropSignal(c)
    PROVE  QuietInv'
<1>0. ThreadsOK /\ OwnOK /\ QueueOK
  BY DEF TypeInv
<1>1. Outside(c)
  BY ElsewhereIsOutside DEF Elsewhere
<1>2. pc[c] = "signal"
  BY DEF DropSignal, At
<1>3. PICK g \in Owners : g = fr[c].gen
  BY <1>0, <1>2 DEF ThreadsOK, Shape
<1>4. g <= nextGen /\ own[g].strong = 0
  BY <1>2, <1>3 DEF FenceInv, CallerOK
<1>5. own[g].reserving = 0
  BY <1>4, NobodyRecords
<1>6. \A h \in Owners : h > nextGen => h # g
  BY <1>4, CacheOwnerAssumption DEF Owners, TypeInv, SlotOK
<1>7. QuietCaller(c)'
  BY <1>0 DEF DropSignal, Return, Goto, ThreadsOK, QuietCaller
<1>8. CASE own[g].joinable
  <2>1. \E b : own' = [own EXCEPT ![g].requested = TRUE, ![g].sent = b,
                                  ![g].sender = FALSE, ![g].joinable = FALSE]
    BY <1>3, <1>8 DEF DropSignal
  <2>2. \A h \in Owners : /\ own[h].requested => own'[h].requested
                          /\ own'[h].completion = own[h].completion
                          /\ h # g => own'[h].sender = own[h].sender
    <3>1. PICK b : own' = [own EXCEPT ![g].requested = TRUE, ![g].sent = b,
                                      ![g].sender = FALSE, ![g].joinable = FALSE]
      BY <2>1
    <3>2. \A h \in Owners : h # g => own'[h] = own[h]
      BY <1>0, <3>1 DEF OwnOK
    <3>3. own'[g].requested /\ own'[g].completion = own[g].completion
      BY <1>0, <3>1 DEF OwnOK, OwnerType
    <3>4. QED
      BY <3>2, <3>3
  <2>3. Calm(g)'
    <3>1. own'[g].requested
      BY <1>0, <2>1 DEF OwnOK, OwnerType
    <3>2. own'[g].reserving = 0
      BY <1>1, <1>5 DEF Outside
    <3>3. QED
      BY <3>1, <3>2 DEF Calm
  <2>4. \A h \in Owners : h # g => queue'[h] = queue[h]
    <3>1. queue' = queue \/ queue' = [queue EXCEPT ![g] = Append(queue[g], <<"shutdown">>)]
      BY <1>0, <1>3, <1>8 DEF DropSignal, QueueOK
    <3>2. QED
      BY <1>0, <3>1 DEF QueueOK
  <2>5. \A h \in Owners : Undisturbed(h)
    BY <1>6, <2>2, <2>3, <2>4 DEF Undisturbed, Told
  <2>6. QED
    BY <1>1, <1>7, <2>5, QuietOutside
<1>9. CASE ~own[g].joinable
  <2>1. own' = own /\ queue' = queue
    BY <1>3, <1>9 DEF DropSignal
  <2>2. \A h \in Owners : Undisturbed(h)
    BY <2>1 DEF Undisturbed, Told
  <2>3. QED
    BY <1>1, <1>7, <2>2, QuietOutside
<1>10. QED
  BY <1>8, <1>9

\* A mutation begins, records, and publishes; an owner is opened.
LEMMA QuietChanges ==
    ASSUME TypeInv, TypeInv', FenceInv, GuardInv, QuietInv, NEW c \in Threads,
           CallCommit(c) \/ CallPrune(c) \/ Record(c) \/ Publish(c)
    PROVE  QuietInv'
<1>0. ThreadsOK /\ OwnOK /\ QueueOK /\ DirtyOK
  BY DEF TypeInv
<1>1. CASE Rejected(c)
  <2>1. Outside(c) /\ UNCHANGED queue /\ pc'[c] = "idle"
    BY <1>1, RejectedIsOutside DEF Rejected, threads
  <2>2. \A h \in Owners : /\ own'[h].requested = own[h].requested /\ own'[h].sender = own[h].sender
                          /\ own'[h].completion = own[h].completion
    <3>1. PICK g \in Owners : own' = own \/ own' = [own EXCEPT ![g].rev = @ + 1]
      BY <1>1 DEF Rejected
    <3>2. QED
      BY <1>0, <3>1 DEF OwnOK, OwnerType
  <2>3. QED
    BY <2>1, <2>2, QuietWalk
<1>2. ASSUME NEW g \in Owners, ~Calm(g), g <= nextGen, UNCHANGED <<nextGen, wk, taken, persisted>>,
             \A h \in Owners : h # g => own'[h] = own[h] /\ queue'[h] = queue[h] /\ dirty'[h] = dirty[h],
             own'[g].requested = own[g].requested, own'[g].sender = own[g].sender,
             own'[g].completion = own[g].completion, Told(g)' => Told(g),
             \A d \in Threads : d # c => pc'[d] = pc[d] /\ fr'[d] = fr[d],
             pc'[c] \notin {"stop_wait", "stop_send"}
      PROVE  QuietInv'
  <2>1. QuietOK(g)'
    <3>1. QuietOK(g) /\ ~(g > nextGen)
      BY <1>2, CacheOwnerAssumption DEF QuietInv, Owners, TypeInv, SlotOK
    <3>2. Working(g)' <=> Working(g)
      BY <1>2 DEF Working
    <3>3. ~Told(g) /\ wk[g].why # "shutdown" /\ own[g].completion # "ok"
      BY <1>2, <3>1 DEF QuietOK
    <3>4. QED
      BY <1>2, <3>1, <3>2, <3>3 DEF QuietOK
  <2>2. \A h \in Owners : h # g => QuietOK(h)'
    BY <1>2 DEF QuietInv, QuietOK, Told, Calm, Working
  <2>3. \A d \in Threads : QuietCaller(d)'
    <3>1. QuietCaller(c)'
      BY <1>2 DEF QuietCaller
    <3>2. ASSUME NEW d \in Threads, d # c PROVE QuietCaller(d)'
      <4>1. pc'[d] = pc[d] /\ fr'[d] = fr[d] /\ QuietCaller(d)
        BY <1>2, <3>2 DEF QuietInv
      <4>2. CASE pc[d] \in {"stop_wait", "stop_send"}
        <5>1. PICK h \in Owners : h = fr[d].gen
          BY <1>0, <4>2 DEF ThreadsOK, Shape
        <5>2. QED
          BY <1>2, <4>1, <5>1 DEF QuietCaller, Calm
      <4>3. CASE pc[d] \notin {"stop_wait", "stop_send"}
        BY <4>1, <4>3 DEF QuietCaller
      <4>4. QED
        BY <4>2, <4>3
    <3>3. QED
      BY <3>1, <3>2
  <2>4. QED
    BY <2>1, <2>2, <2>3 DEF QuietInv
<1>3. ASSUME NEW op, NEW g \in Owners, NEW batch, NEW key, Admitted(c, op, g, batch, key)
      PROVE  QuietInv'
  <2>1. ~Calm(g)
    BY <1>3 DEF Admitted, Admits, Calm
  <2>2. g <= nextGen
    <3>1. own[g].count # 0
      BY <1>0, <1>3 DEF Admitted, OwnOK, OwnerType
    <3>2. ~(g > nextGen)
      BY <3>1 DEF FenceInv, OwnerOK
    <3>3. QED
      BY <3>2, CacheOwnerAssumption DEF Owners, TypeInv, SlotOK
  <2>3. UNCHANGED <<nextGen, wk, taken, persisted, queue, dirty>>
    BY <1>3 DEF Admitted, slot, worker
  <2>4. /\ \A h \in Owners : h # g => own'[h] = own[h]
        /\ own'[g].requested = own[g].requested /\ own'[g].sender = own[g].sender
        /\ own'[g].completion = own[g].completion
    BY <1>0, <1>3 DEF Admitted, OwnOK, OwnerType
  <2>5. pc'[c] = "record" /\ \A d \in Threads : d # c => pc'[d] = pc[d] /\ fr'[d] = fr[d]
    BY <1>0, <1>3 DEF Admitted, ThreadsOK
  <2>6. Told(g)' => Told(g)
    BY <2>3 DEF Told
  <2>7. QED
    BY <1>2, <2>1, <2>2, <2>3, <2>4, <2>5, <2>6
<1>4. CASE Record(c)
  <2>0. PICK g \in Owners : g = fr[c].gen /\ Inside(c) /\ pc[c] = "record"
    BY <1>4, InsideOwner DEF Record, At, Inside
  <2>1. ~Calm(g)
    BY <2>0 DEF GuardInv, Recording, Calm
  <2>2. g <= nextGen
    BY <2>0 DEF FenceInv, CallerOK
  <2>3. UNCHANGED <<nextGen, wk, taken, persisted>>
    BY <1>4 DEF Record, slot, worker
  <2>4. /\ \A h \in Owners : h # g => own'[h] = own[h]
        /\ own'[g].requested = own[g].requested /\ own'[g].sender = own[g].sender
        /\ own'[g].completion = own[g].completion
    <3>1. \E m : own' = [own EXCEPT ![g].reserving = own[g].reserving - 1, ![g].slots = m]
      BY <1>4, <2>0 DEF Record, finish_reservation
    <3>2. QED
      BY <1>0, <3>1 DEF OwnOK, OwnerType
  <2>5. \A h \in Owners : h # g => dirty'[h] = dirty[h]
    BY <1>0, <1>4, <2>0 DEF Record, DirtyOK
  <2>6. queue' = queue \/ queue' = [queue EXCEPT ![g] = Woken(g)]
    BY <1>4, <2>0 DEF Record
  <2>7. \A h \in Owners : h # g => queue'[h] = queue[h]
    BY <1>0, <2>6 DEF QueueOK
  <2>8. Told(g)' => Told(g)
    <3>1. queue'[g] = queue[g] \/ queue'[g] = Append(queue[g], <<"wake">>)
      BY <1>0, <2>6 DEF QueueOK, Woken
    <3>2. <<"wake">> # <<"shutdown">>
      OBVIOUS
    <3>3. QED
      BY <1>0, <3>1, <3>2, ToldNot
  <2>9. pc'[c] \in {"publish", "idle"} /\ \A d \in Threads : d # c => pc'[d] = pc[d] /\ fr'[d] = fr[d]
    BY <1>0, <1>4 DEF Record, Return, Goto, ThreadsOK
  <2>10. QED
    BY <1>2, <2>1, <2>2, <2>3, <2>4, <2>5, <2>7, <2>8, <2>9
<1>5. CASE Publish(c)
  <2>1. UNCHANGED <<nextGen, own, queue, dirty, wk, taken, persisted>>
    BY <1>5 DEF Publish, slot, worker
  <2>2. \A h \in Owners : QuietOK(h)'
    BY <2>1 DEF QuietInv, QuietOK, Told, Calm, Working
  <2>3. pc'[c] \in {"flush", "idle"} /\ \A d \in Threads : d # c => pc'[d] = pc[d] /\ fr'[d] = fr[d]
    BY <1>0, <1>5 DEF Publish, Return, Goto, ThreadsOK
  <2>4. \A d \in Threads : QuietCaller(d)'
    BY <2>1, <2>3 DEF QuietInv, QuietCaller, Calm
  <2>5. QED
    BY <2>2, <2>4 DEF QuietInv
<1>6. QED
  BY <1>1, <1>3, <1>4, <1>5, Reserves

LEMMA QuietOpens ==
    ASSUME TypeInv, FenceInv, QuietInv, NEW c \in Threads, OpenVacant(c)
    PROVE  QuietInv'
<1>0. ThreadsOK /\ OwnOK /\ WorkerOK
  BY DEF TypeInv
<1>1. PICK g \in Owners : g = nextGen + 1 /\ nextGen' = g
  BY DEF OpenVacant
<1>2. nextGen \in Nat /\ g > nextGen /\ ~(g > nextGen')
  BY <1>1, CacheOwnerAssumption DEF Owners, TypeInv, SlotOK
<1>3. UNCHANGED <<queue, dirty, taken, persisted>>
  BY DEF OpenVacant
<1>4. \/ own' = [own EXCEPT ![g] = Opened] /\ wk' = [wk EXCEPT ![g] = Worker("poll")]
      \/ own' = own /\ wk' = wk
  BY <1>1 DEF OpenVacant
<1>5. \A h \in Owners : h # g => own'[h] = own[h] /\ wk'[h] = wk[h]
  BY <1>0, <1>4 DEF OwnOK, WorkerOK
<1>6. \A h \in Owners : h # g => QuietOK(h)'
  <2>1. \A h \in Owners : h > nextGen' => h > nextGen
    BY <1>1, <1>2 DEF Owners
  <2>2. QED
    BY <1>3, <1>5, <2>1 DEF QuietInv, QuietOK, Told, Calm, Working
<1>7. QuietOK(g)'
  <2>1. queue[g] = <<>> /\ taken[g] = NoDeltas /\ QuietOK(g) /\ wk[g].pc = "none"
    BY <1>2 DEF QuietInv, QuietOK, FenceInv, OwnerOK
  <2>2. ~Told(g)'
    BY <1>3, <2>1 DEF Told
  <2>3. CASE own' = own /\ wk' = wk
    BY <1>2, <1>3, <2>1, <2>2, <2>3 DEF QuietOK, Calm, Working
  <2>4. CASE own' = [own EXCEPT ![g] = Opened] /\ wk' = [wk EXCEPT ![g] = Worker("poll")]
    <3>1. own'[g] = Opened /\ wk'[g] = Worker("poll")
      BY <1>0, <2>4 DEF OwnOK, WorkerOK
    <3>2. own'[g].sender /\ own'[g].completion = "none"
      BY <3>1 DEF Opened, Owner
    <3>3. wk'[g].why = "none" /\ wk'[g].pc = "poll"
      BY <3>1 DEF Worker
    <3>4. QED
      BY <1>2, <1>3, <2>1, <2>2, <3>2, <3>3 DEF QuietOK, Flushing
  <2>5. QED
    BY <1>4, <2>3, <2>4
<1>8. \A d \in Threads : QuietCaller(d)'
  <2>1. pc'[c] = "idle" /\ \A d \in Threads : d # c => pc'[d] = pc[d] /\ fr'[d] = fr[d]
    BY Returns DEF OpenVacant
  <2>2. ASSUME NEW d \in Threads, d # c PROVE QuietCaller(d)'
    <3>1. pc'[d] = pc[d] /\ fr'[d] = fr[d] /\ QuietCaller(d) /\ fr[d].gen <= nextGen
      BY <2>1, <2>2 DEF QuietInv, FenceInv, CallerOK
    <3>2. CASE pc[d] \in {"stop_wait", "stop_send"}
      <4>1. PICK h \in Owners : h = fr[d].gen
        BY <1>0, <3>2 DEF ThreadsOK, Shape
      <4>2. h # g
        BY <1>1, <1>2, <3>1, <4>1
      <4>3. QED
        BY <1>5, <3>1, <4>1, <4>2 DEF QuietCaller, Calm
    <3>3. CASE pc[d] \notin {"stop_wait", "stop_send"}
      BY <3>1, <3>3 DEF QuietCaller
    <3>4. QED
      BY <3>2, <3>3
  <2>3. QED
    BY <2>1, <2>2 DEF QuietCaller
<1>9. QED
  BY <1>6, <1>7, <1>8 DEF QuietInv

\* The worker goes somewhere else and keeps why it flushes, and for whom.
LEMMA WorkerKeeps ==
    ASSUME WorkerOK, NEW g \in Owners, NEW at, WorkerGoto(g, at)
    PROVE  /\ wk'[g].pc = at /\ wk'[g].why = wk[g].why
           /\ wk'[g].for = wk[g].for /\ wk'[g].since = wk[g].since
BY DEF WorkerOK, WorkerType, WorkerGoto

LEMMA WorkerBegins ==
    ASSUME WorkerOK, NEW g \in Owners, NEW why, NEW c, Flush(g, why, c)
    PROVE  wk'[g].pc = "take" /\ wk'[g].why = why /\ wk'[g].for = c
<1>1. wk'[g] = [wk[g] EXCEPT !.pc = "take", !.why = why, !.for = c]
  BY DEF WorkerOK, Flush
<1>2. wk[g] \in WorkerType
  BY DEF WorkerOK
<1>3. QED
  BY <1>1, <1>2 DEF WorkerType

\* How the worker ends a flush.
LEMMA FlushEnds ==
    ASSUME TypeInv, NEW g \in Owners, Flushed(g)
    PROVE  /\ wk[g].pc \in {"flushed", "failed"} /\ UNCHANGED <<queue, dirty, taken, persisted, durable>>
           /\ \/ /\ wk[g].why \in {"debounce", "flush"} /\ own' = own
                 /\ wk'[g].pc = "poll" /\ wk'[g].why = "none" /\ wk'[g].for = None
                 /\ fr' = IF wk[g].why = "flush" THEN Answered(wk[g].for, Result(g)) ELSE fr
              \/ /\ wk[g].why = "shutdown" /\ wk[g].pc = "flushed" /\ own' = own
                 /\ wk'[g].pc = "checkpoint" /\ wk'[g].why = "shutdown" /\ wk'[g].for = wk[g].for
                 /\ fr' = fr
              \/ /\ wk[g].why \in {"shutdown", "none"} /\ own' = [own EXCEPT ![g].completion = Result(g)]
                 /\ wk'[g].pc = "leaving" /\ wk'[g].why = wk[g].why /\ wk'[g].for = wk[g].for
                 /\ fr' = fr
<1>0. WorkerOK /\ wk[g] \in WorkerType
  BY DEF TypeInv, WorkerOK
<1>1. wk[g].pc \in {"flushed", "failed"} /\ UNCHANGED <<queue, dirty, taken, persisted, durable>>
  BY DEF Flushed, data
<1>2. CASE wk[g].why \in {"debounce", "flush"}
  <2>1. /\ wk' = [wk EXCEPT ![g] = [Worker("poll") EXCEPT !.since = wk[g].since]] /\ own' = own
        /\ fr' = IF wk[g].why = "flush" THEN Answered(wk[g].for, Result(g)) ELSE fr
    BY <1>2 DEF Flushed
  <2>2. wk'[g].pc = "poll" /\ wk'[g].why = "none" /\ wk'[g].for = None
    BY <1>0, <2>1 DEF WorkerOK, Worker
  <2>3. QED
    BY <1>1, <1>2, <2>1, <2>2
<1>3. CASE wk[g].why = "shutdown" /\ Result(g) = "ok" /\ wk[g].since > 0
  <2>1. WorkerGoto(g, "checkpoint") /\ own' = own /\ fr' = fr
    BY <1>3 DEF Flushed
  <2>2. wk[g].pc = "flushed"
    BY <1>1, <1>3 DEF Result
  <2>3. QED
    BY <1>0, <1>1, <1>3, <2>1, <2>2, WorkerKeeps
<1>4. CASE wk[g].why \in {"shutdown", "none"} /\ ~(wk[g].why = "shutdown" /\ Result(g) = "ok" /\ wk[g].since > 0)
  <2>1. WorkerGoto(g, "leaving") /\ own' = [own EXCEPT ![g].completion = Result(g)] /\ fr' = fr
    BY <1>4 DEF Flushed
  <2>2. QED
    BY <1>0, <1>1, <1>4, <2>1, WorkerKeeps
<1>5. QED
  BY <1>0, <1>2, <1>3, <1>4 DEF WorkerType

\* The command that the worker takes.
LEMMA Receives ==
    ASSUME TypeInv, NEW g \in Owners, Receive(g)
    PROVE  /\ wk[g].pc \in {"recv", "recv_timeout"}
           /\ UNCHANGED <<own, dirty, taken, persisted, durable, fr>>
           /\ Told(g)' => Told(g)
           /\ \/ wk'[g].pc = "poll" /\ wk'[g].why = wk[g].why /\ wk'[g].for = wk[g].for
              \/ wk'[g].pc = "take" /\ wk'[g].why = "debounce" /\ wk'[g].for = None
              \/ wk'[g].pc = "take" /\ wk'[g].why = "flush"
              \/ /\ wk'[g].pc = "take" /\ wk'[g].why = "shutdown" /\ wk'[g].for = None
                 /\ Told(g) \/ ~own[g].sender
<1>0. WorkerOK /\ QueueOK /\ queue[g] \in Seq(Commands)
  BY DEF TypeInv, QueueOK
<1>1. wk[g].pc \in {"recv", "recv_timeout"} /\ UNCHANGED <<own, dirty, taken, persisted, durable, fr>>
  BY DEF Receive, data, threads
<1>2. CASE queue[g] # <<>>
  <2>1. queue' = [queue EXCEPT ![g] = Tail(@)]
    BY <1>2 DEF Receive
  <2>2. queue'[g] = Tail(queue[g])
    BY <1>0, <2>1 DEF QueueOK
  <2>3. Len(queue[g]) \in Nat /\ Len(queue[g]) # 0
    BY <1>0, <1>2
  <2>4. \A i \in 1..Len(queue'[g]) : i + 1 \in 1..Len(queue[g]) /\ queue'[g][i] = queue[g][i + 1]
    BY <1>0, <2>2, <2>3
  <2>5. Told(g)' => Told(g)
    BY <2>4 DEF Told
  <2>6. Head(queue[g]) = queue[g][1] /\ 1 \in 1..Len(queue[g])
    BY <1>0, <2>3
  <2>7. \/ WorkerGoto(g, "poll")
        \/ \E c \in Threads \cup {None} : Flush(g, "flush", c)
        \/ Head(queue[g]) = <<"shutdown">> /\ Flush(g, "shutdown", None)
    BY <1>2 DEF Receive
  <2>8. Head(queue[g]) = <<"shutdown">> => Told(g)
    BY <2>6 DEF Told
  <2>9. QED
    BY <1>0, <1>1, <2>5, <2>7, <2>8, WorkerKeeps, WorkerBegins
<1>3. CASE queue[g] = <<>>
  <2>1. queue' = queue
    BY <1>3 DEF Receive
  <2>2. Told(g)' => Told(g)
    BY <2>1 DEF Told
  <2>3. Flush(g, "debounce", None) \/ (~own[g].sender /\ Flush(g, "shutdown", None))
    BY <1>3 DEF Receive
  <2>4. QED
    BY <1>0, <1>1, <2>2, <2>3, WorkerBegins
<1>4. QED
  BY <1>2, <1>3

LEMMA QuietWork ==
    ASSUME TypeInv, CommandInv, FenceInv, QuietInv, NEW g \in Owners, Work(g) \/ Die(g)
    PROVE  QuietInv'
<1>0. WorkerOK /\ OwnOK /\ TakenOK /\ DirtyOK /\ QueueOK /\ ThreadsOK
  BY DEF TypeInv
<1>1. Apart(g)
  BY WorkIsApart
<1>2. \A h \in Owners : Calm(h)' <=> Calm(h)
  BY <1>1 DEF Apart, Calm
<1>3. \A h \in Owners : h # g => QuietOK(h)'
  BY <1>1, <1>2 DEF QuietInv, QuietOK, Apart, Told, Working
<1>4. \A d \in Threads : QuietCaller(d)'
  <2> SUFFICES ASSUME NEW d \in Threads PROVE QuietCaller(d)'
    OBVIOUS
  <2>1. pc'[d] = pc[d] /\ fr'[d].gen = fr[d].gen /\ QuietCaller(d)
    BY <1>1 DEF Apart, QuietInv
  <2>2. CASE pc[d] \in {"stop_wait", "stop_send"}
    <3>1. PICK h \in Owners : h = fr[d].gen
      BY <1>0, <2>2 DEF ThreadsOK, Shape
    <3>2. own'[h].requested = own[h].requested /\ own'[h].reserving = own[h].reserving
      BY <1>1 DEF Apart
    <3>3. QED
      BY <2>1, <3>1, <3>2 DEF QuietCaller, Calm
  <2>3. CASE pc[d] \notin {"stop_wait", "stop_send"}
    BY <2>1, <2>3 DEF QuietCaller
  <2>4. QED
    BY <2>2, <2>3
<1>5. QuietOK(g) /\ OwnerOK(g) /\ nextGen' = nextGen /\ own'[g].sender = own[g].sender
  BY <1>1 DEF QuietInv, FenceInv, Apart
<1>6. ~(g > nextGen)
  BY <1>1, <1>5 DEF OwnerOK, Apart
<1>7. own[g].completion = "ok" => wk[g].pc \in Ended
  BY <1>5 DEF OwnerOK
<1>8. CASE Poll(g)
  <2>1. UNCHANGED <<own, queue, dirty, taken, persisted>> /\ wk[g].pc = "poll"
    BY <1>8 DEF Poll, data
  <2>2. wk'[g].pc \in {"recv", "recv_timeout"} /\ wk'[g].why = wk[g].why
    BY <1>0, <1>8, WorkerKeeps DEF Poll
  <2>3. QED
    BY <1>2, <1>3, <1>4, <1>5, <1>6, <1>7, <2>1, <2>2 DEF QuietInv, QuietOK, Told, Working, Flushing
<1>9. CASE Receive(g)
  <2>1. QuietOK(g)'
    BY <1>2, <1>5, <1>6, <1>7, <1>9, Receives DEF QuietOK, Working, Flushing
  <2>2. QED
    BY <1>3, <1>4, <2>1 DEF QuietInv
<1>10. CASE Take(g)
  <2>1. PICK fresh \in SUBSET Keys :
           /\ taken' = [taken EXCEPT ![g] = [k \in Keys |-> IF k \in fresh THEN dirty[g][k] ELSE None]]
           /\ WorkerGoto(g, IF fresh = {} THEN "flushed" ELSE "persist")
    BY <1>10 DEF Take, Pending
  <2>2. /\ wk[g].pc = "take" /\ dirty' = [dirty EXCEPT ![g] = NoDeltas] /\ UNCHANGED queue
        /\ \E n : own' = [own EXCEPT ![g].slots = n]
    BY <1>10 DEF Take
  <2>3. dirty'[g] = NoDeltas
    BY <1>0, <2>2 DEF DirtyOK
  <2>4. own'[g].completion = own[g].completion
    BY <1>0, <2>2 DEF OwnOK, OwnerType
  <2>5. wk'[g].pc = (IF fresh = {} THEN "flushed" ELSE "persist") /\ wk'[g].why = wk[g].why
    BY <1>0, <2>1, WorkerKeeps
  <2>6. fresh = {} => taken'[g] = NoDeltas
    BY <1>0, <2>1 DEF TakenOK, NoDeltas
  <2>7. QuietOK(g)'
    BY <1>2, <1>5, <1>6, <1>7, <2>2, <2>3, <2>4, <2>5, <2>6 DEF QuietOK, Told, Working, Flushing, Ended
  <2>8. QED
    BY <1>3, <1>4, <2>7 DEF QuietInv
<1>11. CASE Persist(g)
  <2>1. /\ wk[g].pc = "persist" /\ taken' = [taken EXCEPT ![g] = NoDeltas] /\ UNCHANGED queue
        /\ \E n : own' = [own EXCEPT ![g].slots = n]
    BY <1>11 DEF Persist
  <2>2. taken'[g] = NoDeltas
    BY <1>0, <2>1 DEF TakenOK
  <2>3. own'[g].completion = own[g].completion
    BY <1>0, <2>1 DEF OwnOK, OwnerType
  <2>4. /\ wk'[g].why = wk[g].why
        /\ \/ wk'[g].pc \in {"checkpoint", "flushed"} /\ dirty' = dirty
           \/ wk'[g].pc = "failed"
    BY <1>0, <1>11, WorkerKeeps DEF Persist, WorkerOK, WorkerType
  <2>5. QuietOK(g)'
    BY <1>2, <1>5, <1>6, <1>7, <2>1, <2>2, <2>3, <2>4 DEF QuietOK, Told, Working, Flushing, Ended
  <2>6. QED
    BY <1>3, <1>4, <2>5 DEF QuietInv
<1>12. CASE Checkpoint(g)
  <2>1. UNCHANGED <<own, queue, dirty, taken, persisted>> /\ wk[g].pc = "checkpoint"
    BY <1>12 DEF Checkpoint, data
  <2>2. wk'[g].pc \in {"flushed", "failed"} /\ wk'[g].why = wk[g].why
    BY <1>0, <1>12, WorkerKeeps DEF Checkpoint, WorkerOK, WorkerType
  <2>3. QED
    BY <1>2, <1>3, <1>4, <1>5, <1>6, <1>7, <2>1, <2>2 DEF QuietInv, QuietOK, Told, Working, Flushing
<1>13. CASE Flushed(g)
  <2>1. wk[g].why # "none" /\ wk[g].pc \in {"flushed", "failed"} /\ UNCHANGED <<queue, dirty, taken>>
    BY <1>5, <1>13, FlushEnds DEF QuietOK, Flushing
  <2>2. CASE own' = own
    <3>1. \/ wk'[g].pc = "poll" /\ wk'[g].why = "none"
          \/ wk'[g].pc = "checkpoint" /\ wk'[g].why = wk[g].why /\ wk[g].pc = "flushed"
      <4>1. CASE wk[g].why \in {"debounce", "flush"}
        BY <1>13, <4>1, FlushEnds
      <4>2. CASE wk[g].why = "shutdown"
        <5>1. own[g].completion = "none"
          BY <1>0, <1>5, <2>1 DEF OwnerOK, Ended
        <5>2. Result(g) # "none" /\ [own EXCEPT ![g].completion = Result(g)][g].completion = Result(g)
          BY <1>0 DEF Result, OwnOK, OwnerType
        <5>3. QED
          BY <1>13, <2>2, <4>2, <5>1, <5>2, FlushEnds
      <4>3. QED
        BY <1>0, <2>1, <4>1, <4>2 DEF WorkerOK, WorkerType
    <3>2. QuietOK(g)'
      BY <1>2, <1>5, <1>6, <1>7, <2>1, <2>2, <3>1 DEF QuietOK, Told, Working, Flushing
    <3>3. QED
      BY <1>3, <1>4, <3>2 DEF QuietInv
  <2>3. CASE own' # own
    <3>1. /\ wk[g].why = "shutdown" /\ own' = [own EXCEPT ![g].completion = Result(g)]
          /\ wk'[g].pc = "leaving" /\ wk'[g].why = wk[g].why
      BY <1>13, <2>1, <2>3, FlushEnds
    <3>2. own'[g].completion = Result(g)
      BY <1>0, <3>1 DEF OwnOK, OwnerType
    <3>3. Result(g) = "ok" => wk[g].pc = "flushed"
      BY <2>1 DEF Result
    <3>4. QuietOK(g)'
      BY <1>2, <1>5, <1>6, <2>1, <3>1, <3>2, <3>3 DEF QuietOK, Told, Working, Flushing
    <3>5. QED
      BY <1>3, <1>4, <3>4 DEF QuietInv
  <2>4. QED
    BY <2>2, <2>3
<1>14. CASE Leave(g) \/ Die(g)
  <2>1. UNCHANGED <<own, dirty, taken>> /\ Hangup(g) /\ wk[g].pc \in {"leaving", "poll"}
    BY <1>14 DEF Leave, Die, data
  <2>2. wk'[g].pc = "exiting" /\ wk'[g].why = wk[g].why
    BY <1>0, <2>1, WorkerKeeps DEF Hangup
  <2>3. queue'[g] = <<>>
    BY <1>0, <2>1 DEF Hangup, QueueOK
  <2>4. ~Told(g)'
    BY <2>3 DEF Told
  <2>5. QuietOK(g)'
    BY <1>2, <1>5, <1>6, <2>1, <2>2, <2>4 DEF QuietOK, Working, Flushing
  <2>6. QED
    BY <1>3, <1>4, <2>5 DEF QuietInv
<1>15. CASE Exit(g)
  <2>1. UNCHANGED <<own, queue, dirty, taken>> /\ wk[g].pc = "exiting"
    BY <1>15 DEF Exit, data
  <2>2. wk'[g].pc = "finished" /\ wk'[g].why = wk[g].why
    BY <1>0, <1>15, WorkerKeeps DEF Exit
  <2>3. QED
    BY <1>2, <1>3, <1>4, <1>5, <1>6, <2>1, <2>2 DEF QuietInv, QuietOK, Told, Working, Flushing
<1>16. QED
  BY <1>8, <1>9, <1>10, <1>11, <1>12, <1>13, <1>14, <1>15 DEF Work

\* The invariant of the shutdown.
LEMMA QuietStep ==
    ASSUME TypeInv, TypeInv', CommandInv, FenceInv, GuardInv, QuietInv, Next
    PROVE  QuietInv'
<1>1. CASE \E c \in Threads : Calls(c) \/ Step(c) \/ FlushExpires(c)
  <2>1. PICK c \in Threads : Calls(c) \/ Step(c) \/ FlushExpires(c)
    BY <1>1
  <2>2. QED
    BY <2>1, QuietCalls, QuietFlushes, QuietStops, QuietSignal, QuietChanges, QuietOpens DEF Calls, Step
<1>2. CASE \E g \in Owners : Work(g) \/ Die(g)
  BY <1>2, QuietWork
<1>3. QED
  BY <1>1, <1>2 DEF Next

LEMMA QuietStutter == QuietInv /\ UNCHANGED vars => QuietInv'
BY DEF QuietInv, QuietOK, QuietCaller, Calm, Told, Working, vars, moves, slot, data, worker, threads

\* A completed shutdown found the owner calm, and its last flush took everything.
LEMMA QuietCovers == TypeInv /\ FenceInv /\ GuardInv /\ QuietInv => ShutdownCovers
<1> SUFFICES ASSUME TypeInv, FenceInv, GuardInv, QuietInv, NEW g \in Owners, own[g].completion = "ok"
             PROVE  Pending(dirty[g]) = {} /\ Pending(taken[g]) = {} /\ Reserved(g) = 0
  BY DEF ShutdownCovers
<1>1. dirty[g] = NoDeltas /\ Calm(g) /\ wk[g].pc # "persist"
  BY DEF QuietInv, QuietOK, FenceInv, OwnerOK, Ended
<1>2. taken[g] = NoDeltas
  BY <1>1 DEF QuietInv, QuietOK
<1>3. Pending(NoDeltas) = {}
  BY DEF Pending, NoDeltas
<1>4. ~Recording(g)
  BY <1>1 DEF GuardInv, Calm
<1>5. {c \in Threads : At(c, "record") /\ fr[c].gen = g} = {}
  BY <1>4 DEF Recording, At
<1>6. Reserved(g) = 0
  BY <1>5 DEF Reserved
<1>7. QED
  BY <1>1, <1>2, <1>3, <1>6

-----------------------------------------------------------------------------
(* Deltas *)

\* What is known of a key is older than revision n of the owner.
Below(g, k, n) ==
    /\ dirty[g][k] # None => dirty[g][k].rev < n
    /\ taken[g][k] # None => taken[g][k].rev < n
    /\ persisted[g][k] < n
    /\ durable[k] # None /\ durable[k].gen = g => durable[k].rev < n

\* A key goes from the dirty map to the worker and from there to the disk, and
\* never goes back in time.
Ordered(g, k) ==
    /\ dirty[g][k] # None => dirty[g][k].gen = g /\ persisted[g][k] < dirty[g][k].rev
    /\ taken[g][k] # None => taken[g][k].gen = g /\ persisted[g][k] < taken[g][k].rev
    /\ dirty[g][k] # None /\ taken[g][k] # None => taken[g][k].rev < dirty[g][k].rev
    /\ durable[k] # None => durable[k].gen <= nextGen
    /\ durable[k] # None /\ durable[k].gen = g =>
          /\ dirty[g][k] # None => durable[k].rev <= dirty[g][k].rev
          /\ taken[g][k] # None => durable[k].rev <= taken[g][k].rev

DeltaOK(g, k) == Ordered(g, k) /\ \A n \in Nat : own[g].rev < n => Below(g, k, n)

\* Who is inside has the newest revision.
InsideOK(c) ==
    \A g \in Owners, n \in Nat : Inside(c) /\ fr[c].gen = g /\ fr[c].rev = n =>
        /\ own[g].rev = n
        /\ pc[c] = "record" => \A k \in Keys : Below(g, k, n)

DeltaInv ==
    /\ \A g \in Owners, k \in Keys : DeltaOK(g, k)
    /\ \A c \in Threads : InsideOK(c)

\* What a step of the worker of g does to a key.
Moves(g, k) ==
    \/ /\ wk[g].pc \notin {"take", "persist"} /\ wk'[g].pc # "persist"
       /\ dirty'[g][k] = dirty[g][k] /\ taken'[g][k] = taken[g][k]
       /\ persisted'[g][k] = persisted[g][k] /\ durable'[k] = durable[k]
    \/ /\ wk[g].pc = "take" /\ wk'[g].pc \in {"persist", "flushed"} /\ taken[g][k] = None
       /\ taken'[g][k] = dirty[g][k] /\ dirty'[g][k] = None
       /\ wk'[g].pc = "flushed" => dirty[g][k] = None
       /\ persisted'[g][k] = persisted[g][k] /\ durable'[k] = durable[k]
    \/ /\ wk[g].pc = "persist" /\ wk'[g].pc \in {"checkpoint", "flushed"}
       /\ taken'[g][k] = None /\ dirty'[g][k] = dirty[g][k]
       /\ persisted'[g][k] = IF taken[g][k] = None THEN persisted[g][k] ELSE taken[g][k].rev
       /\ durable'[k] = IF taken[g][k] = None THEN durable[k] ELSE taken[g][k]
    \/ /\ wk[g].pc = "persist" /\ wk'[g].pc = "failed"
       /\ taken'[g][k] = None
       /\ dirty'[g][k] = IF dirty[g][k] = None THEN taken[g][k] ELSE dirty[g][k]
       /\ persisted'[g][k] = persisted[g][k]
       /\ durable'[k] = durable[k] \/ (taken[g][k] # None /\ durable'[k] = taken[g][k])

\* The type of the deltas of a key.
LEMMA KeyTypes ==
    ASSUME TypeInv, NEW g \in Owners, NEW k \in Keys
    PROVE  /\ dirty[g][k] \in Deltas /\ taken[g][k] \in Deltas /\ durable[k] \in Deltas
           /\ persisted[g][k] \in Nat /\ own[g].rev \in Nat /\ nextGen \in Nat
           /\ dirty[g][k] # None => dirty[g][k].rev \in Nat /\ dirty[g][k].gen \in Nat
           /\ taken[g][k] # None => taken[g][k].rev \in Nat /\ taken[g][k].gen \in Nat
           /\ durable[k] # None => durable[k].rev \in Nat /\ durable[k].gen \in Nat
<1>1. /\ dirty[g][k] \in Deltas /\ taken[g][k] \in Deltas /\ durable[k] \in Deltas
      /\ persisted[g][k] \in Nat /\ own[g].rev \in Nat /\ nextGen \in Nat
  BY CacheOwnerAssumption
     DEF TypeInv, DirtyOK, TakenOK, DurableOK, PersistedOK, OwnOK, OwnerType, SlotOK
<1>2. \A d \in Deltas : d # None => d.rev \in Nat /\ d.gen \in Nat
  BY DeltaType, CacheOwnerAssumption
<1>3. QED
  BY <1>1, <1>2

LEMMA WorkMoves ==
    ASSUME TypeInv, QuietInv, DeltaInv, NEW g \in Owners, Work(g) \/ Die(g), NEW k \in Keys
    PROVE  Moves(g, k)
<1>0. WorkerOK /\ DirtyOK /\ TakenOK /\ PersistedOK /\ DurableOK
  BY DEF TypeInv
<1>1. Ordered(g, k) /\ QuietOK(g)
  BY DEF DeltaInv, DeltaOK, QuietInv
<1>2. CASE Poll(g) \/ Receive(g) \/ Checkpoint(g) \/ Flushed(g) \/ Leave(g) \/ Die(g) \/ Exit(g)
  <2>1. UNCHANGED <<dirty, taken, persisted, durable>>
    BY <1>2 DEF Poll, Receive, Checkpoint, Flushed, Leave, Die, Exit, data
  <2>2. wk[g].pc \notin {"take", "persist"}
    BY <1>2 DEF Poll, Receive, Checkpoint, Flushed, Leave, Die, Exit
  <2>3. wk'[g].pc # "persist"
    <3>1. CASE Flushed(g)
      BY <3>1, FlushEnds
    <3>2. CASE Receive(g)
      BY <3>2, Receives
    <3>3. CASE Checkpoint(g)
      BY <1>0, <3>3, WorkerKeeps DEF Checkpoint, WorkerOK, WorkerType
    <3>4. CASE Poll(g) \/ Leave(g) \/ Die(g) \/ Exit(g)
      BY <1>0, <3>4, WorkerKeeps DEF Poll, Leave, Die, Exit, Hangup
    <3>5. QED
      BY <1>2, <3>1, <3>2, <3>3, <3>4
  <2>4. QED
    BY <2>1, <2>2, <2>3 DEF Moves
<1>3. CASE Take(g)
  <2> DEFINE fresh == {j \in Pending(dirty[g]) : persisted[g][j] < dirty[g][j].rev}
  <2>1. /\ taken' = [taken EXCEPT ![g] = [j \in Keys |-> IF j \in fresh THEN dirty[g][j] ELSE None]]
        /\ dirty' = [dirty EXCEPT ![g] = NoDeltas] /\ wk[g].pc = "take"
        /\ WorkerGoto(g, IF fresh = {} THEN "flushed" ELSE "persist")
        /\ UNCHANGED <<persisted, durable>>
    BY <1>3 DEF Take
  <2>2. k \in fresh <=> dirty[g][k] # None
    BY <1>1 DEF Ordered, Pending
  <2>3. taken'[g][k] = dirty[g][k]
    BY <1>0, <2>1, <2>2 DEF TakenOK
  <2>4. dirty'[g][k] = None
    BY <1>0, <2>1 DEF DirtyOK, NoDeltas
  <2>5. wk'[g].pc = IF fresh = {} THEN "flushed" ELSE "persist"
    BY <1>0, <2>1, WorkerKeeps
  <2>6. taken[g][k] = None
    BY <1>1, <2>1 DEF QuietOK, NoDeltas
  <2>7. QED
    BY <2>1, <2>2, <2>3, <2>4, <2>5, <2>6 DEF Moves
<1>4. CASE Persist(g)
  <2> DEFINE keys == Pending(taken[g])
  <2>1. wk[g].pc = "persist" /\ taken' = [taken EXCEPT ![g] = NoDeltas]
    BY <1>4 DEF Persist
  <2>2. taken'[g][k] = None
    BY <1>0, <2>1 DEF TakenOK, NoDeltas
  <2>3. k \in keys <=> taken[g][k] # None
    BY DEF Pending
  <2>4. CASE /\ durable' = Written(g, keys)
             /\ persisted' = [persisted EXCEPT ![g] =
                                [j \in Keys |-> IF j \in keys THEN taken[g][j].rev ELSE @[j]]]
             /\ wk' = [wk EXCEPT ![g].since = @ + Cardinality(keys),
                                 ![g].pc = IF wk[g].since + Cardinality(keys) >= limits.threshold
                                           THEN "checkpoint" ELSE "flushed"]
             /\ UNCHANGED dirty
    <3>1. wk'[g].pc \in {"checkpoint", "flushed"}
      BY <1>0, <2>4 DEF WorkerOK, WorkerType
    <3>2. persisted'[g][k] = IF taken[g][k] = None THEN persisted[g][k] ELSE taken[g][k].rev
      BY <1>0, <2>3, <2>4 DEF PersistedOK
    <3>3. durable'[k] = IF taken[g][k] = None THEN durable[k] ELSE taken[g][k]
      BY <2>3, <2>4 DEF Written
    <3>4. QED
      BY <2>1, <2>2, <2>4, <3>1, <3>2, <3>3 DEF Moves
  <2>5. CASE /\ \E some \in SUBSET keys : durable' = Written(g, some)
             /\ dirty' = [dirty EXCEPT ![g] = Restored(g)]
             /\ WorkerGoto(g, "failed")
             /\ UNCHANGED persisted
    <3>1. wk'[g].pc = "failed"
      BY <1>0, <2>5, WorkerKeeps
    <3>2. durable'[k] = durable[k] \/ (taken[g][k] # None /\ durable'[k] = taken[g][k])
      BY <2>3, <2>5 DEF Written
    <3>3. dirty'[g][k] = Restored(g)[k]
      BY <1>0, <2>5 DEF DirtyOK
    <3>4. Restored(g)[k] = IF taken[g][k] = None THEN dirty[g][k] ELSE Newer(dirty[g][k], taken[g][k])
      BY DEF Restored
    <3>5. dirty[g][k] # None /\ taken[g][k] # None => ~(dirty[g][k].rev <= taken[g][k].rev)
      BY <1>1, KeyTypes DEF Ordered
    <3>6. dirty'[g][k] = IF dirty[g][k] = None THEN taken[g][k] ELSE dirty[g][k]
      BY <3>3, <3>4, <3>5 DEF Newer
    <3>7. QED
      BY <2>1, <2>2, <2>5, <3>1, <3>2, <3>6 DEF Moves
  <2>6. QED
    BY <1>4, <2>4, <2>5 DEF Persist
<1>5. QED
  BY <1>2, <1>3, <1>4 DEF Work

\* The worker that touches the files is the one of the newest generation.
LEMMA WorkerIsNewest ==
    ASSUME TypeInv, FenceInv, NEW g \in Owners, Working(g)
    PROVE  g = nextGen
BY DEF FenceInv, RootFenced, PhaseOK

LEMMA WorkDeltas ==
    ASSUME TypeInv, CommandInv, FenceInv, QuietInv, DeltaInv, NEW g \in Owners, Work(g) \/ Die(g)
    PROVE  /\ \A h \in Owners, k \in Keys : Ordered(h, k)'
           /\ \A h \in Owners, k \in Keys, n \in Nat : Below(h, k, n) => Below(h, k, n)'
<1>1. Apart(g) /\ nextGen' = nextGen
  BY WorkIsApart DEF Apart
<1>2. g <= nextGen
  <2>1. ~(g > nextGen)
    BY <1>1 DEF FenceInv, OwnerOK, Apart
  <2>2. QED
    BY <2>1, CacheOwnerAssumption DEF Owners, TypeInv, SlotOK
<1>3. ASSUME NEW k \in Keys
      PROVE  Ordered(g, k)' /\ \A n \in Nat : Below(g, k, n) => Below(g, k, n)'
  <2>1. Moves(g, k) /\ Ordered(g, k)
    BY WorkMoves DEF DeltaInv, DeltaOK
  <2>2. Ordered(g, k)'
    BY <1>1, <1>2, <2>1, KeyTypes DEF Moves, Ordered
  <2>3. ASSUME NEW n \in Nat, Below(g, k, n) PROVE Below(g, k, n)'
    BY <2>1, <2>3, KeyTypes DEF Moves, Below
  <2>4. QED
    BY <2>2, <2>3
<1>4. ASSUME NEW h \in Owners, h # g, NEW k \in Keys
      PROVE  Ordered(h, k)' /\ \A n \in Nat : Below(h, k, n) => Below(h, k, n)'
  <2>1. dirty'[h] = dirty[h] /\ taken'[h] = taken[h] /\ persisted'[h] = persisted[h]
    BY <1>1, <1>4 DEF Apart
  <2>2. Ordered(h, k) /\ Ordered(g, k) /\ Moves(g, k)
    BY WorkMoves DEF DeltaInv, DeltaOK
  <2>3. durable'[k] = durable[k] \/ (durable'[k] # None /\ durable'[k].gen = g)
    BY <2>2 DEF Moves, Ordered
  <2>4. Ordered(h, k)'
    BY <1>1, <1>2, <1>4, <2>1, <2>2, <2>3 DEF Ordered
  <2>5. ASSUME NEW n \in Nat, Below(h, k, n) PROVE Below(h, k, n)'
    BY <1>4, <2>1, <2>3, <2>5 DEF Below
  <2>6. QED
    BY <2>4, <2>5
<1>5. QED
  BY <1>3, <1>4

\* The revisions of the deltas are those of the owner.
LEMMA InitDeltas == Init => DeltaInv
<1> SUFFICES ASSUME Init PROVE DeltaInv
  OBVIOUS
<1>1. ASSUME NEW g \in Owners, NEW k \in Keys PROVE DeltaOK(g, k)
  <2>1. dirty[g][k] = None /\ taken[g][k] = None /\ persisted[g][k] = 0 /\ nextGen = 1
    BY DEF Init, NoDeltas
  <2>2. durable[k] # None => durable[k].gen = 0 /\ durable[k].rev = 0
    BY DEF Init, Delta
  <2>3. own[g].rev = 0 /\ g # 0
    BY DEF Init, Opened, Unopened, Owner, Owners
  <2>4. QED
    BY <2>1, <2>2, <2>3 DEF DeltaOK, Ordered, Below
<1>2. \A c \in Threads : InsideOK(c)
  BY DEF Init, InsideOK, Inside
<1>3. QED
  BY <1>1, <1>2 DEF DeltaInv

\* The delta of a thread that is inside.
LEMMA IncomingDelta ==
    ASSUME TypeInv, NEW c \in Threads, Inside(c), NEW k \in Keys
    PROVE  /\ Incoming(c, k) # None /\ Incoming(c, k) \in Deltas
           /\ Incoming(c, k).gen = fr[c].gen /\ Incoming(c, k).rev = fr[c].rev
           /\ Incoming(c, k).val \in Values
<1>1. fr[c].gen \in Owners /\ fr[c].rev \in Nat
  BY InsideOwner DEF FrameType
<1>2. fr[c].gen \in 0..MaxOwners
  BY <1>1, CacheOwnerAssumption DEF Owners
<1>3. PICK v \in Values : Incoming(c, k) = Delta(fr[c].gen, fr[c].rev, v)
  BY <1>1, DeltaType DEF Incoming
<1>4. QED
  BY <1>1, <1>2, <1>3, DeltaType

\* What a record does to a key.
LEMMA Records ==
    ASSUME TypeInv, DeltaInv, NEW c \in Threads, Record(c)
    PROVE  /\ UNCHANGED <<nextGen, memory, taken, persisted, durable, wk>>
           /\ pc[c] = "record"
           /\ \A d \in Threads : d # c => pc'[d] = pc[d] /\ fr'[d] = fr[d]
           /\ \A h \in Owners : own'[h].rev = own[h].rev /\ own'[h].strong = own[h].strong
           /\ \A h \in Owners : h # fr[c].gen => dirty'[h] = dirty[h]
           /\ \/ pc'[c] = "idle" /\ dirty' = dirty
              \/ /\ pc'[c] = "publish" /\ fr'[c] = fr[c]
                 /\ \A g \in Owners, k \in Keys : g = fr[c].gen =>
                       dirty'[g][k] = IF k \in fr[c].batch THEN Incoming(c, k) ELSE dirty[g][k]
<1>0. ThreadsOK /\ OwnOK /\ DirtyOK
  BY DEF TypeInv
<1>1. PICK g \in Owners : g = fr[c].gen /\ Inside(c) /\ pc[c] = "record"
  BY InsideOwner DEF Record, At, Inside
<1>2. UNCHANGED <<nextGen, memory, taken, persisted, durable, wk>>
  BY DEF Record, slot, worker
<1>3. \A d \in Threads : d # c => pc'[d] = pc[d] /\ fr'[d] = fr[d]
  BY <1>0 DEF Record, Return, Goto, ThreadsOK
<1>4. \A h \in Owners : own'[h].rev = own[h].rev /\ own'[h].strong = own[h].strong
  <2>1. \E m : own' = [own EXCEPT ![g].reserving = own[g].reserving - 1, ![g].slots = m]
    BY <1>1 DEF Record, finish_reservation
  <2>2. QED
    BY <1>0, <2>1 DEF OwnOK, OwnerType
<1>5. \A h \in Owners : h # g => dirty'[h] = dirty[h]
  BY <1>0, <1>1 DEF Record, DirtyOK
<1>6. \/ pc'[c] = "idle" /\ dirty' = dirty
      \/ pc'[c] = "publish" /\ fr'[c] = fr[c] /\ dirty' = [dirty EXCEPT ![g] = Recorded(c)]
  BY <1>0, <1>1 DEF Record, Return, Goto, ThreadsOK
<1>7. ASSUME dirty' = [dirty EXCEPT ![g] = Recorded(c)], NEW k \in Keys
      PROVE  dirty'[g][k] = IF k \in fr[c].batch THEN Incoming(c, k) ELSE dirty[g][k]
  <2>1. dirty'[g] = Recorded(c)
    BY <1>0, <1>7 DEF DirtyOK
  <2>2. dirty'[g][k] = IF k \in fr[c].batch THEN Newer(dirty[g][k], Incoming(c, k)) ELSE dirty[g][k]
    BY <1>1, <2>1 DEF Recorded
  <2>3. PICK n \in Nat : n = fr[c].rev
    BY <1>1, InsideOwner DEF FrameType
  <2>4. Below(g, k, n)
    BY <1>1, <2>3 DEF DeltaInv, InsideOK
  <2>5. dirty[g][k] # None => dirty[g][k].rev <= Incoming(c, k).rev
    BY <1>1, <2>3, <2>4, IncomingDelta, KeyTypes DEF Below
  <2>6. QED
    BY <2>2, <2>5 DEF Newer
<1>8. QED
  BY <1>1, <1>2, <1>3, <1>4, <1>5, <1>6, <1>7

LEMMA DeltaStep ==
    ASSUME TypeInv, TypeInv', CommandInv, FenceInv, GuardInv, QuietInv, DeltaInv, Next
    PROVE  DeltaInv'
<1>0. ThreadsOK /\ OwnOK /\ DirtyOK
  BY DEF TypeInv
<1>1. ASSUME NEW g \in Owners, Work(g) \/ Die(g) PROVE DeltaInv'
  <2>1. Apart(g)
    BY <1>1, WorkIsApart
  <2>2. \A h \in Owners : own'[h].rev = own[h].rev
    BY <2>1 DEF Apart
  <2>3. \A h \in Owners, k \in Keys : DeltaOK(h, k)'
    BY <1>1, <2>2, WorkDeltas DEF DeltaInv, DeltaOK
  <2>4. ASSUME NEW c \in Threads PROVE InsideOK(c)'
    <3>1. InsideOK(c) /\ (Inside(c)' => Inside(c) /\ pc'[c] = pc[c] /\ fr'[c] = fr[c])
      BY <2>1 DEF DeltaInv, Apart, Inside
    <3>2. QED
      BY <1>1, <2>2, <3>1, WorkDeltas DEF InsideOK
  <2>5. QED
    BY <2>3, <2>4 DEF DeltaInv
<1>2. ASSUME UNCHANGED <<dirty, taken, persisted, durable>>,
             nextGen' >= nextGen /\ \A h \in Owners : own'[h].rev >= own[h].rev
      PROVE  /\ \A h \in Owners, k \in Keys : DeltaOK(h, k)'
             /\ \A h \in Owners, k \in Keys, n \in Nat : Below(h, k, n) => Below(h, k, n)'
  <2>1. \A h \in Owners, k \in Keys, n \in Nat : Below(h, k, n)' <=> Below(h, k, n)
    BY <1>2 DEF Below
  <2>2. ASSUME NEW h \in Owners, NEW k \in Keys PROVE DeltaOK(h, k)'
    <3>1. DeltaOK(h, k)
      BY DEF DeltaInv
    <3>2. own[h].rev \in Nat /\ own'[h].rev \in Nat /\ nextGen \in Nat /\ nextGen' \in Nat
      BY CacheOwnerAssumption DEF TypeInv, OwnOK, OwnerType, SlotOK
    <3>3. \A n \in Nat : own'[h].rev < n => own[h].rev < n
      BY <1>2, <3>2
    <3>4. Ordered(h, k)'
      BY <1>2, <3>1, <3>2, KeyTypes DEF DeltaOK, Ordered
    <3>5. QED
      BY <2>1, <3>1, <3>3, <3>4 DEF DeltaOK
  <2>3. QED
    BY <2>1, <2>2
<1>3. ASSUME NEW c \in Threads, Outside(c) PROVE DeltaInv'
  <2>1. UNCHANGED <<dirty, taken, persisted, durable, nextGen>> /\ nextGen' >= nextGen
    BY <1>3, CacheOwnerAssumption DEF Outside, data, TypeInv, SlotOK
  <2>2. /\ \A h \in Owners, k \in Keys : DeltaOK(h, k)'
        /\ \A h \in Owners, k \in Keys, n \in Nat : Below(h, k, n) => Below(h, k, n)'
    BY <1>2, <1>3, <2>1 DEF Outside
  <2>3. ASSUME NEW d \in Threads PROVE InsideOK(d)'
    <3>1. InsideOK(d) /\ (Inside(d)' => Inside(d) /\ pc'[d] = pc[d] /\ fr'[d] = fr[d])
      BY <1>3 DEF DeltaInv, Outside, Inside
    <3>2. \A g \in Owners : Inside(d) /\ fr[d].gen = g => own'[g].rev = own[g].rev
      BY <1>3, CacheOwnerAssumption DEF Outside, GuardInv
    <3>3. QED
      BY <2>2, <3>1, <3>2 DEF InsideOK
  <2>4. QED
    BY <2>2, <2>3 DEF DeltaInv
<1>4. ASSUME NEW c \in Threads, NEW op, NEW g \in Owners, NEW batch \in SUBSET Keys, NEW key,
             Admitted(c, op, g, batch, key)
      PROVE  DeltaInv'
  <2>1. UNCHANGED <<dirty, taken, persisted, durable, nextGen>> /\ nextGen' >= nextGen
    BY <1>4, CacheOwnerAssumption DEF Admitted, slot, worker, TypeInv, SlotOK
  <2>2. own'[g].rev = own[g].rev + 1 /\ \A h \in Owners : h # g => own'[h] = own[h]
    BY <1>0, <1>4 DEF Admitted, OwnOK, OwnerType
  <2>3. \A h \in Owners : own'[h].rev >= own[h].rev
    BY <1>0, <2>2 DEF OwnOK, OwnerType
  <2>4. /\ \A h \in Owners, k \in Keys : DeltaOK(h, k)'
        /\ \A h \in Owners, k \in Keys, n \in Nat : Below(h, k, n) => Below(h, k, n)'
    BY <1>2, <2>1, <2>3
  <2>5. fr'[c].gen = g /\ fr'[c].rev = own[g].rev + 1
        /\ \A d \in Threads : d # c => pc'[d] = pc[d] /\ fr'[d] = fr[d]
    BY <1>0, <1>4 DEF Admitted, ThreadsOK, NoFrame
  <2>6. InsideOK(c)'
    <3>1. PICK m \in Nat : m = own[g].rev + 1 /\ own[g].rev < m
      BY <1>0 DEF OwnOK, OwnerType
    <3>2. \A k \in Keys : Below(g, k, m)'
      BY <2>4, <3>1 DEF DeltaInv, DeltaOK
    <3>3. QED
      BY <2>2, <2>5, <3>1, <3>2 DEF InsideOK
  <2>7. ASSUME NEW d \in Threads, d # c PROVE InsideOK(d)'
    <3>1. InsideOK(d) /\ (Inside(d)' <=> Inside(d)) /\ pc'[d] = pc[d] /\ fr'[d] = fr[d]
      BY <2>5, <2>7 DEF DeltaInv, Inside
    <3>2. Inside(d) => fr[d].gen # g
      BY <1>4, CacheOwnerAssumption DEF Admitted, GuardInv
    <3>3. QED
      BY <2>2, <2>4, <3>1, <3>2 DEF InsideOK
  <2>8. QED
    BY <2>4, <2>6, <2>7 DEF DeltaInv
<1>5. ASSUME NEW c \in Threads, OpenVacant(c) PROVE DeltaInv'
  <2>1. /\ UNCHANGED <<dirty, taken, persisted, durable>> /\ nextGen' = nextGen + 1 /\ nextGen + 1 \in Owners
        /\ (own' = own \/ own' = [own EXCEPT ![nextGen + 1] = Opened]) /\ Return(c)
    BY <1>5 DEF OpenVacant
  <2>2. nextGen \in Nat /\ nextGen' >= nextGen
    BY <2>1, CacheOwnerAssumption DEF TypeInv, SlotOK
  <2>3. PICK g \in Owners : g = nextGen + 1 /\ g > nextGen /\ g # 0
    BY <2>1, <2>2
  <2>4. own'[g].rev = 0 \/ own'[g].rev = own[g].rev
    BY <1>0, <2>1, <2>3 DEF OwnOK, Opened, Owner
  <2>5. \A h \in Owners : h # g => own'[h] = own[h]
    BY <1>0, <2>1, <2>3 DEF OwnOK
  <2>6. \A d \in Threads : fr[d].gen # g
    <3>1. \A d \in Threads : fr[d].gen \in Nat /\ fr[d].gen <= nextGen
      BY <1>0, CacheOwnerAssumption DEF ThreadsOK, FrameType, FenceInv, CallerOK
    <3>2. QED
      BY <2>2, <2>3, <3>1
  <2>7. \A h \in Owners, k \in Keys, n \in Nat : Below(h, k, n)' <=> Below(h, k, n)
    BY <2>1 DEF Below
  <2>8. ASSUME NEW k \in Keys PROVE DeltaOK(g, k)'
    <3>1. DeltaOK(g, k) /\ dirty[g] = NoDeltas /\ taken[g] = NoDeltas /\ persisted[g] = [j \in Keys |-> 0]
      BY <2>3 DEF DeltaInv, QuietInv, QuietOK
    <3>2. dirty[g][k] = None /\ taken[g][k] = None /\ persisted[g][k] = 0
      BY <3>1 DEF NoDeltas
    <3>3. durable[k] # None => durable[k].gen # g /\ durable[k].gen <= nextGen'
      BY <2>1, <2>2, <2>3, <3>1, KeyTypes DEF DeltaOK, Ordered
    <3>4. Ordered(g, k)'
      BY <2>1, <3>2, <3>3 DEF Ordered
    <3>5. \A n \in Nat : own'[g].rev < n => Below(g, k, n)'
      <4>1. own'[g].rev \in Nat
        BY DEF TypeInv, OwnOK, OwnerType
      <4>2. QED
        BY <2>1, <3>2, <3>3, <4>1 DEF Below
    <3>6. QED
      BY <3>4, <3>5 DEF DeltaOK
  <2>9. ASSUME NEW h \in Owners, h # g, NEW k \in Keys PROVE DeltaOK(h, k)'
    <3>1. DeltaOK(h, k) /\ own'[h] = own[h]
      BY <2>5, <2>9 DEF DeltaInv
    <3>2. Ordered(h, k)'
      BY <2>1, <2>2, <3>1, KeyTypes DEF DeltaOK, Ordered
    <3>3. QED
      BY <2>7, <3>1, <3>2 DEF DeltaOK
  <2>10. ASSUME NEW d \in Threads PROVE InsideOK(d)'
    <3>1. InsideOK(d) /\ (Inside(d)' => Inside(d) /\ pc'[d] = pc[d] /\ fr'[d] = fr[d])
      BY <2>1, Returns DEF DeltaInv, Inside
    <3>2. QED
      BY <2>5, <2>6, <2>7, <3>1 DEF InsideOK
  <2>11. QED
    BY <2>8, <2>9, <2>10 DEF DeltaInv
<1>6. ASSUME NEW c \in Threads, Publish(c) PROVE DeltaInv'
  <2>1. UNCHANGED <<dirty, taken, persisted, durable, nextGen, own>>
    BY <1>6 DEF Publish, slot, worker
  <2>2. nextGen' >= nextGen /\ \A h \in Owners : own'[h].rev >= own[h].rev
    BY <1>0, <2>1, CacheOwnerAssumption DEF TypeInv, SlotOK, OwnOK, OwnerType
  <2>3. /\ \A h \in Owners, k \in Keys : DeltaOK(h, k)'
        /\ \A h \in Owners, k \in Keys, n \in Nat : Below(h, k, n) => Below(h, k, n)'
    BY <1>2, <2>1, <2>2
  <2>4. pc'[c] \in {"flush", "idle"} /\ \A d \in Threads : d # c => pc'[d] = pc[d] /\ fr'[d] = fr[d]
    BY <1>0, <1>6 DEF Publish, Return, Goto, ThreadsOK
  <2>5. ASSUME NEW d \in Threads PROVE InsideOK(d)'
    <3>1. InsideOK(d) /\ (Inside(d)' => Inside(d) /\ pc'[d] = pc[d] /\ fr'[d] = fr[d])
      BY <2>4 DEF DeltaInv, Inside
    <3>2. QED
      BY <2>1, <2>3, <3>1 DEF InsideOK
  <2>6. QED
    BY <2>3, <2>5 DEF DeltaInv
<1>7. ASSUME NEW c \in Threads, Record(c) PROVE DeltaInv'
  <2>0. PICK g \in Owners : g = fr[c].gen /\ Inside(c) /\ pc[c] = "record"
    BY <1>7, InsideOwner DEF Record, At, Inside
  <2>1. PICK n \in Nat : n = fr[c].rev
    BY <2>0, InsideOwner DEF FrameType
  <2>2. own[g].rev = n /\ \A k \in Keys : Below(g, k, n)
    BY <2>0, <2>1 DEF DeltaInv, InsideOK
  <2>3. /\ UNCHANGED <<nextGen, taken, persisted, durable>>
        /\ \A h \in Owners : own'[h].rev = own[h].rev
        /\ \A h \in Owners : h # g => dirty'[h] = dirty[h]
        /\ pc'[c] \in {"idle", "publish"} /\ (pc'[c] = "publish" => fr'[c] = fr[c])
        /\ \A d \in Threads : d # c => pc'[d] = pc[d] /\ fr'[d] = fr[d]
    BY <1>7, <2>0, Records
  <2>4. ASSUME NEW k \in Keys PROVE dirty'[g][k] = dirty[g][k] \/ dirty'[g][k] = Incoming(c, k)
    BY <1>7, <2>0, Records
  <2>5. ASSUME NEW k \in Keys PROVE DeltaOK(g, k)'
    <3>1. Incoming(c, k) # None /\ Incoming(c, k).gen = g /\ Incoming(c, k).rev = n
      BY <2>0, <2>1, IncomingDelta
    <3>2. DeltaOK(g, k) /\ Below(g, k, n)
      BY <2>2 DEF DeltaInv
    <3>3. Ordered(g, k)'
      BY <2>3, <2>4, <3>1, <3>2, KeyTypes DEF DeltaOK, Ordered, Below
    <3>4. ASSUME NEW m \in Nat, own'[g].rev < m PROVE Below(g, k, m)'
      <4>1. n < m /\ Below(g, k, m)
        BY <2>2, <2>3, <3>2, <3>4 DEF DeltaOK
      <4>2. QED
        BY <2>3, <2>4, <3>1, <4>1 DEF Below
    <3>5. QED
      BY <3>3, <3>4 DEF DeltaOK
  <2>6. ASSUME NEW h \in Owners, h # g
        PROVE  \A k \in Keys : DeltaOK(h, k)' /\ \A m \in Nat : Below(h, k, m) => Below(h, k, m)'
    <3>1. dirty'[h] = dirty[h] /\ own'[h].rev = own[h].rev
      BY <2>3, <2>6
    <3>2. ASSUME NEW k \in Keys, NEW m \in Nat PROVE Below(h, k, m)' <=> Below(h, k, m)
      BY <2>3, <3>1 DEF Below
    <3>3. ASSUME NEW k \in Keys PROVE Ordered(h, k)'
      BY <2>3, <3>1 DEF DeltaInv, DeltaOK, Ordered
    <3>4. QED
      BY <3>1, <3>2, <3>3 DEF DeltaInv, DeltaOK
  <2>7. ASSUME NEW d \in Threads PROVE InsideOK(d)'
    <3>1. InsideOK(d)
      BY DEF DeltaInv
    <3>2. CASE d = c
      BY <2>0, <2>3, <3>1, <3>2 DEF InsideOK, Inside
    <3>3. CASE d # c
      <4>1. pc'[d] = pc[d] /\ fr'[d] = fr[d] /\ (Inside(d)' <=> Inside(d))
        BY <2>3, <3>3 DEF Inside
      <4>2. Inside(d) => fr[d].gen # g
        BY <2>0, <3>3, InsideAlone
      <4>3. QED
        BY <2>3, <2>6, <3>1, <4>1, <4>2 DEF InsideOK
    <3>4. QED
      BY <3>2, <3>3
  <2>8. QED
    BY <2>5, <2>6, <2>7 DEF DeltaInv
<1>8. CASE \E c \in Threads : Calls(c) \/ Step(c) \/ FlushExpires(c)
  <2>1. PICK c \in Threads : Calls(c) \/ Step(c) \/ FlushExpires(c)
    BY <1>8
  <2>2. CASE CallCommit(c) \/ CallPrune(c)
    BY <1>3, <1>4, <2>2, Reserves, RejectedIsOutside
  <2>3. CASE Elsewhere(c)
    BY <1>3, <2>3, ElsewhereIsOutside
  <2>4. QED
    BY <1>5, <1>6, <1>7, <2>1, <2>2, <2>3 DEF Calls, Step, Elsewhere
<1>9. QED
  BY <1>1, <1>8 DEF Next

LEMMA DeltaStutter == DeltaInv /\ UNCHANGED vars => DeltaInv'
BY DEF DeltaInv, DeltaOK, Ordered, Below, InsideOK, Inside, vars, moves, slot, data, worker, threads

-----------------------------------------------------------------------------
(* Flush *)

\* Revision n of a key, or a newer one, is on disk.
Covers(g, k, n) ==
    durable[k] # None /\ (durable[k].gen > g \/ (durable[k].gen = g /\ durable[k].rev >= n))

InDirty(g, k, n) == dirty[g][k] # None /\ dirty[g][k].rev >= n

InTaken(g, k, n) == taken[g][k] # None /\ taken[g][k].rev >= n

OnItsWay(g, k, n) == Covers(g, k, n) \/ InDirty(g, k, n) \/ InTaken(g, k, n)

Wants(c, g, k, n) == pc[c] \in {"flush", "await"} /\ fr[c].gen = g /\ fr[c].want[k] = n

\* What a flush waits for is pending, in flight or on disk; in flight or on disk
\* once the worker has taken the map for it; on disk once it is answered.
WantOK(c) ==
    \A g \in Owners, k \in Keys, n \in Nat \ {0} : Wants(c, g, k, n) =>
        /\ OnItsWay(g, k, n)
        /\ pc[c] = "await" /\ fr[c].reply = "ok" => Covers(g, k, n)
        /\ wk[g].for = c /\ wk[g].pc = "persist" => Covers(g, k, n) \/ InTaken(g, k, n)
        /\ wk[g].for = c /\ wk[g].pc \in {"checkpoint", "flushed"} => Covers(g, k, n)

FlushInv == \A c \in Threads : WantOK(c)

LEMMA InitFlush == Init => FlushInv
BY DEF Init, FlushInv, WantOK, Wants

\* What is on its way stays on its way whatever the worker does.
LEMMA WorkCovers ==
    ASSUME TypeInv, CommandInv, FenceInv, QuietInv, DeltaInv, NEW g \in Owners, Work(g) \/ Die(g),
           NEW h \in Owners, h <= nextGen, NEW k \in Keys, NEW n \in Nat
    PROVE  /\ Covers(h, k, n) => Covers(h, k, n)'
           /\ OnItsWay(h, k, n) => OnItsWay(h, k, n)'
<1>1. Moves(g, k) /\ Apart(g) /\ Ordered(g, k)
  BY WorkMoves, WorkIsApart DEF DeltaInv, DeltaOK
<1>2. wk[g].pc = "persist" => g = nextGen
  BY WorkerIsNewest DEF Working
<1>3. durable'[k] = durable[k] \/ (g = nextGen /\ taken[g][k] # None /\ durable'[k] = taken[g][k])
  BY <1>1, <1>2 DEF Moves
<1>4. h \in Nat /\ g \in Nat
  BY CacheOwnerAssumption DEF Owners
<1>5. Covers(h, k, n) => Covers(h, k, n)'
  BY <1>1, <1>3, <1>4, KeyTypes DEF Covers, Ordered
<1>6. CASE h = g
  <2>1. InTaken(g, k, n) => InTaken(g, k, n)' \/ Covers(g, k, n)' \/ InDirty(g, k, n)'
    BY <1>1, KeyTypes DEF InTaken, Covers, InDirty, Moves, Ordered
  <2>2. InDirty(g, k, n) => InTaken(g, k, n)' \/ InDirty(g, k, n)'
    BY <1>1 DEF InTaken, InDirty, Moves
  <2>3. QED
    BY <1>5, <1>6, <2>1, <2>2 DEF OnItsWay
<1>7. CASE h # g
  <2>1. dirty'[h] = dirty[h] /\ taken'[h] = taken[h]
    BY <1>1, <1>7 DEF Apart
  <2>2. QED
    BY <1>5, <2>1 DEF OnItsWay, InDirty, InTaken
<1>8. QED
  BY <1>6, <1>7

\* An answer of the worker is the one of the flush that it has ended.
LEMMA WorkReplies ==
    ASSUME TypeInv, CommandInv, NEW g \in Owners, Work(g) \/ Die(g), NEW c \in Threads,
           fr'[c].reply = "ok"
    PROVE  fr[c].reply = "ok" \/ (wk[g].for = c /\ wk[g].pc = "flushed" /\ fr[c].gen = g)
<1>0. ThreadsOK
  BY DEF TypeInv
<1>1. CASE fr' = fr
  BY <1>1
<1>2. CASE Flushed(g)
  <2>1. fr' = fr \/ fr' = Answered(wk[g].for, Result(g))
    BY <1>2, FlushEnds
  <2>2. wk[g].for = c => Asked(g, c)
    BY DEF CommandInv, ForOK
  <2>3. wk[g].for # c => fr'[c] = fr[c]
    BY <1>0, <2>1 DEF Answered, ThreadsOK
  <2>4. wk[g].for = c /\ fr' = Answered(wk[g].for, Result(g)) => fr'[c].reply = Result(g) \/ fr'[c] = fr[c]
    BY <1>0 DEF Answered, ThreadsOK, FrameType
  <2>5. Result(g) = "ok" => wk[g].pc = "flushed"
    BY <1>2, FlushEnds DEF Result
  <2>6. QED
    BY <2>1, <2>2, <2>3, <2>4, <2>5 DEF Asked
<1>3. CASE Leave(g) \/ Die(g)
  <2>1. fr'[c] = fr[c] \/ fr'[c] = [fr[c] EXCEPT !.reply = "error"]
    BY <1>3 DEF Leave, Die, Hangup
  <2>2. QED
    BY <1>0, <2>1 DEF ThreadsOK, FrameType
<1>4. QED
  BY <1>1, <1>2, <1>3 DEF Work, Poll, Receive, Take, Persist, Checkpoint, Exit, threads

\* The flush of a caller, from the map to the disk.
LEMMA WorkFor ==
    ASSUME TypeInv, CommandInv, NEW g \in Owners, Work(g) \/ Die(g), NEW c \in Threads,
           wk'[g].for = c, wk'[g].pc \in {"persist", "checkpoint", "flushed"}
    PROVE  wk[g].for = c /\ wk[g].pc \in {"take", "persist", "checkpoint"}
<1>0. WorkerOK
  BY DEF TypeInv
<1>1. c # None
  BY CacheOwnerAssumption
<1>2. CASE Poll(g) \/ Leave(g) \/ Die(g) \/ Exit(g)
  BY <1>0, <1>2, WorkerKeeps DEF Poll, Leave, Die, Exit, Hangup
<1>3. CASE Receive(g)
  BY <1>3, Receives
<1>4. CASE Flushed(g)
  <2>1. wk[g].for = c => wk[g].why = "flush"
    BY DEF CommandInv, ForOK
  <2>2. QED
    BY <1>1, <1>4, <2>1, FlushEnds
<1>5. CASE Take(g) \/ Persist(g) \/ Checkpoint(g)
  <2>1. wk[g].pc \in {"take", "persist", "checkpoint"}
    BY <1>5 DEF Take, Persist, Checkpoint
  <2>2. wk'[g].for = wk[g].for
    BY <1>0, <1>5, WorkerKeeps DEF Take, Persist, Checkpoint, WorkerOK, WorkerType
  <2>3. QED
    BY <2>1, <2>2
<1>6. QED
  BY <1>2, <1>3, <1>4, <1>5 DEF Work

LEMMA WorkFlush ==
    ASSUME TypeInv, CommandInv, FenceInv, QuietInv, DeltaInv, FlushInv,
           NEW g \in Owners, Work(g) \/ Die(g)
    PROVE  FlushInv'
<1> SUFFICES ASSUME NEW c \in Threads, NEW h \in Owners, NEW k \in Keys, NEW n \in Nat \ {0},
                    Wants(c, h, k, n)'
             PROVE  /\ OnItsWay(h, k, n)'
                    /\ pc'[c] = "await" /\ fr'[c].reply = "ok" => Covers(h, k, n)'
                    /\ wk'[h].for = c /\ wk'[h].pc = "persist" => Covers(h, k, n)' \/ InTaken(h, k, n)'
                    /\ wk'[h].for = c /\ wk'[h].pc \in {"checkpoint", "flushed"} => Covers(h, k, n)'
  BY DEF FlushInv, WantOK
<1>0. n \in Nat /\ n # 0
  OBVIOUS
<1>1. Apart(g)
  BY WorkIsApart
<1>2. pc' = pc /\ fr'[c].gen = fr[c].gen /\ fr'[c].want = fr[c].want
  BY <1>1 DEF Apart
<1>3. Wants(c, h, k, n) /\ fr[c].gen = h
  BY <1>2 DEF Wants
<1>4. h <= nextGen
  BY <1>3 DEF FenceInv, CallerOK
<1>5. /\ Covers(h, k, n) => Covers(h, k, n)'
      /\ OnItsWay(h, k, n) => OnItsWay(h, k, n)'
  BY <1>0, <1>4, WorkCovers
<1>6. /\ OnItsWay(h, k, n)
      /\ pc[c] = "await" /\ fr[c].reply = "ok" => Covers(h, k, n)
      /\ wk[h].for = c /\ wk[h].pc = "persist" => Covers(h, k, n) \/ InTaken(h, k, n)
      /\ wk[h].for = c /\ wk[h].pc \in {"checkpoint", "flushed"} => Covers(h, k, n)
  BY <1>3 DEF FlushInv, WantOK
<1>7. pc'[c] = "await" /\ fr'[c].reply = "ok" => Covers(h, k, n)'
  <2> SUFFICES ASSUME pc'[c] = "await", fr'[c].reply = "ok" PROVE Covers(h, k, n)'
    OBVIOUS
  <2>1. fr[c].reply = "ok" \/ (wk[g].for = c /\ wk[g].pc = "flushed" /\ fr[c].gen = g)
    BY WorkReplies
  <2>2. QED
    BY <1>2, <1>3, <1>5, <1>6, <2>1
<1>8. ASSUME wk'[h].for = c, wk'[h].pc \in {"persist", "checkpoint", "flushed"}
      PROVE  Covers(h, k, n)' \/ (wk'[h].pc = "persist" /\ InTaken(h, k, n)')
  <2>1. CASE h # g
    <3>1. wk'[h] = wk[h] /\ taken'[h] = taken[h]
      BY <1>1, <2>1 DEF Apart
    <3>2. QED
      BY <1>5, <1>6, <1>8, <3>1 DEF InTaken
  <2>2. CASE h = g
    <3>1. wk[g].for = c /\ wk[g].pc \in {"take", "persist", "checkpoint"}
      BY <1>8, <2>2, WorkFor
    <3>2. Moves(g, k) /\ Ordered(g, k)
      BY WorkMoves DEF DeltaInv, DeltaOK
    <3>3. CASE wk[g].pc = "checkpoint"
      BY <1>5, <1>6, <2>2, <3>1, <3>3
    <3>4. CASE wk[g].pc = "take"
      <4>1. Covers(g, k, n) \/ InDirty(g, k, n)
        BY <1>6, <2>2, <3>2, <3>4 DEF OnItsWay, InTaken, Moves
      <4>2. InDirty(g, k, n) => wk'[g].pc = "persist" /\ InTaken(g, k, n)'
        BY <3>2, <3>4 DEF InDirty, InTaken, Moves
      <4>3. QED
        BY <1>5, <2>2, <4>1, <4>2
    <3>5. CASE wk[g].pc = "persist"
      <4>1. Covers(g, k, n) \/ InTaken(g, k, n)
        BY <1>6, <2>2, <3>1, <3>5
      <4>2. InTaken(g, k, n) => Covers(g, k, n)'
        BY <1>8, <2>2, <3>2, <3>5 DEF InTaken, Covers, Moves, Ordered
      <4>3. QED
        BY <1>5, <2>2, <4>1, <4>2
    <3>6. QED
      BY <3>1, <3>3, <3>4, <3>5
  <2>3. QED
    BY <2>1, <2>2
<1>9. QED
  BY <1>5, <1>6, <1>7, <1>8

\* How a thread comes to wait for a flush.
Asks(c) ==
    /\ pc'[c] \in {"flush", "await"} => pc[c] # "await"
    /\ pc'[c] = "await" => pc[c] = "flush" /\ fr'[c] = fr[c]
    /\ pc'[c] = "flush" => \E g \in Owners : fr'[c].gen = g /\ fr'[c].want = Outstanding(g)

LEMMA ElsewhereAsks == ASSUME TypeInv, NEW c \in Threads, Elsewhere(c) PROVE Asks(c)
<1>0. ThreadsOK
  BY DEF TypeInv
<1>1. CASE CallFlush(c)
  <2>1. PICK g \in Owners : fr' = [fr EXCEPT ![c] = [NoFrame EXCEPT !.op = "flush", !.gen = g,
                                                                    !.want = Outstanding(g)]]
    BY <1>1 DEF CallFlush
  <2>2. fr'[c].gen = g /\ fr'[c].want = Outstanding(g)
    BY <1>0, <2>1 DEF ThreadsOK, NoFrame
  <2>3. pc[c] = "idle" /\ pc'[c] = "flush"
    BY <1>0, <1>1 DEF CallFlush, Begin, At, Goto, ThreadsOK
  <2>4. QED
    BY <2>2, <2>3 DEF Asks
<1>2. CASE CallShutdown(c)
  <2>1. PICK g \in Owners : fr' = [fr EXCEPT ![c] = [NoFrame EXCEPT !.op = "shutdown", !.gen = g,
                                                                    !.want = Outstanding(g)]]
    BY <1>2 DEF CallShutdown
  <2>2. fr'[c].gen = g /\ fr'[c].want = Outstanding(g)
    BY <1>0, <2>1 DEF ThreadsOK, NoFrame
  <2>3. pc[c] = "idle" /\ pc'[c] \in {"flush", "stop"}
    BY <1>0, <1>2 DEF CallShutdown, Begin, At, Goto, ThreadsOK
  <2>4. QED
    BY <2>2, <2>3 DEF Asks
<1>3. CASE FlushSend(c)
  <2>1. pc[c] = "flush" /\ (pc'[c] = "idle" \/ (pc'[c] = "await" /\ fr'[c] = fr[c]))
    BY <1>0, <1>3 DEF FlushSend, At, Return, Goto, ThreadsOK
  <2>2. QED
    BY <2>1 DEF Asks
<1>4. CASE ~(CallFlush(c) \/ CallShutdown(c) \/ FlushSend(c))
  <2>1. pc'[c] \notin {"flush", "await"}
    BY <1>0, <1>4 DEF Elsewhere, CallOpen, CallDrop, OpenShared, FlushDone, FlushExpires,
       StopRequest, StopWait, StopSend, StopAwait, StopJoin, StopComplete, DropReference,
       DropRelease, DropSignal, Return, Goto, ThreadsOK
  <2>2. QED
    BY <2>1 DEF Asks
<1>5. QED
  BY <1>1, <1>2, <1>3, <1>4

\* What is outstanding is pending or in flight.
LEMMA OutstandingDeltas ==
    ASSUME TypeInv, NEW g \in Owners, NEW k \in Keys, NEW n \in Nat \ {0}, Outstanding(g)[k] = n
    PROVE  InDirty(g, k, n) \/ InTaken(g, k, n)
<1>1. n \in Nat /\ n # 0
  OBVIOUS
<1>2. CASE dirty[g][k] # None
  BY <1>1, <1>2 DEF Outstanding, InDirty
<1>3. CASE dirty[g][k] = None /\ taken[g][k] # None
  BY <1>1, <1>3 DEF Outstanding, InTaken
<1>4. CASE dirty[g][k] = None /\ taken[g][k] = None
  BY <1>1, <1>4 DEF Outstanding
<1>5. QED
  BY <1>2, <1>3, <1>4

LEMMA FlushStep ==
    ASSUME TypeInv, CommandInv, FenceInv, GuardInv, QuietInv, DeltaInv, FlushInv, Next
    PROVE  FlushInv'
<1>0. ThreadsOK /\ WorkerOK
  BY DEF TypeInv
<1>1. ASSUME NEW c \in Threads, UNCHANGED <<taken, durable>>,
             \A h \in Owners, k \in Keys, n \in Nat : InDirty(h, k, n) => InDirty(h, k, n)',
             \A d \in Threads : d # c => pc'[d] = pc[d] /\ fr'[d] = fr[d],
             \A h \in Owners : \/ wk'[h].pc = wk[h].pc /\ wk'[h].for \in {wk[h].for, None}
                               \/ wk'[h].for = None,
             Asks(c)
      PROVE  FlushInv'
  <2> SUFFICES ASSUME NEW d \in Threads, NEW h \in Owners, NEW k \in Keys, NEW n \in Nat \ {0},
                      Wants(d, h, k, n)'
               PROVE  /\ OnItsWay(h, k, n)'
                      /\ pc'[d] = "await" /\ fr'[d].reply = "ok" => Covers(h, k, n)'
                      /\ wk'[h].for = d /\ wk'[h].pc = "persist" => Covers(h, k, n)' \/ InTaken(h, k, n)'
                      /\ wk'[h].for = d /\ wk'[h].pc \in {"checkpoint", "flushed"} => Covers(h, k, n)'
    BY DEF FlushInv, WantOK
  <2>1. /\ Covers(h, k, n)' <=> Covers(h, k, n)
        /\ InTaken(h, k, n)' <=> InTaken(h, k, n)
        /\ OnItsWay(h, k, n) => OnItsWay(h, k, n)'
    BY <1>1 DEF Covers, InTaken, OnItsWay
  <2>2. wk'[h].for = d => wk[h].for = d /\ wk'[h].pc = wk[h].pc
    BY <1>1, CacheOwnerAssumption
  <2>3. CASE d # c
    <3>1. pc'[d] = pc[d] /\ fr'[d] = fr[d]
      BY <1>1, <2>3
    <3>2. Wants(d, h, k, n)
      BY <3>1 DEF Wants
    <3>3. QED
      BY <2>1, <2>2, <3>1, <3>2 DEF FlushInv, WantOK
  <2>4. CASE d = c
    <3>1. pc'[c] \in {"flush", "await"} /\ pc[c] # "await"
      BY <1>1, <2>4 DEF Asks, Wants
    <3>2. wk'[h].for # c
      BY <2>2, <2>4, <3>1 DEF CommandInv, ForOK, Asked
    <3>3. CASE pc'[c] = "await"
      <4>1. pc[c] = "flush" /\ fr'[c] = fr[c] /\ fr[c].reply = "none"
        BY <1>0, <1>1, <3>3 DEF Asks, ThreadsOK, Shape
      <4>2. Wants(c, h, k, n)
        BY <2>4, <4>1 DEF Wants
      <4>3. QED
        BY <2>1, <2>4, <3>2, <4>1, <4>2 DEF FlushInv, WantOK
    <3>4. CASE pc'[c] = "flush"
      <4>1. Outstanding(h)[k] = n
        BY <1>1, <2>4, <3>4 DEF Asks, Wants
      <4>2. OnItsWay(h, k, n)
        BY <4>1, OutstandingDeltas DEF OnItsWay
      <4>3. QED
        BY <2>1, <2>4, <3>2, <3>4, <4>2
    <3>5. QED
      BY <3>1, <3>3, <3>4
  <2>5. QED
    BY <2>3, <2>4
<1>2. ASSUME UNCHANGED dirty
      PROVE  \A h \in Owners, k \in Keys, n \in Nat : InDirty(h, k, n) => InDirty(h, k, n)'
  BY <1>2 DEF InDirty
<1>3. ASSUME NEW c \in Threads, Outside(c), Asks(c) PROVE FlushInv'
  <2>1. UNCHANGED <<dirty, taken, durable>>
    BY <1>3 DEF Outside, data
  <2>2. /\ \A d \in Threads : d # c => pc'[d] = pc[d] /\ fr'[d] = fr[d]
        /\ \A h \in Owners : wk'[h].pc = wk[h].pc /\ wk'[h].for \in {wk[h].for, None}
    BY <1>3 DEF Outside
  <2>3. QED
    BY <1>1, <1>2, <1>3, <2>1, <2>2
<1>4. ASSUME NEW c \in Threads, Rejected(c) PROVE FlushInv'
  <2>1. pc'[c] = "idle"
    BY <1>4 DEF Rejected, threads
  <2>2. QED
    BY <1>3, <1>4, <2>1, RejectedIsOutside DEF Asks
<1>5. ASSUME NEW c \in Threads, NEW op, NEW g \in Owners, NEW batch, NEW key,
             Admitted(c, op, g, batch, key)
      PROVE  FlushInv'
  <2>1. UNCHANGED <<dirty, taken, durable, wk>>
    BY <1>5 DEF Admitted, worker
  <2>2. pc'[c] = "record" /\ \A d \in Threads : d # c => pc'[d] = pc[d] /\ fr'[d] = fr[d]
    BY <1>0, <1>5 DEF Admitted, ThreadsOK
  <2>3. Asks(c)
    BY <2>2 DEF Asks
  <2>4. QED
    BY <1>1, <1>2, <2>1, <2>2, <2>3
<1>6. ASSUME NEW c \in Threads, OpenVacant(c) PROVE FlushInv'
  <2>1. UNCHANGED <<dirty, taken, durable>> /\ Return(c)
    BY <1>6 DEF OpenVacant
  <2>2. pc'[c] = "idle" /\ \A d \in Threads : d # c => pc'[d] = pc[d] /\ fr'[d] = fr[d]
    BY <2>1, Returns
  <2>3. Asks(c)
    BY <2>2 DEF Asks
  <2>4. \A h \in Owners : wk'[h] = wk[h] \/ wk'[h].for = None
    BY <1>0, <1>6 DEF OpenVacant, Worker, WorkerOK
  <2>5. QED
    BY <1>1, <1>2, <2>1, <2>2, <2>3, <2>4
<1>7. ASSUME NEW c \in Threads, Publish(c) PROVE FlushInv'
  <2>0. PICK g \in Owners : g = fr[c].gen /\ pc[c] = "publish"
    BY <1>7, InsideOwner DEF Publish, At, Inside
  <2>1. UNCHANGED <<dirty, taken, durable, wk>>
    BY <1>7 DEF Publish, worker
  <2>2. \A d \in Threads : d # c => pc'[d] = pc[d] /\ fr'[d] = fr[d]
    BY <1>0, <1>7 DEF Publish, Return, Goto, ThreadsOK
  <2>3. pc'[c] = "idle" \/ (pc'[c] = "flush" /\ fr' = [fr EXCEPT ![c].want = Outstanding(g)])
    BY <1>0, <1>7, <2>0 DEF Publish, Return, Goto, ThreadsOK
  <2>4. pc'[c] = "flush" => fr'[c].gen = g /\ fr'[c].want = Outstanding(g)
    BY <1>0, <2>0, <2>3 DEF ThreadsOK, FrameType
  <2>5. Asks(c)
    BY <2>0, <2>3, <2>4 DEF Asks
  <2>6. QED
    BY <1>1, <1>2, <2>1, <2>2, <2>5
<1>8. ASSUME NEW c \in Threads, Record(c) PROVE FlushInv'
  <2>0. PICK g \in Owners : g = fr[c].gen /\ Inside(c) /\ pc[c] = "record"
    BY <1>8, InsideOwner DEF Record, At, Inside
  <2>1. PICK m \in Nat : m = fr[c].rev
    BY <2>0, InsideOwner DEF FrameType
  <2>2. /\ UNCHANGED <<taken, durable, wk>>
        /\ \A d \in Threads : d # c => pc'[d] = pc[d] /\ fr'[d] = fr[d]
        /\ \A h \in Owners : h # g => dirty'[h] = dirty[h]
        /\ pc'[c] \in {"idle", "publish"}
    BY <1>8, <2>0, Records
  <2>3. ASSUME NEW h \in Owners, NEW k \in Keys, NEW n \in Nat, InDirty(h, k, n) PROVE InDirty(h, k, n)'
    <3>1. CASE h # g
      BY <2>2, <2>3, <3>1 DEF InDirty
    <3>2. CASE h = g
      <4>1. dirty'[g][k] = dirty[g][k] \/ dirty'[g][k] = Incoming(c, k)
        BY <1>8, <2>0, Records
      <4>2. Below(g, k, m)
        BY <2>0, <2>1 DEF DeltaInv, InsideOK
      <4>3. Incoming(c, k) # None /\ Incoming(c, k).rev = m
        BY <2>0, <2>1, IncomingDelta
      <4>4. QED
        BY <2>3, <3>2, <4>1, <4>2, <4>3, KeyTypes DEF InDirty, Below
    <3>3. QED
      BY <3>1, <3>2
  <2>4. Asks(c)
    BY <2>2 DEF Asks
  <2>5. QED
    BY <1>1, <2>2, <2>3, <2>4
<1>9. CASE \E c \in Threads : Calls(c) \/ Step(c) \/ FlushExpires(c)
  <2>1. PICK c \in Threads : Calls(c) \/ Step(c) \/ FlushExpires(c)
    BY <1>9
  <2>2. CASE CallCommit(c) \/ CallPrune(c)
    BY <1>4, <1>5, <2>2, Reserves
  <2>3. CASE Elsewhere(c)
    BY <1>3, <2>3, ElsewhereIsOutside, ElsewhereAsks
  <2>4. QED
    BY <1>6, <1>7, <1>8, <2>1, <2>2, <2>3 DEF Calls, Step, Elsewhere
<1>10. QED
  BY <1>9, WorkFlush DEF Next

LEMMA FlushStutter == FlushInv /\ UNCHANGED vars => FlushInv'
BY DEF FlushInv, WantOK, Wants, OnItsWay, Covers, InDirty, InTaken, vars, moves, data, worker, threads

\* An answered flush is covered.
LEMMA FlushIsCovered == TypeInv /\ FlushInv => FlushCovers
<1> SUFFICES ASSUME TypeInv, FlushInv, NEW c \in Threads, At(c, "await"), fr[c].reply = "ok",
                    NEW k \in Keys, fr[c].want[k] > 0
             PROVE  /\ durable[k] # None
                    /\ \/ durable[k].gen > fr[c].gen
                       \/ durable[k].gen = fr[c].gen /\ durable[k].rev >= fr[c].want[k]
  BY DEF FlushCovers
<1>1. fr[c].gen \in Owners /\ fr[c].want[k] \in Nat
  BY DEF TypeInv, ThreadsOK, Shape, FrameType, At
<1>2. PICK g \in Owners, n \in Nat \ {0} : g = fr[c].gen /\ n = fr[c].want[k]
  BY <1>1
<1>3. Covers(g, k, n)
  BY <1>2 DEF FlushInv, WantOK, Wants, At
<1>4. QED
  BY <1>2, <1>3 DEF Covers

\* Everything so far, of every state.
CacheInv == TypeInv /\ CommandInv /\ FenceInv /\ GuardInv /\ QuietInv /\ DeltaInv /\ FlushInv

LEMMA CacheHolds == Spec => []CacheInv
<1>1. Init => CacheInv
  BY InitTypes, InitCommands, InitFence, InitGuard, InitQuiet, InitDeltas, InitFlush DEF CacheInv
<1>2. CacheInv /\ [Next]_vars => CacheInv'
  <2> SUFFICES ASSUME CacheInv, [Next]_vars PROVE CacheInv'
    OBVIOUS
  <2>1. CASE Next
    BY <2>1, TypesStep, FenceStep, GuardStep, QuietStep, DeltaStep, FlushStep DEF CacheInv
  <2>2. CASE UNCHANGED vars
    BY <2>2, TypesStutter, FenceStutter, GuardStutter, QuietStutter, DeltaStutter, FlushStutter
       DEF CacheInv
  <2>3. QED
    BY <2>1, <2>2
<1>3. QED
  BY <1>1, <1>2, PTL DEF Spec

\* flush, shutdown and the worker's run: a flush that was answered with success covers everything that was pending or in
\* flight when it was called, whatever arrived, failed or was restored meanwhile; a
\* shutdown that was answered with success left nothing pending, in flight or reserved.
THEOREM AcknowledgedIsKept == Spec => []AcknowledgedIsDurable
<1>1. CacheInv => AcknowledgedIsDurable
  BY QuietCovers, FlushIsCovered DEF CacheInv, AcknowledgedIsDurable
<1>2. QED
  BY <1>1, CacheHolds, PTL

-----------------------------------------------------------------------------
(* The live cache and the files *)

Publishing(c, g) == pc[c] = "publish" /\ fr[c].gen = g

\* What the root would hold, as the live cache has it or is about to have it.
LiveOK(g, k) ==
    g = nextGen /\ own[g].strong > 0 =>
        /\ (\A c \in Threads : ~Publishing(c, g)) => memory[g][k] = Overlay(g, k)
        /\ \A c \in Threads : Publishing(c, g) =>
              Overlay(g, k) = IF k \in fr[c].batch THEN Incoming(c, k).val ELSE memory[g][k]

LiveInv == \A g \in Owners, k \in Keys : LiveOK(g, k)

LEMMA InitLive == Init => LiveInv
<1> SUFFICES ASSUME Init, NEW g \in Owners, NEW k \in Keys PROVE LiveOK(g, k)
  BY DEF LiveInv
<1>1. dirty[g][k] = None /\ taken[g][k] = None
  BY DEF Init, NoDeltas
<1>2. g = 1 => memory[g][k] = IF durable[k] # None THEN durable[k].val ELSE None
  BY DEF Init
<1>3. nextGen = 1 /\ \A c \in Threads : ~Publishing(c, g)
  BY DEF Init, Publishing
<1>4. QED
  BY <1>1, <1>2, <1>3 DEF LiveOK, Overlay

\* The worker moves deltas, and does not change what the root would hold.
LEMMA WorkOverlays ==
    ASSUME TypeInv, CommandInv, FenceInv, QuietInv, DeltaInv, NEW g \in Owners, Work(g) \/ Die(g),
           NEW h \in Owners, h = nextGen, NEW k \in Keys
    PROVE  Overlay(h, k)' = Overlay(h, k)
<1>1. Moves(g, k) /\ Apart(g)
  BY WorkMoves, WorkIsApart
<1>2. CASE h = g
  BY <1>1, <1>2 DEF Moves, Overlay
<1>3. CASE h # g
  <2>1. dirty'[h] = dirty[h] /\ taken'[h] = taken[h]
    BY <1>1, <1>3 DEF Apart
  <2>2. wk[g].pc # "persist"
    BY <1>3, WorkerIsNewest DEF Working
  <2>3. durable'[k] = durable[k]
    BY <1>1, <2>2 DEF Moves
  <2>4. QED
    BY <2>1, <2>3 DEF Overlay
<1>4. QED
  BY <1>2, <1>3

LEMMA LiveStep ==
    ASSUME TypeInv, CommandInv, FenceInv, GuardInv, QuietInv, DeltaInv, LiveInv, Next
    PROVE  LiveInv'
<1>0. ThreadsOK /\ OwnOK /\ MemoryOK
  BY DEF TypeInv
<1>1. ASSUME NEW h \in Owners, NEW k \in Keys, UNCHANGED nextGen, memory'[h] = memory[h],
             h = nextGen => Overlay(h, k)' = Overlay(h, k),
             own'[h].strong > 0 => own[h].strong > 0,
             \A d \in Threads : Publishing(d, h)' <=> Publishing(d, h),
             \A d \in Threads : Publishing(d, h) => fr'[d] = fr[d]
      PROVE  LiveOK(h, k)'
  <2>1. LiveOK(h, k)
    BY DEF LiveInv
  <2>2. \A d \in Threads : Publishing(d, h) => Incoming(d, k)' = Incoming(d, k)
    BY <1>1 DEF Incoming
  <2>3. QED
    BY <1>1, <2>1, <2>2 DEF LiveOK
<1>2. ASSUME NEW g \in Owners, Work(g) \/ Die(g) PROVE LiveInv'
  <2>1. Apart(g)
    BY <1>2, WorkIsApart
  <2>2. UNCHANGED nextGen /\ \A h \in Owners : memory'[h] = memory[h] /\ own'[h].strong = own[h].strong
    BY <2>1 DEF Apart
  <2>3. \A h \in Owners, d \in Threads :
           (Publishing(d, h)' <=> Publishing(d, h)) /\ (Publishing(d, h) => fr'[d] = fr[d])
    BY <2>1 DEF Apart, Publishing
  <2>4. \A h \in Owners, k \in Keys : h = nextGen => Overlay(h, k)' = Overlay(h, k)
    BY <1>2, WorkOverlays
  <2>5. QED
    BY <1>1, <2>2, <2>3, <2>4 DEF LiveInv
<1>3. ASSUME NEW c \in Threads, Outside(c) PROVE LiveInv'
  <2>1. UNCHANGED <<nextGen, memory, dirty, taken, durable>>
    BY <1>3 DEF Outside, data
  <2>2. \A h \in Owners, k \in Keys : Overlay(h, k)' = Overlay(h, k)
    BY <2>1 DEF Overlay
  <2>3. \A h \in Owners, d \in Threads :
           (Publishing(d, h)' <=> Publishing(d, h)) /\ (Publishing(d, h) => fr'[d] = fr[d])
    BY <1>3 DEF Outside, Inside, Publishing
  <2>4. \A h \in Owners : own'[h].strong > 0 => own[h].strong > 0
    BY <1>3 DEF Outside
  <2>5. QED
    BY <1>1, <2>1, <2>2, <2>3, <2>4 DEF LiveInv
<1>4. ASSUME NEW c \in Threads, NEW op, NEW g \in Owners, NEW batch, NEW key,
             Admitted(c, op, g, batch, key)
      PROVE  LiveInv'
  <2>1. UNCHANGED <<nextGen, memory, dirty, taken, durable>>
    BY <1>4 DEF Admitted, slot, worker
  <2>2. \A h \in Owners, k \in Keys : Overlay(h, k)' = Overlay(h, k)
    BY <2>1 DEF Overlay
  <2>3. /\ pc[c] = "idle" /\ pc'[c] = "record"
        /\ \A d \in Threads : d # c => pc'[d] = pc[d] /\ fr'[d] = fr[d]
    BY <1>0, <1>4 DEF Admitted, ThreadsOK
  <2>4. \A h \in Owners, d \in Threads :
           (Publishing(d, h)' <=> Publishing(d, h)) /\ (Publishing(d, h) => fr'[d] = fr[d])
    BY <2>3 DEF Publishing
  <2>5. \A h \in Owners : own'[h].strong = own[h].strong
    BY <1>0, <1>4 DEF Admitted, OwnOK, OwnerType
  <2>6. QED
    BY <1>1, <2>1, <2>2, <2>4, <2>5 DEF LiveInv
<1>5. ASSUME NEW c \in Threads, OpenVacant(c) PROVE LiveInv'
  <2>1. PICK g \in Owners : g = nextGen + 1 /\ nextGen' = g
    BY <1>5 DEF OpenVacant
  <2>2. nextGen \in Nat /\ g > nextGen
    BY <2>1, CacheOwnerAssumption DEF TypeInv, SlotOK
  <2>3. UNCHANGED <<dirty, taken, durable>> /\ Return(c)
    BY <1>5 DEF OpenVacant
  <2>4. dirty[g] = NoDeltas /\ taken[g] = NoDeltas /\ own[g].strong = 0
    BY <2>2 DEF QuietInv, QuietOK, FenceInv, OwnerOK
  <2>5. \A d \in Threads : ~Publishing(d, g)'
    <3>1. \A d \in Threads : fr[d].gen \in Nat /\ fr[d].gen <= nextGen
      BY <1>0, CacheOwnerAssumption DEF ThreadsOK, FrameType, FenceInv, CallerOK
    <3>2. QED
      BY <2>2, <2>3, <3>1, Returns DEF Publishing
  <2>6. ASSUME NEW k \in Keys PROVE LiveOK(g, k)'
    <3>1. CASE own' = own
      BY <2>4, <3>1 DEF LiveOK
    <3>2. CASE memory' = [memory EXCEPT ![g] =
                            [j \in Keys |-> IF durable[j] = None THEN None ELSE durable[j].val]]
      <4>1. memory'[g][k] = IF durable[k] = None THEN None ELSE durable[k].val
        BY <1>0, <3>2 DEF MemoryOK
      <4>2. dirty'[g][k] = None /\ taken'[g][k] = None /\ durable'[k] = durable[k]
        BY <2>3, <2>4 DEF NoDeltas
      <4>3. memory'[g][k] = Overlay(g, k)'
        BY <4>1, <4>2 DEF Overlay
      <4>4. QED
        BY <2>5, <4>3 DEF LiveOK
    <3>3. QED
      BY <1>5, <2>1, <3>1, <3>2 DEF OpenVacant
  <2>7. QED
    BY <2>1, <2>6 DEF LiveInv, LiveOK
<1>6. ASSUME NEW c \in Threads, Record(c) PROVE LiveInv'
  <2>0. PICK g \in Owners : g = fr[c].gen /\ Inside(c) /\ pc[c] = "record"
    BY <1>6, InsideOwner DEF Record, At, Inside
  <2>1. /\ UNCHANGED <<nextGen, memory, taken, durable>>
        /\ \A d \in Threads : d # c => pc'[d] = pc[d] /\ fr'[d] = fr[d]
        /\ \A h \in Owners : own'[h].strong = own[h].strong
        /\ \A h \in Owners : h # g => dirty'[h] = dirty[h]
    BY <1>6, <2>0, Records
  <2>2. ASSUME NEW h \in Owners, NEW k \in Keys, dirty'[h][k] = dirty[h][k]
        PROVE  Overlay(h, k)' = Overlay(h, k)
    BY <2>1, <2>2 DEF Overlay
  <2>3. CASE pc'[c] = "idle" /\ dirty' = dirty
    <3>1. \A h \in Owners, d \in Threads :
             (Publishing(d, h)' <=> Publishing(d, h)) /\ (Publishing(d, h) => fr'[d] = fr[d])
      BY <2>0, <2>1, <2>3 DEF Publishing
    <3>2. QED
      BY <1>1, <2>1, <2>2, <2>3, <3>1 DEF LiveInv
  <2>4. CASE pc'[c] = "publish" /\ fr'[c] = fr[c]
    <3>1. ASSUME NEW h \in Owners, h # g, NEW k \in Keys PROVE LiveOK(h, k)'
      <4>1. \A d \in Threads :
               (Publishing(d, h)' <=> Publishing(d, h)) /\ (Publishing(d, h) => fr'[d] = fr[d])
        BY <2>0, <2>1, <2>4, <3>1 DEF Publishing
      <4>2. Overlay(h, k)' = Overlay(h, k)
        BY <2>1, <2>2, <3>1
      <4>3. QED
        BY <1>1, <2>1, <4>1, <4>2
    <3>2. ASSUME NEW k \in Keys PROVE LiveOK(g, k)'
      <4>1. \A d \in Threads : Publishing(d, g) => FALSE
        BY <2>0, InsideAlone DEF Publishing, Inside
      <4>2. \A d \in Threads : Publishing(d, g)' <=> d = c
        BY <2>0, <2>1, <2>4, <4>1 DEF Publishing
      <4>3. Incoming(c, k)' = Incoming(c, k)
        BY <2>4 DEF Incoming
      <4>4. g = nextGen /\ own[g].strong > 0 => memory[g][k] = Overlay(g, k)
        BY <4>1 DEF LiveInv, LiveOK
      <4>5. CASE k \in fr[c].batch
        <5>1. dirty'[g][k] = Incoming(c, k) /\ Incoming(c, k) # None
          BY <1>6, <2>0, <2>4, <4>5, Records, IncomingDelta
        <5>2. Overlay(g, k)' = Incoming(c, k).val
          BY <5>1 DEF Overlay
        <5>3. QED
          BY <2>4, <4>2, <4>3, <4>5, <5>2 DEF LiveOK
      <4>6. CASE k \notin fr[c].batch
        <5>1. dirty'[g][k] = dirty[g][k]
          BY <1>6, <2>0, <4>6, Records
        <5>2. Overlay(g, k)' = Overlay(g, k)
          BY <2>2, <5>1
        <5>3. QED
          BY <2>1, <2>4, <4>2, <4>4, <4>6, <5>2 DEF LiveOK
      <4>7. QED
        BY <4>5, <4>6
    <3>3. QED
      BY <3>1, <3>2 DEF LiveInv
  <2>5. QED
    BY <1>6, <2>3, <2>4, Records
<1>7. ASSUME NEW c \in Threads, Publish(c) PROVE LiveInv'
  <2>0. PICK g \in Owners : g = fr[c].gen /\ Inside(c) /\ pc[c] = "publish"
    BY <1>7, InsideOwner DEF Publish, At, Inside
  <2>1. /\ UNCHANGED <<nextGen, own, dirty, taken, durable>>
        /\ memory' = [memory EXCEPT ![g] =
                        [k \in Keys |-> IF k \in fr[c].batch THEN Incoming(c, k).val ELSE @[k]]]
    BY <1>7, <2>0 DEF Publish, slot, worker
  <2>2. pc'[c] # "publish" /\ \A d \in Threads : d # c => pc'[d] = pc[d] /\ fr'[d] = fr[d]
    BY <1>0, <1>7 DEF Publish, Return, Goto, ThreadsOK
  <2>3. \A h \in Owners, k \in Keys : Overlay(h, k)' = Overlay(h, k)
    BY <2>1 DEF Overlay
  <2>4. ASSUME NEW h \in Owners, h # g, NEW k \in Keys PROVE LiveOK(h, k)'
    <3>1. \A d \in Threads :
             (Publishing(d, h)' <=> Publishing(d, h)) /\ (Publishing(d, h) => fr'[d] = fr[d])
      BY <2>0, <2>2, <2>4 DEF Publishing
    <3>2. memory'[h] = memory[h]
      BY <1>0, <2>1, <2>4 DEF MemoryOK
    <3>3. QED
      BY <1>1, <2>1, <2>3, <3>1, <3>2
  <2>5. ASSUME NEW k \in Keys PROVE LiveOK(g, k)'
    <3>1. \A d \in Threads : Publishing(d, g) => d = c
      BY <2>0, InsideAlone DEF Publishing, Inside
    <3>2. \A d \in Threads : ~Publishing(d, g)'
      BY <2>2, <3>1 DEF Publishing
    <3>3. memory'[g][k] = IF k \in fr[c].batch THEN Incoming(c, k).val ELSE memory[g][k]
      BY <1>0, <2>1 DEF MemoryOK
    <3>4. Publishing(c, g)
      BY <2>0 DEF Publishing
    <3>5. g = nextGen /\ own[g].strong > 0 =>
             Overlay(g, k) = IF k \in fr[c].batch THEN Incoming(c, k).val ELSE memory[g][k]
      BY <3>4 DEF LiveInv, LiveOK
    <3>6. QED
      BY <2>1, <2>3, <3>2, <3>3, <3>5 DEF LiveOK
  <2>6. QED
    BY <2>4, <2>5 DEF LiveInv
<1>8. CASE \E c \in Threads : Calls(c) \/ Step(c) \/ FlushExpires(c)
  <2>1. PICK c \in Threads : Calls(c) \/ Step(c) \/ FlushExpires(c)
    BY <1>8
  <2>2. CASE CallCommit(c) \/ CallPrune(c)
    BY <1>3, <1>4, <2>2, Reserves, RejectedIsOutside
  <2>3. CASE Elsewhere(c)
    BY <1>3, <2>3, ElsewhereIsOutside
  <2>4. QED
    BY <1>5, <1>6, <1>7, <2>1, <2>2, <2>3 DEF Calls, Step, Elsewhere
<1>9. QED
  BY <1>2, <1>8 DEF Next

LEMMA LiveStutter == LiveInv /\ UNCHANGED vars => LiveInv'
BY DEF LiveInv, LiveOK, Publishing, Overlay, Incoming, vars, moves, slot, data, worker, threads

\* commit, prune, flush_dirty and restore_pending_deltas: what requests read is what
\* the root would hold once the pending deltas are
\* written: no interleaving of commits, prunes, flushes that fail half way and are
\* restored, and of handles opened and dropped, makes the live cache and its files
\* disagree.
THEOREM LiveCacheIsKept == Spec => []LiveCacheIsPersistable
<1>1. Init => LiveInv
  BY InitLive
<1>2. CacheInv /\ LiveInv /\ [Next]_vars => LiveInv'
  BY LiveStep, LiveStutter DEF CacheInv
<1>3. LiveInv => LiveCacheIsPersistable
  BY DEF LiveInv, LiveOK, LiveCacheIsPersistable, Publishing, At
<1>4. QED
  BY <1>1, <1>2, <1>3, CacheHolds, PTL DEF Spec

-----------------------------------------------------------------------------
(* Slots *)

\* The slots of an owner are those of its deltas and of its reservation.
SlotsOK(g) ==
    /\ own[g].slots = Cardinality(Pending(dirty[g])) + Cardinality(Pending(taken[g])) + Reserved(g)
    /\ own[g].slots <= limits.capacity

SlotInv == \A g \in Owners : SlotsOK(g)

\* Deltas are finitely many.
LEMMA PendingSets ==
    /\ \A d : Pending(d) \in SUBSET Keys
    /\ \A d : IsFiniteSet(Pending(d)) /\ Cardinality(Pending(d)) \in Nat
    /\ Cardinality(Pending(NoDeltas)) = 0
<1>1. \A d : Pending(d) \in SUBSET Keys
  BY DEF Pending
<1>2. \A d : IsFiniteSet(Pending(d)) /\ Cardinality(Pending(d)) \in Nat
  BY <1>1, KeySets
<1>3. Pending(NoDeltas) = {}
  BY DEF Pending, NoDeltas
<1>4. QED
  BY <1>1, <1>2, <1>3, FS_EmptySet

\* Only one reservation is not recorded yet.
LEMMA ReservedSlots ==
    ASSUME TypeInv, GuardInv, NEW g \in Owners
    PROVE  /\ ~Recording(g) => Reserved(g) = 0
           /\ \A c \in Threads : pc[c] = "record" /\ fr[c].gen = g =>
                 Reserved(g) = Cardinality(fr[c].batch)
           /\ Reserved(g) \in Nat
<1>1. ASSUME ~Recording(g) PROVE Reserved(g) = 0
  <2>1. {c \in Threads : At(c, "record") /\ fr[c].gen = g} = {}
    BY <1>1 DEF Recording, At
  <2>2. QED
    BY <2>1 DEF Reserved
<1>2. ASSUME NEW c \in Threads, pc[c] = "record", fr[c].gen = g
      PROVE  Reserved(g) = Cardinality(fr[c].batch) /\ Reserved(g) \in Nat
  <2>1. {d \in Threads : At(d, "record") /\ fr[d].gen = g} = {c}
    BY <1>2, InsideAlone DEF At, Inside
  <2>2. (CHOOSE d \in {c} : TRUE) = c
    OBVIOUS
  <2>3. Reserved(g) = Cardinality(fr[c].batch)
    BY <2>1, <2>2 DEF Reserved
  <2>4. fr[c].batch \in SUBSET Keys
    BY DEF TypeInv, ThreadsOK, FrameType
  <2>5. QED
    BY <2>3, <2>4, KeySets
<1>3. QED
  BY <1>1, <1>2 DEF Recording

LEMMA InitSlots == Init => SlotInv
<1> SUFFICES ASSUME Init, NEW g \in Owners PROVE SlotsOK(g)
  BY DEF SlotInv
<1>1. dirty[g] = NoDeltas /\ taken[g] = NoDeltas /\ own[g].slots = 0
  BY DEF Init, Opened, Unopened, Owner
<1>2. Reserved(g) = 0
  <2>1. {c \in Threads : At(c, "record") /\ fr[c].gen = g} = {}
    BY DEF Init, At
  <2>2. QED
    BY <2>1 DEF Reserved
<1>3. limits.capacity \in Nat
  BY CacheOwnerAssumption DEF Init
<1>4. QED
  BY <1>1, <1>2, <1>3, PendingSets DEF SlotsOK

\* A step that touches neither deltas nor slots, and nobody begins or ends to record.
LEMMA SlotsStay ==
    ASSUME SlotInv, UNCHANGED limits, NEW g \in Owners, dirty'[g] = dirty[g], taken'[g] = taken[g],
           own'[g].slots = own[g].slots,
           \A d \in Threads : pc[d] = "record" => fr'[d] = fr[d],
           \A d \in Threads : pc'[d] = "record" <=> pc[d] = "record"
    PROVE  SlotsOK(g)'
<1>1. PICK H : /\ H = {c \in Threads : pc[c] = "record" /\ fr[c].gen = g}
               /\ H = {c \in Threads : pc'[c] = "record" /\ fr'[c].gen = g}
  OBVIOUS
<1>2. PICK x : x = CHOOSE c \in H : TRUE
  OBVIOUS
<1>3. Reserved(g)' = Reserved(g)
  <2>1. CASE H = {}
    <3>1. Reserved(g) = 0
      BY <1>1, <2>1 DEF Reserved, At
    <3>2. Reserved(g)' = 0
      BY <1>1, <2>1 DEF Reserved, At
    <3>3. QED
      BY <3>1, <3>2
  <2>2. CASE H # {}
    <3>1. x \in H
      BY <1>2, <2>2
    <3>2. fr'[x] = fr[x]
      BY <1>1, <3>1
    <3>3. Reserved(g) = Cardinality(fr[x].batch)
      BY <1>1, <1>2, <2>2 DEF Reserved, At
    <3>4. Reserved(g)' = Cardinality(fr'[x].batch)
      BY <1>1, <1>2, <2>2 DEF Reserved, At
    <3>5. QED
      BY <3>2, <3>3, <3>4
  <2>3. QED
    BY <2>1, <2>2
<1>4. QED
  BY <1>3 DEF SlotInv, SlotsOK

\* The reservation after a step.
LEMMA ReservedNext ==
    ASSUME NEW g \in Owners
    PROVE  /\ (\A d \in Threads : ~(pc'[d] = "record" /\ fr'[d].gen = g)) => Reserved(g)' = 0
           /\ \A c \in Threads :
                 (\A d \in Threads : pc'[d] = "record" /\ fr'[d].gen = g <=> d = c) =>
                     Reserved(g)' = Cardinality(fr'[c].batch)
<1>1. PICK H : H = {c \in Threads : pc'[c] = "record" /\ fr'[c].gen = g}
  OBVIOUS
<1>2. ASSUME \A d \in Threads : ~(pc'[d] = "record" /\ fr'[d].gen = g) PROVE Reserved(g)' = 0
  <2>1. H = {}
    BY <1>1, <1>2
  <2>2. QED
    BY <1>1, <2>1 DEF Reserved, At
<1>3. ASSUME NEW c \in Threads, \A d \in Threads : pc'[d] = "record" /\ fr'[d].gen = g <=> d = c
      PROVE  Reserved(g)' = Cardinality(fr'[c].batch)
  <2>1. H = {c}
    BY <1>1, <1>3
  <2>2. PICK x : x = CHOOSE d \in H : TRUE
    OBVIOUS
  <2>3. x = c
    BY <2>1, <2>2
  <2>4. H # {}
    BY <2>1
  <2>5. Reserved(g)' = Cardinality(fr'[x].batch)
    BY <1>1, <2>2, <2>4 DEF Reserved, At
  <2>6. QED
    BY <2>3, <2>5
<1>4. QED
  BY <1>2, <1>3

LEMMA AdmittedSlots ==
    ASSUME TypeInv, GuardInv, SlotInv, UNCHANGED limits, NEW c \in Threads, NEW op,
           NEW g \in Owners, NEW batch \in SUBSET Keys, NEW key, Admitted(c, op, g, batch, key)
    PROVE  SlotInv'
<1>0. ThreadsOK /\ OwnOK
  BY DEF TypeInv
<1>1. /\ pc[c] = "idle" /\ pc'[c] = "record" /\ fr'[c].gen = g /\ fr'[c].batch = batch
      /\ \A d \in Threads : d # c => pc'[d] = pc[d] /\ fr'[d] = fr[d]
  BY <1>0 DEF Admitted, ThreadsOK, NoFrame
<1>2. UNCHANGED <<dirty, taken>> /\ own[g].slots + Cardinality(batch) <= limits.capacity
  BY DEF Admitted, worker, Fits
<1>3. own'[g].slots = own[g].slots + Cardinality(batch) /\ \A h \in Owners : h # g => own'[h] = own[h]
  BY <1>0 DEF Admitted, OwnOK, OwnerType
<1>4. \A d \in Threads : ~(Inside(d) /\ fr[d].gen = g)
  BY CacheOwnerAssumption DEF Admitted, GuardInv
<1>5. Reserved(g) = 0
  BY <1>4, ReservedSlots DEF Recording, Inside
<1>6. Reserved(g)' = Cardinality(batch)
  <2>1. \A d \in Threads : pc'[d] = "record" /\ fr'[d].gen = g <=> d = c
    BY <1>1, <1>4 DEF Inside
  <2>2. QED
    BY <1>1, <2>1, ReservedNext
<1>7. SlotsOK(g)'
  <2>1. SlotsOK(g)
    BY DEF SlotInv
  <2>2. PICK b \in Nat : b = Cardinality(batch)
    BY KeySets
  <2>3. PICK m \in Nat, n \in Nat : m = Cardinality(Pending(dirty[g])) /\ n = Cardinality(Pending(taken[g]))
    BY PendingSets
  <2>4. own[g].slots = m + n
    BY <1>5, <2>1, <2>3 DEF SlotsOK
  <2>5. own'[g].slots = m + n + b
    BY <1>3, <2>2, <2>4
  <2>6. QED
    BY <1>2, <1>3, <1>6, <2>2, <2>3, <2>5 DEF SlotsOK
<1>8. ASSUME NEW h \in Owners, h # g PROVE SlotsOK(h)'
  <2>1. Reserved(h)' = Reserved(h)
    <3>1. CASE Recording(h)
      <4>1. PICK d \in Threads : pc[d] = "record" /\ fr[d].gen = h
        BY <3>1 DEF Recording
      <4>2. d # c
        BY <1>1, <4>1
      <4>3. \A e \in Threads : pc[e] = "record" /\ fr[e].gen = h <=> e = d
        BY <4>1, InsideAlone DEF Inside
      <4>4. \A e \in Threads : pc'[e] = "record" /\ fr'[e].gen = h <=> e = d
        BY <1>1, <1>8, <4>2, <4>3
      <4>5. Reserved(h)' = Cardinality(fr'[d].batch)
        BY <4>4, ReservedNext
      <4>6. QED
        BY <1>1, <4>1, <4>2, <4>5, ReservedSlots
    <3>2. CASE ~Recording(h)
      <4>1. \A e \in Threads : ~(pc'[e] = "record" /\ fr'[e].gen = h)
        BY <1>1, <1>8, <3>2 DEF Recording
      <4>2. QED
        BY <3>2, <4>1, ReservedNext, ReservedSlots
    <3>3. QED
      BY <3>1, <3>2
  <2>2. QED
    BY <1>2, <1>3, <1>8, <2>1 DEF SlotInv, SlotsOK
<1>9. QED
  BY <1>7, <1>8 DEF SlotInv

LEMMA RecordSlots ==
    ASSUME TypeInv, GuardInv, DeltaInv, SlotInv, UNCHANGED limits, NEW c \in Threads, Record(c)
    PROVE  SlotInv'
<1>0. ThreadsOK /\ OwnOK /\ DirtyOK
  BY DEF TypeInv
<1>1. PICK g \in Owners : g = fr[c].gen /\ Inside(c) /\ pc[c] = "record"
  BY InsideOwner DEF Record, At, Inside
<1>2. /\ UNCHANGED taken /\ pc'[c] \in {"idle", "publish"}
      /\ \A d \in Threads : d # c => pc'[d] = pc[d] /\ fr'[d] = fr[d]
      /\ \A h \in Owners : h # g => dirty'[h] = dirty[h]
  BY <1>1, Records
<1>3. PICK batch \in SUBSET Keys : batch = fr[c].batch
  BY <1>0 DEF ThreadsOK, FrameType
<1>4. PICK kept \in SUBSET Keys : kept = {k \in batch : dirty[g][k] = None}
  OBVIOUS
<1>5. PICK b \in Nat, e \in Nat : b = Cardinality(batch) /\ e = Cardinality(kept) /\ e <= b
  <2>1. kept \in SUBSET batch /\ IsFiniteSet(batch)
    BY <1>4, KeySets
  <2>2. QED
    BY <2>1, KeySets, FS_Subset
<1>6. PICK m \in Nat, n \in Nat : m = Cardinality(Pending(dirty[g])) /\ n = Cardinality(Pending(taken[g]))
  BY PendingSets
<1>7. own[g].slots = m + n + b /\ own[g].slots <= limits.capacity
  BY <1>1, <1>3, <1>5, <1>6, ReservedSlots DEF SlotInv, SlotsOK
<1>8. \/ pc'[c] = "idle" /\ dirty' = dirty
         /\ own' = [own EXCEPT ![g].reserving = own[g].reserving - 1, ![g].slots = @ - b]
      \/ pc'[c] = "publish"
         /\ own' = [own EXCEPT ![g].reserving = own[g].reserving - 1, ![g].slots = @ - (b - e)]
  BY <1>0, <1>1, <1>3, <1>4, <1>5 DEF Record, finish_reservation, Return, Goto, ThreadsOK
<1>9. \A h \in Owners : h # g => own'[h] = own[h]
  BY <1>0, <1>8 DEF OwnOK
<1>10. Reserved(g)' = 0
  <2>1. \A d \in Threads : ~(pc'[d] = "record" /\ fr'[d].gen = g)
    BY <1>1, <1>2, InsideAlone DEF Inside
  <2>2. QED
    BY <2>1, ReservedNext
<1>11. SlotsOK(g)'
  <2>1. CASE pc'[c] = "idle"
    <3>1. own' = [own EXCEPT ![g].reserving = own[g].reserving - 1, ![g].slots = @ - b] /\ dirty' = dirty
      BY <1>8, <2>1
    <3>2. own'[g].slots = own[g].slots - b
      BY <1>0, <3>1 DEF OwnOK, OwnerType
    <3>3. own'[g].slots = m + n
      BY <1>7, <3>2
    <3>4. limits.capacity \in Nat
      BY CacheOwnerAssumption DEF TypeInv, LimitsOK
    <3>5. own'[g].slots <= limits.capacity
      BY <1>7, <3>3, <3>4
    <3>6. QED
      BY <1>2, <1>6, <1>10, <3>1, <3>3, <3>5 DEF SlotsOK
  <2>2. CASE pc'[c] = "publish"
    <3>1. own' = [own EXCEPT ![g].reserving = own[g].reserving - 1, ![g].slots = @ - (b - e)]
      BY <1>8, <2>2
    <3>2. own'[g].slots = own[g].slots - (b - e)
      BY <1>0, <3>1 DEF OwnOK, OwnerType
    <3>3. own'[g].slots = m + e + n
      BY <1>7, <3>2
    <3>4. \A k \in Keys : dirty'[g][k] # None <=> dirty[g][k] # None \/ k \in batch
      BY <1>1, <1>3, <2>2, Records, IncomingDelta
    <3>5. Pending(dirty'[g]) = Pending(dirty[g]) \cup kept
      BY <1>4, <3>4 DEF Pending
    <3>6. Pending(dirty[g]) \cap kept = {}
      BY <1>4 DEF Pending
    <3>7. IsFiniteSet(Pending(dirty[g])) /\ IsFiniteSet(kept)
      BY PendingSets, KeySets
    <3>8. Cardinality(Pending(dirty'[g])) = m + e
      BY <1>5, <1>6, <3>5, <3>6, <3>7, FS_Union, FS_EmptySet
    <3>9. limits.capacity \in Nat
      BY CacheOwnerAssumption DEF TypeInv, LimitsOK
    <3>10. own'[g].slots <= limits.capacity
      BY <1>5, <1>7, <3>3, <3>9
    <3>11. QED
      BY <1>2, <1>6, <1>10, <3>3, <3>8, <3>10 DEF SlotsOK
  <2>3. QED
    BY <1>2, <2>1, <2>2
<1>12. ASSUME NEW h \in Owners, h # g PROVE SlotsOK(h)'
  <2>1. Reserved(h)' = Reserved(h)
    <3>1. CASE Recording(h)
      <4>1. PICK d \in Threads : pc[d] = "record" /\ fr[d].gen = h
        BY <3>1 DEF Recording
      <4>2. d # c
        BY <1>1, <1>12, <4>1
      <4>3. \A x \in Threads : pc[x] = "record" /\ fr[x].gen = h <=> x = d
        BY <4>1, InsideAlone DEF Inside
      <4>4. \A x \in Threads : pc'[x] = "record" /\ fr'[x].gen = h <=> x = d
        BY <1>2, <4>2, <4>3
      <4>5. Reserved(h)' = Cardinality(fr'[d].batch)
        BY <4>4, ReservedNext
      <4>6. QED
        BY <1>2, <4>1, <4>2, <4>5, ReservedSlots
    <3>2. CASE ~Recording(h)
      <4>1. \A x \in Threads : ~(pc'[x] = "record" /\ fr'[x].gen = h)
        BY <1>2, <3>2 DEF Recording
      <4>2. QED
        BY <3>2, <4>1, ReservedNext, ReservedSlots
    <3>3. QED
      BY <3>1, <3>2
  <2>2. QED
    BY <1>2, <1>9, <1>12, <2>1 DEF SlotInv, SlotsOK
<1>13. QED
  BY <1>11, <1>12 DEF SlotInv

LEMMA WorkSlots ==
    ASSUME TypeInv, CommandInv, GuardInv, QuietInv, DeltaInv, SlotInv, UNCHANGED limits,
           NEW g \in Owners, Work(g) \/ Die(g)
    PROVE  SlotInv'
<1>0. OwnOK /\ DirtyOK /\ TakenOK
  BY DEF TypeInv
<1>1. Apart(g)
  BY WorkIsApart
<1>2. /\ \A d \in Threads : pc[d] = "record" => fr'[d] = fr[d]
      /\ \A d \in Threads : pc'[d] = "record" <=> pc[d] = "record"
  BY <1>1 DEF Apart
<1>3. ASSUME NEW h \in Owners, h # g PROVE SlotsOK(h)'
  BY <1>1, <1>2, <1>3, SlotsStay DEF Apart
<1>4. Reserved(g)' = Reserved(g)
  <2>1. CASE Recording(g)
    <3>1. PICK d \in Threads : pc[d] = "record" /\ fr[d].gen = g
      BY <2>1 DEF Recording
    <3>2. \A x \in Threads : pc[x] = "record" /\ fr[x].gen = g <=> x = d
      BY <3>1, InsideAlone DEF Inside
    <3>3. \A x \in Threads : pc'[x] = "record" /\ fr'[x].gen = g <=> x = d
      BY <1>2, <3>2
    <3>4. Reserved(g)' = Cardinality(fr'[d].batch)
      BY <3>3, ReservedNext
    <3>5. QED
      BY <1>2, <3>1, <3>4, ReservedSlots
  <2>2. CASE ~Recording(g)
    <3>1. \A x \in Threads : ~(pc'[x] = "record" /\ fr'[x].gen = g)
      BY <1>2, <2>2 DEF Recording
    <3>2. QED
      BY <2>2, <3>1, ReservedNext, ReservedSlots
  <2>3. QED
    BY <2>1, <2>2
<1>5. PICK r \in Nat : r = Reserved(g)
  BY ReservedSlots
<1>6. PICK m \in Nat, n \in Nat : m = Cardinality(Pending(dirty[g])) /\ n = Cardinality(Pending(taken[g]))
  BY PendingSets
<1>7. own[g].slots = m + n + r /\ own[g].slots <= limits.capacity /\ limits.capacity \in Nat
  BY <1>5, <1>6, CacheOwnerAssumption DEF SlotInv, SlotsOK, TypeInv, LimitsOK
<1>8. CASE Poll(g) \/ Receive(g) \/ Checkpoint(g) \/ Flushed(g) \/ Leave(g) \/ Die(g) \/ Exit(g)
  <2>1. dirty'[g] = dirty[g] /\ taken'[g] = taken[g]
    BY <1>8 DEF Poll, Receive, Checkpoint, Flushed, Leave, Die, Exit, data
  <2>2. own' = own \/ \E x : own' = [own EXCEPT ![g].completion = x]
    BY <1>8 DEF Poll, Receive, Checkpoint, Flushed, Leave, Die, Exit
  <2>3. own'[g].slots = own[g].slots
    BY <1>0, <2>2 DEF OwnOK, OwnerType
  <2>4. SlotsOK(g)'
    BY <1>2, <2>1, <2>3, SlotsStay
  <2>5. QED
    BY <1>3, <2>4 DEF SlotInv
<1>9. CASE Take(g)
  <2> DEFINE fresh == {j \in Pending(dirty[g]) : persisted[g][j] < dirty[g][j].rev}
  <2>1. /\ taken' = [taken EXCEPT ![g] = [j \in Keys |-> IF j \in fresh THEN dirty[g][j] ELSE None]]
        /\ dirty' = [dirty EXCEPT ![g] = NoDeltas] /\ wk[g].pc = "take"
        /\ own' = [own EXCEPT ![g].slots = @ - Cardinality(Pending(dirty[g]) \ fresh)]
    BY <1>9 DEF Take
  <2>2. \A k \in Keys : dirty[g][k] # None => persisted[g][k] < dirty[g][k].rev
    BY DEF DeltaInv, DeltaOK, Ordered
  <2>3. fresh = Pending(dirty[g])
    BY <2>2 DEF Pending
  <2>4. Cardinality(Pending(dirty[g]) \ fresh) = 0
    <3>1. Pending(dirty[g]) \ fresh = {}
      BY <2>3
    <3>2. QED
      BY <3>1, FS_EmptySet
  <2>5. own'[g].slots = own[g].slots - Cardinality(Pending(dirty[g]) \ fresh)
    BY <1>0, <2>1 DEF OwnOK, OwnerType
  <2>6. own'[g].slots = m + n + r
    BY <1>7, <2>4, <2>5
  <2>7. Pending(taken'[g]) = Pending(dirty[g])
    <3>1. \A k \in Keys : taken'[g][k] = IF k \in fresh THEN dirty[g][k] ELSE None
      BY <1>0, <2>1 DEF TakenOK
    <3>2. \A k \in Keys : taken'[g][k] # None <=> dirty[g][k] # None
      BY <2>3, <3>1 DEF Pending
    <3>3. QED
      BY <3>2 DEF Pending
  <2>8. dirty'[g] = NoDeltas
    BY <1>0, <2>1 DEF DirtyOK
  <2>9. n = 0
    BY <1>6, <2>1, PendingSets DEF QuietInv, QuietOK
  <2>10. Cardinality(Pending(dirty'[g])) = 0 /\ Cardinality(Pending(taken'[g])) = m
    BY <1>6, <2>7, <2>8, PendingSets
  <2>11. own'[g].slots = 0 + m + r /\ own'[g].slots <= limits.capacity
    BY <1>7, <2>6, <2>9
  <2>12. SlotsOK(g)'
    BY <1>4, <1>5, <2>10, <2>11 DEF SlotsOK
  <2>13. QED
    BY <1>3, <2>12 DEF SlotInv
<1>10. CASE Persist(g)
  <2>1. taken' = [taken EXCEPT ![g] = NoDeltas]
    BY <1>10 DEF Persist
  <2>2. taken'[g] = NoDeltas
    BY <1>0, <2>1 DEF TakenOK
  <2>3. Cardinality(Pending(taken'[g])) = 0
    BY <2>2, PendingSets
  <2>4. CASE own' = [own EXCEPT ![g].slots = @ - Cardinality(Pending(taken[g]))] /\ dirty' = dirty
    <3>1. own'[g].slots = own[g].slots - n
      BY <1>0, <1>6, <2>4 DEF OwnOK, OwnerType
    <3>2. own'[g].slots = m + 0 + r /\ own'[g].slots <= limits.capacity
      BY <1>7, <3>1
    <3>3. SlotsOK(g)'
      BY <1>4, <1>5, <1>6, <2>3, <2>4, <3>2 DEF SlotsOK
    <3>4. QED
      BY <1>3, <3>3 DEF SlotInv
  <2>5. CASE own' = [own EXCEPT ![g].slots = @ - Retired(g)] /\ dirty' = [dirty EXCEPT ![g] = Restored(g)]
    <3>1. PICK i \in Nat : i = Cardinality(Pending(taken[g]) \cap Pending(dirty[g]))
      <4>1. Pending(taken[g]) \cap Pending(dirty[g]) \in SUBSET Keys
        BY DEF Pending
      <4>2. QED
        BY <4>1, KeySets
    <3>2. own'[g].slots = own[g].slots - i
      BY <1>0, <2>5, <3>1 DEF OwnOK, OwnerType, Retired
    <3>3. dirty'[g] = Restored(g)
      BY <1>0, <2>5 DEF DirtyOK
    <3>4. ASSUME NEW k \in Keys
          PROVE  Restored(g)[k] # None <=> taken[g][k] # None \/ dirty[g][k] # None
      BY DEF Restored, Newer
    <3>5. Pending(dirty'[g]) = Pending(taken[g]) \cup Pending(dirty[g])
      BY <3>3, <3>4 DEF Pending
    <3>6. IsFiniteSet(Pending(taken[g])) /\ IsFiniteSet(Pending(dirty[g]))
      BY PendingSets
    <3>7. Cardinality(Pending(taken[g]) \cup Pending(dirty[g])) = n + m - i
      BY <1>6, <3>1, <3>6, FS_Union
    <3>8. own'[g].slots = (n + m - i) + 0 + r /\ own'[g].slots <= limits.capacity
      BY <1>7, <3>2
    <3>9. SlotsOK(g)'
      BY <1>4, <1>5, <2>3, <3>5, <3>7, <3>8 DEF SlotsOK
    <3>10. QED
      BY <1>3, <3>9 DEF SlotInv
  <2>6. QED
    BY <1>10, <2>4, <2>5 DEF Persist
<1>11. QED
  BY <1>8, <1>9, <1>10 DEF Work

LEMMA SlotStep ==
    ASSUME TypeInv, CommandInv, FenceInv, GuardInv, QuietInv, DeltaInv, SlotInv, Next
    PROVE  SlotInv'
<1>0. ThreadsOK /\ OwnOK /\ DirtyOK /\ UNCHANGED limits
  BY DEF TypeInv, Next
<1>1. ASSUME NEW c \in Threads, Outside(c) PROVE SlotInv'
  <2>1. UNCHANGED <<dirty, taken>> /\ pc[c] # "record" /\ pc'[c] # "record"
    BY <1>1 DEF Outside, data, Inside
  <2>2. /\ \A d \in Threads : pc[d] = "record" => fr'[d] = fr[d]
        /\ \A d \in Threads : pc'[d] = "record" <=> pc[d] = "record"
    BY <1>1, <2>1 DEF Outside
  <2>3. ASSUME NEW h \in Owners PROVE SlotsOK(h)'
    BY <1>0, <1>1, <2>1, <2>2, SlotsStay DEF Outside
  <2>4. QED
    BY <2>3 DEF SlotInv
<1>2. ASSUME NEW c \in Threads, Publish(c) PROVE SlotInv'
  <2>1. UNCHANGED <<dirty, taken, own>>
    BY <1>2 DEF Publish, worker
  <2>2. /\ pc[c] = "publish" /\ pc'[c] \in {"flush", "idle"}
        /\ \A d \in Threads : d # c => pc'[d] = pc[d] /\ fr'[d] = fr[d]
    BY <1>0, <1>2 DEF Publish, Return, Goto, ThreadsOK, At
  <2>3. /\ \A d \in Threads : pc[d] = "record" => fr'[d] = fr[d]
        /\ \A d \in Threads : pc'[d] = "record" <=> pc[d] = "record"
    BY <2>2
  <2>4. ASSUME NEW h \in Owners PROVE SlotsOK(h)'
    BY <1>0, <2>1, <2>3, SlotsStay
  <2>5. QED
    BY <2>4 DEF SlotInv
<1>3. ASSUME NEW c \in Threads, OpenVacant(c) PROVE SlotInv'
  <2>1. /\ UNCHANGED <<dirty, taken>> /\ nextGen + 1 \in Owners /\ pc[c] = "open"
        /\ (own' = own \/ own' = [own EXCEPT ![nextGen + 1] = Opened]) /\ Return(c)
    BY <1>3 DEF OpenVacant, At
  <2>2. nextGen \in Nat
    BY CacheOwnerAssumption DEF TypeInv, SlotOK
  <2>3. PICK g \in Owners : g = nextGen + 1 /\ g > nextGen
    BY <2>1, <2>2
  <2>4. \A h \in Owners : h # g => own'[h] = own[h]
    BY <1>0, <2>1, <2>3 DEF OwnOK
  <2>5. ~Recording(g)
    <3>1. \A d \in Threads : fr[d].gen \in Nat /\ fr[d].gen <= nextGen
      BY <1>0, CacheOwnerAssumption DEF ThreadsOK, FrameType, FenceInv, CallerOK
    <3>2. QED
      BY <2>2, <2>3, <3>1 DEF Recording
  <2>6. own[g].slots = 0
    <3>1. dirty[g] = NoDeltas /\ taken[g] = NoDeltas
      BY <2>3 DEF QuietInv, QuietOK
    <3>2. Reserved(g) = 0
      BY <2>5, ReservedSlots
    <3>3. QED
      BY <3>1, <3>2, PendingSets DEF SlotInv, SlotsOK
  <2>7. own'[g].slots = own[g].slots
    BY <1>0, <2>1, <2>3, <2>6 DEF OwnOK, Opened, Owner
  <2>8. /\ \A d \in Threads : pc[d] = "record" => fr'[d] = fr[d]
        /\ \A d \in Threads : pc'[d] = "record" <=> pc[d] = "record"
    BY <2>1, Returns
  <2>9. ASSUME NEW h \in Owners PROVE SlotsOK(h)'
    BY <1>0, <2>1, <2>4, <2>7, <2>8, SlotsStay
  <2>10. QED
    BY <2>9 DEF SlotInv
<1>4. CASE \E c \in Threads : Calls(c) \/ Step(c) \/ FlushExpires(c)
  <2>1. PICK c \in Threads : Calls(c) \/ Step(c) \/ FlushExpires(c)
    BY <1>4
  <2>2. CASE CallCommit(c) \/ CallPrune(c)
    BY <1>0, <1>1, <2>2, Reserves, RejectedIsOutside, AdmittedSlots
  <2>3. CASE Elsewhere(c)
    BY <1>1, <2>3, ElsewhereIsOutside
  <2>4. CASE Record(c)
    BY <1>0, <2>4, RecordSlots
  <2>5. QED
    BY <1>2, <1>3, <2>1, <2>2, <2>3, <2>4 DEF Calls, Step, Elsewhere
<1>5. QED
  BY <1>0, <1>4, WorkSlots DEF Next

LEMMA SlotStutter == SlotInv /\ UNCHANGED vars => SlotInv'
<1> SUFFICES ASSUME SlotInv, UNCHANGED vars, NEW g \in Owners PROVE SlotsOK(g)'
  BY DEF SlotInv
<1>1. UNCHANGED <<limits, dirty, taken, own, pc, fr>>
  BY DEF vars, moves, data, worker, threads
<1>2. QED
  BY <1>1, SlotsStay

\* Handles, reservations and slots are natural numbers: none is given back that was
\* not there.
LEMMA SlotsAreBounded ==
    TypeInv /\ FenceInv /\ GuardInv /\ SlotInv => TypeOK /\ SlotsAccounted
<1> SUFFICES ASSUME TypeInv, FenceInv, GuardInv, SlotInv PROVE TypeOK /\ SlotsAccounted
  OBVIOUS
<1>1. SlotsAccounted
  BY DEF SlotInv, SlotsOK, SlotsAccounted
<1>2. limits.capacity \in Nat
  BY CacheOwnerAssumption DEF TypeInv, LimitsOK
<1>3. ASSUME NEW g \in Owners
      PROVE  /\ own[g].strong \in Nat /\ own[g].reserving \in Nat
             /\ own[g].slots \in 0..limits.capacity
  <2>1. own[g].strong \in Nat
    <3>1. PICK n \in Nat : n = Cardinality(Droppers(g))
      BY DropperSets
    <3>2. own[g].strong = own[g].count + n /\ own[g].count \in Nat
      BY <3>1 DEF FenceInv, OwnerOK, TypeInv, OwnOK, OwnerType
    <3>3. QED
      BY <3>2
  <2>2. own[g].reserving \in Nat
    BY DEF GuardInv
  <2>3. own[g].slots \in 0..limits.capacity
    <3>1. PICK m \in Nat, n \in Nat, r \in Nat :
             /\ m = Cardinality(Pending(dirty[g])) /\ n = Cardinality(Pending(taken[g]))
             /\ r = Reserved(g)
      BY PendingSets, ReservedSlots
    <3>2. own[g].slots = m + n + r /\ own[g].slots <= limits.capacity
      BY <3>1 DEF SlotInv, SlotsOK
    <3>3. QED
      BY <1>2, <3>2
  <2>4. QED
    BY <2>1, <2>2, <2>3
<1>4. own \in [Owners -> [count : Nat, strong : Nat, requested : BOOLEAN, sent : BOOLEAN,
                          reserving : Nat, sender : BOOLEAN, joinable : BOOLEAN, rev : Nat,
                          slots : 0..limits.capacity, completion : {"none", "ok", "error"}]]
  BY <1>3 DEF TypeInv, OwnOK, OwnerType
<1>5. TypeOK
  BY <1>4 DEF TypeOK, TypeInv, SlotOK, MemoryOK, GuardOK, DirtyOK, TakenOK, PersistedOK, DurableOK,
              QueueOK, WorkerOK, ThreadsOK, PhaseType, WorkerType, FrameType
<1>6. QED
  BY <1>1, <1>5

\* reserve_mutation, record_reserved_batch and the worker's pending_slots: the queue,
\* the dirty map and the counters stay within their bounds, and the slots
\* in use are exactly the deltas that are pending, in flight or reserved: what is
\* superseded, restored, rolled back or written gives its slot back once.
THEOREM BoundsHold == Spec => []WithinBounds
<1>1. Init => SlotInv
  BY InitSlots
<1>2. CacheInv /\ SlotInv /\ [Next]_vars => SlotInv'
  BY SlotStep, SlotStutter DEF CacheInv
<1>3. CacheInv /\ SlotInv => WithinBounds
  BY SlotsAreBounded DEF CacheInv, WithinBounds
<1>4. QED
  BY <1>1, <1>2, <1>3, CacheHolds, PTL DEF Spec
=============================================================================
