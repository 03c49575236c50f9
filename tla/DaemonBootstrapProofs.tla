------------------------ MODULE DaemonBootstrapProofs ------------------------
(***************************************************************************)
(* For any number of clients, daemons, writers and maintainers: retention  *)
(* and the daemons exclude each other, a stop that reports success leaves  *)
(* nobody, and the endpoint is the owner's.  Two layers of invariants.     *)
(* LeaseInv says who holds which lock, from the progress of each process:  *)
(* the four lock files carry every exclusion, and the journal of retention *)
(* is seen by no daemon with its lifecycle lease.  CallInv rests on it:    *)
(* the startup lease has one owner, and while no client gives up or is     *)
(* killed that owner waits for the daemon it started, or knows that none   *)
(* runs; so at most one daemon does, and socket and metadata are its own.  *)
(***************************************************************************)
EXTENDS DaemonBootstrap, FiniteSetTheorems, TLAPS

-----------------------------------------------------------------------------
(* Leases *)

DaemonStates == Crashable \cup {"none", "lost", "exited"}

\* A daemon that owns the instance lease, and one that has its lifecycle lease.
Running == Crashable \ {"spawned"}
Leased == Running \ {"locked", "recovering", "recovered"}

ClientStates == {"idle", "lease", "probe", "holding", "observe", "reading", "owner",
                 "starting", "free", "stale", "spawn", "spawned", "request", "gone",
                 "stopped"}

\* A lock: those in E may own it, alone, those in S may share it.
Lock(lock, E, S) ==
    /\ lock \in [ex : SUBSET E, sh : SUBSET S]
    /\ lock.ex = {} \/ lock.sh = {}
    /\ \A p, q \in lock.ex : p = q

\* The leases of everyone but p are the same in two states of a lock.
Kept(lock, next, p) ==
    \A q : q # p => /\ q \in next.ex <=> q \in lock.ex
                    /\ q \in next.sh <=> q \in lock.sh

LocksOK ==
    /\ Lock(startup, Clients, {})
    /\ Lock(instance, Daemons \cup Clients, Maintainers)
    /\ Lock(lifecycle, Daemons \cup Maintainers, Daemons \cup Writers)
    /\ Lock(registry, Daemons, Writers)

DaemonHolds ==
    /\ dpc \in [Daemons -> DaemonStates]
    /\ \A d \in Daemons :
          /\ d \in instance.ex <=> dpc[d] \in Running
          /\ d \in lifecycle.ex <=> dpc[d] = "recovering"
          /\ d \in lifecycle.sh <=> dpc[d] \in Leased

ClientHolds ==
    /\ pc \in [Clients -> ClientStates]
    /\ \A c \in Clients :
          /\ c \in startup.ex <=> pc[c] \notin {"idle", "lease"}
          /\ c \in instance.ex <=> pc[c] = "holding"

OtherHolds ==
    /\ wpc \in [Writers -> {"idle", "writer", "writing"}]
    /\ mpc \in [Maintainers -> {"idle", "admitted", "working"}]
    /\ \A w \in Writers : w \in lifecycle.sh <=> wpc[w] # "idle"
    /\ \A m \in Maintainers :
          /\ m \in lifecycle.ex <=> mpc[m] # "idle"
          /\ m \in instance.sh <=> mpc[m] = "working"

JournalOK == journal => \A d \in Daemons : d \notin lifecycle.sh

LeaseInv == LocksOK /\ DaemonHolds /\ ClientHolds /\ OtherHolds /\ JournalOK

\* The roles are different processes.
LEMMA Roles ==
    /\ \A c \in Clients : c \notin Daemons /\ c \notin Writers /\ c \notin Maintainers
    /\ \A d \in Daemons : d \notin Clients /\ d \notin Writers /\ d \notin Maintainers
    /\ \A w \in Writers : w \notin Clients /\ w \notin Daemons /\ w \notin Maintainers
    /\ \A m \in Maintainers : m \notin Clients /\ m \notin Daemons /\ m \notin Writers
BY DaemonBootstrapAssumption

-----------------------------------------------------------------------------
(* Locks *)

\* lock_shared
LEMMA Shares ==
    ASSUME NEW l, NEW E, NEW S, NEW p \in S, Lock(l, E, S), Sharable(l)
    PROVE  /\ Lock(Shared(l, p), E, S)
           /\ Kept(l, Shared(l, p), p)
           /\ p \in Shared(l, p).sh /\ Shared(l, p).ex = {}
<1>1. Shared(l, p).ex = l.ex /\ Shared(l, p).sh = l.sh \cup {p}
  BY DEF Shared, Lock
<1>2. Shared(l, p) \in [ex : SUBSET E, sh : SUBSET S]
  BY DEF Shared, Lock
<1>3. QED
  BY <1>1, <1>2 DEF Lock, Kept, Sharable

\* lock_exclusive
LEMMA Owns ==
    ASSUME NEW l, NEW E, NEW S, NEW p \in E, Lock(l, E, S), Ownable(l)
    PROVE  /\ Lock(Owned(l, p), E, S)
           /\ Kept(l, Owned(l, p), p)
           /\ Owned(l, p).ex = {p} /\ Owned(l, p).sh = {}
<1>1. Owned(l, p).ex = {p} /\ Owned(l, p).sh = {}
  BY DEF Owned, Lock, Ownable
<1>2. Owned(l, p) \in [ex : SUBSET E, sh : SUBSET S]
  BY DEF Owned, Lock
<1>3. QED
  BY <1>1, <1>2 DEF Lock, Kept, Ownable

\* The lease is dropped.
LEMMA Drops ==
    ASSUME NEW l, NEW E, NEW S, NEW p, Lock(l, E, S)
    PROVE  /\ Lock(Dropped(l, p), E, S)
           /\ Kept(l, Dropped(l, p), p)
           /\ p \notin Dropped(l, p).ex /\ p \notin Dropped(l, p).sh
<1>1. Dropped(l, p).ex = l.ex \ {p} /\ Dropped(l, p).sh = l.sh \ {p}
  BY DEF Dropped
<1>2. Dropped(l, p) \in [ex : SUBSET E, sh : SUBSET S]
  BY DEF Dropped, Lock
<1>3. QED
  BY <1>1, <1>2 DEF Lock, Kept

\* Nothing happens to a lock.
LEMMA Stays == \A l, p : Kept(l, l, p)
BY DEF Kept

-----------------------------------------------------------------------------
(* Steps *)

\* Daemon d goes to x.
LEMMA DaemonMoves ==
    ASSUME LeaseInv, LocksOK', NEW d \in Daemons, NEW x \in DaemonStates,
           dpc' = [dpc EXCEPT ![d] = x],
           Kept(instance, instance', d), Kept(lifecycle, lifecycle', d),
           d \in instance'.ex <=> x \in Running,
           d \in lifecycle'.ex <=> x = "recovering",
           d \in lifecycle'.sh <=> x \in Leased,
           journal' => journal /\ d \notin lifecycle'.sh,
           UNCHANGED <<startup, pc, wpc, mpc>>
    PROVE  LeaseInv'
<1>1. DaemonHolds'
  BY DEF LeaseInv, DaemonHolds, Kept
<1>2. ClientHolds'
  BY Roles DEF LeaseInv, ClientHolds, Kept
<1>3. OtherHolds'
  <2>1. \A w \in Writers : w # d
    BY Roles
  <2>2. \A m \in Maintainers : m # d
    BY Roles
  <2>3. QED
    BY <2>1, <2>2 DEF LeaseInv, OtherHolds, Kept
<1>4. JournalOK'
  BY DEF LeaseInv, JournalOK, Kept
<1>5. QED
  BY <1>1, <1>2, <1>3, <1>4 DEF LeaseInv

\* A step of a daemon that neither takes nor drops the instance and lifecycle leases.
LEMMA DaemonWorks ==
    ASSUME LeaseInv, NEW d \in Daemons,
           \/ Bind(d) \/ PublishRuntime(d) \/ TakeRegistry(d) \/ PublishReady(d)
           \/ MarkReady(d) \/ WithdrawReady(d) \/ CloseListener(d) \/ RemoveSocket(d)
           \/ RemoveRuntime(d) \/ ComponentExits(d) \/ StartupFails(d)
    PROVE  LeaseInv'
<1>1. /\ UNCHANGED <<startup, instance, lifecycle, journal, pc, wpc, mpc>>
      /\ registry' \in {registry, Dropped(registry, d)}
         \/ (Ownable(registry) /\ registry' = Owned(registry, d))
  BY DEF Bind, PublishRuntime, TakeRegistry, PublishReady, MarkReady, WithdrawReady,
         CloseListener, RemoveSocket, RemoveRuntime, ComponentExits, StartupFails, locks,
         files, client
<1>2. dpc[d] \in Leased
      /\ \E x \in Leased : dpc' = [dpc EXCEPT ![d] = x]
  BY DEF Bind, PublishRuntime, TakeRegistry, PublishReady, MarkReady, WithdrawReady,
         CloseListener, RemoveSocket, RemoveRuntime, ComponentExits, StartupFails,
         DaemonGoes, Leased, Running, Crashable
<1>3. LocksOK'
  BY <1>1, Drops, Owns DEF LeaseInv, LocksOK
<1>4. PICK x \in Leased : dpc' = [dpc EXCEPT ![d] = x]
  BY <1>2
<1>5. x \in DaemonStates /\ x \in Running /\ x # "recovering"
  BY DEF Leased, Running, DaemonStates
<1>6. /\ d \in instance.ex /\ d \notin lifecycle.ex /\ d \in lifecycle.sh
  BY <1>2 DEF LeaseInv, DaemonHolds, Leased, Running
<1>7. ~journal
  BY <1>6 DEF LeaseInv, JournalOK
<1>8. QED
  BY <1>1, <1>3, <1>4, <1>5, <1>6, <1>7, Stays, DaemonMoves

\* The daemon ends: Exit and Crash.
LEMMA DaemonEnds ==
    ASSUME LeaseInv, NEW d \in Daemons, Exit(d) \/ Crash(d)
    PROVE  LeaseInv'
<1>1. /\ UNCHANGED <<startup, journal, pc, wpc, mpc>>
      /\ instance' = Dropped(instance, d) /\ lifecycle' = Dropped(lifecycle, d)
      /\ registry' = Dropped(registry, d)
      /\ dpc' = [dpc EXCEPT ![d] = "exited"]
  BY DEF Exit, Crash, Released, DaemonGoes, files, client
<1>2. LocksOK'
  BY <1>1, Drops DEF LeaseInv, LocksOK
<1>3. /\ "exited" \in DaemonStates /\ "exited" \notin Running /\ "exited" \notin Leased
  BY DEF DaemonStates, Running, Leased, Crashable
<1>4. /\ Kept(instance, instance', d) /\ Kept(lifecycle, lifecycle', d)
      /\ d \notin instance'.ex /\ d \notin lifecycle'.ex /\ d \notin lifecycle'.sh
  BY <1>1, Drops DEF LeaseInv, LocksOK
<1>5. QED
  BY <1>1, <1>2, <1>3, <1>4, DaemonMoves

\* acquire_daemon_instance_lease
LEMMA DaemonTakesInstance ==
    ASSUME LeaseInv, NEW d \in Daemons, TakeInstance(d)
    PROVE  LeaseInv'
<1>1. /\ UNCHANGED <<startup, lifecycle, registry, journal, pc, wpc, mpc>>
      /\ dpc[d] = "spawned"
  BY DEF TakeInstance, DaemonGoes, client
<1>2. d \notin instance.ex /\ d \notin lifecycle.ex /\ d \notin lifecycle.sh
  BY <1>1 DEF LeaseInv, DaemonHolds, Running, Leased
<1>3. CASE Ownable(instance)
  <2>1. instance' = Owned(instance, d) /\ dpc' = [dpc EXCEPT ![d] = "locked"]
    BY <1>3 DEF TakeInstance, DaemonGoes
  <2>2. /\ Lock(instance', Daemons \cup Clients, Maintainers)
        /\ Kept(instance, instance', d) /\ d \in instance'.ex
    BY <1>3, <2>1, Owns DEF LeaseInv, LocksOK
  <2>3. LocksOK'
    BY <1>1, <2>2 DEF LeaseInv, LocksOK
  <2>4. "locked" \in DaemonStates /\ "locked" \in Running /\ "locked" \notin Leased
    BY DEF DaemonStates, Running, Leased, Crashable
  <2>5. QED
    BY <1>1, <1>2, <2>1, <2>2, <2>3, <2>4, Stays, DaemonMoves
<1>4. CASE ~Ownable(instance)
  <2>1. instance' = instance /\ dpc' = [dpc EXCEPT ![d] = "lost"]
    BY <1>4 DEF TakeInstance, DaemonGoes
  <2>2. LocksOK'
    BY <1>1, <2>1 DEF LeaseInv, LocksOK
  <2>3. "lost" \in DaemonStates /\ "lost" \notin Running /\ "lost" \notin Leased
    BY DEF DaemonStates, Running, Leased, Crashable
  <2>4. QED
    BY <1>1, <1>2, <2>1, <2>2, <2>3, Stays, DaemonMoves
<1>5. QED
  BY <1>3, <1>4

\* Startup recovery, and the lifecycle lease after it.
LEMMA DaemonRecovers ==
    ASSUME LeaseInv, NEW d \in Daemons,
           TakeRecovery(d) \/ Recover(d) \/ TakeLifecycle(d)
    PROVE  LeaseInv'
<1>0. Lock(lifecycle, Daemons \cup Maintainers, Daemons \cup Writers)
  BY DEF LeaseInv, LocksOK
<1>1. /\ UNCHANGED <<startup, instance, registry, pc, wpc, mpc>>
      /\ dpc[d] \in {"locked", "recovering", "recovered"}
  BY DEF TakeRecovery, Recover, TakeLifecycle, DaemonGoes, client
<1>2. d \in instance.ex /\ d \notin lifecycle.sh
      /\ (dpc[d] # "recovering" => d \notin lifecycle.ex)
  BY <1>1 DEF LeaseInv, DaemonHolds, Running, Leased, Crashable
<1>3. /\ {"locked", "recovering", "recovered", "leased"} \subseteq DaemonStates
      /\ {"locked", "recovering", "recovered", "leased"} \subseteq Running
      /\ "leased" \in Leased
      /\ "locked" \notin Leased /\ "recovering" \notin Leased /\ "recovered" \notin Leased
  BY DEF DaemonStates, Running, Leased, Crashable
<1>4. Lock(lifecycle', Daemons \cup Maintainers, Daemons \cup Writers) => LocksOK'
  BY <1>1 DEF LeaseInv, LocksOK
<1>5. CASE TakeRecovery(d)
  <2>1. /\ lifecycle' = Owned(lifecycle, d) /\ Ownable(lifecycle) /\ journal' = journal
        /\ dpc' = [dpc EXCEPT ![d] = "recovering"]
    BY <1>5 DEF TakeRecovery, DaemonGoes, files
  <2>2. /\ Lock(lifecycle', Daemons \cup Maintainers, Daemons \cup Writers)
        /\ Kept(lifecycle, lifecycle', d)
        /\ lifecycle'.ex = {d} /\ lifecycle'.sh = {}
    BY <1>0, <2>1, Owns
  <2>3. QED
    BY <1>1, <1>2, <1>3, <1>4, <2>1, <2>2, Stays, DaemonMoves
<1>6. CASE Recover(d)
  <2>1. /\ lifecycle' = Dropped(lifecycle, d) /\ journal' = FALSE
        /\ dpc' = [dpc EXCEPT ![d] = "recovered"]
    BY <1>6 DEF Recover, DaemonGoes
  <2>2. /\ Lock(lifecycle', Daemons \cup Maintainers, Daemons \cup Writers)
        /\ Kept(lifecycle, lifecycle', d)
        /\ d \notin lifecycle'.ex /\ d \notin lifecycle'.sh
    BY <1>0, <2>1, Drops
  <2>3. QED
    BY <1>1, <1>2, <1>3, <1>4, <2>1, <2>2, Stays, DaemonMoves
<1>7. CASE TakeLifecycle(d) /\ journal
  <2>1. /\ lifecycle' = lifecycle /\ journal' = journal
        /\ dpc[d] = "recovered" /\ dpc' = [dpc EXCEPT ![d] = "locked"]
    BY <1>7 DEF TakeLifecycle, DaemonGoes, files
  <2>2. QED
    BY <1>0, <1>1, <1>2, <1>3, <1>4, <2>1, Stays, DaemonMoves
<1>8. CASE TakeLifecycle(d) /\ ~journal
  <2>1. /\ lifecycle' = Shared(lifecycle, d) /\ Sharable(lifecycle) /\ journal' = journal
        /\ dpc[d] = "recovered" /\ dpc' = [dpc EXCEPT ![d] = "leased"]
    BY <1>8 DEF TakeLifecycle, DaemonGoes, files
  <2>2. /\ Lock(lifecycle', Daemons \cup Maintainers, Daemons \cup Writers)
        /\ Kept(lifecycle, lifecycle', d)
        /\ lifecycle'.ex = {} /\ d \in lifecycle'.sh
    BY <1>0, <2>1, Shares
  <2>3. QED
    BY <1>1, <1>2, <1>3, <1>4, <1>8, <2>1, <2>2, Stays, DaemonMoves
<1>9. QED
  BY <1>5, <1>6, <1>7, <1>8

\* A client may start a daemon or make one stop, which changes no lease of it.
DaemonsAsked ==
    \/ dpc' = dpc
    \/ \E d \in Daemons :
          \/ dpc[d] = "none" /\ dpc' = [dpc EXCEPT ![d] = "spawned"]
          \/ dpc[d] = "serving" /\ dpc' = [dpc EXCEPT ![d] = "stopping"]

\* Client c goes to x.
LEMMA ClientMoves ==
    ASSUME LeaseInv, LocksOK', NEW c \in Clients, NEW x \in ClientStates,
           pc' = [pc EXCEPT ![c] = x], DaemonsAsked,
           Kept(startup, startup', c), Kept(instance, instance', c),
           c \in startup'.ex <=> x \notin {"idle", "lease"},
           c \in instance'.ex <=> x = "holding",
           UNCHANGED <<lifecycle, journal, wpc, mpc>>
    PROVE  LeaseInv'
<1>1. ClientHolds'
  BY DEF LeaseInv, ClientHolds, Kept
<1>2. DaemonHolds'
  <2>1. \A d \in Daemons : d # c
    BY Roles
  <2>2. CASE dpc' = dpc
    BY <2>1, <2>2 DEF LeaseInv, DaemonHolds, Kept
  <2>3. ASSUME NEW d \in Daemons, NEW y \in DaemonStates,
               dpc' = [dpc EXCEPT ![d] = y],
               y \in Running <=> dpc[d] \in Running,
               y \in Leased <=> dpc[d] \in Leased,
               y # "recovering", dpc[d] # "recovering"
        PROVE  DaemonHolds'
    BY <2>1, <2>3 DEF LeaseInv, DaemonHolds, Kept
  <2>4. /\ "spawned" \in DaemonStates /\ "spawned" \notin Running
        /\ "spawned" \notin Leased /\ "none" \notin Running /\ "none" \notin Leased
        /\ "stopping" \in DaemonStates /\ "stopping" \in Running
        /\ "stopping" \in Leased /\ "serving" \in Running /\ "serving" \in Leased
    BY DEF DaemonStates, Running, Leased, Crashable
  <2>5. QED
    BY <2>2, <2>3, <2>4 DEF DaemonsAsked
<1>3. OtherHolds'
  BY Roles DEF LeaseInv, OtherHolds, Kept
<1>4. JournalOK'
  BY DEF LeaseInv, JournalOK
<1>5. QED
  BY <1>1, <1>2, <1>3, <1>4 DEF LeaseInv

\* What a client that moves from one state to the next has.
LEMMA ClientHas ==
    ASSUME LeaseInv, NEW c \in Clients
    PROVE  /\ c \in startup.ex <=> pc[c] \notin {"idle", "lease"}
           /\ c \in instance.ex <=> pc[c] = "holding"
           /\ pc[c] \in ClientStates
           /\ pc = [pc EXCEPT ![c] = pc[c]]
           /\ Lock(startup, Clients, {})
           /\ Lock(instance, Daemons \cup Clients, Maintainers)
BY DEF LeaseInv, ClientHolds, LocksOK

\* A step of a client inside its call that takes and drops no lease.
LEMMA ClientWorks ==
    ASSUME LeaseInv, NEW c \in Clients, NEW x \in ClientStates,
           pc[c] \notin {"idle", "lease", "holding"},
           x \notin {"idle", "lease", "holding"},
           pc' = [pc EXCEPT ![c] = x], DaemonsAsked,
           UNCHANGED <<locks, journal, wpc, mpc>>
    PROVE  LeaseInv'
<1>1. UNCHANGED <<startup, instance, lifecycle, registry>>
  BY DEF locks
<1>2. LocksOK'
  BY <1>1 DEF LeaseInv, LocksOK
<1>3. QED
  BY <1>1, <1>2, ClientHas, ClientMoves, Stays

\* The end of a call.
LEMMA ClientEnds ==
    ASSUME LeaseInv, NEW c \in Clients, NEW outcome, Finish(c, outcome),
           instance' = Dropped(instance, c) \/ (instance' = instance /\ pc[c] # "holding"),
           UNCHANGED <<lifecycle, registry, journal, dpc, wpc, mpc>>
    PROVE  LeaseInv'
<1>1. /\ pc' = [pc EXCEPT ![c] = "idle"] /\ startup' = Dropped(startup, c)
      /\ "idle" \in ClientStates /\ DaemonsAsked
  BY DEF Finish, ClientStates, DaemonsAsked
<1>2. /\ Lock(startup', Clients, {}) /\ Kept(startup, startup', c)
      /\ c \notin startup'.ex
  BY <1>1, Drops, ClientHas
<1>3. /\ Lock(instance', Daemons \cup Clients, Maintainers)
      /\ Kept(instance, instance', c) /\ c \notin instance'.ex
  <2>1. CASE instance' = Dropped(instance, c)
    BY <2>1, Drops, ClientHas
  <2>2. CASE instance' = instance /\ pc[c] # "holding"
    BY <2>2, Stays, ClientHas
  <2>3. QED
    BY <2>1, <2>2
<1>4. LocksOK'
  BY <1>2, <1>3 DEF LeaseInv, LocksOK
<1>5. QED
  BY <1>1, <1>2, <1>3, <1>4, ClientMoves

\* A call begins; it has no lease yet.
LEMMA ClientCalls ==
    ASSUME LeaseInv, NEW c \in Clients, NEW k, Call(c, k)
    PROVE  LeaseInv'
<1>1. /\ UNCHANGED <<startup, instance, lifecycle, registry, journal, dpc, wpc, mpc>>
      /\ pc[c] = "idle"
  BY DEF Call, ClientGoes, locks, files
<1>2. PICK x \in {"idle", "lease"} : pc' = [pc EXCEPT ![c] = x]
  BY <1>1, ClientHas DEF Call, ClientGoes
<1>3. LocksOK' /\ DaemonsAsked /\ x \in ClientStates
  BY <1>1 DEF LeaseInv, LocksOK, DaemonsAsked, ClientStates
<1>4. QED
  BY <1>1, <1>2, <1>3, ClientHas, ClientMoves, Stays

\* acquire_startup_lease
LEMMA ClientTakesStartup ==
    ASSUME LeaseInv, NEW c \in Clients, TakeStartup(c)
    PROVE  LeaseInv'
<1>1. /\ UNCHANGED <<instance, lifecycle, registry, journal, dpc, wpc, mpc>>
      /\ Ownable(startup) /\ startup' = Owned(startup, c) /\ pc[c] = "lease"
  BY DEF TakeStartup, ClientGoes, files
<1>2. PICK x \in {"probe", "request"} : pc' = [pc EXCEPT ![c] = x]
  BY DEF TakeStartup, ClientGoes
<1>3. /\ Lock(startup', Clients, {}) /\ Kept(startup, startup', c) /\ c \in startup'.ex
  BY <1>1, Owns, ClientHas
<1>4. LocksOK' /\ DaemonsAsked /\ x \in ClientStates
  BY <1>1, <1>3 DEF LeaseInv, LocksOK, DaemonsAsked, ClientStates
<1>5. QED
  BY <1>1, <1>2, <1>3, <1>4, ClientHas, ClientMoves, Stays

\* daemon_instance_released
LEMMA ClientProbes ==
    ASSUME LeaseInv, NEW c \in Clients, Probe(c) \/ EndProbe(c)
    PROVE  LeaseInv'
<1>1. /\ UNCHANGED <<startup, lifecycle, registry, journal, dpc, wpc, mpc>>
      /\ DaemonsAsked
  BY DEF Probe, EndProbe, files, DaemonsAsked
<1>2. Lock(instance', Daemons \cup Clients, Maintainers) => LocksOK'
  BY <1>1 DEF LeaseInv, LocksOK
<1>3. CASE Probe(c) /\ Ownable(instance)
  <2>1. /\ pc[c] = "probe" /\ pc' = [pc EXCEPT ![c] = "holding"]
        /\ instance' = Owned(instance, c)
    BY <1>3 DEF Probe, ClientGoes
  <2>2. /\ Lock(instance', Daemons \cup Clients, Maintainers)
        /\ Kept(instance, instance', c) /\ c \in instance'.ex
    <3>1. Lock(instance, Daemons \cup Clients, Maintainers) /\ c \in Daemons \cup Clients
      BY ClientHas
    <3>2. QED
      BY <1>3, <2>1, <3>1, Owns
  <2>3. QED
    BY <1>1, <1>2, <2>1, <2>2, ClientHas, ClientMoves, Stays DEF ClientStates
<1>4. CASE Probe(c) /\ ~Ownable(instance)
  <2>1. /\ pc[c] = "probe" /\ instance' = instance
        /\ \E x \in {"observe", "starting", "probe"} : pc' = [pc EXCEPT ![c] = x]
    BY <1>4 DEF Probe, ClientGoes
  <2>2. UNCHANGED locks
    BY <1>1, <2>1 DEF locks
  <2>3. QED
    BY <1>1, <2>1, <2>2, ClientWorks DEF ClientStates
<1>5. CASE EndProbe(c)
  <2>1. /\ pc[c] = "holding" /\ instance' = Dropped(instance, c)
        /\ \E x \in {"gone", "free"} : pc' = [pc EXCEPT ![c] = x]
    BY <1>5 DEF EndProbe, ClientGoes
  <2>2. /\ Lock(instance', Daemons \cup Clients, Maintainers)
        /\ Kept(instance, instance', c) /\ c \notin instance'.ex
    BY <2>1, Drops, ClientHas
  <2>3. QED
    BY <1>1, <1>2, <2>1, <2>2, ClientHas, ClientMoves, Stays DEF ClientStates
<1>6. QED
  BY <1>3, <1>4, <1>5

\* The other steps of a client.
LEMMA ClientGoesOn ==
    ASSUME LeaseInv, NEW c \in Clients,
           \/ OpenRuntime(c) \/ ReadRuntime(c) \/ ClassifyOwner(c) \/ AwaitStartup(c)
           \/ CheckEndpoint(c) \/ CleanEndpoint(c) \/ Spawn(c) \/ AwaitSpawned(c)
           \/ RequestStop(c) \/ StopRefused(c) \/ AwaitGone(c) \/ Stopped(c)
           \/ TimesOut(c) \/ KillClient(c)
    PROVE  LeaseInv'
<1>1. CASE \/ OpenRuntime(c) \/ CheckEndpoint(c) \/ CleanEndpoint(c) \/ Spawn(c)
           \/ RequestStop(c) \/ AwaitGone(c)
  <2>1. UNCHANGED <<locks, journal, wpc, mpc>>
    BY <1>1 DEF OpenRuntime, CheckEndpoint, CleanEndpoint, Spawn, RequestStop, AwaitGone,
                files
  <2>2. DaemonsAsked
    BY <1>1 DEF OpenRuntime, CheckEndpoint, CleanEndpoint, Spawn, RequestStop, AwaitGone,
                Fresh, Answers, DaemonsAsked
  <2>3. /\ pc[c] \in {"observe", "free", "stale", "spawn", "request", "gone"}
        /\ \E x \in {"probe", "reading", "stale", "spawn", "spawned", "stopped"} :
              pc' = [pc EXCEPT ![c] = x]
    BY <1>1 DEF OpenRuntime, CheckEndpoint, CleanEndpoint, Spawn, RequestStop, AwaitGone,
                ClientGoes
  <2>4. QED
    BY <2>1, <2>2, <2>3, ClientWorks DEF ClientStates
<1>2. CASE \/ ReadRuntime(c) \/ ClassifyOwner(c) \/ AwaitStartup(c)
  <2>1. /\ UNCHANGED <<instance, lifecycle, registry, journal, dpc, wpc, mpc>>
        /\ pc[c] \in {"reading", "owner", "starting"}
    BY <1>2 DEF ReadRuntime, ClassifyOwner, AwaitStartup, files
  <2>2. \/ \E outcome \in {"unreadable", "ok"} : Finish(c, outcome)
        \/ /\ startup' = startup
           /\ \E x \in {"probe", "owner", "starting"} : pc' = [pc EXCEPT ![c] = x]
    BY <1>2 DEF ReadRuntime, ClassifyOwner, AwaitStartup
  <2>3. CASE \E outcome \in {"unreadable", "ok"} : Finish(c, outcome)
    BY <2>1, <2>3, ClientEnds
  <2>4. CASE /\ startup' = startup
             /\ \E x \in {"probe", "owner", "starting"} : pc' = [pc EXCEPT ![c] = x]
    <3>1. UNCHANGED locks /\ DaemonsAsked
      BY <2>1, <2>4 DEF locks, DaemonsAsked
    <3>2. QED
      BY <2>1, <2>4, <3>1, ClientWorks DEF ClientStates
  <2>5. QED
    BY <2>2, <2>3, <2>4
<1>3. CASE AwaitSpawned(c) \/ StopRefused(c) \/ Stopped(c) \/ TimesOut(c)
  <2>1. /\ UNCHANGED <<instance, lifecycle, registry, journal, dpc, wpc, mpc>>
        /\ pc[c] \in {"spawned", "request", "stopped", "probe", "starting"}
        /\ \E outcome \in {"failed", "ok"} : Finish(c, outcome)
    BY <1>3 DEF AwaitSpawned, StopRefused, Stopped, TimesOut, files
  <2>2. QED
    BY <2>1, ClientEnds
<1>4. CASE KillClient(c)
  <2>1. /\ UNCHANGED <<lifecycle, registry, journal, dpc, wpc, mpc>>
        /\ instance' = Dropped(instance, c) /\ Finish(c, None)
    BY <1>4 DEF KillClient, files
  <2>2. QED
    BY <2>1, ClientEnds
<1>5. QED
  BY <1>1, <1>2, <1>3, <1>4

\* Writer w goes to x.
LEMMA WriterMoves ==
    ASSUME LeaseInv, LocksOK', NEW w \in Writers, NEW x \in {"idle", "writer", "writing"},
           wpc' = [wpc EXCEPT ![w] = x],
           Kept(lifecycle, lifecycle', w),
           w \in lifecycle'.sh <=> x # "idle",
           UNCHANGED <<startup, instance, journal, dpc, pc, mpc>>
    PROVE  LeaseInv'
<1>1. DaemonHolds'
  BY Roles DEF LeaseInv, DaemonHolds, Kept
<1>2. ClientHolds'
  BY DEF LeaseInv, ClientHolds
<1>3. OtherHolds'
  <2>1. \A m \in Maintainers : m # w
    BY Roles
  <2>2. QED
    BY <2>1 DEF LeaseInv, OtherHolds, Kept
<1>4. JournalOK'
  <2>1. \A d \in Daemons : d # w
    BY Roles
  <2>2. QED
    BY <2>1 DEF LeaseInv, JournalOK, Kept
<1>5. QED
  BY <1>1, <1>2, <1>3, <1>4 DEF LeaseInv

\* Maintainer m goes to x.
LEMMA MaintainerMoves ==
    ASSUME LeaseInv, LocksOK', NEW m \in Maintainers,
           NEW x \in {"idle", "admitted", "working"},
           mpc' = [mpc EXCEPT ![m] = x],
           Kept(instance, instance', m), Kept(lifecycle, lifecycle', m),
           m \in lifecycle'.ex <=> x # "idle",
           m \in instance'.sh <=> x = "working",
           journal' => journal \/ lifecycle'.sh = {},
           UNCHANGED <<startup, dpc, pc, wpc>>
    PROVE  LeaseInv'
<1>1. DaemonHolds'
  <2>1. \A d \in Daemons : d # m
    BY Roles
  <2>2. QED
    BY <2>1 DEF LeaseInv, DaemonHolds, Kept
<1>2. ClientHolds'
  <2>1. \A c \in Clients : c # m
    BY Roles
  <2>2. QED
    BY <2>1 DEF LeaseInv, ClientHolds, Kept
<1>3. OtherHolds'
  <2>1. \A w \in Writers : w # m
    BY Roles
  <2>2. QED
    BY <2>1 DEF LeaseInv, OtherHolds, Kept
<1>4. JournalOK'
  <2>1. \A d \in Daemons : d # m
    BY Roles
  <2>2. QED
    BY <2>1 DEF LeaseInv, JournalOK, Kept
<1>5. QED
  BY <1>1, <1>2, <1>3, <1>4 DEF LeaseInv

\* The steps of a writer.
LEMMA WriterSteps ==
    ASSUME LeaseInv, NEW w \in Writers, TakeWriter(w) \/ TakeAdmission(w) \/ DropWriter(w)
    PROVE  LeaseInv'
<1>1. /\ UNCHANGED <<startup, instance, journal, dpc, pc, mpc>>
  BY DEF TakeWriter, TakeAdmission, DropWriter, files, client
<1>2. /\ Lock(lifecycle, Daemons \cup Maintainers, Daemons \cup Writers)
      /\ Lock(registry, Daemons, Writers) /\ w \in Daemons \cup Writers
      /\ w \in lifecycle.sh <=> wpc[w] # "idle"
  BY DEF LeaseInv, LocksOK, OtherHolds
<1>3. ASSUME Lock(lifecycle', Daemons \cup Maintainers, Daemons \cup Writers),
             Lock(registry', Daemons, Writers)
      PROVE  LocksOK'
  BY <1>1, <1>3 DEF LeaseInv, LocksOK
<1>4. CASE TakeWriter(w)
  <2>1. /\ Sharable(lifecycle) /\ lifecycle' = Shared(lifecycle, w) /\ registry' = registry
        /\ wpc' = [wpc EXCEPT ![w] = "writer"]
    BY <1>4 DEF TakeWriter, WriterGoes
  <2>2. /\ Lock(lifecycle', Daemons \cup Maintainers, Daemons \cup Writers)
        /\ Kept(lifecycle, lifecycle', w) /\ w \in lifecycle'.sh
    BY <1>2, <2>1, Shares
  <2>3. QED
    BY <1>1, <1>2, <1>3, <2>1, <2>2, WriterMoves
<1>5. CASE TakeAdmission(w)
  <2>1. /\ Sharable(registry) /\ lifecycle' = lifecycle /\ registry' = Shared(registry, w)
        /\ wpc[w] = "writer" /\ wpc' = [wpc EXCEPT ![w] = "writing"]
    BY <1>5 DEF TakeAdmission, WriterGoes
  <2>2. Lock(registry', Daemons, Writers)
    BY <1>2, <2>1, Shares
  <2>3. QED
    BY <1>1, <1>2, <1>3, <2>1, <2>2, Stays, WriterMoves
<1>6. CASE DropWriter(w)
  <2>1. /\ lifecycle' = Dropped(lifecycle, w) /\ registry' = Dropped(registry, w)
        /\ wpc' = [wpc EXCEPT ![w] = "idle"]
    BY <1>6 DEF DropWriter, WriterGoes
  <2>2. /\ Lock(lifecycle', Daemons \cup Maintainers, Daemons \cup Writers)
        /\ Kept(lifecycle, lifecycle', w) /\ w \notin lifecycle'.sh
    BY <1>2, <2>1, Drops
  <2>3. Lock(registry', Daemons, Writers)
    BY <1>2, <2>1, Drops
  <2>4. QED
    BY <1>1, <1>3, <2>1, <2>2, <2>3, WriterMoves
<1>7. QED
  BY <1>4, <1>5, <1>6

\* The steps of retention.
LEMMA MaintainerSteps ==
    ASSUME LeaseInv, NEW m \in Maintainers,
           TakeRetention(m) \/ TakeGate(m) \/ Apply(m) \/ KillMaintainer(m)
    PROVE  LeaseInv'
<1>1. UNCHANGED <<startup, registry, dpc, pc, wpc>>
  BY DEF TakeRetention, TakeGate, Apply, KillMaintainer, client
<1>2. /\ Lock(lifecycle, Daemons \cup Maintainers, Daemons \cup Writers)
      /\ Lock(instance, Daemons \cup Clients, Maintainers)
      /\ m \in Daemons \cup Maintainers
      /\ m \in lifecycle.ex <=> mpc[m] # "idle"
      /\ m \in instance.sh <=> mpc[m] = "working"
  BY DEF LeaseInv, LocksOK, OtherHolds
<1>3. ASSUME Lock(lifecycle', Daemons \cup Maintainers, Daemons \cup Writers),
             Lock(instance', Daemons \cup Clients, Maintainers)
      PROVE  LocksOK'
  BY <1>1, <1>3 DEF LeaseInv, LocksOK
<1>4. CASE TakeRetention(m)
  <2>1. /\ Ownable(lifecycle) /\ lifecycle' = Owned(lifecycle, m) /\ instance' = instance
        /\ mpc[m] = "idle" /\ mpc' = [mpc EXCEPT ![m] = "admitted"] /\ journal' = journal
    BY <1>4 DEF TakeRetention, MaintainerGoes, files
  <2>2. /\ Lock(lifecycle', Daemons \cup Maintainers, Daemons \cup Writers)
        /\ Kept(lifecycle, lifecycle', m) /\ m \in lifecycle'.ex
    BY <1>2, <2>1, Owns
  <2>3. QED
    BY <1>1, <1>2, <1>3, <2>1, <2>2, Stays, MaintainerMoves
<1>5. CASE TakeGate(m) /\ GateOpen /\ ~marker
  <2>1. /\ Sharable(instance) /\ instance' = Shared(instance, m) /\ lifecycle' = lifecycle
        /\ mpc[m] = "admitted" /\ mpc' = [mpc EXCEPT ![m] = "working"]
    BY <1>5 DEF TakeGate, GateOpen, MaintainerGoes
  <2>2. /\ Lock(instance', Daemons \cup Clients, Maintainers)
        /\ Kept(instance, instance', m) /\ m \in instance'.sh
    BY <1>2, <2>1, Shares
  <2>3. m \in lifecycle'.ex /\ lifecycle'.sh = {}
    BY <1>2, <2>1 DEF Lock
  <2>4. QED
    BY <1>1, <1>2, <1>3, <2>1, <2>2, <2>3, Stays, MaintainerMoves
<1>6. CASE TakeGate(m) /\ ~(GateOpen /\ ~marker)
  <2>1. /\ lifecycle' = Dropped(lifecycle, m) /\ instance' = instance
        /\ mpc[m] = "admitted" /\ mpc' = [mpc EXCEPT ![m] = "idle"] /\ journal' = journal
    BY <1>6 DEF TakeGate, Refused, MaintainerGoes
  <2>2. /\ Lock(lifecycle', Daemons \cup Maintainers, Daemons \cup Writers)
        /\ Kept(lifecycle, lifecycle', m) /\ m \notin lifecycle'.ex
    BY <1>2, <2>1, Drops
  <2>3. QED
    BY <1>1, <1>2, <1>3, <2>1, <2>2, Stays, MaintainerMoves
<1>7. CASE Apply(m) \/ KillMaintainer(m)
  <2>1. /\ lifecycle' = Dropped(lifecycle, m) /\ instance' = Dropped(instance, m)
        /\ mpc' = [mpc EXCEPT ![m] = "idle"] /\ (journal' => journal)
    BY <1>7 DEF Apply, KillMaintainer, MaintainerGoes, files
  <2>2. /\ Lock(lifecycle', Daemons \cup Maintainers, Daemons \cup Writers)
        /\ Kept(lifecycle, lifecycle', m) /\ m \notin lifecycle'.ex
    BY <1>2, <2>1, Drops
  <2>3. /\ Lock(instance', Daemons \cup Clients, Maintainers)
        /\ Kept(instance, instance', m) /\ m \notin instance'.sh
    BY <1>2, <2>1, Drops
  <2>4. QED
    BY <1>1, <1>3, <2>1, <2>2, <2>3, MaintainerMoves
<1>8. QED
  BY <1>4, <1>5, <1>6, <1>7

\* Nothing happens.
LEMMA LeaseInvStutters ==
    ASSUME LeaseInv, UNCHANGED vars
    PROVE  LeaseInv'
<1>1. UNCHANGED <<startup, instance, lifecycle, registry, journal, dpc, pc, wpc, mpc>>
  BY DEF vars, moves, locks, files, client
<1>2. QED
  BY <1>1 DEF LeaseInv, LocksOK, DaemonHolds, ClientHolds, OtherHolds, JournalOK

\* At first all locks are free.
LEMMA LeaseInvInit == Init => LeaseInv
<1> SUFFICES ASSUME Init PROVE LeaseInv
  OBVIOUS
<1>2. ASSUME NEW E, NEW S
      PROVE  Lock(Free, E, S)
  BY DEF Lock, Free
<1>3. Free.ex = {} /\ Free.sh = {}
  BY DEF Free
<1>4. LocksOK
  BY <1>2 DEF Init, LocksOK
<1>5. DaemonHolds
  BY <1>3 DEF Init, DaemonHolds, DaemonStates, Running, Leased, Crashable
<1>6. ClientHolds
  BY <1>3 DEF Init, ClientHolds, ClientStates
<1>7. OtherHolds /\ JournalOK
  BY <1>3 DEF Init, OtherHolds, JournalOK
<1>8. QED
  BY <1>4, <1>5, <1>6, <1>7 DEF LeaseInv

\* No step breaks what the leases promise.
LEMMA LeaseInvStep == LeaseInv /\ [Next]_vars => LeaseInv'
<1> SUFFICES ASSUME LeaseInv, [Next]_vars PROVE LeaseInv'
  OBVIOUS
<1>2. CASE UNCHANGED vars
  BY <1>2, LeaseInvStutters
<1>3. ASSUME NEW d \in Daemons,
             DaemonStep(d) \/ Crash(d) \/ ComponentExits(d) \/ StartupFails(d)
      PROVE  LeaseInv'
  BY <1>3, DaemonWorks, DaemonEnds, DaemonTakesInstance, DaemonRecovers DEF DaemonStep
<1>4. ASSUME NEW c \in Clients, ClientStep(c) \/ TimesOut(c) \/ KillClient(c)
      PROVE  LeaseInv'
  BY <1>4, ClientTakesStartup, ClientProbes, ClientGoesOn DEF ClientStep
<1>5. ASSUME NEW c \in Clients, NEW k \in Commands, Call(c, k)
      PROVE  LeaseInv'
  BY <1>5, ClientCalls
<1>6. ASSUME NEW p, OtherStep(p)
      PROVE  LeaseInv'
  BY <1>6, WriterSteps, MaintainerSteps DEF OtherStep
<1>7. ASSUME NEW m \in Maintainers, KillMaintainer(m)
      PROVE  LeaseInv'
  BY <1>7, MaintainerSteps
<1>8. QED
  BY <1>2, <1>3, <1>4, <1>5, <1>6, <1>7 DEF Next

\* In every state the leases are held as they should be.
LEMMA LeasesHold == Spec => []LeaseInv
BY LeaseInvInit, LeaseInvStep, PTL DEF Spec

\* RetentionIsApart: for any number of processes, while retention works no daemon owns
\* the workspace and no writer is inside, and a daemon that has its lifecycle lease never
\* works on a half-applied retention.
THEOREM RetentionExcludesDaemons == Spec => []RetentionIsApart
<1>1. ASSUME LeaseInv PROVE RetentionIsApart
  <2>1. MaintenanceIsAlone
    <3>1. SUFFICES ASSUME NEW m \in Maintainers, mpc[m] = "working"
                   PROVE  Owners = {} /\ \A w \in Writers : wpc[w] = "idle"
      BY DEF MaintenanceIsAlone
    <3>2. m \in instance.sh /\ m \in lifecycle.ex
      BY <1>1, <3>1 DEF LeaseInv, OtherHolds
    <3>3. instance.ex = {} /\ lifecycle.sh = {}
      BY <1>1, <3>2 DEF LeaseInv, LocksOK, Lock
    <3>4. QED
      BY <1>1, <3>3 DEF Owners, LeaseInv, OtherHolds
  <2>2. DaemonLoadsRecovered
    BY <1>1 DEF LeaseInv, JournalOK, DaemonLoadsRecovered
  <2>3. QED
    BY <2>1, <2>2 DEF RetentionIsApart
<1>2. QED
  BY <1>1, LeasesHold, PTL

-----------------------------------------------------------------------------
(* Files, listeners and bounds *)

\* A daemon that comes up, one that has bound its socket and keeps it, and one whose
\* listener may be open.
Starting == {"spawned", "locked", "recovering", "recovered", "leased", "bound", "published",
             "loaded", "marking"}
Bound == {"bound", "published", "loaded", "marking", "serving", "stopping", "withdrawn"}
Open == Bound \cup {"closed", "cleaning", "cleaned"}

Metadata == [pid : Daemons, ready : BOOLEAN]
Outcomes == {None, "ok", "failed", "unreadable"}

FilesOK ==
    /\ sock \in Daemons \cup {None}
    /\ runtime \in Metadata \cup {None}
    /\ marker \in BOOLEAN /\ journal \in BOOLEAN

ListenersOK ==
    /\ listening \subseteq Daemons
    /\ \A d \in listening : dpc[d] \in Open

CallsOK == DOMAIN target = Clients /\ result \in [Clients -> Outcomes]

BoundsOK ==
    /\ limits \in Scenarios
    /\ timeouts \in Nat /\ kills \in Nat
    /\ \A m \in Maintainers : mpc[m] # "idle" => m \in limits.parties

FileInv == FilesOK /\ ListenersOK /\ CallsOK /\ BoundsOK

\* Metadata is there.
LEMMA MetadataIsThere ==
    ASSUME NEW d \in Daemons, NEW r \in BOOLEAN
    PROVE  /\ [pid |-> d, ready |-> r] \in Metadata
           /\ [pid |-> d, ready |-> r] # None
           /\ [pid |-> d, ready |-> r].pid = d
BY DaemonBootstrapAssumption DEF Metadata

\* At first nothing is there.
LEMMA FileInvInit == Init => FileInv
<1> SUFFICES ASSUME Init PROVE FileInv
  OBVIOUS
<1>1. FilesOK /\ ListenersOK
  BY DEF Init, FilesOK, ListenersOK
<1>2. CallsOK /\ BoundsOK
  BY DEF Init, CallsOK, Outcomes, BoundsOK
<1>3. QED
  BY <1>1, <1>2 DEF FileInv

\* What a step of daemon d may change of the files.
LEMMA DaemonFiles ==
    ASSUME LeaseInv, FileInv, NEW d \in Daemons, UNCHANGED limits,
           DaemonStep(d) \/ Crash(d) \/ ComponentExits(d) \/ StartupFails(d)
    PROVE  FileInv'
<1>1. /\ UNCHANGED <<timeouts, kills, mpc, target, result>>
  BY DEF DaemonStep, TakeInstance, TakeRecovery, Recover, TakeLifecycle, Bind, PublishRuntime,
         TakeRegistry, PublishReady, MarkReady, WithdrawReady, CloseListener, RemoveSocket,
         RemoveRuntime, Exit, Crash, ComponentExits, StartupFails, client, bounds
<1>2. CallsOK' /\ BoundsOK'
  BY <1>1 DEF FileInv, CallsOK, BoundsOK
<1>3. FilesOK'
  <2>1. \/ UNCHANGED sock \/ sock' = d \/ sock' = None
    BY DEF DaemonStep, TakeInstance, TakeRecovery, Recover, TakeLifecycle, Bind,
           PublishRuntime, TakeRegistry, PublishReady, MarkReady, WithdrawReady,
           CloseListener, RemoveSocket, RemoveRuntime, Exit, Crash, ComponentExits,
           StartupFails, files
  <2>2. \/ UNCHANGED runtime \/ runtime' = None
        \/ runtime' = [pid |-> d, ready |-> TRUE] \/ runtime' = [pid |-> d, ready |-> FALSE]
    BY DEF DaemonStep, TakeInstance, TakeRecovery, Recover, TakeLifecycle, Bind,
           PublishRuntime, TakeRegistry, PublishReady, MarkReady, WithdrawReady,
           CloseListener, RemoveSocket, RemoveRuntime, Exit, Crash, ComponentExits,
           StartupFails, files
  <2>3. \/ UNCHANGED marker \/ marker' = TRUE \/ marker' = FALSE
    BY DEF DaemonStep, TakeInstance, TakeRecovery, Recover, TakeLifecycle, Bind,
           PublishRuntime, TakeRegistry, PublishReady, MarkReady, WithdrawReady,
           CloseListener, RemoveSocket, RemoveRuntime, Exit, Crash, ComponentExits,
           StartupFails, files
  <2>4. UNCHANGED journal \/ journal' = FALSE
    BY DEF DaemonStep, TakeInstance, TakeRecovery, Recover, TakeLifecycle, Bind,
           PublishRuntime, TakeRegistry, PublishReady, MarkReady, WithdrawReady,
           CloseListener, RemoveSocket, RemoveRuntime, Exit, Crash, ComponentExits,
           StartupFails, files
  <2>5. runtime' \in Metadata \cup {None}
    BY <2>2, MetadataIsThere DEF FileInv, FilesOK
  <2>6. marker' \in BOOLEAN /\ journal' \in BOOLEAN
    BY <2>3, <2>4 DEF FileInv, FilesOK
  <2>7. QED
    BY <2>1, <2>5, <2>6 DEF FileInv, FilesOK
<1>4. ListenersOK'
  <2>0. dpc \in [Daemons -> DaemonStates] /\ ListenersOK
    BY DEF LeaseInv, DaemonHolds, FileInv
  <2>1. ASSUME NEW x, dpc' = [dpc EXCEPT ![d] = x], listening' \subseteq listening \cup {d},
               d \in listening' => x \in Open
        PROVE  ListenersOK'
    BY <2>0, <2>1 DEF ListenersOK
  <2>2. CASE \/ TakeInstance(d) \/ TakeRecovery(d) \/ Recover(d) \/ TakeLifecycle(d)
    <3>1. /\ listening' = listening /\ \E x : dpc' = [dpc EXCEPT ![d] = x]
          /\ dpc[d] \in {"spawned", "locked", "recovering", "recovered"}
      BY <2>2 DEF TakeInstance, TakeRecovery, Recover, TakeLifecycle, DaemonGoes
    <3>2. d \notin listening
      BY <2>0, <3>1 DEF ListenersOK, Open, Bound
    <3>3. QED
      BY <2>1, <3>1, <3>2
  <2>3. CASE \/ Bind(d) \/ PublishRuntime(d) \/ TakeRegistry(d) \/ PublishReady(d)
             \/ MarkReady(d) \/ WithdrawReady(d) \/ RemoveSocket(d) \/ RemoveRuntime(d)
             \/ ComponentExits(d) \/ StartupFails(d) \/ CloseListener(d)
    <3>1. /\ listening' \subseteq listening \cup {d}
          /\ \E x \in Open : dpc' = [dpc EXCEPT ![d] = x]
      BY <2>3 DEF Bind, PublishRuntime, TakeRegistry, PublishReady, MarkReady, WithdrawReady,
                  RemoveSocket, RemoveRuntime, ComponentExits, StartupFails, CloseListener,
                  DaemonGoes, Open, Bound
    <3>2. QED
      BY <2>1, <3>1
  <2>4. CASE Exit(d) \/ Crash(d)
    <3>1. listening' = listening \ {d} /\ \E x : dpc' = [dpc EXCEPT ![d] = x]
      BY <2>4 DEF Exit, Crash, DaemonGoes
    <3>2. QED
      BY <2>1, <3>1
  <2>5. QED
    BY <2>2, <2>3, <2>4 DEF DaemonStep
<1>5. QED
  BY <1>2, <1>3, <1>4 DEF FileInv

\* What a step of a client may change of the files.
LEMMA ClientFiles ==
    ASSUME LeaseInv, FileInv, NEW c \in Clients, UNCHANGED limits,
           ClientStep(c) \/ TimesOut(c) \/ KillClient(c) \/ \E k \in Commands : Call(c, k)
    PROVE  FileInv'
<1>1. /\ UNCHANGED <<runtime, journal, listening, mpc>>
      /\ UNCHANGED sock \/ sock' = None
      /\ UNCHANGED marker \/ marker' = FALSE
  BY DEF ClientStep, TakeStartup, Probe, EndProbe, OpenRuntime, ReadRuntime, ClassifyOwner,
         AwaitStartup, CheckEndpoint, CleanEndpoint, Spawn, AwaitSpawned, RequestStop,
         StopRefused, AwaitGone, Stopped, TimesOut, KillClient, Call, files
<1>2. /\ timeouts' \in {timeouts, timeouts + 1}
      /\ kills' \in {kills, kills + 1}
  BY DEF ClientStep, TakeStartup, Probe, EndProbe, OpenRuntime, ReadRuntime, ClassifyOwner,
         AwaitStartup, CheckEndpoint, CleanEndpoint, Spawn, AwaitSpawned, RequestStop,
         StopRefused, AwaitGone, Stopped, TimesOut, KillClient, Call, bounds
<1>3. DaemonsAsked
  BY DEF ClientStep, TakeStartup, Probe, EndProbe, OpenRuntime, ReadRuntime, ClassifyOwner,
         AwaitStartup, CheckEndpoint, CleanEndpoint, Spawn, AwaitSpawned, RequestStop,
         StopRefused, AwaitGone, Stopped, TimesOut, KillClient, Call, DaemonsAsked, Fresh,
         Answers
<1>4. /\ UNCHANGED target \/ \E x : target' = [target EXCEPT ![c] = x]
      /\ UNCHANGED result \/ \E x \in Outcomes : result' = [result EXCEPT ![c] = x]
  <2>1. CASE \/ TakeStartup(c) \/ Probe(c) \/ EndProbe(c) \/ OpenRuntime(c)
             \/ CheckEndpoint(c) \/ CleanEndpoint(c) \/ RequestStop(c) \/ AwaitGone(c)
    BY <2>1 DEF TakeStartup, Probe, EndProbe, OpenRuntime, CheckEndpoint, CleanEndpoint,
                RequestStop, AwaitGone
  <2>2. CASE Spawn(c)
    BY <2>2 DEF Spawn
  <2>3. CASE \E k \in Commands : Call(c, k)
    BY <2>3 DEF Call, Outcomes
  <2>4. CASE \E outcome \in Outcomes : Finish(c, outcome)
    BY <2>4 DEF Finish
  <2>5. CASE AwaitSpawned(c) \/ StopRefused(c) \/ Stopped(c) \/ TimesOut(c) \/ KillClient(c)
    BY <2>4, <2>5 DEF AwaitSpawned, StopRefused, Stopped, TimesOut, KillClient, Outcomes
  <2>6. CASE ReadRuntime(c)
    BY <2>4, <2>6 DEF ReadRuntime, Outcomes
  <2>7. CASE ClassifyOwner(c)
    <3>1. \/ Finish(c, "ok")
          \/ /\ UNCHANGED result
             /\ UNCHANGED target \/ target' = [target EXCEPT ![c] = seen[c].pid]
      BY <2>7 DEF ClassifyOwner
    <3>2. CASE Finish(c, "ok")
      BY <2>4, <3>2 DEF Outcomes
    <3>3. CASE UNCHANGED result /\ target' = [target EXCEPT ![c] = seen[c].pid]
      BY <3>3
    <3>4. CASE UNCHANGED result /\ UNCHANGED target
      BY <3>4
    <3>5. QED
      BY <3>1, <3>2, <3>3, <3>4
  <2>8. CASE AwaitStartup(c)
    BY <2>4, <2>8 DEF AwaitStartup, Outcomes
  <2>9. QED
    BY <2>1, <2>2, <2>3, <2>5, <2>6, <2>7, <2>8 DEF ClientStep
<1>5. FilesOK'
  BY <1>1 DEF FileInv, FilesOK
<1>6. ListenersOK'
  <2>1. \A d \in Daemons : dpc[d] \in Open => dpc'[d] \in Open
    BY <1>3 DEF DaemonsAsked, Open, Bound, LeaseInv, DaemonHolds
  <2>2. QED
    BY <1>1, <2>1 DEF FileInv, ListenersOK
<1>7. CallsOK'
  BY <1>4 DEF FileInv, CallsOK
<1>8. BoundsOK'
  BY <1>1, <1>2 DEF FileInv, BoundsOK
<1>9. QED
  BY <1>5, <1>6, <1>7, <1>8 DEF FileInv

\* Writers and retention change the journal only.
LEMMA OtherFiles ==
    ASSUME LeaseInv, FileInv, UNCHANGED limits, NEW p \in limits.parties,
           OtherStep(p) \/ (p \in Maintainers /\ KillMaintainer(p))
    PROVE  FileInv'
<1>1. /\ UNCHANGED <<sock, runtime, marker, listening, dpc, target, result, timeouts>>
      /\ UNCHANGED journal \/ journal' \in BOOLEAN
      /\ kills' \in {kills, kills + 1}
  BY DEF OtherStep, TakeWriter, TakeAdmission, DropWriter, TakeRetention, TakeGate, Refused,
         Apply, KillMaintainer, files, client, bounds
<1>2. UNCHANGED mpc \/ (p \in Maintainers /\ \E x : mpc' = [mpc EXCEPT ![p] = x])
  BY DEF OtherStep, TakeWriter, TakeAdmission, DropWriter, TakeRetention, TakeGate, Refused,
         Apply, KillMaintainer, MaintainerGoes
<1>3. BoundsOK'
  BY <1>1, <1>2 DEF FileInv, BoundsOK, LeaseInv, OtherHolds
<1>4. FilesOK' /\ ListenersOK' /\ CallsOK'
  BY <1>1 DEF FileInv, FilesOK, ListenersOK, CallsOK
<1>5. QED
  BY <1>3, <1>4 DEF FileInv

\* No step breaks it.
LEMMA FileInvStep == LeaseInv /\ FileInv /\ [Next]_vars => FileInv'
<1> SUFFICES ASSUME LeaseInv, FileInv, [Next]_vars PROVE FileInv'
  OBVIOUS
<1>1. CASE UNCHANGED vars
  <2>1. UNCHANGED <<sock, runtime, marker, journal, listening, dpc, target, result, mpc,
                    limits, timeouts, kills>>
    BY <1>1 DEF vars, moves, files, client, bounds
  <2>2. QED
    BY <2>1 DEF FileInv, FilesOK, ListenersOK, CallsOK, BoundsOK
<1>2. CASE Next
  <2>1. UNCHANGED limits
    BY <1>2 DEF Next
  <2>2. ASSUME NEW d \in Daemons,
               DaemonStep(d) \/ Crash(d) \/ ComponentExits(d) \/ StartupFails(d)
        PROVE  FileInv'
    BY <2>1, <2>2, DaemonFiles
  <2>3. ASSUME NEW c \in Clients,
               ClientStep(c) \/ TimesOut(c) \/ KillClient(c) \/ \E k \in Commands : Call(c, k)
        PROVE  FileInv'
    BY <2>1, <2>3, ClientFiles
  <2>4. ASSUME NEW p \in limits.parties,
               OtherStep(p) \/ (p \in Maintainers /\ KillMaintainer(p))
        PROVE  FileInv'
    BY <2>1, <2>4, OtherFiles
  <2>5. QED
    BY <1>2, <2>2, <2>3, <2>4 DEF Next
<1>3. QED
  BY <1>1, <1>2

-----------------------------------------------------------------------------
(* One daemon at a time *)

\* A client that found the workspace without an owner.
Alone == {"holding", "free", "stale", "spawn", "gone", "stopped"}

Nobody == \A d \in Daemons : dpc[d] \notin Crashable

OneDaemon ==
    \A d, e \in Daemons : dpc[d] \in Crashable /\ dpc[e] \in Crashable => d = e

\* Somebody waits, under the startup lease, for a daemon that comes up.
Awaited ==
    \A d \in Daemons :
        dpc[d] \in Starting => \E c \in Clients : pc[c] = "spawned" /\ target[c] = d

AloneIsAlone == \A c \in Clients : pc[c] \in Alone => Nobody

\* A daemon that has bound its socket is found.
Found ==
    \A d \in Daemons :
        /\ dpc[d] \in Bound => sock = d
        /\ dpc[d] \in Bound \ {"bound"} => runtime # None /\ runtime.pid = d

NobodyLost == Maintainers \cap limits.parties = {} => \A d \in Daemons : dpc[d] # "lost"

SoloInv == OneDaemon /\ Awaited /\ AloneIsAlone /\ Found /\ NobodyLost

\* No client gives up, so what one client does under its lease is not overtaken.
CallInv == FileInv /\ (Patient => SoloInv)

\* How the sets of daemon states lie in each other.
LEMMA StatesOfDaemons ==
    /\ Starting \subseteq Crashable /\ Bound \subseteq Crashable /\ Open \subseteq Crashable
    /\ Running \subseteq Crashable
    /\ "lost" \notin Crashable /\ "none" \notin Crashable /\ "exited" \notin Crashable
    /\ "spawned" \notin Running /\ "serving" \notin Starting /\ "spawned" \in Starting
    /\ "lost" \notin Starting /\ "exited" \notin Starting
BY DEF Starting, Bound, Open, Running, Crashable

\* Daemon d, which runs, goes to x.
LEMMA SoloDaemon ==
    ASSUME LeaseInv, SoloInv, NEW d \in Daemons, NEW x, dpc[d] \in Crashable,
           dpc' = [dpc EXCEPT ![d] = x],
           x \in Starting => dpc[d] \in Starting,
           x \in Bound => sock' = d,
           x \in Bound \ {"bound"} => runtime' # None /\ runtime'.pid = d,
           x = "lost" => Maintainers \cap limits.parties # {},
           UNCHANGED <<pc, target, limits>>
    PROVE  SoloInv'
<1>1. dpc \in [Daemons -> DaemonStates]
  BY DEF LeaseInv, DaemonHolds
<1>2. /\ dpc'[d] = x
      /\ \A e \in Daemons : e # d => dpc'[e] = dpc[e] /\ dpc[e] \notin Crashable
  BY <1>1 DEF SoloInv, OneDaemon
<1>3. OneDaemon'
  BY <1>2 DEF OneDaemon
<1>4. Awaited'
  <2>1. ASSUME NEW e \in Daemons, dpc'[e] \in Starting
        PROVE  dpc[e] \in Starting
    BY <1>2, <2>1, StatesOfDaemons
  <2>2. QED
    BY <2>1 DEF SoloInv, Awaited
<1>5. AloneIsAlone'
  BY DEF SoloInv, AloneIsAlone, Nobody
<1>6. Found'
  <2>1. ASSUME NEW e \in Daemons, dpc'[e] \in Bound
        PROVE  e = d
    BY <1>2, <2>1, StatesOfDaemons
  <2>2. QED
    BY <1>2, <2>1 DEF Found
<1>7. NobodyLost'
  BY <1>2 DEF SoloInv, NobodyLost
<1>8. QED
  BY <1>3, <1>4, <1>5, <1>6, <1>7 DEF SoloInv

\* The leases decide: a daemon that finds the instance lock taken has lost to retention.
LEMMA LosesToRetention ==
    ASSUME LeaseInv, FileInv, SoloInv, NEW d \in Daemons, dpc[d] = "spawned",
           ~Ownable(instance)
    PROVE  Maintainers \cap limits.parties # {}
<1>1. d \notin instance.ex
  BY StatesOfDaemons DEF LeaseInv, DaemonHolds
<1>2. dpc[d] \in Crashable
  BY StatesOfDaemons
<1>3. \A e \in Daemons : e \notin instance.ex
  <2>1. ASSUME NEW e \in Daemons, e \in instance.ex PROVE FALSE
    <3>1. dpc[e] \in Crashable
      BY <2>1, StatesOfDaemons DEF LeaseInv, DaemonHolds
    <3>2. QED
      BY <1>1, <1>2, <2>1, <3>1 DEF SoloInv, OneDaemon
  <2>2. QED
    BY <2>1
<1>4. \A c \in Clients : c \notin instance.ex
  BY <1>2 DEF LeaseInv, ClientHolds, SoloInv, AloneIsAlone, Nobody, Alone
<1>5. instance.ex = {}
  BY <1>3, <1>4 DEF LeaseInv, LocksOK, Lock
<1>6. PICK m \in Maintainers : m \in instance.sh
  BY <1>5 DEF Ownable, LeaseInv, LocksOK, Lock
<1>7. m \in limits.parties
  BY <1>6 DEF LeaseInv, OtherHolds, FileInv, BoundsOK
<1>8. QED
  BY <1>7

\* A step of a daemon.
LEMMA SoloDaemonSteps ==
    ASSUME LeaseInv, FileInv, SoloInv, NEW d \in Daemons, UNCHANGED limits,
           DaemonStep(d) \/ Crash(d) \/ ComponentExits(d) \/ StartupFails(d)
    PROVE  SoloInv'
<1>1. /\ UNCHANGED <<pc, target>>
  BY DEF DaemonStep, TakeInstance, TakeRecovery, Recover, TakeLifecycle, Bind, PublishRuntime,
         TakeRegistry, PublishReady, MarkReady, WithdrawReady, CloseListener, RemoveSocket,
         RemoveRuntime, Exit, Crash, ComponentExits, StartupFails, client
<1>2. dpc[d] \in Crashable
  BY DEF DaemonStep, TakeInstance, TakeRecovery, Recover, TakeLifecycle, Bind, PublishRuntime,
         TakeRegistry, PublishReady, MarkReady, WithdrawReady, CloseListener, RemoveSocket,
         RemoveRuntime, Exit, Crash, ComponentExits, StartupFails, DaemonGoes, Crashable
<1>3. CASE TakeInstance(d)
  <2>1. dpc[d] = "spawned"
        /\ \/ dpc' = [dpc EXCEPT ![d] = "locked"]
           \/ dpc' = [dpc EXCEPT ![d] = "lost"] /\ ~Ownable(instance)
    BY <1>3 DEF TakeInstance, DaemonGoes
  <2>2. "locked" \notin Bound /\ "lost" \notin Bound /\ "lost" \notin Starting
        /\ "spawned" \in Starting
    BY DEF Bound, Starting
  <2>3. QED
    BY <1>1, <1>2, <2>1, <2>2, LosesToRetention, SoloDaemon
<1>4. CASE TakeRecovery(d) \/ Recover(d) \/ TakeLifecycle(d)
  <2>1. /\ dpc[d] \in Starting
        /\ \E x \in {"locked", "recovering", "recovered", "leased"} :
              dpc' = [dpc EXCEPT ![d] = x]
    BY <1>4 DEF TakeRecovery, Recover, TakeLifecycle, DaemonGoes, Starting
  <2>2. \A x \in {"locked", "recovering", "recovered", "leased"} : x \notin Bound /\ x # "lost"
    BY DEF Bound
  <2>3. QED
    BY <1>1, <1>2, <2>1, <2>2, SoloDaemon
<1>5. CASE Bind(d)
  <2>1. sock' = d /\ dpc[d] = "leased" /\ dpc' = [dpc EXCEPT ![d] = "bound"]
    BY <1>5 DEF Bind, DaemonGoes
  <2>2. dpc[d] \in Starting
    BY <2>1 DEF Starting
  <2>3. QED
    BY <1>1, <1>2, <2>1, <2>2, SoloDaemon
<1>6. CASE PublishRuntime(d) \/ PublishReady(d)
  <2>1. /\ dpc[d] \in {"bound", "loaded"} /\ sock' = sock
        /\ \E r \in BOOLEAN : runtime' = [pid |-> d, ready |-> r]
        /\ \E x \in {"published", "marking"} : dpc' = [dpc EXCEPT ![d] = x]
    BY <1>6 DEF PublishRuntime, PublishReady, DaemonGoes
  <2>2. dpc[d] \in Starting /\ dpc[d] \in Bound
    BY <2>1 DEF Starting, Bound
  <2>3. sock' = d /\ runtime' # None /\ runtime'.pid = d
    BY <2>1, <2>2, MetadataIsThere DEF SoloInv, Found
  <2>4. PICK x \in {"published", "marking"} : dpc' = [dpc EXCEPT ![d] = x]
    BY <2>1
  <2>5. QED
    BY <1>1, <1>2, <2>2, <2>3, <2>4, SoloDaemon
<1>7. CASE TakeRegistry(d) \/ MarkReady(d) \/ WithdrawReady(d) \/ ComponentExits(d)
  <2>1. /\ UNCHANGED <<sock, runtime>>
        /\ \/ dpc[d] = "published" /\ dpc' = [dpc EXCEPT ![d] = "loaded"]
           \/ dpc[d] \in {"marking", "serving", "stopping"}
              /\ \E x \in {"serving", "stopping", "withdrawn"} : dpc' = [dpc EXCEPT ![d] = x]
    BY <1>7 DEF TakeRegistry, MarkReady, WithdrawReady, ComponentExits, DaemonGoes, files
  <2>2. dpc[d] \in Bound /\ dpc[d] # "bound"
    BY <2>1 DEF Bound
  <2>3. sock' = d /\ runtime' # None /\ runtime'.pid = d
    BY <2>1, <2>2 DEF SoloInv, Found
  <2>4. CASE dpc[d] = "published" /\ dpc' = [dpc EXCEPT ![d] = "loaded"]
    <3>1. dpc[d] \in Starting
      BY <2>4 DEF Starting
    <3>2. QED
      BY <1>1, <1>2, <2>3, <2>4, <3>1, SoloDaemon
  <2>5. CASE \E x \in {"serving", "stopping", "withdrawn"} : dpc' = [dpc EXCEPT ![d] = x]
    <3>1. PICK x \in {"serving", "stopping", "withdrawn"} : dpc' = [dpc EXCEPT ![d] = x]
      BY <2>5
    <3>2. x \notin Starting /\ x # "lost"
      BY DEF Starting
    <3>3. QED
      BY <1>1, <1>2, <2>3, <3>1, <3>2, SoloDaemon
  <2>6. QED
    BY <2>1, <2>4, <2>5
<1>8. CASE \/ CloseListener(d) \/ RemoveSocket(d) \/ RemoveRuntime(d) \/ Exit(d) \/ Crash(d)
           \/ StartupFails(d)
  <2>1. PICK x \in {"closed", "cleaning", "cleaned", "exited"} : dpc' = [dpc EXCEPT ![d] = x]
    BY <1>8 DEF CloseListener, RemoveSocket, RemoveRuntime, Exit, Crash, StartupFails,
                DaemonGoes
  <2>2. x \notin Starting /\ x \notin Bound /\ x # "lost"
    BY DEF Starting, Bound
  <2>3. QED
    BY <1>1, <1>2, <2>1, <2>2, SoloDaemon
<1>9. QED
  BY <1>3, <1>4, <1>5, <1>6, <1>7, <1>8 DEF DaemonStep

\* The startup lease has one owner.
LEMMA OneStarter ==
    ASSUME LeaseInv, NEW b \in Clients, NEW c \in Clients,
           pc[b] \notin {"idle", "lease"}, pc[c] \notin {"idle", "lease"}
    PROVE  b = c
<1>1. b \in startup.ex /\ c \in startup.ex
  BY DEF LeaseInv, ClientHolds
<1>2. QED
  BY <1>1 DEF LeaseInv, LocksOK, Lock

\* A client that has the startup lease, and finds the instance lock free, is alone.
LEMMA FreeMeansNobody ==
    ASSUME LeaseInv, SoloInv, NEW c \in Clients, pc[c] = "probe", Ownable(instance)
    PROVE  Nobody
<1> SUFFICES ASSUME NEW d \in Daemons, dpc[d] \in Crashable PROVE FALSE
  BY DEF Nobody
<1>1. dpc[d] \notin Running
  BY DEF LeaseInv, DaemonHolds, Ownable
<1>2. dpc[d] \in Starting
  BY <1>1 DEF Running, Starting
<1>3. PICK b \in Clients : pc[b] = "spawned"
  BY <1>2 DEF SoloInv, Awaited
<1>4. QED
  BY <1>3, OneStarter

\* Client c goes to x; a daemon that serves may begin to stop.
LEMMA SoloClient ==
    ASSUME LeaseInv, SoloInv, NEW c \in Clients, NEW x,
           pc' = [pc EXCEPT ![c] = x],
           x \in Alone => Nobody,
           pc[c] = "spawned" => \A d \in Daemons : dpc[d] \notin Starting,
           \A b \in Clients : b # c => target'[b] = target[b],
           \A d \in Daemons :
               dpc'[d] = dpc[d] \/ (dpc[d] = "serving" /\ dpc'[d] = "stopping"),
           sock' = sock \/ Nobody,
           UNCHANGED <<runtime, limits>>
    PROVE  SoloInv'
<1>1. pc \in [Clients -> ClientStates]
  BY DEF LeaseInv, ClientHolds
<1>2. \A d \in Daemons : /\ dpc'[d] \in Crashable <=> dpc[d] \in Crashable
                         /\ dpc'[d] \in Starting <=> dpc[d] \in Starting
                         /\ dpc'[d] \in Bound <=> dpc[d] \in Bound
                         /\ dpc'[d] = "bound" <=> dpc[d] = "bound"
                         /\ dpc'[d] = "lost" <=> dpc[d] = "lost"
  <2>1. /\ "serving" \in Crashable /\ "stopping" \in Crashable
        /\ "serving" \notin Starting /\ "stopping" \notin Starting
        /\ "serving" \in Bound /\ "stopping" \in Bound
    BY DEF Crashable, Starting, Bound
  <2>2. QED
    BY <2>1
<1>3. Nobody => Nobody'
  BY <1>2 DEF Nobody
<1>4. OneDaemon'
  BY <1>2 DEF SoloInv, OneDaemon
<1>5. Awaited'
  <2>1. SUFFICES ASSUME NEW d \in Daemons, dpc'[d] \in Starting
                 PROVE  \E b \in Clients : pc'[b] = "spawned" /\ target'[b] = d
    BY DEF Awaited
  <2>2. PICK b \in Clients : pc[b] = "spawned" /\ target[b] = d
    BY <1>2, <2>1 DEF SoloInv, Awaited
  <2>3. b # c
    BY <1>2, <2>1, <2>2
  <2>4. QED
    BY <1>1, <2>2, <2>3
<1>6. AloneIsAlone'
  <2>1. SUFFICES ASSUME NEW b \in Clients, pc'[b] \in Alone PROVE Nobody'
    BY DEF AloneIsAlone
  <2>2. Nobody
    BY <1>1, <2>1 DEF SoloInv, AloneIsAlone
  <2>3. QED
    BY <1>3, <2>2
<1>7. Found'
  <2>1. SUFFICES ASSUME NEW d \in Daemons, dpc'[d] \in Bound
                 PROVE  /\ sock' = d
                        /\ dpc'[d] # "bound" => runtime' # None /\ runtime'.pid = d
    BY DEF Found
  <2>2. ~Nobody
    BY <1>2, <2>1, StatesOfDaemons DEF Nobody
  <2>3. QED
    BY <1>2, <2>1, <2>2 DEF SoloInv, Found
<1>8. NobodyLost'
  BY <1>2 DEF SoloInv, NobodyLost
<1>9. QED
  BY <1>4, <1>5, <1>6, <1>7, <1>8 DEF SoloInv

\* A client that is alone starts a daemon.
LEMMA SoloSpawn ==
    ASSUME LeaseInv, FileInv, SoloInv, NEW c \in Clients, Spawn(c), UNCHANGED limits
    PROVE  SoloInv'
<1>1. /\ pc[c] = "spawn" /\ pc' = [pc EXCEPT ![c] = "spawned"]
  BY DEF Spawn, ClientGoes
<1>2. PICK d \in Daemons : /\ dpc[d] = "none" /\ dpc' = [dpc EXCEPT ![d] = "spawned"]
                           /\ target' = [target EXCEPT ![c] = d]
  BY DEF Spawn, Fresh
<1>3. Nobody
  BY <1>1 DEF SoloInv, AloneIsAlone, Alone
<1>4. /\ dpc \in [Daemons -> DaemonStates] /\ pc \in [Clients -> ClientStates]
      /\ DOMAIN target = Clients
  BY DEF LeaseInv, DaemonHolds, ClientHolds, FileInv, CallsOK
<1>5. /\ dpc'[d] = "spawned"
      /\ \A e \in Daemons : e # d => dpc'[e] = dpc[e] /\ dpc'[e] \notin Crashable
  BY <1>2, <1>3, <1>4 DEF Nobody
<1>6. OneDaemon'
  BY <1>5 DEF OneDaemon
<1>7. Awaited'
  <2>1. pc'[c] = "spawned" /\ target'[c] = d
    BY <1>1, <1>2, <1>4
  <2>2. \A e \in Daemons : dpc'[e] \in Starting => e = d
    BY <1>5, StatesOfDaemons
  <2>3. QED
    BY <2>1, <2>2 DEF Awaited
<1>8. AloneIsAlone'
  <2>1. SUFFICES ASSUME NEW b \in Clients, pc'[b] \in Alone PROVE FALSE
    BY DEF AloneIsAlone
  <2>2. b # c
    BY <1>1, <1>4, <2>1 DEF Alone
  <2>3. pc[b] \in Alone
    BY <1>1, <1>4, <2>1, <2>2
  <2>4. QED
    BY <1>1, <2>2, <2>3, OneStarter DEF Alone
<1>9. Found'
  <2>1. \A e \in Daemons : dpc'[e] \notin Bound
    <3>1. "spawned" \notin Bound
      BY DEF Bound
    <3>2. QED
      BY <1>5, <3>1, StatesOfDaemons
  <2>2. QED
    BY <2>1 DEF Found
<1>10. NobodyLost'
  BY <1>5 DEF SoloInv, NobodyLost
<1>11. QED
  BY <1>6, <1>7, <1>8, <1>9, <1>10 DEF SoloInv

\* The end of a call other than a wait for a daemon.
LEMMA SoloFinish ==
    ASSUME LeaseInv, FileInv, SoloInv, NEW c \in Clients, NEW outcome, Finish(c, outcome),
           pc[c] = "spawned" => \A d \in Daemons : dpc[d] \notin Starting,
           UNCHANGED <<dpc, sock, runtime, limits>>
    PROVE  SoloInv'
<1>1. pc' = [pc EXCEPT ![c] = "idle"] /\ target' = [target EXCEPT ![c] = None]
  BY DEF Finish
<1>2. \A b \in Clients : b # c => target'[b] = target[b]
  BY <1>1 DEF FileInv, CallsOK
<1>3. "idle" \notin Alone
  BY DEF Alone
<1>4. QED
  BY <1>1, <1>2, <1>3, SoloClient

\* The step of a client that waits for the daemon it started.
LEMMA SoloAwaits ==
    ASSUME LeaseInv, FileInv, SoloInv, NEW c \in Clients, AwaitSpawned(c), UNCHANGED limits
    PROVE  SoloInv'
<1>1. pc[c] = "spawned" /\ UNCHANGED <<dpc, sock, runtime>>
  BY DEF AwaitSpawned, files
<1>2. /\ dpc[target[c]] \in {"serving", "lost", "exited"}
      /\ \E outcome \in {"ok", "failed"} : Finish(c, outcome)
  BY DEF AwaitSpawned, Answers
<1>3. ASSUME NEW d \in Daemons, dpc[d] \in Starting PROVE FALSE
  <2>1. PICK b \in Clients : pc[b] = "spawned" /\ target[b] = d
    BY <1>3 DEF SoloInv, Awaited
  <2>2. b = c
    BY <1>1, <2>1, OneStarter
  <2>3. dpc[d] \in {"serving", "lost", "exited"}
    BY <1>2, <2>1, <2>2
  <2>4. QED
    BY <1>3, <2>3, StatesOfDaemons
<1>4. QED
  BY <1>1, <1>2, <1>3, SoloFinish

\* A step of a client.
LEMMA SoloClientSteps ==
    ASSUME LeaseInv, FileInv, SoloInv, Patient, NEW c \in Clients, UNCHANGED limits,
           ClientStep(c) \/ TimesOut(c) \/ KillClient(c) \/ \E k \in Commands : Call(c, k)
    PROVE  SoloInv'
<1>0. /\ {"probe", "request", "observe", "starting", "reading", "owner", "idle", "lease"}
            \cap Alone = {}
      /\ {"holding", "free", "stale", "spawn", "gone", "stopped"} \subseteq Alone
  BY DEF Alone
<1>1. CASE TakeStartup(c) \/ OpenRuntime(c) \/ \E k \in Commands : Call(c, k)
  <2>1. /\ UNCHANGED <<dpc, sock, runtime, target>> /\ pc[c] \in {"idle", "lease", "observe"}
    BY <1>1 DEF TakeStartup, OpenRuntime, Call, ClientGoes, files
  <2>2. \E x \in {"idle", "lease", "probe", "request", "reading"} : pc' = [pc EXCEPT ![c] = x]
    BY <1>1, ClientHas DEF TakeStartup, OpenRuntime, Call, ClientGoes
  <2>3. QED
    BY <1>0, <2>1, <2>2, SoloClient
<1>2. CASE Probe(c) \/ EndProbe(c)
  <2>1. UNCHANGED <<dpc, sock, runtime, target>> /\ pc[c] \in {"probe", "holding"}
    BY <1>2 DEF Probe, EndProbe, ClientGoes, files
  <2>2. \/ \E x \in {"observe", "starting", "probe"} : pc' = [pc EXCEPT ![c] = x]
        \/ /\ pc[c] = "holding" \/ (pc[c] = "probe" /\ Ownable(instance))
           /\ \E x \in {"holding", "gone", "free"} : pc' = [pc EXCEPT ![c] = x]
    BY <1>2 DEF Probe, EndProbe, ClientGoes
  <2>3. CASE \E x \in {"observe", "starting", "probe"} : pc' = [pc EXCEPT ![c] = x]
    BY <1>0, <2>1, <2>3, SoloClient
  <2>4. CASE /\ pc[c] = "holding" \/ (pc[c] = "probe" /\ Ownable(instance))
             /\ \E x \in {"holding", "gone", "free"} : pc' = [pc EXCEPT ![c] = x]
    <3>1. Nobody
      BY <1>0, <2>4, FreeMeansNobody DEF SoloInv, AloneIsAlone
    <3>2. QED
      BY <2>1, <2>4, <3>1, SoloClient
  <2>5. QED
    BY <2>2, <2>3, <2>4
<1>3. CASE CheckEndpoint(c) \/ CleanEndpoint(c) \/ AwaitGone(c)
  <2>1. UNCHANGED <<dpc, runtime, target>> /\ pc[c] \in {"free", "stale", "gone"}
    BY <1>3 DEF CheckEndpoint, CleanEndpoint, AwaitGone, ClientGoes, files
  <2>2. \E x : pc' = [pc EXCEPT ![c] = x]
    BY <1>3 DEF CheckEndpoint, CleanEndpoint, AwaitGone, ClientGoes
  <2>3. Nobody
    BY <1>0, <2>1 DEF SoloInv, AloneIsAlone
  <2>4. QED
    BY <2>1, <2>2, <2>3, SoloClient
<1>4. CASE Spawn(c)
  BY <1>4, SoloSpawn
<1>5. CASE AwaitSpawned(c)
  BY <1>5, SoloAwaits
<1>6. CASE RequestStop(c)
  <2>1. /\ UNCHANGED <<sock, runtime, target>> /\ pc[c] = "request"
        /\ pc' = [pc EXCEPT ![c] = "probe"]
    BY <1>6 DEF RequestStop, ClientGoes, files
  <2>2. \A d \in Daemons : dpc'[d] = dpc[d] \/ (dpc[d] = "serving" /\ dpc'[d] = "stopping")
    BY <1>6 DEF RequestStop, Answers, LeaseInv, DaemonHolds
  <2>3. QED
    BY <1>0, <2>1, <2>2, SoloClient
<1>7. CASE StopRefused(c) \/ Stopped(c)
  <2>1. /\ UNCHANGED <<dpc, sock, runtime>> /\ pc[c] \in {"request", "stopped"}
        /\ \E outcome \in {"failed", "ok"} : Finish(c, outcome)
    BY <1>7 DEF StopRefused, Stopped, files
  <2>2. QED
    BY <2>1, SoloFinish
<1>8. CASE ReadRuntime(c) \/ ClassifyOwner(c) \/ AwaitStartup(c)
  <2>1. UNCHANGED <<dpc, sock, runtime>> /\ pc[c] \in {"reading", "owner", "starting"}
    BY <1>8 DEF ReadRuntime, ClassifyOwner, AwaitStartup, files
  <2>2. \/ \E outcome \in {"unreadable", "ok"} : Finish(c, outcome)
        \/ /\ UNCHANGED target \/ target' = [target EXCEPT ![c] = seen[c].pid]
           /\ \E x \in {"probe", "owner", "starting"} : pc' = [pc EXCEPT ![c] = x]
    BY <1>8 DEF ReadRuntime, ClassifyOwner, AwaitStartup
  <2>3. CASE \E outcome \in {"unreadable", "ok"} : Finish(c, outcome)
    BY <2>1, <2>3, SoloFinish
  <2>4. CASE /\ UNCHANGED target \/ target' = [target EXCEPT ![c] = seen[c].pid]
             /\ \E x \in {"probe", "owner", "starting"} : pc' = [pc EXCEPT ![c] = x]
    <3>1. \A b \in Clients : b # c => target'[b] = target[b]
      BY <2>4 DEF FileInv, CallsOK
    <3>2. QED
      BY <1>0, <2>1, <2>4, <3>1, SoloClient
  <2>5. QED
    BY <2>2, <2>3, <2>4
<1>9. CASE TimesOut(c)
  BY <1>9 DEF TimesOut, Patient, FileInv, BoundsOK
<1>10. CASE KillClient(c)
  BY <1>10 DEF KillClient, Patient, FileInv, BoundsOK
<1>11. QED
  BY <1>1, <1>2, <1>3, <1>4, <1>5, <1>6, <1>7, <1>8, <1>9, <1>10 DEF ClientStep

\* Writers and retention start, stop and wait for no daemon.
LEMMA SoloOtherSteps ==
    ASSUME SoloInv, UNCHANGED <<dpc, pc, target, sock, runtime, limits>>
    PROVE  SoloInv'
BY DEF SoloInv, OneDaemon, Awaited, AloneIsAlone, Nobody, Found, NobodyLost

\* Daemons are not started at first.
LEMMA CallInvInit == Init => CallInv
<1> SUFFICES ASSUME Init PROVE CallInv
  OBVIOUS
<1>1. \A d \in Daemons : dpc[d] = "none"
  BY DEF Init
<1>2. "none" \notin Starting /\ "none" \notin Bound /\ "none" \notin Crashable
  BY DEF Starting, Bound, Crashable
<1>3. OneDaemon /\ Awaited /\ Found /\ NobodyLost
  BY <1>1, <1>2 DEF OneDaemon, Awaited, Found, NobodyLost
<1>4. AloneIsAlone
  BY <1>1, <1>2 DEF AloneIsAlone, Nobody
<1>5. QED
  BY <1>3, <1>4, FileInvInit DEF CallInv, SoloInv

\* No step breaks it.
LEMMA CallInvStep == LeaseInv /\ CallInv /\ [Next]_vars => CallInv'
<1> SUFFICES ASSUME LeaseInv, CallInv, [Next]_vars PROVE CallInv'
  OBVIOUS
<1>1. FileInv /\ FileInv'
  BY FileInvStep DEF CallInv
<1>2. UNCHANGED limits
  BY DEF Next, vars
<1>3. SUFFICES ASSUME Patient' PROVE SoloInv'
  BY <1>1 DEF CallInv
<1>4. Patient /\ SoloInv
  BY <1>2, <1>3 DEF Patient, CallInv
<1>5. ASSUME NEW d \in Daemons,
             DaemonStep(d) \/ Crash(d) \/ ComponentExits(d) \/ StartupFails(d)
      PROVE  SoloInv'
  BY <1>1, <1>2, <1>4, <1>5, SoloDaemonSteps
<1>6. ASSUME NEW c \in Clients,
             ClientStep(c) \/ TimesOut(c) \/ KillClient(c) \/ \E k \in Commands : Call(c, k)
      PROVE  SoloInv'
  BY <1>1, <1>2, <1>4, <1>6, SoloClientSteps
<1>7. ASSUME NEW p, OtherStep(p) \/ KillMaintainer(p)
      PROVE  SoloInv'
  <2>1. UNCHANGED <<dpc, pc, target, sock, runtime>>
    BY <1>7 DEF OtherStep, TakeWriter, TakeAdmission, DropWriter, TakeRetention, TakeGate,
                Apply, KillMaintainer, files, client
  <2>2. QED
    BY <1>2, <1>4, <2>1, SoloOtherSteps
<1>8. CASE UNCHANGED vars
  <2>1. UNCHANGED <<dpc, pc, target, sock, runtime>>
    BY <1>8 DEF vars, moves, files, client
  <2>2. QED
    BY <1>2, <1>4, <2>1, SoloOtherSteps
<1>9. QED
  BY <1>5, <1>6, <1>7, <1>8 DEF Next

\* Both layers hold in every state.
LEMMA CallsHold == Spec => [](LeaseInv /\ CallInv)
<1>1. Init => LeaseInv /\ CallInv
  BY LeaseInvInit, CallInvInit
<1>2. LeaseInv /\ CallInv /\ [Next]_vars => (LeaseInv /\ CallInv)'
  BY LeaseInvStep, CallInvStep
<1>3. QED
  BY <1>1, <1>2, PTL DEF Spec

\* StopMeansStopped: unless a client gives up or is killed, a stop that reports success
\* leaves no daemon that owns the workspace and nobody at its socket.
THEOREM StopLeavesNobody == Spec => []StopMeansStopped
<1>1. ASSUME LeaseInv, CallInv PROVE StopMeansStopped
  <2>1. SUFFICES ASSUME Patient, NEW c \in Clients, pc[c] = "stopped"
                 PROVE  Owners = {} /\ ~Connects
    BY DEF StopMeansStopped
  <2>2. Nobody
    BY <1>1, <2>1 DEF CallInv, SoloInv, AloneIsAlone, Alone
  <2>3. Owners = {}
    BY <1>1, <2>2, StatesOfDaemons DEF Owners, Nobody, LeaseInv, DaemonHolds
  <2>4. ~Connects
    BY <1>1, <2>2, StatesOfDaemons DEF Connects, Nobody, CallInv, FileInv, ListenersOK
  <2>5. QED
    BY <2>3, <2>4
<1>2. QED
  BY <1>1, CallsHold, PTL

\* At most one process owns a lock.
LEMMA OneOwner ==
    ASSUME NEW l, NEW E, NEW S, Lock(l, E, S)
    PROVE  Cardinality(l.ex) <= 1 /\ (l.ex = {} \/ l.sh = {})
<1>1. CASE l.ex = {}
  BY <1>1, FS_EmptySet
<1>2. CASE l.ex # {}
  <2>1. PICK p : p \in l.ex
    BY <1>2
  <2>2. l.ex = {p}
    BY <2>1 DEF Lock
  <2>3. Cardinality({p}) = 1
    BY FS_Singleton
  <2>4. l.sh = {}
    BY <1>2 DEF Lock
  <2>5. QED
    BY <2>2, <2>3, <2>4
<1>3. QED
  BY <1>1, <1>2

\* EndpointIsExact: the locks, files and states are what they are meant to be, and
\* unless a client gives up or is killed a daemon that has published its metadata is
\* the one that is found, and no daemon is started that must lose.
THEOREM EndpointFindsOwner == Spec => []EndpointIsExact
<1>1. ASSUME LeaseInv, CallInv PROVE EndpointIsExact
  <2>1. TypeOK
    <3>1. \A lock \in Locks : Cardinality(lock.ex) <= 1 /\ (lock.ex = {} \/ lock.sh = {})
      BY <1>1, OneOwner DEF Locks, LeaseInv, LocksOK
    <3>2. \A d \in Daemons : dpc[d] \in Crashable \cup {"none", "lost", "exited"}
      BY <1>1 DEF LeaseInv, DaemonHolds, DaemonStates
    <3>3. \A c \in Clients : /\ (pc[c] \notin {"idle", "lease"}) <=> (c \in startup.ex)
                             /\ c \in instance.ex <=> pc[c] = "holding"
                             /\ result[c] \in {None, "ok", "failed", "unreadable"}
      BY <1>1 DEF LeaseInv, ClientHolds, CallInv, FileInv, CallsOK, Outcomes
    <3>4. /\ sock \in Daemons \cup {None}
          /\ runtime \in [pid : Daemons, ready : BOOLEAN] \cup {None}
          /\ {marker, journal} \subseteq BOOLEAN
          /\ listening \subseteq Daemons
      BY <1>1 DEF CallInv, FileInv, FilesOK, ListenersOK, Metadata
    <3>5. QED
      BY <3>1, <3>2, <3>3, <3>4 DEF TypeOK
  <2>2. EndpointIsOwners
    BY <1>1 DEF EndpointIsOwners, CallInv, SoloInv, Found, Bound
  <2>3. NoLoser
    BY <1>1 DEF NoLoser, CallInv, SoloInv, NobodyLost
  <2>4. QED
    BY <2>1, <2>2, <2>3 DEF EndpointIsExact
<1>2. QED
  BY <1>1, CallsHold, PTL
=============================================================================
