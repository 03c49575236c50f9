--------------------------- MODULE DaemonBootstrap ---------------------------
(***************************************************************************)
(* Who may own a workspace: the leases of packet28-daemon-core             *)
(* task_store_lease.rs, and the processes that take them.  Clients         *)
(* discover, start and stop the daemon (suite-cli cmd_daemon_client.rs,    *)
(* packet28d bootstrap.rs), a daemon starts and shuts down (packet28d      *)
(* application.rs), writers change the task store beside it, and retention *)
(* maintains it.  A lease is an advisory lock of the operating system: it  *)
(* is shared or exclusive, and the end of its process releases it.         *)
(***************************************************************************)
EXTENDS Naturals, FiniteSets

CONSTANTS
    Clients,        \* processes that run the command line or a hook
    Daemons,        \* 1..n, daemon processes, each started at most once
    Writers,        \* processes that write to the task store themselves
    Maintainers,    \* processes that apply retention
    Scenarios,      \* who takes part, and bounds on calls and on what goes wrong
    None

ASSUME DaemonBootstrapAssumption ==
    /\ \A S \in {Clients, Daemons, Writers, Maintainers} : IsFiniteSet(S)
    /\ Daemons = 1..Cardinality(Daemons)
    /\ Clients \cap Daemons = {}                 \* a holder of a lease has one role
    /\ Writers \cap (Clients \cup Daemons) = {}
    /\ Maintainers \cap (Clients \cup Daemons \cup Writers) = {}
    /\ None \notin Daemons
    /\ None \notin [pid : Daemons, ready : BOOLEAN]
    /\ \A s \in Scenarios :
          /\ s.parties \subseteq Clients \cup Writers \cup Maintainers
          /\ s.calls \in 0..Cardinality(Daemons)     \* calls of all clients together
          /\ s.timeouts \in Nat                      \* deadlines that expire
          /\ s.kills \in Nat                         \* clients and maintainers killed
          /\ s.crashes \in Nat                       \* daemons that fail or are killed

VARIABLES
    startup, instance, lifecycle, registry,     \* the four lock files
    sock,       \* daemon whose listener the socket path names, or None
    runtime,    \* runtime.json, or None; its value stands for its inode too
    marker,     \* the readiness file exists
    journal,    \* an interrupted retention has left quarantine groups
    listening,  \* daemons with an open listener
    dpc,        \* progress of each daemon
    pc, op,     \* progress and command of each client
    probe,      \* the loop a client probes the instance lock for
    seen,       \* runtime.json as a client began to read it
    target,     \* daemon a client waits for
    result,     \* outcome of each client's last call
    wpc, mpc,   \* progress of writers and maintainers
    limits,     \* the scenario
    calls, timeouts, kills, crashes

locks == <<startup, instance, lifecycle, registry>>
files == <<sock, runtime, marker, journal>>
client == <<pc, op, probe, seen, target, result>>
bounds == <<calls, timeouts, kills, crashes>>
moves == <<locks, files, listening, dpc, client, wpc, mpc, bounds>>
vars == <<moves, limits>>

-----------------------------------------------------------------------------
(* Leases *)

Free == [ex |-> {}, sh |-> {}]

\* lock_shared and lock_exclusive succeed.
Sharable(lock) == lock.ex = {}
Ownable(lock) == lock.ex = {} /\ lock.sh = {}

Shared(lock, p) == [lock EXCEPT !.sh = @ \cup {p}]
Owned(lock, p) == [lock EXCEPT !.ex = {p}]

\* The last clone of a lease is dropped, or its process ends.
Dropped(lock, p) == [ex |-> lock.ex \ {p}, sh |-> lock.sh \ {p}]

-----------------------------------------------------------------------------
(* The daemon: serve *)

DaemonGoes(d, from, to) == dpc[d] = from /\ dpc' = [dpc EXCEPT ![d] = to]

\* acquire_daemon_instance_lease does not wait; the loser exits.  The winner removes
\* a readiness file that a crash has left.
TakeInstance(d) ==
    /\ IF Ownable(instance)
       THEN /\ DaemonGoes(d, "spawned", "locked")
            /\ instance' = Owned(instance, d)
            /\ marker' = FALSE
       ELSE DaemonGoes(d, "spawned", "lost") /\ UNCHANGED <<instance, marker>>
    /\ UNCHANGED <<startup, lifecycle, registry, sock, runtime, journal, listening,
                   client, wpc, mpc, bounds>>

\* Startup recovery waits for writers and retention.
TakeRecovery(d) ==
    /\ Ownable(lifecycle)
    /\ DaemonGoes(d, "locked", "recovering")
    /\ lifecycle' = Owned(lifecycle, d)
    /\ UNCHANGED <<startup, instance, registry, files, listening, client, wpc, mpc, bounds>>

\* Fault: groups that cannot be recovered are left, and the lease is kept.
RecoverNothing(d) ==
    /\ DaemonGoes(d, "recovering", "leased")
    /\ lifecycle' = Shared(Dropped(lifecycle, d), d)
    /\ UNCHANGED <<startup, instance, registry, files, listening, client, wpc, mpc, bounds>>

Recover(d) ==
    /\ DaemonGoes(d, "recovering", "recovered")
    /\ journal' = FALSE
    /\ lifecycle' = Dropped(lifecycle, d)
    /\ UNCHANGED <<startup, instance, registry, sock, runtime, marker, listening,
                   client, wpc, mpc, bounds>>

\* The shared lease for the daemon's life; groups that appeared meanwhile send it back
\* to recovery.
TakeLifecycle(d) ==
    /\ Sharable(lifecycle)
    /\ IF journal
       THEN DaemonGoes(d, "recovered", "locked") /\ UNCHANGED lifecycle
       ELSE DaemonGoes(d, "recovered", "leased") /\ lifecycle' = Shared(lifecycle, d)
    /\ UNCHANGED <<startup, instance, registry, files, listening, client, wpc, mpc, bounds>>

\* bind_daemon_listener: a socket without a listener is replaced, a live one is not.
Bind(d) ==
    /\ sock \notin listening
    /\ DaemonGoes(d, "leased", "bound")
    /\ sock' = d
    /\ listening' = listening \cup {d}
    /\ UNCHANGED <<locks, runtime, marker, journal, client, wpc, mpc, bounds>>

PublishRuntime(d) ==
    /\ DaemonGoes(d, "bound", "published")
    /\ runtime' = [pid |-> d, ready |-> FALSE]
    /\ UNCHANGED <<locks, sock, marker, journal, listening, client, wpc, mpc, bounds>>

\* load_registry_admission_authority
TakeRegistry(d) ==
    /\ Ownable(registry)
    /\ DaemonGoes(d, "published", "loaded")
    /\ registry' = Owned(registry, d)
    /\ UNCHANGED <<startup, instance, lifecycle, files, listening, client, wpc, mpc, bounds>>

\* mark_ready replaces runtime.json ...
PublishReady(d) ==
    /\ DaemonGoes(d, "loaded", "marking")
    /\ runtime' = [pid |-> d, ready |-> TRUE]
    /\ UNCHANGED <<locks, sock, marker, journal, listening, client, wpc, mpc, bounds>>

\* ... and writes the readiness file; then requests are answered.
MarkReady(d) ==
    /\ DaemonGoes(d, "marking", "serving")
    /\ marker' = TRUE
    /\ UNCHANGED <<locks, sock, runtime, journal, listening, client, wpc, mpc, bounds>>

\* begin_daemon_shutdown
WithdrawReady(d) ==
    /\ DaemonGoes(d, "stopping", "withdrawn")
    /\ marker' = FALSE
    /\ UNCHANGED <<locks, sock, runtime, journal, listening, client, wpc, mpc, bounds>>

\* The process ends; the locks go with it.
Released(p) ==
    /\ instance' = Dropped(instance, p)
    /\ lifecycle' = Dropped(lifecycle, p)
    /\ registry' = Dropped(registry, p)

\* Fault: the leases end with the listener, before the runtime files are removed.
CloseEarly(d) ==
    /\ DaemonGoes(d, "withdrawn", "closed")
    /\ listening' = listening \ {d}
    /\ Released(d)
    /\ UNCHANGED <<startup, files, client, wpc, mpc, bounds>>

\* The transport drops its listener, and the persistence owner ends.
CloseListener(d) ==
    /\ DaemonGoes(d, "withdrawn", "closed")
    /\ listening' = listening \ {d}
    /\ registry' = Dropped(registry, d)
    /\ UNCHANGED <<startup, instance, lifecycle, files, client, wpc, mpc, bounds>>

\* remove_runtime_files: the socket first, runtime.json and the readiness file last.
RemoveSocket(d) ==
    /\ DaemonGoes(d, "closed", "cleaning")
    /\ sock' = None
    /\ UNCHANGED <<locks, runtime, marker, journal, listening, client, wpc, mpc, bounds>>

RemoveRuntime(d) ==
    /\ DaemonGoes(d, "cleaning", "cleaned")
    /\ runtime' = None
    /\ marker' = FALSE
    /\ UNCHANGED <<locks, sock, journal, listening, client, wpc, mpc, bounds>>

Exit(d) ==
    /\ DaemonGoes(d, "cleaned", "exited")
    /\ Released(d)
    /\ listening' = listening \ {d}
    /\ UNCHANGED <<startup, files, client, wpc, mpc, bounds>>

Crashable == {"spawned", "locked", "recovering", "recovered", "leased", "bound", "published",
              "loaded", "marking", "serving", "stopping", "withdrawn", "closed", "cleaning",
              "cleaned"}

\* The daemon is killed; its files stay.
Crash(d) ==
    /\ dpc[d] \in Crashable
    /\ crashes < limits.crashes
    /\ crashes' = crashes + 1
    /\ dpc' = [dpc EXCEPT ![d] = "exited"]
    /\ Released(d)
    /\ listening' = listening \ {d}
    /\ UNCHANGED <<startup, files, client, wpc, mpc, calls, timeouts, kills>>

\* supervise_daemon_tasks: a component of the daemon ends, and the daemon with it.
ComponentExits(d) ==
    /\ crashes < limits.crashes
    /\ crashes' = crashes + 1
    /\ DaemonGoes(d, "serving", "stopping")
    /\ UNCHANGED <<locks, files, listening, client, wpc, mpc, calls, timeouts, kills>>

\* A step of startup fails: RuntimeFileGuard removes the files under the leases.
StartupFails(d) ==
    /\ dpc[d] \in {"bound", "published", "loaded", "marking"}
    /\ crashes < limits.crashes
    /\ crashes' = crashes + 1
    /\ dpc' = [dpc EXCEPT ![d] = "closed"]
    /\ registry' = Dropped(registry, d)
    /\ UNCHANGED <<startup, instance, lifecycle, files, listening, client, wpc, mpc, calls,
                   timeouts, kills>>

DaemonStep(d) ==
    \/ TakeInstance(d) \/ TakeRecovery(d) \/ Recover(d) \/ TakeLifecycle(d)
    \/ Bind(d) \/ PublishRuntime(d) \/ TakeRegistry(d) \/ PublishReady(d) \/ MarkReady(d)
    \/ WithdrawReady(d) \/ CloseListener(d) \/ RemoveSocket(d) \/ RemoveRuntime(d) \/ Exit(d)

-----------------------------------------------------------------------------
(* Clients: ensure_daemon, packet28d start, stop_daemon_and_wait, restart_daemon *)

ClientGoes(c, from, to) == pc[c] = from /\ pc' = [pc EXCEPT ![c] = to]

\* Connecting to the socket path succeeds.
Connects == sock \in listening

\* request_status_v1 is answered by daemon d.
Answers(d) == sock = d /\ d \in listening /\ dpc[d] = "serving"

\* A call ends and drops the startup lease.
Finish(c, outcome) ==
    /\ pc' = [pc EXCEPT ![c] = "idle"]
    /\ result' = [result EXCEPT ![c] = outcome]
    /\ startup' = Dropped(startup, c)
    /\ target' = [target EXCEPT ![c] = None]
    /\ seen' = [seen EXCEPT ![c] = None]
    /\ UNCHANGED <<op, probe>>

\* ensure_daemon looks for a ready daemon without the lease.
FastPath == (runtime = None \/ runtime.ready) /\ \E d \in Daemons : Answers(d)

Call(c, command) ==
    /\ calls < limits.calls
    /\ calls' = calls + 1
    /\ op' = [op EXCEPT ![c] = command]
    /\ IF command = "ensure" /\ FastPath
       THEN pc[c] = "idle" /\ result' = [result EXCEPT ![c] = "ok"] /\ UNCHANGED pc
       ELSE ClientGoes(c, "idle", "lease") /\ result' = [result EXCEPT ![c] = None]
    /\ UNCHANGED <<locks, files, listening, dpc, probe, seen, target, wpc, mpc, timeouts, kills, crashes>>

TakeStartup(c) ==
    /\ Ownable(startup)
    /\ startup' = Owned(startup, c)
    /\ IF op[c] \in {"ensure", "start"}
       THEN ClientGoes(c, "lease", "probe") /\ probe' = [probe EXCEPT ![c] = "authority"]
       ELSE ClientGoes(c, "lease", "request") /\ UNCHANGED probe
    /\ UNCHANGED <<instance, lifecycle, registry, files, listening, dpc, op, seen, target, result,
                   wpc, mpc, bounds>>

\* Fault: shutdown waits for the endpoint only.
ProbeNothing(c) ==
    /\ IF Ownable(instance)
       THEN ClientGoes(c, "probe", "holding") /\ instance' = Owned(instance, c)
       ELSE /\ ClientGoes(c, "probe", CASE probe[c] = "authority" -> "observe"
                                        [] probe[c] = "startup" -> "starting"
                                        [] OTHER -> "gone")
            /\ UNCHANGED instance
    /\ UNCHANGED <<startup, lifecycle, registry, files, listening, dpc, op, probe, seen, target,
                   result, wpc, mpc, bounds>>

\* daemon_instance_released takes the instance lock for a moment ...
Probe(c) ==
    /\ IF Ownable(instance)
       THEN ClientGoes(c, "probe", "holding") /\ instance' = Owned(instance, c)
       ELSE /\ ClientGoes(c, "probe", CASE probe[c] = "authority" -> "observe"
                                        [] probe[c] = "startup" -> "starting"
                                        [] OTHER -> "probe")
            /\ UNCHANGED instance
    /\ UNCHANGED <<startup, lifecycle, registry, files, listening, dpc, op, probe, seen, target,
                   result, wpc, mpc, bounds>>

\* Fault: the probe keeps its lock.
EndProbeLeaks(c) ==
    /\ ClientGoes(c, "holding", IF probe[c] = "shutdown" THEN "gone" ELSE "free")
    /\ UNCHANGED <<locks, files, listening, dpc, op, probe, seen, target, result, wpc, mpc, bounds>>

\* ... and drops it.
EndProbe(c) ==
    /\ ClientGoes(c, "holding", IF probe[c] = "shutdown" THEN "gone" ELSE "free")
    /\ instance' = Dropped(instance, c)
    /\ UNCHANGED <<startup, lifecycle, registry, files, listening, dpc, op, probe, seen, target,
                   result, wpc, mpc, bounds>>

\* Fault: an owner without metadata counts as gone.
OpenHasty(c) ==
    /\ IF runtime = None THEN ClientGoes(c, "observe", "free")
       ELSE ClientGoes(c, "observe", "reading")
    /\ seen' = [seen EXCEPT ![c] = runtime]
    /\ UNCHANGED <<locks, files, listening, dpc, op, probe, target, result, wpc, mpc, bounds>>

\* observe_owner opens runtime.json ...
OpenRuntime(c) ==
    /\ IF runtime = None THEN ClientGoes(c, "observe", "probe")
       ELSE ClientGoes(c, "observe", "reading")
    /\ seen' = [seen EXCEPT ![c] = runtime]
    /\ UNCHANGED <<locks, files, listening, dpc, op, probe, target, result, wpc, mpc, bounds>>

\* ... and checks that its name still leads to what was read: a removed file counts as
\* absent, a replaced one is an error.
ReadRuntime(c) ==
    /\ pc[c] = "reading"
    /\ IF runtime # None /\ runtime # seen[c]
       THEN Finish(c, "unreadable")
       ELSE /\ pc' = [pc EXCEPT ![c] = IF runtime = None THEN "probe" ELSE "owner"]
            /\ UNCHANGED <<startup, op, probe, seen, target, result>>
    /\ UNCHANGED <<instance, lifecycle, registry, files, listening, dpc, wpc, mpc, bounds>>

\* What the metadata shows: a daemon that serves, one that starts, or neither.
ClassifyOwner(c) ==
    /\ pc[c] = "owner"
    /\ LET d == seen[c].pid IN
       IF seen[c].ready /\ Answers(d) THEN Finish(c, "ok")
       ELSE /\ IF ~seen[c].ready /\ Connects
               THEN /\ pc' = [pc EXCEPT ![c] = "starting"]
                    /\ target' = [target EXCEPT ![c] = d]
                    /\ probe' = [probe EXCEPT ![c] = "startup"]
               ELSE pc' = [pc EXCEPT ![c] = "probe"] /\ UNCHANGED <<target, probe>>
            /\ UNCHANGED <<startup, op, seen, result>>
    /\ UNCHANGED <<instance, lifecycle, registry, files, listening, dpc, wpc, mpc, bounds>>

\* wait_for_existing_startup
AwaitStartup(c) ==
    /\ pc[c] = "starting"
    /\ IF Answers(target[c]) THEN Finish(c, "ok")
       ELSE /\ pc' = [pc EXCEPT ![c] = "probe"]
            /\ UNCHANGED <<startup, op, probe, seen, target, result>>
    /\ UNCHANGED <<instance, lifecycle, registry, files, listening, dpc, wpc, mpc, bounds>>

\* Authority is free.  ensure_daemon removes the endpoint files if nobody answers at the
\* socket, packet28d start in any case.
CheckEndpoint(c) ==
    /\ ClientGoes(c, "free", IF op[c] = "start" \/ sock \notin listening \cup {None}
                             THEN "stale" ELSE "spawn")
    /\ UNCHANGED <<locks, files, listening, dpc, op, probe, seen, target, result, wpc, mpc, bounds>>

\* cleanup_unreachable_runtime_files, remove_stale_endpoint_files
CleanEndpoint(c) ==
    /\ ClientGoes(c, "stale", IF op[c] = "stop" THEN "stopped" ELSE "spawn")
    /\ sock' = None
    /\ marker' = FALSE
    /\ UNCHANGED <<locks, runtime, journal, listening, dpc, op, probe, seen, target, result,
                   wpc, mpc, bounds>>

\* The next daemon process that was not started yet; calls are bounded so that there is one.
Fresh(d) == dpc[d] = "none" /\ \A e \in 1..(d - 1) : dpc[e] # "none"

Spawn(c) ==
    /\ ClientGoes(c, "spawn", "spawned")
    /\ \E d \in Daemons :
          /\ Fresh(d)
          /\ dpc' = [dpc EXCEPT ![d] = "spawned"]
          /\ target' = [target EXCEPT ![c] = d]
    /\ UNCHANGED <<locks, files, listening, op, probe, seen, result, wpc, mpc, bounds>>

\* Fault: a child that accepts connections must answer at once.
AwaitHasty(c) ==
    /\ pc[c] = "spawned"
    /\ LET d == target[c] IN
       \/ runtime # None /\ runtime.pid = d /\ Answers(d) /\ Finish(c, "ok")
       \/ sock = d /\ ~Answers(d) /\ Finish(c, "failed")
       \/ dpc[d] \in {"lost", "exited"} /\ Finish(c, "failed")
    /\ UNCHANGED <<instance, lifecycle, registry, files, listening, dpc, wpc, mpc, bounds>>

\* wait_for_spawned_daemon: the child answers, or is gone.
AwaitSpawned(c) ==
    /\ pc[c] = "spawned"
    /\ LET d == target[c] IN
       \/ runtime # None /\ runtime.pid = d /\ Answers(d) /\ Finish(c, "ok")
       \/ dpc[d] \in {"lost", "exited"} /\ Finish(c, "failed")
    /\ UNCHANGED <<instance, lifecycle, registry, files, listening, dpc, wpc, mpc, bounds>>

\* request_daemon_stop: a daemon that serves acknowledges and stops, and without one
\* there is nothing to ask.  A daemon that starts answers when it is ready.
RequestStop(c) ==
    /\ ClientGoes(c, "request", "probe")
    /\ probe' = [probe EXCEPT ![c] = "shutdown"]
    /\ \/ ~Connects /\ UNCHANGED dpc
       \/ \E d \in Daemons : Answers(d) /\ dpc' = [dpc EXCEPT ![d] = "stopping"]
    /\ UNCHANGED <<locks, files, listening, op, seen, target, result, wpc, mpc, bounds>>

\* The daemon drops the request, but is still reachable: the call fails.
StopRefused(c) ==
    /\ pc[c] = "request"
    /\ Connects /\ dpc[sock] \in {"stopping", "withdrawn", "closed"}
    /\ Finish(c, "failed")
    /\ UNCHANGED <<instance, lifecycle, registry, files, listening, dpc, wpc, mpc, bounds>>

\* wait_for_daemon_shutdown: the instance lock is free, and nobody is at the socket.
AwaitGone(c) ==
    /\ ClientGoes(c, "gone", IF Connects THEN "probe" ELSE "stale")
    /\ UNCHANGED <<locks, files, listening, dpc, op, probe, seen, target, result, wpc, mpc, bounds>>

Stopped(c) ==
    /\ pc[c] = "stopped"
    /\ Finish(c, "ok")
    /\ UNCHANGED <<instance, lifecycle, registry, files, listening, dpc, wpc, mpc, bounds>>

\* A deadline expires: the caller gets an error, and nothing is removed or stopped.
TimesOut(c) ==
    /\ pc[c] \in {"probe", "starting", "spawned", "request"}
    /\ timeouts < limits.timeouts
    /\ timeouts' = timeouts + 1
    /\ Finish(c, "failed")
    /\ UNCHANGED <<instance, lifecycle, registry, files, listening, dpc, wpc, mpc, calls, kills, crashes>>

KillClient(c) ==
    /\ pc[c] # "idle"
    /\ kills < limits.kills
    /\ kills' = kills + 1
    /\ Finish(c, None)
    /\ instance' = Dropped(instance, c)
    /\ UNCHANGED <<lifecycle, registry, files, listening, dpc, wpc, mpc, calls, timeouts, crashes>>

ClientStep(c) ==
    \/ TakeStartup(c) \/ Probe(c) \/ EndProbe(c) \/ OpenRuntime(c) \/ ReadRuntime(c)
    \/ ClassifyOwner(c) \/ AwaitStartup(c) \/ CheckEndpoint(c) \/ CleanEndpoint(c)
    \/ Spawn(c) \/ AwaitSpawned(c) \/ RequestStop(c) \/ StopRefused(c) \/ AwaitGone(c) \/ Stopped(c)

-----------------------------------------------------------------------------
(* Writers and retention *)

WriterGoes(w, from, to) == wpc[w] = from /\ wpc' = [wpc EXCEPT ![w] = to]

TakeWriter(w) ==
    /\ Sharable(lifecycle)
    /\ WriterGoes(w, "idle", "writer")
    /\ lifecycle' = Shared(lifecycle, w)
    /\ UNCHANGED <<startup, instance, registry, files, listening, dpc, client, mpc, bounds>>

\* acquire_registry_writer_admission
TakeAdmission(w) ==
    /\ Sharable(registry)
    /\ WriterGoes(w, "writer", "writing")
    /\ registry' = Shared(registry, w)
    /\ UNCHANGED <<startup, instance, lifecycle, files, listening, dpc, client, mpc, bounds>>

DropWriter(w) ==
    /\ WriterGoes(w, "writing", "idle")
    /\ lifecycle' = Dropped(lifecycle, w)
    /\ registry' = Dropped(registry, w)
    /\ UNCHANGED <<startup, instance, files, listening, dpc, client, mpc, bounds>>

MaintainerGoes(m, from, to) == mpc[m] = from /\ mpc' = [mpc EXCEPT ![m] = to]

\* try_acquire_task_store_retention_lease does not wait.
TakeRetention(m) ==
    /\ Ownable(lifecycle)
    /\ MaintainerGoes(m, "idle", "admitted")
    /\ lifecycle' = Owned(lifecycle, m)
    /\ UNCHANGED <<startup, instance, registry, files, listening, dpc, client, wpc, bounds>>

Refused(m) ==
    /\ MaintainerGoes(m, "admitted", "idle")
    /\ lifecycle' = Dropped(lifecycle, m)
    /\ UNCHANGED instance

\* Fault: the readiness file alone keeps retention away from a daemon.
GateOpenAlways == TRUE

GateOpen == Sharable(instance)

\* The gate against daemon startup, and then the readiness file; a quarantine that an
\* earlier retention left is recovered, and the first group is journaled.
TakeGate(m) ==
    /\ IF GateOpen /\ ~marker
       THEN /\ MaintainerGoes(m, "admitted", "working")
            /\ instance' = Shared(instance, m)
            /\ journal' = TRUE
            /\ UNCHANGED lifecycle
       ELSE Refused(m) /\ UNCHANGED journal
    /\ UNCHANGED <<startup, registry, sock, runtime, marker, listening, dpc, client, wpc, bounds>>

\* The groups are deleted.
Apply(m) ==
    /\ MaintainerGoes(m, "working", "idle")
    /\ journal' = FALSE
    /\ instance' = Dropped(instance, m)
    /\ lifecycle' = Dropped(lifecycle, m)
    /\ UNCHANGED <<startup, registry, sock, runtime, marker, listening, dpc, client, wpc, bounds>>

KillMaintainer(m) ==
    /\ mpc[m] # "idle"
    /\ kills < limits.kills
    /\ kills' = kills + 1
    /\ mpc' = [mpc EXCEPT ![m] = "idle"]
    /\ instance' = Dropped(instance, m)
    /\ lifecycle' = Dropped(lifecycle, m)
    /\ UNCHANGED <<startup, registry, files, listening, dpc, client, wpc, calls, timeouts, crashes>>

OtherStep(p) ==
    \/ p \in Writers /\ (TakeWriter(p) \/ TakeAdmission(p) \/ DropWriter(p))
    \/ p \in Maintainers /\ (TakeRetention(p) \/ TakeGate(p) \/ Apply(p))

-----------------------------------------------------------------------------
Init ==
    /\ limits \in Scenarios
    /\ startup = Free /\ instance = Free /\ lifecycle = Free /\ registry = Free
    /\ sock = None /\ runtime = None /\ marker = FALSE /\ journal = FALSE
    /\ listening = {}
    /\ dpc = [d \in Daemons |-> "none"]
    /\ pc = [c \in Clients |-> "idle"]
    /\ op = [c \in Clients |-> None]
    /\ probe = [c \in Clients |-> None]
    /\ seen = [c \in Clients |-> None]
    /\ target = [c \in Clients |-> None]
    /\ result = [c \in Clients |-> None]
    /\ wpc = [w \in Writers |-> "idle"]
    /\ mpc = [m \in Maintainers |-> "idle"]
    /\ calls = 0 /\ timeouts = 0 /\ kills = 0 /\ crashes = 0

Commands == {"ensure", "start", "stop", "restart"}

Next ==
    /\ \/ \E d \in Daemons : DaemonStep(d) \/ Crash(d) \/ ComponentExits(d) \/ StartupFails(d)
       \/ \E c \in Clients \cap limits.parties :
             ClientStep(c) \/ TimesOut(c) \/ KillClient(c) \/ \E k \in Commands : Call(c, k)
       \/ \E p \in (Writers \cup Maintainers) \cap limits.parties : OtherStep(p)
       \/ \E m \in Maintainers \cap limits.parties : KillMaintainer(m)
    /\ UNCHANGED limits

Spec == Init /\ [][Next]_vars

\* Processes take their steps, and a call that waits for a lock gets it when others are
\* done with it.
FairSpec ==
    /\ Spec
    /\ \A d \in Daemons : WF_moves(DaemonStep(d)) /\ SF_moves(TakeRecovery(d)) /\ SF_moves(TakeRegistry(d))
    /\ \A c \in Clients : WF_moves(ClientStep(c)) /\ SF_moves(TakeStartup(c))
    /\ \A w \in Writers : WF_moves(TakeAdmission(w)) /\ WF_moves(DropWriter(w))
    /\ \A m \in Maintainers : WF_moves(TakeGate(m)) /\ WF_moves(Apply(m))

-----------------------------------------------------------------------------
(* Properties *)

Owners == {d \in Daemons : d \in instance.ex}

Locks == {startup, instance, lifecycle, registry}

TypeOK ==
    /\ \A lock \in Locks : Cardinality(lock.ex) <= 1 /\ (lock.ex = {} \/ lock.sh = {})
    /\ sock \in Daemons \cup {None}
    /\ runtime \in [pid : Daemons, ready : BOOLEAN] \cup {None}
    /\ {marker, journal} \subseteq BOOLEAN
    /\ listening \subseteq Daemons
    /\ \A d \in Daemons : dpc[d] \in Crashable \cup {"none", "lost", "exited"}
    /\ \A c \in Clients :
          /\ (pc[c] \notin {"idle", "lease"}) <=> (c \in startup.ex)
          /\ c \in instance.ex <=> pc[c] = "holding"
          /\ result[c] \in {None, "ok", "failed", "unreadable"}

\* While retention works no daemon owns the workspace, not even one between recovery and
\* its lifecycle lease, and no writer is inside.
MaintenanceIsAlone ==
    \A m \in Maintainers :
        mpc[m] = "working" => Owners = {} /\ \A w \in Writers : wpc[w] = "idle"

\* A daemon that has its lifecycle lease never works on a half-applied retention.
DaemonLoadsRecovered ==
    \A d \in Daemons : dpc[d] \in Crashable /\ d \in lifecycle.sh => ~journal

\* No client gives up or is killed while a daemon that it started comes up.
Patient == limits.kills = 0 /\ limits.timeouts = 0

\* Between the publication of its metadata and its cleanup a daemon is found: socket and
\* metadata are its own.
EndpointIsOwners ==
    Patient => \A d \in Daemons :
        dpc[d] \in {"published", "loaded", "marking", "serving"} =>
            sock = d /\ runtime # None /\ runtime.pid = d

\* No daemon is started that must lose against one that is stopping or starting.
\* (It may lose against retention, which takes the gate without the startup lease.)
NoLoser ==
    Patient /\ Maintainers \cap limits.parties = {} => \A d \in Daemons : dpc[d] # "lost"

\* When a stop reports success no daemon owns the workspace and nobody is at its socket.
StopMeansStopped == Patient => \A c \in Clients : pc[c] = "stopped" => Owners = {} /\ ~Connects

\* Every call ends before its deadline, unless retention runs again and again beside it
\* or a daemon comes up that an earlier client gave up.
CallsEnd ==
    \A c \in Clients :
        Patient /\ Maintainers \cap limits.parties = {} /\ pc[c] # "idle" ~> pc[c] = "idle"

\* Without crashes, expired deadlines and kills a client that wants a daemon gets one.
EnsureServes ==
    \A c \in Clients :
        Patient /\ limits.crashes = 0 /\ pc[c] = "lease" /\ op[c] # "stop" ~> result[c] = "ok"

\* One daemon at a time is started, found and served: endpoint and metadata belong to
\* the owner of the workspace, and no start races with one that would win.
EndpointIsExact == TypeOK /\ EndpointIsOwners /\ NoLoser

\* Retention and the daemons exclude each other, and what retention left half done is
\* recovered before a daemon loads the store.
RetentionIsApart == MaintenanceIsAlone /\ DaemonLoadsRecovered

\* Every call ends, and one that wants a daemon ends with a daemon that serves.
CallsSucceed == CallsEnd /\ EnsureServes
=============================================================================
