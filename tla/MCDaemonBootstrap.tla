------------------------- MODULE MCDaemonBootstrap -------------------------
(***************************************************************************)
(* The instance of DaemonBootstrap for TLC: two clients beside crashing    *)
(* daemons; one client beside a writer and retention, which are killed;    *)
(* two clients with a deadline that expires; two clients and a writer      *)
(* without faults.                                                         *)
(***************************************************************************)
EXTENDS DaemonBootstrap

CONSTANTS c1, c2, w1, m1

ClientSet == {c1, c2}
DaemonSet == 1..2
WriterSet == {w1}
MaintainerSet == {m1}

Quiet == [parties |-> {c1, c2, w1}, calls |-> 2, timeouts |-> 0, kills |-> 0, crashes |-> 0]

ScenarioSet == {
    Quiet,
    [Quiet EXCEPT !.parties = {c1, c2}, !.crashes = 2],
    [Quiet EXCEPT !.parties = {c1, w1, m1}, !.kills = 1, !.crashes = 1],
    [Quiet EXCEPT !.parties = {c1, c2}, !.timeouts = 1]}
=============================================================================
