---------------------------- MODULE MCCacheStore ----------------------------
(***************************************************************************)
(* The instance of CacheStore for TLC: two processes with one key, one     *)
(* process with two keys (chunks of a flush), power failures on a root of  *)
(* an older version, and a load that cannot read the log.                  *)
(***************************************************************************)
EXTENDS CacheStore

CONSTANTS proc1, proc2, key1, key2

TwoProcs == {proc1, proc2}
TwoKeys == {key1, key2}

Peers == [legacy |-> FALSE, procs |-> {proc1, proc2}, keys |-> {key1}, values |-> 3,
          faults |-> 1, kills |-> 0, powers |-> 0, blinds |-> 0]

ScenarioSet == {
    Peers,
    [Peers EXCEPT !.values = 2, !.faults = 2, !.kills = 1],
    [Peers EXCEPT !.procs = {proc1}, !.keys = {key1, key2}, !.kills = 1],
    [Peers EXCEPT !.legacy = TRUE, !.values = 2, !.kills = 1, !.powers = 1],
    [Peers EXCEPT !.legacy = TRUE, !.procs = {proc1}, !.kills = 1, !.powers = 2],
    [Peers EXCEPT !.procs = {proc1}, !.kills = 1, !.blinds = 1]}
=============================================================================
