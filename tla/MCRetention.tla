---------------------------- MODULE MCRetention ----------------------------
EXTENDS Retention

CONSTANTS k1, k2

GroupSet == 1..3

Calm == [tasks |-> {k1}, comps |-> Comps, refers |-> {}, groups |-> 2, batches |-> 1,
         kills |-> 0, powers |-> 0, faults |-> 0, writes |-> 0]

ScenarioSet == {
    [Calm EXCEPT !.groups = 1, !.batches = 2, !.kills = 3, !.faults = 3],
    [Calm EXCEPT !.tasks = {k1, k2}, !.refers = {<<k2, k1>>}, !.groups = 3, !.kills = 3],
    [Calm EXCEPT !.tasks = {k1, k2}, !.groups = 3, !.batches = 2, !.kills = 1, !.faults = 1],
    [Calm EXCEPT !.tasks = {k1, k2}, !.kills = 1, !.powers = 1, !.faults = 1],
    [Calm EXCEPT !.kills = 1, !.powers = 2, !.faults = 1],
    [Calm EXCEPT !.kills = 1, !.faults = 1, !.writes = 3]}
============================================================================
