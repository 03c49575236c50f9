--------------------------- MODULE MCIndexService ---------------------------
(***************************************************************************)
(* The instance of IndexService for TLC: two files, room for one pending   *)
(* path, and scenarios that combine updates, rebuilds and clears with a    *)
(* failed operation, a kill, a stop, and a regex index that another        *)
(* program has built.                                                      *)
(***************************************************************************)
EXTENDS IndexService

CONSTANTS path1, path2

TwoPaths == {path1, path2}

Updates == [kinds |-> {"paths"}, regex |-> FALSE, requests |-> 2,
            faults |-> 1, kills |-> 0, stops |-> 0]

Clears == [Updates EXCEPT !.kinds = {"clear", "full"}]

Mixed == [Updates EXCEPT !.kinds = {"clear", "paths"}, !.faults = 0]

ScenarioSet == {
    Updates,
    [Clears EXCEPT !.requests = 3],
    [Clears EXCEPT !.stops = 1],
    [Updates EXCEPT !.requests = 1, !.faults = 2],
    [Mixed EXCEPT !.stops = 1],
    [Mixed EXCEPT !.kills = 1],
    [Clears EXCEPT !.regex = TRUE, !.requests = 1, !.kills = 1]}
=============================================================================
