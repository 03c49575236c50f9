--------------------------- MODULE MCTaskAdmission ---------------------------
(***************************************************************************)
(* The instance of TaskAdmission for TLC.  Threads are interchangeable:    *)
(* the run that checks invariants uses the symmetry.                       *)
(***************************************************************************)
EXTENDS TaskAdmission, TLC

CONSTANTS c1, c2, c3, w1

SymmetricThreads == Permutations(Threads)

Watching == [ops |-> {"submit", "cancel", "watch"}, recovered |-> FALSE, calls |-> 3,
             active |-> 2, steps |-> 0, faults |-> 0, timeouts |-> 1]

Launching == [Watching EXCEPT !.ops = {"submit", "cancel", "launch"}, !.active = 3,
                              !.timeouts = 0]

Reusing == [Watching EXCEPT !.recovered = TRUE, !.calls = 2]

ScenarioSet == {
    Watching,
    [Watching EXCEPT !.ops = @ \cup {"unwatch"}, !.calls = 2, !.faults = 1],
    Launching,
    [Launching EXCEPT !.ops = @ \cup {"stop"}, !.calls = 2],
    [Reusing EXCEPT !.ops = @ \cup {"launch", "write", "unwatch"}],
    [Reusing EXCEPT !.ops = {"submit", "cancel", "write", "unwatch"}, !.faults = 1,
                    !.timeouts = 0],
    [Reusing EXCEPT !.ops = {"watch", "cancel", "stop"}, !.calls = 1, !.faults = 1]}

LiveScenarioSet == {
    [Reusing EXCEPT !.ops = @ \cup {"launch", "write"}, !.steps = 3, !.timeouts = 0]}
=============================================================================
