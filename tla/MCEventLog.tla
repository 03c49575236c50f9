----------------------------- MODULE MCEventLog -----------------------------
(***************************************************************************)
(* The instance of EventLog for TLC.  Subscribers and sessions meet only   *)
(* in the log, and so each has a scenario of its own; the others have      *)
(* sessions that initialize again, one beside partial frames and one       *)
(* beside power failures and rollbacks.                                    *)
(***************************************************************************)
EXTENDS EventLog

CONSTANTS client1, session1

OneClient == {client1}
OneSession == {session1}

Daily == [readers |-> {client1}, events |-> 4, faults |-> 1, kills |-> 1, powers |-> 0,
          drops |-> 1, inits |-> 0, rollbacks |-> 0]

ScenarioSet == {
    Daily,
    [Daily EXCEPT !.readers = {session1}, !.events = 3, !.kills = 2, !.faults = 2],
    [Daily EXCEPT !.readers = {session1}, !.events = 3, !.kills = 0, !.inits = 1],
    [Daily EXCEPT !.readers = {session1}, !.events = 3, !.kills = 0, !.powers = 1, !.inits = 1,
                  !.rollbacks = 1]}
=============================================================================
