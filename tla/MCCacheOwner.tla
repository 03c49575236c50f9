---------------------------- MODULE MCCacheOwner ----------------------------
(***************************************************************************)
(* The instance of CacheOwner for TLC: commits, prunes and flushes of two  *)
(* keys by one owner, and owners of one key that follow each other.        *)
(***************************************************************************)
EXTENDS CacheOwner

CONSTANTS t1, t2, key1, key2

TwoThreads == {t1, t2}
TwoKeys == {key1, key2}

Changes == [ops |-> {"commit", "prune", "flush"}, keys |-> {key1, key2}, capacity |-> 3,
            threshold |-> 2, calls |-> 2, faults |-> 1, timeouts |-> 0]

Handover == [ops |-> {"open", "commit", "flush", "shutdown", "drop", "die"}, keys |-> {key1},
             capacity |-> 1, threshold |-> 1, calls |-> 3, faults |-> 1, timeouts |-> 1]

ScenarioSet == {Changes, Handover}
=============================================================================
