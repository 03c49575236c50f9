--------------------------- MODULE CheckpointCell ---------------------------
(***************************************************************************)
(* What the checkpoint publication of packet28-daemon-core promises: one   *)
(* cell that holds a pair of registries and is replaced atomically.        *)
(* `survivors' is the set of values the cell may hold after a power        *)
(* failure; `acked' the last value whose publication was reported Ok.      *)
(***************************************************************************)
EXTENDS Naturals

CONSTANT Descriptor

VARIABLES value, survivors, acked

IsSuccessor(v) ==
    /\ v \in Descriptor
    /\ v.generation = value.generation + 1
    /\ v.revision >= value.revision

\* The publication returned Ok: nothing but the new pair can be found.
Publish ==
    /\ IsSuccessor(value')
    /\ survivors' = {value'}
    /\ acked' = value'

\* The publication reported an error although the pair was replaced.
PublishUnsynced ==
    /\ IsSuccessor(value')
    /\ survivors' = survivors \cup {value'}
    /\ UNCHANGED acked

\* A later write of the same directory made the pair durable.
Settle ==
    /\ survivors' = {value}
    /\ UNCHANGED <<value, acked>>

PowerFailure ==
    /\ \E v \in survivors : value' = v /\ survivors' = {v}
    /\ UNCHANGED acked

Init ==
    /\ value \in Descriptor
    /\ survivors = {value}
    /\ acked = value

Next == Publish \/ PublishUnsynced \/ Settle \/ PowerFailure

Spec == Init /\ [][Next]_<<value, survivors, acked>>

=============================================================================
