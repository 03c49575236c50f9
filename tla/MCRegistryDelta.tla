-------------------------- MODULE MCRegistryDelta ---------------------------
(***************************************************************************)
(* Registry deltas for one task that may watch two paths, in either order. *)
(***************************************************************************)
EXTENDS RegistryDelta

CONSTANTS a, w1, w2, body1, body2

OneTask == [w \in {w1, w2} |-> a]

\* Submissions that name every watch once.  (No check refuses one that names a watch
\* twice, and the append then refuses its batch every time.)
DistinctLists == {<<w1, w2>>, <<w2, w1>>}

\* The two watches and the two bodies are interchangeable.
Interchangeable == Permutations({w1, w2}) \cup Permutations({body1, body2})
=============================================================================
