------------------------- MODULE MCPersistenceOwner -------------------------
(* Model values for the threads; the first one also runs startup. *)
EXTENDS PersistenceOwner

CONSTANTS t1, t2
=============================================================================
