------------------------ MODULE MCRegistryCheckpoint ------------------------
(* Model values for the checkpoint publication protocol. *)
EXTENDS RegistryCheckpoint

CONSTANTS empty, full
MCImages == {empty, full}
=============================================================================
