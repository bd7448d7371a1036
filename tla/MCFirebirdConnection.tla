------------------------- MODULE MCFirebirdConnection -------------------------
(* The instance of FirebirdConnection for TLC.                                 *)
EXTENDS FirebirdConnection
=============================================================================
