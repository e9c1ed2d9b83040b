--------------------------- MODULE MCDatabaseToken ---------------------------
(* DatabaseToken for TLC. *)
EXTENDS DatabaseToken
=============================================================================
