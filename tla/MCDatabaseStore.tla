--------------------------- MODULE MCDatabaseStore ---------------------------
(* The instance of DatabaseStore for TLC: that of MCDatabase and the history. *)
EXTENDS DatabaseStore, MCDatabase
=============================================================================
