---------------------------- MODULE MCDataService ----------------------------
(* Small instances of DataService for TLC; the constants are in the .cfg files. *)
EXTENDS DataService
=============================================================================
