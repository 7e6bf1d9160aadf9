---------------------------- MODULE MCHACommand ----------------------------
(* Small instances of HACommand for TLC. *)
EXTENDS HACommand

CONSTANTS light, lock, on

MCEntities == {light, lock}
MCStates == {on}
=============================================================================
