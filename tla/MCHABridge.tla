------------------------------ MODULE MCHABridge ------------------------------
(* A small instance of HABridge for TLC: the adapter's own loop, and one command *)
(* with its refresher.                                                           *)
EXTENDS HABridge

CONSTANT command

MCRefreshers == {command}
=============================================================================
