---------------------------- MODULE MCBridgeServer ----------------------------
(* A small instance of BridgeServer for TLC. *)
EXTENDS BridgeServer

CONSTANTS stranger, agent

MCStrangers == {stranger}
MCAgents    == {agent}
=============================================================================
