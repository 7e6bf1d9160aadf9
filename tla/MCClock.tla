------------------------------- MODULE MCClock -------------------------------
(* A small instance of Clock for TLC: midnight comes to the east first. *)
EXTENDS Clock

CONSTANTS eastern, arizona, pacific

MCStrip    == <<arizona, pacific>>
MCMidnight == [z \in Zones |-> CASE z = eastern -> 1 [] z = arizona -> 2 [] OTHER -> 3]
=============================================================================
