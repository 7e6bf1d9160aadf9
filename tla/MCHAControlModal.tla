-------------------------- MODULE MCHAControlModal --------------------------
(* Small instances of HAControlModal for TLC: one light, one thermostat. *)
EXTENDS HAControlModal, TLC

CONSTANTS light, thermostat

MCEntities == {light, thermostat}
MCDomain == light :> "light" @@ thermostat :> "climate"
MCStates == {"on", "off"}
=============================================================================
