------------------------------ MODULE MCHAScreen ------------------------------
(* A small instance of HAScreen for TLC: a thermostat with two sensors, a lamp and a   *)
(* switch without a device.  In the evening the lamp has lost its label, the sensors   *)
(* are silent and the thermostat is in no area.  The bounds cut off the last entity of *)
(* the morning, its second room and its second light.                                  *)
EXTENDS HAScreen, TLC

MCDomain == "battery" :> "sensor" @@ "thermostat" :> "climate" @@ "humidity" :> "sensor"
              @@ "lamp" :> "light" @@ "porch" :> "light"

Answer(states, labelled, area) ==
  [states |-> states, labelled |-> labelled, area |-> area, label |-> TRUE,
   device   |-> [e \in Entities |-> CASE e = "lamp" -> 1 [] e = "porch" -> 0 [] OTHER -> 2],
   override |-> [e \in Entities |-> IF e = "humidity" THEN "cellar" ELSE NoArea]]

MCHouse ==
  "morning" :> Answer(<<"battery", "thermostat", "lamp", "porch", "humidity">>, Entities,
                      <<"hall", "kitchen">>)
  @@ "evening" :> Answer(<<"thermostat", "porch", "lamp">>, Entities \ {"lamp"},
                         <<"hall", NoArea>>)
=============================================================================
