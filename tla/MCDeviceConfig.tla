---------------------------- MODULE MCDeviceConfig ----------------------------
(* A small instance of DeviceConfig for TLC: a new device, and one with a  *)
(* network and settings of its own.                                         *)
EXTENDS DeviceConfig

MCFirstFlash ==
  { [k \in Keys |-> 0],
    [k \in Keys |-> IF k = WifiCount THEN 1 ELSE 2] }
=============================================================================
