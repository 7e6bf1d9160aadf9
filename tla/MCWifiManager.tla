---------------------------- MODULE MCWifiManager ----------------------------
(* Small instances of WifiManager for TLC: configurations of up to four    *)
(* networks, sorted, unsorted and with equal priorities.                   *)
EXTENDS WifiManager

CONSTANTS home, office, phone

MCSsids == {home, office, phone}

E(n, p) == [ssid |-> n, priority |-> p]

MCConfigs ==
  { <<>>,
    <<E(home, 1)>>,
    <<E(home, 2), E(office, 1)>>,
    <<E(home, 1), E(office, 1), E(phone, 0)>>,
    <<E(home, 3), E(office, 2), E(phone, 1)>>,
    <<E(home, 2), E(office, 3), E(office, 2), E(phone, 1)>> }
=============================================================================
