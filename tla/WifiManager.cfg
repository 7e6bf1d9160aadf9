SPECIFICATION FairSpec
CONSTANTS
  home = home
  office = office
  phone = phone
  Ssids <- MCSsids
  Configs <- MCConfigs
  MaxWifi = 3
  MaxEvents = 3
  NoSsid = NoSsid
INVARIANTS
  TriedInOrder
  WifiInv
PROPERTIES
  ComesOnline
