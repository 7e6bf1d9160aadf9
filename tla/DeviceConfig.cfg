SPECIFICATION Spec
CONSTANTS
  P4 = TRUE
  MaxWifi = 1
  FirstFlash <- MCFirstFlash
  Values = {1}
  MaxSaves = 2
  MaxFaults = 1
  MaxStarts = 3
PROPERTIES
  OnlyEditsAreSaved
  SettingsSurvive
CHECK_DEADLOCK FALSE
