SPECIFICATION Spec
CONSTANTS
  Domain <- MCDomain
  House <- MCHouse
  NoArea = NoArea
  MaxFallback = 3
  MaxEntities = 3
  MaxPerDomain = 1
  MaxRooms = 1
  MaxSections = 2
INVARIANTS
  GroupsPartition
  OneCardEach
  ScreenFresh
PROPERTIES
  TapOpensShown
