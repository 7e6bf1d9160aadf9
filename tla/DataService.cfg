SPECIFICATION FairSpec
CONSTANT Chunks = 3
INVARIANTS
  DocNotShared
  NoDuplicateDelivery
  ForcedPollNotDelayed
PROPERTIES
  DataDelivered
