SPECIFICATION BridgeFairSpec
CONSTANTS
  Loop = Loop
  command = command
  Refreshers <- MCRefreshers
  MaxRetries = 1
  MaxVersion = 2
  MaxRestarts = 1
  MaxReads = 1
INVARIANTS
  OkHasData
  ConfirmsItsEffect
PROPERTIES
  ConfirmedIsShown
  DisplayConverges
