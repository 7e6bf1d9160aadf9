SPECIFICATION Spec
CONSTANTS
  light = light
  lock = lock
  on = on
  Entities <- MCEntities
  States <- MCStates
  NoState = NoState
  NoCmd = NoCmd
  OneUIThread = FALSE
  MaxCommands = 3
CHECK_DEADLOCK FALSE
INVARIANT RefusedOnlyInFlight
