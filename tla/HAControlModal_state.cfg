SPECIFICATION ModalSpec
CONSTANTS
  light = light
  thermostat = thermostat
  Entities <- MCEntities
  Domain <- MCDomain
  States <- MCStates
  NoState = NoState
  NoCmd = NoCmd
  Closed = Closed
  OneUIThread = TRUE
  MaxCommands = 2
  MaxTarget = 1
CHECK_DEADLOCK FALSE
INVARIANT StateIsOfEntity
