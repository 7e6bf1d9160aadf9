SPECIFICATION ModalFairSpec
CONSTANTS
  light = light
  thermostat = thermostat
  Entities <- MCEntities
  Domain <- MCDomain
  States <- MCStates
  NoState = NoState
  NoCmd = NoCmd
  Closed = Closed
  OneUIThread = TRUE
  MaxCommands = 3
  MaxTarget = 1
INVARIANTS
  OneCommandInFlight
  RefusedOnlyInFlight
  NoResultDropped
  OverlayIsOwnCommand
  ToastTimerLives
  ToastIsTimed
PROPERTIES
  AnswersInOrder
  ServiceSpec
  BusyClears
  OverlayClears
