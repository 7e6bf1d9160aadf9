SPECIFICATION Spec
CONSTANTS
  Cores = {core0, core1}
  RingSize = 5
  Margin = 3
  ReadMax = 2
  Lengths <- MCLengths
  SdBufSize = 3
  Retention = 2
  MaxEntries = 2
  Boot = Boot
  MaxWritten = 7
  MaxSessions = 3
  MaxClock = 4
SYMMETRY MCSymmetry
CONSTRAINT MCLogsAtFirst
CHECK_DEADLOCK FALSE
INVARIANTS
  RingHoldsLatest
  ReaderInOrder
  SessionKept
  CardHoldsCopies
PROPERTIES
  RotationSpares
