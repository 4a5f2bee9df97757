SPECIFICATION Spec
CONSTANTS
  a = a
  b = b
  k = k
  Node = {a, b}
  Initiators = {a, b}
  Psk = {k}
  Window = 1
  Limit = 1
  REJECT_AFTER_TIME = 1
  MaxSerial = 3
  MaxTimestamp = 2
  MaxTime = 0
  MaxRestart = 1
SYMMETRY Symmetry
INVARIANTS RoutedExactly NonceFresh PairedSessions NoRedelivery AnsweredOnce
CHECK_DEADLOCK FALSE
