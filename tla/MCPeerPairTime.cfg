SPECIFICATION Spec
CONSTANTS
  a = a
  b = b
  k1 = k1
  k2 = k2
  Node = {a, b}
  Initiators = {a}
  Psk = {k1, k2}
  Window = 1
  Limit = 1
  REJECT_AFTER_TIME = 2
  MaxSerial = 2
  MaxTimestamp = 2
  MaxTime = 4
  MaxRestart = 1
INVARIANTS AcceptedIsRecent KeyConfirmed NoiseAgrees
SYMMETRY SymPsk
CHECK_DEADLOCK FALSE
