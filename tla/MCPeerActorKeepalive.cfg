SPECIFICATION Spec
CONSTANTS
  REKEY_TIMEOUT = 2
  REKEY_TIMEOUT_JITTER_MAX = 1
  REKEY_ATTEMPT_TIME = 3
  REKEY_AFTER_TIME = 1
  REJECT_AFTER_TIME = 4
  KEEPALIVE_TIMEOUT = 1
  REKEY_AFTER_MESSAGES = 2
  REJECT_AFTER_MESSAGES = 3
  MAX_STAGED_PACKETS = 1
  Intervals = {0}
  CountMessages = TRUE
  Ids = {s}
  MaxBatch = 2
INVARIANT NeverSpins
