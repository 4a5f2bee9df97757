SPECIFICATION Spec
CONSTANTS
  REKEY_TIMEOUT = 1
  REKEY_TIMEOUT_JITTER_MAX = 1
  REKEY_ATTEMPT_TIME = 2
  REKEY_AFTER_TIME = 4
  REJECT_AFTER_TIME = 6
  KEEPALIVE_TIMEOUT = 1
  REKEY_AFTER_MESSAGES = 1
  REJECT_AFTER_MESSAGES = 2
  MAX_STAGED_PACKETS = 1
  Intervals = {}
  CountMessages = FALSE
  Ids = {1, 2, 3, 4, 5, 6, 7, 8, 9, 10, 11, 12, 13, 14, 15, 16, 17}
  Node = {a, b}
  Configured = {a, b}
  Sender = {a}
  MaxFaults = 2
INVARIANTS RecoversInTime NoNeedlessHandshake
