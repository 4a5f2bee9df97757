SPECIFICATION Spec
CONSTANTS
  k = k
  i = i
  c = c
  d = d
  Key = {k}
  Index = {i}
  Caller = {c, d}
  MayClose = TRUE
  PEER_ACTION_QUEUE_CAPACITY = 1
  MaxActor = 1
INVARIANT ErrorNamesCause
PROPERTY OrphanStops
CHECK_DEADLOCK FALSE
