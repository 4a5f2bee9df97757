SPECIFICATION Spec
CONSTANTS
  k = k
  l = l
  i = i
  j = j
  c = c
  Key = {k, l}
  Index = {i}
  Caller = {}
  MayClose = FALSE
  PEER_ACTION_QUEUE_CAPACITY = 1
  MaxActor = 2
INVARIANTS TypeOK NoDeadRoute HeldIsRouted
PROPERTY RouteKept
