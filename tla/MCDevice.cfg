SPECIFICATION Spec
CONSTANTS
  k = k
  l = l
  ADDR_BITS = 1
  Family = {4, 6}
  Key = {k, l}
  Given <- MCGiven
  INBOUND_QUEUE_CAPACITY = 1
  MaxNets = 2
  MaxRegistration = 3
SYMMETRY Symmetry
INVARIANTS HandlesAreCurrent PeersAgree
PROPERTIES ImplementsRouting TrafficFollowsRoutes
