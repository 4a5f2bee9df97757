SPECIFICATION Spec
CONSTANTS
  P = P
  Q = Q
  Net1 = Net1
  Net2 = Net2
  Secret = Secret
  Addr = Addr
  Host = Host
  Bad = Bad
  Empty = Empty
  DEFAULT_PORT = 51820
  DEFAULT_MTU = 50
  TRANSPORT_PADDING_MULTIPLE = 16
  MAX_PLAINTEXT_SIZE = 48
  TRANSPORT_OVERHEAD = 32
  INIT_MSG_LENGTH = 148
  MAX_MESSAGE_SIZE = 150
  BATCH_SIZE = 2
  MAX_GSO_SEGMENTS = 2
  PEER_ACTION_QUEUE_CAPACITY = 2
  MAX_STAGED_PACKETS = 2
  INBOUND_QUEUE_CAPACITY = 2
  MaxPackets = 3
  MaxCredit = 2
  Files <- MCFiles
  Plain <- MCPlain
  Odd <- MCOdd
  Routed <- MCRouted
INVARIANTS ConfigMeansFile InOrder NothingVanishes OldestIsDropped LengthRestored SendFits
CHECK_DEADLOCK FALSE
