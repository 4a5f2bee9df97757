SPECIFICATION Spec
CONSTANTS
  COUNTER_BLOCK_BITS = 2
  COUNTER_BLOCKS = 3
  REJECT_AFTER_MESSAGES = 13
  Counters <- MCCounters
INVARIANT RingExact
PROPERTY ImplementsWindow
