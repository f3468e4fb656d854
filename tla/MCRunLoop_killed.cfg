SPECIFICATION FairSpec
CONSTANTS
  s = s
  y = y
  b = b
  d = d
  ProducerId = p
  Consumers = {s, b}
  Strategy <- StrategyOf
  MaxMessages <- AllMessages
  RingSize = 2
  N = 3
  SpinLimit = 1
  Timeouts = TRUE
  Threads = FALSE
  ProducerMayStop = TRUE
PROPERTIES
  ExitIfProducerStops
CHECK_DEADLOCK FALSE
