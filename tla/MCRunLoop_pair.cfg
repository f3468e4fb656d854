SPECIFICATION FairSpec
CONSTANTS
  s = s
  y = y
  b = b
  d = d
  ProducerId = p
  Consumers = {b, d}
  Strategy <- StrategyOf
  MaxMessages <- Unlimited
  RingSize = 4
  N = 3
  SpinLimit = 1
  Timeouts = FALSE
  Threads = TRUE
  ProducerMayStop = FALSE
PROPERTIES
  ShutdownWakesEveryone
CHECK_DEADLOCK FALSE
