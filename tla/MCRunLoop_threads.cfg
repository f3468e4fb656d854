SPECIFICATION FairSpec
CONSTANTS
  s = s
  y = y
  b = b
  d = d
  ProducerId = p
  Consumers = {s, y, b}
  Strategy <- StrategyOf
  MaxMessages <- YielderLeavesEarly
  RingSize = 2
  N = 3
  SpinLimit = 1
  Timeouts = FALSE
  Threads = TRUE
  ProducerMayStop = FALSE
INVARIANTS
  TypeOK
  CleanExit
  QuotaKept
  NoMissedWakeup
PROPERTIES
  EveryoneLeaves
