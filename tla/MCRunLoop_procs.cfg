SPECIFICATION FairSpec
CONSTANTS
  s = s
  y = y
  b = b
  d = d
  ProducerId = p
  Consumers = {y, b}
  Strategy <- StrategyOf
  MaxMessages <- OneLess
  RingSize = 2
  N = 4
  SpinLimit = 1
  Timeouts = TRUE
  Threads = FALSE
  ProducerMayStop = TRUE
PROPERTIES
  EveryoneLeaves
  SurvivorsCatchUp
