SPECIFICATION Spec
CONSTANTS
  d = d
  m = m
  Consumers = {d, m}
  DemoThreads = {d}
  Capacity <- CapacityOf
  Skew <- SkewOf
  RingSize = 2
  N = 4
  Word = 16
  Start = 15
  MaxTime = 2
INVARIANTS
  TypeOK
  TalliesAgree
  SamplesFaithful
  
