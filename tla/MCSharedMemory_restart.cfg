\* Two producers in turn and two consumers for one slot, all of which may fail
\* and, but for the second producer, be killed.
SPECIFICATION FairSpec
CONSTANTS
  p1 = p1
  p2 = p2
  c1 = c1
  c2 = c2
  None = None
  Producers = {p1, p2}
  Consumers = {c1, c2}
  MaxConsumers = 1
  RingSize = 2
  Word = 16
  N = 3
  Faulty = {p1, p2, c1, c2}
  Mortal = {p1, c1, c2}
INVARIANTS
  TypeOK
  NothingLeaked
  SlotsOwned
  PunctualInOrder
PROPERTIES
  
  PunctualFinishes
