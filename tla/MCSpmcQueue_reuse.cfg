\* Three readers contend for two consumer slots.
SPECIFICATION FairSpec
CONSTANTS
  RingSize = 2
  MaxConsumers = 2
  Word = 16
  N = 3
  Readers = {a, b, x}
  Early = {a, b}
  FromNow = {x}
  Mortal = {}
INVARIANTS
  SlotExclusive
  ExactlyOnceInOrder
  UnreadIntact
PROPERTIES
  EarlyDelivery
  ProducerFinishes
