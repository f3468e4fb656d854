\* One producer, one consumer, no failures.
SPECIFICATION Spec
CONSTANTS
  p1 = p1
  p2 = p2
  c1 = c1
  c2 = c2
  None = None
  Producers = {p1}
  Consumers = {c1}
  MaxConsumers = 1
  RingSize = 2
  Word = 16
  N = 3
  Faulty = {}
  Mortal = {}
INVARIANT RegisteredInConstructedQueue
