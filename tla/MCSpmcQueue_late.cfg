SPECIFICATION Spec
CONSTANTS
  RingSize = 2
  MaxConsumers = 2
  Word = 16
  N = 4
  Readers = {a, x}
  Early = {a}
  FromNow = {}
  Mortal = {}
INVARIANT EveryConsumerSeesEveryMessage
