SPECIFICATION FairSpec
CONSTANTS
  RingSize = 2
  MaxConsumers = 1
  Word = 16
  N = 3
  Readers = {a}
  Early = {a}
  FromNow = {}
  Mortal = {}
PROPERTY UnregisterDoesNotBlockProducer
