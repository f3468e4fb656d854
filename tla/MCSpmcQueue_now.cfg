SPECIFICATION FairSpec
CONSTANTS
  RingSize = 2
  MaxConsumers = 2
  Word = 16
  N = 3
  Readers = {a, x}
  Early = {a, x}
  FromNow = {x}
  Mortal = {}
PROPERTY StartsFromNow
