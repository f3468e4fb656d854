\* One reader registered before publishing, one that comes, goes or dies at will.
SPECIFICATION Spec
CONSTANTS
  RingSize = 4
  MaxConsumers = 2
  Word = 16
  N = 6
  Readers = {a, x}
  Early = {a}
  FromNow = {}
  Mortal = {x}
INVARIANTS
  TypeOK
  SlotExclusive
  JoinInTime
  ExactlyOnceInOrder
  NoDataRace
  UnreadIntact
  
  IInv
PROPERTY ImplementsPubSub
