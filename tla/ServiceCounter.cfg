\* One counter or two, a queue of two places, five customers.
SPECIFICATION FairSpec
CONSTANTS
  NumberOfCustomers = 5
  MaxBufferSize = 2
  k1 = k1
  k2 = k2
  Counters <- TwoCounters
  Customer = customer
  Free = free
INVARIANTS
  TypeOK
  MutexDiscipline
  NoLostWakeup
  CustomerNeverBlocks
  CountMatchesQueue
  CustomersInOrder
PROPERTIES
  ImplementsWaitingRoom
  EveryoneSettled
  OneCounterCloses
