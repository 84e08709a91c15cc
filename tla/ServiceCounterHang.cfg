\* Two counters: one of them can be left asleep when the last customer is gone.
SPECIFICATION FairSpec
CONSTANTS
  NumberOfCustomers = 2
  MaxBufferSize = 1
  k1 = k1
  k2 = k2
  Counters <- TwoCounters
  Customer = customer
  Free = free
PROPERTY
  ShopCloses
