\* Batches of two threads, four clients: two batches.
SPECIFICATION FairSpec
CONSTANTS
  Batch = 2
  Slots = 3
  Connections = 4
INVARIANTS
  SlotsConsistent
PROPERTY
  BatchEnds
CHECK_DEADLOCK FALSE
