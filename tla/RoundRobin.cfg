\* Four processes, round robin and every mix of the multi-level queue.
SPECIFICATION FairSpec
CONSTANTS
  N = 4
  Quantum = 2
  Arrivals <- Times
  Bursts <- Lengths
INVARIANTS
  WaitsAreTrue
  FifoWhenShort
PROPERTIES
  IdleOnlyWhenEmpty
  TakeTurns
  AllFinish
CHECK_DEADLOCK FALSE
