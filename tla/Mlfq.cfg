\* Three processes around the borders of the three bands.
SPECIFICATION Spec
CONSTANTS
  N = 3
  Arrivals <- Times
  Bursts <- Lengths
  Prts <- Priorities
INVARIANTS
  QueuesConsistent
  BestRuns
PROPERTIES
  PriorityMoves
  FirstComeFirstRun
  ImplementsUniProcessor
CHECK_DEADLOCK FALSE
