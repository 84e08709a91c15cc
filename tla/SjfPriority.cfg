\* Four processes, sjf_sched and then each of the three policies.
SPECIFICATION Spec
CONSTANTS
  N = 4
  Arrivals <- Times
  Bursts <- Lengths
  Prts <- Priorities
INVARIANTS
  BestRuns
  TrueTable
PROPERTIES
  ShortestFirst
  FairAmongEquals
  ImplementsUniProcessor
CHECK_DEADLOCK FALSE
