\* Three processes of three weights.
SPECIFICATION Spec
CONSTANTS
  N = 3
  Arrivals <- Times
  Bursts <- Lengths
  Nices <- NiceValues
INVARIANTS
  TreeConsistent
  ChargedForTimeRun
PROPERTY
  ImplementsUniProcessor
CHECK_DEADLOCK FALSE
