\* Two connections in quick succession: both threads serve the second.
SPECIFICATION Spec
CONSTANTS
  Batch = 2
  Slots = 3
  Connections = 2
INVARIANT
  OneThreadPerConnection
CHECK_DEADLOCK FALSE
