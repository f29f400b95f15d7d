SPECIFICATION FairSpec
CONSTANTS
  FifoDepth = 8
  MaxBurst = 2
  Wrapping = TRUE
  WordBytes = 2
  Starts = {1}
  Lengths = {3, 17}
  MaxCommands = 2
INVARIANTS
  ReadsHaveRoom
PROPERTIES
  ImplementsStream Answered
