CONSTANTS
  Process = {p1, p2}
  Size = 2
  Files = 2
  MaxLoads = 2
SPECIFICATION Spec
INVARIANTS EntriesBacked CopiesInBuffer FailedLoads
CHECK_DEADLOCK FALSE
