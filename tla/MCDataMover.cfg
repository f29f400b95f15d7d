CONSTANTS
  Words = 2
  FifoDepth = 1
  MuxPipelined = TRUE
SPECIFICATION FairSpec
INVARIANTS BufferStable Aligned NoOverflow OutputStable
PROPERTIES Served
