CONSTANTS
  WordMod = 8
  MaxWords = 4
  MinLoops = 2
  FlushMayFail = TRUE
SPECIFICATION FairSpec
INVARIANTS HandoverInv BufferExclusion NoWordLost ValidateNeverFails
PROPERTIES ImplementsExchange Ends
