CONSTANTS
  Tests = 2
  Saves = 3
  MaxSeq = 6
  Kept = 3
  Modulus = 4
SPECIFICATION FairSpec
INVARIANTS RecordWhole DropsCounted EvaluatesThisTest
PROPERTIES SavedInOrder Finishes
