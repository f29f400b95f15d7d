CONSTANTS
  Tests = 3
  Buffers = 5
  Depth = 2
  InFlight = 2
SPECIFICATION FairSpec
INVARIANTS VerifiesThisTest HardwareAtRest InterruptPerTest
PROPERTIES TestsPass
