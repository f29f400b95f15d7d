CONSTANTS
  NoCpu = NoCpu
  Cpu = {c1, c2, c3}
SPECIFICATION SpinFairSpec
INVARIANTS SpinInv
PROPERTIES ImplementsAtomicLock SomeoneGetsIn
