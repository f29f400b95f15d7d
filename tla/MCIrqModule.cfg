CONSTANTS
  Reader = {r1, r2}
  Cpu = {c1}
  MaxTime = 3
SPECIFICATION FairSpec
INVARIANTS StatsSinceReset CountsTellIrq DeltaOfCount
PROPERTIES NoLostWakeup
