CONSTANTS
  Masters = {"write"}
  Irqs = {"never", "complete"}
  Depth = 2
  ResponseDepth = 4
  Bursts = TRUE
  HostChecks = TRUE
  HostUses = {"stop", "stop_on_error", "irq_enable", "reset"}
SPECIFICATION FairSpec
INVARIANTS MaskOfTransfer BusyUntilDone StoppedMeansStop
PROPERTIES ImplementsQueue Served
