CONSTANTS
  Masters = {"read", "write"}
  Irqs = {"never"}
  Depth = 2
  ResponseDepth = 0
  Bursts = TRUE
  HostChecks = TRUE
  HostUses = {"reset"}
SPECIFICATION Spec
INVARIANTS IdleIsReady
