CONSTANTS
  Masters = {"read", "write"}
  Irqs = {"never"}
  Depth = 2
  ResponseDepth = 0
  Bursts = FALSE
  HostChecks = TRUE
  HostUses = {"park", "early_done", "stop_descriptors"}
SPECIFICATION Spec
PROPERTIES ImplementsQueue
