\* A closure captures the claim on another registration.
CONSTANTS
  Nodes = {n1, n2}
  MaxPeers = 2
  MaxListens = 3
  MaxClaims = 1
SPECIFICATION Spec
INVARIANTS RemovedBeforeRoots
CHECK_DEADLOCK FALSE
