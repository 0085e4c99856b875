\* A closure captures a node.
CONSTANTS
  Nodes = {n1, n2}
  MaxPeers = 2
  MaxListens = 2
  MaxClaims = 1
SPECIFICATION Spec
INVARIANTS IndexChecksHold
CHECK_DEADLOCK FALSE
