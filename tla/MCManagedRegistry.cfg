\* Two peers, three registrations, a realm that is invalidated and deleted.
CONSTANTS
  Nodes = {n1, n2}
  MaxPeers = 2
  MaxListens = 3
  MaxClaims = 1
SPECIFICATION Spec
INVARIANTS PeersExact RegistrationsExact
CHECK_DEADLOCK FALSE
