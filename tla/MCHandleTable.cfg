CONSTANTS
  Tokens = {t1, t2, t3, t4, t5}
  NoToken = NoToken
  Types <- MCTypes
  Accepts <- MCAccepts
  SlotLimit = 3
  MaxGeneration = 3
  MaxReferences = 2
SYMMETRY TokenSymmetry
SPECIFICATION Spec
INVARIANTS
  FreeListComplete
  TokenOwnership
  StaleHandleRejected
PROPERTIES
  ImplementsHandleSpace
\* A destroyed table takes no more calls.
CHECK_DEADLOCK FALSE
