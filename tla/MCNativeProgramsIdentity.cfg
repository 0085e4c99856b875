\* The same packages, against the diagnostic of a static identity.
CONSTANTS
  Families <- SmallBuilds
  None = None
  NativeCall = NativeCall
  Process = Process
  Result = Result
SPECIFICATION Spec
INVARIANT IdentitiesArrive
CHECK_DEADLOCK FALSE
