\* The same packages, against what validation says of the error entries.
CONSTANTS
  Families <- SmallBuilds
  None = None
  NativeCall = NativeCall
  Process = Process
  Result = Result
SPECIFICATION Spec
INVARIANT SymbolsAreBuilt
CHECK_DEADLOCK FALSE
