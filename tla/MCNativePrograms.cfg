\* Packages over packages, selected in part and listed in every order.
CONSTANTS
  Families <- SmallBuilds
  None = None
  NativeCall = NativeCall
  Process = Process
  Result = Result
SPECIFICATION Spec
INVARIANTS CompositionIgnoresOrder CyclesAreTraced NothingDangles
CHECK_DEADLOCK FALSE
