\* The same namespaces, against what a test says of a collapsed release.
CONSTANTS
  Plans <- AllPlans
  None = None
  NativeCall = NativeCall
  Process = Process
  Result = Result
SPECIFICATION Spec
INVARIANT GeneratedIsValid
CHECK_DEADLOCK FALSE
