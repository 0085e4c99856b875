\* Chains, interfaces, signatures, callbacks, fields and names, one family at a time.
CONSTANTS
  Plans <- AllPlans
  Lower <- LowerCase
  SuperName <- SuperCase
  Object <- ObjectName
  NoArgs = "()V"
  None = None
  NativeCall = NativeCall
  Process = Process
  Result = Result
SPECIFICATION Spec
INVARIANTS AncestryIsComplete SelectedIsReachable UpcastsAreSupertypes AdapterIsExact GeneratedIsCallable
CHECK_DEADLOCK FALSE
