\* A String that only comes back: its bridge is called and not generated.
CONSTANTS
  Plans <- AllPlans
  Lower <- LowerCase
  SuperName <- SuperCase
  Object <- ObjectName
  NoArgs = "()V"
  None = None
  NativeCall = NativeCall
  Process = Process
  Result = Result
SPECIFICATION Spec
INVARIANTS HelpersDefined
CHECK_DEADLOCK FALSE
