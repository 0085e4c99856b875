\* A namespace alone and over the one it extends, one probed member at a time.
CONSTANTS
  Plans <- AllPlans
  None = None
  NativeCall = NativeCall
  Process = Process
  Result = Result
SPECIFICATION Spec
INVARIANTS ReleasedOnce AdapterIsExact UpcastsAreHierarchy GeneratedIsCallable
CHECK_DEADLOCK FALSE
