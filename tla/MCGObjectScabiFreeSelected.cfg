\* A record's release selected as a member under the name its document gives it.
CONSTANTS
  Plans <- ReleaseSelected
  None = None
  NativeCall = NativeCall
  Process = Process
  Result = Result
SPECIFICATION Spec
INVARIANT ReleasedOnce
CHECK_DEADLOCK FALSE
