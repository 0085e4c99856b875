\* A restore while another build replaces a stale entry.
CONSTANTS
  Builds = {b1, b2, b3}
  HeaderCount = 1
  MaxEdits = 1
  EditsDuringAction = FALSE
  Crashes = FALSE
SPECIFICATION Spec
INVARIANTS NoFailedBuild
CHECK_DEADLOCK FALSE
