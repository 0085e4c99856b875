\* A header is saved while a tool reads it: what is recorded is not what it read.
CONSTANTS
  Builds = {b1, b2}
  HeaderCount = 1
  MaxEdits = 1
  EditsDuringAction = TRUE
  Crashes = FALSE
SPECIFICATION Spec
INVARIANTS HitIsCurrent
CHECK_DEADLOCK FALSE
