\* Headers change between tool runs, entries go stale and are replaced, and
\* a build may die between any two calls.
CONSTANTS
  Builds = {b1, b2, b3}
  HeaderCount = 2
  MaxEdits = 1
  EditsDuringAction = FALSE
  Crashes = TRUE
SPECIFICATION Spec
INVARIANTS HitIsCurrent RaceSettles
PROPERTIES EveryBuildEnds
CHECK_DEADLOCK FALSE
