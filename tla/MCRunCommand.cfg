SPECIFICATION CommandSpec
INVARIANTS SettledIsDone
PROPERTIES RejectedChildEnds DeadlineSettles
\* The promise settles and the process ends.
CHECK_DEADLOCK FALSE
