\* An adopted program stops and starts again.
CONSTANTS
  Products = {"spawned"}
  Packages = 2
  Producers = {p1, p2}
  MaxAdmissions = 3
  MaxStarts = 2
  StopInTurn = FALSE
  HostedRestart = TRUE
SPECIFICATION Spec
INVARIANTS StartedIsServed
CHECK_DEADLOCK FALSE
