\* A delivered callback stops an executable.
CONSTANTS
  Products = {"executable"}
  Packages = 2
  Producers = {p1, p2}
  MaxAdmissions = 3
  MaxStarts = 2
  StopInTurn = TRUE
  HostedRestart = FALSE
SPECIFICATION Spec
INVARIANTS EnvIsLive
CHECK_DEADLOCK FALSE
