\* All three products; the program stops the runtime outside a turn.
CONSTANTS
  Products = {"executable", "spawned", "inPlace"}
  Packages = 2
  Producers = {p1, p2}
  MaxAdmissions = 3
  MaxStarts = 2
  StopInTurn = FALSE
  HostedRestart = FALSE
SPECIFICATION Spec
INVARIANTS EnvIsLive ReadyWhenReported
PROPERTIES LoadReturns FailedStartUndone EventsDelivered
\* The process ends, or waits for a platform that need not call.
CHECK_DEADLOCK FALSE
