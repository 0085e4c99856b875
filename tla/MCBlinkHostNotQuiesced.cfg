\* A service that does not quiesce keeps the deleted host as wake context.
CONSTANTS
  MaxHosts = 2
  MaxJobs = 2
  MaxListeners = 2
  MaxPending = 1
  MaxDepth = 4
SPECIFICATION Spec
INVARIANTS WakeContextLive
CHECK_DEADLOCK FALSE
