\* Everything validateArtifactGraph lets through can be executed, also under
\* an abort and a deadline.
CONSTANTS
  Graphs <- SmallGraphs
  Concurrency = 2
  CacheBound = TRUE
  ActionTimeout = TRUE
  MayAbort = TRUE
SPECIFICATION Spec
INVARIANTS LaunchedIsDue OrderNeverLost AcceptedIsExecutable
PROPERTIES ExecutionEnds
CHECK_DEADLOCK FALSE
