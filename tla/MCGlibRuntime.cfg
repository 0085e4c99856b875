\* The program may shut down with events queued and handlers connected.
CONSTANTS
  Producers = {p1, p2}
  MaxAdmissions = 3
  MaxAdapters = 2
SPECIFICATION Spec
INVARIANTS AdaptersExact
PROPERTIES EventsDelivered StopEnds
\* The loop ends and the application is shut down.
CHECK_DEADLOCK FALSE
