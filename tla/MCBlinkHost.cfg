\* Hosts after one another or at once, with calls nested four deep.
CONSTANTS
  MaxHosts = 2
  MaxJobs = 2
  MaxListeners = 2
  MaxPending = 1
  MaxDepth = 4
SPECIFICATION Spec
INVARIANTS RealmPointersLive AdmissionOwned
PROPERTIES EntersLiveRealm JobsSettle
CHECK_DEADLOCK FALSE
