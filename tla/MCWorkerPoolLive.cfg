\* The smallest pool with contention: two workers, two embed callers and one
\* maintenance call.  No symmetry, for liveness.
CONSTANTS
  N = 2
  CapacityPerWorker = 1
  EmbedRequests = {e1, e2}
  MaintenanceRequests = {p1}
  NoRequest = NoRequest
  Threshold = 2
  IdleTimeoutOn = TRUE
  TensorRt = FALSE
  Unwind = TRUE
SPECIFICATION FairSpec
PROPERTIES
  EveryCallReturns
  ShutdownCompletes
CHECK_DEADLOCK FALSE
