\* Two workers, a channel of two slots and three callers, one of them a probe:
\* the channel fills up, a worker can fail twice in a row, and /health is asked
\* at any moment.
CONSTANTS
  N = 2
  Total = 2
  CapacityPerWorker = 1
  EmbedRequests = {e1, e2}
  MaintenanceRequests = {p1}
  NoRequest = NoRequest
  Threshold = 2
  IdleTimeoutOn = TRUE
  TensorRt = TRUE
  Unwind = TRUE
SPECIFICATION HealthSpec
INVARIANTS
  TypeOK
  LiveAccounting
  LoadedAccounting
  RequestConservation
  SessionsGoneAtZero
  HealthTruthful
PROPERTIES
  PoolIsAService
  FollowsDiagram
SYMMETRY Symmetry
CHECK_DEADLOCK FALSE
