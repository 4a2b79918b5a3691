\* Two configured workers on one thread: one permit without a probe, so that the
\* second client waits at the gate; none during the probe, two after it, so that
\* one request fills the channel while the other is served.  No symmetry, for
\* liveness.
CONSTANTS
  CfgWorkers = 2
  N = 1
  CapacityPerWorker = 1
  Clients = {c1, c2}
  Canary = Canary
  Boot = Boot
  ProbeShapes = 2
SPECIFICATION FairSpec
INVARIANTS
  TypeOK
  PermitAccounting
  ProbeAlone
  TrafficIsTuned
PROPERTIES
  EveryRequestAnswered
