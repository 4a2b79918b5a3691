\* One worker and one client are enough: after a probe, whatever its outcome, the
\* readiness call is answered with an error.
CONSTANTS
  CfgWorkers = 1
  N = 1
  CapacityPerWorker = 1
  Clients = {c1}
  Canary = Canary
  Boot = Boot
  ProbeShapes = 2
SPECIFICATION FairSpec
PROPERTIES
  BootEndsReadyOrExits
