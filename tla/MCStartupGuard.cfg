SPECIFICATION Spec
CONSTANTS
  Unset = Unset
  Deployments <- DefaultGpuDeployment
  RssDeltas = {20000}
  FailingSeqs = {128}
  Coefficients <- SomeCoefficients
INVARIANT
  OnlyFailedTiersUncovered
