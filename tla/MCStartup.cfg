SPECIFICATION Spec
CONSTANTS
  Unset = Unset
  Deployments <- SmallDeployments
  RssDeltas = {0, 20000, 70000}
  FailingSeqs = {2, 8}
  Coefficients <- SomeCoefficients
INVARIANTS
  TypeOK
  BudgetFits
  LongestTextFits
  OneOutlierIgnored
  OwnDevice
  ShardsPartition
  GridCovered
