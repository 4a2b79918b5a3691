\* Two workers, two tiers of which the second is dangerous (the workers' shards
\* are {1} and {2}) and a broadcast channel of one message, so that it lags.
CONSTANTS
  N = 2
  MaxTier = 2
  GuardSeq = 2
  PropCapacity = 1
  Faults = TRUE
SPECIFICATION Spec
INVARIANTS
  TypeOK
  CeilingSound
  NoInbandCompile
