\* One worker and two tiers; the dangerous one fails at the start-up.
CONSTANTS
  N = 1
  MaxTier = 2
  GuardSeq = 2
  PropCapacity = 1
  Faults = FALSE
SPECIFICATION FairSpec
PROPERTIES
  SelfHealing
