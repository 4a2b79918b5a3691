\* Up to four texts of up to three tokens, whose single costs are 2, 6 and 12:
\* budgets below a single text, of exactly one, between and for all of them;
\* every reading of the ceiling below, at and above the guard's threshold.
CONSTANTS
  MaxTexts = 4
  MaxLen = 3
  Budgets = {1, 6, 13, 24, 48}
  MinBudget = 3
  LinearCost = 1
  QuadCost = 1
  GuardSeq = 3
  Ceilings = {0, 2, 3}
SPECIFICATION Spec
INVARIANTS
  TypeOK
  RunsFit
  EveryTextEmbedded
  RefusedUnrun
CHECK_DEADLOCK FALSE
