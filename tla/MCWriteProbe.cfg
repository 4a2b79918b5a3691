\* Two containers of two workers: a probe can meet one of its own container's,
\* one of the other's, or the file a kill has left.
CONSTANTS
  Containers = {k1, k2}
  Workers = 2
  NoThread = NoThread
SPECIFICATION Spec
INVARIANTS
  TypeOK
  ProbeTruthful
  BootProbeTruthful
SYMMETRY Symmetry
