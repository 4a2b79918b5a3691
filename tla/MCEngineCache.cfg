\* Two containers, one of them with the GC on, on hosts of the same or of two
\* compute capabilities; two shapes each, so that a sweep rewrites what it has
\* flushed.  The cache outlives the restarts.
CONSTANTS
  Tasks = {t1, t2}
  Sms = {sm89, sm120}
  GcTasks = {t1}
  ShapesRun = 2
  NoTask = NoTask
  NoSm = NoSm
SPECIFICATION Spec
INVARIANTS
  TypeOK
  ReportedSurvives
  ExitZeroHonest
SYMMETRY Symmetry
