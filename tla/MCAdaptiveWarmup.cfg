\* Three shapes for a budget of one and a channel of two slots: the channel
\* overflows, the budget runs out, and two hours meet within one.
CONSTANTS
  Shapes = {s1, s2, s3}
  ChannelCapacity = 2
  MaxShapesPerHour = 1
  QuietSecs = 2
  Hour = 2
SPECIFICATION FairSpec
INVARIANTS
  TypeOK
  PendingFresh
  HourlyBudget
PROPERTIES
  SuspectsAreTried
  TaskEnds
