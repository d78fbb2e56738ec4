SPECIFICATION Spec
CONSTANTS
  Schedules = {"a", "b"}
  Values = {0, 1}
  Gappy = {"b"}
  Shapes <- MCShapes
  Kind <- MCKind
  ScheduleOf <- MCScheduleOf
  Full = 4
  OffRate <- MCOffRate
  OnRate <- MCOnRate
  Gap = Gap
  Start = 1
  LastClock = 7
  Holds = {2, 3}
  TS_NEVER = 100
INVARIANTS StateConsistent LoadIsCurrent
PROPERTIES PulseLength
CHECK_DEADLOCK FALSE
