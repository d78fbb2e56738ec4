SPECIFICATION Spec
CONSTANTS
  MonthDays <- MCMonthDays
  Hours = 2
  Minutes = 3
  Weekdays = 2
  MaxBlocks = 2
  MaxValues = 3
  MaxDelta = 4
  Definitions <- MCDefinitions
  Files <- MCFiles
  ThreadCounts <- MCThreadCounts
  FirstWeekday = 0
  LeapYears = {1}
  LastYear = 2
  AverageYear = 240
  Starts = {4, 5, 6, 7}
  Skew <- MCSkew
INVARIANTS TableIsDefinition ValueIsCurrent SkewIsPast
PROPERTIES CreationEnds
