SPECIFICATION PSpec
CONSTANTS
  N = 3
  Files <- MCFiles
  MaxCalls = 2
  PassConfig <- MCPassConfig
  FirstSize = 1
INVARIANTS VisitedOnce ParentsInOrder
PROPERTIES SweepEnds
