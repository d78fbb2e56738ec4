SPECIFICATION RunSpec
CONSTANTS
  Interval = 2
  LastTime = 6
  MaxSeq = 4
  MaxRuns = 3
INVARIANTS HandlersNest OneFile
PROPERTIES ProgressKept Spaced
CHECK_DEADLOCK FALSE
