SPECIFICATION PSpec
CONSTANTS
  N = 3
  Files <- MCNoReferences
  MaxCalls = 2
  PassConfig <- MCPassConfig
  FirstSize = 1
INVARIANTS NoParentLoop
