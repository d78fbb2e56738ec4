SPECIFICATION FairSpec
CONSTANTS
  Objects <- MCObjects
  RankLists <- MCRankLists
  Slots <- MCSlots
  InSvc <- MCInSvc
  OutSvc <- MCOutSvc
  StartTime = 2
  IterationLimit = 2
  Globals <- MCGlobals
  LastTime = 4
  Never = 99
INVARIANTS StepIsEarliest StopsWhenDone ErrorsStop
PROPERTIES Converges
