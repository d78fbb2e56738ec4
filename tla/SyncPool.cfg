SPECIFICATION FairSpec
CONSTANTS
  i1 = i1
  i2 = i2
  i3 = i3
  a = a
  b = b
  Kinds <- MCKinds
  Items <- MCItems
  Period <- MCPeriod
  Minute = 3
  Horizon = 1
  Back = 1
  Workers <- MCWorkers
  ItemsOf <- MCItemsOf
  FirstTime = 4
  LastTime = 10
  MaxCalls = 4
  Never = 99
  Main = Main
  Free = Free
INVARIANTS ReturnsNextChange NothingMissed
PROPERTIES CallReturns
