SPECIFICATION FairSpec
CONSTANTS
  a0 = a0
  a1 = a1
  b0 = b0
  b1 = b1
  Workers <- MCWorkers
  ListOf <- MCListOf
  SlotOf <- MCSlotOf
  Load <- MCLoad
  Lists = 2
  Wrap = 2
  MaxIterations = 3
  MaxSpurious = 1
  CreationMayFail = FALSE
  Main = Main
  Free = Free
INVARIANTS SlotExclusive NoLostWakeup
PROPERTIES SweepSpec StartReturns
