SPECIFICATION Spec
CONSTANTS
  pricecap = 20
  bid_offset = 1
  Buyers = {"b", "c"}
  Sellers = {"s"}
  BidsOf <- MCBidsOf
  Modes <- MCModes
  StalePrices <- MCStale
  period = 2
  Latencies = {0, 1, 3, 4}
  Starts = {1}
  LastClock = 8
  Statistics <- MCStatistics
  init_price = 6
  WarmupSamples = 1
  KeyBids = 4
INVARIANTS BidsStand PendingInOrder FrameInForce StatisticsExact
PROPERTIES OneAfterAnother
