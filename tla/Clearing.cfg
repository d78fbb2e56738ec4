SPECIFICATION Spec
CONSTANTS
  pricecap = 20
  bid_offset = 6
  Buyers = {"b1", "b2"}
  Sellers = {"s1", "s2"}
  BidsOf <- MCBidsOf
  Modes <- MCModes
  StalePrices <- MCStale
  period = 2
  Latencies = {0}
  Starts = {1}
  LastClock = 2
  Statistics <- MCStatistics
  init_price = 0
  WarmupSamples = 0
  KeyBids = 8
INVARIANTS MaxVolume Willing BuyerShare
