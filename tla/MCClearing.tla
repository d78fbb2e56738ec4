----------------------------- MODULE MCClearing -----------------------------
(* One market: many bids, each kind of auction, and a bid in every region  *)
(* of the prices.                                                          *)
EXTENDS Auction

Bid(price, quantity) == [price |-> price, quantity |-> quantity]
MCBidsOf == [b \in Bidders |->
    CASE b = "b1" -> {Bid(24, 2), Bid(16, 2), Bid(8, 2), Bid(8, 0), Bid(4, 3)}
      [] b = "b2" -> {Bid(8, 1), Bid(4, 2), Bid(20, 1), Bid(-24, 1)}
      [] b = "s1" -> {Bid(-20, 1), Bid(-16, 2), Bid(4, 2), Bid(8, 2), Bid(20, 1)}
      [] b = "s2" -> {Bid(4, 2), Bid(-8, 1), Bid(-24, 1), Bid(12, 2), Bid(-20, 2)}
      [] b = "s3" -> {Bid(8, 1), Bid(4, 2), Bid(-20, 2)}]
MCModes == {[kind |-> "NONE", price |-> 0, quantity |-> 0],
            [kind |-> "SELLERS", price |-> 4, quantity |-> 0],
            [kind |-> "SELLERS", price |-> 4, quantity |-> 3],
            [kind |-> "BUYERS", price |-> 8, quantity |-> 0],
            [kind |-> "BUYERS", price |-> 8, quantity |-> 2],
            [kind |-> "FIXED_SELLER", price |-> 8, quantity |-> 2],
            [kind |-> "FIXED_BUYER", price |-> 4, quantity |-> 2]}
MCStale == {-20, 6, 20}
MCStatistics == <<>>
=============================================================================
