----------------------------- MODULE MCAuction ------------------------------
(* Four markets of two buyers and a seller, with every kind of latency: none,*)
(* shorter than a period, no multiple of it, and two periods.  The buyer   *)
(* may also withdraw: a resubmission of nothing.                           *)
EXTENDS Auction

Bid(price, quantity) == [price |-> price, quantity |-> quantity]
MCBidsOf == [b \in Bidders |->
    CASE b = "b" -> {Bid(8, 2), Bid(8, 0)}
      [] b = "c" -> {Bid(8, 1)}
      [] b = "s" -> {Bid(4, 1)}]
MCModes == {[kind |-> "NONE", price |-> 0, quantity |-> 0]}
MCStale == {0}
MCStatistics == << [mode |-> "CURR", need |-> 1], [mode |-> "PAST", need |-> 1] >>
=============================================================================
