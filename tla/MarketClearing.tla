--------------------------- MODULE MarketClearing ---------------------------
(***************************************************************************)
(* How an auction clears (market/auction.cpp, clear_market, and            *)
(* market/curve.cpp): the two curves are sorted, walked in parallel until  *)
(* the next ask is below the next offer, and the place where they part     *)
(* decides the type of the clearing, its price and what share of the       *)
(* marginal bids is served.                                                *)
(*                                                                         *)
(* A bid is a record with a price and a quantity.  Prices are numbers, in  *)
(* a unit in which the middle of two prices is one as well: TLC's are      *)
(* multiples of four.                                                      *)
(*                                                                         *)
(* Definitions named <definition>_<Word> are mutations of the definition   *)
(* that follows them; nothing uses them.                                   *)
(***************************************************************************)
EXTENDS Integers, Sequences, FiniteSetsExt, SequencesExt

CONSTANTS pricecap,    \* the largest price; a bid there is unresponsive
          bid_offset   \* "just off" a price

ASSUME PriceAssumption == pricecap \in Nat \ {0} /\ bid_offset \in Nat

Indices(s) == [k \in DOMAIN s |-> k]

(* The order of two keys: of equals, the merge of the asks takes the left  *)
(* one, that of the offers the right one.                                  *)
Descending(s) ==
    {p \in (DOMAIN s) \X (DOMAIN s) : \/ s[p[1]].price > s[p[2]].price
                                      \/ s[p[1]].price = s[p[2]].price /\ p[1] < p[2]}
Ascending(s) ==
    {p \in (DOMAIN s) \X (DOMAIN s) : \/ s[p[1]].price < s[p[2]].price
                                      \/ s[p[1]].price = s[p[2]].price /\ p[1] > p[2]}

Keys(s, order) ==
    CHOOSE keys \in [DOMAIN s -> DOMAIN s] : \A i, j \in DOMAIN s : i < j => <<keys[i], keys[j]>> \in order

SortedAsks(s)   == [k \in DOMAIN s |-> s[Keys(s, Descending(s))[k]]]
SortedOffers(s) == [k \in DOMAIN s |-> s[Keys(s, Ascending(s))[k]]]

Quantity(s, keys) == MapThenSumSet(LAMBDA k : s[k].quantity, keys)
At(s, p)    == {k \in DOMAIN s : s[k].price = p}
Above(s, p) == {k \in DOMAIN s : s[k].price > p}
Below(s, p) == {k \in DOMAIN s : s[k].price < p}

unresponsive_buy(asks)    == Quantity(asks, At(asks, pricecap))
unresponsive_sell(offers) == Quantity(offers, At(offers, -pricecap))

-----------------------------------------------------------------------------
(* The walk.  i and j count the bids that are done with.                   *)

Crossed(m, asks, offers) ==
    m.i < Len(asks) /\ m.j < Len(offers) /\ asks[m.i + 1].price >= offers[m.j + 1].price

Step_Greedy(m, asks, offers) ==
    LET buy  == m.demand + asks[m.i + 1].quantity
        sell == m.supply + offers[m.j + 1].quantity
    IN  [m EXCEPT !.i = @ + 1, !.j = @ + 1, !.demand = buy, !.supply = sell,
                  !.a = asks[m.i + 1].price, !.b = offers[m.j + 1].price,
                  !.quantity = Max({buy, sell}), !.check = TRUE]

Step(m, asks, offers) ==
    LET buy  == asks[m.i + 1]
        sell == offers[m.j + 1]
        buy_quantity  == m.demand + buy.quantity
        sell_quantity == m.supply + sell.quantity
    IN  CASE buy_quantity > sell_quantity ->
               [m EXCEPT !.quantity = sell_quantity, !.supply = sell_quantity, !.j = @ + 1,
                         !.a = buy.price, !.b = buy.price, !.check = FALSE, !.type = "BUYER"]
          [] buy_quantity < sell_quantity ->
               [m EXCEPT !.quantity = buy_quantity, !.demand = buy_quantity, !.i = @ + 1,
                         !.a = sell.price, !.b = sell.price, !.check = FALSE, !.type = "SELLER"]
          [] OTHER ->
               [m EXCEPT !.quantity = buy_quantity, !.demand = buy_quantity, !.supply = buy_quantity,
                         !.i = @ + 1, !.j = @ + 1,
                         !.a = buy.price, !.b = sell.price, !.check = TRUE]

Match(asks, offers) ==
    FoldLeft(LAMBDA m, k : IF Crossed(m, asks, offers) THEN Step(m, asks, offers) ELSE m,
             [i |-> 0, j |-> 0, demand |-> 0, supply |-> 0, quantity |-> 0,
              a |-> pricecap, b |-> -pricecap, check |-> FALSE, type |-> "NULL"],
             Indices(asks \o offers))

(* Both sides agree on the quantity: the next bid of a side, when there is *)
(* one at the price of the last, makes the side marginal.                  *)
SameBuyer(m, asks)    == m.i < Len(asks) /\ asks[m.i + 1].price = m.a
SameSeller(m, offers) == m.j < Len(offers) /\ offers[m.j + 1].price = m.b

Type(m, asks, offers) ==
    LET buyer  == SameBuyer(m, asks)
        seller == SameSeller(m, offers)
    IN  CASE ~m.check                                  -> m.type
          [] m.check /\ buyer /\ ~seller               -> "BUYER"
          [] m.check /\ seller /\ ~buyer               -> "SELLER"
          [] m.check /\ buyer = seller /\ m.a = m.b    -> "EXACT"
          [] m.check /\ buyer = seller /\ m.a # m.b    -> "PRICE"

SplitPrice_Unchecked(m, asks, offers, stale) ==
    LET buy == IF m.i < Len(asks) THEN asks[m.i + 1].price ELSE stale
    IN  IF m.a = pricecap THEN buy + bid_offset ELSE (m.a + m.b) \div 2

(* Any price between a and b would do; take one that triggers no other bid.*)
(* Past the end of a curve the next bid is what an earlier market, or      *)
(* nobody, left in the array: stale.                                       *)
SplitPrice(m, asks, offers, stale) ==
    LET buy  == IF m.i < Len(asks) THEN asks[m.i + 1].price ELSE stale
        sell == IF m.j < Len(offers) THEN offers[m.j + 1].price ELSE stale
        avg  == (m.a + m.b) \div 2
    IN  CASE m.a = pricecap /\ m.b # -pricecap -> IF buy > m.b THEN buy + bid_offset ELSE m.b
          [] m.a # pricecap /\ m.b = -pricecap -> IF sell < m.a THEN sell - bid_offset ELSE m.a
          [] m.a = pricecap /\ m.b = -pricecap ->
           IF m.i = Len(asks) /\ m.j = Len(offers) THEN 0
           ELSE IF m.i = Len(asks) THEN buy + bid_offset
           ELSE IF m.j = Len(asks) THEN sell - bid_offset   \* the count of the other curve
           ELSE (buy + (IF m.j = Len(offers) THEN m.b ELSE sell)) \div 2
          [] OTHER -> IF m.i < Len(asks) /\ avg < buy THEN buy + bid_offset
                      ELSE IF m.j < Len(offers) /\ avg > sell THEN sell - bid_offset ELSE avg

WalkPrice(m, asks, offers, stale) ==
    CASE m.check /\ Type(m, asks, offers) = "PRICE"                    -> SplitPrice(m, asks, offers, stale)
      [] m.check /\ Type(m, asks, offers) = "SELLER" /\ m.i < Len(asks) -> m.b
      [] OTHER                                                         -> m.a

-----------------------------------------------------------------------------
(* The clearing of two sides.                                              *)

Outcome(type, price, quantity) == [type |-> type, price |-> price, quantity |-> quantity]

(* Nothing changes hands.                                                  *)
NullPrice(asks, offers) ==
    IF asks = <<>> /\ offers = <<>> THEN 0
    ELSE IF asks = <<>> THEN offers[1].price - bid_offset
    ELSE IF offers = <<>> \/ offers[1].price = pricecap THEN asks[1].price + bid_offset
    ELSE IF asks[1].price = -pricecap THEN offers[1].price - bid_offset
    ELSE (offers[1].price + asks[1].price) \div 2

TwoSided(asks, offers, stale) ==
    LET m == Match(asks, offers)
        buy  == unresponsive_buy(asks)
        sell == unresponsive_sell(offers)
    IN  IF asks = <<>> \/ offers = <<>> \/ m.quantity = 0 THEN Outcome("NULL", NullPrice(asks, offers), 0)
        ELSE IF m.quantity < buy  THEN Outcome("FAILURE", pricecap, m.quantity)
        ELSE IF m.quantity < sell THEN Outcome("FAILURE", -pricecap, m.quantity)
        ELSE IF m.quantity = buy /\ m.quantity = sell THEN Outcome("PRICE", 0, m.quantity)
        ELSE Outcome(Type(m, asks, offers), WalkPrice(m, asks, offers, stale), m.quantity)

(* Only one side bids (MD_SELLERS, MD_BUYERS), for a quantity or, when     *)
(* fixed_quantity is 0, at a price.                                        *)
Accumulated(s, fixed_quantity) ==
    FoldLeft(LAMBDA acc, bid : IF acc.quantity < fixed_quantity
                               THEN [price |-> bid.price, quantity |-> acc.quantity + bid.quantity] ELSE acc,
             [price |-> 0, quantity |-> 0], s)

OneSided(s, marginal, towards, fixed_price, fixed_quantity, stale) ==
    LET acc  == Accumulated(s, fixed_quantity)
        sold == Quantity(s, {k \in DOMAIN s : towards * s[k].price >= towards * fixed_price})
        best == IF s = <<>> THEN stale ELSE s[1].price
    IN  IF fixed_quantity = 0 THEN Outcome(IF sold > 0 THEN "EXACT" ELSE "NULL", fixed_price, sold)
        ELSE IF acc.quantity > fixed_quantity THEN Outcome(marginal, acc.price, fixed_quantity)
        ELSE IF acc.quantity = fixed_quantity THEN Outcome("EXACT", acc.price, fixed_quantity)
        ELSE Outcome("FAILURE", best + towards * bid_offset, 0)

Cleared(mode, asks, offers, stale) ==
    CASE mode.kind = "SELLERS" -> OneSided(offers, "SELLER", -1, mode.price, mode.quantity, stale)
      [] mode.kind = "BUYERS"  -> OneSided(asks, "BUYER", 1, mode.price, mode.quantity, stale)
      [] OTHER                 -> TwoSided(asks, offers, stale)

(* What is left for the marginal bids, and how much they are.              *)
MarginalBids(r, asks, offers) ==
    CASE r.type = "BUYER"  -> Quantity(asks, At(asks, r.price))
      [] r.type = "SELLER" -> Quantity(offers, At(offers, r.price))
      [] OTHER             -> 0

Marginal_All(r, asks, offers) ==
    IF r.type = "BUYER" THEN r.quantity ELSE 0

Marginal(r, asks, offers) ==
    CASE r.type = "BUYER"  -> r.quantity - Quantity(asks, Above(asks, r.price))
      [] r.type = "SELLER" -> r.quantity - Quantity(offers, Below(offers, r.price))
      [] OTHER             -> 0

Limited(price) == Max({-pricecap, Min({price, pricecap})})
=============================================================================
