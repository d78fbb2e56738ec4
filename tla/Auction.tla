------------------------------ MODULE Auction -------------------------------
(***************************************************************************)
(* An auction (market/auction.cpp) and its bidders.  Bidders submit bids   *)
(* in the bottom-up pass; before it, in the top-down one, the auction      *)
(* clears when the clock has come to the next clearing, files the result   *)
(* as a frame that is in force latency seconds later, and goes on with the *)
(* next market.  Frames that are not in force yet wait in a ring.          *)
(*                                                                         *)
(* Submissions of a pass may come from several threads; submit holds the   *)
(* lock of the auction, so each is one step.                               *)
(*                                                                         *)
(* Definitions named <definition>_<Word> are mutations of the definition   *)
(* that follows them; nothing uses them.                                   *)
(***************************************************************************)
EXTENDS MarketClearing

CONSTANTS Buyers, Sellers,
          BidsOf,         \* of each bidder: the bids it may make, or move to
          Modes,          \* special_mode, fixed_price and fixed_quantity
          StalePrices,    \* what unused places of a curve may hold
          period, Latencies, Starts, LastClock,
          Statistics,     \* a sequence: the mode of each, CURR or PAST, and the periods it spans
          init_price,
          WarmupSamples,  \* the clearings of a day: demand is refused before, when warmup is set
          KeyBids         \* the bids of one side that keys can number: 2^15

Bidders == Buyers \union Sellers
None    == -1     \* the key of no bid
Longest == Max({Statistics[s].need : s \in DOMAIN Statistics} \union {0})
history_count == IF Longest = 0 THEN 1 ELSE Longest + 2

ASSUME PeriodAssumption == period \in Nat \ {0} /\ Latencies \subseteq Nat /\ Starts \subseteq Nat \ {0}
ASSUME BiddersAssumption ==
    /\ Buyers \intersect Sellers = {}
    /\ BidsOf \in [Bidders -> SUBSET [price : Int, quantity : Nat]]
ASSUME ModesAssumption ==
    /\ Modes \subseteq [kind : {"NONE", "SELLERS", "BUYERS", "FIXED_SELLER", "FIXED_BUYER"},
                        price : Int, quantity : Nat]
    /\ StalePrices \subseteq Int /\ init_price \in Int
ASSUME KeysAssumption ==
    /\ KeyBids \in Nat \ {0} /\ IsFiniteSet(Buyers) /\ IsFiniteSet(Sellers)
    /\ Cardinality(Buyers) <= KeyBids /\ Cardinality(Sellers) <= KeyBids
ASSUME StatisticsAssumption == Statistics \in Seq([mode : {"CURR", "PAST"}, need : Nat])
ASSUME BoundsAssumption == LastClock \in Nat /\ WarmupSamples \in Nat

VARIABLES
    latency, mode, warmup,  \* settings
    clock, pass,            \* "presync", "sync"
    asks, offers,           \* the curves, in the order of submission
    market_id, clearat,
    total_samples, new_prices, price_index,
    cleared_frame, past_frame, current_frame, next_frame,
    framedata, latency_front, latency_back,
    value, published,       \* of the statistics: computed, and in the object's properties
    lastbid_id, lastmkt_id, \* of each bidder
    wanted,                 \* history: of each bidder, its bid in this market
    book,                   \* history: the bids that were cleared last, as they were submitted
    prices                  \* history: of all clearings, before the limit

settings == <<latency, mode, warmup>>
curves   == <<asks, offers>>
frames   == <<cleared_frame, past_frame, current_frame, next_frame, framedata, latency_front, latency_back>>
stats    == <<total_samples, new_prices, price_index, value, published, prices>>
bidders  == <<lastbid_id, lastmkt_id, wanted>>
vars     == <<settings, clock, pass, curves, market_id, clearat, frames, stats, bidders, book>>

latency_count_Short == (latency \div period) + 1

latency_count == (latency \div period) + 2
nextclear == clock + period - ((clock + period) % period)

NoFrame == [market_id |-> 0, start_time |-> 0, end_time |-> 0, price |-> 0, quantity |-> 0,
            type |-> "NULL", marginal |-> 0, total |-> 0, stats |-> [s \in DOMAIN Statistics |-> 0]]
NoBid == [price |-> 0, quantity |-> -1]
Total(s) == FoldLeft(+, 0, s)

Init ==
    /\ latency \in Latencies /\ mode \in Modes /\ warmup \in BOOLEAN
    /\ clock \in Starts /\ pass = "presync"
    /\ asks = <<>> /\ offers = <<>> /\ market_id = 1 /\ clearat = 0
    /\ total_samples = 0 /\ price_index = 0
    /\ new_prices = [k \in 0..history_count - 1 |-> init_price]
    /\ cleared_frame = NoFrame
    /\ past_frame = [NoFrame EXCEPT !.price = init_price]
    /\ current_frame = [NoFrame EXCEPT !.price = init_price]
    /\ next_frame = [NoFrame EXCEPT !.price = IF latency > 0 THEN init_price ELSE 0]
    /\ framedata = [k \in 0..latency_count - 1 |-> NoFrame]
    /\ latency_front = 0 /\ latency_back = 0
    /\ value = [s \in DOMAIN Statistics |-> 0]
    /\ published = [s \in DOMAIN Statistics |-> Total([i \in 1..Statistics[s].need |-> init_price])]
    /\ lastbid_id = [b \in Bidders |-> None] /\ lastmkt_id = [b \in Bidders |-> 0]
    /\ wanted = [b \in Bidders |-> NoBid]
    /\ book = [asks |-> <<>>, offers |-> <<>>] /\ prices = <<>>

-----------------------------------------------------------------------------
(* Keys of bids: the market, a bit for buyers, the number of the bid in    *)
(* the bits below.                                                         *)

write_bid(market, bid, buys) ==
    market * (2 * KeyBids) + (IF buys THEN KeyBids ELSE 0) + bid
translate_bid(key) ==
    [market |-> key \div (2 * KeyBids),
     buys   |-> (key \div KeyBids) % 2 = 1,
     bid    |-> key % KeyBids]

(* Submissions.  A bid with a key of this market replaces the bid of that  *)
(* number; one with no key is new, unless its quantity is zero.            *)

Refused(buys, quantity) == warmup /\ buys /\ quantity > 0 /\ total_samples < WarmupSamples

Curve(buys) == IF buys THEN asks ELSE offers
Put(buys, s) == /\ asks' = IF buys THEN s ELSE asks
                /\ offers' = IF buys THEN offers ELSE s

(* A bid, as the curve keeps it: cut at the cap, but not below.            *)
Entry(b, bid) == [from |-> b, price |-> Min({bid.price, pricecap}), quantity |-> bid.quantity]

submit(b, buys, bid, key) ==
    LET at == translate_bid(key)
    IN  IF Refused(buys, bid.quantity) THEN None
        ELSE IF key # None THEN IF at.market = market_id THEN key ELSE 0
        ELSE IF bid.quantity = 0 THEN None
        ELSE write_bid(market_id, Len(Curve(buys)), buys)

curve_submit_Push(b, buys, bid, key) ==
    IF submit(b, buys, bid, key) \in {None, 0} THEN Curve(buys)
    ELSE Append(Curve(buys), Entry(b, bid))

(* The curve afterwards.                                                   *)
curve_submit(b, buys, bid, key) ==
    IF submit(b, buys, bid, key) \in {None, 0} THEN Curve(buys)
    ELSE IF key = None THEN Append(Curve(buys), Entry(b, bid))
    ELSE [Curve(buys) EXCEPT ![translate_bid(key).bid + 1] = Entry(b, bid)]

held_Always(b) == lastbid_id[b]

(* The key a bidder uses: of its last bid, unless that was in an earlier   *)
(* market.                                                                 *)
held(b) == IF lastmkt_id[b] = market_id THEN lastbid_id[b] ELSE None

Submit(b) ==
    /\ pass = "sync" /\ clock < LastClock
    /\ \E bid \in BidsOf[b] :
         LET key  == submit(b, b \in Buyers, bid, held(b))
         IN  /\ Put(b \in Buyers, curve_submit(b, b \in Buyers, bid, held(b)))
             /\ lastbid_id' = [lastbid_id EXCEPT ![b] = key]
             /\ wanted' = [wanted EXCEPT ![b] = IF key = None THEN NoBid ELSE bid]
    /\ lastmkt_id' = [lastmkt_id EXCEPT ![b] = market_id]
    /\ UNCHANGED <<settings, clock, pass, market_id, clearat, frames, stats, book>>

-----------------------------------------------------------------------------
(* Statistics, over the ring of prices; a mean is kept as the sum it is    *)
(* the mean of.                                                            *)

window_Current(s, index) ==
    LET start == (history_count + index - Statistics[s].need) % history_count
    IN  [i \in 1..Statistics[s].need |-> (start + i - 1) % history_count]

(* The places of the prices, in the order in which they are added.         *)
window(s, index) ==
    LET stop  == IF Statistics[s].mode = "CURR" THEN index ELSE index - 1
        start == (history_count + stop - Statistics[s].need) % history_count
    IN  [i \in 1..Statistics[s].need |-> (start + i - 1) % history_count]

update_statistics(ring, index) ==
    [s \in DOMAIN Statistics |-> Total([i \in 1..Statistics[s].need |-> ring[window(s, index)[i]]])]

-----------------------------------------------------------------------------
(* The ring of frames.                                                     *)

Pending == latency_front # latency_back

Due_After == Pending /\ clock > framedata[latency_front].start_time

Due_Empty == clock >= framedata[latency_front].start_time

Due == Pending /\ clock >= framedata[latency_front].start_time

(* The front once what is in force now has been taken out.                 *)
front == IF Due THEN (latency_front + 1) % latency_count ELSE latency_front

push_market_frame(frame) ==
    IF (latency_back + 1) % latency_count = front
      THEN UNCHANGED <<framedata, latency_back, total_samples>>
      ELSE /\ framedata' = [framedata EXCEPT ![latency_back] = frame]
           /\ latency_back' = (latency_back + 1) % latency_count
           /\ total_samples' = total_samples + 1

Ahead(frame) == frame.start_time > clock /\ frame.start_time <= clock + period

(* A result with latency: bring the next frame in force, file this one,    *)
(* and show the one that is next and its statistics.                       *)
FileLater(frame) ==
    /\ past_frame'    = IF Due THEN current_frame ELSE past_frame
    /\ current_frame' = IF Due THEN framedata[latency_front] ELSE current_frame
    /\ latency_front' = front
    /\ push_market_frame(frame)
    /\ LET first == framedata'[front]
       IN  /\ next_frame' = IF Ahead(first) THEN first ELSE next_frame
           /\ published'  = IF Ahead(first) THEN first.stats
                            ELSE IF Due THEN framedata[latency_front].stats ELSE published

FileNow(frame) ==
    /\ past_frame' = current_frame /\ current_frame' = frame
    /\ published' = frame.stats
    /\ total_samples' = total_samples + 1
    /\ UNCHANGED <<next_frame, framedata, latency_front, latency_back>>

-----------------------------------------------------------------------------
(* One-sided auctions with a fixed other side put in a bid of their own.   *)
FixedBid(buys) ==
    IF mode.quantity = 0 \/ Refused(buys, mode.quantity) THEN <<>>
    ELSE <<[from |-> None, price |-> Min({mode.price, pricecap}), quantity |-> mode.quantity]>>

Asks == IF mode.kind = "FIXED_SELLER" THEN FixedBid(TRUE) ELSE asks
Offers == IF mode.kind = "FIXED_BUYER" THEN FixedBid(FALSE) ELSE offers

FrameOf(r, demand, supply, stat) ==
    [market_id |-> market_id, start_time |-> clock + latency, end_time |-> clock + latency + period,
     price |-> Limited(r.price), quantity |-> r.quantity, type |-> r.type,
     marginal |-> Marginal(r, demand, supply), total |-> MarginalBids(r, demand, supply), stats |-> stat]

slot_Late == IF price_index > history_count THEN 0 ELSE price_index

slot == IF price_index = history_count THEN 0 ELSE price_index

clear_market ==
    \E stale \in StalePrices :
      LET demand == SortedAsks(Asks)
          supply == SortedOffers(Offers)
          r      == Cleared(mode, demand, supply, stale)
          ring   == [new_prices EXCEPT ![slot] = r.price]
          stat   == update_statistics(ring, slot + 1)
          frame  == FrameOf(r, demand, supply, stat)
      IN  /\ new_prices' = ring /\ price_index' = slot + 1
          /\ cleared_frame' = frame /\ value' = stat
          /\ IF latency > 0 THEN FileLater(frame) ELSE FileNow(frame)
          /\ book' = [asks |-> Asks, offers |-> Offers]
          /\ prices' = Append(prices, r.price)

(* The first presync only looks when the first market closes.              *)
Open ==
    /\ pass = "presync" /\ clearat = 0
    /\ clearat' = nextclear /\ pass' = "sync"
    /\ value' = update_statistics(new_prices, price_index)
    /\ published' = IF latency = 0 THEN value' ELSE published
    /\ UNCHANGED <<settings, clock, curves, market_id, frames, bidders, book,
                   total_samples, new_prices, price_index, prices>>

Clear ==
    /\ pass = "presync" /\ clearat # 0 /\ clock >= clearat
    /\ clear_market
    /\ asks' = <<>> /\ offers' = <<>>
    /\ wanted' = [b \in Bidders |-> NoBid]
    /\ market_id' = market_id + 1 /\ clearat' = nextclear /\ pass' = "sync"
    /\ UNCHANGED <<settings, clock, lastbid_id, lastmkt_id>>

Wait ==
    /\ pass = "presync" /\ clearat # 0 /\ clock < clearat
    /\ pass' = "sync"
    /\ UNCHANGED <<settings, clock, curves, market_id, clearat, frames, stats, bidders, book>>

(* postsync answers clearat as a soft event, and other objects have events *)
(* before it; a pass may also be repeated.                                 *)
Advance ==
    /\ pass = "sync"
    /\ clock' \in clock..Min({clearat, LastClock})
    /\ pass' = "presync"
    /\ UNCHANGED <<settings, curves, market_id, clearat, frames, stats, bidders, book>>

Next ==
    \/ Open \/ Clear \/ Wait \/ Advance
    \/ \E b \in Bidders : Submit(b)

Spec == Init /\ [][Next]_vars

-----------------------------------------------------------------------------
(* Properties.                                                             *)

Frame == [market_id : Nat, start_time : Nat, end_time : Nat, price : -pricecap..pricecap,
          quantity : Nat, type : {"NULL", "SELLER", "BUYER", "PRICE", "EXACT", "FAILURE"},
          marginal : Int, total : Nat, stats : [DOMAIN Statistics -> Int]]

(* Every value is of its type, and the indices of both rings are in range  *)
(* (latency_front, latency_back, price_index).                             *)
TypeOK ==
    /\ clock \in 0..LastClock /\ pass \in {"presync", "sync"}
    /\ market_id \in Nat \ {0} /\ clearat \in Nat /\ total_samples \in Nat
    /\ {cleared_frame, past_frame, current_frame, next_frame} \subseteq Frame
    /\ framedata \in [0..latency_count - 1 -> Frame]
    /\ latency_front \in DOMAIN framedata /\ latency_back \in DOMAIN framedata
    /\ price_index \in 0..history_count /\ DOMAIN new_prices = 0..history_count - 1

Demand(p) == Quantity(book.asks, Above(book.asks, p) \union At(book.asks, p))
Supply(p) == Quantity(book.offers, Below(book.offers, p) \union At(book.offers, p))
BookPrices == {book.asks[k].price : k \in DOMAIN book.asks} \union {book.offers[k].price : k \in DOMAIN book.offers}
TwoSidedMode == mode.kind \notin {"SELLERS", "BUYERS"}

(* An auction of two sides clears the largest quantity any one price could *)
(* clear: the walk along the two curves, with its partial steps and ties,  *)
(* stops neither early nor late.                                           *)
MaxVolume ==
    TwoSidedMode => cleared_frame.quantity = Max({Min({Demand(p), Supply(p)}) : p \in BookPrices} \union {0})

(* Two bids of a curve that are closer than the offset: the price that is *)
(* to be just off one of them is past the other.                           *)
Crowded(curve) ==
    \E i, k \in DOMAIN curve :
        curve[i].price < curve[k].price /\ curve[k].price < curve[i].price + bid_offset
Slack(curve) == IF Crowded(curve) THEN bid_offset ELSE 0

(* Whoever trades is content with the price: at the price that is posted,  *)
(* limits and offsets included, as much is asked for, and offered, as is   *)
(* cleared; and for whatever bids, where those of a curve are crowded, at  *)
(* a price no further from it than bid_offset.  Prices are cut at the cap  *)
(* when they are submitted, and limited from below only when they are      *)
(* posted: a buyer who asks to be paid more than the cap trades for less.  *)
Willing ==
    /\ mode.kind # "SELLERS" /\ (\A k \in DOMAIN book.asks : book.asks[k].price >= -pricecap) =>
         Demand(cleared_frame.price - Slack(book.asks)) >= cleared_frame.quantity
    /\ mode.kind # "BUYERS" => Supply(cleared_frame.price + Slack(book.offers)) >= cleared_frame.quantity

(* The share of the bids at the margin that is served, marginal_frac, is a *)
(* share: the controllers draw a number against it to decide who may run.  *)
(* It is divided by the total of the bids at the margin, which may all be  *)
(* withdrawn.                                                              *)
Share(type, curve) ==
    cleared_frame.type = type =>
      /\ 0 <= cleared_frame.marginal /\ cleared_frame.marginal <= cleared_frame.total
      /\ (\A k \in DOMAIN curve : curve[k].quantity > 0) => cleared_frame.total > 0
BuyerShare == Share("BUYER", book.asks)

(* The same for sellers, for which clear_market says "use seller's price,  *)
(* not buyer's price".                                                     *)
SellerShare == Share("SELLER", book.offers)

(* The curves hold exactly the bids that stand: of each bidder the last    *)
(* one it made in this market, once, where its key says, whatever was      *)
(* resubmitted, refused or withdrawn, and no bid of an earlier market.     *)
BidsStand ==
    \A b \in Bidders :
      LET mine == {k \in DOMAIN Curve(b \in Buyers) : Curve(b \in Buyers)[k].from = b}
          key  == translate_bid(lastbid_id[b])
      IN  /\ \A k \in DOMAIN Curve(b \notin Buyers) : Curve(b \notin Buyers)[k].from # b
          /\ IF wanted[b] = NoBid THEN mine = {}
             ELSE /\ mine = {key.bid + 1} /\ key.market = market_id /\ key.buys = (b \in Buyers)
                  /\ Curve(b \in Buyers)[key.bid + 1] = Entry(b, wanted[b])

Ring == {(latency_front + k) % latency_count : k \in 0..((latency_back + latency_count - latency_front) % latency_count) - 1}

(* With latency, no result is lost or overwritten: the ring holds, in      *)
(* order, all the markets that cleared and are not in force yet, and the   *)
(* one that is shown as next is the first of them.                         *)
PendingInOrder ==
    latency > 0 =>
      /\ {framedata[k].market_id : k \in Ring} = current_frame.market_id + 1..market_id - 1
      /\ \A k \in Ring : framedata[k].market_id = current_frame.market_id + 1 + ((k + latency_count - latency_front) % latency_count)
      /\ next_frame.market_id # 0 => next_frame = framedata[latency_front]

(* After the top-down pass the frame in force is the one of the moment.    *)
(* Frames change only at clearings: when the latency is no multiple of the *)
(* period they stay in force until the clearing after their end.           *)
FrameInForce ==
    pass = "sync" /\ cleared_frame.market_id > (latency + period - 1) \div period =>
      /\ current_frame.market_id # 0
      /\ current_frame.start_time <= clock
      /\ clock < current_frame.end_time + ((period - (latency % period)) % period)

(* The statistics the object shows are over exactly the markets they are   *)
(* about: the last ones before, or up to, the market that is shown, with   *)
(* init_price for those before the first, through every turn of both rings.*)
Price(m) == IF m >= 1 THEN prices[m] ELSE init_price
LastOf(s, m) == IF Statistics[s].mode = "CURR" THEN m ELSE m - 1
Means(m) == [s \in DOMAIN Statistics |->
               Total([i \in 1..Statistics[s].need |-> Price(LastOf(s, m) - Statistics[s].need + i)])]
StatisticsExact == published = Means(IF latency = 0 THEN current_frame.market_id ELSE next_frame.market_id)

(* Markets clear once in each period, and come in force one after the      *)
(* other, none skipped, the one before kept as the past market.            *)
OneAfterAnother ==
    [][/\ cleared_frame' # cleared_frame /\ cleared_frame.market_id # 0 =>
            /\ cleared_frame'.market_id = cleared_frame.market_id + 1
            /\ cleared_frame'.start_time = cleared_frame.end_time
       /\ current_frame' # current_frame =>
            /\ current_frame'.market_id = current_frame.market_id + 1
            /\ past_frame' = current_frame
            /\ current_frame.market_id # 0 => current_frame'.start_time = current_frame.end_time]_vars
=============================================================================
