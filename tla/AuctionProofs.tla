---------------------------- MODULE AuctionProofs ----------------------------
EXTENDS Auction, FiniteSetTheorems, SequenceTheorems, WellFoundedInduction, TLAPS

(* The market of a frame that is m opened when Start(m) was latency ahead: *)
(* one market in each period, and the last at clearat.                     *)
Periods(k) == k * period
Start(m) == clearat + latency - Periods(market_id - m)
Filed(frame, m) ==
    /\ frame.market_id = m /\ frame.start_time = Start(m) /\ frame.end_time = Start(m) + period
Waiting == market_id - 1 - current_frame.market_id
On(L, f, j) == (f + j) % L
Place(j) == On(latency_count, latency_front, j)

Types ==
    /\ latency \in Latencies /\ clock \in Nat /\ pass \in {"presync", "sync"}
    /\ market_id \in Nat \ {0} /\ clearat \in Nat
    /\ latency_front \in 0..latency_count - 1 /\ latency_back \in 0..latency_count - 1
    /\ framedata = [k \in 0..latency_count - 1 |-> framedata[k]]

(* The clock is at most at the next clearing, and past the last one.       *)
Clockwork ==
    /\ clearat = 0 => market_id = 1 /\ pass = "presync"
    /\ clearat # 0 => /\ clearat % period = 0
                      /\ clock <= clearat /\ clearat <= clock + period
                      /\ pass = "sync" => clock < clearat

(* What has cleared, and what is in force.                                 *)
InForce ==
    /\ IF market_id = 1 THEN cleared_frame.market_id = 0 ELSE Filed(cleared_frame, market_id - 1)
    /\ current_frame.market_id \in 0..market_id - 1
    /\ current_frame.market_id # 0 => Filed(current_frame, current_frame.market_id)
    /\ latency = 0 => Waiting = 0

(* What has cleared and is not in force yet is in the ring, in order, and  *)
(* is so little that the ring has room: less than the latency and a period.*)
InRing ==
    latency > 0 =>
      /\ latency_back = Place(Waiting)
      /\ \A j \in 0..Waiting - 1 : Filed(framedata[Place(j)], current_frame.market_id + 1 + j)
      /\ Periods(Waiting) < latency + period
      /\ current_frame.market_id # 0 => Periods(Waiting) >= latency
      /\ next_frame.market_id # 0 <=> Periods(Waiting) >= latency
      /\ next_frame.market_id # 0 => next_frame = framedata[latency_front]

FInv == Types /\ Clockwork /\ InForce /\ InRing

(* The places of the prices, and the statistics that are filed and shown.  *)
Prices ==
    /\ prices = [m \in 1..market_id - 1 |-> prices[m]]
    /\ price_index = IF market_id = 1 THEN 0 ELSE ((market_id - 2) % history_count) + 1
    /\ new_prices = [k \in 0..history_count - 1 |-> new_prices[k]]
    /\ market_id = 1 => \A k \in 0..history_count - 1 : new_prices[k] = init_price
    /\ \A m \in market_id - history_count..market_id - 1 : new_prices[(m - 1) % history_count] = Price(m)
FiledStatistics ==
    latency > 0 => \A j \in 0..Waiting - 1 : framedata[Place(j)].stats = Means(current_frame.market_id + 1 + j)

SInv == FInv /\ Prices /\ FiledStatistics /\ StatisticsExact

(* The bids that stand: those whose bidder holds a key, in the place the   *)
(* key numbers, and no others.  Demand is refused for the whole of a market.*)
Bid == [price : Int, quantity : Nat]
Posted == {p \in Int : p <= pricecap}
Side(buys) == IF buys THEN Buyers ELSE Sellers
Entries(buys) == [from : Side(buys), price : Posted, quantity : Nat]
Single(curve) == \A i, j \in DOMAIN curve : curve[i].from = curve[j].from => i = j
Standing(b, buys, curve, key, bid, market) ==
    IF key = None THEN bid = NoBid /\ \A i \in DOMAIN curve : curve[i].from # b
    ELSE /\ bid \in Bid
         /\ \E i \in DOMAIN curve : key = write_bid(market, i - 1, buys) /\ curve[i] = Entry(b, bid)

BidTypes ==
    /\ lastbid_id \in [Bidders -> Int] /\ lastmkt_id \in [Bidders -> Nat]
    /\ wanted \in [Bidders -> Bid \union {NoBid}]
    /\ total_samples \in Nat /\ warmup \in BOOLEAN
CurvesHold == \A buys \in BOOLEAN : Curve(buys) \in Seq(Entries(buys)) /\ Single(Curve(buys))
KeysHold ==
    \A b \in Bidders :
      /\ lastmkt_id[b] <= market_id
      /\ Standing(b, b \in Buyers, Curve(b \in Buyers), held(b), wanted[b], market_id)
Warm == warmup /\ total_samples < WarmupSamples => \A b \in Buyers : held(b) = None

BInv == BidTypes /\ CurvesHold /\ KeysHold /\ Warm /\ market_id \in Nat \ {0}

-----------------------------------------------------------------------------
(* Arithmetic.                                                             *)

LEMMA Constants ==
    /\ period \in Nat \ {0} /\ Latencies \subseteq Nat /\ Starts \subseteq Nat \ {0}
    /\ LastClock \in Nat /\ WarmupSamples \in Nat
BY PeriodAssumption, BoundsAssumption

LEMMA Division ==
    ASSUME NEW a \in Int, NEW b \in Nat \ {0}
    PROVE  \E q \in Int, r \in 0..b - 1 :
             q = a \div b /\ r = a % b /\ a = q * b + r
<1> DEFINE q == a \div b
           r == a % b
<1>1. q \in Int /\ r \in 0..b - 1
  OBVIOUS
<1>2. r = a - q * b
  OBVIOUS
<1> HIDE DEF q, r
<1>3. q * b \in Int
  BY <1>1
<1>4. a = q * b + r
  BY <1>1, <1>2, <1>3
<1>5. q = a \div b /\ r = a % b
  BY DEF q, r
<1> QED
  BY <1>1, <1>4, <1>5

(* A quotient and a remainder are determined.                              *)
LEMMA Remainder ==
    ASSUME NEW b \in Nat \ {0}, NEW q \in Int, NEW r \in 0..b - 1, NEW a \in Int, a = q * b + r
    PROVE  a \div b = q /\ a % b = r
OBVIOUS

(* An index that ran over a ring once, or came from before it.             *)
LEMMA Wraps ==
    ASSUME NEW L \in Nat \ {0}, NEW x \in Int
    PROVE  /\ 0 <= x /\ x < L => x % L = x
           /\ L <= x /\ x < 2 * L => x % L = x - L
<1>1. ASSUME 0 <= x, x < L PROVE x % L = x
  <2>1. x = 0 * L + x
    OBVIOUS
  <2> QED
    BY <1>1, <2>1, Remainder
<1>2. ASSUME L <= x, x < 2 * L PROVE x % L = x - L
  <2>1. x - L \in 0..L - 1 /\ 1 * L + (x - L) = x
    BY <1>2
  <2> QED
    BY <2>1, Remainder
<1> QED
  BY <1>1, <1>2

LEMMA PeriodsAdd ==
    ASSUME NEW k \in Int
    PROVE  Periods(k) \in Int /\ Periods(k + 1) = Periods(k) + period /\ Periods(k - 1) = Periods(k) - period
BY Constants DEF Periods

LEMMA PeriodsZero == Periods(0) = 0
BY Constants DEF Periods

LEMMA PeriodsOrder ==
    ASSUME NEW k \in Int, NEW j \in Int
    PROVE  /\ k <= j <=> Periods(k) <= Periods(j)
           /\ k < j <=> Periods(k) + period <= Periods(j)
<1>1. k < j => Periods(k) + period <= Periods(j)
  <2> SUFFICES ASSUME k + 1 <= j PROVE Periods(k) + period <= Periods(j)
    OBVIOUS
  <2>1. (k + 1) * period <= j * period
    BY Constants
  <2>2. (k + 1) * period = k * period + period
    BY Constants
  <2> QED
    BY <2>1, <2>2 DEF Periods
<1>2. j < k => Periods(j) + period <= Periods(k)
  <2> SUFFICES ASSUME j + 1 <= k PROVE Periods(j) + period <= Periods(k)
    OBVIOUS
  <2>1. (j + 1) * period <= k * period
    BY Constants
  <2>2. (j + 1) * period = j * period + period
    BY Constants
  <2> QED
    BY <2>1, <2>2 DEF Periods
<1>3. k = j => Periods(k) = Periods(j)
  OBVIOUS
<1>4. Periods(k) \in Int /\ Periods(j) \in Int
  BY PeriodsAdd
<1> QED
  BY <1>1, <1>2, <1>3, <1>4, Constants

(* The latency in whole periods, down and up.                              *)
LEMMA LatencyPeriods ==
    ASSUME NEW lat \in Nat
    PROVE  /\ lat \div period \in Nat
           /\ Periods(lat \div period) <= lat /\ lat < Periods(lat \div period) + period
<1>1. PICK q \in Int, r \in 0..period - 1 : q = lat \div period /\ lat = q * period + r
  BY Constants, Division
<1>2. lat \div period >= 0
  BY Constants
<1> QED
  BY <1>1, <1>2, Constants DEF Periods

LEMMA LatencyRoundedUp ==
    ASSUME NEW lat \in Nat
    PROVE  /\ (lat + period - 1) \div period \in Nat
           /\ lat + ((period - (lat % period)) % period) = Periods((lat + period - 1) \div period)
           /\ Periods((lat + period - 1) \div period) < lat + period
<1>1. PICK q \in Int, r \in 0..period - 1 : q = lat \div period /\ r = lat % period /\ lat = q * period + r
  BY Constants, Division
<1>0. q \in Nat
  BY <1>1, Constants
<1>2. CASE r = 0
  <2>1. lat + period - 1 = q * period + (period - 1) /\ period - 1 \in 0..period - 1
    BY <1>0, <1>1, <1>2, Constants
  <2>2. (lat + period - 1) \div period = q
    <3> DEFINE e == lat + period - 1
               d == period - 1
    <3>1. e \in Int /\ d \in 0..period - 1 /\ e = q * period + d
      BY <2>1
    <3> HIDE DEF e, d
    <3>2. e \div period = q
      BY <1>1, <3>1, Remainder, Constants
    <3> QED
      BY <3>2 DEF e
  <2>3. (period - r) % period = 0
    BY <1>2, Constants
  <2> QED
    BY <1>0, <1>1, <1>2, <2>2, <2>3, Constants DEF Periods
<1>3. CASE r > 0
  <2>1. lat + period - 1 = (q + 1) * period + (r - 1) /\ r - 1 \in 0..period - 1
    BY <1>0, <1>1, <1>3, Constants
  <2>2. (lat + period - 1) \div period = q + 1
    <3> DEFINE e == lat + period - 1
               d == r - 1
               k == q + 1
    <3>1. e \in Int /\ k \in Int /\ d \in 0..period - 1 /\ e = k * period + d
      BY <1>1, <2>1, Constants
    <3> HIDE DEF e, d, k
    <3>2. e \div period = k
      BY <3>1, Remainder, Constants
    <3> QED
      BY <3>2 DEF e, k
  <2>3. (period - r) % period = period - r
    <3>1. period - r \in Int /\ 0 <= period - r /\ period - r < period
      BY <1>0, <1>1, <1>3, Constants
    <3> QED
      BY <3>1, Wraps, Constants
  <2>4. (q + 1) * period = q * period + period
    BY <1>0, <1>1, Constants
  <2> QED
    BY <1>0, <1>1, <1>3, <2>2, <2>3, <2>4, Constants DEF Periods
<1> QED
  BY <1>0, <1>1, <1>2, <1>3

LEMMA NextClear ==
    ASSUME NEW c \in Nat
    PROVE  LET n == c + period - ((c + period) % period)
           IN  /\ n \in Nat /\ n % period = 0 /\ c < n /\ n <= c + period
               /\ c % period = 0 => n = c + period
<1> DEFINE a == c + period
<1>1. PICK q \in Int, r \in 0..period - 1 : r = a % period /\ a = q * period + r
  BY Constants, Division
<1>2. q * period \in Int /\ (q * period) % period = 0
  <2> DEFINE e == q * period
  <2>1. e \in Int /\ e = q * period + 0 /\ 0 \in 0..period - 1
    BY <1>1, Constants
  <2> HIDE DEF e
  <2>2. e % period = 0
    BY <1>1, <2>1, Constants, Remainder
  <2> QED
    BY <2>1, <2>2 DEF e
<1>3. ASSUME c % period = 0 PROVE r = 0
  <2>1. PICK p \in Int : c = p * period
    BY <1>3, Constants, Division
  <2> DEFINE k == p + 1
  <2>2. k \in Int /\ a = k * period + 0 /\ 0 \in 0..period - 1 /\ a \in Int
    BY <2>1, Constants
  <2> HIDE DEF k, a
  <2>3. a % period = 0
    BY <2>2, Constants, Remainder
  <2> QED
    BY <1>1, <2>3
<1>4. a - r = q * period
  BY <1>1, <1>2, Constants
<1> QED
  BY <1>1, <1>2, <1>3, <1>4, Constants

-----------------------------------------------------------------------------
(* The ring.  Places that are less than a round apart are different.       *)

LEMMA OnIs ==
    ASSUME NEW L \in Nat \ {0}, NEW f \in 0..L - 1, NEW j \in 0..L
    PROVE  /\ On(L, f, j) = IF f + j < L THEN f + j ELSE f + j - L
           /\ On(L, f, j) \in 0..L - 1
<1> DEFINE x == f + j
<1>1. x \in Int /\ 0 <= x /\ x < 2 * L /\ On(L, f, j) = x % L
  BY DEF On
<1>2. On(L, f, j) = IF x < L THEN x ELSE x - L
  <2> HIDE DEF x
  <2>1. (x < L => x % L = x) /\ (L <= x => x % L = x - L)
    BY <1>1, Wraps
  <2> QED
    BY <1>1, <2>1
<1> QED
  BY <1>2

LEMMA Apart ==
    ASSUME NEW L \in Nat \ {0}, NEW f \in 0..L - 1, NEW j \in 0..L - 1, NEW k \in 0..L - 1, j # k
    PROVE  On(L, f, j) # On(L, f, k)
<1>1. j \in 0..L /\ k \in 0..L
  OBVIOUS
<1>2. On(L, f, j) = IF f + j < L THEN f + j ELSE f + j - L
  BY <1>1, OnIs
<1>3. On(L, f, k) = IF f + k < L THEN f + k ELSE f + k - L
  BY <1>1, OnIs
<1> QED
  BY <1>2, <1>3

LEMMA OneOn ==
    ASSUME NEW L \in Nat \ {0}, L >= 2, NEW f \in 0..L - 1, NEW j \in 0..L - 1
    PROVE  /\ On(L, On(L, f, j), 1) = On(L, f, j + 1)
           /\ On(L, On(L, f, 1), j) = On(L, f, j + 1)
<1> DEFINE g == On(L, f, j)
           h == On(L, f, 1)
           k == j + 1
<1>0. j \in 0..L /\ k \in 0..L /\ 1 \in 0..L
  OBVIOUS
<1>1. g = (IF f + j < L THEN f + j ELSE f + j - L) /\ g \in 0..L - 1
  BY <1>0, OnIs
<1>2. h = (IF f + 1 < L THEN f + 1 ELSE f + 1 - L) /\ h \in 0..L - 1
  BY <1>0, OnIs
<1>3. On(L, f, k) = IF f + k < L THEN f + k ELSE f + k - L
  <2> HIDE DEF k
  <2> QED
    BY <1>0, OnIs
<1>5. On(L, g, 1) = IF g + 1 < L THEN g + 1 ELSE g + 1 - L
  <2> HIDE DEF g
  <2> QED
    BY <1>0, <1>1, OnIs
<1>6. On(L, h, j) = IF h + j < L THEN h + j ELSE h + j - L
  <2> HIDE DEF h
  <2> QED
    BY <1>0, <1>2, OnIs
<1>7. On(L, g, 1) = On(L, f, k)
  BY <1>1, <1>3, <1>5
<1>8. On(L, h, j) = On(L, f, k)
  BY <1>2, <1>3, <1>6
<1> QED
  BY <1>7, <1>8

(* One more place is taken at the back.                                    *)
LEMMA Turn ==
    ASSUME NEW L \in Nat, L >= 2, NEW f \in 0..L - 1, NEW q \in 0..L - 2
    PROVE  /\ On(L, f, 0) = f
           /\ On(L, On(L, f, q), 1) = On(L, f, q + 1)
           /\ On(L, f, q + 1) # f
           /\ \A j \in 0..L - 1 : On(L, f, j) \in 0..L - 1
           /\ \A j \in 0..L - 1 : j # q => On(L, f, j) # On(L, f, q)
<1> DEFINE p == q + 1
<1>1. p \in 0..L - 1 /\ p # 0 /\ 0 \in 0..L - 1 /\ q \in 0..L - 1
  OBVIOUS
<1> HIDE DEF p
<1>2. \A j \in 0..L - 1 : On(L, f, j) \in 0..L - 1
  <2> SUFFICES ASSUME NEW j \in 0..L - 1 PROVE On(L, f, j) \in 0..L - 1
    OBVIOUS
  <2>1. j \in 0..L
    OBVIOUS
  <2> QED
    BY <2>1, OnIs
<1>3. On(L, f, 0) = f
  <2>1. 0 \in 0..L /\ f + 0 = f
    OBVIOUS
  <2> QED
    BY <2>1, OnIs
<1>4. On(L, On(L, f, q), 1) = On(L, f, p)
  BY <1>1, OneOn DEF p
<1>5. On(L, f, p) # f
  BY <1>1, <1>3, Apart
<1>6. \A j \in 0..L - 1 : j # q => On(L, f, j) # On(L, f, q)
  BY <1>1, Apart
<1> QED
  BY <1>2, <1>3, <1>4, <1>5, <1>6 DEF p

LEMMA Count ==
    ASSUME latency \in Nat
    PROVE  /\ latency_count \in Nat /\ latency_count >= 2
           /\ \A k \in Int : Periods(k) < latency => k <= latency_count - 2
           /\ \A k \in Int : Periods(k) < latency + period => k <= latency_count - 1
<1> DEFINE d == latency \div period
<1>1. d \in Nat /\ latency < Periods(d) + period /\ latency_count = d + 2
  BY LatencyPeriods DEF latency_count
<1> HIDE DEF d
<1> DEFINE e == d + 1
<1>2. e \in Int /\ Periods(e) = Periods(d) + period /\ Periods(d) \in Int
  BY <1>1, PeriodsAdd
<1>3. ASSUME NEW k \in Int, Periods(k) < latency PROVE k <= d
  <2>1. Periods(k) \in Int
    BY PeriodsAdd
  <2>2. ~(Periods(e) <= Periods(k))
    BY <1>1, <1>2, <1>3, <2>1, Constants
  <2>3. ~(e <= k)
    <3> HIDE DEF e
    <3> QED
      BY <1>2, <2>2, PeriodsOrder
  <2> QED
    BY <1>1, <2>3
<1>4. ASSUME NEW k \in Int, Periods(k) < latency + period PROVE k <= e
  <2>1. Periods(k) \in Int
    BY PeriodsAdd
  <2>2. ~(Periods(e) + period <= Periods(k))
    BY <1>1, <1>2, <1>4, <2>1, Constants
  <2>3. ~(e < k)
    <3> HIDE DEF e
    <3> QED
      BY <1>2, <2>2, PeriodsOrder
  <2> QED
    BY <1>1, <1>2, <2>3
<1> QED
  BY <1>1, <1>3, <1>4

(* A result that is as late as the latency is in force.                    *)
LEMMA WaitingIs ==
    ASSUME Types, InForce, InRing, latency > 0
    PROVE  /\ Waiting \in 0..latency_count - 1 /\ latency_count \in Nat /\ latency_count >= 2
           /\ Start(current_frame.market_id + 1) = clearat + latency - Periods(Waiting)
           /\ Pending <=> Waiting > 0
<1>1. latency \in Nat /\ market_id \in Nat /\ clearat \in Nat
  BY Constants DEF Types
<1>2. Waiting \in Nat /\ current_frame.market_id \in Nat
  BY <1>1 DEF InForce, Waiting, Types
<1>3. latency_count \in Nat /\ latency_count >= 2 /\ Waiting <= latency_count - 1
  BY <1>1, <1>2, Count DEF InRing
<1>4. market_id - (current_frame.market_id + 1) = Waiting
  BY <1>1, <1>2 DEF Waiting
<1>5. Pending <=> Waiting # 0
  <2>1. latency_front = On(latency_count, latency_front, 0)
    <3>1. latency_front \in 0..latency_count - 1 /\ 0 \in 0..latency_count
      BY <1>3 DEF Types
    <3> QED
      BY <1>3, <3>1, OnIs
  <2>2. Waiting # 0 => On(latency_count, latency_front, Waiting) # On(latency_count, latency_front, 0)
    BY <1>2, <1>3, Apart DEF Types
  <2>3. latency_back = On(latency_count, latency_front, Waiting)
    BY DEF InRing, Place
  <2> QED
    BY <2>1, <2>2, <2>3 DEF Pending
<1> QED
  BY <1>2, <1>3, <1>4, <1>5 DEF Start

-----------------------------------------------------------------------------
(* A clearing with latency.                                                *)

(* What is written on a frame does not change when the next market opens.  *)
LEMMA StartKept ==
    ASSUME Types, clearat' = clearat + period, market_id' = market_id + 1, latency' = latency, NEW m \in Int
    PROVE  Start(m)' = Start(m) /\ Start(m) \in Int /\ Start(m + 1) = Start(m) + period
<1> DEFINE k == market_id - m
<1>1. k \in Int /\ market_id' - m = k + 1 /\ market_id - (m + 1) = k - 1
  BY DEF Types
<1>2. Periods(k) \in Int /\ Periods(k + 1) = Periods(k) + period /\ Periods(k - 1) = Periods(k) - period
  BY <1>1, PeriodsAdd
<1>3. Start(m)' = clearat' + latency' - Periods(k + 1)
  BY <1>1 DEF Start
<1>4. Start(m + 1) = clearat + latency - Periods(k - 1)
  BY <1>1 DEF Start
<1>5. Start(m) = clearat + latency - Periods(k)
  BY DEF Start
<1> HIDE DEF k
<1>6. clearat \in Nat /\ latency \in Nat /\ period \in Nat
  BY Constants DEF Types
<1> QED
  BY <1>2, <1>3, <1>4, <1>5, <1>6

(* What is due when the market clears is the first result that waits, and  *)
(* after it has been taken out less than the latency waits.                *)
LEMMA DueIs ==
    ASSUME Types, InForce, InRing, latency > 0, clock = clearat
    PROVE  /\ Due <=> Periods(Waiting) >= latency
           /\ Due => Waiting >= 1 /\ Filed(framedata[latency_front], current_frame.market_id + 1)
<1>1. /\ Waiting \in 0..latency_count - 1 /\ latency_count \in Nat /\ latency_count >= 2
      /\ Start(current_frame.market_id + 1) = clearat + latency - Periods(Waiting)
      /\ Pending <=> Waiting > 0
  BY WaitingIs
<1>2. latency \in Nat /\ clearat \in Nat /\ Periods(Waiting) \in Int /\ Periods(0) = 0
  BY <1>1, Constants, PeriodsAdd, PeriodsZero DEF Types
<1>3. Place(0) = latency_front
  <2>1. latency_front \in 0..latency_count - 1 /\ 0 \in 0..latency_count
    BY <1>1 DEF Types
  <2> QED
    BY <1>1, <2>1, OnIs DEF Place
<1>4. Waiting > 0 => Filed(framedata[latency_front], current_frame.market_id + 1)
  <2> SUFFICES ASSUME Waiting > 0 PROVE Filed(framedata[latency_front], current_frame.market_id + 1)
    OBVIOUS
  <2>1. 0 \in 0..Waiting - 1
    BY <1>1
  <2>2. Filed(framedata[Place(0)], current_frame.market_id + 1 + 0)
    BY <2>1 DEF InRing
  <2>3. current_frame.market_id + 1 + 0 = current_frame.market_id + 1
    BY DEF InForce
  <2> QED
    BY <1>3, <2>2, <2>3
<1>5. CASE Waiting > 0
  <2>1. framedata[latency_front].start_time = clearat + latency - Periods(Waiting)
    BY <1>1, <1>4, <1>5 DEF Filed
  <2> QED
    BY <1>1, <1>2, <1>4, <1>5, <2>1 DEF Due
<1>6. CASE Waiting = 0
  BY <1>1, <1>2, <1>6 DEF Due
<1> QED
  BY <1>1, <1>5, <1>6

LEMMA FileLaterKeeps ==
    ASSUME FInv, latency > 0, clearat # 0, clock = clearat,
           NEW frame, Filed(frame, market_id), FileLater(frame), cleared_frame' = frame,
           market_id' = market_id + 1, clearat' = clearat + period, latency' = latency,
           clock' = clock, pass' = "sync"
    PROVE  /\ Types' /\ InForce' /\ InRing'
           /\ current_frame' # current_frame =>
                /\ current_frame'.market_id = current_frame.market_id + 1 /\ past_frame' = current_frame
                /\ current_frame.market_id # 0 => current_frame'.start_time = current_frame.end_time
           /\ Ahead(framedata'[front]) <=> next_frame'.market_id # 0
           /\ Due => Ahead(framedata'[front])
           /\ Waiting' \in Nat \ {0} /\ Place(0)' = front
           /\ \A j \in 0..Waiting' - 1 :
                \/ j = Waiting' - 1 /\ framedata'[Place(j)'] = frame
                \/ \E k \in 0..Waiting - 1 : /\ framedata'[Place(j)'] = framedata[Place(k)]
                                             /\ current_frame'.market_id + 1 + j = current_frame.market_id + 1 + k
<1> DEFINE L == latency_count
           d == IF Due THEN 1 ELSE 0
           q == Waiting - d
           g == front
           c == current_frame.market_id
<1>1. /\ Waiting \in 0..L - 1 /\ L \in Nat /\ L >= 2
      /\ Start(c + 1) = clearat + latency - Periods(Waiting)
      /\ Pending <=> Waiting > 0
  BY WaitingIs DEF FInv
<1>2. /\ latency \in Nat /\ clearat \in Nat /\ market_id \in Nat \ {0} /\ c \in Nat /\ period \in Nat \ {0}
      /\ latency_front \in 0..L - 1
  BY <1>1, Constants DEF FInv, Types, InForce
<1>3. /\ Due <=> Periods(Waiting) >= latency
      /\ Due => Waiting >= 1 /\ Filed(framedata[latency_front], c + 1)
  BY DueIs DEF FInv
<1>4. q \in 0..L - 2 /\ Periods(q) \in Int /\ Periods(q) < latency
  <2>1. Periods(Waiting) \in Int /\ Periods(Waiting - 1) = Periods(Waiting) - period /\ Periods(Waiting) < latency + period
    BY <1>1, PeriodsAdd DEF FInv, InRing
  <2>2. q \in Nat /\ Periods(q) \in Int /\ Periods(q) < latency
    BY <1>1, <1>2, <1>3, <2>1
  <2>3. q <= L - 2
    BY <1>2, <2>2, Count
  <2> QED
    BY <1>1, <2>2, <2>3
<1>5. g = On(L, latency_front, d) /\ g \in 0..L - 1
  <2>1. d \in 0..L
    BY <1>1
  <2>2. On(L, latency_front, d) \in 0..L - 1 /\ On(L, latency_front, 0) = latency_front
    BY <1>1, <1>2, <2>1, OnIs
  <2> QED
    BY <2>2 DEF front, On
<1>6. \A j \in 0..L - 2 : On(L, g, j) = Place(j + d)
  <2> SUFFICES ASSUME NEW j \in 0..L - 2 PROVE On(L, g, j) = Place(j + d)
    OBVIOUS
  <2>1. j \in 0..L - 1
    BY <1>1
  <2>2. On(L, On(L, latency_front, 1), j) = On(L, latency_front, j + 1)
    BY <1>1, <1>2, <2>1, OneOn
  <2>3. CASE Due
    BY <1>5, <2>2, <2>3 DEF Place
  <2>4. CASE ~Due
    <3>1. g = latency_front /\ j + d = j
      BY <1>1, <2>4 DEF front
    <3> QED
      BY <3>1 DEF Place
  <2> QED
    BY <2>3, <2>4
<1>7. latency_back = On(L, g, q) /\ current_frame'.market_id = c + d
  <2>1. q + d = Waiting
    BY <1>1
  <2>2. On(L, g, q) = Place(q + d)
    BY <1>4, <1>6
  <2>3. latency_back = Place(Waiting)
    BY DEF FInv, InRing
  <2>4. current_frame'.market_id = c + d
    BY <1>2, <1>3 DEF FileLater, Filed
  <2> QED
    BY <2>1, <2>2, <2>3, <2>4
<1> DEFINE p == q + 1
<1>9. /\ p \in 1..L - 1 /\ Periods(p) = Periods(q) + period
      /\ On(L, g, 0) = g /\ On(L, latency_back, 1) = On(L, g, p) /\ On(L, g, p) # g /\ On(L, g, p) \in 0..L - 1
      /\ \A j \in 0..L - 1 : On(L, g, j) \in 0..L - 1
      /\ \A j \in 0..L - 1 : j # q => On(L, g, j) # On(L, g, q)
  <2>1. p \in 1..L - 1 /\ p \in 0..L - 1 /\ Periods(p) = Periods(q) + period
    BY <1>1, <1>4, PeriodsAdd
  <2> HIDE DEF g, L, q
  <2> QED
    BY <1>1, <1>4, <1>5, <1>7, <2>1, Turn
<1>10. /\ framedata' = [framedata EXCEPT ![latency_back] = frame]
       /\ latency_back' = On(L, g, p) /\ latency_front' = g /\ latency_count' = L
  <2>1. (latency_back + 1) % L = On(L, g, p)
    BY <1>9 DEF On
  <2>2. push_market_frame(frame) /\ latency_front' = g
    BY DEF FileLater
  <2>3. latency_count' = L
    BY DEF latency_count
  <2> HIDE DEF p, g
  <2> QED
    BY <1>9, <2>1, <2>2, <2>3 DEF push_market_frame, g
<1>11. Waiting' = p /\ c + d + 1 + q = market_id
  BY <1>1, <1>2, <1>7 DEF Waiting
<1>8. ASSUME NEW j \in 0..p - 1
      PROVE  \/ j = p - 1 /\ framedata'[On(L, g, j)] = frame
             \/ \E k \in 0..Waiting - 1 : framedata'[On(L, g, j)] = framedata[Place(k)] /\ c + d + 1 + j = c + 1 + k
  <2>1. j \in 0..L - 1 /\ j \in 0..L - 2
    BY <1>1, <1>4
  <2>2. On(L, g, j) \in 0..L - 1
    BY <1>9, <2>1
  <2>3. CASE j = q
    <3>1. framedata'[On(L, g, j)] = frame
      BY <1>7, <1>10, <2>2, <2>3 DEF FInv, Types
    <3> QED
      BY <1>4, <2>3, <3>1
  <2>4. CASE j # q
    <3>1. On(L, g, j) # On(L, g, q)
      BY <1>9, <2>1, <2>4
    <3>2. framedata'[On(L, g, j)] = framedata[On(L, g, j)]
      BY <1>7, <1>10, <2>2, <3>1 DEF FInv, Types
    <3>3. j + d \in 0..Waiting - 1 /\ c + d + 1 + j = c + 1 + (j + d)
      BY <1>1, <1>2, <1>4, <2>4
    <3>4. framedata'[On(L, g, j)] = framedata[Place(j + d)]
      BY <1>6, <2>1, <3>2
    <3> QED
      BY <3>3, <3>4
  <2> QED
    BY <2>3, <2>4
<1>12. \A j \in 0..q : Filed(framedata'[On(L, g, j)], c + d + 1 + j)
  <2> SUFFICES ASSUME NEW j \in 0..q PROVE Filed(framedata'[On(L, g, j)], c + d + 1 + j)
    OBVIOUS
  <2>1. j \in 0..p - 1
    BY <1>4
  <2>2. CASE j = p - 1 /\ framedata'[On(L, g, j)] = frame
    <3>1. c + d + 1 + j = market_id
      BY <1>4, <1>11, <2>2
    <3> QED
      BY <2>2, <3>1
  <2>3. ASSUME NEW k \in 0..Waiting - 1, framedata'[On(L, g, j)] = framedata[Place(k)], c + d + 1 + j = c + 1 + k
        PROVE  Filed(framedata'[On(L, g, j)], c + d + 1 + j)
    <3>1. Filed(framedata[Place(k)], c + 1 + k)
      BY DEF FInv, InRing
    <3> QED
      BY <2>3, <3>1
  <2> HIDE DEF p, d, c, g, L
  <2> QED
    BY <1>8, <2>1, <2>2, <2>3
<1>13. \A m \in Int : Start(m)' = Start(m) /\ Start(m) \in Int /\ Start(m + 1) = Start(m) + period
  BY StartKept DEF FInv
<1> DEFINE first == framedata'[g]
<1>14. first.market_id = c + d + 1 /\ first.start_time = clearat + latency - Periods(q)
  <2>1. 0 \in 0..q /\ c + d + 1 + 0 = c + d + 1 /\ c + d + 1 \in Int
    BY <1>2, <1>4
  <2>2. Filed(first, c + d + 1)
    BY <1>9, <1>12, <2>1
  <2>3. market_id - (c + d + 1) = q
    BY <1>2, <1>4, <1>11
  <2> QED
    BY <2>2, <2>3 DEF Filed, Start
<1>15. Ahead(first) <=> Periods(p) >= latency
  BY <1>2, <1>4, <1>9, <1>14 DEF Ahead
<1>16. Due => Ahead(first)
  <2> SUFFICES ASSUME Due PROVE Periods(p) >= latency
    BY <1>15
  <2>1. p = Waiting
    BY <1>1
  <2> QED
    BY <1>3, <2>1
<1>17. /\ next_frame'.market_id # 0 <=> Periods(p) >= latency
       /\ next_frame'.market_id # 0 => next_frame' = first
  <2>1. next_frame' = IF Ahead(first) THEN first ELSE next_frame
    BY DEF FileLater
  <2>2. ~Due => next_frame.market_id = 0
    BY <1>1, <1>2, <1>3, PeriodsAdd DEF FInv, InRing
  <2>3. first.market_id # 0
    BY <1>2, <1>14
  <2> QED
    BY <1>15, <1>16, <2>1, <2>2, <2>3
<1>18. Types'
  <2>1. framedata' = [k \in 0..latency_count' - 1 |-> framedata'[k]]
    BY <1>10 DEF FInv, Types
  <2> QED
    BY <1>2, <1>5, <1>9, <1>10, <2>1 DEF FInv, Types
<1>19. current_frame' # current_frame =>
           /\ current_frame'.market_id = c + 1 /\ past_frame' = current_frame
           /\ current_frame' = framedata[latency_front] /\ Due
  BY <1>3 DEF FileLater, Filed
<1>20. current_frame'.market_id # 0 => Filed(current_frame', current_frame'.market_id)
  <2>1. CASE Due
    BY <1>3, <2>1 DEF FileLater, Filed
  <2>2. CASE ~Due
    BY <2>2 DEF FileLater, FInv, InForce
  <2> QED
    BY <2>1, <2>2
<1>21. \A m \in Int : Start(m) = clearat' + latency' - Periods(market_id' - m)
  BY <1>13 DEF Start
<1>22. InForce'
  <2>1. market_id' # 1 /\ market_id' - 1 = market_id /\ market_id \in Int
    BY <1>2
  <2>2. /\ cleared_frame'.market_id = market_id' - 1
        /\ cleared_frame'.start_time = clearat' + latency' - Periods(market_id' - (market_id' - 1))
        /\ cleared_frame'.end_time = clearat' + latency' - Periods(market_id' - (market_id' - 1)) + period
    BY <1>21, <2>1 DEF Filed
  <2>3. current_frame'.market_id \in 0..market_id' - 1
    BY <1>2, <1>4, <1>7, <1>11
  <2>4. current_frame'.market_id # 0 =>
          /\ current_frame'.start_time = clearat' + latency' - Periods(market_id' - current_frame'.market_id)
          /\ current_frame'.end_time = clearat' + latency' - Periods(market_id' - current_frame'.market_id) + period
    BY <1>20, <1>21, <2>3 DEF Filed
  <2> QED
    BY <2>1, <2>2, <2>3, <2>4 DEF InForce, Filed, Start
<1>23. InRing'
  <2>1. latency_back' = On(latency_count', latency_front', Waiting')
    BY <1>10, <1>11
  <2>2. \A j \in 0..p - 1 : Filed(framedata[Place(j)], current_frame.market_id + 1 + j)'
    <3> SUFFICES ASSUME NEW j \in 0..q PROVE Filed(framedata[Place(j)], current_frame.market_id + 1 + j)'
      BY <1>4
    <3>1. Place(j)' = On(L, g, j)
      BY <1>10 DEF Place
    <3>2. Filed(framedata'[On(L, g, j)], c + d + 1 + j)
      BY <1>12
    <3>3. c + d + 1 + j = current_frame'.market_id + 1 + j /\ c + d + 1 + j \in Int
      BY <1>2, <1>7
    <3> QED
      BY <1>21, <3>1, <3>2, <3>3 DEF Filed, Start
  <2>3. Periods(p) < latency' + period
    BY <1>2, <1>4, <1>9
  <2>4. current_frame'.market_id # 0 => Periods(p) >= latency'
    <3>1. CASE Due
      BY <1>15, <1>16, <3>1
    <3>2. CASE ~Due
      <4>1. c # 0 => Periods(Waiting) >= latency
        BY DEF FInv, InRing
      <4> QED
        BY <1>3, <1>7, <3>2, <4>1
    <3> QED
      BY <3>1, <3>2
  <2> QED
    <3>1. \A j \in 0..Waiting' - 1 : Filed(framedata[Place(j)], current_frame.market_id + 1 + j)'
      BY <1>11, <2>2
    <3>2. /\ Periods(Waiting') < latency' + period
          /\ current_frame'.market_id # 0 => Periods(Waiting') >= latency'
          /\ next_frame'.market_id # 0 <=> Periods(Waiting') >= latency'
          /\ next_frame'.market_id # 0 => next_frame' = framedata'[latency_front']
      BY <1>10, <1>11, <1>17, <2>3, <2>4
    <3> QED
      BY <2>1, <3>1, <3>2 DEF InRing, Place
<1>24. current_frame' # current_frame /\ c # 0 => current_frame'.start_time = current_frame.end_time
  BY <1>2, <1>3, <1>13, <1>19 DEF FInv, InForce, Filed
<1>26. /\ Waiting' \in Nat \ {0} /\ Place(0)' = g
       /\ \A j \in 0..Waiting' - 1 :
            \/ j = Waiting' - 1 /\ framedata'[Place(j)'] = frame
            \/ \E k \in 0..Waiting - 1 : /\ framedata'[Place(j)'] = framedata[Place(k)]
                                         /\ current_frame'.market_id + 1 + j = c + 1 + k
  <2>1. \A j : Place(j)' = On(L, g, j)
    BY <1>10 DEF Place
  <2>2. Waiting' = p /\ p \in Nat \ {0} /\ current_frame'.market_id = c + d /\ On(L, g, 0) = g
    BY <1>1, <1>7, <1>9, <1>11
  <2> HIDE DEF p, d, c, g, L
  <2> QED
    BY <1>8, <2>1, <2>2
<1> QED
  BY <1>15, <1>16, <1>17, <1>18, <1>19, <1>22, <1>23, <1>24, <1>26
-----------------------------------------------------------------------------
(* What a clearing does to the clock and to the frames.                    *)
LEMMA ClearIs ==
    ASSUME FInv, Clear
    PROVE  /\ clearat # 0 /\ clock = clearat /\ clearat' = clearat + period /\ clearat' % period = 0
           /\ market_id' = market_id + 1 /\ latency' = latency /\ clock' = clock /\ pass' = "sync"
           /\ Filed(cleared_frame', market_id)
           /\ IF latency > 0 THEN FileLater(cleared_frame') ELSE FileNow(cleared_frame')
<1>1. /\ clearat # 0 /\ clock >= clearat /\ market_id' = market_id + 1 /\ clearat' = nextclear
      /\ latency' = latency /\ clock' = clock /\ pass' = "sync" /\ clear_market
  BY DEF Clear, settings
<1>2. clock = clearat /\ clock % period = 0 /\ clock \in Nat /\ latency \in Nat /\ market_id \in Nat
  BY <1>1, Constants DEF FInv, Types, Clockwork
<1>3. clearat' = clearat + period /\ clearat' % period = 0
  BY <1>1, <1>2, NextClear DEF nextclear
<1>4. PICK r, demand, supply, stat :
        /\ cleared_frame' = FrameOf(r, demand, supply, stat)
        /\ IF latency > 0 THEN FileLater(cleared_frame') ELSE FileNow(cleared_frame')
  BY <1>1 DEF clear_market
<1>5. Filed(cleared_frame', market_id)
  <2>1. market_id - market_id = 0 /\ clearat + latency - 0 = clearat + latency
    BY <1>2
  <2>2. Start(market_id) = clearat + latency
    BY <2>1, PeriodsZero DEF Start
  <2> QED
    BY <1>2, <1>4, <2>2 DEF Filed, FrameOf
<1> QED
  BY <1>1, <1>2, <1>3, <1>4, <1>5

(* A clearing without latency.                                             *)
LEMMA FileNowKeeps ==
    ASSUME FInv, latency = 0,
           Filed(cleared_frame', market_id), FileNow(cleared_frame'),
           market_id' = market_id + 1, clearat' = clearat + period, latency' = latency,
           clock' = clock, pass' = "sync"
    PROVE  /\ Types' /\ InForce' /\ InRing'
           /\ current_frame'.market_id = current_frame.market_id + 1 /\ past_frame' = current_frame
           /\ current_frame.market_id # 0 => current_frame'.start_time = current_frame.end_time
<1>1. /\ clearat \in Nat /\ market_id \in Nat \ {0} /\ period \in Nat \ {0} /\ current_frame.market_id \in Nat
      /\ current_frame.market_id = market_id - 1
  BY Constants DEF FInv, Types, InForce, Waiting
<1>2. current_frame' = cleared_frame' /\ past_frame' = current_frame
      /\ UNCHANGED <<framedata, latency_front, latency_back, next_frame>>
  BY DEF FileNow
<1>3. \A m \in Int : Start(m)' = Start(m) /\ Start(m) \in Int /\ Start(m + 1) = Start(m) + period
  BY StartKept DEF FInv
<1>4. \A m \in Int : Start(m) = clearat' + latency' - Periods(market_id' - m)
  BY <1>3 DEF Start
<1>5. Types'
  BY <1>1, <1>2, Constants DEF FInv, Types, latency_count
<1>6. InForce'
  <2>1. market_id' # 1 /\ market_id' - 1 = market_id /\ market_id \in Int /\ market_id \in 0..market_id' - 1
    BY <1>1
  <2>2. /\ cleared_frame'.market_id = market_id
        /\ cleared_frame'.start_time = clearat' + latency' - Periods(market_id' - market_id)
        /\ cleared_frame'.end_time = clearat' + latency' - Periods(market_id' - market_id) + period
    BY <1>4, <2>1 DEF Filed
  <2>3. Waiting' = 0
    BY <1>1, <1>2, <2>2 DEF Waiting
  <2> QED
    BY <1>2, <2>1, <2>2, <2>3 DEF InForce, Filed, Start
<1>7. current_frame.market_id # 0 => current_frame'.start_time = current_frame.end_time
  BY <1>1, <1>2, <1>3 DEF FInv, InForce, Filed
<1> QED
  BY <1>1, <1>2, <1>5, <1>6, <1>7 DEF InRing, Filed

(* The rest of a step leaves the markets alone.                            *)
LEMMA MarketsKept ==
    ASSUME FInv, UNCHANGED <<latency, market_id, frames>>, clearat' = clearat \/ market_id = 1
    PROVE  InForce' /\ InRing'
<1>1. latency' = latency /\ market_id' = market_id /\ latency_count' = latency_count
      /\ UNCHANGED <<cleared_frame, current_frame, next_frame, framedata, latency_front, latency_back>>
  BY DEF frames, latency_count
<1>2. CASE clearat' = clearat
  BY <1>1, <1>2 DEF FInv, InForce, InRing, Filed, Start, Waiting, Place
<1>3. CASE market_id = 1
  <2>1. Waiting = 0 /\ current_frame.market_id = 0 /\ cleared_frame.market_id = 0 /\ Waiting' = 0
    BY <1>1, <1>3 DEF FInv, InForce, Waiting
  <2>2. InForce'
    BY <1>1, <1>3, <2>1 DEF FInv, InForce
  <2>3. 0..Waiting' - 1 = {}
    BY <2>1
  <2> QED
    BY <1>1, <2>1, <2>2, <2>3 DEF FInv, InRing, Place
<1> QED
  BY <1>2, <1>3

LEMMA MinTwo ==
    ASSUME NEW a \in Int, NEW b \in Int
    PROVE  Min({a, b}) = IF a <= b THEN a ELSE b
BY DEF Min

LEMMA FInit == Init => FInv
<1> SUFFICES ASSUME Init PROVE FInv
  OBVIOUS
<1>1. /\ latency \in Nat /\ clock \in Nat /\ latency_count \in Nat /\ latency_count >= 2
  BY Constants, Count DEF Init
<1>2. /\ market_id = 1 /\ cleared_frame.market_id = 0 /\ current_frame.market_id = 0 /\ next_frame.market_id = 0
      /\ latency_front = 0 /\ latency_back = 0 /\ Waiting = 0
  BY DEF Init, NoFrame, Waiting
<1>3. Types
  BY <1>1, <1>2 DEF Init, Types
<1>4. Clockwork /\ InForce
  BY <1>2 DEF Init, Clockwork, InForce
<1>5. InRing
  <2>1. Place(0) = 0
    <3>1. 0 \in 0..latency_count - 1 /\ 0 \in 0..latency_count
      BY <1>1
    <3>2. On(latency_count, 0, 0) = 0
      BY <1>1, <3>1, OnIs
    <3> QED
      BY <1>2, <3>2 DEF Place
  <2>2. 0..Waiting - 1 = {}
    BY <1>2
  <2> QED
    BY <1>1, <1>2, <2>1, <2>2, PeriodsZero, Constants DEF InRing
<1> QED
  BY <1>3, <1>4, <1>5 DEF FInv

(* The steps that are not clearings.                                       *)
LEMMA FOthers == FInv /\ (Open \/ Wait \/ Advance \/ (\E b \in Bidders : Submit(b)) \/ UNCHANGED vars) => FInv'
<1> SUFFICES ASSUME FInv, Open \/ Wait \/ Advance \/ (\E b \in Bidders : Submit(b)) \/ UNCHANGED vars PROVE FInv'
  OBVIOUS
<1>1. UNCHANGED <<latency, market_id, frames>>
  BY DEF Open, Wait, Advance, Submit, vars, settings
<1>2. clearat' = clearat \/ (market_id = 1 /\ Open)
  BY DEF Open, Wait, Advance, Submit, vars, FInv, Clockwork
<1>3. InForce' /\ InRing'
  BY <1>1, <1>2, MarketsKept
<1>4. Clockwork' /\ clock' \in Nat /\ clearat' \in Nat /\ pass' \in {"presync", "sync"}
  <2>1. clock \in Nat /\ clearat \in Nat /\ period \in Nat \ {0}
    BY Constants DEF FInv, Types
  <2>2. CASE Open
    <3>1. clearat' = nextclear /\ clock' = clock /\ pass' = "sync"
      BY <2>2 DEF Open
    <3>2. clearat' \in Nat /\ clearat' % period = 0 /\ clock < clearat' /\ clearat' <= clock + period
      BY <2>1, <3>1, NextClear DEF nextclear
    <3> QED
      BY <2>1, <3>1, <3>2 DEF Clockwork
  <2>3. CASE Wait
    BY <1>1, <2>1, <2>3 DEF Wait, FInv, Clockwork
  <2>4. CASE Advance
    <3>1. clearat # 0 /\ pass' = "presync" /\ clearat' = clearat
      BY <2>4 DEF Advance, FInv, Clockwork
    <3>2. clock' \in Nat /\ clock' <= clearat /\ clock <= clock'
      BY <2>1, <2>4, MinTwo, Constants DEF Advance
    <3>3. clearat' % period = 0
      BY <3>1 DEF FInv, Clockwork
    <3>4. clearat <= clock + period
      BY <3>1 DEF FInv, Clockwork
    <3>5. clearat' <= clock' + period /\ clock' <= clearat'
      <4>1. PICK k \in Nat : k = clock'
        BY <3>2
      <4>2. clock <= k
        BY <3>2, <4>1
      <4>3. clearat <= k + period
        BY <2>1, <3>4, <4>2
      <4> QED
        BY <3>1, <3>2, <4>1, <4>3
    <3> QED
      BY <2>1, <3>1, <3>2, <3>3, <3>5 DEF Clockwork
  <2>5. CASE \E b \in Bidders : Submit(b)
    BY <1>1, <2>5 DEF Submit, FInv, Types, Clockwork
  <2>6. CASE UNCHANGED vars
    BY <2>6 DEF vars, FInv, Types, Clockwork
  <2> QED
    BY <2>2, <2>3, <2>4, <2>5, <2>6
<1>5. Types'
  BY <1>1, <1>4 DEF FInv, Types, frames, latency_count
<1> QED
  BY <1>3, <1>4, <1>5 DEF FInv

LEMMA FClear == FInv /\ Clear => FInv'
<1> SUFFICES ASSUME FInv, Clear PROVE FInv'
  OBVIOUS
<1>1. Types' /\ InForce' /\ InRing'
  <2>1. CASE latency > 0
    BY <2>1, ClearIs, FileLaterKeeps
  <2>2. CASE latency = 0
    BY <2>2, ClearIs, FileNowKeeps
  <2> QED
    BY <2>1, <2>2, Constants DEF FInv, Types
<1>2. Clockwork'
  BY ClearIs, Constants DEF FInv, Types, Clockwork
<1> QED
  BY <1>1, <1>2 DEF FInv

THEOREM FInductive == Spec => []FInv
<1>1. FInv /\ [Next]_vars => FInv'
  BY FOthers, FClear DEF Next
<1> QED
  BY <1>1, FInit, PTL DEF Spec
-----------------------------------------------------------------------------
(* Where a place of the ring is, counted from the front.                   *)
LEMMA Back ==
    ASSUME NEW L \in Nat \ {0}, NEW f \in 0..L - 1, NEW j \in 0..L - 1
    PROVE  (On(L, f, j) + L - f) % L = j
<1> DEFINE x == On(L, f, j) + L - f
<1>1. j \in 0..L
  OBVIOUS
<1>2. On(L, f, j) = IF f + j < L THEN f + j ELSE f + j - L
  BY <1>1, OnIs
<1>3. CASE f + j < L
  <2>1. x = j + L /\ x \in Int /\ L <= x /\ x < 2 * L
    BY <1>2, <1>3
  <2> HIDE DEF x
  <2>2. x % L = x - L
    BY <2>1, Wraps
  <2> QED
    BY <2>1, <2>2 DEF x
<1>4. CASE ~(f + j < L)
  <2>1. x = j
    BY <1>2, <1>4
  <2>2. j % L = j
    BY Wraps
  <2> QED
    BY <2>1, <2>2
<1> QED
  BY <1>3, <1>4

(* The ring holds the markets that wait, in order (PendingInOrder).        *)
LEMMA RingIs ==
    ASSUME FInv, latency > 0
    PROVE  Ring = {Place(j) : j \in 0..Waiting - 1}
<1>1. Waiting \in 0..latency_count - 1 /\ latency_count \in Nat /\ latency_count >= 2
  BY WaitingIs DEF FInv
<1>2. (latency_back + latency_count - latency_front) % latency_count = Waiting
  <2>1. latency_front \in 0..latency_count - 1 /\ latency_back = On(latency_count, latency_front, Waiting)
    BY DEF FInv, Types, InRing, Place
  <2> QED
    BY <1>1, <2>1, Back
<1> QED
  BY <1>2 DEF Ring, Place, On

LEMMA PendingHolds == FInv => PendingInOrder
<1> SUFFICES ASSUME FInv, latency > 0
             PROVE  /\ {framedata[k].market_id : k \in Ring} = current_frame.market_id + 1..market_id - 1
                    /\ \A k \in Ring : framedata[k].market_id
                         = current_frame.market_id + 1 + ((k + latency_count - latency_front) % latency_count)
                    /\ next_frame.market_id # 0 => next_frame = framedata[latency_front]
  BY DEF PendingInOrder
<1> DEFINE c == current_frame.market_id
<1>1. Waiting \in 0..latency_count - 1 /\ latency_count \in Nat /\ latency_count >= 2
  BY WaitingIs DEF FInv
<1>2. c \in Nat /\ market_id \in Nat /\ market_id - 1 = c + Waiting /\ latency_front \in 0..latency_count - 1
  BY DEF FInv, InForce, Types, Waiting
<1>3. \A j \in 0..Waiting - 1 : framedata[Place(j)].market_id = c + 1 + j
  BY DEF FInv, InRing, Filed
<1>4. {framedata[k].market_id : k \in Ring} = {c + 1 + j : j \in 0..Waiting - 1}
  BY <1>3, RingIs
<1>5. {c + 1 + j : j \in 0..Waiting - 1} = c + 1..market_id - 1
  <2>1. ASSUME NEW j \in 0..Waiting - 1 PROVE c + 1 + j \in c + 1..market_id - 1
    BY <1>1, <1>2
  <2>2. ASSUME NEW m \in c + 1..market_id - 1 PROVE m - c - 1 \in 0..Waiting - 1 /\ m = c + 1 + (m - c - 1)
    BY <1>1, <1>2
  <2> HIDE DEF c
  <2> QED
    BY <2>1, <2>2
<1>6. ASSUME NEW k \in Ring
      PROVE  framedata[k].market_id = c + 1 + ((k + latency_count - latency_front) % latency_count)
  <2>1. PICK j \in 0..Waiting - 1 : k = Place(j)
    BY RingIs
  <2>2. j \in 0..latency_count - 1
    BY <1>1
  <2>3. (k + latency_count - latency_front) % latency_count = j
    BY <1>1, <1>2, <2>1, <2>2, Back DEF Place
  <2> QED
    BY <1>3, <2>1, <2>3
<1> QED
  BY <1>4, <1>5, <1>6 DEF FInv, InRing

(* PendingInOrder: with latency, no result of the auction is lost or       *)
(* overwritten in the ring of frames (push_market_frame, clear_market).    *)
THEOREM ResultsWaitInOrder == Spec => []PendingInOrder
BY FInductive, PendingHolds, PTL

LEMMA InForceHolds == FInv => FrameInForce
<1> DEFINE R == (latency + period - 1) \div period
           x == (period - (latency % period)) % period
           c == current_frame.market_id
           W == Waiting
<1> SUFFICES ASSUME FInv, pass = "sync", cleared_frame.market_id > R
             PROVE  c # 0 /\ current_frame.start_time <= clock /\ clock < current_frame.end_time + x
  BY DEF FrameInForce
<1>1. /\ latency \in Nat /\ clock \in Nat /\ clearat \in Nat /\ market_id \in Nat \ {0} /\ c \in 0..market_id - 1
      /\ period \in Nat \ {0}
  BY Constants DEF FInv, Types, InForce
<1>2. R \in Nat /\ x \in Nat /\ latency + x = Periods(R) /\ Periods(R) < latency + period
  <2>1. R \in Nat /\ latency + x = Periods(R) /\ Periods(R) < latency + period
    BY <1>1, LatencyRoundedUp
  <2>2. x \in Nat
    <3>1. latency % period \in 0..period - 1
      BY <1>1
    <3> QED
      BY <1>1, <3>1
  <2> QED
    BY <2>1, <2>2
<1> HIDE DEF R, x
<1>3. clock < clearat /\ clearat <= clock + period
  BY DEF FInv, Clockwork
<1>4. market_id - 1 > R /\ W \in Nat /\ W + c = market_id - 1 /\ market_id - c = W + 1
  <2>1. cleared_frame.market_id = market_id - 1
    BY <1>1, <1>2 DEF FInv, InForce, Filed
  <2> QED
    BY <1>1, <1>2, <2>1 DEF Waiting
<1>5. Periods(W) < latency + period /\ (c # 0 => Periods(W) >= latency)
  <2>1. CASE latency = 0
    <3>1. W = 0
      BY <2>1 DEF FInv, InForce
    <3> QED
      BY <1>1, <2>1, <3>1, PeriodsZero
  <2>2. CASE latency > 0
    BY <2>2 DEF FInv, InRing
  <2> QED
    BY <1>1, <2>1, <2>2
<1> HIDE DEF W, c
<1>6. W <= R
  <2> SUFFICES ASSUME R < W PROVE FALSE
    BY <1>2, <1>4
  <2>1. Periods(R) + period <= Periods(W) /\ Periods(W) \in Int
    BY <1>2, <1>4, PeriodsOrder, PeriodsAdd
  <2> QED
    BY <1>1, <1>2, <1>5, <2>1
<1>7. c # 0
  BY <1>1, <1>2, <1>4, <1>6
<1>8. Periods(W) <= Periods(R) /\ Periods(W) \in Int /\ Periods(W + 1) = Periods(W) + period
  BY <1>2, <1>4, <1>6, PeriodsOrder, PeriodsAdd
<1>9. current_frame.start_time = clearat + latency - Periods(W + 1) /\ current_frame.end_time = current_frame.start_time + period
  BY <1>4, <1>7 DEF FInv, InForce, Filed, Start, c
<1> QED
  BY <1>1, <1>2, <1>3, <1>5, <1>7, <1>8, <1>9

(* FrameInForce: after the top-down pass, the frame in force is the one of *)
(* the moment, for every latency and period (clear_market, presync).       *)
THEOREM TheRightFrameIsInForce == Spec => []FrameInForce
BY FInductive, InForceHolds, PTL

LEMMA OneAfterAnotherStep ==
    FInv /\ [Next]_vars =>
       /\ cleared_frame' # cleared_frame /\ cleared_frame.market_id # 0 =>
            /\ cleared_frame'.market_id = cleared_frame.market_id + 1
            /\ cleared_frame'.start_time = cleared_frame.end_time
       /\ current_frame' # current_frame =>
            /\ current_frame'.market_id = current_frame.market_id + 1
            /\ past_frame' = current_frame
            /\ current_frame.market_id # 0 => current_frame'.start_time = current_frame.end_time
<1>1. CASE FInv /\ Clear
  <2>1. /\ Filed(cleared_frame', market_id) /\ clearat' = clearat + period /\ market_id' = market_id + 1
        /\ latency' = latency /\ market_id \in Nat \ {0}
    BY <1>1, ClearIs DEF FInv, Types
  <2>2. ASSUME cleared_frame.market_id # 0
        PROVE  /\ cleared_frame'.market_id = cleared_frame.market_id + 1
               /\ cleared_frame'.start_time = cleared_frame.end_time
    <3> DEFINE m == market_id - 1
    <3>1. Filed(cleared_frame, m) /\ m \in Int /\ m + 1 = market_id
      BY <1>1, <2>1, <2>2 DEF FInv, InForce
    <3>2. Start(m + 1) = Start(m) + period
      <4> HIDE DEF m
      <4> QED
        BY <1>1, <2>1, <3>1, StartKept DEF FInv
    <3> QED
      BY <2>1, <3>1, <3>2 DEF Filed
  <2>3. CASE latency > 0
    BY <1>1, <2>2, <2>3, ClearIs, FileLaterKeeps
  <2>4. CASE latency = 0
    BY <1>1, <2>2, <2>4, ClearIs, FileNowKeeps
  <2> QED
    BY <1>1, <2>3, <2>4, Constants DEF FInv, Types
<1>2. CASE UNCHANGED <<cleared_frame, current_frame>>
  BY <1>2
<1> QED
  BY <1>1, <1>2 DEF Next, Open, Wait, Advance, Submit, vars, frames

(* OneAfterAnother: markets clear once in each period and come in force    *)
(* one after the other, none skipped (clear_market, pop_market_frame).     *)
THEOREM MarketsFollow == Spec => OneAfterAnother
BY FInductive, OneAfterAnotherStep, PTL DEF Spec, OneAfterAnother
-----------------------------------------------------------------------------
(* Remainders.                                                             *)

LEMMA ModAdd ==
    ASSUME NEW L \in Nat \ {0}, NEW a \in Int, NEW b \in Int
    PROVE  ((a % L) + b) % L = (a + b) % L
<1>1. PICK q \in Int, r \in 0..L - 1 : r = a % L /\ a = q * L + r
  BY Division
<1> DEFINE e == r + b
<1>2. e \in Int
  BY <1>1
<1> HIDE DEF e
<1>3. PICK p \in Int, u \in 0..L - 1 : u = e % L /\ e = p * L + u
  BY <1>2, Division
<1> DEFINE k == q + p
           s == a + b
<1>4. k \in Int /\ s \in Int
  BY <1>1, <1>3
<1> DEFINE ql == q * L
           pl == p * L
           kl == k * L
<1>5. kl = ql + pl /\ ql \in Int /\ pl \in Int
  BY <1>1, <1>3
<1>6. a = ql + r /\ r + b = pl + u
  BY <1>1, <1>3 DEF e
<1>7. s = kl + u
  <2> HIDE DEF kl, pl, ql
  <2>1. a + b = ql + (r + b)
    BY <1>5, <1>6
  <2> QED
    BY <1>5, <1>6, <2>1
<1> HIDE DEF k, s
<1>8. s % L = u
  <2>1. k \in Int /\ s \in Int /\ u \in 0..L - 1 /\ s = k * L + u
    BY <1>4, <1>7
  <2> QED
    BY <2>1, Remainder
<1> QED
  BY <1>1, <1>3, <1>8 DEF e, s

LEMMA ModTurn ==
    ASSUME NEW L \in Nat \ {0}, NEW a \in Int
    PROVE  (a + L) % L = a % L
<1>1. PICK q \in Int, r \in 0..L - 1 : r = a % L /\ a = q * L + r
  BY Division
<1> DEFINE k == q + 1
           s == a + L
<1>2. k \in Int /\ s \in Int
  BY <1>1
<1> DEFINE ql == q * L
           kl == k * L
<1>3. kl = ql + L /\ ql \in Int /\ a = ql + r
  BY <1>1
<1>4. s = kl + r
  <2> HIDE DEF kl, ql
  <2> QED
    BY <1>1, <1>3
<1> HIDE DEF k, s
<1>5. s % L = r
  <2>1. k \in Int /\ s \in Int /\ r \in 0..L - 1 /\ s = k * L + r
    BY <1>2, <1>4
  <2> QED
    BY <2>1, Remainder
<1> QED
  BY <1>1, <1>5 DEF s

(* Numbers less than a turn apart have different remainders.               *)
LEMMA ModApart ==
    ASSUME NEW L \in Nat \ {0}, NEW a \in Int, NEW b \in Int, a < b, b < a + L
    PROVE  a % L # b % L
<1>1. PICK q \in Int, r \in 0..L - 1 : r = a % L /\ a = q * L + r
  BY Division
<1> DEFINE x == r + (b - a)
<1>2. x \in Int /\ 0 <= x /\ x < 2 * L /\ x # r /\ x # r + L
  BY <1>1
<1> HIDE DEF x
<1>3. x % L # r
  <2>1. CASE x < L
    BY <1>2, <2>1, Wraps
  <2>2. CASE L <= x
    <3>1. x % L = x - L
      BY <1>2, <2>2, Wraps
    <3> QED
      BY <1>1, <1>2, <3>1
  <2> QED
    BY <1>2, <2>1, <2>2
<1>4. x % L = b % L
  <2> DEFINE y == b - a
  <2>1. y \in Int /\ a + y = b /\ x = r + y
    BY DEF x
  <2> HIDE DEF y
  <2> QED
    BY <1>1, <2>1, ModAdd
<1> QED
  BY <1>1, <1>3, <1>4

LEMMA ModNext ==
    ASSUME NEW L \in Nat \ {0}, NEW a \in Int
    PROVE  (a + 1) % L = IF (a % L) + 1 = L THEN 0 ELSE (a % L) + 1
<1> DEFINE x == (a % L) + 1
<1>1. a % L \in 0..L - 1
  OBVIOUS
<1>2. x \in Int /\ 0 <= x /\ x <= L /\ x < 2 * L
  BY <1>1
<1>3. x % L = (a + 1) % L
  <2> DEFINE b == 1
  <2>1. b \in Int
    OBVIOUS
  <2>2. ((a % L) + b) % L = (a + b) % L
    <3> HIDE DEF b
    <3> QED
      BY <2>1, ModAdd
  <2> QED
    BY <2>2
<1>4. x % L = IF x = L THEN 0 ELSE x
  <2>1. CASE x < L
    BY <1>2, <2>1, Wraps
  <2>2. CASE x = L
    <3>1. x % L = x - L
      BY <1>2, <2>2, Wraps
    <3> QED
      BY <1>2, <2>2, <3>1
  <2> HIDE DEF x
  <2> QED
    BY <1>2, <2>1, <2>2
<1> QED
  BY <1>3, <1>4

-----------------------------------------------------------------------------
(* Statistics.                                                             *)

(* The largest of a finite set is one of it.                               *)
LEMMA Largest ==
    ASSUME NEW S \in SUBSET Nat, IsFiniteSet(S), S # {}
    PROVE  Max(S) \in S /\ \A y \in S : y <= Max(S)
<1> DEFINE From(x) == {y \in S : y >= x}
           T == {From(x) : x \in S}
<1>1. T \subseteq FiniteSubsetsOf(Nat) /\ T # {}
  <2>1. \A x \in S : IsFiniteSet(From(x)) /\ From(x) \subseteq Nat
    BY FS_Subset
  <2>2. \A x \in S : From(x) \in FiniteSubsetsOf(Nat)
    BY <2>1 DEF FiniteSubsetsOf
  <2> QED
    BY <2>2
<1>2. PICK m \in T : \A y \in T : ~(<<y, m>> \in StrictSubsetOrdering(Nat))
  BY <1>1, FS_StrictSubsetOrderingWellFounded, WFMin
<1>3. PICK x \in S : m = From(x)
  BY <1>2
<1>4. ASSUME NEW y \in S PROVE y <= x
  <2>1. From(y) \in T /\ From(y) \in SUBSET Nat /\ From(x) \in SUBSET Nat
    OBVIOUS
  <2>2. ~(From(y) \subseteq From(x) /\ From(y) # From(x))
    BY <1>2, <1>3, <2>1 DEF StrictSubsetOrdering
  <2>3. \A z \in S : z \in Nat
    OBVIOUS
  <2>4. ASSUME y > x PROVE From(y) \subseteq From(x) /\ x \in From(x) /\ x \notin From(y)
    <3>1. x \in Nat /\ y \in Nat /\ x >= x /\ ~(x >= y)
      BY <2>3, <2>4
    <3>2. \A z \in S : z >= y => z >= x
      BY <2>3, <3>1
    <3> QED
      BY <3>1, <3>2
  <2> HIDE DEF From
  <2> QED
    BY <2>2, <2>3, <2>4
<1> QED
  BY <1>4 DEF Max

LEMMA Needs ==
    /\ history_count \in Nat \ {0}
    /\ \A s \in DOMAIN Statistics :
         /\ Statistics[s].need \in Nat /\ Statistics[s].mode \in {"CURR", "PAST"}
         /\ Statistics[s].need < history_count
<1> DEFINE N == {Statistics[s].need : s \in DOMAIN Statistics}
<1>1. PICK n \in Nat : Statistics \in [1..n -> [mode : {"CURR", "PAST"}, need : Nat]]
  <2> DEFINE R == [mode : {"CURR", "PAST"}, need : Nat]
  <2> HIDE DEF R
  <2>1. Statistics \in Seq(R)
    BY StatisticsAssumption DEF R
  <2>2. \E n \in Nat : Statistics \in [1..n -> R]
    <3>1. Len(Statistics) \in Nat /\ Statistics \in [1..Len(Statistics) -> R]
      BY <2>1, LenProperties
    <3> QED
      BY <3>1
  <2> QED
    BY <2>2 DEF R
<1>2. \A s \in DOMAIN Statistics : Statistics[s].need \in Nat /\ Statistics[s].mode \in {"CURR", "PAST"}
  BY <1>1
<1>3. IsFiniteSet(N)
  <2> DEFINE f == [s \in 1..n |-> Statistics[s].need]
  <2>1. f \in Surjection(1..n, N)
    BY <1>1 DEF Surjection
  <2>2. IsFiniteSet(1..n)
    BY <1>1, FS_Interval
  <2> HIDE DEF f, N
  <2> QED
    BY <2>1, <2>2, FS_Surjection
<1>4. IsFiniteSet(N \union {0}) /\ N \union {0} \in SUBSET Nat
  BY <1>2, <1>3, FS_AddElement
<1>5. Longest \in Nat /\ \A k \in N : k <= Longest
  <2> HIDE DEF N
  <2>1. Longest = Max(N \union {0})
    BY DEF Longest, N
  <2> QED
    BY <1>4, <2>1, Largest
<1>6. \A s \in DOMAIN Statistics : Statistics[s].need <= Longest
  BY <1>5
<1> HIDE DEF N
<1> QED
  BY <1>2, <1>5, <1>6 DEF history_count

(* The places of the prices of the last markets.                           *)
LEMMA WindowIs ==
    ASSUME NEW s \in DOMAIN Statistics, NEW m \in Int, NEW i \in 1..Statistics[s].need
    PROVE  window(s, ((m - 1) % history_count) + 1)[i]
             = ((LastOf(s, m) - Statistics[s].need + i) - 1) % history_count
<1> DEFINE L == history_count
           need == Statistics[s].need
           d == IF Statistics[s].mode = "CURR" THEN 1 ELSE 0
           r == (m - 1) % L
<1>1. L \in Nat \ {0} /\ need \in Nat /\ i \in 1..need /\ d \in 0..1 /\ r \in 0..L - 1
  BY Needs
<1>2. LastOf(s, m) = m - 1 + d
  BY DEF LastOf
<1> DEFINE index == r + 1
           stop == IF Statistics[s].mode = "CURR" THEN index ELSE index - 1
<1>3. stop = r + d
  BY <1>1
<1>4. window(s, index)[i] = (((L + stop - need) % L) + i - 1) % L
  BY DEF window
<1> DEFINE a == L + r + d - need
           j == i - 1
           b == m - 1 + d - need + j
<1>5. a \in Int /\ j \in Int /\ b \in Int /\ L + stop - need = a
  BY <1>1, <1>3
<1>6. (a % L) + i - 1 = (a % L) + j
  <2>1. a % L \in Int
    BY <1>1, <1>5
  <2> HIDE DEF a
  <2> QED
    BY <1>1, <2>1
<1>7. ((a % L) + j) % L = (a + j) % L
  <2> HIDE DEF a, j, L
  <2> QED
    BY <1>1, <1>5, ModAdd
<1>8. (a + j) % L = b % L
  <2> DEFINE e == L + d - need + j
             g == m - 1
  <2>1. e \in Int /\ g \in Int /\ a + j = r + e /\ g + e = b + L
    BY <1>1, <1>5
  <2> HIDE DEF e, g, a, b, L
  <2>2. (r + e) % L = (g + e) % L
    BY <1>1, <2>1, ModAdd DEF g
  <2>3. (b + L) % L = b % L
    BY <1>1, <1>5, ModTurn
  <2> QED
    BY <2>1, <2>2, <2>3
<1>9. (LastOf(s, m) - need + i) - 1 = b
  BY <1>1, <1>2
<1> HIDE DEF a, b, j, stop
<1> QED
  BY <1>4, <1>5, <1>6, <1>7, <1>8, <1>9
-----------------------------------------------------------------------------
(* What was said of the prices before the limit, and the means of them.    *)
PriceIn(ps, k) == IF k >= 1 THEN ps[k] ELSE init_price
MeansIn(ps, m) ==
    [s \in DOMAIN Statistics |->
       Total([i \in 1..Statistics[s].need |-> PriceIn(ps, LastOf(s, m) - Statistics[s].need + i)])]

LEMMA MeansIs ==
    /\ \A m : Means(m) = MeansIn(prices, m)
    /\ \A k : Price(k) = PriceIn(prices, k)
BY DEF Means, MeansIn, Price, PriceIn

LEMMA MeansIsNext ==
    /\ \A m : Means(m)' = MeansIn(prices', m)
    /\ \A k : Price(k)' = PriceIn(prices', k)
BY DEF Means, MeansIn, Price, PriceIn

LEMMA LastIs ==
    ASSUME NEW s \in DOMAIN Statistics, NEW m \in Int, NEW i \in 1..Statistics[s].need
    PROVE  LastOf(s, m) - Statistics[s].need + i \in m + 1 - history_count..m
<1>1. Statistics[s].need \in Nat /\ Statistics[s].need < history_count /\ history_count \in Nat
  BY Needs
<1> QED
  BY <1>1 DEF LastOf

LEMMA MeansAre ==
    ASSUME NEW ring, NEW ps, NEW m \in Int,
           \A k \in m + 1 - history_count..m : ring[(k - 1) % history_count] = PriceIn(ps, k)
    PROVE  update_statistics(ring, ((m - 1) % history_count) + 1) = MeansIn(ps, m)
<1> DEFINE index == ((m - 1) % history_count) + 1
<1>1. ASSUME NEW s \in DOMAIN Statistics, NEW i \in 1..Statistics[s].need
      PROVE  ring[window(s, index)[i]] = PriceIn(ps, LastOf(s, m) - Statistics[s].need + i)
  <2> DEFINE k == LastOf(s, m) - Statistics[s].need + i
  <2>1. k \in m + 1 - history_count..m
    BY LastIs
  <2>2. window(s, index)[i] = (k - 1) % history_count
    BY WindowIs
  <2> HIDE DEF k, index
  <2> QED
    BY <2>1, <2>2 DEF k
<1> HIDE DEF index
<1>2. ASSUME NEW s \in DOMAIN Statistics
      PROVE  [i \in 1..Statistics[s].need |-> ring[window(s, index)[i]]]
               = [i \in 1..Statistics[s].need |-> PriceIn(ps, LastOf(s, m) - Statistics[s].need + i)]
  BY <1>1
<1> QED
  BY <1>2 DEF update_statistics, MeansIn, index

LEMMA MeansKept ==
    ASSUME NEW ps, NEW qs, NEW m \in Int, \A k \in Int : k <= m => PriceIn(ps, k) = PriceIn(qs, k)
    PROVE  MeansIn(ps, m) = MeansIn(qs, m)
<1>1. ASSUME NEW s \in DOMAIN Statistics, NEW i \in 1..Statistics[s].need
      PROVE  PriceIn(ps, LastOf(s, m) - Statistics[s].need + i) = PriceIn(qs, LastOf(s, m) - Statistics[s].need + i)
  <2> DEFINE k == LastOf(s, m) - Statistics[s].need + i
  <2>1. k \in m + 1 - history_count..m
    BY LastIs
  <2> HIDE DEF k
  <2>2. k \in Int /\ k <= m
    BY <2>1, Needs
  <2> QED
    BY <2>2 DEF k
<1>2. ASSUME NEW s \in DOMAIN Statistics
      PROVE  [i \in 1..Statistics[s].need |-> PriceIn(ps, LastOf(s, m) - Statistics[s].need + i)]
               = [i \in 1..Statistics[s].need |-> PriceIn(qs, LastOf(s, m) - Statistics[s].need + i)]
  BY <1>1
<1> QED
  BY <1>2 DEF MeansIn

(* Before the first market all prices are the first one.                   *)
LEMMA MeansFirst ==
    ASSUME NEW ps
    PROVE  /\ MeansIn(ps, 0) = [s \in DOMAIN Statistics |-> Total([i \in 1..Statistics[s].need |-> init_price])]
           /\ \A ring : (\A k \in 0..history_count - 1 : ring[k] = init_price)
                          => update_statistics(ring, 0) = MeansIn(ps, 0)
<1>1. ASSUME NEW s \in DOMAIN Statistics, NEW i \in 1..Statistics[s].need
      PROVE  PriceIn(ps, LastOf(s, 0) - Statistics[s].need + i) = init_price
  <2> DEFINE k == LastOf(s, 0) - Statistics[s].need + i
  <2>1. k \in 0 + 1 - history_count..0
    <3> DEFINE m == 0
    <3>1. m \in Int
      OBVIOUS
    <3>2. LastOf(s, m) - Statistics[s].need + i \in m + 1 - history_count..m
      <4> HIDE DEF m
      <4> QED
        BY <3>1, LastIs
    <3> QED
      BY <3>2
  <2> HIDE DEF k
  <2>2. ~(k >= 1)
    BY <2>1, Needs
  <2> QED
    BY <2>2 DEF PriceIn, k
<1>2. ASSUME NEW s \in DOMAIN Statistics
      PROVE  [i \in 1..Statistics[s].need |-> PriceIn(ps, LastOf(s, 0) - Statistics[s].need + i)]
               = [i \in 1..Statistics[s].need |-> init_price]
  BY <1>1
<1>3. MeansIn(ps, 0) = [s \in DOMAIN Statistics |-> Total([i \in 1..Statistics[s].need |-> init_price])]
  BY <1>2 DEF MeansIn
<1>4. ASSUME NEW ring, \A k \in 0..history_count - 1 : ring[k] = init_price
      PROVE  update_statistics(ring, 0) = [s \in DOMAIN Statistics |-> Total([i \in 1..Statistics[s].need |-> init_price])]
  <2>1. ASSUME NEW s \in DOMAIN Statistics, NEW i \in 1..Statistics[s].need
        PROVE  window(s, 0)[i] \in 0..history_count - 1
    <3> DEFINE stop == IF Statistics[s].mode = "CURR" THEN 0 ELSE 0 - 1
               start == (history_count + stop - Statistics[s].need) % history_count
               x == start + i - 1
    <3>1. history_count \in Nat \ {0} /\ Statistics[s].need \in Nat /\ stop \in Int
      BY Needs
    <3>2. start \in Int
      BY <3>1
    <3>3. x \in Int
      <4> HIDE DEF start
      <4> QED
        BY <3>1, <3>2
    <3>4. window(s, 0)[i] = x % history_count
      BY DEF window
    <3> HIDE DEF x
    <3> QED
      BY <3>1, <3>3, <3>4
  <2>2. ASSUME NEW s \in DOMAIN Statistics
        PROVE  [i \in 1..Statistics[s].need |-> ring[window(s, 0)[i]]] = [i \in 1..Statistics[s].need |-> init_price]
    BY <1>4, <2>1
  <2> QED
    BY <2>2 DEF update_statistics
<1> QED
  BY <1>3, <1>4

LEMMA AppendIs ==
    ASSUME NEW n \in Nat, NEW s, s = [m \in 1..n |-> s[m]], NEW x
    PROVE  /\ Append(s, x) = [m \in 1..n + 1 |-> Append(s, x)[m]]
           /\ \A m \in 1..n : Append(s, x)[m] = s[m]
           /\ Append(s, x)[n + 1] = x
<1> DEFINE S == {s[m] : m \in 1..n} \union {x}
<1>1. s \in [1..n -> S]
  BY Zenon
<1>2. s \in Seq(S) /\ x \in S /\ Len(s) = n
  <2> HIDE DEF S
  <2>1. s \in Seq(S)
    BY <1>1, SeqDef
  <2>2. Len(s) = n
    <3>1. DOMAIN s = 1..Len(s) /\ Len(s) \in Nat
      BY <2>1, LenProperties
    <3>2. DOMAIN s = 1..n
      BY <1>1
    <3> QED
      BY <3>1, <3>2
  <2> QED
    BY <2>1, <2>2 DEF S
<1> HIDE DEF S
<1> DEFINE t == Append(s, x)
<1>3. t \in Seq(S) /\ Len(t) = n + 1 /\ (\A i \in 1..n : t[i] = s[i]) /\ t[n + 1] = x
  BY <1>2, AppendProperties
<1>4. t \in [1..n + 1 -> S]
  BY <1>3, LenProperties
<1> HIDE DEF t
<1>5. t = [m \in 1..n + 1 |-> t[m]]
  BY <1>4
<1> QED
  BY <1>3, <1>5 DEF t
-----------------------------------------------------------------------------
(* The invariant of the statistics.                                        *)
LEMMA ExactIs ==
    /\ StatisticsExact <=> published = MeansIn(prices, IF latency = 0 THEN current_frame.market_id ELSE next_frame.market_id)
    /\ StatisticsExact' <=>
         published' = MeansIn(prices', IF latency' = 0 THEN current_frame'.market_id ELSE next_frame'.market_id)
BY DEF StatisticsExact, Means, MeansIn, Price, PriceIn

LEMMA FiledIs ==
    /\ FiledStatistics <=>
         (latency > 0 => \A j \in 0..Waiting - 1 : framedata[Place(j)].stats = MeansIn(prices, current_frame.market_id + 1 + j))
    /\ FiledStatistics' <=>
         (latency' > 0 => \A j \in 0..Waiting' - 1 :
                            framedata'[Place(j)'].stats = MeansIn(prices', current_frame'.market_id + 1 + j))
BY DEF FiledStatistics, Means, MeansIn, Price, PriceIn

LEMMA PricesIs ==
    /\ Prices => \A m \in market_id - history_count..market_id - 1 : new_prices[(m - 1) % history_count] = PriceIn(prices, m)
    /\ (\A m \in market_id' - history_count..market_id' - 1 : new_prices'[(m - 1) % history_count] = PriceIn(prices', m))
         => \A m \in (market_id - history_count..market_id - 1)' : (new_prices[(m - 1) % history_count] = Price(m))'
BY DEF Prices, Price, PriceIn

(* The place a price is stored in, and the price that is stored.           *)
LEMMA Stored ==
    ASSUME SInv, NEW p, new_prices' = [new_prices EXCEPT ![slot] = p], prices' = Append(prices, p),
           price_index' = slot + 1, market_id' = market_id + 1
    PROVE  /\ Prices'
           /\ price_index' = ((market_id - 1) % history_count) + 1
           /\ \A k \in market_id + 1 - history_count..market_id : new_prices'[(k - 1) % history_count] = PriceIn(prices', k)
           /\ \A m \in Int : m < market_id => MeansIn(prices, m) = MeansIn(prices', m)
<1> DEFINE L == history_count
           at == (market_id - 1) % L
<1>1. L \in Nat \ {0} /\ market_id \in Nat \ {0} /\ at \in 0..L - 1
  BY Needs DEF SInv, FInv, Types
<1>2. slot = at
  <2>1. CASE market_id = 1
    <3>1. at = 0
      <4>1. market_id - 1 = 0 /\ 0 % L = 0
        BY <1>1, <2>1
      <4> QED
        BY <4>1
    <3> QED
      BY <1>1, <2>1, <3>1 DEF slot, SInv, Prices
  <2>2. CASE market_id # 1
    <3> DEFINE i == market_id - 2
    <3>1. i \in Int /\ market_id - 1 = i + 1
      BY <1>1
    <3>2. price_index = (i % L) + 1
      BY <2>2 DEF SInv, Prices
    <3>3. (i + 1) % L = IF (i % L) + 1 = L THEN 0 ELSE (i % L) + 1
      <4> HIDE DEF i, L
      <4> QED
        BY <1>1, <3>1, ModNext
    <3> QED
      BY <3>1, <3>2, <3>3 DEF slot
  <2> QED
    BY <2>1, <2>2
<1> DEFINE n == market_id - 1
<1>3. n \in Nat /\ n + 1 = market_id /\ prices = [m \in 1..n |-> prices[m]]
  BY <1>1 DEF SInv, Prices
<1>4. /\ prices' = [m \in 1..market_id |-> prices'[m]]
      /\ \A m \in 1..market_id - 1 : prices'[m] = prices[m]
      /\ prices'[market_id] = p
  <2> HIDE DEF n
  <2>1. /\ Append(prices, p) = [m \in 1..n + 1 |-> Append(prices, p)[m]]
        /\ \A m \in 1..n : Append(prices, p)[m] = prices[m]
        /\ Append(prices, p)[n + 1] = p
    BY <1>3, AppendIs
  <2> QED
    BY <1>3, <2>1 DEF n
<1>5. (\A k \in Int : k < market_id => PriceIn(prices', k) = PriceIn(prices, k)) /\ PriceIn(prices', market_id) = p
  BY <1>1, <1>4 DEF PriceIn
<1>6. ASSUME NEW k \in market_id + 1 - L..market_id
      PROVE  new_prices'[(k - 1) % L] = PriceIn(prices', k)
  <2> DEFINE i == k - 1
  <2>1. k \in Int /\ i \in Int /\ i % L \in 0..L - 1
    BY <1>1
  <2>2. CASE k = market_id
    BY <1>1, <1>2, <1>5, <2>2 DEF SInv, Prices
  <2>3. CASE k # market_id
    <3>1. i < n /\ n < i + L
      BY <1>1, <2>1, <2>3
    <3>2. i % L # at
      <4> HIDE DEF i, n, L
      <4>1. i % L # n % L
        BY <1>1, <1>3, <2>1, <3>1, ModApart
      <4> QED
        BY <4>1 DEF n
    <3>3. new_prices'[i % L] = new_prices[i % L]
      BY <1>2, <2>1, <3>2 DEF SInv, Prices
    <3>4. k \in market_id - L..market_id - 1 /\ k < market_id
      BY <1>1, <2>1, <2>3
    <3>5. new_prices[(k - 1) % L] = PriceIn(prices, k)
      BY <3>4, PricesIs DEF SInv
    <3> QED
      BY <1>5, <2>1, <3>3, <3>4, <3>5
  <2> QED
    BY <2>2, <2>3
<1>7. ASSUME NEW m \in Int, m < market_id PROVE MeansIn(prices, m) = MeansIn(prices', m)
  <2>1. \A k \in Int : k <= m => PriceIn(prices, k) = PriceIn(prices', k)
    BY <1>1, <1>5, <1>7
  <2> QED
    BY <2>1, MeansKept
<1>8. Prices'
  <2>1. market_id' - 1 = market_id /\ market_id' - 2 = market_id - 1 /\ market_id' # 1
        /\ market_id' - L = market_id + 1 - L
    BY <1>1
  <2>2. \A m \in (market_id - L..market_id - 1)' : (new_prices[(m - 1) % L] = Price(m))'
    BY <1>6, <2>1, PricesIs
  <2>3. new_prices' = [k \in 0..L - 1 |-> new_prices'[k]]
    BY DEF SInv, Prices
  <2> QED
    BY <1>2, <1>4, <2>1, <2>2, <2>3 DEF Prices
<1> QED
  BY <1>2, <1>6, <1>7, <1>8

LEMMA ClearStatistics ==
    ASSUME SInv, Clear
    PROVE  Prices' /\ FiledStatistics' /\ StatisticsExact'
<1> DEFINE c == current_frame.market_id
<1>1. /\ clearat # 0 /\ clock = clearat /\ clearat' = clearat + period
      /\ market_id' = market_id + 1 /\ latency' = latency /\ clock' = clock /\ pass' = "sync"
      /\ Filed(cleared_frame', market_id)
      /\ IF latency > 0 THEN FileLater(cleared_frame') ELSE FileNow(cleared_frame')
  BY ClearIs DEF SInv
<1>2. PICK r, demand, supply :
        /\ new_prices' = [new_prices EXCEPT ![slot] = r.price] /\ price_index' = slot + 1
        /\ cleared_frame' = FrameOf(r, demand, supply, update_statistics(new_prices', slot + 1))
        /\ prices' = Append(prices, r.price)
  BY DEF Clear, clear_market
<1>3. /\ Prices'
      /\ price_index' = ((market_id - 1) % history_count) + 1
      /\ \A k \in market_id + 1 - history_count..market_id : new_prices'[(k - 1) % history_count] = PriceIn(prices', k)
      /\ \A m \in Int : m < market_id => MeansIn(prices, m) = MeansIn(prices', m)
  <2> DEFINE p == r.price
  <2> HIDE DEF p
  <2>1. new_prices' = [new_prices EXCEPT ![slot] = p] /\ prices' = Append(prices, p)
    BY <1>2 DEF p
  <2> QED
    BY <1>1, <1>2, <2>1, Stored
<1>4. market_id \in Nat \ {0} /\ c \in Nat /\ c < market_id /\ latency \in Nat
  BY Constants DEF SInv, FInv, Types, InForce
<1>5. cleared_frame'.stats = MeansIn(prices', market_id)
  <2>1. cleared_frame'.stats = update_statistics(new_prices', price_index')
    BY <1>2 DEF FrameOf
  <2>2. update_statistics(new_prices', ((market_id - 1) % history_count) + 1) = MeansIn(prices', market_id)
    BY <1>3, <1>4, MeansAre
  <2> QED
    BY <1>3, <2>1, <2>2
<1>6. CASE latency = 0
  <2>1. published' = cleared_frame'.stats /\ current_frame' = cleared_frame' /\ cleared_frame'.market_id = market_id
    BY <1>1, <1>6 DEF FileNow, Filed
  <2> QED
    BY <1>1, <1>3, <1>5, <1>6, <2>1, ExactIs, FiledIs
<1>7. CASE latency > 0
  <2>1. /\ Ahead(framedata'[front]) <=> next_frame'.market_id # 0
        /\ Due => Ahead(framedata'[front])
        /\ Waiting' \in Nat \ {0} /\ Place(0)' = front
        /\ \A j \in 0..Waiting' - 1 :
             \/ j = Waiting' - 1 /\ framedata'[Place(j)'] = cleared_frame'
             \/ \E k \in 0..Waiting - 1 : /\ framedata'[Place(j)'] = framedata[Place(k)]
                                          /\ current_frame'.market_id + 1 + j = c + 1 + k
    <3> DEFINE frame == cleared_frame'
    <3>1. FileLater(frame) /\ Filed(frame, market_id) /\ cleared_frame' = frame
      BY <1>1, <1>7
    <3> HIDE DEF frame
    <3> QED
      BY <1>1, <1>7, <3>1, FileLaterKeeps DEF SInv
  <2>2. FInv'
    BY FClear DEF SInv
  <2>3. Waiting' = market_id - current_frame'.market_id /\ current_frame'.market_id \in Nat
    BY <1>1, <1>4, <2>2 DEF FInv, Types, InForce, Waiting
  <2>4. ASSUME NEW j \in 0..Waiting' - 1
        PROVE  framedata'[Place(j)'].stats = MeansIn(prices', current_frame'.market_id + 1 + j)
    <3>1. CASE j = Waiting' - 1 /\ framedata'[Place(j)'] = cleared_frame'
      <4>1. current_frame'.market_id + 1 + j = market_id
        BY <1>4, <2>3, <3>1
      <4> QED
        BY <1>5, <3>1, <4>1
    <3>2. ASSUME NEW k \in 0..Waiting - 1, framedata'[Place(j)'] = framedata[Place(k)],
                 current_frame'.market_id + 1 + j = c + 1 + k
          PROVE  framedata'[Place(j)'].stats = MeansIn(prices', current_frame'.market_id + 1 + j)
      <4> DEFINE m == c + 1 + k
      <4>1. framedata[Place(k)].stats = MeansIn(prices, m)
        BY <1>7, FiledIs DEF SInv
      <4>2. m \in Int /\ m < market_id
        BY <1>4 DEF Waiting
      <4> HIDE DEF m
      <4> QED
        BY <1>3, <3>2, <4>1, <4>2 DEF m
    <3> QED
      BY <2>1, <3>1, <3>2
  <2>5. FiledStatistics'
    BY <2>4, FiledIs
  <2>6. StatisticsExact'
    <3>1. CASE Ahead(framedata'[front])
      <4>1. next_frame' = framedata'[front] /\ published' = next_frame'.stats
        <5>1. FileLater(cleared_frame')
          BY <1>1, <1>7
        <5> QED
          BY <3>1, <5>1 DEF FileLater
      <4>2. 0 \in 0..Waiting' - 1
        <5>1. PICK w \in Nat \ {0} : w = Waiting'
          BY <2>1
        <5>2. 0 \in 0..w - 1
          OBVIOUS
        <5> QED
          BY <5>1, <5>2
      <4>3. next_frame'.stats = MeansIn(prices', current_frame'.market_id + 1 + 0)
        BY <2>1, <2>4, <4>1, <4>2
      <4>4. next_frame'.market_id = current_frame'.market_id + 1 + 0
        BY <1>1, <1>7, <2>1, <2>2, <4>1, <4>2 DEF FInv, InRing, Filed
      <4> QED
        BY <1>1, <1>7, <4>1, <4>3, <4>4, ExactIs
    <3>2. CASE ~Ahead(framedata'[front])
      <4>1. next_frame' = next_frame /\ next_frame'.market_id = 0 /\ published' = published
        BY <1>1, <1>7, <2>1, <3>2 DEF FileLater
      <4>2. published = MeansIn(prices, 0)
        BY <1>7, <4>1, ExactIs DEF SInv
      <4>3. MeansIn(prices, 0) = MeansIn(prices', 0)
        BY MeansFirst
      <4> QED
        BY <1>1, <1>7, <4>1, <4>2, <4>3, ExactIs
    <3> QED
      BY <3>1, <3>2
  <2> QED
    BY <1>3, <2>5, <2>6
<1> QED
  BY <1>4, <1>6, <1>7

LEMMA SInit == Init => SInv
<1> SUFFICES ASSUME Init PROVE SInv
  OBVIOUS
<1>1. /\ market_id = 1 /\ price_index = 0 /\ prices = <<>> /\ current_frame.market_id = 0 /\ next_frame.market_id = 0
      /\ new_prices = [k \in 0..history_count - 1 |-> init_price] /\ Waiting = 0
      /\ published = [s \in DOMAIN Statistics |-> Total([i \in 1..Statistics[s].need |-> init_price])]
  BY DEF Init, NoFrame, Waiting
<1>2. history_count \in Nat \ {0}
  BY Needs
<1>3. Prices
  <2>1. ASSUME NEW m \in market_id - history_count..market_id - 1
        PROVE  new_prices[(m - 1) % history_count] = Price(m)
    <3> DEFINE i == m - 1
    <3>1. i \in Int /\ ~(m >= 1)
      BY <1>1, <1>2
    <3>2. i % history_count \in 0..history_count - 1
      <4> HIDE DEF i
      <4> QED
        BY <1>2, <3>1
    <3> QED
      BY <1>1, <3>1, <3>2 DEF Price
  <2>2. 1..market_id - 1 = {}
    BY <1>1
  <2>3. prices = [m \in 1..market_id - 1 |-> prices[m]]
    BY <1>1, <2>2
  <2> QED
    BY <1>1, <2>1, <2>3 DEF Prices
<1>4. FiledStatistics
  <2>1. 0..Waiting - 1 = {}
    BY <1>1
  <2> QED
    BY <2>1 DEF FiledStatistics
<1>5. StatisticsExact
  BY <1>1, ExactIs, MeansFirst
<1> QED
  BY <1>3, <1>4, <1>5, FInit DEF SInv

LEMMA OtherStatistics ==
    SInv /\ (Open \/ Wait \/ Advance \/ (\E b \in Bidders : Submit(b)) \/ UNCHANGED vars)
      => Prices' /\ FiledStatistics' /\ StatisticsExact'
<1> SUFFICES ASSUME SInv, Open \/ Wait \/ Advance \/ (\E b \in Bidders : Submit(b)) \/ UNCHANGED vars
             PROVE  Prices' /\ FiledStatistics' /\ StatisticsExact'
  OBVIOUS
<1>1. UNCHANGED <<latency, market_id, frames, new_prices, price_index, prices>>
  BY DEF Open, Wait, Advance, Submit, vars, settings, stats
<1>2. UNCHANGED <<latency, market_id, current_frame, next_frame, framedata, latency_front, new_prices, price_index, prices>>
  BY <1>1 DEF frames
<1>3. Prices'
  BY <1>2 DEF SInv, Prices, Price
<1>4. FiledStatistics'
  <2>1. \A j : Place(j)' = Place(j)
    BY <1>2 DEF Place, latency_count
  <2>2. Waiting' = Waiting
    BY <1>2 DEF Waiting
  <2> QED
    BY <1>2, <2>1, <2>2, FiledIs DEF SInv
<1>5. CASE UNCHANGED published
  BY <1>2, <1>3, <1>4, <1>5, ExactIs DEF SInv
<1>6. CASE Open /\ latency = 0
  <2>1. published' = update_statistics(new_prices, price_index)
    BY <1>6 DEF Open
  <2>2. market_id = 1
    BY <1>6 DEF Open, SInv, FInv, Clockwork
  <2>3. price_index = 0 /\ current_frame.market_id = 0 /\ \A k \in 0..history_count - 1 : new_prices[k] = init_price
    BY <2>2 DEF SInv, FInv, InForce, Prices
  <2>4. published' = MeansIn(prices', 0)
    BY <2>1, <2>3, MeansFirst
  <2> QED
    BY <1>2, <1>3, <1>4, <1>6, <2>3, <2>4, ExactIs
<1>7. UNCHANGED published \/ (Open /\ latency = 0)
  BY DEF Open, Wait, Advance, Submit, vars, stats
<1> QED
  BY <1>3, <1>4, <1>5, <1>6, <1>7

THEOREM SInductive == Spec => []SInv
<1>1. SInv /\ [Next]_vars => SInv'
  <2>1. SInv => FInv
    BY DEF SInv
  <2>2. SInv /\ [Next]_vars => Prices' /\ FiledStatistics' /\ StatisticsExact'
    BY ClearStatistics, OtherStatistics DEF Next
  <2>3. FInv /\ [Next]_vars => FInv'
    BY FOthers, FClear DEF Next
  <2> QED
    BY <2>1, <2>2, <2>3 DEF SInv
<1> QED
  BY <1>1, SInit, PTL DEF Spec

(* StatisticsExact: the statistics the auction shows are over exactly the  *)
(* markets they are about, through every turn of the ring of prices and of *)
(* that of the frames (update_statistics, clear_market).                   *)
THEOREM StatisticsAreExact == Spec => []StatisticsExact
<1>1. SInv => StatisticsExact
  BY DEF SInv
<1> QED
  BY <1>1, SInductive, PTL
-----------------------------------------------------------------------------
(* The keys of bids.                                                       *)

LEMMA KeyIs ==
    ASSUME NEW m \in Nat, NEW n \in 0..KeyBids - 1, NEW buys \in BOOLEAN
    PROVE  translate_bid(write_bid(m, n, buys)) = [market |-> m, buys |-> buys, bid |-> n]
<1> DEFINE K == KeyBids
           B == 2 * K
           u == IF buys THEN 1 ELSE 0
           r == u * K + n
           h == 2 * m + u
           key == write_bid(m, n, buys)
<1>1. K \in Nat \ {0} /\ B \in Nat \ {0} /\ u \in 0..1 /\ h \in Int
  BY KeysAssumption
<1>2. u * K = IF buys THEN K ELSE 0
  BY <1>1
<1>3. r \in 0..B - 1
  BY <1>1, <1>2
<1>4. key = m * B + r /\ key \in Int
  <2>1. m * B \in Int
    BY <1>1
  <2>2. key = m * B + (IF buys THEN K ELSE 0) + n
    BY DEF write_bid
  <2> QED
    BY <1>1, <1>2, <2>1, <2>2
<1>5. key = h * K + n
  <2>1. h * K = m * B + u * K
    BY <1>1
  <2>2. m * B \in Int /\ u * K \in Int
    BY <1>1
  <2> HIDE DEF key, h
  <2> QED
    BY <1>1, <1>4, <2>1, <2>2
<1>6. key \div B = m
  <2> HIDE DEF key, r, B
  <2>1. m \in Int /\ r \in 0..B - 1 /\ key \in Int /\ key = m * B + r
    BY <1>3, <1>4
  <2> QED
    BY <1>1, <2>1, Remainder
<1>7. key \div K = h /\ key % K = n
  <2> HIDE DEF key, h, K
  <2>1. h \in Int /\ n \in 0..K - 1 /\ key \in Int /\ key = h * K + n
    BY <1>1, <1>4, <1>5 DEF K
  <2> QED
    BY <1>1, <2>1, Remainder
<1>8. h % 2 = u
  <2>1. h = m * 2 + u
    BY <1>1
  <2> DEFINE two == 2
  <2>2. two \in Nat \ {0} /\ u \in 0..two - 1 /\ h = m * two + u
    BY <1>1, <2>1
  <2> HIDE DEF two, h, u
  <2>3. h % two = u
    BY <1>1, <2>2, Remainder
  <2> QED
    BY <2>3 DEF two
<1>9. translate_bid(key) = [market |-> key \div B, buys |-> (key \div K) % 2 = 1, bid |-> key % K]
  BY DEF translate_bid
<1>10. (u = 1) <=> buys
  OBVIOUS
<1> HIDE DEF h, u, key
<1> QED
  BY <1>6, <1>7, <1>8, <1>9, <1>10 DEF key

LEMMA KeyIsSome ==
    ASSUME NEW m \in Nat \ {0}, NEW n \in Nat, NEW buys \in BOOLEAN
    PROVE  write_bid(m, n, buys) \in Int /\ write_bid(m, n, buys) > 0
<1>1. KeyBids \in Nat \ {0}
  BY KeysAssumption
<1>2. m * (2 * KeyBids) \in Nat \ {0}
  BY <1>1
<1> QED
  BY <1>1, <1>2 DEF write_bid

(* One bid of each bidder: there are no more bids than keys can number.    *)
LEMMA Numbered ==
    ASSUME NEW buys \in BOOLEAN, NEW curve \in Seq(Entries(buys)), Single(curve)
    PROVE  Len(curve) \in Nat /\ Len(curve) <= KeyBids
<1> DEFINE T == Side(buys)
           n == Len(curve)
           f == [i \in 1..n |-> curve[i].from]
<1>1. n \in Nat /\ DOMAIN curve = 1..n /\ \A i \in 1..n : curve[i] \in Entries(buys)
  <2>1. n \in Nat /\ curve \in [1..n -> Entries(buys)]
    BY LenProperties
  <2> QED
    BY <2>1
<1>2. f \in Injection(1..n, T)
  <2>1. f \in [1..n -> T]
    BY <1>1 DEF Entries
  <2>2. \A i, j \in 1..n : f[i] = f[j] => i = j
    BY <1>1 DEF Single
  <2> QED
    BY <2>1, <2>2 DEF Injection, IsInjective
<1>3. IsFiniteSet(T) /\ Cardinality(T) <= KeyBids /\ Cardinality(T) \in Nat
  BY KeysAssumption, FS_CardinalityType DEF Side
<1>4. Cardinality(1..n) <= Cardinality(T) /\ Cardinality(1..n) = n
  <2> HIDE DEF T, f, n
  <2>1. Cardinality(1..n) <= Cardinality(T)
    BY <1>2, <1>3, FS_Injection
  <2>2. Cardinality(1..n) = n
    <3> DEFINE a == 1
    <3>1. a \in Int /\ n \in Int /\ ~(a > n) => Cardinality(a..n) = n - a + 1
      <4> HIDE DEF a
      <4> QED
        BY FS_Interval
    <3>2. n = 0 => 1..n = {}
      OBVIOUS
    <3> QED
      BY <1>1, <3>1, <3>2, FS_EmptySet
  <2> QED
    BY <2>1, <2>2
<1> QED
  BY <1>1, <1>3, <1>4, KeysAssumption

-----------------------------------------------------------------------------
(* What a submission does to a curve.                                      *)

(* The prices of bids are cut at the cap.                                  *)
LEMMA CutIsPosted == ASSUME NEW p \in Int PROVE Min({p, pricecap}) \in Posted
<1>1. pricecap \in Int
  BY PriceAssumption
<1>2. Min({p, pricecap}) = IF p <= pricecap THEN p ELSE pricecap
  BY <1>1, MinTwo
<1> QED
  BY <1>1, <1>2 DEF Posted

LEMMA BidsAreBids == \A b \in Bidders : BidsOf[b] \subseteq Bid
BY BiddersAssumption DEF Bid

LEMMA EntryIs ==
    ASSUME NEW buys \in BOOLEAN, NEW b \in Side(buys), NEW bid \in Bid
    PROVE  Entry(b, bid) \in Entries(buys) /\ Entry(b, bid).from = b
BY CutIsPosted DEF Entry, Entries, Bid

LEMMA Appended ==
    ASSUME NEW buys \in BOOLEAN, NEW curve \in Seq(Entries(buys)), Single(curve),
           NEW b \in Side(buys), NEW bid \in Bid, \A i \in DOMAIN curve : curve[i].from # b,
           NEW m \in Nat \ {0}
    PROVE  LET new == Append(curve, Entry(b, bid))
           IN  /\ new \in Seq(Entries(buys)) /\ Single(new)
               /\ Standing(b, buys, new, write_bid(m, Len(curve), buys), bid, m)
               /\ \A e, key, old : e # b /\ Standing(e, buys, curve, key, old, m) => Standing(e, buys, new, key, old, m)
<1> DEFINE x == Entry(b, bid)
           new == Append(curve, x)
           n == Len(curve)
<1>1. x \in Entries(buys) /\ x.from = b
  BY EntryIs
<1>2. /\ n \in Nat /\ DOMAIN curve = 1..n
      /\ new \in Seq(Entries(buys)) /\ DOMAIN new = 1..n + 1
      /\ \A i \in 1..n : new[i] = curve[i]
      /\ new[n + 1] = x
  <2> HIDE DEF x
  <2>1. new \in Seq(Entries(buys)) /\ Len(new) = n + 1 /\ (\A i \in 1..n : new[i] = curve[i]) /\ new[n + 1] = x
    BY <1>1, AppendProperties
  <2> HIDE DEF new
  <2>2. n \in Nat /\ DOMAIN curve = 1..n
    BY LenProperties
  <2>3. DOMAIN new = 1..n + 1
    BY <2>1, LenProperties
  <2> QED
    BY <2>1, <2>2, <2>3
<1> HIDE DEF new, n, x
<1>3. \A i \in 1..n + 1 : i \in 1..n \/ i = n + 1
  BY <1>2
<1>4. Single(new)
  BY <1>1, <1>2, <1>3 DEF Single
<1>5. write_bid(m, n, buys) > 0 /\ n + 1 \in 1..n + 1 /\ (n + 1) - 1 = n
  BY <1>2, KeyIsSome
<1>6. Standing(b, buys, new, write_bid(m, n, buys), bid, m)
  <2>1. write_bid(m, n, buys) # None
    BY <1>5, KeyIsSome, <1>2 DEF None
  <2> QED
    BY <1>2, <1>5, <2>1 DEF Standing, x
<1>7. ASSUME NEW e, NEW key, NEW old, e # b, Standing(e, buys, curve, key, old, m)
      PROVE  Standing(e, buys, new, key, old, m)
  <2>1. CASE key = None
    BY <1>1, <1>2, <1>3, <1>7, <2>1 DEF Standing
  <2>2. CASE key # None
    <3>1. PICK i \in 1..n : key = write_bid(m, i - 1, buys) /\ curve[i] = Entry(e, old) /\ old \in Bid
      BY <1>2, <1>7, <2>2 DEF Standing
    <3>2. i \in 1..n + 1 /\ new[i] = Entry(e, old)
      BY <1>2, <3>1
    <3> QED
      BY <1>2, <2>2, <3>1, <3>2 DEF Standing
  <2> QED
    BY <2>1, <2>2
<1> QED
  BY <1>2, <1>4, <1>6, <1>7 DEF new, n, x

LEMMA Replaced ==
    ASSUME NEW buys \in BOOLEAN, NEW curve \in Seq(Entries(buys)), Single(curve),
           NEW b \in Side(buys), NEW bid \in Bid, NEW at \in DOMAIN curve, curve[at].from = b,
           NEW m \in Nat \ {0}
    PROVE  LET new == [curve EXCEPT ![at] = Entry(b, bid)]
           IN  /\ new \in Seq(Entries(buys)) /\ Single(new)
               /\ Standing(b, buys, new, write_bid(m, at - 1, buys), bid, m)
               /\ \A e, key, old : e # b /\ Standing(e, buys, curve, key, old, m) => Standing(e, buys, new, key, old, m)
<1> DEFINE x == Entry(b, bid)
           new == [curve EXCEPT ![at] = x]
           n == Len(curve)
<1>1. x \in Entries(buys) /\ x.from = b
  BY EntryIs
<1>2. n \in Nat /\ DOMAIN curve = 1..n /\ curve \in [1..n -> Entries(buys)]
  BY LenProperties
<1> HIDE DEF x
<1>3. /\ new \in Seq(Entries(buys)) /\ DOMAIN new = 1..n /\ new[at] = x
      /\ \A i \in 1..n : i # at => new[i] = curve[i]
  <2>1. new \in [1..n -> Entries(buys)]
    BY <1>1, <1>2
  <2>2. new \in Seq(Entries(buys))
    BY <1>2, <2>1, SeqDef
  <2> QED
    BY <1>2, <2>1, <2>2
<1> HIDE DEF new, n
<1>4. \A i \in 1..n : new[i].from = curve[i].from
  BY <1>1, <1>3
<1>5. Single(new)
  BY <1>2, <1>3, <1>4 DEF Single
<1>6. Standing(b, buys, new, write_bid(m, at - 1, buys), bid, m)
  <2>1. at - 1 \in Nat
    BY <1>2
  <2>2. write_bid(m, at - 1, buys) # None
    <3> DEFINE k == at - 1
    <3> HIDE DEF k
    <3>1. write_bid(m, k, buys) > 0 /\ write_bid(m, k, buys) \in Int
      BY <2>1, KeyIsSome DEF k
    <3> QED
      BY <3>1 DEF None, k
  <2> QED
    BY <1>2, <1>3, <2>2 DEF Standing, x
<1>7. ASSUME NEW e, NEW key, NEW old, e # b, Standing(e, buys, curve, key, old, m)
      PROVE  Standing(e, buys, new, key, old, m)
  <2>1. CASE key = None
    BY <1>2, <1>3, <1>4, <1>7, <2>1 DEF Standing
  <2>2. CASE key # None
    <3>1. PICK i \in 1..n : key = write_bid(m, i - 1, buys) /\ curve[i] = Entry(e, old) /\ old \in Bid
      BY <1>2, <1>7, <2>2 DEF Standing
    <3>2. i # at
      BY <1>7, <3>1 DEF Entry
    <3> QED
      BY <1>2, <1>3, <2>2, <3>1, <3>2 DEF Standing
  <2> QED
    BY <2>1, <2>2
<1> QED
  BY <1>3, <1>5, <1>6, <1>7 DEF new, x
(* A submission, whatever it comes to: refused, new, changed or of nothing. *)
LEMMA Submitted ==
    ASSUME BInv, NEW b \in Bidders, NEW bid \in BidsOf[b]
    PROVE  LET buys == b \in Buyers
               key  == submit(b, buys, bid, held(b))
               new  == curve_submit(b, buys, bid, held(b))
           IN  /\ new \in Seq(Entries(buys)) /\ Single(new) /\ key \in Int
               /\ Standing(b, buys, new, key, IF key = None THEN NoBid ELSE bid, market_id)
               /\ \A e, k, old : e # b /\ Standing(e, buys, Curve(buys), k, old, market_id)
                                   => Standing(e, buys, new, k, old, market_id)
               /\ warmup /\ total_samples < WarmupSamples /\ buys => key = None
<1> DEFINE buys == b \in Buyers
           h    == held(b)
           key  == submit(b, buys, bid, h)
           new  == curve_submit(b, buys, bid, h)
           C    == Curve(buys)
<1>1. buys \in BOOLEAN /\ b \in Side(buys) /\ bid \in Bid /\ market_id \in Nat \ {0}
  BY BidsAreBids DEF BInv, Bidders, Side
<1>2. C \in Seq(Entries(buys)) /\ Single(C) /\ Standing(b, buys, C, h, wanted[b], market_id)
  BY <1>1 DEF BInv, CurvesHold, KeysHold
<1>3. Len(C) \in Nat /\ DOMAIN C = 1..Len(C) /\ Len(C) <= KeyBids /\ KeyBids \in Nat
  BY <1>1, <1>2, Numbered, LenProperties, KeysAssumption
<1>4. bid.quantity \in Nat
  BY <1>1 DEF Bid
<1>5. Refused(buys, bid.quantity) => h = None
  BY DEF Refused, BInv, Warm, h
<1>6. CASE Refused(buys, bid.quantity) \/ (h = None /\ bid.quantity = 0)
  <2>1. h = None /\ key = None /\ new = C
    BY <1>5, <1>6 DEF submit, curve_submit
  <2>2. Standing(b, buys, C, None, NoBid, market_id)
    BY <1>2, <2>1 DEF Standing
  <2>3. None \in Int
    BY DEF None
  <2> HIDE DEF key, new, C, h, buys
  <2> QED
    BY <1>2, <2>1, <2>2, <2>3 DEF key, new, C, h, buys
<1>7. CASE ~Refused(buys, bid.quantity) /\ h = None /\ bid.quantity # 0
  <2> DEFINE n == Len(C)
  <2>1. key = write_bid(market_id, n, buys)
    BY <1>7 DEF submit
  <2>2. key \in Int /\ key > 0
    <3> HIDE DEF key, n, buys
    <3> QED
      BY <1>1, <1>3, <2>1, KeyIsSome DEF n
  <2>3. key # None /\ key # 0
    BY <2>2 DEF None
  <2>4. new = Append(C, Entry(b, bid))
    BY <1>7, <2>3 DEF curve_submit
  <2>5. \A i \in DOMAIN C : C[i].from # b
    BY <1>2, <1>7 DEF Standing
  <2>6. /\ new \in Seq(Entries(buys)) /\ Single(new)
        /\ Standing(b, buys, new, key, bid, market_id)
        /\ \A e, k, old : e # b /\ Standing(e, buys, C, k, old, market_id) => Standing(e, buys, new, k, old, market_id)
    <3> HIDE DEF key, new, C, buys
    <3> QED
      BY <1>1, <1>2, <2>1, <2>4, <2>5, Appended
  <2>7. ~(warmup /\ total_samples < WarmupSamples /\ buys)
    BY <1>4, <1>7 DEF Refused
  <2> HIDE DEF key, new, C, buys
  <2> QED
    BY <2>2, <2>3, <2>6, <2>7 DEF key, new, C, buys
<1>8. CASE ~Refused(buys, bid.quantity) /\ h # None
  <2>1. PICK at \in DOMAIN C : h = write_bid(market_id, at - 1, buys) /\ C[at] = Entry(b, wanted[b])
    BY <1>2, <1>8 DEF Standing
  <2> DEFINE n == at - 1
  <2>2. n \in 0..KeyBids - 1 /\ n \in Nat /\ n + 1 = at
    BY <1>3, <2>1
  <2>3. translate_bid(h) = [market |-> market_id, buys |-> buys, bid |-> n]
    <3> HIDE DEF n, buys, h
    <3> QED
      BY <1>1, <2>1, <2>2, KeyIs DEF n
  <2>4. h \in Int /\ h > 0 /\ h # 0
    <3> HIDE DEF n, buys, h
    <3> QED
      BY <1>1, <2>1, <2>2, KeyIsSome DEF n
  <2>5. key = h
    BY <1>8, <2>3 DEF submit
  <2>6. new = [C EXCEPT ![at] = Entry(b, bid)]
    BY <1>8, <2>2, <2>3, <2>4, <2>5 DEF curve_submit
  <2>7. C[at].from = b
    BY <2>1 DEF Entry
  <2>8. /\ new \in Seq(Entries(buys)) /\ Single(new)
        /\ Standing(b, buys, new, key, bid, market_id)
        /\ \A e, k, old : e # b /\ Standing(e, buys, C, k, old, market_id) => Standing(e, buys, new, k, old, market_id)
    <3> HIDE DEF key, new, C, buys, h
    <3> QED
      BY <1>1, <1>2, <2>1, <2>5, <2>6, <2>7, Replaced
  <2>9. ~(warmup /\ total_samples < WarmupSamples /\ buys)
    BY <1>8 DEF BInv, Warm
  <2> HIDE DEF key, new, C, buys, h
  <2> QED
    BY <1>8, <2>4, <2>5, <2>8, <2>9 DEF key, new, C, buys, h
<1> QED
  BY <1>6, <1>7, <1>8

LEMMA Afterwards ==
    /\ \A b : held(b)' = IF lastmkt_id'[b] = market_id' THEN lastbid_id'[b] ELSE None
    /\ \A buys : Curve(buys)' = IF buys THEN asks' ELSE offers'
BY DEF held, Curve

LEMMA SubmitKeeps ==
    ASSUME BInv, NEW b \in Bidders, Submit(b)
    PROVE  BInv'
<1> DEFINE buys == b \in Buyers
<1>1. PICK bid \in BidsOf[b] :
        /\ Put(buys, curve_submit(b, buys, bid, held(b)))
        /\ lastbid_id' = [lastbid_id EXCEPT ![b] = submit(b, buys, bid, held(b))]
        /\ wanted' = [wanted EXCEPT ![b] = IF submit(b, buys, bid, held(b)) = None THEN NoBid ELSE bid]
  BY DEF Submit
<1>2. lastmkt_id' = [lastmkt_id EXCEPT ![b] = market_id] /\ UNCHANGED <<market_id, total_samples, warmup>>
  BY DEF Submit, stats, settings
<1> DEFINE key  == submit(b, buys, bid, held(b))
           new  == curve_submit(b, buys, bid, held(b))
           w    == IF key = None THEN NoBid ELSE bid
<1>3. /\ new \in Seq(Entries(buys)) /\ Single(new) /\ key \in Int
      /\ Standing(b, buys, new, key, w, market_id)
      /\ \A e, k, old : e # b /\ Standing(e, buys, Curve(buys), k, old, market_id)
                          => Standing(e, buys, new, k, old, market_id)
      /\ warmup /\ total_samples < WarmupSamples /\ buys => key = None
  BY Submitted
<1>4. w \in Bid \union {NoBid}
  BY BidsAreBids
<1>5. Put(buys, new) /\ lastbid_id' = [lastbid_id EXCEPT ![b] = key] /\ wanted' = [wanted EXCEPT ![b] = w]
  BY <1>1
<1> HIDE DEF key, new, w
<1>6. buys \in BOOLEAN
  OBVIOUS
<1> HIDE DEF buys
<1>7. /\ Curve(buys)' = new
      /\ \A other \in BOOLEAN : other # buys => Curve(other)' = Curve(other)
  BY <1>5, <1>6, Afterwards DEF Put, Curve
<1>8. BidTypes'
  BY <1>2, <1>3, <1>4, <1>5 DEF BInv, BidTypes
<1>9. held(b)' = key /\ (\A e \in Bidders : e # b => held(e)' = held(e)) /\ wanted'[b] = w
      /\ (\A e \in Bidders : e # b => wanted'[e] = wanted[e] /\ lastmkt_id'[e] = lastmkt_id[e]) /\ lastmkt_id'[b] = market_id
  BY <1>2, <1>5, Afterwards DEF BInv, BidTypes, held
<1>10. CurvesHold'
  <2> SUFFICES ASSUME NEW other \in BOOLEAN
               PROVE  Curve(other)' \in Seq(Entries(other)) /\ Single(Curve(other)')
    BY DEF CurvesHold, Single
  <2>1. CASE other = buys
    BY <1>3, <1>7, <2>1
  <2>2. CASE other # buys
    BY <1>7, <2>2 DEF BInv, CurvesHold
  <2> QED
    BY <2>1, <2>2
<1>11. KeysHold'
  <2>1. ASSUME NEW e \in Bidders
        PROVE  Standing(e, e \in Buyers, Curve(e \in Buyers)', held(e)', wanted'[e], market_id')
    <3> DEFINE mine == e \in Buyers
    <3>1. mine \in BOOLEAN /\ Standing(e, mine, Curve(mine), held(e), wanted[e], market_id)
      BY DEF BInv, KeysHold
    <3>2. e = b => mine = buys
      BY DEF buys
    <3> HIDE DEF mine
    <3>3. CASE e = b
      BY <1>2, <1>3, <1>7, <1>9, <3>2, <3>3 DEF mine
    <3>4. CASE e # b /\ mine = buys
      <4>1. Curve(mine)' = new
        BY <1>7, <3>4
      <4>2. Standing(e, mine, new, held(e), wanted[e], market_id)
        BY <1>3, <3>1, <3>4
      <4> QED
        BY <1>2, <1>9, <3>4, <4>1, <4>2 DEF mine
    <3>5. CASE e # b /\ mine # buys
      BY <1>2, <1>7, <1>9, <3>1, <3>5 DEF mine
    <3> QED
      BY <3>3, <3>4, <3>5
  <2>2. \A e \in Bidders : lastmkt_id'[e] <= market_id'
    <3>1. market_id \in Nat
      BY DEF BInv
    <3> QED
      BY <1>2, <1>9, <3>1 DEF BInv, KeysHold
  <2> QED
    BY <2>1, <2>2 DEF KeysHold
<1>12. Warm'
  <2> SUFFICES ASSUME warmup, total_samples < WarmupSamples, NEW e \in Buyers PROVE held(e)' = None
    BY <1>2 DEF Warm
  <2>1. CASE e = b
    BY <1>3, <1>9, <2>1 DEF buys
  <2>2. CASE e # b
    BY <1>9, <2>2 DEF BInv, Warm, Bidders
  <2> QED
    BY <2>1, <2>2
<1> QED
  BY <1>2, <1>8, <1>10, <1>11, <1>12 DEF BInv

(* A market begins with empty curves, and the keys of the last are void.   *)
LEMMA EmptyCurve ==
    ASSUME NEW b, NEW buys \in BOOLEAN, NEW m
    PROVE  <<>> \in Seq(Entries(buys)) /\ Single(<<>>) /\ Standing(b, buys, <<>>, None, NoBid, m)
<1>1. <<>> \in Seq(Entries(buys))
  BY EmptySeq
<1>2. DOMAIN <<>> = {}
  OBVIOUS
<1>3. Single(<<>>)
  BY <1>2 DEF Single
<1>4. Standing(b, buys, <<>>, None, NoBid, m)
  BY <1>2 DEF Standing
<1> QED
  BY <1>1, <1>3, <1>4

LEMMA BInit == Init => BInv
<1> SUFFICES ASSUME Init PROVE BInv
  OBVIOUS
<1>1. BidTypes
  BY DEF Init, BidTypes, None
<1>2. asks = <<>> /\ offers = <<>> /\ market_id = 1
      /\ \A b \in Bidders : lastmkt_id[b] = 0 /\ held(b) = None /\ wanted[b] = NoBid
  BY DEF Init, held
<1>3. \A buys \in BOOLEAN : Curve(buys) = <<>>
  BY <1>2 DEF Curve
<1>4. CurvesHold
  BY <1>3, EmptyCurve DEF CurvesHold
<1>5. KeysHold
  <2> SUFFICES ASSUME NEW b \in Bidders
               PROVE  lastmkt_id[b] <= market_id /\ Standing(b, b \in Buyers, Curve(b \in Buyers), held(b), wanted[b], market_id)
    BY DEF KeysHold
  <2> DEFINE buys == b \in Buyers
  <2>1. buys \in BOOLEAN
    OBVIOUS
  <2> HIDE DEF buys
  <2>2. Standing(b, buys, Curve(buys), held(b), wanted[b], market_id)
    BY <1>2, <1>3, <2>1, EmptyCurve
  <2> QED
    BY <1>2, <2>2 DEF buys
<1>6. Warm
  BY <1>2 DEF Warm, Bidders
<1> QED
  BY <1>1, <1>2, <1>4, <1>5, <1>6 DEF BInv

LEMMA ClearKeepsBids == BInv /\ Clear => BInv'
<1> SUFFICES ASSUME BInv, Clear PROVE BInv'
  OBVIOUS
<1>1. /\ asks' = <<>> /\ offers' = <<>> /\ wanted' = [b \in Bidders |-> NoBid]
      /\ market_id' = market_id + 1 /\ UNCHANGED <<warmup, lastbid_id, lastmkt_id>>
  BY DEF Clear, settings
<1>2. market_id \in Nat \ {0} /\ total_samples \in Nat
  BY DEF BInv, BidTypes
<1>3. total_samples' \in Nat
  <2>1. total_samples' = total_samples + 1 \/ total_samples' = total_samples
    BY DEF Clear, clear_market, FileLater, FileNow, push_market_frame
  <2> QED
    BY <1>2, <2>1
<1>4. \A b \in Bidders : lastmkt_id'[b] <= market_id' /\ held(b)' = None /\ wanted'[b] = NoBid
  <2> SUFFICES ASSUME NEW b \in Bidders PROVE lastmkt_id'[b] <= market_id' /\ held(b)' = None /\ wanted'[b] = NoBid
    OBVIOUS
  <2>1. lastmkt_id'[b] \in Nat /\ lastmkt_id'[b] <= market_id
    BY <1>1 DEF BInv, BidTypes, KeysHold
  <2> QED
    BY <1>1, <1>2, <2>1, Afterwards
<1>5. BidTypes'
  BY <1>1, <1>3 DEF BInv, BidTypes
<1>6. \A buys \in BOOLEAN : Curve(buys)' = <<>>
  BY <1>1, Afterwards
<1>7. CurvesHold'
  <2> SUFFICES ASSUME NEW buys \in BOOLEAN PROVE Curve(buys)' \in Seq(Entries(buys)) /\ Single(Curve(buys)')
    BY DEF CurvesHold, Single
  <2> QED
    BY <1>6, EmptyCurve
<1>8. KeysHold'
  <2>1. ASSUME NEW b \in Bidders
        PROVE  Standing(b, b \in Buyers, Curve(b \in Buyers)', held(b)', wanted'[b], market_id')
    <3> DEFINE buys == b \in Buyers
    <3>1. buys \in BOOLEAN
      OBVIOUS
    <3> HIDE DEF buys
    <3>2. Standing(b, buys, Curve(buys)', held(b)', wanted'[b], market_id')
      BY <1>4, <1>6, <3>1, EmptyCurve
    <3> QED
      BY <3>2 DEF buys
  <2> QED
    BY <1>4, <2>1 DEF KeysHold
<1>9. Warm'
  <2> SUFFICES ASSUME NEW b \in Buyers PROVE held(b)' = None
    BY DEF Warm
  <2> QED
    BY <1>4 DEF Bidders
<1> QED
  BY <1>1, <1>2, <1>5, <1>7, <1>8, <1>9 DEF BInv

LEMMA OthersKeepBids == BInv /\ (Open \/ Wait \/ Advance \/ UNCHANGED vars) => BInv'
<1> SUFFICES ASSUME BInv, Open \/ Wait \/ Advance \/ UNCHANGED vars PROVE BInv'
  OBVIOUS
<1>1. UNCHANGED <<asks, offers, market_id, total_samples, warmup, lastbid_id, lastmkt_id, wanted>>
  BY DEF Open, Wait, Advance, vars, curves, settings, stats, bidders
<1>2. \A b : held(b)' = held(b)
  BY <1>1 DEF held
<1>3. \A buys : Curve(buys)' = Curve(buys)
  BY <1>1 DEF Curve
<1>4. BidTypes'
  BY <1>1 DEF BInv, BidTypes
<1>5. CurvesHold'
  <2> SUFFICES ASSUME NEW buys \in BOOLEAN PROVE Curve(buys)' \in Seq(Entries(buys)) /\ Single(Curve(buys)')
    BY DEF CurvesHold, Single
  <2> QED
    BY <1>3 DEF BInv, CurvesHold
<1>6. KeysHold'
  <2>1. ASSUME NEW b \in Bidders
        PROVE  /\ lastmkt_id'[b] <= market_id'
               /\ Standing(b, b \in Buyers, Curve(b \in Buyers)', held(b)', wanted'[b], market_id')
    BY <1>1, <1>2, <1>3 DEF BInv, KeysHold
  <2> QED
    BY <2>1 DEF KeysHold
<1>7. Warm'
  BY <1>1, <1>2 DEF BInv, Warm
<1> QED
  BY <1>1, <1>4, <1>5, <1>6, <1>7 DEF BInv

LEMMA BidsHold == BInv => BidsStand
<1> SUFFICES ASSUME BInv, NEW b \in Bidders
             PROVE  LET mine == {k \in DOMAIN Curve(b \in Buyers) : Curve(b \in Buyers)[k].from = b}
                        key  == translate_bid(lastbid_id[b])
                    IN  /\ \A k \in DOMAIN Curve(b \notin Buyers) : Curve(b \notin Buyers)[k].from # b
                        /\ IF wanted[b] = NoBid THEN mine = {}
                           ELSE /\ mine = {key.bid + 1} /\ key.market = market_id /\ key.buys = (b \in Buyers)
                                /\ Curve(b \in Buyers)[key.bid + 1] = Entry(b, wanted[b])
  BY DEF BidsStand
<1> DEFINE buys  == b \in Buyers
           other == b \notin Buyers
           C     == Curve(buys)
           mine  == {k \in DOMAIN C : C[k].from = b}
           key   == translate_bid(lastbid_id[b])
<1>1. buys \in BOOLEAN /\ other \in BOOLEAN /\ b \in Side(buys) /\ b \notin Side(other)
      /\ market_id \in Nat \ {0}
  BY BiddersAssumption DEF Bidders, Side, BInv
<1>2. ASSUME NEW k \in DOMAIN Curve(other) PROVE Curve(other)[k].from # b
  <2>1. Curve(other) \in Seq(Entries(other))
    BY <1>1 DEF BInv, CurvesHold
  <2> DEFINE D == Curve(other)
  <2>2. D[k] \in Entries(other)
    <3> HIDE DEF D, other
    <3>1. D \in [1..Len(D) -> Entries(other)] /\ DOMAIN D = 1..Len(D)
      BY <2>1, LenProperties DEF D
    <3> QED
      BY <3>1 DEF D
  <2> HIDE DEF other
  <2> QED
    BY <1>1, <2>2 DEF Entries
<1>3. C \in Seq(Entries(buys)) /\ Single(C) /\ Standing(b, buys, C, held(b), wanted[b], market_id)
  BY <1>1 DEF BInv, CurvesHold, KeysHold
<1>4. CASE held(b) = None
  BY <1>2, <1>3, <1>4 DEF Standing
<1>5. CASE held(b) # None
  <2>1. wanted[b] \in Bid /\ wanted[b] # NoBid
    BY <1>3, <1>5 DEF Standing, Bid, NoBid
  <2>2. PICK i \in DOMAIN C : held(b) = write_bid(market_id, i - 1, buys) /\ C[i] = Entry(b, wanted[b])
    BY <1>3, <1>5 DEF Standing
  <2> DEFINE n == i - 1
  <2>3. n \in 0..KeyBids - 1 /\ n + 1 = i
    <3> HIDE DEF buys, C
    <3>1. DOMAIN C = 1..Len(C) /\ Len(C) \in Nat /\ Len(C) <= KeyBids
      BY <1>1, <1>3, Numbered, LenProperties
    <3> QED
      BY <2>2, <3>1, KeysAssumption
  <2>4. lastbid_id[b] = write_bid(market_id, n, buys)
    BY <1>5, <2>2 DEF held
  <2>5. key = [market |-> market_id, buys |-> buys, bid |-> n]
    <3> HIDE DEF n, buys
    <3> QED
      BY <1>1, <2>3, <2>4, KeyIs
  <2>6. mine = {i}
    BY <1>3, <2>2 DEF Single, Entry
  <2> QED
    BY <1>2, <2>1, <2>2, <2>3, <2>5, <2>6
<1> QED
  BY <1>4, <1>5

(* BidsStand: the curves hold exactly the bids that stand, of each bidder  *)
(* the last one of this market and once, whatever was resubmitted, refused *)
(* or withdrawn (auction::submit, curve::submit, curve::resubmit).         *)
THEOREM OnlyStandingBids == Spec => []BidsStand
<1>1. BInv /\ [Next]_vars => BInv'
  BY SubmitKeeps, ClearKeepsBids, OthersKeepBids DEF Next
<1> QED
  BY <1>1, BInit, BidsHold, PTL DEF Spec
-----------------------------------------------------------------------------
(* Sums of quantities.                                                     *)

(* A set of natural numbers has a least element.                           *)
LEMMA LeastNumber ==
    ASSUME NEW S \in SUBSET Nat, S # {}
    PROVE  \E x \in S : \A y \in S : x <= y
<1> DEFINE T == {0..x : x \in S}
<1>1. T \subseteq FiniteSubsetsOf(Nat) /\ T # {}
  <2>1. \A x \in S : IsFiniteSet(0..x)
    BY FS_Interval
  <2>2. \A x \in S : 0..x \in FiniteSubsetsOf(Nat)
    BY <2>1 DEF FiniteSubsetsOf
  <2> QED
    BY <2>2
<1>2. PICK m \in T : \A y \in T : ~(<<y, m>> \in StrictSubsetOrdering(Nat))
  BY <1>1, FS_StrictSubsetOrderingWellFounded, WFMin
<1>3. PICK x \in S : m = 0..x
  BY <1>2
<1>4. ASSUME NEW y \in S PROVE x <= y
  <2>1. 0..y \in T /\ 0..y \in SUBSET Nat /\ 0..x \in SUBSET Nat
    OBVIOUS
  <2>2. ~(0..y \subseteq 0..x /\ 0..y # 0..x)
    BY <1>2, <1>3, <2>1 DEF StrictSubsetOrdering
  <2>3. y < x => 0..y \subseteq 0..x /\ x \in 0..x /\ x \notin 0..y
    OBVIOUS
  <2> QED
    BY <2>2, <2>3
<1> QED
  BY <1>4

(* A set of subsets of a finite set has a smallest one.                    *)
LEMMA Smallest ==
    ASSUME NEW S, IsFiniteSet(S), NEW X \in SUBSET SUBSET S, X # {}
    PROVE  \E T \in X : \A U \in SUBSET T : U # T => U \notin X
<1>1. X \subseteq FiniteSubsetsOf(S)
  <2>1. \A T \in X : T \in SUBSET S /\ IsFiniteSet(T)
    BY FS_Subset
  <2> QED
    BY <2>1 DEF FiniteSubsetsOf
<1>2. PICK T \in X : \A U \in X : ~(<<U, T>> \in StrictSubsetOrdering(S))
  BY <1>1, FS_StrictSubsetOrderingWellFounded, WFMin
<1>3. ASSUME NEW U \in SUBSET T, U # T, U \in X PROVE FALSE
  BY <1>2, <1>3 DEF StrictSubsetOrdering
<1> QED
  BY <1>2, <1>3

(* What adds up the quantities at the keys of the sets below T, one after  *)
(* the other, as MapThenSumSet does.                                       *)
Pick(S) == CHOOSE x \in S : TRUE
Rest(S) == S \ {Pick(S)}
Added(s, f, S) == IF S = {} THEN 0 ELSE s[Pick(S)].quantity + f[Rest(S)]
Adds(s, f, T) == f = [S \in SUBSET T |-> Added(s, f, S)]

LEMMA RestIsSmaller ==
    ASSUME NEW S, S # {}
    PROVE  Pick(S) \in S /\ Rest(S) \subseteq S /\ Rest(S) # S /\ Pick(S) \notin Rest(S)
           /\ S = Rest(S) \union {Pick(S)}
BY DEF Pick, Rest

LEMMA AddsAgree ==
    ASSUME NEW s, NEW D, IsFiniteSet(D), NEW T \in SUBSET D, NEW V \in SUBSET D,
           NEW R \in SUBSET D, R \subseteq T, R \subseteq V
    PROVE  \A f, g : Adds(s, f, T) /\ Adds(s, g, V) => f[R] = g[R]
<1> SUFFICES ASSUME NEW f, Adds(s, f, T), NEW g, Adds(s, g, V) PROVE f[R] = g[R]
  OBVIOUS
<1> DEFINE X == {S \in SUBSET D : S \subseteq T /\ S \subseteq V /\ f[S] # g[S]}
<1>1. SUFFICES ASSUME X # {} PROVE FALSE
  OBVIOUS
<1>2. PICK S \in X : \A U \in SUBSET S : U # S => U \notin X
  BY <1>1, Smallest
<1>3. f[S] = Added(s, f, S) /\ g[S] = Added(s, g, S)
  BY <1>2 DEF Adds
<1>4. S # {}
  BY <1>2, <1>3 DEF Added
<1>5. f[Rest(S)] = g[Rest(S)]
  BY <1>2, <1>4, RestIsSmaller
<1> QED
  BY <1>2, <1>3, <1>5 DEF Added

LEMMA AddsExists ==
    ASSUME NEW s, NEW D, IsFiniteSet(D)
    PROVE  \A T \in SUBSET D : \E f : Adds(s, f, T)
<1> DEFINE X == {T \in SUBSET D : ~\E f : Adds(s, f, T)}
<1>1. SUFFICES ASSUME X # {} PROVE FALSE
  OBVIOUS
<1>0. X \in SUBSET SUBSET D
  OBVIOUS
<1> HIDE DEF X
<1>6. PICK T \in X : \A U \in SUBSET T : U # T => U \notin X
  BY <1>0, <1>1, Smallest
<1>2. T \in SUBSET D /\ ~(\E f : Adds(s, f, T)) /\ \A U \in SUBSET T : U # T => \E f : Adds(s, f, U)
  BY <1>6 DEF X
<1> DEFINE G(U) == CHOOSE f : Adds(s, f, U)
           f == [S \in SUBSET T |-> IF S = {} THEN 0 ELSE s[Pick(S)].quantity + G(Rest(S))[Rest(S)]]
<1>3. \A U \in SUBSET T : U # T => Adds(s, G(U), U)
  <2> SUFFICES ASSUME NEW U \in SUBSET T, U # T PROVE Adds(s, G(U), U)
    OBVIOUS
  <2>1. \E h : Adds(s, h, U)
    BY <1>2
  <2> QED
    BY <2>1
<1> HIDE DEF G
<1>4. ASSUME NEW S \in SUBSET T PROVE f[S] = Added(s, f, S)
  <2>1. CASE S = {}
    BY <2>1 DEF Added
  <2>2. CASE S # {}
    <3> DEFINE R == Rest(S)
    <3>1. R \in SUBSET T /\ R # T /\ R \subseteq S
      BY <2>2, RestIsSmaller
    <3>2. f[S] = s[Pick(S)].quantity + G(R)[R]
      BY <2>2
    <3>3. G(R)[R] = Added(s, G(R), R)
      BY <1>3, <3>1 DEF Adds
    <3>4. f[R] = G(R)[R]
      <4>1. CASE R = {}
        BY <3>1, <3>3, <4>1 DEF Added
      <4>2. CASE R # {}
        <5>1. Rest(R) \in SUBSET R /\ Rest(R) # T /\ Rest(R) \in SUBSET T
          BY <3>1, <4>2, RestIsSmaller
        <5>2. Adds(s, G(R), R) /\ Adds(s, G(Rest(R)), Rest(R))
          BY <1>3, <3>1, <5>1
        <5>3. R \in SUBSET D /\ Rest(R) \in SUBSET D
          BY <1>2, <3>1, <5>1
        <5>5. Rest(R) \subseteq R /\ Rest(R) \subseteq Rest(R)
          BY <5>1
        <5>6. \A g, h : Adds(s, g, R) /\ Adds(s, h, Rest(R)) => g[Rest(R)] = h[Rest(R)]
          BY <5>3, <5>5, AddsAgree
        <5>4. G(R)[Rest(R)] = G(Rest(R))[Rest(R)]
          BY <5>2, <5>6
        <5> QED
          BY <3>1, <3>3, <4>2, <5>4 DEF Added
      <4> QED
        BY <4>1, <4>2
    <3> QED
      BY <2>2, <3>2, <3>4 DEF Added
  <2> QED
    BY <2>1, <2>2
<1>5. Adds(s, f, T)
  BY <1>4 DEF Adds
<1> QED
  BY <1>2, <1>5

(* One function gives the quantities at all sets of keys.                  *)
LEMMA QuantityAdds ==
    ASSUME NEW s, NEW D, IsFiniteSet(D)
    PROVE  \E f : Adds(s, f, D) /\ \A S \in SUBSET D : Quantity(s, S) = f[S]
<1>1. PICK f : Adds(s, f, D)
  BY AddsExists
<1>2. ASSUME NEW S \in SUBSET D PROVE Quantity(s, S) = f[S]
  <2> DEFINE g == CHOOSE h : Adds(s, h, S)
  <2>1. Adds(s, g, S)
    <3>1. \E h : Adds(s, h, S)
      BY AddsExists
    <3> QED
      BY <3>1
  <2>2. Quantity(s, S) = g[S]
    BY DEF Quantity, MapThenSumSet, MapThenFoldSet, Adds, Added, Pick, Rest
  <2> HIDE DEF g
  <2>3. D \in SUBSET D /\ S \in SUBSET D /\ S \subseteq D /\ S \subseteq S
    OBVIOUS
  <2>4. \A h, k : Adds(s, h, S) /\ Adds(s, k, D) => h[S] = k[S]
    <3> DEFINE V == D
    <3>1. V \in SUBSET D /\ S \subseteq V
      OBVIOUS
    <3> HIDE DEF V
    <3>2. \A h, k : Adds(s, h, S) /\ Adds(s, k, V) => h[S] = k[S]
      BY <2>3, <3>1, AddsAgree
    <3> QED
      BY <3>2 DEF V
  <2> QED
    BY <1>1, <2>1, <2>2, <2>4
<1> QED
  BY <1>1, <1>2

(* Quantities add up, in whatever order.                                   *)
LEMMA QuantityOne ==
    ASSUME NEW s, NEW D, IsFiniteSet(D), \A k \in D : s[k].quantity \in Nat
    PROVE  /\ Quantity(s, {}) = 0
           /\ \A S \in SUBSET D : Quantity(s, S) \in Nat
           /\ \A S \in SUBSET D : \A k \in S : Quantity(s, S) = s[k].quantity + Quantity(s, S \ {k})
<1>1. PICK f : Adds(s, f, D) /\ \A S \in SUBSET D : Quantity(s, S) = f[S]
  BY QuantityAdds
<1>2. \A S \in SUBSET D : f[S] = Added(s, f, S)
  BY <1>1 DEF Adds
<1> DEFINE Fine(S) == f[S] \in Nat /\ \A k \in S : f[S] = s[k].quantity + f[S \ {k}]
           X == {S \in SUBSET D : ~Fine(S)}
<1>3. ASSUME X # {} PROVE FALSE
  <2>1. X \in SUBSET SUBSET D
    OBVIOUS
  <2> HIDE DEF X
  <2>2. PICK S \in X : \A U \in SUBSET S : U # S => U \notin X
    BY <1>3, <2>1, Smallest
  <2>3. S \in SUBSET D /\ ~Fine(S) /\ \A U \in SUBSET S : U # S => Fine(U)
    BY <2>2 DEF X
  <2>4. S # {}
    BY <1>2, <2>3 DEF Added
  <2> DEFINE c == Pick(S)
  <2>5. c \in S /\ f[S] = s[c].quantity + f[S \ {c}]
    BY <1>2, <2>3, <2>4, RestIsSmaller DEF Added, Rest
  <2> HIDE DEF c
  <2>6. \A k \in S : s[k].quantity \in Nat /\ S \ {k} \in SUBSET S /\ S \ {k} # S
    BY <2>3
  <2>7. \A k \in S : f[S \ {k}] \in Nat
    BY <2>3, <2>6
  <2>8. ASSUME NEW k \in S PROVE f[S] = s[k].quantity + f[S \ {k}]
    <3>1. CASE k = c
      BY <2>5, <3>1
    <3>2. CASE k # c
      <4>1. k \in S \ {c} /\ c \in S \ {k}
        BY <2>5, <3>2
      <4>2. f[S \ {c}] = s[k].quantity + f[(S \ {c}) \ {k}] /\ f[S \ {k}] = s[c].quantity + f[(S \ {k}) \ {c}]
        BY <2>3, <2>5, <2>6, <4>1
      <4>3. (S \ {c}) \ {k} = (S \ {k}) \ {c} /\ (S \ {c}) \ {k} \in SUBSET S /\ (S \ {c}) \ {k} # S
        BY <2>5
      <4>4. f[(S \ {c}) \ {k}] \in Nat
        BY <2>3, <4>3
      <4> DEFINE x == s[k].quantity
                 y == s[c].quantity
                 z == f[(S \ {c}) \ {k}]
      <4>5. x \in Nat /\ y \in Nat /\ z \in Nat
        BY <2>5, <2>6, <4>4
      <4>6. f[S] = y + (x + z) /\ f[S \ {k}] = y + z
        BY <2>5, <4>2, <4>3
      <4> HIDE DEF x, y, z
      <4>7. f[S] = x + f[S \ {k}]
        BY <4>5, <4>6
      <4> QED
        BY <4>7 DEF x
    <3> QED
      BY <3>1, <3>2
  <2>9. f[S] \in Nat
    BY <2>5, <2>6, <2>7
  <2> QED
    BY <2>3, <2>8, <2>9
<1>4. \A S \in SUBSET D : Fine(S)
  BY <1>3
<1>5. Quantity(s, {}) = 0
  BY <1>1, <1>2 DEF Added
<1>6. \A S \in SUBSET D : \A k \in S : S \ {k} \in SUBSET D
  OBVIOUS
<1> QED
  BY <1>1, <1>4, <1>5, <1>6

LEMMA QuantitiesAdd ==
    ASSUME NEW s, NEW D, IsFiniteSet(D), \A k \in D : s[k].quantity \in Nat
    PROVE  \A S, T \in SUBSET D : S \intersect T = {} => Quantity(s, S \union T) = Quantity(s, S) + Quantity(s, T)
<1> SUFFICES ASSUME NEW S \in SUBSET D
             PROVE  \A T \in SUBSET D : S \intersect T = {} => Quantity(s, S \union T) = Quantity(s, S) + Quantity(s, T)
  OBVIOUS
<1> DEFINE X == {T \in SUBSET D : S \intersect T = {} /\ Quantity(s, S \union T) # Quantity(s, S) + Quantity(s, T)}
<1>1. SUFFICES ASSUME X # {} PROVE FALSE
  OBVIOUS
<1>2. X \in SUBSET SUBSET D
  OBVIOUS
<1> HIDE DEF X
<1>3. PICK T \in X : \A U \in SUBSET T : U # T => U \notin X
  BY <1>1, <1>2, Smallest
<1>4. T \in SUBSET D /\ S \intersect T = {} /\ Quantity(s, S \union T) # Quantity(s, S) + Quantity(s, T)
  BY <1>3 DEF X
<1>5. T # {}
  <2> SUFFICES ASSUME T = {} PROVE FALSE
    OBVIOUS
  <2>1. S \union T = S /\ Quantity(s, T) = 0 /\ Quantity(s, S) \in Nat
    BY QuantityOne
  <2> QED
    BY <1>4, <2>1
<1>6. PICK k : k \in T
  BY <1>5
<1> DEFINE U == T \ {k}
<1>7. U \in SUBSET T /\ U # T /\ U \in SUBSET D /\ S \intersect U = {}
  BY <1>4, <1>6
<1>8. Quantity(s, S \union U) = Quantity(s, S) + Quantity(s, U)
  BY <1>3, <1>7 DEF X
<1>9. (S \union T) \ {k} = S \union U /\ k \in S \union T /\ S \union T \in SUBSET D
  BY <1>4, <1>6
<1>10. Quantity(s, S \union T) = s[k].quantity + Quantity(s, S \union U) /\ Quantity(s, T) = s[k].quantity + Quantity(s, U)
  <2>1. \A V \in SUBSET D : \A l \in V : Quantity(s, V) = s[l].quantity + Quantity(s, V \ {l})
    BY QuantityOne
  <2> QED
    BY <1>4, <1>6, <1>9, <2>1
<1>11. s[k].quantity \in Nat /\ Quantity(s, S) \in Nat /\ Quantity(s, U) \in Nat
  BY <1>4, <1>6, <1>7, QuantityOne
<1> HIDE DEF U
<1> QED
  BY <1>4, <1>8, <1>10, <1>11

LEMMA QuantityGrows ==
    ASSUME NEW s, NEW D, IsFiniteSet(D), \A k \in D : s[k].quantity \in Nat,
           NEW S \in SUBSET D, NEW T \in SUBSET S
    PROVE  Quantity(s, T) <= Quantity(s, S)
<1> DEFINE U == S \ T
<1>1. T \in SUBSET D /\ U \in SUBSET D /\ T \intersect U = {} /\ T \union U = S
  OBVIOUS
<1> HIDE DEF U
<1>2. Quantity(s, S) = Quantity(s, T) + Quantity(s, U)
  BY <1>1, QuantitiesAdd
<1>3. Quantity(s, T) \in Nat /\ Quantity(s, U) \in Nat
  BY <1>1, QuantityOne
<1> QED
  BY <1>2, <1>3
-----------------------------------------------------------------------------
(* The curves in order.                                                    *)

(* The keys can be put in any order that is total and transitive: the last *)
(* one goes before the first that follows it.                              *)
LEMMA OrderExists ==
    ASSUME NEW n \in Nat, NEW order,
           \A x, y \in 1..n : x # y => <<x, y>> \in order \/ <<y, x>> \in order,
           \A x, y, z \in 1..n : <<x, y>> \in order /\ <<y, z>> \in order => <<x, z>> \in order
    PROVE  \E keys \in [1..n -> 1..n] : \A i, j \in 1..n : i < j => <<keys[i], keys[j]>> \in order
<1> DEFINE Ordered(keys, m) == /\ keys \in [1..m -> 1..m]
                               /\ \A i, j \in 1..m : i < j => <<keys[i], keys[j]>> \in order
           X == {m \in 0..n : ~\E keys : Ordered(keys, m)}
<1>1. ASSUME X # {} PROVE FALSE
  <2>1. X \in SUBSET Nat
    OBVIOUS
  <2>2. PICK m \in X : \A l \in X : m <= l
    BY <1>1, <2>1, LeastNumber
  <2>3. m \in 0..n /\ ~\E keys : Ordered(keys, m)
    BY <2>2
  <2>4. CASE m = 0
    <3>1. 1..0 = {}
      OBVIOUS
    <3>2. Ordered([i \in 1..0 |-> i], m)
      BY <2>4, <3>1
    <3> QED
      BY <2>3, <3>2
  <2>5. CASE m # 0
    <3>1. m - 1 \in 0..n /\ ~(m <= m - 1)
      BY <2>3, <2>5
    <3>2. PICK old : Ordered(old, m - 1)
      BY <2>2, <3>1
    <3> DEFINE Q == {q \in 1..m : q = m \/ <<m, old[q]>> \in order}
    <3>3. m \in Q /\ Q \in SUBSET Nat
      BY <2>3, <2>5
    <3>4. PICK q \in Q : \A r \in Q : q <= r
      BY <3>3, LeastNumber
    <3>5. q \in 1..m /\ (q = m \/ <<m, old[q]>> \in order) /\ \A r \in 1..m : r < q => r # m /\ ~(<<m, old[r]>> \in order)
      <4>1. \A r \in 1..m : r < q => r \notin Q
        BY <3>4
      <4> QED
        BY <3>4, <4>1
    <3> HIDE DEF Q
    <3> DEFINE new == [i \in 1..m |-> IF i < q THEN old[i] ELSE IF i = q THEN m ELSE old[i - 1]]
    <3>6. /\ \A i \in 1..m - 1 : old[i] \in 1..m - 1
          /\ \A i, j \in 1..m - 1 : i < j => <<old[i], old[j]>> \in order
      BY <3>2
    <3>7. \A i \in 1..m - 1 : old[i] \in 1..n /\ m \in 1..n /\ old[i] # m
      BY <2>3, <2>5, <3>6
    <3>8. \A i \in 1..m - 1 : i < q => <<old[i], m>> \in order
      <4> SUFFICES ASSUME NEW i \in 1..m - 1, i < q PROVE <<old[i], m>> \in order
        OBVIOUS
      <4>1. ~(<<m, old[i]>> \in order)
        BY <3>5
      <4> QED
        BY <3>7, <4>1
    <3>9. \A i \in 1..m - 1 : i >= q => <<m, old[i]>> \in order
      <4> SUFFICES ASSUME NEW i \in 1..m - 1, i >= q PROVE <<m, old[i]>> \in order
        OBVIOUS
      <4>1. q \in 1..m - 1 /\ <<m, old[q]>> \in order
        BY <3>5
      <4>2. CASE i = q
        BY <4>1, <4>2
      <4>3. CASE i # q
        <5>1. <<old[q], old[i]>> \in order
          BY <3>6, <4>1, <4>3
        <5> QED
          BY <3>7, <4>1, <5>1
      <4> QED
        BY <4>2, <4>3
    <3>10. ASSUME NEW i \in 1..m PROVE new[i] \in 1..m
      <4>1. i < q => i \in 1..m - 1
        BY <3>5
      <4>2. i > q => i - 1 \in 1..m - 1
        BY <3>5
      <4>3. \A k \in 1..m - 1 : old[k] \in 1..m
        BY <3>6
      <4>4. m \in 1..m
        BY <2>3, <2>5
      <4>5. i < q \/ i = q \/ i > q
        BY <3>5
      <4> QED
        BY <4>1, <4>2, <4>3, <4>4, <4>5
    <3>11. ASSUME NEW i \in 1..m, NEW j \in 1..m, i < j PROVE <<new[i], new[j]>> \in order
      <4>1. CASE j < q
        <5>1. i \in 1..m - 1 /\ j \in 1..m - 1 /\ new[i] = old[i] /\ new[j] = old[j]
          BY <3>5, <3>11, <4>1
        <5> QED
          BY <3>6, <3>11, <5>1
      <4>2. CASE j = q
        <5>1. i \in 1..m - 1 /\ new[i] = old[i] /\ new[j] = m
          BY <3>5, <3>11, <4>2
        <5> QED
          BY <3>8, <3>11, <4>2, <5>1
      <4>3. CASE j > q
        <5>1. j - 1 \in 1..m - 1 /\ new[j] = old[j - 1]
          BY <3>5, <4>3
        <5>2. CASE i < q
          <6>1. i \in 1..m - 1 /\ new[i] = old[i] /\ i < j - 1
            BY <3>5, <4>3, <5>2
          <6> QED
            BY <3>6, <5>1, <6>1
        <5>3. CASE i = q
          <6>1. new[i] = m /\ j - 1 >= q
            BY <3>5, <4>3, <5>3
          <6> QED
            BY <3>9, <5>1, <6>1
        <5>4. CASE i > q
          <6>1. i - 1 \in 1..m - 1 /\ new[i] = old[i - 1] /\ i - 1 < j - 1
            BY <3>5, <3>11, <5>4
          <6> QED
            BY <3>6, <5>1, <6>1
        <5> QED
          BY <3>5, <5>2, <5>3, <5>4
      <4> QED
        BY <3>5, <4>1, <4>2, <4>3
    <3>12. new \in [1..m -> 1..m]
      BY <3>10
    <3>13. Ordered(new, m)
      BY <3>11, <3>12
    <3> QED
      BY <2>3, <3>13
  <2> QED
    BY <2>4, <2>5
<1>2. n \in 0..n
  OBVIOUS
<1>3. PICK keys : Ordered(keys, n)
  BY <1>1, <1>2
<1> QED
  BY <1>3

(* What is on a curve: a bid of a bidder or of the auction itself.         *)
Quotes == [from : Bidders \union {None}, price : Posted, quantity : Nat]
Falling(s) == s \in Seq(Quotes) /\ \A i, j \in DOMAIN s : i < j => s[i].price >= s[j].price
Rising(s)  == s \in Seq(Quotes) /\ \A i, j \in DOMAIN s : i < j => s[i].price <= s[j].price

LEMMA QuotesAre ==
    ASSUME NEW s \in Seq(Quotes)
    PROVE  /\ Len(s) \in Nat /\ DOMAIN s = 1..Len(s) /\ IsFiniteSet(DOMAIN s)
           /\ \A k \in DOMAIN s : s[k] \in Quotes /\ s[k].price \in Int /\ s[k].price <= pricecap
                                  /\ s[k].quantity \in Nat
<1>1. Len(s) \in Nat /\ DOMAIN s = 1..Len(s) /\ \A k \in 1..Len(s) : s[k] \in Quotes
  BY LenProperties, ElementOfSeq
<1>2. IsFiniteSet(1..Len(s))
  BY <1>1, FS_Interval
<1>3. \A x \in Quotes : x.price \in Int /\ x.price <= pricecap /\ x.quantity \in Nat
  BY DEF Quotes, Posted
<1> QED
  BY <1>1, <1>2, <1>3

LEMMA KeysAreOrdered ==
    ASSUME NEW s \in Seq(Quotes), NEW order,
           \A x, y \in DOMAIN s : x # y => <<x, y>> \in order \/ <<y, x>> \in order,
           \A x, y, z \in DOMAIN s : <<x, y>> \in order /\ <<y, z>> \in order => <<x, z>> \in order
    PROVE  /\ Keys(s, order) \in [DOMAIN s -> DOMAIN s]
           /\ \A i, j \in DOMAIN s : i < j => <<Keys(s, order)[i], Keys(s, order)[j]>> \in order
<1>1. DOMAIN s = 1..Len(s) /\ Len(s) \in Nat
  BY QuotesAre
<1>2. \E keys \in [DOMAIN s -> DOMAIN s] : \A i, j \in DOMAIN s : i < j => <<keys[i], keys[j]>> \in order
  BY <1>1, OrderExists
<1> QED
  BY <1>2 DEF Keys

LEMMA Permuted ==
    ASSUME NEW s \in Seq(Quotes), NEW keys \in [DOMAIN s -> DOMAIN s]
    PROVE  LET t == [k \in DOMAIN s |-> s[keys[k]]]
           IN  t \in Seq(Quotes) /\ DOMAIN t = DOMAIN s /\ Len(t) = Len(s)
<1> DEFINE t == [k \in DOMAIN s |-> s[keys[k]]]
           n == Len(s)
<1>1. n \in Nat /\ DOMAIN s = 1..n /\ \A k \in DOMAIN s : s[k] \in Quotes
  BY QuotesAre
<1>2. t \in [1..n -> Quotes]
  BY <1>1
<1> HIDE DEF t
<1>3. t \in Seq(Quotes)
  BY <1>1, <1>2, SeqDef
<1>4. DOMAIN t = 1..n /\ Len(t) \in Nat /\ DOMAIN t = 1..Len(t)
  BY <1>2, <1>3, LenProperties
<1>5. Len(t) = n
  BY <1>1, <1>4
<1> QED
  BY <1>1, <1>3, <1>4, <1>5 DEF t

(* The same bids, in another order.                                        *)
Reordered(s, keys) == [k \in DOMAIN s |-> s[keys[k]]]
Arranged(t, s) ==
    \E keys \in [DOMAIN s -> DOMAIN s] :
      /\ \A i, j \in DOMAIN s : keys[i] = keys[j] => i = j
      /\ \A k \in DOMAIN s : \E i \in DOMAIN s : keys[i] = k
      /\ t = [k \in DOMAIN s |-> s[keys[k]]]

LEMMA Arranges ==
    ASSUME NEW s \in Seq(Quotes), NEW order, NEW keys \in [DOMAIN s -> DOMAIN s],
           \A i, j \in DOMAIN s : i < j => <<keys[i], keys[j]>> \in order,
           \A x \in DOMAIN s : <<x, x>> \notin order
    PROVE  Arranged(Reordered(s, keys), s)
<1> DEFINE D == DOMAIN s
<1>1. IsFiniteSet(D) /\ \A x \in D : x \in Int
  BY QuotesAre
<1>2. ASSUME NEW i \in D, NEW j \in D, keys[i] = keys[j] PROVE i = j
  <2>1. <<keys[i], keys[j]>> \notin order /\ <<keys[j], keys[i]>> \notin order
    BY <1>2
  <2>2. ~(i < j) /\ ~(j < i)
    BY <2>1
  <2> QED
    BY <1>1, <2>2
<1>3. keys \in Injection(D, D)
  BY <1>2 DEF Injection, IsInjective
<1>4. keys \in Surjection(D, D)
  BY <1>1, <1>3, FS_Injection
<1>5. \A k \in D : \E i \in D : keys[i] = k
  BY <1>4 DEF Surjection
<1> QED
  BY <1>2, <1>5 DEF Arranged, Reordered

LEMMA AsksFall ==
    ASSUME NEW s \in Seq(Quotes)
    PROVE  Falling(SortedAsks(s)) /\ Arranged(SortedAsks(s), s)
<1> DEFINE order == Descending(s)
           keys == Keys(s, order)
           t == [k \in DOMAIN s |-> s[keys[k]]]
<1>1. \A k \in DOMAIN s : s[k].price \in Int /\ k \in Int
  BY QuotesAre
<1>2. \A x, y \in DOMAIN s : <<x, y>> \in order <=> s[x].price > s[y].price \/ (s[x].price = s[y].price /\ x < y)
  <2> SUFFICES ASSUME NEW x \in DOMAIN s, NEW y \in DOMAIN s
               PROVE  <<x, y>> \in order <=> s[x].price > s[y].price \/ (s[x].price = s[y].price /\ x < y)
    OBVIOUS
  <2> DEFINE p == <<x, y>>
  <2>1. p \in (DOMAIN s) \X (DOMAIN s) /\ p[1] = x /\ p[2] = y
    OBVIOUS
  <2> HIDE DEF p
  <2>2. p \in order <=> s[x].price > s[y].price \/ (s[x].price = s[y].price /\ x < y)
    BY <2>1 DEF Descending
  <2> QED
    BY <2>2 DEF p
<1> HIDE DEF order
<1>3. ASSUME NEW x \in DOMAIN s, NEW y \in DOMAIN s, x # y PROVE <<x, y>> \in order \/ <<y, x>> \in order
  <2>1. x \in Int /\ y \in Int /\ s[x].price \in Int /\ s[y].price \in Int
    BY <1>1
  <2>2. s[x].price > s[y].price \/ s[x].price < s[y].price \/ (s[x].price = s[y].price /\ (x < y \/ x > y))
    BY <1>3, <2>1
  <2> QED
    BY <1>2, <2>1, <2>2
<1>4. ASSUME NEW x \in DOMAIN s, NEW y \in DOMAIN s, NEW z \in DOMAIN s, <<x, y>> \in order, <<y, z>> \in order
      PROVE  <<x, z>> \in order
  BY <1>1, <1>2, <1>4
<1>5. keys \in [DOMAIN s -> DOMAIN s] /\ \A i, j \in DOMAIN s : i < j => <<keys[i], keys[j]>> \in order
  BY <1>3, <1>4, KeysAreOrdered
<1> HIDE DEF keys
<1>6. Arranged(t, s)
  <2>1. \A x \in DOMAIN s : <<x, x>> \notin order
    BY <1>1, <1>2
  <2>2. Arranged(Reordered(s, keys), s)
    BY <1>5, <2>1, Arranges
  <2> QED
    BY <2>2 DEF Reordered
<1>7. t \in Seq(Quotes) /\ DOMAIN t = DOMAIN s /\ Len(t) = Len(s)
  BY <1>5, Permuted
<1>8. \A i, j \in DOMAIN s : i < j => t[i].price >= t[j].price
  <2> SUFFICES ASSUME NEW i \in DOMAIN s, NEW j \in DOMAIN s, i < j PROVE s[keys[i]].price >= s[keys[j]].price
    OBVIOUS
  <2>1. keys[i] \in DOMAIN s /\ keys[j] \in DOMAIN s /\ <<keys[i], keys[j]>> \in order
    BY <1>5
  <2> QED
    BY <1>1, <1>2, <2>1
<1>9. SortedAsks(s) = t
  BY DEF SortedAsks, keys, order
<1> HIDE DEF t
<1> QED
  BY <1>6, <1>7, <1>8, <1>9 DEF Falling

LEMMA OffersRise ==
    ASSUME NEW s \in Seq(Quotes)
    PROVE  Rising(SortedOffers(s)) /\ Arranged(SortedOffers(s), s)
<1> DEFINE order == Ascending(s)
           keys == Keys(s, order)
           t == [k \in DOMAIN s |-> s[keys[k]]]
<1>1. \A k \in DOMAIN s : s[k].price \in Int /\ k \in Int
  BY QuotesAre
<1>2. \A x, y \in DOMAIN s : <<x, y>> \in order <=> s[x].price < s[y].price \/ (s[x].price = s[y].price /\ x > y)
  <2> SUFFICES ASSUME NEW x \in DOMAIN s, NEW y \in DOMAIN s
               PROVE  <<x, y>> \in order <=> s[x].price < s[y].price \/ (s[x].price = s[y].price /\ x > y)
    OBVIOUS
  <2> DEFINE p == <<x, y>>
  <2>1. p \in (DOMAIN s) \X (DOMAIN s) /\ p[1] = x /\ p[2] = y
    OBVIOUS
  <2> HIDE DEF p
  <2>2. p \in order <=> s[x].price < s[y].price \/ (s[x].price = s[y].price /\ x > y)
    BY <2>1 DEF Ascending
  <2> QED
    BY <2>2 DEF p
<1> HIDE DEF order
<1>3. ASSUME NEW x \in DOMAIN s, NEW y \in DOMAIN s, x # y PROVE <<x, y>> \in order \/ <<y, x>> \in order
  <2>1. x \in Int /\ y \in Int /\ s[x].price \in Int /\ s[y].price \in Int
    BY <1>1
  <2>2. s[x].price > s[y].price \/ s[x].price < s[y].price \/ (s[x].price = s[y].price /\ (x < y \/ x > y))
    BY <1>3, <2>1
  <2> QED
    BY <1>2, <2>1, <2>2
<1>4. ASSUME NEW x \in DOMAIN s, NEW y \in DOMAIN s, NEW z \in DOMAIN s, <<x, y>> \in order, <<y, z>> \in order
      PROVE  <<x, z>> \in order
  BY <1>1, <1>2, <1>4
<1>5. keys \in [DOMAIN s -> DOMAIN s] /\ \A i, j \in DOMAIN s : i < j => <<keys[i], keys[j]>> \in order
  BY <1>3, <1>4, KeysAreOrdered
<1> HIDE DEF keys
<1>6. Arranged(t, s)
  <2>1. \A x \in DOMAIN s : <<x, x>> \notin order
    BY <1>1, <1>2
  <2>2. Arranged(Reordered(s, keys), s)
    BY <1>5, <2>1, Arranges
  <2> QED
    BY <2>2 DEF Reordered
<1>7. t \in Seq(Quotes) /\ DOMAIN t = DOMAIN s /\ Len(t) = Len(s)
  BY <1>5, Permuted
<1>8. \A i, j \in DOMAIN s : i < j => t[i].price <= t[j].price
  <2> SUFFICES ASSUME NEW i \in DOMAIN s, NEW j \in DOMAIN s, i < j PROVE s[keys[i]].price <= s[keys[j]].price
    OBVIOUS
  <2>1. keys[i] \in DOMAIN s /\ keys[j] \in DOMAIN s /\ <<keys[i], keys[j]>> \in order
    BY <1>5
  <2> QED
    BY <1>1, <1>2, <2>1
<1>9. SortedOffers(s) = t
  BY DEF SortedOffers, keys, order
<1> HIDE DEF t
<1> QED
  BY <1>6, <1>7, <1>8, <1>9 DEF Rising
-----------------------------------------------------------------------------
(* What folds a sequence from the left: a function on the sets of places,  *)
(* the last of which is added to the result for the others.                *)

LEMMA WithoutMax ==
    ASSUME NEW n \in Nat, NEW S \in SUBSET (1..n), S # {}
    PROVE  Max(S) \in S /\ n # 0 /\ S \ {Max(S)} \in SUBSET (1..(n - 1))
<1>1. IsFiniteSet(S) /\ S \in SUBSET Nat
  <2>1. IsFiniteSet(1..n)
    BY FS_Interval
  <2>2. IsFiniteSet(S)
    BY <2>1, FS_Subset
  <2>3. 1..n \subseteq Nat
    OBVIOUS
  <2> QED
    BY <2>2, <2>3
<1>2. Max(S) \in S /\ \A y \in S : y <= Max(S)
  BY <1>1, Largest
<1>3. ASSUME NEW y \in S, y # Max(S) PROVE y \in 1..(n - 1)
  <2>1. y \in 1..n /\ Max(S) \in 1..n /\ y <= Max(S)
    BY <1>2
  <2> QED
    BY <1>3, <2>1
<1>4. n # 0
  <2>1. Max(S) \in 1..n
    BY <1>2
  <2> QED
    BY <2>1
<1> QED
  BY <1>2, <1>3, <1>4

LEMMA MaxOfFirst ==
    ASSUME NEW k \in Nat
    PROVE  Max(1..k + 1) = k + 1 /\ (1..k + 1) \ {k + 1} = 1..k /\ 1..k + 1 # {}
<1>1. 1..k + 1 # {} /\ (1..k + 1) \ {k + 1} = 1..k /\ k + 1 \in 1..k + 1 /\ 1..k + 1 \in SUBSET Nat
  OBVIOUS
<1>2. Max(1..k + 1) \in 1..k + 1 /\ \A y \in 1..k + 1 : y <= Max(1..k + 1)
  <2>1. IsFiniteSet(1..k + 1)
    BY FS_Interval
  <2> QED
    BY <1>1, <2>1, Largest
<1>3. Max(1..k + 1) = k + 1
  BY <1>1, <1>2
<1> QED
  BY <1>1, <1>3

Folded(f, op, base, S) == IF S = {} THEN base ELSE op[<<f[S \ {Max(S)}], Max(S)>>]
Folds(f, op, base, len) == \A S \in SUBSET (1..len) : f[S] = Folded(f, op, base, S)

LEMMA FoldExists ==
    ASSUME NEW W, NEW base \in W, NEW len \in Nat, NEW op \in [W \X (1..len) -> W]
    PROVE  \E f \in [SUBSET (1..len) -> W] : Folds(f, op, base, len)
<1> DEFINE Upto(f, n) == \A S \in SUBSET (1..n) : f[S] = Folded(f, op, base, S)
           X == {n \in 0..len : ~\E f \in [SUBSET (1..len) -> W] : Upto(f, n)}
<1>1. ASSUME X # {} PROVE FALSE
  <2>0. X \in SUBSET Nat
    OBVIOUS
  <2>1. PICK n \in X : \A m \in X : n <= m
    BY <1>1, <2>0, LeastNumber
  <2>2. n \in 0..len /\ ~\E f \in [SUBSET (1..len) -> W] : Upto(f, n)
    BY <2>1
  <2>3. CASE n = 0
    <3> DEFINE f == [S \in SUBSET (1..len) |-> base]
    <3>1. 1..0 = {}
      OBVIOUS
    <3>2. Upto(f, n)
      BY <2>3, <3>1 DEF Folded
    <3>3. f \in [SUBSET (1..len) -> W]
      OBVIOUS
    <3> QED
      BY <2>2, <3>2, <3>3
  <2>4. CASE n # 0
    <3>1. n - 1 \in 0..len /\ n - 1 \notin X
      <4>1. n - 1 \in 0..len /\ ~(n <= n - 1)
        BY <2>2, <2>4
      <4> QED
        BY <2>1, <4>1
    <3>2. PICK g \in [SUBSET (1..len) -> W] : Upto(g, n - 1)
      BY <3>1
    <3> DEFINE f == [S \in SUBSET (1..len) |-> Folded(g, op, base, S)]
    <3>3. ASSUME NEW S \in SUBSET (1..n) PROVE f[S] = Folded(f, op, base, S)
      <4>1. S \in SUBSET (1..len)
        BY <2>2
      <4>2. f[S] = Folded(g, op, base, S)
        BY <4>1
      <4>3. CASE S = {}
        BY <4>2, <4>3 DEF Folded
      <4>4. CASE S # {}
        <5> DEFINE R == S \ {Max(S)}
        <5>1. R \in SUBSET (1..(n - 1))
          BY <2>2, <4>4, WithoutMax
        <5>2. R \in SUBSET (1..len)
          BY <4>1
        <5>3. f[R] = g[R]
          BY <3>2, <5>1, <5>2
        <5> QED
          BY <4>2, <4>4, <5>3 DEF Folded
      <4> QED
        BY <4>3, <4>4
    <3>4. ASSUME NEW S \in SUBSET (1..len) PROVE Folded(g, op, base, S) \in W
      <4>1. CASE S = {}
        BY <4>1 DEF Folded
      <4>2. CASE S # {}
        <5>1. Max(S) \in 1..len /\ S \ {Max(S)} \in SUBSET (1..len)
          BY <4>2, WithoutMax
        <5>2. <<g[S \ {Max(S)}], Max(S)>> \in W \X (1..len)
          BY <3>2, <5>1
        <5> QED
          BY <4>2, <5>2 DEF Folded
      <4> QED
        BY <4>1, <4>2
    <3>5. f \in [SUBSET (1..len) -> W]
      BY <3>4
    <3> QED
      BY <2>2, <3>3, <3>5
  <2> QED
    BY <2>3, <2>4
<1>2. len \in 0..len
  OBVIOUS
<1> QED
  BY <1>1, <1>2 DEF Folds
-----------------------------------------------------------------------------
(* The walk along the two curves, d of demand and s of supply.             *)

Walk(d, s) ==
    [i : 0..Len(d), j : 0..Len(s), demand : Nat, supply : Nat, quantity : Nat, a : Int, b : Int,
     check : BOOLEAN, type : {"NULL", "BUYER", "SELLER"}]
Unmatched == [i |-> 0, j |-> 0, demand |-> 0, supply |-> 0, quantity |-> 0,
              a |-> pricecap, b |-> -pricecap, check |-> FALSE, type |-> "NULL"]
Walked(m, d, s) == IF Crossed(m, d, s) THEN Step(m, d, s) ELSE m

(* One step: a bid of the side that runs out, or of both.                  *)
LEMMA StepIs ==
    ASSUME NEW d \in Seq(Quotes), NEW s \in Seq(Quotes), NEW m \in Walk(d, s), Crossed(m, d, s)
    PROVE  LET buy  == d[m.i + 1]
               sell == s[m.j + 1]
               n    == Step(m, d, s)
           IN  /\ n \in Walk(d, s)
               /\ m.i < Len(d) /\ m.j < Len(s) /\ buy.price >= sell.price
               /\ buy.price \in Int /\ sell.price \in Int /\ buy.quantity \in Nat /\ sell.quantity \in Nat
               /\ \/ /\ m.demand + buy.quantity > m.supply + sell.quantity
                     /\ n.i = m.i /\ n.j = m.j + 1 /\ n.demand = m.demand
                     /\ n.supply = m.supply + sell.quantity /\ n.quantity = m.supply + sell.quantity
                     /\ n.a = buy.price /\ n.b = buy.price /\ n.check = FALSE /\ n.type = "BUYER"
                  \/ /\ m.demand + buy.quantity < m.supply + sell.quantity
                     /\ n.i = m.i + 1 /\ n.j = m.j /\ n.supply = m.supply
                     /\ n.demand = m.demand + buy.quantity /\ n.quantity = m.demand + buy.quantity
                     /\ n.a = sell.price /\ n.b = sell.price /\ n.check = FALSE /\ n.type = "SELLER"
                  \/ /\ m.demand + buy.quantity = m.supply + sell.quantity
                     /\ n.i = m.i + 1 /\ n.j = m.j + 1
                     /\ n.demand = m.demand + buy.quantity /\ n.supply = m.supply + sell.quantity
                     /\ n.quantity = m.demand + buy.quantity
                     /\ n.a = buy.price /\ n.b = sell.price /\ n.check = TRUE /\ n.type = m.type
<1> DEFINE buy  == d[m.i + 1]
           sell == s[m.j + 1]
           n    == Step(m, d, s)
           x    == m.demand + buy.quantity
           y    == m.supply + sell.quantity
<1>1. /\ m.i \in 0..Len(d) /\ m.j \in 0..Len(s) /\ m.demand \in Nat /\ m.supply \in Nat
      /\ Len(d) \in Nat /\ Len(s) \in Nat
      /\ m = [i |-> m.i, j |-> m.j, demand |-> m.demand, supply |-> m.supply, quantity |-> m.quantity,
              a |-> m.a, b |-> m.b, check |-> m.check, type |-> m.type]
      /\ m.quantity \in Nat /\ m.check \in BOOLEAN /\ m.type \in {"NULL", "BUYER", "SELLER"} /\ m.a \in Int /\ m.b \in Int
  BY QuotesAre DEF Walk
<1>2. m.i < Len(d) /\ m.j < Len(s) /\ buy.price >= sell.price
  BY DEF Crossed
<1>3. m.i + 1 \in DOMAIN d /\ m.j + 1 \in DOMAIN s
  BY <1>1, <1>2, QuotesAre
<1>4. buy.price \in Int /\ sell.price \in Int /\ buy.quantity \in Nat /\ sell.quantity \in Nat
  BY <1>3, QuotesAre
<1>5. x \in Nat /\ y \in Nat /\ m.i + 1 \in 0..Len(d) /\ m.j + 1 \in 0..Len(s)
  <2>1. m.i + 1 \in 0..Len(d) /\ m.j + 1 \in 0..Len(s)
    BY <1>1, <1>2
  <2>2. m.demand \in Nat /\ m.supply \in Nat
    BY <1>1
  <2> HIDE DEF buy, sell
  <2> QED
    BY <1>4, <2>1, <2>2
<1>6. n = CASE x > y -> [m EXCEPT !.quantity = y, !.supply = y, !.j = @ + 1,
                                  !.a = buy.price, !.b = buy.price, !.check = FALSE, !.type = "BUYER"]
            [] x < y -> [m EXCEPT !.quantity = x, !.demand = x, !.i = @ + 1,
                                  !.a = sell.price, !.b = sell.price, !.check = FALSE, !.type = "SELLER"]
            [] OTHER -> [m EXCEPT !.quantity = x, !.demand = x, !.supply = x, !.i = @ + 1, !.j = @ + 1,
                                  !.a = buy.price, !.b = sell.price, !.check = TRUE]
  BY DEF Step
<1> HIDE DEF buy, sell, n, x, y
<1>7. CASE x > y
  <2>1. n = [m EXCEPT !.quantity = y, !.supply = y, !.j = @ + 1,
                      !.a = buy.price, !.b = buy.price, !.check = FALSE, !.type = "BUYER"]
    BY <1>5, <1>6, <1>7
  <2>2. n = [i |-> m.i, j |-> m.j + 1, demand |-> m.demand, supply |-> y, quantity |-> y,
             a |-> buy.price, b |-> buy.price, check |-> FALSE, type |-> "BUYER"]
    BY <1>1, <2>1
  <2>3. n \in Walk(d, s)
    BY <1>1, <1>4, <1>5, <2>2 DEF Walk
  <2> QED
    BY <1>2, <1>4, <1>7, <2>2, <2>3 DEF buy, sell, n, x, y
<1>8. CASE x < y
  <2>1. n = [m EXCEPT !.quantity = x, !.demand = x, !.i = @ + 1,
                      !.a = sell.price, !.b = sell.price, !.check = FALSE, !.type = "SELLER"]
    BY <1>5, <1>6, <1>8
  <2>2. n = [i |-> m.i + 1, j |-> m.j, demand |-> x, supply |-> m.supply, quantity |-> x,
             a |-> sell.price, b |-> sell.price, check |-> FALSE, type |-> "SELLER"]
    BY <1>1, <2>1
  <2>3. n \in Walk(d, s)
    BY <1>1, <1>4, <1>5, <2>2 DEF Walk
  <2> QED
    BY <1>2, <1>4, <1>8, <2>2, <2>3 DEF buy, sell, n, x, y
<1>9. CASE x = y
  <2>1. n = [m EXCEPT !.quantity = x, !.demand = x, !.supply = x, !.i = @ + 1, !.j = @ + 1,
                      !.a = buy.price, !.b = sell.price, !.check = TRUE]
    BY <1>5, <1>6, <1>9
  <2>2. n = [i |-> m.i + 1, j |-> m.j + 1, demand |-> x, supply |-> x, quantity |-> x,
             a |-> buy.price, b |-> sell.price, check |-> TRUE, type |-> m.type]
    BY <1>1, <2>1
  <2>3. n \in Walk(d, s)
    BY <1>1, <1>4, <1>5, <2>2 DEF Walk
  <2> QED
    BY <1>2, <1>4, <1>9, <2>2, <2>3 DEF buy, sell, n, x, y
<1>10. x > y \/ x < y \/ x = y
  BY <1>5
<1> QED
  BY <1>7, <1>8, <1>9, <1>10

(* The walk, one step after the other: it steps while the curves cross, or *)
(* stays where it is.                                                      *)
LEMMA MatchIs ==
    ASSUME NEW d \in Seq(Quotes), NEW s \in Seq(Quotes)
    PROVE  \E walk : /\ walk[0] = Unmatched
                     /\ \A k \in 0..Len(d) + Len(s) - 1 : walk[k + 1] = Walked(walk[k], d, s)
                     /\ Match(d, s) = walk[Len(d) + Len(s)]
<1> DEFINE len == Len(d) + Len(s)
           W == Walk(d, s)
           Grown(f, S) == IF S = {} THEN Unmatched ELSE Walked(f[S \ {Max(S)}], d, s)
           Grows(f) == f = [S \in SUBSET (1..len) |-> Grown(f, S)]
           op == [p \in W \X (1..len) |-> Walked(p[1], d, s)]
<1>1. Len(d) \in Nat /\ Len(s) \in Nat /\ len \in Nat
  BY QuotesAre
<1>2. DOMAIN Indices(d \o s) = 1..len
  <2>1. Len(d \o s) = len /\ d \o s \in Seq(Quotes)
    BY ConcatProperties
  <2>2. DOMAIN (d \o s) = 1..len
    BY <2>1, LenProperties
  <2> QED
    BY <2>2 DEF Indices
<1>3. Unmatched \in W
  <2>1. pricecap \in Int /\ -pricecap \in Int /\ 0 \in 0..Len(d) /\ 0 \in 0..Len(s)
    BY <1>1, PriceAssumption
  <2> QED
    BY <2>1 DEF Unmatched, Walk
<1>4. ASSUME NEW m \in W PROVE Walked(m, d, s) \in W
  BY <1>4, StepIs DEF Walked
<1>5. \E f : Grows(f)
  <2>1. op \in [W \X (1..len) -> W]
    BY <1>4
  <2>2. \A m \in W, k \in 1..len : op[<<m, k>>] = Walked(m, d, s)
    OBVIOUS
  <2> HIDE DEF op, W, len
  <2>6. PICK f \in [SUBSET (1..len) -> W] : Folds(f, op, Unmatched, len)
    BY <1>1, <1>3, <2>1, FoldExists
  <2>3. f \in [SUBSET (1..len) -> W] /\ \A S \in SUBSET (1..len) : f[S] = Folded(f, op, Unmatched, S)
    BY <2>6 DEF Folds
  <2>4. ASSUME NEW S \in SUBSET (1..len) PROVE f[S] = Grown(f, S)
    <3>1. CASE S = {}
      BY <2>3, <3>1 DEF Folded
    <3>2. CASE S # {}
      <4>1. Max(S) \in 1..len /\ S \ {Max(S)} \in SUBSET (1..len)
        BY <1>1, <3>2, WithoutMax
      <4>2. f[S \ {Max(S)}] \in W
        BY <2>3, <4>1
      <4> QED
        BY <2>2, <2>3, <3>2, <4>1, <4>2 DEF Folded
    <3> QED
      BY <3>1, <3>2
  <2>5. f = [S \in SUBSET (1..len) |-> f[S]]
    BY <2>3
  <2> QED
    BY <2>4, <2>5
<1> DEFINE f == CHOOSE f : Grows(f)
<1>6. Grows(f)
  BY <1>5
<1>7. Match(d, s) = f[1..len]
  BY <1>2 DEF Match, FoldLeft, MapThenFoldSet, Walked, Unmatched
<1> HIDE DEF f
<1> DEFINE walk == [k \in 0..len |-> f[1..k]]
<1>8. \A S \in SUBSET (1..len) : f[S] = Grown(f, S)
  BY <1>6
<1>9. walk[0] = Unmatched
  <2>1. 0 \in 0..len /\ 1..0 = {} /\ {} \in SUBSET (1..len)
    BY <1>1
  <2> QED
    BY <1>8, <2>1
<1>10. ASSUME NEW k \in 0..len - 1 PROVE walk[k + 1] = Walked(walk[k], d, s)
  <2> HIDE DEF len
  <2>1. k \in Nat /\ k \in 0..len /\ k + 1 \in 0..len /\ 1..k + 1 \in SUBSET (1..len)
    BY <1>1
  <2>2. Max(1..k + 1) = k + 1 /\ (1..k + 1) \ {k + 1} = 1..k /\ 1..k + 1 # {}
    BY <2>1, MaxOfFirst
  <2>3. f[1..k + 1] = Walked(f[1..k], d, s)
    BY <1>8, <2>1, <2>2
  <2> QED
    BY <2>1, <2>3
<1>11. walk[len] = Match(d, s)
  BY <1>1, <1>7
<1> HIDE DEF walk
<1> QED
  BY <1>9, <1>10, <1>11
-----------------------------------------------------------------------------
(* The bids that a walk is done with add up.                               *)

Taken(s, i)   == Quantity(s, 1..i)
Asked(d, p)   == Quantity(d, Above(d, p) \union At(d, p))
Offered(s, p) == Quantity(s, Below(s, p) \union At(s, p))

LEMMA Within ==
    ASSUME NEW s \in Seq(Quotes), NEW S \in SUBSET DOMAIN s
    PROVE  /\ Quantity(s, S) \in Nat
           /\ \A T \in SUBSET S : Quantity(s, T) <= Quantity(s, S)
           /\ \A i \in 0..Len(s) : /\ 1..i \in SUBSET DOMAIN s
                                   /\ S \subseteq 1..i => Quantity(s, S) <= Taken(s, i)
                                   /\ 1..i \subseteq S => Taken(s, i) <= Quantity(s, S)
<1> DEFINE D == DOMAIN s
<1>1. IsFiniteSet(D) /\ (\A k \in D : s[k].quantity \in Nat) /\ D = 1..Len(s) /\ Len(s) \in Nat /\ S \in SUBSET D
  BY QuotesAre
<1> HIDE DEF D
<1>2. Quantity(s, S) \in Nat
  BY <1>1, QuantityOne
<1>3. \A U, T \in SUBSET D : T \in SUBSET U => Quantity(s, T) <= Quantity(s, U)
  BY <1>1, QuantityGrows
<1>4. ASSUME NEW i \in 0..Len(s) PROVE 1..i \in SUBSET D
  BY <1>1
<1>5. \A T \in SUBSET S : T \in SUBSET D
  BY <1>1
<1> QED
  BY <1>1, <1>2, <1>3, <1>4, <1>5 DEF Taken, D

LEMMA TakenIs ==
    ASSUME NEW s \in Seq(Quotes)
    PROVE  /\ Taken(s, 0) = 0
           /\ \A i \in 0..Len(s) : Taken(s, i) \in Nat
           /\ \A i \in 0..Len(s) - 1 : Taken(s, i + 1) = Taken(s, i) + s[i + 1].quantity
           /\ \A i \in 0..Len(s) - 1 : Taken(s, i) <= Taken(s, i + 1)
<1>1. IsFiniteSet(DOMAIN s) /\ (\A k \in DOMAIN s : s[k].quantity \in Nat) /\ DOMAIN s = 1..Len(s) /\ Len(s) \in Nat
  BY QuotesAre
<1>2. /\ Quantity(s, {}) = 0
      /\ \A S \in SUBSET DOMAIN s : Quantity(s, S) \in Nat
      /\ \A S \in SUBSET DOMAIN s : \A k \in S : Quantity(s, S) = s[k].quantity + Quantity(s, S \ {k})
  BY <1>1, QuantityOne
<1>3. Taken(s, 0) = 0
  <2>1. 1..0 = {}
    OBVIOUS
  <2> QED
    BY <1>2, <2>1 DEF Taken
<1>4. ASSUME NEW i \in 0..Len(s) PROVE Taken(s, i) \in Nat
  <2>1. 1..i \in SUBSET DOMAIN s
    BY <1>1
  <2> QED
    BY <1>2, <2>1 DEF Taken
<1>5. ASSUME NEW i \in 0..Len(s) - 1 PROVE Taken(s, i + 1) = Taken(s, i) + s[i + 1].quantity
  <2>1. 1..i + 1 \in SUBSET DOMAIN s /\ i + 1 \in 1..i + 1 /\ (1..i + 1) \ {i + 1} = 1..i
    BY <1>1
  <2>2. Taken(s, i + 1) = s[i + 1].quantity + Taken(s, i)
    BY <1>2, <2>1 DEF Taken
  <2>3. s[i + 1].quantity \in Nat /\ Taken(s, i) \in Nat
    BY <1>1, <1>4, <2>1
  <2> QED
    BY <2>2, <2>3
<1>6. ASSUME NEW i \in 0..Len(s) - 1 PROVE Taken(s, i) <= Taken(s, i + 1)
  <2>1. i \in 0..Len(s) /\ i + 1 \in DOMAIN s
    BY <1>1
  <2>2. Taken(s, i) \in Nat /\ s[i + 1].quantity \in Nat
    BY <1>1, <1>4, <2>1
  <2> QED
    BY <1>5, <2>2
<1> QED
  BY <1>3, <1>4, <1>5, <1>6

(* What is asked for at a price, and above it, against the places of the   *)
(* bids.                                                                   *)
LEMMA AskedIs ==
    ASSUME NEW d, Falling(d), NEW p \in Int
    PROVE  /\ Asked(d, p) \in Nat /\ Quantity(d, Above(d, p)) \in Nat /\ Quantity(d, At(d, p)) \in Nat
           /\ Asked(d, p) = Quantity(d, Above(d, p)) + Quantity(d, At(d, p))
           /\ Asked(d, p) <= Taken(d, Len(d))
           /\ \A q \in Int : q >= p => Quantity(d, At(d, q)) \in Nat /\ Quantity(d, At(d, q)) <= Asked(d, p)
           /\ \A i \in DOMAIN d : /\ p <= d[i].price => Taken(d, i) <= Asked(d, p)
                                  /\ p > d[i].price => Asked(d, p) <= Taken(d, i - 1)
                                  /\ p >= d[i].price => Quantity(d, Above(d, p)) <= Taken(d, i - 1)
                                  /\ p = d[i].price => d[i].quantity <= Quantity(d, At(d, p))
<1> DEFINE S == Above(d, p)
           T == At(d, p)
           U == S \union T
<1>1. d \in Seq(Quotes) /\ DOMAIN d = 1..Len(d) /\ Len(d) \in Nat /\ IsFiniteSet(DOMAIN d)
      /\ (\A k \in DOMAIN d : d[k].price \in Int /\ d[k].quantity \in Nat)
  BY QuotesAre DEF Falling
<1>2. S \in SUBSET DOMAIN d /\ T \in SUBSET DOMAIN d /\ U \in SUBSET DOMAIN d /\ S \intersect T = {}
  BY <1>1 DEF Above, At
<1>3. /\ \A k \in DOMAIN d : k \in S <=> d[k].price > p
      /\ \A k \in DOMAIN d : k \in T <=> d[k].price = p
      /\ \A k \in DOMAIN d : k \in U <=> d[k].price >= p
  BY <1>1 DEF Above, At
<1>4. \A i, j \in DOMAIN d : i < j => d[i].price >= d[j].price
  BY DEF Falling
<1> HIDE DEF S, T, U
<1>5. Quantity(d, S) \in Nat /\ Quantity(d, T) \in Nat /\ Quantity(d, U) \in Nat
  BY <1>1, <1>2, Within
<1>6. Quantity(d, U) = Quantity(d, S) + Quantity(d, T)
  BY <1>1, <1>2, QuantitiesAdd DEF U
<1>7. Quantity(d, U) <= Taken(d, Len(d))
  <2>1. Len(d) \in 0..Len(d) /\ U \subseteq 1..Len(d)
    BY <1>1, <1>2
  <2> QED
    BY <1>1, <1>2, <2>1, Within
<1>8. ASSUME NEW i \in DOMAIN d
      PROVE  /\ p <= d[i].price => Taken(d, i) <= Quantity(d, U)
             /\ p > d[i].price => Quantity(d, U) <= Taken(d, i - 1)
             /\ p >= d[i].price => Quantity(d, S) <= Taken(d, i - 1)
             /\ p = d[i].price => d[i].quantity <= Quantity(d, T)
  <2>1. i \in 0..Len(d) /\ i - 1 \in 0..Len(d) /\ d[i].price \in Int
    BY <1>1
  <2>2. ASSUME p <= d[i].price, NEW k \in 1..i PROVE k \in U
    <3>1. k \in DOMAIN d /\ d[k].price \in Int /\ (k = i \/ k < i)
      BY <1>1, <2>1
    <3>2. d[k].price >= d[i].price
      BY <1>4, <2>1, <3>1
    <3>3. d[k].price >= p
      BY <2>1, <2>2, <3>1, <3>2
    <3> QED
      BY <1>3, <3>1, <3>3
  <2>3. ASSUME p >= d[i].price, NEW k \in DOMAIN d, d[k].price > p \/ (d[k].price >= p /\ p > d[i].price)
        PROVE  k \in 1..(i - 1)
    <3>1. d[k].price \in Int /\ k \in Int /\ i \in Int /\ k >= 1
      BY <1>1
    <3>2. ~(i < k) /\ i # k
      <4>1. ~(d[i].price >= d[k].price)
        BY <2>1, <2>3, <3>1
      <4> QED
        BY <1>4, <2>1, <4>1, <3>1
    <3> QED
      BY <3>1, <3>2
  <2>4. p <= d[i].price => Taken(d, i) <= Quantity(d, U)
    <3> SUFFICES ASSUME p <= d[i].price PROVE Taken(d, i) <= Quantity(d, U)
      OBVIOUS
    <3>1. 1..i \subseteq U
      BY <2>2
    <3> QED
      BY <1>1, <1>2, <2>1, <3>1, Within
  <2>5. p > d[i].price => Quantity(d, U) <= Taken(d, i - 1)
    <3> SUFFICES ASSUME p > d[i].price PROVE Quantity(d, U) <= Taken(d, i - 1)
      OBVIOUS
    <3>1. p >= d[i].price
      BY <2>1
    <3>2. U \subseteq 1..(i - 1)
      BY <1>2, <1>3, <2>3, <3>1
    <3> QED
      BY <1>1, <1>2, <2>1, <3>2, Within
  <2>6. p >= d[i].price => Quantity(d, S) <= Taken(d, i - 1)
    <3> SUFFICES ASSUME p >= d[i].price PROVE Quantity(d, S) <= Taken(d, i - 1)
      OBVIOUS
    <3>1. S \subseteq 1..(i - 1)
      BY <1>2, <1>3, <2>3
    <3> QED
      BY <1>1, <1>2, <2>1, <3>1, Within
  <2>7. p = d[i].price => d[i].quantity <= Quantity(d, T)
    <3> SUFFICES ASSUME p = d[i].price PROVE d[i].quantity <= Quantity(d, T)
      OBVIOUS
    <3>1. i \in T
      BY <1>3
    <3>2. Quantity(d, T) = d[i].quantity + Quantity(d, T \ {i})
      <4>1. \A V \in SUBSET DOMAIN d : \A k \in V : Quantity(d, V) = d[k].quantity + Quantity(d, V \ {k})
        BY <1>1, QuantityOne
      <4> QED
        BY <1>2, <3>1, <4>1
    <3>3. T \ {i} \in SUBSET DOMAIN d
      BY <1>2
    <3>4. Quantity(d, T \ {i}) \in Nat /\ d[i].quantity \in Nat
      BY <1>1, <3>3, Within
    <3> QED
      BY <1>5, <3>2, <3>4
  <2> QED
    BY <2>4, <2>5, <2>6, <2>7
<1>9. ASSUME NEW q \in Int, q >= p PROVE Quantity(d, At(d, q)) \in Nat /\ Quantity(d, At(d, q)) <= Quantity(d, U)
  <2>1. At(d, q) \in SUBSET U /\ At(d, q) \in SUBSET DOMAIN d
    BY <1>3, <1>9 DEF At
  <2> QED
    BY <1>1, <1>2, <2>1, Within
<1>10. Asked(d, p) = Quantity(d, U) /\ Quantity(d, Above(d, p)) = Quantity(d, S) /\ Quantity(d, At(d, p)) = Quantity(d, T)
  BY DEF Asked, S, T, U
<1> QED
  BY <1>5, <1>6, <1>7, <1>8, <1>9, <1>10

LEMMA OfferedIs ==
    ASSUME NEW s, Rising(s), NEW p \in Int
    PROVE  /\ Offered(s, p) \in Nat /\ Offered(s, p) <= Taken(s, Len(s))
           /\ \A q \in Int : q <= p => Quantity(s, At(s, q)) \in Nat /\ Quantity(s, At(s, q)) <= Offered(s, p)
           /\ \A i \in DOMAIN s : /\ p >= s[i].price => Taken(s, i) <= Offered(s, p)
                                  /\ p < s[i].price => Offered(s, p) <= Taken(s, i - 1)
<1> DEFINE U == Below(s, p) \union At(s, p)
<1>1. s \in Seq(Quotes) /\ DOMAIN s = 1..Len(s) /\ Len(s) \in Nat
      /\ (\A k \in DOMAIN s : s[k].price \in Int /\ s[k].quantity \in Nat)
  BY QuotesAre DEF Rising
<1>2. U \in SUBSET DOMAIN s
  BY DEF Below, At
<1>3. \A k \in DOMAIN s : k \in U <=> s[k].price <= p
  BY <1>1 DEF Below, At
<1>4. \A i, j \in DOMAIN s : i < j => s[i].price <= s[j].price
  BY DEF Rising
<1> HIDE DEF U
<1>5. Quantity(s, U) \in Nat
  BY <1>1, <1>2, Within
<1>6. Quantity(s, U) <= Taken(s, Len(s))
  <2>1. Len(s) \in 0..Len(s) /\ U \subseteq 1..Len(s)
    BY <1>1, <1>2
  <2> QED
    BY <1>1, <1>2, <2>1, Within
<1>7. ASSUME NEW i \in DOMAIN s
      PROVE  /\ p >= s[i].price => Taken(s, i) <= Quantity(s, U)
             /\ p < s[i].price => Quantity(s, U) <= Taken(s, i - 1)
  <2>1. i \in 0..Len(s) /\ i - 1 \in 0..Len(s) /\ s[i].price \in Int
    BY <1>1
  <2>2. ASSUME p >= s[i].price, NEW k \in 1..i PROVE k \in U
    <3>1. k \in DOMAIN s /\ s[k].price \in Int /\ (k = i \/ k < i)
      BY <1>1, <2>1
    <3>2. s[k].price <= s[i].price
      BY <1>4, <2>1, <3>1
    <3>3. s[k].price <= p
      BY <2>1, <2>2, <3>1, <3>2
    <3> QED
      BY <1>3, <3>1, <3>3
  <2>3. ASSUME p < s[i].price, NEW k \in U PROVE k \in 1..(i - 1)
    <3>1. k \in DOMAIN s /\ s[k].price \in Int /\ k \in Int /\ i \in Int /\ k >= 1 /\ s[k].price <= p
      BY <1>1, <1>2, <1>3, <2>3
    <3>2. ~(i < k) /\ i # k
      <4>1. ~(s[i].price <= s[k].price)
        BY <2>1, <2>3, <3>1
      <4> QED
        BY <1>4, <2>1, <4>1, <3>1
    <3> QED
      BY <3>1, <3>2
  <2>4. p >= s[i].price => Taken(s, i) <= Quantity(s, U)
    <3> SUFFICES ASSUME p >= s[i].price PROVE Taken(s, i) <= Quantity(s, U)
      OBVIOUS
    <3>1. 1..i \subseteq U
      BY <2>2
    <3> QED
      BY <1>1, <1>2, <2>1, <3>1, Within
  <2>5. p < s[i].price => Quantity(s, U) <= Taken(s, i - 1)
    <3> SUFFICES ASSUME p < s[i].price PROVE Quantity(s, U) <= Taken(s, i - 1)
      OBVIOUS
    <3>1. U \subseteq 1..(i - 1)
      BY <2>3
    <3> QED
      BY <1>1, <1>2, <2>1, <3>1, Within
  <2> QED
    BY <2>4, <2>5
<1>8. ASSUME NEW q \in Int, q <= p PROVE Quantity(s, At(s, q)) \in Nat /\ Quantity(s, At(s, q)) <= Quantity(s, U)
  <2>1. At(s, q) \in SUBSET U /\ At(s, q) \in SUBSET DOMAIN s
    BY <1>3, <1>8 DEF At
  <2> QED
    BY <1>1, <1>2, <2>1, Within
<1>9. Offered(s, p) = Quantity(s, U)
  BY DEF Offered, U
<1> QED
  BY <1>5, <1>6, <1>7, <1>8, <1>9
-----------------------------------------------------------------------------
(* Where the walk stands: at the start; at the next ask, which is served   *)
(* in part; at the next offer; or between bids, with both sides even.      *)

AtStart(m) == m = Unmatched
AtBuyer(m, d, s) ==
    /\ m.check = FALSE /\ m.type = "BUYER" /\ m.i < Len(d) /\ m.j > 0
    /\ m.a = d[m.i + 1].price /\ m.b = m.a /\ s[m.j].price <= m.a
    /\ m.quantity = Taken(s, m.j) /\ Taken(d, m.i) <= m.quantity /\ m.quantity < Taken(d, m.i + 1)
AtSeller(m, d, s) ==
    /\ m.check = FALSE /\ m.type = "SELLER" /\ m.j < Len(s) /\ m.i > 0
    /\ m.a = s[m.j + 1].price /\ m.b = m.a /\ d[m.i].price >= m.a
    /\ m.quantity = Taken(d, m.i) /\ Taken(s, m.j) <= m.quantity /\ m.quantity < Taken(s, m.j + 1)
AtBoth(m, d, s) ==
    /\ m.check = TRUE /\ m.i > 0 /\ m.j > 0
    /\ m.a = d[m.i].price /\ m.b = s[m.j].price /\ m.a >= m.b
    /\ m.quantity = Taken(d, m.i) /\ m.quantity = Taken(s, m.j)

Stands(m, d, s) ==
    /\ m \in Walk(d, s)
    /\ m.demand = Taken(d, m.i) /\ m.supply = Taken(s, m.j)
    /\ m.i < Len(d) => Taken(s, m.j) <= Taken(d, m.i + 1)
    /\ m.j < Len(s) => Taken(d, m.i) <= Taken(s, m.j + 1)
    /\ AtStart(m) \/ AtBuyer(m, d, s) \/ AtSeller(m, d, s) \/ AtBoth(m, d, s)

LEMMA StepStands ==
    ASSUME NEW d \in Seq(Quotes), NEW s \in Seq(Quotes), NEW m, Stands(m, d, s), Crossed(m, d, s)
    PROVE  LET n == Step(m, d, s)
           IN  Stands(n, d, s) /\ n.i + n.j > m.i + m.j
<1> DEFINE n == Step(m, d, s)
           buy == d[m.i + 1]
           sell == s[m.j + 1]
<1>1. /\ m \in Walk(d, s) /\ m.demand = Taken(d, m.i) /\ m.supply = Taken(s, m.j)
      /\ Taken(s, m.j) <= Taken(d, m.i + 1) /\ Taken(d, m.i) <= Taken(s, m.j + 1)
  BY DEF Stands, Crossed
<1>2. /\ n \in Walk(d, s)
      /\ m.i < Len(d) /\ m.j < Len(s) /\ buy.price >= sell.price
      /\ buy.price \in Int /\ sell.price \in Int /\ buy.quantity \in Nat /\ sell.quantity \in Nat
      /\ \/ /\ m.demand + buy.quantity > m.supply + sell.quantity
            /\ n.i = m.i /\ n.j = m.j + 1 /\ n.demand = m.demand
            /\ n.supply = m.supply + sell.quantity /\ n.quantity = m.supply + sell.quantity
            /\ n.a = buy.price /\ n.b = buy.price /\ n.check = FALSE /\ n.type = "BUYER"
         \/ /\ m.demand + buy.quantity < m.supply + sell.quantity
            /\ n.i = m.i + 1 /\ n.j = m.j /\ n.supply = m.supply
            /\ n.demand = m.demand + buy.quantity /\ n.quantity = m.demand + buy.quantity
            /\ n.a = sell.price /\ n.b = sell.price /\ n.check = FALSE /\ n.type = "SELLER"
         \/ /\ m.demand + buy.quantity = m.supply + sell.quantity
            /\ n.i = m.i + 1 /\ n.j = m.j + 1
            /\ n.demand = m.demand + buy.quantity /\ n.supply = m.supply + sell.quantity
            /\ n.quantity = m.demand + buy.quantity
            /\ n.a = buy.price /\ n.b = sell.price /\ n.check = TRUE /\ n.type = m.type
  BY <1>1, StepIs
<1>3. Len(d) \in Nat /\ Len(s) \in Nat
  BY QuotesAre
<1>4. m.i \in 0..Len(d) - 1 /\ m.j \in 0..Len(s) - 1 /\ m.i \in Nat /\ m.j \in Nat
  <2>1. m.i \in 0..Len(d) /\ m.j \in 0..Len(s)
    BY <1>1 DEF Walk
  <2> QED
    BY <1>2, <1>3, <2>1
<1>5. Taken(d, m.i + 1) = Taken(d, m.i) + buy.quantity /\ Taken(s, m.j + 1) = Taken(s, m.j) + sell.quantity
  BY <1>4, TakenIs
<1>6. m.i \in 0..Len(d) /\ m.i + 1 \in 0..Len(d) /\ m.j \in 0..Len(s) /\ m.j + 1 \in 0..Len(s)
  BY <1>3, <1>4
<1>7. Taken(d, m.i) \in Nat /\ Taken(d, m.i + 1) \in Nat /\ Taken(s, m.j) \in Nat /\ Taken(s, m.j + 1) \in Nat
  BY <1>6, TakenIs
<1>8. m.i + 1 < Len(d) => Taken(d, (m.i + 1) + 1) \in Nat /\ Taken(d, m.i + 1) <= Taken(d, (m.i + 1) + 1)
  <2> SUFFICES ASSUME m.i + 1 < Len(d) PROVE Taken(d, (m.i + 1) + 1) \in Nat /\ Taken(d, m.i + 1) <= Taken(d, (m.i + 1) + 1)
    OBVIOUS
  <2> DEFINE k == m.i + 1
  <2>1. k \in 0..Len(d) - 1 /\ k + 1 \in 0..Len(d)
    BY <1>3, <1>4
  <2> HIDE DEF k
  <2>2. Taken(d, k + 1) \in Nat /\ Taken(d, k) <= Taken(d, k + 1)
    BY <2>1, TakenIs
  <2> QED
    BY <2>2 DEF k
<1>9. m.j + 1 < Len(s) => Taken(s, (m.j + 1) + 1) \in Nat /\ Taken(s, m.j + 1) <= Taken(s, (m.j + 1) + 1)
  <2> SUFFICES ASSUME m.j + 1 < Len(s) PROVE Taken(s, (m.j + 1) + 1) \in Nat /\ Taken(s, m.j + 1) <= Taken(s, (m.j + 1) + 1)
    OBVIOUS
  <2> DEFINE k == m.j + 1
  <2>1. k \in 0..Len(s) - 1 /\ k + 1 \in 0..Len(s)
    BY <1>3, <1>4
  <2> HIDE DEF k
  <2>2. Taken(s, k + 1) \in Nat /\ Taken(s, k) <= Taken(s, k + 1)
    BY <2>1, TakenIs
  <2> QED
    BY <2>2 DEF k
<1> HIDE DEF n
<1>10. CASE m.demand + buy.quantity > m.supply + sell.quantity
  <2>1. n.i = m.i /\ n.j = m.j + 1 /\ n.demand = m.demand
        /\ n.supply = m.supply + sell.quantity /\ n.quantity = m.supply + sell.quantity
        /\ n.a = buy.price /\ n.b = buy.price /\ n.check = FALSE /\ n.type = "BUYER"
    BY <1>1, <1>2, <1>7, <1>10
  <2>2. Taken(d, m.i + 1) > Taken(s, m.j + 1) /\ n.quantity = Taken(s, m.j + 1) /\ n.supply = Taken(s, m.j + 1)
    BY <1>1, <1>5, <1>10, <2>1
  <2> HIDE DEF buy, sell
  <2>3. AtBuyer(n, d, s)
    BY <1>1, <1>2, <1>4, <1>7, <2>1, <2>2 DEF AtBuyer, buy, sell
  <2>4. n.i < Len(d) => Taken(s, n.j) <= Taken(d, n.i + 1)
    BY <1>7, <2>1, <2>2
  <2>5. n.j < Len(s) => Taken(d, n.i) <= Taken(s, n.j + 1)
    BY <1>1, <1>7, <1>9, <2>1
  <2>6. n.demand = Taken(d, n.i) /\ n.supply = Taken(s, n.j)
    BY <1>1, <2>1, <2>2
  <2>7. n.i + n.j > m.i + m.j
    BY <1>4, <2>1
  <2>8. Stands(n, d, s)
    BY <1>2, <2>3, <2>4, <2>5, <2>6 DEF Stands
  <2> QED
    BY <2>7, <2>8 DEF n
<1>11. CASE m.demand + buy.quantity < m.supply + sell.quantity
  <2>1. n.i = m.i + 1 /\ n.j = m.j /\ n.supply = m.supply
        /\ n.demand = m.demand + buy.quantity /\ n.quantity = m.demand + buy.quantity
        /\ n.a = sell.price /\ n.b = sell.price /\ n.check = FALSE /\ n.type = "SELLER"
    BY <1>1, <1>2, <1>7, <1>11
  <2>2. Taken(s, m.j + 1) > Taken(d, m.i + 1) /\ n.quantity = Taken(d, m.i + 1) /\ n.demand = Taken(d, m.i + 1)
    BY <1>1, <1>2, <1>5, <1>7, <1>11, <2>1
  <2> HIDE DEF buy, sell
  <2>3. AtSeller(n, d, s)
    BY <1>1, <1>2, <1>4, <1>7, <2>1, <2>2 DEF AtSeller, buy, sell
  <2>4. n.j < Len(s) => Taken(d, n.i) <= Taken(s, n.j + 1)
    BY <1>7, <2>1, <2>2
  <2>5. n.i < Len(d) => Taken(s, n.j) <= Taken(d, n.i + 1)
    BY <1>1, <1>7, <1>8, <2>1
  <2>6. n.demand = Taken(d, n.i) /\ n.supply = Taken(s, n.j)
    BY <1>1, <2>1, <2>2
  <2>7. n.i + n.j > m.i + m.j
    BY <1>4, <2>1
  <2>8. Stands(n, d, s)
    BY <1>2, <2>3, <2>4, <2>5, <2>6 DEF Stands
  <2> QED
    BY <2>7, <2>8 DEF n
<1>12. CASE m.demand + buy.quantity = m.supply + sell.quantity
  <2>1. n.i = m.i + 1 /\ n.j = m.j + 1
        /\ n.demand = m.demand + buy.quantity /\ n.supply = m.supply + sell.quantity
        /\ n.quantity = m.demand + buy.quantity
        /\ n.a = buy.price /\ n.b = sell.price /\ n.check = TRUE /\ n.type = m.type
    BY <1>1, <1>2, <1>7, <1>12
  <2>2. Taken(s, m.j + 1) = Taken(d, m.i + 1) /\ n.quantity = Taken(d, m.i + 1)
        /\ n.demand = Taken(d, m.i + 1) /\ n.supply = Taken(s, m.j + 1)
    BY <1>1, <1>5, <1>12, <2>1
  <2> HIDE DEF buy, sell
  <2>3. AtBoth(n, d, s)
    BY <1>2, <1>4, <2>1, <2>2 DEF AtBoth, buy, sell
  <2>4. n.j < Len(s) => Taken(d, n.i) <= Taken(s, n.j + 1)
    BY <1>7, <1>9, <2>1, <2>2
  <2>5. n.i < Len(d) => Taken(s, n.j) <= Taken(d, n.i + 1)
    BY <1>7, <1>8, <2>1, <2>2
  <2>6. n.demand = Taken(d, n.i) /\ n.supply = Taken(s, n.j)
    BY <2>1, <2>2
  <2>7. n.i + n.j > m.i + m.j
    BY <1>4, <2>1
  <2>8. Stands(n, d, s)
    BY <1>2, <2>3, <2>4, <2>5, <2>6 DEF Stands
  <2> QED
    BY <2>7, <2>8 DEF n
<1> QED
  BY <1>2, <1>10, <1>11, <1>12 DEF n

(* The walk ends where the curves part.                                    *)
LEMMA MatchEnds ==
    ASSUME NEW d \in Seq(Quotes), NEW s \in Seq(Quotes)
    PROVE  Stands(Match(d, s), d, s) /\ ~Crossed(Match(d, s), d, s)
<1>1. PICK walk : /\ walk[0] = Unmatched
                  /\ \A k \in 0..Len(d) + Len(s) - 1 : walk[k + 1] = Walked(walk[k], d, s)
                  /\ Match(d, s) = walk[Len(d) + Len(s)]
  BY MatchIs
<1> DEFINE len == Len(d) + Len(s)
           Goes(k) == Stands(walk[k], d, s) /\ (Crossed(walk[k], d, s) => walk[k].i + walk[k].j >= k)
           X == {k \in 0..len : ~Goes(k)}
<1>2. Len(d) \in Nat /\ Len(s) \in Nat /\ len \in Nat
  BY QuotesAre
<1>3. \A k \in 0..len - 1 : walk[k + 1] = Walked(walk[k], d, s)
  BY <1>1
<1>4. Goes(0)
  <2>1. Stands(Unmatched, d, s)
    <3>1. pricecap \in Int /\ -pricecap \in Int /\ 0 \in 0..Len(d) /\ 0 \in 0..Len(s)
      BY <1>2, PriceAssumption
    <3>2. Unmatched \in Walk(d, s)
      BY <3>1 DEF Unmatched, Walk
    <3>3. Taken(d, 0) = 0 /\ Taken(s, 0) = 0
      BY TakenIs
    <3>4. (0 < Len(d) => 0 <= Taken(d, 0 + 1)) /\ (0 < Len(s) => 0 <= Taken(s, 0 + 1))
      <4>1. (0 < Len(d) => 1 \in 0..Len(d)) /\ (0 < Len(s) => 1 \in 0..Len(s)) /\ 0 + 1 = 1
        BY <1>2
      <4>2. (0 < Len(d) => Taken(d, 1) \in Nat) /\ (0 < Len(s) => Taken(s, 1) \in Nat)
        BY <4>1, TakenIs
      <4> QED
        BY <4>1, <4>2
    <3> QED
      BY <3>2, <3>3, <3>4 DEF Stands, AtStart, Unmatched
  <2>2. Unmatched.i + Unmatched.j >= 0
    BY DEF Unmatched
  <2> QED
    BY <1>1, <2>1, <2>2
<1>5. ASSUME NEW k \in 0..len - 1, Goes(k) PROVE Goes(k + 1)
  <2> DEFINE m == walk[k]
             n == walk[k + 1]
  <2>1. n = Walked(m, d, s) /\ Stands(m, d, s) /\ (Crossed(m, d, s) => m.i + m.j >= k) /\ k \in Nat
    BY <1>2, <1>3, <1>5
  <2> HIDE DEF m, n
  <2>2. CASE Crossed(m, d, s)
    <3>1. Stands(n, d, s) /\ n.i + n.j > m.i + m.j
      BY <2>1, <2>2, StepStands DEF Walked
    <3>2. m.i \in Nat /\ m.j \in Nat /\ n.i \in Nat /\ n.j \in Nat
      BY <1>2, <2>1, <3>1 DEF Stands, Walk
    <3>3. n.i + n.j >= k + 1
      BY <2>1, <2>2, <3>1, <3>2
    <3> QED
      BY <3>1, <3>3 DEF n
  <2>3. CASE ~Crossed(m, d, s)
    <3>1. n = m
      BY <2>1, <2>3 DEF Walked
    <3> QED
      BY <2>1, <2>3, <3>1 DEF n
  <2> QED
    BY <2>2, <2>3
<1>6. ASSUME X # {} PROVE FALSE
  <2>1. X \in SUBSET Nat
    BY <1>2
  <2>2. PICK k \in X : \A l \in X : k <= l
    BY <1>6, <2>1, LeastNumber
  <2> HIDE DEF Goes
  <2>3. k \in 0..len /\ ~Goes(k)
    BY <2>2
  <2>4. k # 0
    BY <1>4, <2>3
  <2>5. k - 1 \in 0..len - 1 /\ k - 1 \in 0..len /\ ~(k <= k - 1) /\ (k - 1) + 1 = k
    BY <1>2, <2>3, <2>4
  <2>6. Goes(k - 1)
    BY <2>2, <2>5
  <2>7. Goes((k - 1) + 1)
    BY <1>5, <2>5, <2>6
  <2> QED
    BY <2>3, <2>5, <2>7
<1>7. Goes(len)
  <2> HIDE DEF Goes
  <2> QED
    BY <1>2, <1>6
<1>8. ~Crossed(walk[len], d, s)
  <2> SUFFICES ASSUME Crossed(walk[len], d, s) PROVE FALSE
    OBVIOUS
  <2> DEFINE m == walk[len]
  <2>1. m.i + m.j >= len /\ m \in Walk(d, s) /\ m.i < Len(d) /\ m.j < Len(s)
    BY <1>7 DEF Stands, Crossed
  <2>2. m.i \in Nat /\ m.j \in Nat
    BY <1>2, <2>1 DEF Walk
  <2> HIDE DEF m
  <2> QED
    BY <1>2, <2>1, <2>2
<1> QED
  BY <1>1, <1>7, <1>8
-----------------------------------------------------------------------------
(* What the end of the walk says of demand and supply.                     *)

LEMMA StandsIs ==
    ASSUME NEW d \in Seq(Quotes), NEW s \in Seq(Quotes), NEW m, Stands(m, d, s)
    PROVE  /\ m.i \in 0..Len(d) /\ m.j \in 0..Len(s) /\ m.quantity \in Nat /\ m.a \in Int /\ m.b \in Int
           /\ Taken(d, m.i) \in Nat /\ Taken(s, m.j) \in Nat
           /\ Taken(d, m.i) <= m.quantity /\ Taken(s, m.j) <= m.quantity
           /\ m.quantity # 0 => AtBuyer(m, d, s) \/ AtSeller(m, d, s) \/ AtBoth(m, d, s)
<1>1. m.i \in 0..Len(d) /\ m.j \in 0..Len(s) /\ m.quantity \in Nat /\ m.a \in Int /\ m.b \in Int
  BY DEF Stands, Walk
<1>2. Taken(d, m.i) \in Nat /\ Taken(s, m.j) \in Nat
  BY <1>1, TakenIs
<1>3. AtStart(m) => m.quantity = 0 /\ Taken(d, m.i) = 0 /\ Taken(s, m.j) = 0
  BY TakenIs DEF AtStart, Unmatched
<1>4. AtStart(m) \/ AtBuyer(m, d, s) \/ AtSeller(m, d, s) \/ AtBoth(m, d, s)
  BY DEF Stands
<1>5. Taken(d, m.i) <= m.quantity /\ Taken(s, m.j) <= m.quantity
  BY <1>1, <1>2, <1>3, <1>4 DEF AtBuyer, AtSeller, AtBoth
<1> QED
  BY <1>1, <1>2, <1>3, <1>4, <1>5

(* At no price more than that is both asked for and offered.               *)
LEMMA NoMore ==
    ASSUME NEW d, Falling(d), NEW s, Rising(s), NEW m, Stands(m, d, s), ~Crossed(m, d, s), NEW p \in Int
    PROVE  Asked(d, p) <= m.quantity \/ Offered(s, p) <= m.quantity
<1>1. d \in Seq(Quotes) /\ s \in Seq(Quotes)
  BY DEF Falling, Rising
<1>2. /\ m.i \in 0..Len(d) /\ m.j \in 0..Len(s) /\ m.quantity \in Nat
      /\ Taken(d, m.i) \in Nat /\ Taken(s, m.j) \in Nat
      /\ Taken(d, m.i) <= m.quantity /\ Taken(s, m.j) <= m.quantity
  BY <1>1, StandsIs
<1>3. Len(d) \in Nat /\ DOMAIN d = 1..Len(d) /\ Len(s) \in Nat /\ DOMAIN s = 1..Len(s)
      /\ (\A k \in DOMAIN d : d[k].price \in Int) /\ (\A k \in DOMAIN s : s[k].price \in Int)
  BY <1>1, QuotesAre
<1>4. /\ Asked(d, p) \in Nat /\ Asked(d, p) <= Taken(d, Len(d))
      /\ \A i \in DOMAIN d : p > d[i].price => Asked(d, p) <= Taken(d, i - 1)
  BY AskedIs
<1>5. /\ Offered(s, p) \in Nat /\ Offered(s, p) <= Taken(s, Len(s))
      /\ \A i \in DOMAIN s : p < s[i].price => Offered(s, p) <= Taken(s, i - 1)
  BY OfferedIs
<1>6. CASE m.i = Len(d)
  BY <1>2, <1>4, <1>6
<1>7. CASE m.j = Len(s)
  BY <1>2, <1>5, <1>7
<1>8. CASE m.i # Len(d) /\ m.j # Len(s)
  <2>1. m.i < Len(d) /\ m.j < Len(s) /\ m.i + 1 \in DOMAIN d /\ m.j + 1 \in DOMAIN s
        /\ (m.i + 1) - 1 = m.i /\ (m.j + 1) - 1 = m.j
    BY <1>2, <1>3, <1>8
  <2>2. ~(d[m.i + 1].price >= s[m.j + 1].price)
    BY <2>1 DEF Crossed
  <2>3. d[m.i + 1].price \in Int /\ s[m.j + 1].price \in Int
    BY <1>3, <2>1
  <2>4. p > d[m.i + 1].price \/ p < s[m.j + 1].price
    BY <2>2, <2>3
  <2>5. p > d[m.i + 1].price => Asked(d, p) <= Taken(d, m.i)
    BY <1>4, <2>1
  <2>6. p < s[m.j + 1].price => Offered(s, p) <= Taken(s, m.j)
    BY <1>5, <2>1
  <2> QED
    BY <1>2, <1>4, <1>5, <2>4, <2>5, <2>6
<1> QED
  BY <1>6, <1>7, <1>8

(* An ask and an offer down to which the quantity is asked for, and        *)
(* offered: the prices a and b lie between theirs.                         *)
LEMMA Reached ==
    ASSUME NEW d \in Seq(Quotes), NEW s \in Seq(Quotes), NEW m, Stands(m, d, s), m.quantity # 0
    PROVE  \E x \in DOMAIN d, y \in DOMAIN s :
             /\ m.quantity <= Taken(d, x) /\ m.quantity <= Taken(s, y)
             /\ d[x].price >= m.a /\ m.a >= m.b /\ m.b >= s[y].price
<1>1. m.i \in 0..Len(d) /\ m.j \in 0..Len(s) /\ m.quantity \in Nat /\ m.a \in Int /\ m.b \in Int
      /\ (AtBuyer(m, d, s) \/ AtSeller(m, d, s) \/ AtBoth(m, d, s))
  BY StandsIs
<1>2. Len(d) \in Nat /\ DOMAIN d = 1..Len(d) /\ Len(s) \in Nat /\ DOMAIN s = 1..Len(s)
      /\ (\A k \in DOMAIN d : d[k].price \in Int) /\ (\A k \in DOMAIN s : s[k].price \in Int)
  BY QuotesAre
<1>3. /\ \A k \in 0..Len(d) : Taken(d, k) \in Nat
      /\ \A k \in 0..Len(s) : Taken(s, k) \in Nat
  BY TakenIs
<1>4. CASE AtBuyer(m, d, s)
  <2>1. m.i + 1 \in DOMAIN d /\ m.j \in DOMAIN s /\ m.i + 1 \in 0..Len(d)
    BY <1>1, <1>2, <1>4 DEF AtBuyer
  <2>2. Taken(d, m.i + 1) \in Nat /\ Taken(s, m.j) \in Nat
    BY <1>1, <1>3, <2>1
  <2>3. /\ m.quantity <= Taken(d, m.i + 1) /\ m.quantity <= Taken(s, m.j)
        /\ d[m.i + 1].price >= m.a /\ m.a >= m.b /\ m.b >= s[m.j].price
    BY <1>1, <1>4, <2>2 DEF AtBuyer
  <2> QED
    BY <2>1, <2>3
<1>5. CASE AtSeller(m, d, s)
  <2>1. m.i \in DOMAIN d /\ m.j + 1 \in DOMAIN s /\ m.j + 1 \in 0..Len(s)
    BY <1>1, <1>2, <1>5 DEF AtSeller
  <2>2. Taken(d, m.i) \in Nat /\ Taken(s, m.j + 1) \in Nat
    BY <1>1, <1>3, <2>1
  <2>3. /\ m.quantity <= Taken(d, m.i) /\ m.quantity <= Taken(s, m.j + 1)
        /\ d[m.i].price >= m.a /\ m.a >= m.b /\ m.b >= s[m.j + 1].price
    BY <1>1, <1>5, <2>2 DEF AtSeller
  <2> QED
    BY <2>1, <2>3
<1>6. CASE AtBoth(m, d, s)
  <2>1. m.i \in DOMAIN d /\ m.j \in DOMAIN s
    BY <1>1, <1>2, <1>6 DEF AtBoth
  <2>2. Taken(d, m.i) \in Nat /\ Taken(s, m.j) \in Nat
    BY <1>1, <1>3
  <2>3. /\ m.quantity <= Taken(d, m.i) /\ m.quantity <= Taken(s, m.j)
        /\ d[m.i].price >= m.a /\ m.a >= m.b /\ m.b >= s[m.j].price
    BY <1>1, <1>6, <2>2 DEF AtBoth
  <2> QED
    BY <2>1, <2>3
<1> QED
  BY <1>1, <1>4, <1>5, <1>6

LEMMA ReachedAt ==
    ASSUME NEW d, Falling(d), NEW s, Rising(s), NEW m, Stands(m, d, s), m.quantity # 0
    PROVE  \E x \in DOMAIN d, y \in DOMAIN s :
             /\ \A p \in Int : p <= d[x].price => m.quantity <= Asked(d, p)
             /\ \A p \in Int : p >= s[y].price => m.quantity <= Offered(s, p)
             /\ d[x].price >= m.a /\ m.a >= m.b /\ m.b >= s[y].price
<1>1. d \in Seq(Quotes) /\ s \in Seq(Quotes)
  BY DEF Falling, Rising
<1>2. PICK x \in DOMAIN d, y \in DOMAIN s :
             /\ m.quantity <= Taken(d, x) /\ m.quantity <= Taken(s, y)
             /\ d[x].price >= m.a /\ m.a >= m.b /\ m.b >= s[y].price
  BY <1>1, Reached
<1>3. m.quantity \in Nat
  BY <1>1, StandsIs
<1>4. x \in 0..Len(d) /\ y \in 0..Len(s)
  BY <1>1, QuotesAre
<1>5. Taken(d, x) \in Nat /\ Taken(s, y) \in Nat
  BY <1>1, <1>4, TakenIs
<1>6. ASSUME NEW p \in Int, p <= d[x].price PROVE m.quantity <= Asked(d, p)
  <2>1. Asked(d, p) \in Nat /\ Taken(d, x) <= Asked(d, p)
    BY <1>6, AskedIs
  <2> QED
    BY <1>2, <1>3, <1>5, <2>1
<1>7. ASSUME NEW p \in Int, p >= s[y].price PROVE m.quantity <= Offered(s, p)
  <2>1. Offered(s, p) \in Nat /\ Taken(s, y) <= Offered(s, p)
    BY <1>7, OfferedIs
  <2> QED
    BY <1>2, <1>3, <1>5, <2>1
<1> QED
  BY <1>2, <1>6, <1>7

LEMMA EmptyWalk ==
    ASSUME NEW d \in Seq(Quotes), NEW s \in Seq(Quotes), d = <<>> \/ s = <<>>
    PROVE  Match(d, s).quantity = 0
<1> DEFINE m == Match(d, s)
<1>1. Stands(m, d, s)
  BY MatchEnds
<1> HIDE DEF m
<1>2. m.quantity # 0 => DOMAIN d # {} /\ DOMAIN s # {}
  BY <1>1, Reached
<1>3. DOMAIN d = 1..Len(d) /\ DOMAIN s = 1..Len(s) /\ (d = <<>> => Len(d) = 0) /\ (s = <<>> => Len(s) = 0)
  BY QuotesAre
<1> QED
  BY <1>2, <1>3 DEF m

LEMMA TwoSidedQuantity ==
    ASSUME NEW d \in Seq(Quotes), NEW s \in Seq(Quotes), NEW stale
    PROVE  TwoSided(d, s, stale).quantity = Match(d, s).quantity
<1>1. d = <<>> \/ s = <<>> => Match(d, s).quantity = 0
  BY EmptyWalk
<1> QED
  BY <1>1 DEF TwoSided, Outcome

(* The quantity is the largest that any one price could clear.             *)
LEMMA LargestVolume ==
    ASSUME NEW d, Falling(d), NEW s, Rising(s)
    PROVE  LET P == {d[k].price : k \in DOMAIN d} \union {s[k].price : k \in DOMAIN s}
           IN  Match(d, s).quantity = Max({Min({Asked(d, p), Offered(s, p)}) : p \in P} \union {0})
<1> DEFINE P == {d[k].price : k \in DOMAIN d} \union {s[k].price : k \in DOMAIN s}
           m == Match(d, s)
           Q == m.quantity
           Both(p) == Min({Asked(d, p), Offered(s, p)})
           V == {Both(p) : p \in P} \union {0}
<1>1. d \in Seq(Quotes) /\ s \in Seq(Quotes)
  BY DEF Falling, Rising
<1>2. Stands(m, d, s) /\ ~Crossed(m, d, s)
  BY <1>1, MatchEnds
<1> HIDE DEF m
<1>3. Q \in Nat
  BY <1>1, <1>2, StandsIs
<1>4. P \subseteq Int
  BY <1>1, QuotesAre
<1>5. ASSUME NEW p \in Int
      PROVE  Both(p) \in Nat /\ Both(p) <= Q /\ (Q <= Asked(d, p) /\ Q <= Offered(s, p) => Both(p) = Q)
  <2>1. Asked(d, p) \in Nat /\ Offered(s, p) \in Nat
    BY AskedIs, OfferedIs
  <2>2. Asked(d, p) <= Q \/ Offered(s, p) <= Q
    BY <1>2, NoMore
  <2>3. Both(p) = IF Asked(d, p) <= Offered(s, p) THEN Asked(d, p) ELSE Offered(s, p)
    BY <2>1, MinTwo
  <2> HIDE DEF Both, Q
  <2> QED
    BY <1>3, <2>1, <2>2, <2>3
<1> HIDE DEF P, Both, Q
<1>6. \A v \in V : v \in Nat /\ v <= Q
  BY <1>3, <1>4, <1>5
<1>7. Q \in V
  <2>1. CASE Q = 0
    BY <2>1
  <2>2. CASE Q # 0
    <3>1. PICK x \in DOMAIN d, y \in DOMAIN s :
             /\ \A p \in Int : p <= d[x].price => Q <= Asked(d, p)
             /\ \A p \in Int : p >= s[y].price => Q <= Offered(s, p)
             /\ d[x].price >= m.a /\ m.a >= m.b /\ m.b >= s[y].price
      BY <1>2, <2>2, ReachedAt DEF Q
    <3>2. d[x].price \in P /\ d[x].price \in Int /\ s[y].price \in Int /\ m.a \in Int /\ m.b \in Int
      BY <1>1, <1>2, StandsIs, QuotesAre DEF P
    <3>3. Q <= Asked(d, d[x].price) /\ Q <= Offered(s, d[x].price)
      BY <3>1, <3>2
    <3> QED
      BY <1>5, <3>2, <3>3
  <2> QED
    BY <2>1, <2>2
<1> HIDE DEF V
<1>8. Max(V) = Q
  <2>1. \A x \in V : Q >= x
    BY <1>3, <1>6
  <2>2. Max(V) \in V /\ \A x \in V : Max(V) >= x
    BY <1>7, <2>1 DEF Max
  <2>3. Max(V) \in Nat /\ Max(V) <= Q
    BY <1>6, <2>2
  <2>4. Max(V) >= Q
    BY <1>7, <2>2
  <2> HIDE DEF Q
  <2> QED
    BY <1>3, <2>3, <2>4
<1> QED
  BY <1>8 DEF V, Both, P, Q, m
-----------------------------------------------------------------------------
(* The price between the two where the curves part.                        *)

LEMMA SlackIs ==
    ASSUME NEW d \in Seq(Quotes)
    PROVE  /\ bid_offset \in Nat /\ Slack(d) \in Nat /\ (Slack(d) = 0 \/ Slack(d) = bid_offset)
           /\ \A i, k \in DOMAIN d : d[i].price < d[k].price => d[i].price + bid_offset <= d[k].price + Slack(d)
<1>1. bid_offset \in Nat
  BY PriceAssumption
<1>2. \A k \in DOMAIN d : d[k].price \in Int
  BY QuotesAre
<1>3. CASE Crowded(d)
  <2>1. Slack(d) = bid_offset
    BY <1>3 DEF Slack
  <2> QED
    BY <1>1, <1>2, <2>1
<1>4. CASE ~Crowded(d)
  <2>1. Slack(d) = 0
    BY <1>4 DEF Slack
  <2>2. \A i, k \in DOMAIN d : d[i].price < d[k].price => ~(d[k].price < d[i].price + bid_offset)
    BY <1>4 DEF Crowded
  <2> QED
    BY <1>1, <1>2, <2>1, <2>2
<1> QED
  BY <1>3, <1>4

(* At a lower price no less is asked for, at a higher one no less offered. *)
LEMMA Easier ==
    ASSUME NEW s \in Seq(Quotes), NEW p \in Int, NEW q \in Int, p <= q
    PROVE  Asked(s, q) <= Asked(s, p) /\ Offered(s, p) <= Offered(s, q)
<1>1. \A k \in DOMAIN s : s[k].price \in Int
  BY QuotesAre
<1>2. Above(s, p) \union At(s, p) \in SUBSET DOMAIN s /\ Below(s, q) \union At(s, q) \in SUBSET DOMAIN s
  BY DEF Above, Below, At
<1>3. /\ Above(s, q) \union At(s, q) \in SUBSET (Above(s, p) \union At(s, p))
      /\ Below(s, p) \union At(s, p) \in SUBSET (Below(s, q) \union At(s, q))
  BY <1>1 DEF Above, Below, At
<1> QED
  BY <1>2, <1>3, Within DEF Asked, Offered

(* The place between the bids: the price is no more than a, unless that is *)
(* the cap, and no less than b, unless that is the cap below; but for the  *)
(* offset, where bids are crowded.                                         *)
LEMMA SplitIs ==
    ASSUME NEW d, Falling(d), NEW s, Rising(s), NEW m, Stands(m, d, s), ~Crossed(m, d, s),
           AtBoth(m, d, s), Type(m, d, s) = "PRICE", NEW stale \in Int
    PROVE  LET p == SplitPrice(m, d, s, stale)
           IN  p \in Int /\ (p <= m.a + Slack(d) \/ m.a = pricecap) /\ (p >= m.b - Slack(s) \/ m.b = -pricecap)
<1>1. d \in Seq(Quotes) /\ s \in Seq(Quotes)
  BY DEF Falling, Rising
<1>2. m.i \in 0..Len(d) /\ m.j \in 0..Len(s) /\ m.a \in Int /\ m.b \in Int
  BY <1>1, StandsIs
<1>3. Len(d) \in Nat /\ DOMAIN d = 1..Len(d) /\ Len(s) \in Nat /\ DOMAIN s = 1..Len(s)
      /\ (\A k \in DOMAIN d : d[k].price \in Int) /\ (\A k \in DOMAIN s : s[k].price \in Int)
  BY <1>1, QuotesAre
<1>4. m.check = TRUE /\ m.i > 0 /\ m.j > 0 /\ m.a = d[m.i].price /\ m.b = s[m.j].price /\ m.a >= m.b
  BY DEF AtBoth
<1>5. (SameBuyer(m, d) <=> SameSeller(m, s)) /\ m.a # m.b
  BY <1>4 DEF Type, SameBuyer, SameSeller
<1>6. ~SameBuyer(m, d) /\ ~SameSeller(m, s)
  <2> SUFFICES ASSUME SameBuyer(m, d), SameSeller(m, s) PROVE FALSE
    BY <1>5
  <2> QED
    BY <1>4 DEF SameBuyer, SameSeller, Crossed
<1>7. m.i \in DOMAIN d /\ m.j \in DOMAIN s
  BY <1>2, <1>3, <1>4
<1>8. bid_offset \in Nat /\ pricecap \in Nat /\ Slack(d) \in Nat /\ Slack(s) \in Nat
  BY <1>1, PriceAssumption, SlackIs
<1>9. ASSUME m.i < Len(d)
      PROVE  d[m.i + 1].price \in Int /\ d[m.i + 1].price + bid_offset <= m.a + Slack(d)
  <2>1. m.i + 1 \in DOMAIN d /\ m.i < m.i + 1
    BY <1>2, <1>3, <1>9
  <2>2. d[m.i].price >= d[m.i + 1].price /\ d[m.i + 1].price # m.a
    BY <1>6, <1>7, <1>9, <2>1 DEF Falling, SameBuyer
  <2>3. d[m.i + 1].price \in Int /\ d[m.i + 1].price < d[m.i].price
    BY <1>2, <1>3, <1>4, <2>1, <2>2
  <2> QED
    BY <1>1, <1>4, <1>7, <2>1, <2>3, SlackIs
<1>10. ASSUME m.j < Len(s)
      PROVE  s[m.j + 1].price \in Int /\ s[m.j + 1].price - bid_offset >= m.b - Slack(s)
  <2>1. m.j + 1 \in DOMAIN s /\ m.j < m.j + 1
    BY <1>2, <1>3, <1>10
  <2>2. s[m.j].price <= s[m.j + 1].price /\ s[m.j + 1].price # m.b
    BY <1>6, <1>7, <1>10, <2>1 DEF Rising, SameSeller
  <2>3. s[m.j + 1].price \in Int /\ s[m.j].price < s[m.j + 1].price
    BY <1>2, <1>3, <1>4, <2>1, <2>2
  <2>4. s[m.j].price + bid_offset <= s[m.j + 1].price + Slack(s)
    BY <1>1, <1>7, <2>1, <2>3, SlackIs
  <2> QED
    BY <1>2, <1>4, <1>8, <2>3, <2>4
<1> DEFINE buy  == IF m.i < Len(d) THEN d[m.i + 1].price ELSE stale
           sell == IF m.j < Len(s) THEN s[m.j + 1].price ELSE stale
           avg  == (m.a + m.b) \div 2
           p    == SplitPrice(m, d, s, stale)
<1>11. buy \in Int /\ sell \in Int
  BY <1>9, <1>10
<1>12. avg \in Int /\ m.b <= avg /\ avg <= m.a
  BY <1>2, <1>4
<1>13. (m.i < Len(d) => buy + bid_offset <= m.a + Slack(d)) /\ (m.j < Len(s) => sell - bid_offset >= m.b - Slack(s))
  BY <1>9, <1>10
<1>14. p = CASE m.a = pricecap /\ m.b # -pricecap -> IF buy > m.b THEN buy + bid_offset ELSE m.b
             [] m.a # pricecap /\ m.b = -pricecap -> IF sell < m.a THEN sell - bid_offset ELSE m.a
             [] m.a = pricecap /\ m.b = -pricecap ->
                  IF m.i = Len(d) /\ m.j = Len(s) THEN 0
                  ELSE IF m.i = Len(d) THEN buy + bid_offset
                  ELSE IF m.j = Len(d) THEN sell - bid_offset
                  ELSE (buy + (IF m.j = Len(s) THEN m.b ELSE sell)) \div 2
             [] OTHER -> IF m.i < Len(d) /\ avg < buy THEN buy + bid_offset
                         ELSE IF m.j < Len(s) /\ avg > sell THEN sell - bid_offset ELSE avg
  BY DEF SplitPrice
<1> HIDE DEF buy, sell, avg, p
<1>15. CASE m.a = pricecap /\ m.b # -pricecap
  <2>1. p = IF buy > m.b THEN buy + bid_offset ELSE m.b
    BY <1>14, <1>15
  <2> QED
    BY <1>2, <1>8, <1>11, <1>15, <2>1 DEF p
<1>16. CASE m.a # pricecap /\ m.b = -pricecap
  <2>1. p = IF sell < m.a THEN sell - bid_offset ELSE m.a
    BY <1>14, <1>16
  <2> QED
    BY <1>2, <1>8, <1>11, <1>16, <2>1 DEF p
<1>17. CASE m.a = pricecap /\ m.b = -pricecap
  <2>1. p = IF m.i = Len(d) /\ m.j = Len(s) THEN 0
            ELSE IF m.i = Len(d) THEN buy + bid_offset
            ELSE IF m.j = Len(d) THEN sell - bid_offset
            ELSE (buy + (IF m.j = Len(s) THEN m.b ELSE sell)) \div 2
    BY <1>14, <1>17
  <2>2. p \in Int
    BY <1>2, <1>8, <1>11, <2>1
  <2> QED
    BY <1>17, <2>2 DEF p
<1>18. CASE m.a # pricecap /\ m.b # -pricecap
  <2>1. p = IF m.i < Len(d) /\ avg < buy THEN buy + bid_offset
            ELSE IF m.j < Len(s) /\ avg > sell THEN sell - bid_offset ELSE avg
    BY <1>14, <1>18
  <2>2. CASE m.i < Len(d) /\ avg < buy
    BY <1>2, <1>8, <1>11, <1>12, <1>13, <2>1, <2>2 DEF p
  <2>3. CASE ~(m.i < Len(d) /\ avg < buy) /\ m.j < Len(s) /\ avg > sell
    BY <1>2, <1>8, <1>11, <1>12, <1>13, <2>1, <2>3 DEF p
  <2>4. CASE ~(m.i < Len(d) /\ avg < buy) /\ ~(m.j < Len(s) /\ avg > sell)
    BY <1>2, <1>8, <1>12, <2>1, <2>4 DEF p
  <2> QED
    BY <2>2, <2>3, <2>4
<1> QED
  BY <1>15, <1>16, <1>17, <1>18

LEMMA WalkPriceIs ==
    ASSUME NEW d, Falling(d), NEW s, Rising(s), NEW m, Stands(m, d, s), ~Crossed(m, d, s),
           m.quantity # 0, NEW stale \in Int
    PROVE  LET p == WalkPrice(m, d, s, stale)
           IN  p \in Int /\ (p <= m.a + Slack(d) \/ m.a = pricecap) /\ (p >= m.b - Slack(s) \/ m.b = -pricecap)
<1>1. d \in Seq(Quotes) /\ s \in Seq(Quotes)
  BY DEF Falling, Rising
<1>2. m.a \in Int /\ m.b \in Int /\ (AtBuyer(m, d, s) \/ AtSeller(m, d, s) \/ AtBoth(m, d, s))
  BY <1>1, StandsIs
<1>3. m.b <= m.a
  BY ReachedAt
<1>4. CASE m.check /\ Type(m, d, s) = "PRICE"
  <2>1. AtBoth(m, d, s)
    BY <1>2, <1>4 DEF AtBuyer, AtSeller
  <2>2. WalkPrice(m, d, s, stale) = SplitPrice(m, d, s, stale)
    BY <1>4 DEF WalkPrice
  <2> QED
    BY <1>4, <2>1, <2>2, SplitIs
<1>5. CASE ~(m.check /\ Type(m, d, s) = "PRICE")
  <2>1. WalkPrice(m, d, s, stale) = m.a \/ WalkPrice(m, d, s, stale) = m.b
    BY <1>5 DEF WalkPrice
  <2>2. Slack(d) \in Nat /\ Slack(s) \in Nat
    BY <1>1, SlackIs
  <2> QED
    BY <1>2, <1>3, <2>1, <2>2
<1> QED
  BY <1>4, <1>5

(* The limits keep a price between two others, one of them at most the     *)
(* cap.                                                                    *)
LEMMA LimitedIs ==
    ASSUME NEW p \in Int
    PROVE  /\ Limited(p) = IF p > pricecap THEN pricecap ELSE IF p < -pricecap THEN -pricecap ELSE p
           /\ Limited(p) \in Int /\ -pricecap <= Limited(p) /\ Limited(p) <= pricecap
<1>1. pricecap \in Nat \ {0} /\ -pricecap \in Int
  BY PriceAssumption
<1>2. Min({p, pricecap}) = IF p <= pricecap THEN p ELSE pricecap
  BY <1>1, MinTwo
<1> DEFINE q == Min({p, pricecap})
<1>3. q \in Int
  BY <1>1, <1>2
<1> HIDE DEF q
<1>4. Max({-pricecap, q}) = IF -pricecap >= q THEN -pricecap ELSE q
  BY <1>1, <1>3 DEF Max
<1>5. Limited(p) = Max({-pricecap, q})
  BY DEF Limited, q
<1> QED
  BY <1>1, <1>2, <1>4, <1>5 DEF q
-----------------------------------------------------------------------------
(* Who trades is content with the price.                                   *)

NoneBelow(d) == \A k \in DOMAIN d : d[k].price >= -pricecap

LEMMA TwoSidedWilling ==
    ASSUME NEW d, Falling(d), NEW s, Rising(s), NEW stale \in Int
    PROVE  LET r == TwoSided(d, s, stale)
           IN  /\ r.price \in Int /\ r.quantity \in Nat
               /\ NoneBelow(d) => Asked(d, Limited(r.price) - Slack(d)) >= r.quantity
               /\ Offered(s, Limited(r.price) + Slack(s)) >= r.quantity
<1> DEFINE r == TwoSided(d, s, stale)
           m == Match(d, s)
           buy == unresponsive_buy(d)
           sell == unresponsive_sell(s)
           Q == m.quantity
           Fine(p) == (NoneBelow(d) => Asked(d, Limited(p) - Slack(d)) >= Q) /\ Offered(s, Limited(p) + Slack(s)) >= Q
<1>1. d \in Seq(Quotes) /\ s \in Seq(Quotes)
  BY DEF Falling, Rising
<1>2. Stands(m, d, s) /\ ~Crossed(m, d, s) /\ r.quantity = Q
  BY <1>1, MatchEnds, TwoSidedQuantity
<1>3. r = IF d = <<>> \/ s = <<>> \/ Q = 0 THEN Outcome("NULL", NullPrice(d, s), 0)
          ELSE IF Q < buy  THEN Outcome("FAILURE", pricecap, Q)
          ELSE IF Q < sell THEN Outcome("FAILURE", -pricecap, Q)
          ELSE IF Q = buy /\ Q = sell THEN Outcome("PRICE", 0, Q)
          ELSE Outcome(Type(m, d, s), WalkPrice(m, d, s, stale), Q)
  BY DEF TwoSided
<1>4. pricecap \in Nat \ {0} /\ pricecap \in Int /\ -pricecap \in Int /\ bid_offset \in Nat
  BY PriceAssumption
<1>5. (\A k \in DOMAIN d : d[k].price \in Int /\ d[k].price <= pricecap)
      /\ (\A k \in DOMAIN s : s[k].price \in Int /\ s[k].price <= pricecap)
      /\ Len(d) \in Nat /\ DOMAIN d = 1..Len(d) /\ Len(s) \in Nat /\ DOMAIN s = 1..Len(s)
  BY <1>1, QuotesAre
<1> HIDE DEF m, r
<1>0. Slack(d) \in Nat /\ Slack(s) \in Nat
  BY <1>1, SlackIs
<1>6. Q \in Nat /\ m.a \in Int /\ m.b \in Int
  BY <1>1, <1>2, StandsIs
<1>7. \A p \in Int : Asked(d, p) \in Nat /\ Offered(s, p) \in Nat
  BY AskedIs, OfferedIs
<1>8. \A p \in Int : Limited(p) \in Int /\ -pricecap <= Limited(p) /\ Limited(p) <= pricecap
                     /\ Limited(p) = IF p > pricecap THEN pricecap ELSE IF p < -pricecap THEN -pricecap ELSE p
  BY LimitedIs
<1>11. ASSUME NEW p \in Int PROVE Asked(d, p - Slack(d)) >= Asked(d, p) /\ Offered(s, p + Slack(s)) >= Offered(s, p)
  <2>1. p - Slack(d) \in Int /\ p - Slack(d) <= p /\ p + Slack(s) \in Int /\ p <= p + Slack(s)
    BY <1>0
  <2>2. Asked(d, p) <= Asked(d, p - Slack(d)) /\ Offered(s, p) <= Offered(s, p + Slack(s))
    BY <1>1, <2>1, Easier
  <2> QED
    BY <1>7, <2>1, <2>2
<1>12. ASSUME NEW p \in Int, NEW q \in Int, Limited(p) = q, NoneBelow(d) => Asked(d, q) >= Q, Offered(s, q) >= Q
       PROVE  Fine(p)
  <2>1. q - Slack(d) \in Int /\ q + Slack(s) \in Int
    BY <1>0
  <2> QED
    BY <1>6, <1>7, <1>11, <1>12, <2>1
<1>9. CASE d = <<>> \/ s = <<>> \/ Q = 0
  <2>1. Q = 0
    BY <1>1, <1>9, EmptyWalk DEF m
  <2>2. NullPrice(d, s) \in Int
    <3>1. (d # <<>> => 1 \in DOMAIN d) /\ (s # <<>> => 1 \in DOMAIN s)
      BY <1>1, <1>5, EmptySeq
    <3>2. (d # <<>> => d[1].price \in Int) /\ (s # <<>> => s[1].price \in Int)
      BY <1>5, <3>1
    <3> QED
      BY <1>4, <3>2 DEF NullPrice
  <2>3. r.price \in Int
    BY <1>3, <1>9, <2>2 DEF Outcome
  <2>4. Fine(r.price)
    <3>1. Limited(r.price) \in Int
      BY <1>8, <2>3
    <3>2. Asked(d, Limited(r.price)) >= Q /\ Offered(s, Limited(r.price)) >= Q
      BY <1>7, <2>1, <3>1
    <3> QED
      BY <1>12, <2>3, <3>1, <3>2
  <2> QED
    BY <1>2, <1>6, <2>3, <2>4 DEF r
<1>10. CASE d # <<>> /\ s # <<>> /\ Q # 0
  <2>1. PICK x \in DOMAIN d, y \in DOMAIN s :
             /\ \A p \in Int : p <= d[x].price => Q <= Asked(d, p)
             /\ \A p \in Int : p >= s[y].price => Q <= Offered(s, p)
             /\ d[x].price >= m.a /\ m.a >= m.b /\ m.b >= s[y].price
    BY <1>2, <1>10, ReachedAt
  <2>2. d[x].price \in Int /\ d[x].price <= pricecap /\ s[y].price \in Int /\ s[y].price <= pricecap
        /\ (NoneBelow(d) => d[x].price >= -pricecap)
    BY <1>5 DEF NoneBelow
  <2>3. buy \in Nat /\ \A p \in Int : p <= pricecap => buy <= Asked(d, p)
    BY <1>4, AskedIs DEF unresponsive_buy
  <2>4. sell \in Nat /\ \A p \in Int : p >= -pricecap => sell <= Offered(s, p)
    BY <1>4, OfferedIs DEF unresponsive_sell
  <2> SUFFICES r.price \in Int /\ Fine(r.price)
    BY <1>2, <1>6 DEF r
  <2> HIDE DEF buy, sell, Q
  <2>5. CASE Q < buy
    <3>1. r.price = pricecap
      BY <1>3, <1>10, <2>5 DEF Outcome
    <3>2. Limited(pricecap) = pricecap
      BY <1>4, <1>8
    <3>3. Asked(d, pricecap) >= Q /\ Offered(s, pricecap) >= Q
      BY <1>4, <1>6, <1>7, <2>1, <2>2, <2>3, <2>5
    <3> QED
      BY <1>4, <1>12, <3>1, <3>2, <3>3
  <2>6. CASE ~(Q < buy) /\ Q < sell
    <3>1. r.price = -pricecap
      BY <1>3, <1>10, <2>6 DEF Outcome
    <3>2. Limited(-pricecap) = -pricecap
      BY <1>4, <1>8
    <3>3. (NoneBelow(d) => Asked(d, -pricecap) >= Q) /\ Offered(s, -pricecap) >= Q
      BY <1>4, <1>6, <1>7, <2>1, <2>2, <2>4, <2>6
    <3> QED
      BY <1>4, <1>12, <3>1, <3>2, <3>3
  <2>7. CASE ~(Q < buy) /\ ~(Q < sell) /\ Q = buy /\ Q = sell
    <3>1. r.price = 0
      BY <1>3, <1>10, <2>7 DEF Outcome
    <3>2. Limited(0) = 0
      BY <1>4, <1>8
    <3>3. Asked(d, 0) >= Q /\ Offered(s, 0) >= Q
      BY <1>4, <1>6, <1>7, <2>3, <2>4, <2>7
    <3> QED
      BY <1>12, <3>1, <3>2, <3>3
  <2>8. CASE ~(Q < buy) /\ ~(Q < sell) /\ ~(Q = buy /\ Q = sell)
    <3> DEFINE p == WalkPrice(m, d, s, stale)
               q == Limited(p)
    <3>1. r.price = p
      BY <1>3, <1>10, <2>8 DEF Outcome
    <3>2. p \in Int /\ (p <= m.a + Slack(d) \/ m.a = pricecap) /\ (p >= m.b - Slack(s) \/ m.b = -pricecap)
      BY <1>2, <1>10, WalkPriceIs DEF Q
    <3> HIDE DEF p
    <3>3. q \in Int /\ -pricecap <= q /\ q <= pricecap
          /\ q = IF p > pricecap THEN pricecap ELSE IF p < -pricecap THEN -pricecap ELSE p
      BY <1>8, <3>2
    <3> HIDE DEF q
    <3>4. q + Slack(s) \in Int /\ q + Slack(s) >= s[y].price
      BY <1>0, <1>4, <1>6, <2>1, <2>2, <3>2, <3>3
    <3>5. q - Slack(d) \in Int /\ (NoneBelow(d) => q - Slack(d) <= d[x].price)
      BY <1>0, <1>4, <1>6, <2>1, <2>2, <3>2, <3>3
    <3>6. (NoneBelow(d) => Asked(d, q - Slack(d)) >= Q) /\ Offered(s, q + Slack(s)) >= Q
      BY <1>6, <1>7, <2>1, <3>3, <3>4, <3>5
    <3> QED
      BY <3>1, <3>2, <3>6 DEF q
  <2> QED
    BY <2>5, <2>6, <2>7, <2>8
<1> QED
  BY <1>9, <1>10
-----------------------------------------------------------------------------
(* One side only: bids are taken from the first on, until there is enough. *)

Nothing == [price |-> 0, quantity |-> 0]
Enough(acc, s, k, q) == IF acc.quantity < q THEN [price |-> s[k].price, quantity |-> acc.quantity + s[k].quantity] ELSE acc

LEMMA AccumulatesIs ==
    ASSUME NEW s \in Seq(Quotes), NEW q \in Nat
    PROVE  \E acc : /\ acc[0] = Nothing
                    /\ \A k \in 0..Len(s) - 1 : acc[k + 1] = Enough(acc[k], s, k + 1, q)
                    /\ Accumulated(s, q) = acc[Len(s)]
<1> DEFINE len == Len(s)
           W == [price : Int, quantity : Nat]
           Grown(f, S) == IF S = {} THEN Nothing ELSE Enough(f[S \ {Max(S)}], s, Max(S), q)
           Grows(f) == f = [S \in SUBSET (1..len) |-> Grown(f, S)]
           op == [p \in W \X (1..len) |-> Enough(p[1], s, p[2], q)]
<1>1. len \in Nat /\ DOMAIN s = 1..len /\ \A k \in 1..len : s[k].price \in Int /\ s[k].quantity \in Nat
  BY QuotesAre
<1>3. Nothing \in W
  BY DEF Nothing
<1>4. ASSUME NEW a \in W, NEW k \in 1..len PROVE Enough(a, s, k, q) \in W
  BY <1>1 DEF Enough
<1>5. \E f : Grows(f)
  <2>1. op \in [W \X (1..len) -> W]
    BY <1>4
  <2>2. \A a \in W, k \in 1..len : op[<<a, k>>] = Enough(a, s, k, q)
    OBVIOUS
  <2> HIDE DEF op, W, len
  <2>3. PICK f \in [SUBSET (1..len) -> W] : Folds(f, op, Nothing, len)
    BY <1>1, <1>3, <2>1, FoldExists
  <2>4. f \in [SUBSET (1..len) -> W] /\ \A S \in SUBSET (1..len) : f[S] = Folded(f, op, Nothing, S)
    BY <2>3 DEF Folds
  <2>5. ASSUME NEW S \in SUBSET (1..len) PROVE f[S] = Grown(f, S)
    <3>1. CASE S = {}
      BY <2>4, <3>1 DEF Folded
    <3>2. CASE S # {}
      <4>1. Max(S) \in 1..len /\ S \ {Max(S)} \in SUBSET (1..len)
        BY <1>1, <3>2, WithoutMax
      <4>2. f[S \ {Max(S)}] \in W
        BY <2>4, <4>1
      <4> QED
        BY <2>2, <2>4, <3>2, <4>1, <4>2 DEF Folded
    <3> QED
      BY <3>1, <3>2
  <2>6. f = [S \in SUBSET (1..len) |-> f[S]]
    BY <2>4
  <2> QED
    BY <2>5, <2>6
<1> DEFINE f == CHOOSE f : Grows(f)
<1>6. Grows(f)
  BY <1>5
<1>7. Accumulated(s, q) = f[1..len]
  BY <1>1 DEF Accumulated, FoldLeft, MapThenFoldSet, Enough, Nothing
<1> HIDE DEF f
<1> DEFINE acc == [k \in 0..len |-> f[1..k]]
<1>8. \A S \in SUBSET (1..len) : f[S] = Grown(f, S)
  BY <1>6
<1>9. acc[0] = Nothing
  <2>1. 0 \in 0..len /\ 1..0 = {} /\ {} \in SUBSET (1..len)
    BY <1>1
  <2> QED
    BY <1>8, <2>1
<1>10. ASSUME NEW k \in 0..len - 1 PROVE acc[k + 1] = Enough(acc[k], s, k + 1, q)
  <2> HIDE DEF len
  <2>1. k \in Nat /\ k \in 0..len /\ k + 1 \in 0..len /\ 1..k + 1 \in SUBSET (1..len)
    BY <1>1
  <2>2. Max(1..k + 1) = k + 1 /\ (1..k + 1) \ {k + 1} = 1..k /\ 1..k + 1 # {}
    BY <2>1, MaxOfFirst
  <2>3. f[1..k + 1] = Enough(f[1..k], s, k + 1, q)
    BY <1>8, <2>1, <2>2
  <2> QED
    BY <2>1, <2>3
<1>11. acc[len] = Accumulated(s, q)
  BY <1>1, <1>7
<1> HIDE DEF acc
<1> QED
  BY <1>9, <1>10, <1>11

(* The last bid that is taken is the first with which there is enough.     *)
LEMMA AccumulatedIs ==
    ASSUME NEW s \in Seq(Quotes), NEW q \in Nat \ {0}
    PROVE  LET a == Accumulated(s, q)
           IN  a.quantity \in Nat /\ a.price \in Int
               /\ (a.quantity >= q => \E k \in DOMAIN s : a.price = s[k].price /\ Taken(s, k - 1) < q /\ q <= Taken(s, k)
                                                          /\ a.quantity = Taken(s, k))
<1>1. PICK acc : /\ acc[0] = Nothing
                 /\ \A k \in 0..Len(s) - 1 : acc[k + 1] = Enough(acc[k], s, k + 1, q)
                 /\ Accumulated(s, q) = acc[Len(s)]
  BY AccumulatesIs
<1>2. Len(s) \in Nat /\ DOMAIN s = 1..Len(s) /\ \A k \in DOMAIN s : s[k].price \in Int /\ s[k].quantity \in Nat
  BY QuotesAre
<1>3. /\ Taken(s, 0) = 0
      /\ \A i \in 0..Len(s) : Taken(s, i) \in Nat
      /\ \A i \in 0..Len(s) - 1 : Taken(s, i + 1) = Taken(s, i) + s[i + 1].quantity
  BY TakenIs
<1> DEFINE Ends(a, k) == a.price = s[k].price /\ Taken(s, k - 1) < q /\ q <= Taken(s, k) /\ a.quantity = Taken(s, k)
           Goes(k) == /\ acc[k].quantity \in Nat /\ acc[k].price \in Int
                      /\ acc[k].quantity < q => acc[k].quantity = Taken(s, k)
                      /\ acc[k].quantity >= q => \E j \in DOMAIN s : Ends(acc[k], j)
           X == {k \in 0..Len(s) : ~Goes(k)}
<1>4. Goes(0)
  BY <1>1, <1>3 DEF Nothing
<1>5. ASSUME NEW k \in 0..Len(s) - 1, Goes(k) PROVE Goes(k + 1)
  <2> DEFINE a == acc[k]
             b == acc[k + 1]
  <2>1. b = Enough(a, s, k + 1, q)
    BY <1>1
  <2>2. k \in 0..Len(s) /\ k + 1 \in 0..Len(s) /\ k + 1 \in DOMAIN s /\ (k + 1) - 1 = k
    BY <1>2
  <2>3. Taken(s, k + 1) = Taken(s, k) + s[k + 1].quantity /\ Taken(s, k) \in Nat
        /\ s[k + 1].quantity \in Nat /\ s[k + 1].price \in Int
    BY <1>2, <1>3, <2>2
  <2>4. CASE a.quantity < q
    <3>1. b.quantity = Taken(s, k + 1) /\ b.price = s[k + 1].price /\ Taken(s, k) < q
      BY <1>5, <2>1, <2>3, <2>4 DEF Enough
    <3>2. b.quantity >= q => Ends(b, k + 1)
      BY <2>2, <3>1
    <3>3. b.quantity \in Nat /\ b.price \in Int
      BY <2>3, <3>1
    <3> HIDE DEF Ends
    <3> QED
      BY <2>2, <3>1, <3>2, <3>3
  <2>5. CASE ~(a.quantity < q)
    <3>1. b = a
      BY <2>1, <2>5 DEF Enough
    <3> HIDE DEF Ends
    <3> QED
      BY <1>5, <2>5, <3>1
  <2> QED
    BY <2>4, <2>5
<1> HIDE DEF Goes
<1>6. ASSUME X # {} PROVE FALSE
  <2>1. X \in SUBSET Nat
    BY <1>2
  <2>2. PICK k \in X : \A l \in X : k <= l
    BY <1>6, <2>1, LeastNumber
  <2>3. k \in 0..Len(s) /\ ~Goes(k)
    BY <2>2
  <2>4. k # 0
    BY <1>4, <2>3
  <2>5. k - 1 \in 0..Len(s) - 1 /\ k - 1 \in 0..Len(s) /\ ~(k <= k - 1) /\ (k - 1) + 1 = k
    BY <1>2, <2>3, <2>4
  <2>6. Goes(k - 1)
    BY <2>2, <2>5
  <2>7. Goes((k - 1) + 1)
    BY <1>5, <2>5, <2>6
  <2> QED
    BY <2>3, <2>5, <2>7
<1>7. Goes(Len(s))
  BY <1>2, <1>6
<1> QED
  BY <1>1, <1>7 DEF Goes

Sold(s, towards, price) == {k \in DOMAIN s : towards * s[k].price >= towards * price}

(* All that is asked for at the fixed price; or the fixed quantity, at the *)
(* price of the bid that makes it enough; or nothing.                      *)
Served(r, s, marginal, towards, price, q) ==
    \/ /\ r.price = price /\ r.type # marginal
       /\ r.quantity = Quantity(s, Sold(s, towards, price))
    \/ /\ r.quantity = q /\ q \in Nat \ {0} /\ r.type \in {marginal, "EXACT"}
       /\ \E k \in DOMAIN s : r.price = s[k].price /\ Taken(s, k - 1) < q /\ q <= Taken(s, k)
    \/ r.quantity = 0 /\ r.price \in Int /\ r.type # marginal

LEMMA OneSidedIs ==
    ASSUME NEW s \in Seq(Quotes), NEW marginal \in {"SELLER", "BUYER"}, NEW towards \in {-1, 1},
           NEW price \in Int, NEW q \in Nat, NEW stale \in Int
    PROVE  Served(OneSided(s, marginal, towards, price, q, stale), s, marginal, towards, price, q)
<1> DEFINE r == OneSided(s, marginal, towards, price, q, stale)
           a == Accumulated(s, q)
           sold == Quantity(s, Sold(s, towards, price))
           best == IF s = <<>> THEN stale ELSE s[1].price
<1>1. r = IF q = 0 THEN Outcome(IF sold > 0 THEN "EXACT" ELSE "NULL", price, sold)
          ELSE IF a.quantity > q THEN Outcome(marginal, a.price, q)
          ELSE IF a.quantity = q THEN Outcome("EXACT", a.price, q)
          ELSE Outcome("FAILURE", best + towards * bid_offset, 0)
  BY DEF OneSided, Sold
<1> HIDE DEF r, sold
<1>2. CASE q = 0
  BY <1>1, <1>2 DEF Outcome, r, sold, Served
<1>3. CASE q # 0
  <2>1. a.quantity \in Nat
        /\ (a.quantity >= q => \E k \in DOMAIN s : a.price = s[k].price /\ Taken(s, k - 1) < q /\ q <= Taken(s, k))
    BY <1>3, AccumulatedIs
  <2>2. best \in Int
    <3>1. DOMAIN s = 1..Len(s) /\ (\A k \in DOMAIN s : s[k].price \in Int) /\ (s # <<>> => Len(s) \in Nat \ {0})
      BY QuotesAre, EmptySeq
    <3>2. s # <<>> => 1 \in DOMAIN s
      BY <3>1
    <3> QED
      BY <3>1, <3>2
  <2>3. best + towards * bid_offset \in Int
    <3> HIDE DEF best
    <3>1. bid_offset \in Int
      BY PriceAssumption
    <3>2. towards * bid_offset \in Int
      BY <3>1
    <3> QED
      BY <2>2, <3>2
  <2> HIDE DEF a, best
  <2>4. CASE a.quantity >= q
    <3>1. r.quantity = q /\ r.price = a.price /\ r.type \in {marginal, "EXACT"}
      BY <1>1, <1>3, <2>1, <2>4 DEF Outcome
    <3> QED
      BY <1>3, <2>1, <2>4, <3>1 DEF r, Served
  <2>5. CASE ~(a.quantity >= q)
    <3>1. r = Outcome("FAILURE", best + towards * bid_offset, 0)
      BY <1>1, <1>3, <2>1, <2>5
    <3>2. r.quantity = 0 /\ r.price \in Int /\ r.type # marginal
      BY <2>3, <3>1 DEF Outcome
    <3> QED
      BY <3>2 DEF r, Served
  <2> QED
    BY <2>4, <2>5
<1> QED
  BY <1>2, <1>3

LEMMA BuyersAre ==
    ASSUME NEW d \in Seq(Quotes), NEW price \in Int, NEW q \in Nat, NEW stale \in Int
    PROVE  LET r == OneSided(d, "BUYER", 1, price, q, stale)
           IN  \/ /\ r.price = price /\ r.type # "BUYER"
                  /\ r.quantity = Asked(d, price)
               \/ /\ r.quantity = q /\ q \in Nat \ {0} /\ r.type \in {"BUYER", "EXACT"}
                  /\ \E k \in DOMAIN d : r.price = d[k].price /\ Taken(d, k - 1) < q /\ q <= Taken(d, k)
               \/ r.quantity = 0 /\ r.price \in Int /\ r.type # "BUYER"
<1> DEFINE towards == 1
           marginal == "BUYER"
           r == OneSided(d, marginal, towards, price, q, stale)
<1>1. towards \in {-1, 1} /\ marginal \in {"SELLER", "BUYER"}
  OBVIOUS
<1>2. Quantity(d, Sold(d, towards, price)) = Asked(d, price)
  <2>1. \A k \in DOMAIN d : d[k].price \in Int
    BY QuotesAre
  <2>2. Sold(d, towards, price) = Above(d, price) \union At(d, price)
    BY <2>1 DEF Sold, Above, At
  <2> QED
    BY <2>2 DEF Asked
<1> HIDE DEF towards, marginal
<1>3. Served(r, d, marginal, towards, price, q)
  BY <1>1, OneSidedIs
<1> HIDE DEF r
<1>4. \/ /\ r.price = price /\ r.type # marginal
         /\ r.quantity = Asked(d, price)
      \/ /\ r.quantity = q /\ q \in Nat \ {0} /\ r.type \in {marginal, "EXACT"}
         /\ \E k \in DOMAIN d : r.price = d[k].price /\ Taken(d, k - 1) < q /\ q <= Taken(d, k)
      \/ r.quantity = 0 /\ r.price \in Int /\ r.type # marginal
  BY <1>2, <1>3 DEF Served
<1> QED
  BY <1>4 DEF r, marginal, towards

LEMMA SellersAre ==
    ASSUME NEW s \in Seq(Quotes), NEW price \in Int, NEW q \in Nat, NEW stale \in Int
    PROVE  LET r == OneSided(s, "SELLER", -1, price, q, stale)
           IN  \/ /\ r.price = price /\ r.type # "SELLER"
                  /\ r.quantity = Offered(s, price)
               \/ /\ r.quantity = q /\ q \in Nat \ {0} /\ r.type \in {"SELLER", "EXACT"}
                  /\ \E k \in DOMAIN s : r.price = s[k].price /\ Taken(s, k - 1) < q /\ q <= Taken(s, k)
               \/ r.quantity = 0 /\ r.price \in Int /\ r.type # "SELLER"
<1> DEFINE towards == -1
           marginal == "SELLER"
           r == OneSided(s, marginal, towards, price, q, stale)
<1>1. towards \in {-1, 1} /\ marginal \in {"SELLER", "BUYER"}
  OBVIOUS
<1>2. Quantity(s, Sold(s, towards, price)) = Offered(s, price)
  <2>1. \A k \in DOMAIN s : s[k].price \in Int
    BY QuotesAre
  <2>2. Sold(s, towards, price) = Below(s, price) \union At(s, price)
    BY <2>1 DEF Sold, Below, At
  <2> QED
    BY <2>2 DEF Offered
<1> HIDE DEF towards, marginal
<1>3. Served(r, s, marginal, towards, price, q)
  BY <1>1, OneSidedIs
<1> HIDE DEF r
<1>4. \/ /\ r.price = price /\ r.type # marginal
         /\ r.quantity = Offered(s, price)
      \/ /\ r.quantity = q /\ q \in Nat \ {0} /\ r.type \in {marginal, "EXACT"}
         /\ \E k \in DOMAIN s : r.price = s[k].price /\ Taken(s, k - 1) < q /\ q <= Taken(s, k)
      \/ r.quantity = 0 /\ r.price \in Int /\ r.type # marginal
  BY <1>2, <1>3 DEF Served
<1> QED
  BY <1>4 DEF r, marginal, towards
-----------------------------------------------------------------------------
(* What clears, whatever the mode.                                         *)

LEMMA BuyersWilling ==
    ASSUME NEW d, Falling(d), NEW price \in Int, NEW q \in Nat, NEW stale \in Int, NoneBelow(d)
    PROVE  LET r == OneSided(d, "BUYER", 1, price, q, stale)
           IN  Asked(d, Limited(r.price) - Slack(d)) >= r.quantity
<1> DEFINE r == OneSided(d, "BUYER", 1, price, q, stale)
           x == Limited(r.price)
<1>1. d \in Seq(Quotes) /\ Len(d) \in Nat /\ DOMAIN d = 1..Len(d)
      /\ (\A k \in DOMAIN d : d[k].price \in Int /\ d[k].price <= pricecap /\ d[k].price >= -pricecap)
  BY QuotesAre DEF Falling, NoneBelow
<1>2. \/ /\ r.price = price
         /\ r.quantity = Asked(d, price)
      \/ /\ r.quantity = q
         /\ \E k \in DOMAIN d : r.price = d[k].price /\ q <= Taken(d, k)
      \/ r.quantity = 0 /\ r.price \in Int
  BY <1>1, BuyersAre
<1> HIDE DEF r
<1>3. r.price \in Int
  BY <1>1, <1>2
<1>4. x \in Int /\ x = IF r.price > pricecap THEN pricecap ELSE IF r.price < -pricecap THEN -pricecap ELSE r.price
  BY <1>3, LimitedIs
<1> HIDE DEF x
<1>5. /\ Asked(d, x) \in Nat
      /\ \A i \in DOMAIN d : x <= d[i].price => Taken(d, i) <= Asked(d, x)
  BY <1>4, AskedIs
<1> SUFFICES Asked(d, x) >= r.quantity
  <2>1. r.quantity \in Int
    <3>1. Asked(d, price) \in Nat
      BY AskedIs
    <3> QED
      BY <1>2, <3>1
  <2>2. Slack(d) \in Nat
    BY <1>1, SlackIs
  <2> DEFINE z == x - Slack(d)
  <2>3. z \in Int /\ z <= x
    BY <1>4, <2>2
  <2> HIDE DEF z
  <2>4. Asked(d, z) \in Nat /\ Asked(d, x) <= Asked(d, z)
    BY <1>1, <1>4, <2>3, AskedIs, Easier
  <2>5. Asked(d, x) >= r.quantity => Asked(d, z) >= r.quantity
    BY <1>5, <2>1, <2>4
  <2> QED
    BY <2>5 DEF r, x, z
<1>6. CASE r.price = price /\ r.quantity = Asked(d, price)
  <2> DEFINE S == Above(d, price) \union At(d, price)
             U == Above(d, x) \union At(d, x)
  <2>1. \A k \in DOMAIN d : d[k].price >= price => d[k].price >= x
    BY <1>1, <1>4, <1>6, PriceAssumption
  <2>2. \A k \in S : k \in DOMAIN d /\ d[k].price >= price
    BY <1>1 DEF Above, At
  <2>3. S \in SUBSET U
    BY <1>1, <1>4, <2>1, <2>2 DEF Above, At
  <2>4. U \in SUBSET DOMAIN d
    BY DEF Above, At
  <2> HIDE DEF S, U
  <2>5. Quantity(d, S) <= Quantity(d, U)
    BY <1>1, <2>3, <2>4, Within
  <2>6. Quantity(d, S) \in Nat
    <3>1. S \in SUBSET DOMAIN d
      BY <2>3, <2>4
    <3> QED
      BY <1>1, <3>1, Within
  <2>7. Asked(d, x) = Quantity(d, U) /\ r.quantity = Quantity(d, S)
    BY <1>6 DEF Asked, S, U
  <2> QED
    BY <1>5, <2>5, <2>6, <2>7 DEF r, x
<1>7. CASE r.quantity = q /\ \E k \in DOMAIN d : r.price = d[k].price /\ q <= Taken(d, k)
  <2>1. PICK k \in DOMAIN d : r.price = d[k].price /\ q <= Taken(d, k)
    BY <1>7
  <2>2. x = d[k].price
    BY <1>1, <1>4, <2>1
  <2>3. Taken(d, k) <= Asked(d, x)
    BY <1>1, <1>5, <2>2
  <2>4. Taken(d, k) \in Nat
    <3>1. k \in 0..Len(d)
      BY <1>1
    <3> QED
      BY <1>1, <3>1, TakenIs
  <2> QED
    BY <1>5, <1>7, <2>1, <2>3, <2>4 DEF r, x
<1>8. CASE r.quantity = 0
  BY <1>5, <1>8 DEF r, x
<1> QED
  BY <1>2, <1>6, <1>7, <1>8

LEMMA SellersWilling ==
    ASSUME NEW s, Rising(s), NEW price \in Int, NEW q \in Nat, NEW stale \in Int
    PROVE  LET r == OneSided(s, "SELLER", -1, price, q, stale)
           IN  Offered(s, Limited(r.price) + Slack(s)) >= r.quantity
<1> DEFINE r == OneSided(s, "SELLER", -1, price, q, stale)
           x == Limited(r.price)
<1>1. s \in Seq(Quotes) /\ Len(s) \in Nat /\ DOMAIN s = 1..Len(s)
      /\ (\A k \in DOMAIN s : s[k].price \in Int /\ s[k].price <= pricecap)
  BY QuotesAre DEF Rising
<1>2. \/ /\ r.price = price
         /\ r.quantity = Offered(s, price)
      \/ /\ r.quantity = q
         /\ \E k \in DOMAIN s : r.price = s[k].price /\ q <= Taken(s, k)
      \/ r.quantity = 0 /\ r.price \in Int
  BY <1>1, SellersAre
<1> HIDE DEF r
<1>3. r.price \in Int
  BY <1>1, <1>2
<1>4. x \in Int /\ x = IF r.price > pricecap THEN pricecap ELSE IF r.price < -pricecap THEN -pricecap ELSE r.price
  BY <1>3, LimitedIs
<1> HIDE DEF x
<1>5. /\ Offered(s, x) \in Nat
      /\ \A i \in DOMAIN s : x >= s[i].price => Taken(s, i) <= Offered(s, x)
  BY <1>4, OfferedIs
<1> SUFFICES Offered(s, x) >= r.quantity
  <2>1. r.quantity \in Int
    <3>1. Offered(s, price) \in Nat
      BY OfferedIs
    <3> QED
      BY <1>2, <3>1
  <2>2. Slack(s) \in Nat
    BY <1>1, SlackIs
  <2> DEFINE z == x + Slack(s)
  <2>3. z \in Int /\ x <= z
    BY <1>4, <2>2
  <2> HIDE DEF z
  <2>4. Offered(s, z) \in Nat /\ Offered(s, x) <= Offered(s, z)
    BY <1>1, <1>4, <2>3, OfferedIs, Easier
  <2>5. Offered(s, x) >= r.quantity => Offered(s, z) >= r.quantity
    BY <1>5, <2>1, <2>4
  <2> QED
    BY <2>5 DEF r, x, z
<1>6. CASE r.price = price /\ r.quantity = Offered(s, price)
  <2> DEFINE S == Below(s, price) \union At(s, price)
             U == Below(s, x) \union At(s, x)
  <2>1. \A k \in DOMAIN s : s[k].price <= price => s[k].price <= x
    BY <1>1, <1>4, <1>6, PriceAssumption
  <2>2. \A k \in S : k \in DOMAIN s /\ s[k].price <= price
    BY <1>1 DEF Below, At
  <2>3. S \in SUBSET U
    BY <1>1, <1>4, <2>1, <2>2 DEF Below, At
  <2>4. U \in SUBSET DOMAIN s
    BY DEF Below, At
  <2> HIDE DEF S, U
  <2>5. Quantity(s, S) <= Quantity(s, U)
    BY <1>1, <2>3, <2>4, Within
  <2>6. Quantity(s, S) \in Nat
    <3>1. S \in SUBSET DOMAIN s
      BY <2>3, <2>4
    <3> QED
      BY <1>1, <3>1, Within
  <2>7. Offered(s, x) = Quantity(s, U) /\ r.quantity = Quantity(s, S)
    BY <1>6 DEF Offered, S, U
  <2> QED
    BY <1>5, <2>5, <2>6, <2>7 DEF r, x
<1>7. CASE r.quantity = q /\ \E k \in DOMAIN s : r.price = s[k].price /\ q <= Taken(s, k)
  <2>1. PICK k \in DOMAIN s : r.price = s[k].price /\ q <= Taken(s, k)
    BY <1>7
  <2>2. x >= s[k].price
    BY <1>1, <1>4, <2>1
  <2>3. Taken(s, k) <= Offered(s, x)
    BY <1>1, <1>5, <2>2
  <2>4. Taken(s, k) \in Nat
    <3>1. k \in 0..Len(s)
      BY <1>1
    <3> QED
      BY <1>1, <3>1, TakenIs
  <2> QED
    BY <1>5, <1>7, <2>1, <2>3, <2>4 DEF r, x
<1>8. CASE r.quantity = 0
  BY <1>5, <1>8 DEF r, x
<1> QED
  BY <1>2, <1>6, <1>7, <1>8

(* The bid of a buyer at the margin: those before it are served in full,   *)
(* and with it there is enough.                                            *)
Margin(r, d) == \E k \in DOMAIN d : r.price = d[k].price /\ Taken(d, k - 1) <= r.quantity /\ r.quantity <= Taken(d, k)

LEMMA MarginShare ==
    ASSUME NEW d, Falling(d), NEW Q \in Nat, NEW p, Margin([price |-> p, quantity |-> Q], d)
    PROVE  LET left  == Q - Quantity(d, Above(d, p))
               total == Quantity(d, At(d, p))
           IN  0 <= left /\ left <= total /\ ((\A k \in DOMAIN d : d[k].quantity > 0) => total > 0)
<1>1. PICK k \in DOMAIN d : p = d[k].price /\ Taken(d, k - 1) <= Q /\ Q <= Taken(d, k)
  BY DEF Margin
<1>2. Len(d) \in Nat /\ DOMAIN d = 1..Len(d) /\ d[k].price \in Int /\ d[k].quantity \in Nat /\ d \in Seq(Quotes)
  BY QuotesAre DEF Falling
<1>3. k \in 0..Len(d) /\ k - 1 \in 0..Len(d)
  BY <1>2
<1>4. Taken(d, k) \in Nat /\ Taken(d, k - 1) \in Nat
  BY <1>2, <1>3, TakenIs
<1> DEFINE S == Quantity(d, Above(d, p))
           T == Quantity(d, At(d, p))
           A == Asked(d, p)
<1>5. /\ A \in Nat /\ S \in Nat /\ T \in Nat /\ A = S + T /\ Taken(d, k) <= A /\ S <= Taken(d, k - 1) /\ d[k].quantity <= T
  <2>1. p \in Int /\ p <= d[k].price /\ p >= d[k].price
    BY <1>1, <1>2
  <2> QED
    BY <1>1, <2>1, AskedIs
<1> HIDE DEF S, T, A
<1>6. 0 <= Q - S /\ Q - S <= T
  BY <1>1, <1>4, <1>5
<1>7. (\A i \in DOMAIN d : d[i].quantity > 0) => T > 0
  BY <1>2, <1>5
<1> QED
  BY <1>6, <1>7 DEF S, T

LEMMA TwoSidedMargin ==
    ASSUME NEW d \in Seq(Quotes), NEW s \in Seq(Quotes), NEW stale, TwoSided(d, s, stale).type = "BUYER"
    PROVE  Margin(TwoSided(d, s, stale), d)
<1> DEFINE r == TwoSided(d, s, stale)
           m == Match(d, s)
           p == WalkPrice(m, d, s, stale)
<1>1. m.quantity # 0 /\ r = Outcome(Type(m, d, s), p, m.quantity) /\ Type(m, d, s) = "BUYER"
  BY DEF TwoSided, Outcome
<1>2. Stands(m, d, s)
  BY MatchEnds
<1> HIDE DEF m, p, r
<1>3. m.i \in 0..Len(d) /\ m.quantity \in Nat /\ (AtBuyer(m, d, s) \/ AtSeller(m, d, s) \/ AtBoth(m, d, s))
  BY <1>1, <1>2, StandsIs
<1>4. p = m.a
  BY <1>1 DEF WalkPrice, p
<1>5. r.price = m.a /\ r.quantity = m.quantity
  BY <1>1, <1>4 DEF Outcome
<1>6. Len(d) \in Nat /\ DOMAIN d = 1..Len(d)
  BY QuotesAre
<1>7. CASE AtBuyer(m, d, s)
  <2>1. m.i + 1 \in DOMAIN d /\ (m.i + 1) - 1 = m.i /\ m.i + 1 \in 0..Len(d)
    BY <1>3, <1>6, <1>7 DEF AtBuyer
  <2>2. Taken(d, m.i + 1) \in Nat
    BY <2>1, TakenIs
  <2>3. r.price = d[m.i + 1].price /\ Taken(d, (m.i + 1) - 1) <= r.quantity /\ r.quantity <= Taken(d, m.i + 1)
    BY <1>3, <1>5, <1>7, <2>1, <2>2 DEF AtBuyer
  <2> QED
    BY <2>1, <2>3 DEF Margin, r
<1>8. CASE AtSeller(m, d, s)
  BY <1>1, <1>8 DEF AtSeller, Type
<1>9. CASE AtBoth(m, d, s)
  <2>1. m.i \in DOMAIN d /\ m.i - 1 \in 0..Len(d) - 1 /\ (m.i - 1) + 1 = m.i
    BY <1>3, <1>6, <1>9 DEF AtBoth
  <2>2. Taken(d, m.i - 1) <= Taken(d, (m.i - 1) + 1)
    BY <2>1, TakenIs
  <2>4. Taken(d, (m.i - 1) + 1) = Taken(d, m.i)
    BY <2>1
  <2>5. m.quantity = Taken(d, m.i) /\ m.a = d[m.i].price
    BY <1>9 DEF AtBoth
  <2>3. r.price = d[m.i].price /\ Taken(d, m.i - 1) <= r.quantity /\ r.quantity <= Taken(d, m.i)
    BY <1>3, <1>5, <2>2, <2>4, <2>5
  <2> QED
    BY <2>1, <2>3 DEF Margin, r
<1> QED
  BY <1>3, <1>7, <1>8, <1>9

LEMMA ClearedIs ==
    ASSUME NEW d, Falling(d), NEW s, Rising(s), NEW md \in Modes, NEW stale \in Int
    PROVE  LET r == Cleared(md, d, s, stale)
               P == {d[k].price : k \in DOMAIN d} \union {s[k].price : k \in DOMAIN s}
           IN  /\ md.kind \notin {"SELLERS", "BUYERS"} =>
                    r.quantity = Max({Min({Asked(d, p), Offered(s, p)}) : p \in P} \union {0})
               /\ md.kind # "SELLERS" /\ NoneBelow(d) => Asked(d, Limited(r.price) - Slack(d)) >= r.quantity
               /\ md.kind # "BUYERS" => Offered(s, Limited(r.price) + Slack(s)) >= r.quantity
               /\ r.type = "BUYER" => /\ 0 <= Marginal(r, d, s) /\ Marginal(r, d, s) <= MarginalBids(r, d, s)
                                      /\ (\A k \in DOMAIN d : d[k].quantity > 0) => MarginalBids(r, d, s) > 0
<1> DEFINE r == Cleared(md, d, s, stale)
           Volume == Max({Min({Asked(d, p), Offered(s, p)}) :
                            p \in {d[k].price : k \in DOMAIN d} \union {s[k].price : k \in DOMAIN s}} \union {0})
           two    == md.kind \notin {"SELLERS", "BUYERS"}
<1>1. d \in Seq(Quotes) /\ s \in Seq(Quotes)
  BY DEF Falling, Rising
<1>2. md.price \in Int /\ md.quantity \in Nat
  BY ModesAssumption
<1>3. /\ md.kind = "SELLERS" => r = OneSided(s, "SELLER", -1, md.price, md.quantity, stale)
      /\ md.kind = "BUYERS"  => r = OneSided(d, "BUYER", 1, md.price, md.quantity, stale)
      /\ two => r = TwoSided(d, s, stale)
  BY DEF Cleared
<1>4. two => r.quantity = Volume
  <2>1. Match(d, s).quantity = Volume
    BY LargestVolume
  <2>2. TwoSided(d, s, stale).quantity = Match(d, s).quantity
    BY <1>1, TwoSidedQuantity
  <2> HIDE DEF Volume, r
  <2> QED
    BY <1>3, <2>1, <2>2
<1> HIDE DEF r, Volume
<1>5. two => /\ r.price \in Int /\ r.quantity \in Nat
             /\ NoneBelow(d) => Asked(d, Limited(r.price) - Slack(d)) >= r.quantity
             /\ Offered(s, Limited(r.price) + Slack(s)) >= r.quantity
  BY <1>3, TwoSidedWilling
<1>6. md.kind = "SELLERS" => Offered(s, Limited(r.price) + Slack(s)) >= r.quantity
  BY <1>2, <1>3, SellersWilling
<1>7. md.kind = "BUYERS" /\ NoneBelow(d) => Asked(d, Limited(r.price) - Slack(d)) >= r.quantity
  BY <1>2, <1>3, BuyersWilling
<1>8. r.type = "BUYER" => r.quantity \in Nat /\ Margin(r, d)
  <2>1. CASE two
    BY <1>1, <1>3, <1>5, <2>1, TwoSidedMargin
  <2>2. CASE md.kind = "SELLERS"
    BY <1>3, <2>2 DEF OneSided, Outcome
  <2>3. CASE md.kind = "BUYERS"
    <3> DEFINE price == md.price
               q     == md.quantity
    <3>1. r = OneSided(d, "BUYER", 1, price, q, stale) /\ price \in Int /\ q \in Nat
      BY <1>2, <1>3, <2>3
    <3> HIDE DEF price, q
    <3>2. r.type = "BUYER" =>
            /\ r.quantity = q
            /\ \E k \in DOMAIN d : r.price = d[k].price /\ Taken(d, k - 1) < q /\ q <= Taken(d, k)
      BY <1>1, <3>1, BuyersAre
    <3>3. \A k \in DOMAIN d : Taken(d, k - 1) \in Nat
      <4> SUFFICES ASSUME NEW k \in DOMAIN d PROVE Taken(d, k - 1) \in Nat
        OBVIOUS
      <4>1. k - 1 \in 0..Len(d)
        BY <1>1, QuotesAre
      <4> QED
        BY <1>1, <4>1, TakenIs
    <3>4. \A k \in DOMAIN d : Taken(d, k - 1) < q => Taken(d, k - 1) <= q
      BY <3>1, <3>3
    <3> QED
      BY <3>1, <3>2, <3>4 DEF Margin
  <2> QED
    BY <2>1, <2>2, <2>3
<1>9. r.type = "BUYER" => /\ 0 <= Marginal(r, d, s) /\ Marginal(r, d, s) <= MarginalBids(r, d, s)
                          /\ (\A k \in DOMAIN d : d[k].quantity > 0) => MarginalBids(r, d, s) > 0
  <2> SUFFICES ASSUME r.type = "BUYER"
               PROVE  /\ 0 <= Marginal(r, d, s) /\ Marginal(r, d, s) <= MarginalBids(r, d, s)
                      /\ (\A k \in DOMAIN d : d[k].quantity > 0) => MarginalBids(r, d, s) > 0
    OBVIOUS
  <2> DEFINE p == r.price
             Q == r.quantity
  <2>1. Marginal(r, d, s) = Q - Quantity(d, Above(d, p)) /\ MarginalBids(r, d, s) = Quantity(d, At(d, p))
    BY DEF Marginal, MarginalBids
  <2>2. Q \in Nat /\ Margin([price |-> p, quantity |-> Q], d)
    BY <1>8 DEF Margin
  <2> HIDE DEF p, Q
  <2> QED
    BY <2>1, <2>2, MarginShare
<1> QED
  BY <1>4, <1>5, <1>6, <1>7, <1>9 DEF r, Volume
-----------------------------------------------------------------------------
(* The state.                                                              *)

CInv == BInv /\ mode \in Modes /\ MaxVolume /\ Willing /\ BuyerShare

LEMMA BookIs == BInv /\ mode \in Modes => Asks \in Seq(Quotes) /\ Offers \in Seq(Quotes)
<1> SUFFICES ASSUME BInv, mode \in Modes PROVE Asks \in Seq(Quotes) /\ Offers \in Seq(Quotes)
  OBVIOUS
<1>1. asks \in Seq(Quotes) /\ offers \in Seq(Quotes)
  <2>1. Curve(TRUE) \in Seq(Entries(TRUE)) /\ Curve(FALSE) \in Seq(Entries(FALSE))
    BY DEF BInv, CurvesHold
  <2>2. asks \in Seq(Entries(TRUE)) /\ offers \in Seq(Entries(FALSE))
    BY <2>1 DEF Curve
  <2>3. Entries(TRUE) \subseteq Quotes /\ Entries(FALSE) \subseteq Quotes
    BY DEF Entries, Quotes, Side, Bidders
  <2>4. \A A, B : A \subseteq B => Seq(A) \subseteq Seq(B)
    BY SeqDef
  <2> QED
    BY <2>2, <2>3, <2>4
<1>2. \A buys \in BOOLEAN : FixedBid(buys) \in Seq(Quotes)
  <2>1. mode.price \in Int /\ mode.quantity \in Nat
    BY ModesAssumption
  <2>2. Min({mode.price, pricecap}) \in Posted
    BY <2>1, CutIsPosted
  <2>3. [from |-> None, price |-> Min({mode.price, pricecap}), quantity |-> mode.quantity] \in Quotes
    BY <2>1, <2>2 DEF Quotes
  <2> QED
    BY <2>3 DEF FixedBid
<1> QED
  BY <1>1, <1>2 DEF Asks, Offers

(* The order does not matter for what is asked for, and offered.           *)
LEMMA Rearranged ==
    ASSUME NEW s \in Seq(Quotes), NEW t \in Seq(Quotes), Arranged(t, s)
    PROVE  /\ \A p : Asked(t, p) = Asked(s, p) /\ Offered(t, p) = Offered(s, p)
           /\ {t[k].price : k \in DOMAIN t} = {s[k].price : k \in DOMAIN s}
           /\ NoneBelow(s) => NoneBelow(t)
           /\ Slack(t) = Slack(s)
           /\ (\A k \in DOMAIN s : s[k].quantity > 0) => \A k \in DOMAIN t : t[k].quantity > 0
<1>1. PICK keys \in [DOMAIN s -> DOMAIN s] :
        /\ \A i, j \in DOMAIN s : keys[i] = keys[j] => i = j
        /\ \A k \in DOMAIN s : \E i \in DOMAIN s : keys[i] = k
        /\ t = [k \in DOMAIN s |-> s[keys[k]]]
  BY DEF Arranged
<1> DEFINE D == DOMAIN s
           Moved(S) == {keys[k] : k \in S}
           X == {S \in SUBSET D : Quantity(t, S) # Quantity(s, Moved(S))}
<1>2. DOMAIN t = D /\ IsFiniteSet(D) /\ (\A k \in D : keys[k] \in D /\ t[k] = s[keys[k]])
      /\ (\A k \in D : s[k].quantity \in Nat /\ t[k].quantity \in Nat)
  BY <1>1, QuotesAre
<1>3. /\ Quantity(s, {}) = 0 /\ Quantity(t, {}) = 0
      /\ \A S \in SUBSET D : \A k \in S : Quantity(s, S) = s[k].quantity + Quantity(s, S \ {k})
      /\ \A S \in SUBSET D : \A k \in S : Quantity(t, S) = t[k].quantity + Quantity(t, S \ {k})
  BY <1>2, QuantityOne
<1>4. ASSUME X # {} PROVE FALSE
  <2>1. X \in SUBSET SUBSET D
    OBVIOUS
  <2> HIDE DEF X, D
  <2>2. PICK S \in X : \A U \in SUBSET S : U # S => U \notin X
    BY <1>2, <1>4, <2>1, Smallest
  <2>3. S \in SUBSET D /\ Quantity(t, S) # Quantity(s, Moved(S))
    BY <2>2 DEF X
  <2>4. S # {}
    <3>1. Moved({}) = {}
      OBVIOUS
    <3> QED
      BY <1>3, <2>3, <3>1
  <2>5. PICK k \in S : TRUE
    BY <2>4
  <2> DEFINE U == S \ {k}
  <2>6. U \in SUBSET S /\ U # S /\ U \in SUBSET D /\ k \in D
    BY <2>3, <2>5
  <2>7. Quantity(t, U) = Quantity(s, Moved(U))
    BY <2>2, <2>6 DEF X
  <2>8. Moved(S) \in SUBSET D /\ keys[k] \in Moved(S)
    BY <1>2, <2>3, <2>5
  <2>9. Moved(S) \ {keys[k]} = Moved(U)
    <3>1. ASSUME NEW x \in Moved(S) \ {keys[k]} PROVE x \in Moved(U)
      BY <3>1
    <3>2. ASSUME NEW i \in U PROVE keys[i] \in Moved(S) \ {keys[k]}
      <4>1. i \in S /\ i # k /\ i \in D
        BY <2>3, <3>2
      <4>2. keys[i] # keys[k]
        BY <1>1, <2>6, <4>1 DEF D
      <4> QED
        BY <4>1, <4>2
    <3> QED
      BY <3>1, <3>2
  <2>10. Quantity(t, S) = t[k].quantity + Quantity(t, U) /\ Quantity(s, Moved(S)) = s[keys[k]].quantity + Quantity(s, Moved(U))
    BY <1>3, <2>3, <2>5, <2>8, <2>9
  <2>11. t[k].quantity = s[keys[k]].quantity
    BY <1>2, <2>6
  <2> QED
    BY <2>3, <2>7, <2>10, <2>11
<1>5. \A S \in SUBSET D : Quantity(t, S) = Quantity(s, Moved(S))
  BY <1>4
<1>6. ASSUME NEW p PROVE Asked(t, p) = Asked(s, p) /\ Offered(t, p) = Offered(s, p)
  <2>1. Above(t, p) \union At(t, p) \in SUBSET D /\ Below(t, p) \union At(t, p) \in SUBSET D
    BY <1>2 DEF Above, Below, At
  <2>2. /\ Moved(Above(t, p) \union At(t, p)) = Above(s, p) \union At(s, p)
        /\ Moved(Below(t, p) \union At(t, p)) = Below(s, p) \union At(s, p)
    <3> DEFINE A == Above(t, p) \union At(t, p)
               B == Above(s, p) \union At(s, p)
               E == Below(t, p) \union At(t, p)
               F == Below(s, p) \union At(s, p)
    <3>1. A \in SUBSET D /\ B \in SUBSET D /\ E \in SUBSET D /\ F \in SUBSET D
      BY <2>1 DEF Above, Below, At
    <3>2. \A k \in D : (k \in A <=> keys[k] \in B) /\ (k \in E <=> keys[k] \in F)
      BY <1>2 DEF Above, Below, At
    <3> HIDE DEF A, B, E, F
    <3>3. Moved(A) = B
      BY <1>1, <3>1, <3>2
    <3>4. Moved(E) = F
      BY <1>1, <3>1, <3>2
    <3> QED
      BY <3>3, <3>4 DEF A, B, E, F
  <2> QED
    BY <1>5, <2>1, <2>2 DEF Asked, Offered
<1>7. {t[k].price : k \in DOMAIN t} = {s[k].price : k \in DOMAIN s}
  BY <1>1, <1>2
<1>8. NoneBelow(s) => NoneBelow(t)
  BY <1>2 DEF NoneBelow
<1>9. (\A k \in DOMAIN s : s[k].quantity > 0) => \A k \in DOMAIN t : t[k].quantity > 0
  BY <1>2
<1>10. Slack(t) = Slack(s)
  <2>1. Crowded(t) => Crowded(s)
    BY <1>2 DEF Crowded
  <2>2. ASSUME Crowded(s) PROVE Crowded(t)
    <3>1. PICK i, k \in D : s[i].price < s[k].price /\ s[k].price < s[i].price + bid_offset
      BY <2>2 DEF Crowded
    <3>2. PICK x, y \in D : keys[x] = i /\ keys[y] = k
      BY <1>1, <3>1
    <3>3. t[x].price = s[i].price /\ t[y].price = s[k].price /\ x \in DOMAIN t /\ y \in DOMAIN t
      BY <1>2, <3>2
    <3> QED
      BY <3>1, <3>3 DEF Crowded
  <2> QED
    BY <2>1, <2>2 DEF Slack
<1> QED
  BY <1>6, <1>7, <1>8, <1>9, <1>10

LEMMA NoBids == Falling(<<>>) /\ Rising(<<>>)
BY DEF Falling, Rising

LEMMA CInit == Init => CInv
<1> SUFFICES ASSUME Init PROVE CInv
  OBVIOUS
<1>1. BInv /\ mode \in Modes
  BY BInit DEF Init
<1>2. book.asks = <<>> /\ book.offers = <<>> /\ cleared_frame.quantity = 0 /\ cleared_frame.type = "NULL"
      /\ cleared_frame.price = 0
  BY DEF Init, NoFrame
<1>3. MaxVolume
  <2>1. BookPrices = {}
    BY <1>2 DEF BookPrices
  <2>2. {Min({Demand(p), Supply(p)}) : p \in BookPrices} \union {0} = {0}
    BY <2>1
  <2>3. Max({0}) = 0
    BY DEF Max
  <2> QED
    BY <1>2, <2>2, <2>3 DEF MaxVolume
<1>4. Willing
  <2>1. \A p \in Int : Asked(<<>>, p) \in Nat /\ Offered(<<>>, p) \in Nat
    BY NoBids, AskedIs, OfferedIs
  <2>2. \A p : Demand(p) = Asked(<<>>, p) /\ Supply(p) = Offered(<<>>, p)
    BY <1>2 DEF Demand, Supply, Asked, Offered
  <2>3. Slack(<<>>) \in Nat
    BY NoBids, SlackIs DEF Falling
  <2>4. 0 - Slack(<<>>) \in Int /\ 0 + Slack(<<>>) \in Int
    BY <2>3
  <2>5. Demand(0 - Slack(<<>>)) >= 0 /\ Supply(0 + Slack(<<>>)) >= 0
    BY <2>1, <2>2, <2>4
  <2> QED
    BY <1>2, <2>5 DEF Willing
<1>5. BuyerShare
  BY <1>2 DEF BuyerShare, Share
<1> QED
  BY <1>1, <1>3, <1>4, <1>5 DEF CInv

LEMMA CClear == CInv /\ Clear => CInv'
<1> SUFFICES ASSUME CInv, Clear PROVE CInv'
  OBVIOUS
<1>1. BInv /\ mode \in Modes /\ mode' = mode /\ BInv'
  BY ClearKeepsBids DEF CInv, Clear, settings
<1>2. PICK stale \in StalePrices :
        LET demand == SortedAsks(Asks)
            supply == SortedOffers(Offers)
            r      == Cleared(mode, demand, supply, stale)
        IN  /\ cleared_frame' = FrameOf(r, demand, supply, value')
            /\ book' = [asks |-> Asks, offers |-> Offers]
  BY DEF Clear, clear_market
<1> DEFINE d == SortedAsks(Asks)
           s == SortedOffers(Offers)
           r == Cleared(mode, d, s, stale)
<1>3. Falling(d) /\ Rising(s) /\ Arranged(d, Asks) /\ Arranged(s, Offers) /\ Asks \in Seq(Quotes) /\ Offers \in Seq(Quotes)
  BY <1>1, BookIs, AsksFall, OffersRise
<1> HIDE DEF d, s
<1>4. stale \in Int
  BY ModesAssumption
<1> DEFINE P == {d[k].price : k \in DOMAIN d} \union {s[k].price : k \in DOMAIN s}
<1>5. /\ mode.kind \notin {"SELLERS", "BUYERS"} =>
           r.quantity = Max({Min({Asked(d, p), Offered(s, p)}) : p \in P} \union {0})
      /\ mode.kind # "SELLERS" /\ NoneBelow(d) => Asked(d, Limited(r.price) - Slack(d)) >= r.quantity
      /\ mode.kind # "BUYERS" => Offered(s, Limited(r.price) + Slack(s)) >= r.quantity
      /\ r.type = "BUYER" => /\ 0 <= Marginal(r, d, s) /\ Marginal(r, d, s) <= MarginalBids(r, d, s)
                             /\ (\A k \in DOMAIN d : d[k].quantity > 0) => MarginalBids(r, d, s) > 0
  BY <1>1, <1>3, <1>4, ClearedIs
<1>6. /\ cleared_frame'.price = Limited(r.price) /\ cleared_frame'.quantity = r.quantity
      /\ cleared_frame'.type = r.type /\ cleared_frame'.marginal = Marginal(r, d, s)
      /\ cleared_frame'.total = MarginalBids(r, d, s) /\ book'.asks = Asks /\ book'.offers = Offers
  BY <1>2 DEF FrameOf, d, s
<1> HIDE DEF r
<1>7. /\ \A p : Demand(p)' = Asked(d, p) /\ Supply(p)' = Offered(s, p)
      /\ BookPrices' = P
      /\ NoneBelow(book'.asks) => NoneBelow(d)
      /\ Slack(book'.asks) = Slack(d) /\ Slack(book'.offers) = Slack(s)
      /\ (\A k \in DOMAIN book'.asks : book'.asks[k].quantity > 0) => \A k \in DOMAIN d : d[k].quantity > 0
  <2>1. d \in Seq(Quotes) /\ s \in Seq(Quotes)
    BY <1>3 DEF Falling, Rising
  <2>2. /\ \A p : Asked(d, p) = Asked(Asks, p)
        /\ {d[k].price : k \in DOMAIN d} = {Asks[k].price : k \in DOMAIN Asks}
        /\ NoneBelow(Asks) => NoneBelow(d)
        /\ Slack(d) = Slack(Asks)
        /\ (\A k \in DOMAIN Asks : Asks[k].quantity > 0) => \A k \in DOMAIN d : d[k].quantity > 0
    BY <1>3, <2>1, Rearranged
  <2>3. /\ \A p : Offered(s, p) = Offered(Offers, p)
        /\ Slack(s) = Slack(Offers)
        /\ {s[k].price : k \in DOMAIN s} = {Offers[k].price : k \in DOMAIN Offers}
    BY <1>3, <2>1, Rearranged
  <2>4. \A p : Demand(p)' = Asked(Asks, p) /\ Supply(p)' = Offered(Offers, p)
    BY <1>6 DEF Demand, Supply, Asked, Offered
  <2>5. BookPrices' = {Asks[k].price : k \in DOMAIN Asks} \union {Offers[k].price : k \in DOMAIN Offers}
    BY <1>6 DEF BookPrices
  <2> QED
    BY <1>6, <2>2, <2>3, <2>4, <2>5
<1>8. MaxVolume'
  BY <1>1, <1>5, <1>6, <1>7 DEF MaxVolume, TwoSidedMode
<1>9. Willing'
  BY <1>1, <1>5, <1>6, <1>7 DEF Willing, NoneBelow
<1>10. BuyerShare'
  BY <1>5, <1>6, <1>7 DEF BuyerShare, Share
<1> QED
  BY <1>1, <1>8, <1>9, <1>10 DEF CInv

LEMMA COthers == CInv /\ (Open \/ Wait \/ Advance \/ (\E b \in Bidders : Submit(b)) \/ UNCHANGED vars) => CInv'
<1> SUFFICES ASSUME CInv, Open \/ Wait \/ Advance \/ (\E b \in Bidders : Submit(b)) \/ UNCHANGED vars PROVE CInv'
  OBVIOUS
<1>1. BInv'
  BY SubmitKeeps, OthersKeepBids DEF CInv
<1>2. mode' = mode /\ cleared_frame' = cleared_frame /\ book' = book
  BY DEF Open, Wait, Advance, Submit, vars, settings, frames
<1>3. MaxVolume' <=> MaxVolume
  BY <1>2 DEF MaxVolume, TwoSidedMode, Demand, Supply, BookPrices
<1>4. Willing' <=> Willing
  BY <1>2 DEF Willing, Demand, Supply, Slack, Crowded
<1>5. BuyerShare' <=> BuyerShare
  BY <1>2 DEF BuyerShare, Share
<1> QED
  BY <1>1, <1>2, <1>3, <1>4, <1>5 DEF CInv

THEOREM CInductive == Spec => []CInv
<1>1. CInv /\ [Next]_vars => CInv'
  BY CClear, COthers DEF Next
<1> QED
  BY <1>1, CInit, PTL DEF Spec

(* MaxVolume: a market of two sides clears the largest quantity that any   *)
(* one price could clear (auction::clear_market, the walk).                *)
THEOREM TheLargestVolumeClears == Spec => []MaxVolume
<1>1. CInv => MaxVolume
  BY DEF CInv
<1> QED
  BY <1>1, CInductive, PTL

(* Willing: at the price that is posted as much is asked for, and offered, *)
(* as is cleared, in every mode and wherever the curves part               *)
(* (auction::clear_market).                                                *)
THEOREM WhoeverTradesIsWilling == Spec => []Willing
<1>1. CInv => Willing
  BY DEF CInv
<1> QED
  BY <1>1, CInductive, PTL

(* BuyerShare: what is left for the marginal buyers is no more than what   *)
(* they ask for, and not negative (auction::clear_market, marginal_frac).  *)
THEOREM TheBuyersShareIsAShare == Spec => []BuyerShare
<1>1. CInv => BuyerShare
  BY DEF CInv
<1> QED
  BY <1>1, CInductive, PTL

=============================================================================
