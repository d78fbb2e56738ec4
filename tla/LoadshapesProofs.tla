-------------------------- MODULE LoadshapesProofs --------------------------
(* Proofs about Loadshapes, for any shapes, schedules, values and rates.   *)
EXTENDS Loadshapes, FiniteSetTheorems, TLAPS

(* What decides the queues.                                                *)
Types ==
    /\ clock \in Nat
    /\ value \in [Schedules -> Values \union {Gap}] /\ next_t \in [Schedules -> Nat]
    /\ q \in [Shapes -> Int] /\ r \in [Shapes -> Int] /\ s \in [Shapes -> BOOLEAN]
    /\ load \in [Shapes -> Int] /\ t0 \in [Shapes -> Nat] /\ t2 \in [Shapes -> Int]
    /\ next_t2_ls \in Nat

Follows(k) == ScheduleOf[k] \notin Gappy

(* A shape that asks for times ahead only: every one but those of which a  *)
(* rate has the wrong sign.                                                *)
AsksAhead(k) == Pulses(k) => Fills(k)

(* When nothing is to be done no schedule such a follower has can have     *)
(* changed: what is waited for is not later than that change.              *)
Begun ==
    clock >= Start =>
        /\ \A c \in Schedules : next_t[c] > clock
        /\ \A k \in Shapes : Follows(k) =>
              /\ value[ScheduleOf[k]] # Gap
              /\ AsksAhead(k) =>
                    next_t2_ls <= t2[k] /\ t2[k] <= next_t[ScheduleOf[k]] /\ t2[k] > 0
NotBegun ==
    clock < Start => clock = 0 /\ next_t2_ls = 0 /\ \A c \in Schedules : next_t[c] = Start
Past == \A k \in Shapes : t0[k] <= clock

IInv == Types /\ StateConsistent /\ Begun /\ NotBegun /\ Past /\ LoadIsCurrent

(* The least of some natural numbers is one of them: the intervals they    *)
(* end are finite sets, which strict inclusion orders well.                *)
LEMMA Least ==
    ASSUME NEW S \in SUBSET Nat, S # {}
    PROVE  Min(S) \in S /\ \A y \in S : Min(S) <= y
<1> DEFINE T == {0..x : x \in S}
<1>1. T \subseteq FiniteSubsetsOf(Nat) /\ T # {}
  <2>1. \A x \in S : IsFiniteSet(0..x)
    BY FS_Interval
  <2>2. \A x \in S : 0..x \in FiniteSubsetsOf(Nat)
    BY <2>1 DEF FiniteSubsetsOf
  <2> QED
    BY <2>2
<1>2. PICK m \in T : \A y \in T : ~(<<y, m>> \in StrictSubsetOrdering(Nat))
  BY <1>1, FS_StrictSubsetOrderingWellFounded, WFMin
<1>3. PICK x \in S : m = 0..x
  BY <1>2
<1>4. ASSUME NEW y \in S PROVE x <= y
  <2>1. 0..y \in T /\ 0..y \in SUBSET Nat /\ 0..x \in SUBSET Nat
    OBVIOUS
  <2>2. ~(0..y \subseteq 0..x /\ 0..y # 0..x)
    BY <1>2, <1>3, <2>1 DEF StrictSubsetOrdering
  <2>3. y < x => 0..y \subseteq 0..x /\ x \in 0..x /\ x \notin 0..y
    OBVIOUS
  <2> QED
    BY <2>2, <2>3
<1> QED
  BY <1>4 DEF Min

LEMMA Quotient ==
    ASSUME NEW a \in Nat, NEW b \in Nat \ {0} PROVE a \div b \in Nat
OBVIOUS

(* More time makes a queue longer or shorter, as the sign of its rate.     *)
LEMMA Product ==
    ASSUME NEW x \in Int, NEW d \in Nat
    PROVE  /\ x * d \in Int
           /\ x >= 0 => x * d >= 0
           /\ x <= 0 => x * d <= 0
OBVIOUS

-----------------------------------------------------------------------------
(* One shape that moves: what Sync makes of its queue is within bounds,    *)
(* its state is consistent with its rate if the shape fills, and the time  *)
(* it asks for is then ahead.                                              *)
LEMMA Moved ==
    ASSUME Types, StateConsistent, NEW k \in Shapes, NEW t \in Nat, t > 0,
           value' \in [Schedules -> Values \union {Gap}], next_t' \in [Schedules -> Nat],
           \A c \in Schedules : next_t'[c] > t, Moves(k, t)
    PROVE  /\ NewQueue(k, t) \in 0..Full
           /\ Rate(k, t) \in Int /\ On(k, t) \in BOOLEAN
           /\ Fills(k) => (On(k, t) <=> Rate(k, t) < 0)
           /\ Val(k) \in Int
           /\ Ask(k, t) \in Int /\ Ask(k, t) <= next_t'[ScheduleOf[k]]
           /\ AsksAhead(k) => Ask(k, t) > 0
<1> DEFINE d == Elapsed(k, t)
           v == Val(k)
           n == next_t'[ScheduleOf[k]]
<1>1. /\ v \in Values /\ v \in Int
      /\ OnRate[k][v] \in Int /\ OffRate[k][v] \in Int
      /\ n \in Nat /\ n > t
  BY ShapesAssumption, ValuesAssumption, RatesAssumption DEF Moves, Val
<1>2. d \in Nat /\ q[k] \in 0..Full /\ r[k] \in Int /\ Full \in Nat \ {0}
  BY RatesAssumption DEF Types, Elapsed, Moves, StateConsistent
<1>3. /\ r[k] * d \in Int
      /\ r[k] >= 0 => r[k] * d >= 0
      /\ r[k] <= 0 => r[k] * d <= 0
  BY <1>2, Product
<1>4. Queue(k, t) = q[k] + r[k] * d /\ Queue(k, t) \in Int
  BY <1>2, <1>3 DEF Queue
<1> HIDE DEF d, n
<1>5. NewQueue(k, t) \in 0..Full
  <2>1. CASE r[k] >= 0
    BY <2>1, <1>2, <1>3, <1>4 DEF NewQueue, TurnsOn, TurnsOff
  <2>2. CASE r[k] < 0
    BY <2>2, <1>2, <1>3, <1>4 DEF NewQueue, TurnsOn, TurnsOff
  <2> QED
    BY <2>1, <2>2, <1>2
<1>6. On(k, t) \in BOOLEAN
  BY DEF On, TurnsOn, TurnsOff
<1>7. Rate(k, t) \in Int /\ (Fills(k) => (On(k, t) <=> Rate(k, t) < 0))
  BY <1>1, <1>6 DEF Rate, Fills
<1>8. Rate(k, t) # 0 => Left(k, t) \in Int /\ (Fills(k) => Left(k, t) >= 0)
  <2> DEFINE distance == IF On(k, t) THEN NewQueue(k, t) ELSE Full - NewQueue(k, t)
             speed == IF On(k, t) THEN -Rate(k, t) ELSE Rate(k, t)
  <2>1. distance \in Nat
    BY <1>2, <1>5
  <2>2. speed \in Int /\ (Rate(k, t) # 0 => speed # 0 /\ (Fills(k) => speed > 0))
    BY <1>6, <1>7
  <2>3. Left(k, t) = IF speed > 0 THEN distance \div speed ELSE -(distance \div (-speed))
    BY DEF Left
  <2> HIDE DEF distance, speed
  <2>4. CASE speed > 0
    BY <2>1, <2>2, <2>3, <2>4, Quotient
  <2>5. CASE speed < 0
    <3>1. -speed \in Nat \ {0}
      BY <2>2, <2>5
    <3>2. distance \div (-speed) \in Nat
      BY <2>1, <3>1, Quotient
    <3> QED
      BY <2>2, <2>3, <2>5, <3>2
  <2> QED
    BY <2>2, <2>4, <2>5
<1>9. Ask(k, t) \in Int /\ Ask(k, t) <= n /\ (AsksAhead(k) => Ask(k, t) > 0)
  <2> DEFINE own == IF ~Pulses(k) \/ Rate(k, t) = 0 THEN TS_NEVER
                    ELSE t + Left(k, t) + (IF Kind[k] = "modulated" THEN 1 ELSE 0)
  <2>1. Ask(k, t) = IF n < own THEN n ELSE own
    BY DEF Ask, n
  <2>2. CASE ~Pulses(k) \/ Rate(k, t) = 0
    <3>1. own = TS_NEVER
      BY <2>2
    <3> QED
      BY <1>1, <2>1, <3>1, TimesAssumption
  <2>3. CASE Pulses(k) /\ Rate(k, t) # 0
    <3>1. own \in Int /\ (Fills(k) => own >= t)
      BY <1>8, <2>3
    <3> HIDE DEF own
    <3> QED
      BY <1>1, <2>1, <2>3, <3>1 DEF AsksAhead
  <2> QED
    BY <2>2, <2>3
<1> QED
  BY <1>1, <1>5, <1>6, <1>7, <1>9 DEF n

(* What the shapes ask for together.                                       *)
LEMMA Asked ==
    ASSUME Types, StateConsistent, NEW t \in Nat, t > 0,
           value' \in [Schedules -> Values \union {Gap}], next_t' \in [Schedules -> Nat],
           \A c \in Schedules : next_t'[c] > t,
           ~Cached(t), loadshape_syncall(t)
    PROVE  next_t2_ls' \in Nat /\ \A k \in Shapes : next_t2_ls' <= Answer(k, t)
<1> DEFINE S == {TS_NEVER} \union {Answer(k, t) : k \in Shapes}
<1>1. \A k \in Shapes : Answer(k, t) \in Nat
  BY Moved, TimesAssumption DEF Answer, Positive, Types
<1>2. S \in SUBSET Nat /\ S # {}
  BY <1>1, TimesAssumption
<1>3. Min(S) \in S /\ \A y \in S : Min(S) <= y
  BY <1>2, Least
<1>4. next_t2_ls' = Min(S)
  BY DEF loadshape_syncall
<1> QED
  BY <1>2, <1>3, <1>4

LEMMA InitIInv == Init => IInv
<1> SUFFICES ASSUME Init PROVE IInv
  OBVIOUS
<1>1. Types
  BY RatesAssumption, TimesAssumption DEF Init, Types
<1>2. StateConsistent
  BY RatesAssumption DEF Init, StateConsistent
<1>3. Begun /\ NotBegun /\ Past /\ LoadIsCurrent
  BY TimesAssumption DEF Init, Begun, NotBegun, Past, LoadIsCurrent
<1> QED
  BY <1>1, <1>2, <1>3 DEF IInv

(* A shape whose schedule has no gaps moves with the clock.                *)
LEMMA Followed ==
    ASSUME IInv, NEW t \in Start..LastClock, t >= clock, Sync(t), NEW k \in Shapes, Follows(k)
    PROVE  /\ value'[ScheduleOf[k]] # Gap
           /\ Moves(k, t) \/ (t = clock /\ t0[k] = t /\ t < next_t[ScheduleOf[k]] /\ clock >= Start)
<1>1. t \in Nat /\ t >= Start /\ Types /\ Begun /\ NotBegun /\ Past /\ schedule_syncall(t)
  BY TimesAssumption DEF IInv, Sync
<1>2. ScheduleOf[k] \in Schedules /\ next_t[ScheduleOf[k]] \in Nat /\ t0[k] \in Nat /\ clock \in Nat
  BY <1>1, ShapesAssumption DEF Types
<1>3. /\ t < next_t[ScheduleOf[k]] => value'[ScheduleOf[k]] = value[ScheduleOf[k]]
      /\ t >= next_t[ScheduleOf[k]] => value'[ScheduleOf[k]] # Gap
  BY <1>1, <1>2 DEF schedule_syncall, Follows
<1>4. value'[ScheduleOf[k]] # Gap
  <2>1. t < next_t[ScheduleOf[k]] => clock >= Start
    BY <1>1, <1>2, TimesAssumption DEF NotBegun
  <2> QED
    BY <1>1, <1>2, <1>3, <2>1 DEF Begun
<1>5. CASE t > t0[k]
  BY <1>4, <1>5 DEF Moves, Val
<1>6. CASE ~(t > t0[k])
  BY <1>1, <1>2, <1>4, <1>6 DEF Past, Begun
<1> QED
  BY <1>4, <1>5, <1>6

(* A step at t.  Either nothing is due for the shapes, and then no         *)
(* schedule a follower has has changed, or they have all been brought up   *)
(* to date.                                                                *)
LEMMA SyncIInv ==
    ASSUME IInv, NEW t \in Start..LastClock, t >= clock, Sync(t)
    PROVE  IInv'
<1>1. /\ t \in Nat /\ t >= Start /\ t > 0 /\ clock' = t
      /\ Types /\ StateConsistent /\ Begun /\ NotBegun /\ Past /\ LoadIsCurrent
      /\ schedule_syncall(t) /\ loadshape_syncall(t)
  BY TimesAssumption DEF IInv, Sync
<1>2. value' \in [Schedules -> Values \union {Gap}]
  BY <1>1 DEF schedule_syncall
<1>3. \A c \in Schedules : /\ next_t'[c] \in Nat /\ next_t'[c] > t
                           /\ t < next_t[c] => value'[c] = value[c] /\ next_t'[c] = next_t[c]
                           /\ c \notin Gappy /\ t >= next_t[c] => value'[c] # Gap
  BY <1>1, TimesAssumption DEF schedule_syncall, Types
<1>4. next_t' \in [Schedules -> Nat]
  BY <1>1, <1>3 DEF schedule_syncall
<1>5. NotBegun'
  BY <1>1, TimesAssumption DEF NotBegun
<1>6. CASE Cached(t)
  <2>1. UNCHANGED <<shape, next_t2_ls>> /\ next_t2_ls > t /\ clock >= Start
    BY <1>1, <1>6, TimesAssumption DEF loadshape_syncall, Cached, NotBegun, Types
  <2>2. \A k \in Shapes : Follows(k) /\ AsksAhead(k) =>
           /\ t < next_t[ScheduleOf[k]]
           /\ value'[ScheduleOf[k]] = value[ScheduleOf[k]]
           /\ next_t'[ScheduleOf[k]] = next_t[ScheduleOf[k]]
    BY <1>1, <1>3, <2>1, ShapesAssumption DEF Begun, Types
  <2>3. Types' /\ StateConsistent' /\ Past'
    BY <1>1, <1>2, <1>4, <2>1 DEF Types, StateConsistent, Past, shape
  <2>4. Begun'
    <3>1. \A k \in Shapes : Follows(k) => value'[ScheduleOf[k]] # Gap
      BY <1>1, <1>3, <2>1, ShapesAssumption DEF Begun, Follows, Types
    <3>2. \A k \in Shapes : Follows(k) /\ AsksAhead(k) =>
             next_t2_ls' <= t2'[k] /\ t2'[k] <= next_t'[ScheduleOf[k]] /\ t2'[k] > 0
      BY <1>1, <2>1, <2>2 DEF Begun, shape
    <3>3. \A k \in Shapes : AsksAhead(k)' = AsksAhead(k)
      BY DEF AsksAhead, Pulses, Fills
    <3> QED
      BY <1>1, <1>3, <3>1, <3>2, <3>3 DEF Begun, Follows
  <2>5. LoadIsCurrent'
    BY <1>1, <2>1, <2>2 DEF LoadIsCurrent, Follows, AsksAhead, Pulses, shape
  <2> QED
    BY <1>5, <2>3, <2>4, <2>5 DEF IInv
<1>7. CASE ~Cached(t)
  <2>1. next_t2_ls' \in Nat /\ \A k \in Shapes : next_t2_ls' <= Answer(k, t)
    BY <1>1, <1>2, <1>3, <1>4, <1>7, Asked
  <2>2. \A k \in Shapes : Moves(k, t) =>
           /\ NewQueue(k, t) \in 0..Full /\ Rate(k, t) \in Int /\ On(k, t) \in BOOLEAN
           /\ Fills(k) => (On(k, t) <=> Rate(k, t) < 0)
           /\ Val(k) \in Int
           /\ Ask(k, t) \in Int /\ Ask(k, t) <= next_t'[ScheduleOf[k]]
           /\ AsksAhead(k) => Ask(k, t) > 0
    BY <1>1, <1>2, <1>3, <1>4, Moved
  <2>3. \A k \in Shapes :
           /\ q'[k] = IF Pulses(k) /\ Moves(k, t) THEN NewQueue(k, t) ELSE q[k]
           /\ r'[k] = IF Pulses(k) /\ Moves(k, t) THEN Rate(k, t) ELSE r[k]
           /\ s'[k] = IF Pulses(k) /\ Moves(k, t) THEN On(k, t) ELSE s[k]
           /\ load'[k] = IF Moves(k, t) THEN (IF ~Pulses(k) THEN Val(k) ELSE IF On(k, t) THEN 1 ELSE 0) ELSE load[k]
           /\ t2'[k] = IF Moves(k, t) THEN Ask(k, t) ELSE t2[k]
           /\ t0'[k] = t
    BY <1>1, <1>7 DEF loadshape_syncall, Moving
  <2>4. /\ q' \in [Shapes -> Int] /\ r' \in [Shapes -> Int] /\ s' \in [Shapes -> BOOLEAN]
        /\ load' \in [Shapes -> Int] /\ t0' \in [Shapes -> Nat] /\ t2' \in [Shapes -> Int]
    <3>1. \A k \in Shapes : /\ q'[k] \in Int /\ r'[k] \in Int /\ s'[k] \in BOOLEAN
                            /\ load'[k] \in Int /\ t0'[k] \in Nat /\ t2'[k] \in Int
      BY <1>1, <2>2, <2>3 DEF Types
    <3>2. /\ q' = [k \in Shapes |-> q'[k]] /\ r' = [k \in Shapes |-> r'[k]]
          /\ s' = [k \in Shapes |-> s'[k]] /\ load' = [k \in Shapes |-> load'[k]]
          /\ t0' = [k \in Shapes |-> t0'[k]] /\ t2' = [k \in Shapes |-> t2'[k]]
      BY <1>1, <1>7 DEF loadshape_syncall
    <3> QED
      BY <3>1, <3>2
  <2>5. Types'
    BY <1>1, <1>2, <1>4, <2>1, <2>4 DEF Types
  <2>6. StateConsistent'
    BY <1>1, <2>2, <2>3 DEF StateConsistent, Fills
  <2>7. Past'
    BY <1>1, <2>3 DEF Past, Types
  <2>8. \A k \in Shapes : Follows(k) =>
           /\ value'[ScheduleOf[k]] # Gap
           /\ Moves(k, t) \/ (t = clock /\ t0[k] = t /\ t < next_t[ScheduleOf[k]] /\ clock >= Start)
    BY Followed
  <2>9. Begun'
    <3>1. \A k \in Shapes : Follows(k) /\ AsksAhead(k) =>
             next_t2_ls' <= t2'[k] /\ t2'[k] <= next_t'[ScheduleOf[k]] /\ t2'[k] > 0
      <4> SUFFICES ASSUME NEW k \in Shapes, Follows(k), AsksAhead(k)
                   PROVE  next_t2_ls' <= t2'[k] /\ t2'[k] <= next_t'[ScheduleOf[k]] /\ t2'[k] > 0
        OBVIOUS
      <4>1. CASE Moves(k, t)
        BY <2>1, <2>2, <2>3, <4>1 DEF Answer, Positive
      <4>2. CASE ~Moves(k, t)
        <5>1. t = clock /\ t0[k] = t /\ t < next_t[ScheduleOf[k]] /\ clock >= Start
          BY <2>8, <4>2
        <5>2. t2[k] > 0 /\ t2[k] <= next_t[ScheduleOf[k]]
          BY <1>1, <5>1 DEF Begun
        <5>3. Answer(k, t) = t2[k] /\ t2'[k] = t2[k]
          BY <1>1, <2>3, <4>2, <5>1, <5>2 DEF Answer, Positive
        <5>4. next_t'[ScheduleOf[k]] = next_t[ScheduleOf[k]]
          BY <1>3, <5>1, ShapesAssumption
        <5> QED
          BY <2>1, <5>2, <5>3, <5>4
      <4> QED
        BY <4>1, <4>2
    <3>2. \A k \in Shapes : AsksAhead(k)' = AsksAhead(k)
      BY DEF AsksAhead, Pulses, Fills
    <3> QED
      BY <1>1, <1>3, <2>8, <3>1, <3>2 DEF Begun, Follows
  <2>10. LoadIsCurrent'
    BY <1>1, <1>3, <2>3, <2>8, ShapesAssumption DEF LoadIsCurrent, Follows, Pulses, Val
  <2> QED
    BY <1>5, <2>5, <2>6, <2>7, <2>9, <2>10 DEF IInv
<1> QED
  BY <1>6, <1>7

LEMMA StepIInv == IInv /\ [Next]_vars => IInv'
<1> SUFFICES ASSUME IInv, [Next]_vars PROVE IInv'
  OBVIOUS
<1>1. CASE Next
  BY <1>1, SyncIInv DEF Next
<1>2. CASE UNCHANGED vars
  BY <1>2 DEF vars, schedule, shape, IInv, Types, StateConsistent, Begun, NotBegun, Past, LoadIsCurrent
<1> QED
  BY <1>1, <1>2

LEMMA Invariant == Spec => []IInv
BY InitIInv, StepIInv, PTL DEF Spec

(* Whatever the values, the gaps, the rates and the moments at which       *)
(* shapes are brought up to date, queues stay between empty and full; and  *)
(* those of shapes that fill, every pulsed one among them, drain while the *)
(* load is on and only then.                                               *)
THEOREM QueuesConsistent == Spec => []StateConsistent
<1>1. IInv => StateConsistent
  BY DEF IInv
<1> QED
  BY <1>1, Invariant, PTL

(* An analog shape of a schedule without gaps has its value, although it   *)
(* is brought up to date only when the earliest shape is due.              *)
THEOREM LoadsFollow == Spec => []LoadIsCurrent
<1>1. IInv => LoadIsCurrent
  BY DEF IInv
<1> QED
  BY <1>1, Invariant, PTL
-----------------------------------------------------------------------------
(* The length of pulses.                                                   *)

R(k) == OnRate[k][CHOOSE v \in Values : TRUE]

(* While a load is on, its queue is what held leaves of it, and the shape  *)
(* has asked to be looked at when it is empty.                             *)
HeldThen(k) == held[k] - (clock - t0[k])
Draining(k) ==
    /\ held[k] \in Nat /\ HeldThen(k) \in Nat
    /\ t0[k] > 0 /\ clock >= Start /\ Values # {}
    /\ r[k] = -R(k)
    /\ q[k] = Full - HeldThen(k) * R(k)
    /\ t2[k] <= t0[k] + (q[k] \div R(k)) + 1
Pulsing == \A k \in Shapes : Steady(k) /\ s[k] => Draining(k)

PulseStep ==
    \A k \in Shapes : Steady(k) /\ s[k] =>
       /\ held'[k] <= Length(k) + 1
       /\ ~s'[k] => held[k] + (clock' - clock) >= Length(k) - 1

(* A quotient is how many times the divisor goes into a number.            *)
LEMMA Division ==
    ASSUME NEW a \in Int, NEW b \in Nat \ {0}, NEW x \in Int
    PROVE  /\ x * b <= a <=> x <= a \div b
           /\ (a - x * b) \div b = (a \div b) - x
<1> DEFINE d == a \div b
           m == (a - x * b) \div b
<1>1. d \in Int /\ m \in Int
  OBVIOUS
<1>2. d * b <= a /\ a < (d + 1) * b
  OBVIOUS
<1>3. m * b <= a - x * b /\ a - x * b < (m + 1) * b
  OBVIOUS
<1> HIDE DEF d, m
<1>4. x * b <= a <=> x <= d
  <2>1. ASSUME x <= d PROVE x * b <= a
    <3>1. x * b <= d * b
      BY <1>1, <2>1
    <3> QED
      BY <1>1, <1>2, <3>1
  <2>2. ASSUME x >= d + 1 PROVE x * b > a
    <3>1. x * b >= (d + 1) * b
      BY <1>1, <2>2
    <3> QED
      BY <1>1, <1>2, <3>1
  <2> QED
    BY <1>1, <2>1, <2>2
<1>5. m = d - x
  <2>1. (m + x) * b <= a /\ a < (m + x + 1) * b
    BY <1>1, <1>3
  <2>2. ASSUME m + x >= d + 1 PROVE FALSE
    <3>1. (m + x) * b >= (d + 1) * b
      BY <1>1, <2>2
    <3> QED
      BY <1>1, <1>2, <2>1, <3>1
  <2>3. ASSUME d >= m + x + 1 PROVE FALSE
    <3>1. d * b >= (m + x + 1) * b
      BY <1>1, <2>3
    <3> QED
      BY <1>1, <1>2, <2>1, <3>1
  <2> QED
    BY <1>1, <2>2, <2>3
<1> QED
  BY <1>4, <1>5 DEF d, m

(* One shape, in a step at t.                                              *)
LEMMA PulseOf ==
    ASSUME IInv, Pulsing, NEW t \in Start..LastClock, t >= clock, Sync(t), IInv',
           NEW k \in Shapes, Steady(k)
    PROVE  /\ s'[k] => Draining(k)'
           /\ s[k] => /\ held'[k] <= Length(k) + 1
                      /\ ~s'[k] => held[k] + (clock' - clock) >= Length(k) - 1
<1>1. /\ Types /\ StateConsistent /\ Begun /\ Types' /\ StateConsistent'
      /\ clock' = t /\ t \in Nat /\ t >= Start /\ Start > 0 /\ clock \in Nat
      /\ held'[k] = IF s[k] /\ s'[k] THEN held[k] + (t - clock) ELSE 0
      /\ Follows(k) /\ Pulses(k)
  BY TimesAssumption DEF IInv, Sync, Types, Steady, Follows
<1>2. /\ q[k] \in 0..Full /\ r[k] \in Int /\ s[k] \in BOOLEAN /\ t0[k] \in Nat /\ t2[k] \in Int
      /\ Full \in Nat \ {0} /\ next_t2_ls \in Nat /\ (s[k] <=> r[k] < 0)
  BY <1>1, RatesAssumption DEF Types, StateConsistent, Steady
<1>3. Values # {} => /\ R(k) \in Nat \ {0} /\ Length(k) \in Nat
                     /\ Length(k) = Full \div R(k)
                     /\ \A v \in Values : OnRate[k][v] = R(k)
  <2>1. Values # {} => (CHOOSE v \in Values : TRUE) \in Values
    OBVIOUS
  <2>2. Values # {} => R(k) \in Nat \ {0}
    BY <2>1, RatesAssumption DEF R, Steady, Fills
  <2>3. Values # {} => \A v \in Values : OnRate[k][v] = R(k)
    BY <2>1 DEF Steady, R
  <2> QED
    BY <1>2, <2>2, <2>3, Quotient DEF Length, R
<1> DEFINE e == HeldThen(k)
           D == held[k] + (t - clock)
<1>4. s[k] => /\ held[k] \in Nat /\ e \in Nat /\ D \in Nat /\ t0[k] > 0 /\ Values # {}
              /\ r[k] = -R(k) /\ q[k] = Full - e * R(k) /\ t2[k] <= t0[k] + (q[k] \div R(k)) + 1
              /\ clock >= Start /\ e = held[k] - (clock - t0[k])
  BY <1>1, <1>2 DEF Pulsing, Draining, HeldThen
<1>5. CASE Cached(t)
  <2>1. /\ q'[k] = q[k] /\ r'[k] = r[k] /\ s'[k] = s[k] /\ t0'[k] = t0[k] /\ t2'[k] = t2[k]
    BY <1>5 DEF Sync, loadshape_syncall, shape
  <2>2. ASSUME s[k] PROVE Draining(k)'
    <3>1. held'[k] = D /\ HeldThen(k)' = e /\ R(k)' = R(k)
      BY <1>1, <1>2, <1>4, <2>1, <2>2 DEF R, HeldThen
    <3> QED
      BY <1>1, <1>2, <1>4, <2>1, <2>2, <3>1 DEF Draining
  <2>3. ASSUME s[k] PROVE held'[k] <= Length(k) + 1
    <3>1. t < t2[k]
      BY <1>1, <1>2, <1>4, <1>5, <2>3 DEF Cached, Begun, AsksAhead, Steady
    <3>2. /\ R(k) \in Nat \ {0} /\ Length(k) \in Nat /\ Length(k) = Full \div R(k)
          /\ e \in Int /\ Full \in Int /\ q[k] = Full - e * R(k)
      BY <1>2, <1>3, <1>4, <2>3
    <3>3. (Full - e * R(k)) \div R(k) = (Full \div R(k)) - e
      <4> HIDE DEF e
      <4> QED
        BY <3>2, Division
    <3>4. t2[k] <= t0[k] + (Length(k) - e) + 1
      BY <1>4, <2>3, <3>2, <3>3
    <3>5. held'[k] = D
      BY <1>1, <2>1, <2>3
    <3> QED
      BY <1>1, <1>2, <1>4, <2>3, <3>1, <3>2, <3>4, <3>5
  <2> QED
    BY <2>1, <2>2, <2>3
<1>6. CASE ~Cached(t) /\ ~Moves(k, t)
  <2>1. t = clock /\ t0[k] = t
    BY <1>1, <1>6, Followed
  <2>2. /\ q'[k] = q[k] /\ r'[k] = r[k] /\ s'[k] = s[k] /\ t0'[k] = t0[k] /\ t2'[k] = t2[k]
    BY <1>6, <2>1 DEF Sync, loadshape_syncall, Moving
  <2>3. s[k] => held'[k] = held[k] /\ held[k] = e
    BY <1>1, <1>2, <1>4, <2>1, <2>2
  <2>4. ASSUME s[k] PROVE held'[k] <= Length(k) + 1
    <3>1. /\ R(k) \in Nat \ {0} /\ Length(k) \in Nat /\ Length(k) = Full \div R(k)
          /\ e \in Int /\ Full \in Int /\ q[k] = Full - e * R(k) /\ q[k] \in Nat
      BY <1>2, <1>3, <1>4, <2>4
    <3>2. e <= Length(k)
      <4> HIDE DEF e
      <4>1. e * R(k) <= Full
        BY <3>1
      <4>2. e * R(k) <= Full <=> e <= Full \div R(k)
        BY <3>1, Division
      <4> QED
        BY <3>1, <4>1, <4>2
    <3> QED
      BY <2>3, <2>4, <3>1, <3>2
  <2>5. ASSUME s[k] PROVE Draining(k)'
    <3>1. HeldThen(k)' = e /\ R(k)' = R(k)
      BY <1>1, <1>2, <2>1, <2>2, <2>3, <2>5 DEF R, HeldThen
    <3> QED
      BY <1>1, <1>2, <1>4, <2>1, <2>2, <2>3, <2>5, <3>1 DEF Draining
  <2> QED
    BY <2>2, <2>4, <2>5
<1>7. CASE ~Cached(t) /\ Moves(k, t)
  <2>1. /\ q'[k] = NewQueue(k, t) /\ r'[k] = Rate(k, t) /\ s'[k] = On(k, t)
        /\ t0'[k] = t /\ t2'[k] = Ask(k, t)
    BY <1>1, <1>7 DEF Sync, loadshape_syncall, Moving
  <2>2. Val(k) \in Values /\ Values # {} /\ OnRate[k][Val(k)] = R(k)
    <3>1. value' \in [Schedules -> Values \union {Gap}]
      BY DEF Sync, schedule_syncall
    <3>2. Val(k) \in Values
      BY <1>7, <3>1, ShapesAssumption DEF Moves, Val
    <3> QED
      BY <1>3, <3>2
  <2>3. R(k) \in Nat \ {0} /\ Length(k) \in Nat /\ Length(k) = Full \div R(k)
    BY <1>3, <2>2
  <2>4. On(k, t) => /\ Rate(k, t) = -R(k)
                    /\ Left(k, t) = NewQueue(k, t) \div R(k)
    BY <2>2, <2>3 DEF Rate, Left
  <2>5. On(k, t) => t2'[k] <= t + (q'[k] \div R(k)) + 1
    <3>1. q'[k] \in 0..Full
      BY <1>1, <1>2 DEF Types, StateConsistent
    <3>2. NewQueue(k, t) \div R(k) \in Nat
      BY <2>1, <2>3, <3>1, Quotient
    <3>3. next_t'[ScheduleOf[k]] \in Nat
      BY <1>1, ShapesAssumption DEF Types
    <3>4. On(k, t) => Rate(k, t) # 0
      BY <2>3, <2>4
    <3>5. On(k, t) => Ask(k, t) <= t + Left(k, t) + 1
      BY <1>1, <2>4, <3>2, <3>3, <3>4 DEF Ask
    <3> QED
      BY <2>1, <2>4, <3>5
  <2>6. CASE s[k]
    <3>1. Elapsed(k, t) = t - t0[k] /\ e + Elapsed(k, t) = D /\ Elapsed(k, t) \in Nat
      BY <1>1, <1>2, <1>4, <1>7, <2>6 DEF Elapsed, Moves
    <3>2. Queue(k, t) = Full - D * R(k)
      <4>1. Queue(k, t) = (Full - e * R(k)) + (-R(k)) * Elapsed(k, t)
        BY <1>4, <2>6 DEF Queue
      <4> QED
        BY <1>2, <1>4, <2>3, <2>6, <3>1, <4>1
    <3>3. /\ On(k, t) <=> ~(Full - D * R(k) <= R(k))
          /\ On(k, t) => NewQueue(k, t) = Full - D * R(k)
      BY <1>2, <1>4, <2>3, <2>6, <3>2 DEF On, TurnsOn, TurnsOff, NewQueue
    <3>4. D \in Nat /\ D * R(k) \in Int /\ (D + 1) * R(k) = D * R(k) + R(k)
      BY <1>4, <2>3, <2>6
    <3>5. CASE On(k, t)
      <4>1. (D + 1) * R(k) <= Full
        BY <1>2, <2>3, <3>3, <3>4, <3>5
      <4>2. D + 1 <= Length(k)
        <5> HIDE DEF D
        <5>1. D + 1 \in Int /\ Full \in Int
          BY <1>2, <3>4
        <5>2. (D + 1) * R(k) <= Full <=> D + 1 <= Full \div R(k)
          BY <2>3, <5>1, Division
        <5> QED
          BY <2>3, <4>1, <5>2
      <4>3. held'[k] = D /\ s'[k]
        BY <1>1, <2>1, <2>6, <3>5
      <4>4. Draining(k)'
        <5>1. HeldThen(k)' = D
          BY <1>1, <2>1, <3>4, <4>3 DEF HeldThen
        <5>2. /\ r'[k] = -R(k) /\ q'[k] = Full - D * R(k) /\ t0'[k] = t /\ clock' = t /\ R(k)' = R(k)
              /\ t2'[k] <= t + (q'[k] \div R(k)) + 1
          BY <1>1, <2>1, <2>4, <2>5, <3>3, <3>5 DEF R
        <5>3. t > 0 /\ t >= Start
          BY <1>1, TimesAssumption
        <5> HIDE DEF D
        <5> QED
          BY <2>2, <3>4, <4>3, <5>1, <5>2, <5>3 DEF Draining
      <4> QED
        BY <2>3, <3>4, <4>2, <4>3, <4>4
    <3>6. CASE ~On(k, t)
      <4>1. (D + 2) * R(k) = D * R(k) + R(k) + R(k)
        BY <2>3, <3>4
      <4>2. ~((D + 2) * R(k) <= Full)
        BY <1>2, <2>3, <3>3, <3>4, <3>6, <4>1
      <4>3. ~(D + 2 <= Length(k))
        <5> HIDE DEF D
        <5>1. D + 2 \in Int /\ Full \in Int
          BY <1>2, <3>4
        <5>2. (D + 2) * R(k) <= Full <=> D + 2 <= Full \div R(k)
          BY <2>3, <5>1, Division
        <5> QED
          BY <2>3, <4>2, <5>2
      <4>4. ~s'[k] /\ held'[k] = 0
        BY <1>1, <2>1, <3>6
      <4> QED
        BY <1>1, <2>3, <3>4, <4>3, <4>4
    <3> QED
      BY <3>5, <3>6
  <2>7. CASE ~s[k]
    <3>1. On(k, t) => TurnsOn(k, t) /\ NewQueue(k, t) = Full
      <4>1. r[k] >= 0
        BY <1>2, <2>7
      <4>2. On(k, t) => TurnsOn(k, t)
        BY <4>1 DEF On
      <4>3. TurnsOn(k, t) => ~TurnsOff(k, t)
        BY <1>2 DEF TurnsOn, TurnsOff
      <4> QED
        BY <4>2, <4>3 DEF NewQueue
    <3>2. On(k, t) => held'[k] = 0 /\ q'[k] = Full
      BY <1>1, <2>1, <2>7, <3>1
    <3>3. On(k, t) => Draining(k)'
      <4>1. On(k, t) => /\ HeldThen(k)' = 0
                        /\ r'[k] = -R(k) /\ q'[k] = Full - 0 * R(k) /\ t0'[k] = t /\ clock' = t
                        /\ t2'[k] <= t + (q'[k] \div R(k)) + 1
        BY <1>1, <1>2, <2>1, <2>3, <2>4, <2>5, <3>2 DEF HeldThen
      <4>2. R(k)' = R(k) /\ t > 0 /\ t >= Start
        BY <1>1, TimesAssumption DEF R
      <4> QED
        BY <2>2, <3>2, <4>1, <4>2 DEF Draining
    <3> QED
      BY <2>1, <2>7, <3>3
  <2> QED
    BY <2>6, <2>7
<1> QED
  BY <1>5, <1>6, <1>7

(* A pulse is as long as its parameters make it, to a second, for any      *)
(* other shapes and schedules and whenever the shape is brought up to date.*)
THEOREM PulsesHaveLength == Spec => PulseLength
<1>1. Init => Pulsing
  BY DEF Init, Pulsing
<1>2. IInv /\ Pulsing /\ [Next]_vars => Pulsing' /\ [PulseStep]_vars
  <2> SUFFICES ASSUME IInv, Pulsing, [Next]_vars PROVE Pulsing' /\ [PulseStep]_vars
    OBVIOUS
  <2>1. CASE Next
    <3>1. PICK t \in Start..LastClock : t >= clock /\ t <= step_to /\ Sync(t)
      BY <2>1 DEF Next
    <3>2. IInv'
      BY <2>1, StepIInv
    <3>3. \A k \in Shapes : Steady(k) =>
             /\ s'[k] => Draining(k)'
             /\ s[k] => /\ held'[k] <= Length(k) + 1
                        /\ ~s'[k] => held[k] + (clock' - clock) >= Length(k) - 1
      BY <3>1, <3>2, PulseOf
    <3>4. PulseStep
      BY <3>3 DEF PulseStep
    <3>5. Pulsing'
      BY <3>3 DEF Pulsing, Steady, Pulses, Fills
    <3> QED
      BY <3>4, <3>5
  <2>2. CASE UNCHANGED vars
    BY <2>2 DEF vars, schedule, shape, Pulsing, Draining, HeldThen, R, Steady, Pulses, Fills
  <2> QED
    BY <2>1, <2>2
<1>3. Spec => [][PulseStep]_vars
  BY <1>1, <1>2, InitIInv, StepIInv, PTL DEF Spec
<1> QED
  BY <1>3, PTL DEF PulseLength, PulseStep
=============================================================================
