---------------------------- MODULE ThreadsProofs ----------------------------
(* Proofs about what threads share: the lock of an object (ObjectLock),    *)
(* for any number of threads, any even modulus of its word and either      *)
(* width of the compare-and-swap, and the pools that synchronise schedules,*)
(* loadshapes and enduses (SyncPool), for any items, workers and times.    *)
EXTENDS ObjectLock, SyncPool, FiniteSetTheorems, WellFoundedInduction, TLAPS

-----------------------------------------------------------------------------
(* The lock.                                                               *)

(* Incrementing the lock word changes its parity, at the wrap too.         *)
LEMMA WrapParity ==
    ASSUME NEW n \in 0 .. Modulus - 1
    PROVE  /\ Wrap(n) \in 0 .. Modulus - 1
           /\ (Wrap(n) % 2 = 1) <=> ~(n % 2 = 1)
<1>1. Modulus \in Nat /\ Modulus >= 2 /\ Modulus % 2 = 0
  BY ModulusAssumption
<1> QED
  BY <1>1 DEF Wrap

(* A thread that is about to swap has read an even word: what makes the    *)
(* word even while nobody is inside is enough for mutual exclusion.        *)
ReadEven == \A t \in Threads : pc[t] = "cas" => value[t] % 2 # 1

(* A thread has a contribution to post unless it is done.                  *)
Counting ==
    /\ \A t \in Threads : pc[t] # "done" => left[t] > 0
    /\ \A t \in Threads : pc[t] = "done" => left[t] = 0

(* The thread that is about to store read the accumulator as it still is:  *)
(* nobody stored since.  This is where mutual exclusion is used.           *)
FreshRead == \A t \in Threads : pc[t] = "store" => reg[t] = sum

(* What the accumulator holds was posted: no contribution is there before  *)
(* its thread stores it.                                                   *)
NothingEarly ==
    \A t \in Threads : \A k \in 1 .. Posts :
        <<t, k>> \in sum => k > left[t] \/ (k = left[t] /\ pc[t] = "unlock")

LockIInv == LockTypeOK /\ MutualExclusion /\ ReadEven /\ Counting
        /\ FreshRead /\ NothingLost /\ NothingEarly

LEMMA LockInitIInv == LockInit => LockIInv
<1> SUFFICES ASSUME LockInit PROVE LockIInv
  OBVIOUS
<1> USE PostsAssumption, ModulusAssumption, RngAssumption DEF LockInit
<1>1. LockTypeOK
  BY DEF LockTypeOK, Contributions
<1>2. \A t \in Threads : pc[t] \in {"spin", "done"}
  OBVIOUS
<1>3. MutualExclusion
  BY <1>2 DEF MutualExclusion, Inside, Held
<1>4. ReadEven /\ FreshRead
  BY <1>2 DEF ReadEven, FreshRead
<1>5. Counting
  BY DEF Counting
<1>6. NothingLost /\ NothingEarly
  BY <1>2 DEF NothingLost, NothingEarly
<1> QED
  BY <1>1, <1>3, <1>4, <1>5, <1>6 DEF LockIInv

LEMMA LockStepIInv == LockIInv /\ [LockNext]_lock_vars => LockIInv'
<1> SUFFICES ASSUME LockIInv, [LockNext]_lock_vars PROVE LockIInv'
  OBVIOUS
<1> USE PostsAssumption, ModulusAssumption, RngAssumption
<1>0. /\ LockTypeOK /\ MutualExclusion /\ ReadEven /\ Counting
      /\ FreshRead /\ NothingLost /\ NothingEarly
  BY DEF LockIInv
<1>1. CASE UNCHANGED lock_vars
  <2>1. /\ LockTypeOK' /\ MutualExclusion' /\ ReadEven' /\ Counting'
        /\ FreshRead' /\ NothingLost' /\ NothingEarly'
    BY <1>0, <1>1 DEF lock_vars, LockTypeOK, MutualExclusion, Inside, Held, ReadEven,
       Counting, FreshRead, NothingLost, NothingEarly
  <2> QED BY <2>1 DEF LockIInv
<1>2. CASE Draw
  <2>1. LockTypeOK'
    BY <1>0, <1>2 DEF Draw, LockTypeOK
  <2>2. /\ MutualExclusion' /\ ReadEven' /\ Counting'
        /\ FreshRead' /\ NothingLost' /\ NothingEarly'
    BY <1>0, <1>2 DEF Draw, MutualExclusion, Inside, Held, ReadEven,
       Counting, FreshRead, NothingLost, NothingEarly
  <2> QED BY <2>1, <2>2 DEF LockIInv
<1>3. ASSUME NEW t \in Threads, Read(t) PROVE LockIInv'
  <2>1. LockTypeOK'
    BY <1>0, <1>3 DEF Read, LockTypeOK
  <2>2. MutualExclusion'
    BY <1>0, <1>3 DEF Read, LockTypeOK, MutualExclusion, Inside, Held
  <2>3. ReadEven'
    BY <1>0, <1>3 DEF Read, LockTypeOK, ReadEven, Held
  <2>4. Counting' /\ FreshRead'
    BY <1>0, <1>3 DEF Read, LockTypeOK, Counting, FreshRead
  <2>5. NothingLost' /\ NothingEarly'
    BY <1>0, <1>3 DEF Read, LockTypeOK, NothingLost, NothingEarly
  <2> QED BY <2>1, <2>2, <2>3, <2>4, <2>5 DEF LockIInv
<1>4. ASSUME NEW t \in Threads, Cas(t) PROVE LockIInv'
  <2>0. pc[t] = "cas" /\ value[t] \in 0 .. Modulus - 1
    BY <1>0, <1>4 DEF Cas, LockTypeOK
  <2>1. LockTypeOK'
    BY <1>0, <1>4, <2>0, WrapParity DEF Cas, LockTypeOK
  <2>2. MutualExclusion'
    <3>1. CASE Matches(t)
      <4>1. ~Held /\ Held'
        BY <1>0, <1>4, <2>0, <3>1, WrapParity DEF Cas, Matches, Held, ReadEven
      <4>2. \A u \in Threads : ~Inside(u)
        BY <1>0, <4>1 DEF MutualExclusion
      <4>3. \A u \in Threads : Inside(u)' <=> u = t
        BY <1>0, <1>4, <3>1, <4>2 DEF Cas, LockTypeOK, Inside
      <4> QED BY <4>1, <4>3 DEF MutualExclusion
    <3>2. CASE ~Matches(t)
      BY <1>0, <1>4, <3>2 DEF Cas, LockTypeOK, MutualExclusion, Inside, Held
    <3> QED BY <3>1, <3>2
  <2>3. ReadEven'
    BY <1>0, <1>4 DEF Cas, LockTypeOK, ReadEven
  <2>4. Counting' /\ FreshRead'
    BY <1>0, <1>4 DEF Cas, LockTypeOK, Counting, FreshRead
  <2>5. NothingLost' /\ NothingEarly'
    BY <1>0, <1>4 DEF Cas, LockTypeOK, NothingLost, NothingEarly
  <2> QED BY <2>1, <2>2, <2>3, <2>4, <2>5 DEF LockIInv
<1>5. ASSUME NEW t \in Threads, Load(t) PROVE LockIInv'
  <2>1. LockTypeOK'
    BY <1>0, <1>5 DEF Load, LockTypeOK
  <2>2. MutualExclusion'
    BY <1>0, <1>5 DEF Load, LockTypeOK, MutualExclusion, Inside, Held
  <2>3. ReadEven' /\ Counting' /\ FreshRead'
    BY <1>0, <1>5 DEF Load, LockTypeOK, ReadEven, Counting, FreshRead
  <2>4. NothingLost' /\ NothingEarly'
    BY <1>0, <1>5 DEF Load, LockTypeOK, NothingLost, NothingEarly
  <2> QED BY <2>1, <2>2, <2>3, <2>4 DEF LockIInv
<1>6. ASSUME NEW t \in Threads, Store(t) PROVE LockIInv'
  <2>0. /\ left[t] \in 1 .. Posts
        /\ sum' = sum \union {<<t, left[t]>>}
    BY <1>0, <1>6 DEF Store, LockTypeOK, Counting, FreshRead, Mine
  <2>1. LockTypeOK'
    BY <1>0, <1>6, <2>0 DEF Store, LockTypeOK, Contributions
  <2>2. MutualExclusion'
    BY <1>0, <1>6 DEF Store, LockTypeOK, MutualExclusion, Inside, Held
  <2>3. ReadEven' /\ Counting'
    BY <1>0, <1>6 DEF Store, LockTypeOK, ReadEven, Counting
  <2>4. FreshRead'
    BY <1>0, <1>6 DEF Store, LockTypeOK, MutualExclusion, Inside, FreshRead
  <2>5. NothingLost' /\ NothingEarly'
    BY <1>0, <1>6, <2>0 DEF Store, LockTypeOK, NothingLost, NothingEarly
  <2> QED BY <2>1, <2>2, <2>3, <2>4, <2>5 DEF LockIInv
<1>7. ASSUME NEW t \in Threads, Unlock(t) PROVE LockIInv'
  <2>0. /\ pc[t] = "unlock" /\ word \in 0 .. Modulus - 1
        /\ left[t] \in 1 .. Posts
    BY <1>0, <1>7 DEF Unlock, LockTypeOK, Counting
  <2>1. LockTypeOK'
    BY <1>0, <1>7, <2>0, WrapParity DEF Unlock, LockTypeOK
  <2>2. MutualExclusion'
    <3>1. Held /\ ~Held'
      BY <1>0, <1>7, <2>0, WrapParity DEF Unlock, Held, MutualExclusion, Inside
    <3>2. \A u \in Threads : ~Inside(u)'
      BY <1>0, <1>7, <2>0 DEF Unlock, LockTypeOK, MutualExclusion, Inside
    <3> QED BY <3>1, <3>2 DEF MutualExclusion
  <2>3. ReadEven' /\ FreshRead'
    BY <1>0, <1>7 DEF Unlock, LockTypeOK, ReadEven, FreshRead
  <2>4. Counting'
    BY <1>0, <1>7, <2>0 DEF Unlock, LockTypeOK, Counting
  <2>5. NothingLost' /\ NothingEarly'
    BY <1>0, <1>7, <2>0 DEF Unlock, LockTypeOK, NothingLost, NothingEarly
  <2> QED BY <2>1, <2>2, <2>3, <2>4, <2>5 DEF LockIInv
<1> QED
  BY <1>1, <1>2, <1>3, <1>4, <1>5, <1>6, <1>7 DEF LockNext, Thread, Terminated

(* The inductive invariant holds in every behaviour.                       *)
THEOREM LockInductive == LockSpec => []LockIInv
<1> QED
  BY LockInitIInv, LockStepIInv, PTL DEF LockSpec

(* The lock word and the program counters stay in their types.             *)
THEOREM LockTypeCorrect == LockSpec => []LockTypeOK
<1>1. LockIInv => LockTypeOK
  BY DEF LockIInv
<1> QED
  BY <1>1, LockInductive, PTL

(* lock()/unlock(): never two threads inside, through every wrap.          *)
THEOREM Exclusion == LockSpec => []MutualExclusion
<1>1. LockIInv => MutualExclusion
  BY DEF LockIInv
<1> QED
  BY <1>1, LockInductive, PTL

(* lock.h: "Without locking ... the first one's would be lost"; with it no *)
(* contribution is.                                                        *)
THEOREM NoContributionLost == LockSpec => []NothingLost
<1>1. LockIInv => NothingLost
  BY DEF LockIInv
<1> QED
  BY <1>1, LockInductive, PTL

(* Safety part of the refinement: every step of the lock and its users is  *)
(* one posted contribution, posted for the first time, or nothing.         *)
THEOREM ImplementsAccumulator == LockSpec => Acc!Init /\ [][Acc!Next]_sum
<1>1. LockInit => Acc!Init
  BY DEF LockInit, Acc!Init
<1>2. LockIInv /\ [LockNext]_lock_vars => [Acc!Next]_sum
  <2> SUFFICES ASSUME LockIInv, [LockNext]_lock_vars PROVE [Acc!Next]_sum
    OBVIOUS
  <2>1. ASSUME NEW t \in Threads, Store(t) PROVE Acc!Next
    <3>1. /\ left[t] \in 1 .. Posts
          /\ sum' = sum \union {<<t, left[t]>>}
      BY <2>1, PostsAssumption
         DEF LockIInv, Store, LockTypeOK, Counting, FreshRead, Mine
    <3>2. <<t, left[t]>> \notin sum
      BY <2>1, <3>1, PostsAssumption DEF LockIInv, Store, NothingEarly, LockTypeOK
    <3>3. <<t, left[t]>> \in Acc!Contributions
      BY <3>1 DEF Acc!Contributions
    <3> QED BY <3>1, <3>2, <3>3 DEF Acc!Next, Acc!Post
  <2>2. ASSUME NEW t \in Threads, Read(t) \/ Cas(t) \/ Load(t) \/ Unlock(t)
        PROVE  UNCHANGED sum
    BY <2>2 DEF Read, Cas, Load, Unlock
  <2>3. Draw \/ UNCHANGED lock_vars => UNCHANGED sum
    BY DEF Draw, lock_vars
  <2> QED
    BY <2>1, <2>2, <2>3 DEF LockNext, Thread, Terminated
<1> QED
  BY <1>1, <1>2, LockInductive, PTL DEF LockSpec

-----------------------------------------------------------------------------
(* The pools.                                                              *)

(* A round is open: the workers have been told, the call has not returned. *)
Open == {"test", "asleep", "relock", "return"}
Unfinished == {w \in Workers : ran[w] # run \/ wpc[w] = "lockdone"}

(* The threads are there from the first call on.                           *)
Crew ==
    /\ mpc \notin {"idle", "enter"} => Threaded /\ \A w \in Workers : wpc[w] # "absent"
    /\ ~Threaded => \A w \in Workers : wpc[w] = "absent"
    /\ \A v, w \in Workers : wpc[v] = "absent" => wpc[w] = "absent"

(* Every worker has marked every round that is over; donecount is the      *)
(* number of those that have yet to report this one.                       *)
Rounds ==
    /\ mpc \notin Open => \A w \in Workers :
          ran[w] = run /\ t0[w] = next_t1 /\ wpc[w] \notin {"work", "lockdone"}
    /\ mpc \in {"lockstart", "publish"} => donecount = Cardinality(Workers)
    /\ mpc \in Open =>
          /\ next_t1 = t1 /\ donecount = Cardinality(Unfinished)
          /\ \A w \in Workers : /\ ran[w] = run => t0[w] = next_t1
                                /\ wpc[w] = "work" => ran[w] # run
                                /\ wpc[w] = "lockdone" => ran[w] = run
                                /\ ran[w] \in {run - 1, run}
    /\ mpc = "return" => donecount = 0
    /\ run <= calls /\ (mpc \in {"enter", "lockstart", "publish"} => run < calls)
    /\ mpc # "idle" => calls > 0

(* x is the earliest time the items of J have answered.                    *)
Earliest(x, J) ==
    x \in {due[i] : i \in J} \union {Never} /\ x <= Never /\ \A i \in J : x <= due[i]

(* The items a worker has done in the round, and those that are reported.  *)
Over(w) == IF wpc[w] = "work" THEN ItemsOf[w] \ todo[w]
           ELSE IF ran[w] = run THEN ItemsOf[w] ELSE {}
Gathered == {i \in Items : \E w \in Workers \ Unfinished : i \in ItemsOf[w]}

(* The next change of a schedule is later than the call's time.            *)
Ahead(i) == kind = "schedule" => t1 < due[i]

(* What has been done in this round is marked with this call, schedules    *)
(* are ahead, and nobody's answer is left out of the times that are        *)
(* reduced.                                                                *)
Answered ==
    mpc \in Open =>
       /\ \A w \in Workers : /\ \A i \in Over(w) : synced[i] = calls /\ Ahead(i)
                             /\ wpc[w] \in {"work", "lockdone"} => Earliest(t2[w], Over(w))
                             /\ wpc[w] = "work" => todo[w] \subseteq ItemsOf[w]
       /\ Earliest(next_t2, Gathered)

(* Between the calls.  Before the first one next_t2 is zero, which is not  *)
(* ahead of any time.                                                      *)
Result ==
    /\ mpc = "idle" /\ calls > 0 =>
          /\ Earliest(next_t2, Items) /\ result = next_t2
          /\ \A i \in Items : /\ synced[i] = calls \/ (ReturnsEarly /\ t1 < due[i])
                             /\ Ahead(i)
    /\ mpc = "enter" => Earliest(next_t2, Items) \/ next_t2 = 0
    /\ mpc = "idle" /\ calls = 0 => next_t2 = 0

PoolIInv == TypeOK /\ Crew /\ Rounds /\ Answered /\ Result

USE DEF Open, Ahead

LEMMA Constants ==
    /\ LastTime \in Nat /\ FirstTime \in Nat /\ Never \in Nat /\ Never > LastTime
    /\ MaxCalls \in Nat /\ Horizon \in Nat /\ Back \in Nat /\ Minute \in Nat \ {0}
    /\ IsFiniteSet(Workers) /\ Workers # {} /\ Cardinality(Workers) \in Nat
    /\ \A w \in Workers : ItemsOf[w] \subseteq Items
    /\ ItemsOf \in [Workers -> SUBSET Items]
    /\ \A i \in Items : \E w \in Workers : i \in ItemsOf[w]
    /\ \A v, w \in Workers : v # w => ItemsOf[v] \intersect ItemsOf[w] = {}
<1>1. IsFiniteSet(Workers) /\ Cardinality(Workers) >= 2
  BY ShareAssumption
<1>2. Workers # {} /\ Cardinality(Workers) \in Nat
  BY <1>1, FS_EmptySet, FS_CardinalityType
<1> QED
  BY <1>1, <1>2, PeriodAssumption, TimeAssumption, CallsAssumption, ShareAssumption

(* What an item answers is a time; a schedule's is later than the time it  *)
(* is asked at, also when it is one that it has said before.               *)
LEMMA Later ==
    ASSUME NEW i \in Items, NEW t \in Nat, t <= LastTime, NEW d \in Nat, kind \in Kinds,
           NEW x \in Due(i, t, d)
    PROVE  x \in Nat /\ (kind = "schedule" => x > t)
<1>1. CASE kind = "schedule"
  <2>1. x \in schedule_sync(i, t, d)
    BY <1>1 DEF Due
  <2>2. CASE ~(d = Never \/ t >= d)
    BY <2>1, <2>2 DEF schedule_sync
  <2>3. CASE (d = Never \/ t >= d) /\ dtnext(i, t) = 0
    BY <2>1, <2>3, Constants DEF schedule_sync
  <2>4. CASE (d = Never \/ t >= d) /\ dtnext(i, t) # 0
    <3>1. x = t + dtnext(i, t) * Minute - (t % Minute)
      BY <2>1, <2>4 DEF schedule_sync
    <3>2. t % Minute \in Nat /\ t % Minute < Minute /\ t \div Minute \in Nat
      BY Constants
    <3>3. dtnext(i, t) \in Nat \ {0}
      <4> DEFINE m == t \div Minute
      <4>1. Period[i] \in Nat \ {0} /\ dtnext(i, t) = Period[i] - (m % Period[i])
        BY <2>4, PeriodAssumption DEF dtnext
      <4>2. m \in Nat
        BY <3>2
      <4> HIDE DEF m
      <4>3. m % Period[i] \in Nat /\ m % Period[i] < Period[i]
        BY <4>1, <4>2
      <4> QED
        BY <4>1, <4>3
    <3>4. dtnext(i, t) * Minute \in Nat /\ dtnext(i, t) * Minute >= Minute
      BY <3>3, Constants
    <3> QED
      BY <3>1, <3>2, <3>4, Constants
  <2> QED
    BY <2>2, <2>3, <2>4
<1>2. CASE kind \in {"loadshape", "enduse"}
  BY <1>2, Constants DEF Due, loadshape_sync, enduse_sync
<1> QED
  BY <1>1, <1>2, KindsAssumption

(* The earliest of two sets is the lesser of the earliest of each.         *)
LEMMA EarliestOfBoth ==
    ASSUME due \in [Items -> Nat], NEW J \in SUBSET Items, NEW K \in SUBSET Items,
           NEW x, NEW y, Earliest(x, J), Earliest(y, K)
    PROVE  Earliest(Lesser(x, y), J \union K)
<1>1. x \in Nat /\ y \in Nat
  BY Constants DEF Earliest
<1>2. CASE x < y
  BY <1>1, <1>2, Constants DEF Earliest, Lesser
<1>3. CASE ~(x < y)
  BY <1>1, <1>3, Constants DEF Earliest, Lesser
<1> QED
  BY <1>2, <1>3

(* There is an earliest of any times, and only one.                        *)
LEMMA Least ==
    ASSUME NEW S \in SUBSET Nat, S # {}
    PROVE  Min(S) \in S /\ \A y \in S : Min(S) <= y
<1> DEFINE T == {0..x : x \in S}
<1>1. T \subseteq FiniteSubsetsOf(Nat) /\ T # {}
  <2>1. \A x \in S : IsFiniteSet(0..x)
    BY FS_Interval
  <2>2. \A x \in S : 0..x \in FiniteSubsetsOf(Nat)
    BY <2>1 DEF FiniteSubsetsOf
  <2> QED
    BY <2>2
<1>2. PICK m \in T : \A y \in T : ~(<<y, m>> \in StrictSubsetOrdering(Nat))
  BY <1>1, FS_StrictSubsetOrderingWellFounded, WFMin
<1>3. PICK x \in S : m = 0..x
  BY <1>2
<1>4. ASSUME NEW y \in S PROVE x <= y
  <2>1. 0..y \in T /\ 0..y \in SUBSET Nat /\ 0..x \in SUBSET Nat
    OBVIOUS
  <2>2. ~(0..y \subseteq 0..x /\ 0..y # 0..x)
    BY <1>2, <1>3, <2>1 DEF StrictSubsetOrdering
  <2>3. y < x => 0..y \subseteq 0..x /\ x \in 0..x /\ x \notin 0..y
    OBVIOUS
  <2> QED
    BY <2>2, <2>3
<1> QED
  BY <1>4 DEF Min

LEMMA EarliestIsMin ==
    ASSUME due \in [Items -> Nat], NEW x
    PROVE  Earliest(x, Items) <=> x = Min({due[i] : i \in Items} \union {Never})
<1> DEFINE S == {due[i] : i \in Items} \union {Never}
<1>1. S \in SUBSET Nat /\ S # {} /\ Never \in S /\ \A i \in Items : due[i] \in S
  BY Constants
<1>2. Min(S) \in S /\ \A y \in S : Min(S) <= y
  <2> HIDE DEF S
  <2> QED
    BY <1>1, Least
<1>3. Earliest(x, Items) <=> x \in S /\ \A y \in S : x <= y
  BY DEF Earliest
<1>4. \A a, b \in Nat : a <= b /\ b <= a => a = b
  OBVIOUS
<1> HIDE DEF S
<1>5. ASSUME x \in S, \A y \in S : x <= y PROVE x = Min(S)
  BY <1>1, <1>2, <1>4, <1>5
<1> QED
  BY <1>2, <1>3, <1>5 DEF S

LEMMA PoolInitIInv == Init => PoolIInv
<1> SUFFICES ASSUME Init PROVE PoolIInv
  OBVIOUS
<1>1. TypeOK
  BY Constants DEF Init, TypeOK
<1>2. Crew /\ Rounds /\ Answered /\ Result
  BY DEF Init, Crew, Rounds, Answered, Result
<1> QED
  BY <1>1, <1>2 DEF PoolIInv

-----------------------------------------------------------------------------
(* The main thread.                                                        *)

LEMMA CallIInv == PoolIInv /\ Call => PoolIInv'
<1> SUFFICES ASSUME PoolIInv, Call PROVE PoolIInv'
  OBVIOUS
<1>1. TypeOK'
  BY Constants DEF PoolIInv, TypeOK, Call, pool, own, round, locks, item
<1>2. Crew' /\ Answered'
  BY DEF PoolIInv, Call, Crew, Answered, pool, own, round, locks, item
<1>4. Result'
  <2>1. mpc' = "enter" /\ due' = due /\ next_t2' = next_t2
    BY DEF Call, round, item
  <2>2. Earliest(next_t2, Items) \/ next_t2 = 0
    BY DEF PoolIInv, TypeOK, Call, Result
  <2>3. Earliest(next_t2, Items) => Earliest(next_t2, Items)'
    BY <2>1 DEF Earliest
  <2> QED
    BY <2>1, <2>2, <2>3 DEF Result
<1>3. Rounds'
  BY Constants DEF PoolIInv, TypeOK, Call, Rounds, Unfinished, pool, own, round, locks, item
<1> QED
  BY <1>1, <1>2, <1>3, <1>4 DEF PoolIInv

LEMMA SetupIInv == PoolIInv /\ Setup => PoolIInv'
<1> SUFFICES ASSUME PoolIInv, Setup PROVE PoolIInv'
  OBVIOUS
<1> USE DEF pool, call, own, round, locks, item
<1>1. TypeOK'
  BY DEF PoolIInv, TypeOK, Setup
<1>2. Crew' /\ Answered' /\ Result'
  BY DEF PoolIInv, Setup, Crew, Answered, Result, Earliest
<1>3. Rounds'
  BY DEF PoolIInv, TypeOK, Setup, Rounds
<1> QED
  BY <1>1, <1>2, <1>3 DEF PoolIInv

LEMMA ReturnAgainIInv == PoolIInv /\ ReturnAgain => PoolIInv'
<1> SUFFICES ASSUME PoolIInv, ReturnAgain PROVE PoolIInv'
  OBVIOUS
<1> USE DEF pool, call, own, round, locks, item
<1>1. TypeOK'
  BY DEF PoolIInv, TypeOK, ReturnAgain
<1>2. Crew' /\ Answered'
  BY DEF PoolIInv, ReturnAgain, Crew, Answered
<1>3. Rounds'
  BY DEF PoolIInv, TypeOK, ReturnAgain, Rounds
<1>4. Result'
  <2>1. kind # "enduse" /\ next_t2 > t1
    BY DEF ReturnAgain, StillAhead, ReturnsEarly
  <2>2. Earliest(next_t2, Items)
    BY <2>1 DEF PoolIInv, TypeOK, ReturnAgain, Result
  <2>3. \A i \in Items : t1 < due[i]
    BY <2>1, <2>2, Constants DEF PoolIInv, TypeOK, Earliest
  <2>4. Earliest(next_t2, Items)'
    BY <2>2 DEF ReturnAgain, Earliest
  <2>5. calls > 0
    BY DEF PoolIInv, Rounds, ReturnAgain
  <2> QED
    BY <2>3, <2>4, <2>5 DEF ReturnAgain, StillAhead, ReturnsEarly, Result, Ahead
<1> QED
  BY <1>1, <1>2, <1>3, <1>4 DEF PoolIInv

LEMMA DirectIInv == PoolIInv /\ Direct => PoolIInv'
<1> SUFFICES ASSUME PoolIInv, Direct PROVE PoolIInv'
  OBVIOUS
<1> USE DEF pool, call, own, round, locks, item
<1>1. \A i \in Items : due'[i] \in Nat /\ (kind = "schedule" => due'[i] > t1)
  <2> SUFFICES ASSUME NEW i \in Items PROVE due'[i] \in Nat /\ (kind = "schedule" => due'[i] > t1)
    OBVIOUS
  <2>1. t1 \in Nat /\ t1 <= LastTime /\ due[i] \in Nat /\ kind \in Kinds
    BY Constants DEF PoolIInv, TypeOK
  <2>2. due'[i] \in Due(i, t1, due[i])
    BY DEF Direct
  <2> QED
    BY <2>1, <2>2, Later
<1>2. due' \in [Items -> Nat]
  BY <1>1 DEF Direct
<1>3. next_t2' = Min({due'[i] : i \in Items} \union {Never})
  BY DEF Direct
<1>4. next_t2' \in 0 .. Never
  <2> DEFINE S == {due'[i] : i \in Items} \union {Never}
  <2>1. S \in SUBSET Nat /\ Never \in S
    BY <1>1, Constants
  <2>2. Min(S) \in S /\ \A y \in S : Min(S) <= y
    <3> HIDE DEF S
    <3> QED
      BY <2>1, Least
  <2> QED
    BY <1>3, <2>1, <2>2, Constants
<1>5. Earliest(next_t2, Items)'
  <2> DEFINE S == {due'[i] : i \in Items} \union {Never}
  <2>1. S \in SUBSET Nat /\ S # {} /\ Never \in S /\ \A i \in Items : due'[i] \in S
    BY <1>1, Constants
  <2>2. Min(S) \in S /\ \A y \in S : Min(S) <= y
    <3> HIDE DEF S
    <3> QED
      BY <2>1, Least
  <2>3. next_t2' \in S /\ \A y \in S : next_t2' <= y
    BY <1>3, <2>2
  <2> QED
    BY <2>3 DEF Earliest
<1>6. TypeOK'
  BY <1>2, <1>4, Constants DEF PoolIInv, TypeOK, Direct
<1>7. Crew' /\ Rounds' /\ Answered'
  BY DEF PoolIInv, Direct, Crew, Rounds, Answered
<1>8. Result'
  <2>1. \A i \in Items : synced'[i] = calls /\ Ahead(i)'
    BY <1>1, Constants DEF PoolIInv, TypeOK, Direct, Ahead
  <2>2. calls > 0
    BY DEF PoolIInv, Rounds, Direct
  <2> QED
    BY <1>5, <2>1, <2>2 DEF Direct, Result
<1> QED
  BY <1>6, <1>7, <1>8 DEF PoolIInv

LEMMA LockDoneIInv == PoolIInv /\ LockDone => PoolIInv'
<1> SUFFICES ASSUME PoolIInv, LockDone PROVE PoolIInv'
  OBVIOUS
<1> USE DEF pool, call, own, round, locks, item
<1>1. TypeOK'
  BY Constants DEF PoolIInv, TypeOK, LockDone
<1>2. Crew' /\ Answered' /\ Result'
  BY DEF PoolIInv, TypeOK, LockDone, Crew, Answered, Result, Ready
<1>3. Rounds'
  BY DEF PoolIInv, LockDone, Rounds
<1> QED
  BY <1>1, <1>2, <1>3 DEF PoolIInv

LEMMA LockStartIInv == PoolIInv /\ LockStart => PoolIInv'
<1> SUFFICES ASSUME PoolIInv, LockStart PROVE PoolIInv'
  OBVIOUS
<1> USE DEF pool, call, own, round, locks, item
<1>1. TypeOK'
  BY Constants DEF PoolIInv, TypeOK, LockStart
<1>2. Crew' /\ Answered' /\ Result' /\ Rounds'
  BY DEF PoolIInv, LockStart, Crew, Answered, Result, Rounds
<1> QED
  BY <1>1, <1>2 DEF PoolIInv

(* When a round opens nobody has done anything in it.                      *)
LEMMA PublishIInv == PoolIInv /\ Publish => PoolIInv'
<1> SUFFICES ASSUME PoolIInv, Publish PROVE PoolIInv'
  OBVIOUS
<1> USE DEF pool, call, own, round, locks, item
<1>1. TypeOK'
  BY Constants DEF PoolIInv, TypeOK, Rounds, Publish
<1>2. Crew'
  BY DEF PoolIInv, TypeOK, Publish, Crew
<1>3. \A w \in Workers : ran'[w] = run /\ run' = run + 1 /\ run \in Nat /\ wpc'[w] \notin {"work", "lockdone"}
  BY DEF PoolIInv, TypeOK, Rounds, Publish
<1>4. Unfinished' = Workers
  BY <1>3 DEF Unfinished
<1>5. Rounds'
  BY <1>3, <1>4, Constants DEF PoolIInv, TypeOK, Rounds, Publish
<1>6. Answered'
  <2>1. \A w \in Workers : Over(w)' = {}
    BY <1>3 DEF Over
  <2>2. Gathered' = {}
    BY <1>4 DEF Gathered
  <2> QED
    BY <1>3, <2>1, <2>2, Constants DEF Publish, Answered, Earliest
<1>7. Result'
  BY DEF Publish, Result
<1> QED
  BY <1>1, <1>2, <1>5, <1>6, <1>7 DEF PoolIInv

LEMMA TestDoneIInv == PoolIInv /\ TestDone => PoolIInv'
<1> SUFFICES ASSUME PoolIInv, TestDone PROVE PoolIInv'
  OBVIOUS
<1> USE DEF pool, call, own, round, locks, item
<1>1. TypeOK'
  BY DEF PoolIInv, TypeOK, TestDone
<1>2. Crew' /\ Result'
  BY DEF PoolIInv, TestDone, Crew, Result
<1>3. Rounds'
  BY DEF PoolIInv, TypeOK, TestDone, Rounds, Unfinished
<1>4. Answered'
  BY DEF PoolIInv, TestDone, Answered, Earliest, Over, Gathered, Unfinished
<1> QED
  BY <1>1, <1>2, <1>3, <1>4 DEF PoolIInv

LEMMA RelockDoneIInv == PoolIInv /\ RelockDone => PoolIInv'
<1> SUFFICES ASSUME PoolIInv, RelockDone PROVE PoolIInv'
  OBVIOUS
<1> USE DEF pool, call, own, round, locks, item
<1>1. TypeOK'
  BY DEF PoolIInv, TypeOK, RelockDone
<1>2. Crew' /\ Result'
  BY DEF PoolIInv, RelockDone, Crew, Result
<1>3. Rounds'
  BY DEF PoolIInv, RelockDone, Rounds, Unfinished
<1>4. Answered'
  BY DEF PoolIInv, RelockDone, Answered, Earliest, Over, Gathered, Unfinished
<1> QED
  BY <1>1, <1>2, <1>3, <1>4 DEF PoolIInv

(* When the call returns every worker has reported, and with them every    *)
(* item.                                                                   *)
LEMMA ReturnIInv == PoolIInv /\ Return => PoolIInv'
<1> SUFFICES ASSUME PoolIInv, Return PROVE PoolIInv'
  OBVIOUS
<1> USE DEF pool, call, own, round, locks, item
<1>1. Unfinished = {}
  <2>1. Cardinality(Unfinished) = 0
    BY DEF PoolIInv, Rounds, Return
  <2>2. IsFiniteSet(Unfinished)
    BY Constants, FS_Subset DEF Unfinished
  <2> QED
    BY <2>1, <2>2, FS_EmptySet
<1>2. Gathered = Items
  BY <1>1, Constants DEF Gathered
<1>3. Earliest(next_t2, Items)
  BY <1>2 DEF PoolIInv, Answered, Return
<1>4. result' = next_t2
  BY <1>3, Constants DEF Return, Lesser, PoolIInv, TypeOK, Earliest
<1>5. \A w \in Workers : ran[w] = run /\ wpc[w] \notin {"work", "lockdone"} /\ Over(w) = ItemsOf[w]
  BY <1>1 DEF Unfinished, PoolIInv, Rounds, Return, Over
<1>6. \A i \in Items : synced[i] = calls /\ Ahead(i)
  <2> SUFFICES ASSUME NEW i \in Items PROVE synced[i] = calls /\ Ahead(i)
    OBVIOUS
  <2>1. PICK w \in Workers : i \in ItemsOf[w]
    BY Constants
  <2> QED
    BY <1>5, <2>1 DEF PoolIInv, Answered, Return
<1>7. TypeOK'
  BY <1>4, Constants DEF PoolIInv, TypeOK, Return
<1>8. Crew' /\ Answered'
  BY DEF PoolIInv, Return, Crew, Answered
<1>9. Rounds'
  BY <1>5 DEF PoolIInv, Return, Rounds
<1>10. Result'
  <2>1. \A i \in Items : synced'[i] = calls' /\ Ahead(i)'
    BY <1>6 DEF Return, Ahead
  <2>2. Earliest(next_t2, Items)'
    BY <1>3 DEF Return, Earliest
  <2>3. calls > 0
    BY DEF PoolIInv, Rounds, Return
  <2> QED
    BY <1>4, <2>1, <2>2, <2>3 DEF Return, Result
<1> QED
  BY <1>7, <1>8, <1>9, <1>10 DEF PoolIInv

-----------------------------------------------------------------------------
(* A worker.                                                               *)

(* A worker that is not absent is one of a call's threads.                 *)
LEMMA Present ==
    ASSUME Crew, NEW w \in Workers, wpc[w] # "absent"
    PROVE  Threaded /\ \A v \in Workers : wpc[v] # "absent"
BY DEF Crew

LEMMA ItemLockIInv == ASSUME PoolIInv, NEW w \in Workers, Lock(w) PROVE PoolIInv'
<1> USE DEF pool, call, own, round, locks, item, Go
<1>1. /\ wpc' = [wpc EXCEPT ![w] = "test"] /\ wpc[w] = "lock"
      /\ wpc \in [Workers -> {"absent", "lock", "test", "asleep", "work", "lockdone"}]
  BY DEF PoolIInv, TypeOK, Lock
<1>2. TypeOK'
  BY <1>1 DEF PoolIInv, TypeOK, Lock
<1>3. Crew'
  BY <1>1, Present DEF PoolIInv, Lock, Crew
<1>4. Unfinished' = Unfinished /\ Gathered' = Gathered /\ \A v \in Workers : Over(v)' = Over(v)
  BY <1>1 DEF Lock, Unfinished, Gathered, Over
<1>5. Rounds'
  BY <1>1, <1>4 DEF PoolIInv, Lock, Rounds
<1>6. Answered'
  BY <1>1, <1>4 DEF PoolIInv, Lock, Answered, Earliest
<1>7. Result'
  BY DEF PoolIInv, Lock, Result, Earliest, ReturnsEarly
<1> QED
  BY <1>2, <1>3, <1>5, <1>6, <1>7 DEF PoolIInv

(* A worker that begins has marked the round before and not this one.      *)
LEMMA TestStartIInv == ASSUME PoolIInv, NEW w \in Workers, TestStart(w) PROVE PoolIInv'
<1> USE DEF pool, call, own, round, locks, item, Go
<1>1. /\ wpc[w] = "test"
      /\ wpc \in [Workers -> {"absent", "lock", "test", "asleep", "work", "lockdone"}]
      /\ t2 \in [Workers -> 0 .. Never] /\ todo \in [Workers -> SUBSET Items]
      /\ mpc' = mpc /\ calls' = calls /\ t1' = t1 /\ result' = result /\ kind' = kind /\ Threaded' = Threaded
      /\ next_t1' = next_t1 /\ next_t2' = next_t2 /\ run' = run /\ donecount' = donecount
      /\ t0' = t0 /\ ran' = ran /\ due' = due /\ synced' = synced
  BY DEF PoolIInv, TypeOK, TestStart
<1>2. CASE Served(w)
  <2>1. wpc' = [wpc EXCEPT ![w] = "asleep"] /\ t2' = t2 /\ todo' = todo
    BY <1>2 DEF TestStart
  <2>2. TypeOK'
    BY <1>1, <2>1 DEF PoolIInv, TypeOK, TestStart
  <2>3. Crew'
    BY <1>1, <2>1, Present DEF PoolIInv, Crew
  <2>4. Unfinished' = Unfinished /\ Gathered' = Gathered /\ \A v \in Workers : Over(v)' = Over(v)
    BY <1>1, <2>1 DEF Unfinished, Gathered, Over
  <2>5. Rounds'
    BY <1>1, <2>1, <2>4 DEF PoolIInv, Rounds
  <2>6. Answered'
    BY <1>1, <2>1, <2>4 DEF PoolIInv, Answered, Earliest
  <2>7. Result'
    BY <1>1 DEF PoolIInv, Result, Earliest, ReturnsEarly
  <2> QED
    BY <2>2, <2>3, <2>5, <2>6, <2>7 DEF PoolIInv
<1>3. CASE ~Served(w)
  <2>1. /\ wpc' = [wpc EXCEPT ![w] = "work"]
        /\ t2' = [t2 EXCEPT ![w] = Never] /\ todo' = [todo EXCEPT ![w] = ItemsOf[w]]
    BY <1>3 DEF TestStart
  <2>2. TypeOK'
    BY <1>1, <2>1, Constants DEF PoolIInv, TypeOK, TestStart
  <2>3. Crew'
    BY <1>1, <2>1, Present DEF PoolIInv, Crew
  <2>4. mpc \in Open /\ ran[w] # run
    BY <1>3 DEF PoolIInv, Rounds, Served
  <2>5. Unfinished' = Unfinished /\ Gathered' = Gathered
    BY <1>1, <2>1, <2>4 DEF Unfinished, Gathered
  <2>6. Rounds'
    BY <1>1, <2>1, <2>4, <2>5 DEF PoolIInv, Rounds
  <2>7. Over(w)' = {} /\ \A v \in Workers : v # w => Over(v)' = Over(v)
    BY <1>1, <2>1 DEF Over
  <2>8. Answered'
    <3>1. \A v \in Workers : v # w => wpc'[v] = wpc[v] /\ t2'[v] = t2[v] /\ todo'[v] = todo[v]
      BY <1>1, <2>1
    <3>2. t2'[w] = Never /\ todo'[w] = ItemsOf[w]
      BY <1>1, <2>1
    <3>3. Earliest(t2[w], Over(w))'
      BY <2>7, <3>2, Constants DEF Earliest
    <3>4. \A v \in Workers : v # w /\ Earliest(t2[v], Over(v)) => Earliest(t2[v], Over(v))'
      BY <1>1, <2>7, <3>1 DEF Earliest
    <3>5. Earliest(next_t2, Gathered)'
      BY <1>1, <2>4, <2>5 DEF PoolIInv, Answered, Earliest
    <3>6. Answered
      BY DEF PoolIInv
    <3>7. \A v \in Workers : \A i \in Over(v)' : synced'[i] = calls' /\ Ahead(i)'
      BY <1>1, <2>4, <2>7, <3>6 DEF Answered
    <3>8. \A v \in Workers : wpc'[v] \in {"work", "lockdone"} => Earliest(t2[v], Over(v))'
      BY <2>4, <3>1, <3>3, <3>4, <3>6 DEF Answered
    <3>9. \A v \in Workers : wpc'[v] = "work" => todo'[v] \subseteq ItemsOf[v]
      BY <2>4, <3>1, <3>2, <3>6 DEF Answered
    <3> QED
      BY <3>5, <3>7, <3>8, <3>9 DEF Answered
  <2>9. Result'
    BY <1>1 DEF PoolIInv, Result, Earliest, ReturnsEarly
  <2> QED
    BY <2>2, <2>3, <2>6, <2>8, <2>9 DEF PoolIInv
<1> QED
  BY <1>2, <1>3

(* An item is of one worker only, so that its answer changes the times of  *)
(* no other.                                                               *)
LEMMA SyncIInv == ASSUME PoolIInv, NEW w \in Workers, Sync(w) PROVE PoolIInv'
<1> USE DEF pool, call, own, round, locks, item
<1>1. PICK i \in todo[w] : \E d \in Due(i, next_t1, due[i]) :
         /\ due' = [due EXCEPT ![i] = d]
         /\ synced' = [synced EXCEPT ![i] = calls]
         /\ t2' = [t2 EXCEPT ![w] = Lesser(d, @)]
         /\ todo' = [todo EXCEPT ![w] = @ \ {i}]
  BY DEF Sync
<1>2. PICK d \in Due(i, next_t1, due[i]) :
         /\ due' = [due EXCEPT ![i] = d]
         /\ synced' = [synced EXCEPT ![i] = calls]
         /\ t2' = [t2 EXCEPT ![w] = Lesser(d, @)]
         /\ todo' = [todo EXCEPT ![w] = @ \ {i}]
  BY <1>1
<1>3. /\ wpc[w] = "work" /\ wpc' = wpc
      /\ mpc' = mpc /\ calls' = calls /\ t1' = t1 /\ result' = result /\ kind' = kind /\ Threaded' = Threaded
      /\ next_t1' = next_t1 /\ next_t2' = next_t2 /\ run' = run /\ donecount' = donecount
      /\ t0' = t0 /\ ran' = ran /\ startlock' = startlock /\ donelock' = donelock
  BY DEF Sync
<1>4. /\ TypeOK /\ Crew /\ Rounds /\ Answered /\ Result
      /\ due \in [Items -> Nat] /\ synced \in [Items -> 0 .. MaxCalls]
      /\ t2 \in [Workers -> 0 .. Never] /\ todo \in [Workers -> SUBSET Items]
      /\ t1 \in Nat /\ t1 <= LastTime /\ next_t1 \in Nat /\ next_t1 <= LastTime /\ calls \in 0 .. MaxCalls
      /\ kind \in Kinds /\ i \in Items
  BY Constants DEF PoolIInv, TypeOK
<1>5. mpc \in Open /\ next_t1 = t1 /\ ran[w] # run
  BY <1>3, <1>4 DEF Rounds
<1>6. todo[w] \subseteq ItemsOf[w] /\ i \in ItemsOf[w]
  BY <1>3, <1>4, <1>5 DEF Answered
<1>7. d \in Nat /\ (kind = "schedule" => d > t1)
  BY <1>4, <1>5, Later
<1>8. Lesser(d, t2[w]) \in 0 .. Never
  BY <1>4, <1>7, Constants DEF Lesser
<1>9. TypeOK'
  BY <1>2, <1>3, <1>4, <1>7, <1>8 DEF TypeOK
<1>10. Crew'
  BY <1>3, <1>4 DEF Crew
<1>11. Unfinished' = Unfinished /\ Gathered' = Gathered
  BY <1>3 DEF Unfinished, Gathered
<1>12. Rounds'
  BY <1>3, <1>4, <1>11 DEF Rounds
<1>13. \A v \in Workers : i \in Over(v) => FALSE
  <2>1. \A v \in Workers : v # w => i \notin ItemsOf[v]
    BY <1>6, Constants
  <2> QED
    BY <1>3, <2>1 DEF Over
<1>14. i \notin Gathered
  BY <1>3, <1>5, <1>6, Constants DEF Gathered, Unfinished
<1>15. \A j \in Items : j # i => due'[j] = due[j] /\ synced'[j] = synced[j]
  BY <1>2, <1>4
<1>16. \A v \in Workers : v # w => t2'[v] = t2[v] /\ todo'[v] = todo[v] /\ Over(v)' = Over(v)
  BY <1>2, <1>3, <1>4 DEF Over
<1>17. Over(w)' = Over(w) \union {i} /\ Over(w) \subseteq Items
  BY <1>2, <1>3, <1>4, <1>6, Constants DEF Over
<1>18. due'[i] = d /\ synced'[i] = calls /\ t2'[w] = Lesser(d, t2[w]) /\ todo'[w] = todo[w] \ {i}
  BY <1>2, <1>4
<1>19. Earliest(t2[w], Over(w))'
  <2>1. Earliest(t2[w], Over(w))
    BY <1>3, <1>4, <1>5 DEF Answered
  <2>2. \A j \in Over(w) : due'[j] = due[j]
    BY <1>13, <1>15, <1>17
  <2>3. CASE d < t2[w]
    BY <1>4, <1>7, <1>17, <1>18, <2>1, <2>2, <2>3, Constants DEF Earliest, Lesser
  <2>4. CASE ~(d < t2[w])
    BY <1>4, <1>7, <1>17, <1>18, <2>1, <2>2, <2>4, Constants DEF Earliest, Lesser
  <2> QED
    BY <2>3, <2>4
<1>20. Answered'
  <2>1. \A v \in Workers : Over(v) \subseteq Items
    BY <1>4, Constants DEF Over
  <2>2. \A v \in Workers : v # w /\ Earliest(t2[v], Over(v)) => Earliest(t2[v], Over(v))'
    <3> SUFFICES ASSUME NEW v \in Workers, v # w, Earliest(t2[v], Over(v)) PROVE Earliest(t2[v], Over(v))'
      OBVIOUS
    <3>1. \A j \in Over(v) : due'[j] = due[j]
      BY <1>13, <1>15, <2>1
    <3> QED
      BY <1>16, <3>1 DEF Earliest
  <2>3. Earliest(next_t2, Gathered)'
    <3>1. \A j \in Gathered : due'[j] = due[j]
      BY <1>14, <1>15 DEF Gathered
    <3>2. Earliest(next_t2, Gathered)
      BY <1>4, <1>5 DEF Answered
    <3> QED
      BY <1>3, <1>11, <3>1, <3>2 DEF Earliest
  <2>4. \A v \in Workers : \A j \in Over(v)' : synced'[j] = calls' /\ Ahead(j)'
    <3> SUFFICES ASSUME NEW v \in Workers, NEW j \in Over(v)' PROVE synced'[j] = calls' /\ Ahead(j)'
      OBVIOUS
    <3>1. CASE j = i
      BY <1>3, <1>7, <1>18, <3>1
    <3>2. CASE j # i
      <4>1. j \in Over(v) /\ j \in Items
        BY <1>16, <1>17, <2>1, <3>2
      <4> QED
        BY <1>3, <1>4, <1>5, <1>15, <3>2, <4>1 DEF Answered
    <3> QED
      BY <3>1, <3>2
  <2>5. \A v \in Workers : wpc'[v] = "work" => todo'[v] \subseteq ItemsOf[v]
    BY <1>3, <1>4, <1>5, <1>6, <1>16, <1>18 DEF Answered
  <2> QED
    BY <1>3, <1>4, <1>5, <1>19, <2>2, <2>3, <2>4, <2>5 DEF Answered
<1>21. Result'
  BY <1>3, <1>5 DEF Result
<1> QED
  BY <1>9, <1>10, <1>12, <1>20, <1>21 DEF PoolIInv

LEMMA MarkIInv == ASSUME PoolIInv, NEW w \in Workers, Mark(w) PROVE PoolIInv'
<1> USE DEF pool, call, own, round, locks, item, Go
<1>1. /\ wpc[w] = "work" /\ todo[w] = {} /\ wpc' = [wpc EXCEPT ![w] = "lockdone"]
      /\ t0' = [t0 EXCEPT ![w] = next_t1] /\ ran' = [ran EXCEPT ![w] = @ + 1]
      /\ mpc' = mpc /\ calls' = calls /\ t1' = t1 /\ result' = result /\ kind' = kind /\ Threaded' = Threaded
      /\ next_t1' = next_t1 /\ next_t2' = next_t2 /\ run' = run /\ donecount' = donecount
      /\ due' = due /\ synced' = synced /\ t2' = t2 /\ todo' = todo
      /\ startlock' = startlock /\ donelock' = donelock
  BY DEF Mark
<1>2. /\ TypeOK /\ Crew /\ Rounds /\ Answered /\ Result
      /\ wpc \in [Workers -> {"absent", "lock", "test", "asleep", "work", "lockdone"}]
      /\ t0 \in [Workers -> 0 .. LastTime] /\ ran \in [Workers -> 0 .. MaxCalls] /\ run \in 0 .. MaxCalls
      /\ next_t1 \in 0 .. LastTime
  BY DEF PoolIInv, TypeOK
<1>3. mpc \in Open /\ ran[w] = run - 1
  BY <1>1, <1>2 DEF Rounds
<1>4. /\ wpc'[w] = "lockdone" /\ ran'[w] = run /\ t0'[w] = next_t1
      /\ \A v \in Workers : v # w => wpc'[v] = wpc[v] /\ ran'[v] = ran[v] /\ t0'[v] = t0[v]
  BY <1>1, <1>2, <1>3
<1>5. TypeOK'
  <2>1. ran' \in [Workers -> 0 .. MaxCalls]
    BY <1>1, <1>2, <1>3, <1>4
  <2>2. t0' \in [Workers -> 0 .. LastTime]
    BY <1>1, <1>2
  <2> QED
    BY <1>1, <1>2, <2>1, <2>2 DEF TypeOK
<1>6. Crew'
  BY <1>1, <1>2, <1>4, Present DEF Crew
<1>7. Unfinished' = Unfinished /\ Gathered' = Gathered /\ \A v \in Workers : Over(v)' = Over(v)
  <2>1. Unfinished' = Unfinished
    BY <1>1, <1>3, <1>4, <1>2 DEF Unfinished
  <2>2. Over(w)' = Over(w)
    BY <1>1, <1>2, <1>3, <1>4 DEF Over
  <2>3. \A v \in Workers : v # w => Over(v)' = Over(v)
    BY <1>1, <1>4 DEF Over
  <2> QED
    BY <2>1, <2>2, <2>3 DEF Gathered
<1>8. Rounds'
  BY <1>1, <1>2, <1>3, <1>4, <1>7 DEF Rounds
<1>9. Answered'
  <2>1. \A v \in Workers : Earliest(t2[v], Over(v)) => Earliest(t2[v], Over(v))'
    BY <1>1, <1>7 DEF Earliest
  <2>2. Earliest(next_t2, Gathered)'
    BY <1>1, <1>2, <1>3, <1>7 DEF Answered, Earliest
  <2>3. \A v \in Workers : wpc'[v] \in {"work", "lockdone"} => wpc[v] \in {"work", "lockdone"}
    BY <1>1, <1>4
  <2>4. \A v \in Workers : wpc'[v] = "work" => wpc[v] = "work"
    BY <1>4
  <2>5. \A v \in Workers : \A i \in Over(v)' : synced'[i] = calls' /\ Ahead(i)'
    BY <1>1, <1>2, <1>3, <1>7 DEF Answered
  <2> QED
    BY <1>1, <1>2, <1>3, <2>1, <2>2, <2>3, <2>4, <2>5 DEF Answered
<1>10. Result'
  BY <1>1, <1>3 DEF Result
<1> QED
  BY <1>5, <1>6, <1>8, <1>9, <1>10 DEF PoolIInv

(* A worker that reports is counted once, and its earliest time with it.   *)
LEMMA CountIInv == ASSUME PoolIInv, NEW w \in Workers, Count(w) PROVE PoolIInv'
<1> USE DEF pool, call, own, round, locks, item, Go
<1>1. /\ wpc[w] = "lockdone" /\ wpc' = [wpc EXCEPT ![w] = "lock"]
      /\ donecount' = donecount - 1 /\ next_t2' = Lesser(t2[w], next_t2)
      /\ mpc' = IF mpc = "asleep" THEN "relock" ELSE mpc
      /\ calls' = calls /\ t1' = t1 /\ result' = result /\ kind' = kind /\ Threaded' = Threaded
      /\ next_t1' = next_t1 /\ run' = run /\ t0' = t0 /\ ran' = ran
      /\ due' = due /\ synced' = synced /\ t2' = t2 /\ todo' = todo
      /\ startlock' = startlock /\ donelock' = donelock
  BY DEF Count
<1>2. /\ TypeOK /\ Crew /\ Rounds /\ Answered /\ Result
      /\ wpc \in [Workers -> {"absent", "lock", "test", "asleep", "work", "lockdone"}]
      /\ due \in [Items -> Nat] /\ t2[w] \in 0 .. Never /\ next_t2 \in 0 .. Never
  BY DEF PoolIInv, TypeOK
<1>3. mpc \in Open /\ mpc' \in Open /\ ran[w] = run
  BY <1>1, <1>2 DEF Rounds
<1>4. wpc'[w] = "lock" /\ \A v \in Workers : v # w => wpc'[v] = wpc[v]
  BY <1>1, <1>2
<1>5. Unfinished' = Unfinished \ {w} /\ w \in Unfinished /\ IsFiniteSet(Unfinished)
  <2>1. Unfinished' = Unfinished \ {w} /\ w \in Unfinished
    BY <1>1, <1>3, <1>4 DEF Unfinished
  <2> QED
    BY <2>1, Constants, FS_Subset DEF Unfinished
<1>6. /\ donecount = Cardinality(Unfinished) /\ donecount' = Cardinality(Unfinished')
      /\ donecount \in Nat \ {0} /\ donecount' \in 0 .. Cardinality(Workers)
  <2>1. donecount = Cardinality(Unfinished)
    BY <1>2, <1>3 DEF Rounds
  <2>2. Cardinality(Unfinished \ {w}) = Cardinality(Unfinished) - 1
    BY <1>5, FS_RemoveElement
  <2>3. Cardinality(Unfinished) \in Nat /\ Cardinality(Unfinished \ {w}) \in Nat
    BY <1>5, FS_CardinalityType, FS_RemoveElement
  <2>4. donecount \in 0 .. Cardinality(Workers)
    BY <1>2 DEF TypeOK
  <2> QED
    BY <1>1, <1>5, <2>1, <2>2, <2>3, <2>4, Constants
<1>7. TypeOK'
  BY <1>1, <1>2, <1>6, Constants DEF TypeOK, Lesser
<1>8. Crew'
  BY <1>1, <1>2, <1>3, <1>4, Present DEF Crew
<1>9. mpc # "return"
  BY <1>2, <1>6 DEF Rounds
<1>10. Rounds'
  <2>1. mpc' # "return" /\ mpc # "idle" /\ mpc' \notin {"enter", "lockstart", "publish"}
    BY <1>1, <1>3, <1>9
  <2> QED
    BY <1>1, <1>2, <1>3, <1>4, <1>6, <2>1 DEF Rounds
<1>11. Over(w) = ItemsOf[w] /\ \A v \in Workers : Over(v)' = Over(v)
  <2>1. Over(w) = ItemsOf[w] /\ Over(w)' = ItemsOf[w]
    BY <1>1, <1>3, <1>4 DEF Over
  <2>2. \A v \in Workers : v # w => Over(v)' = Over(v)
    BY <1>1, <1>4 DEF Over
  <2> QED
    BY <2>1, <2>2
<1>12. Gathered' = ItemsOf[w] \union Gathered
  BY <1>5, Constants DEF Gathered
<1>13. Earliest(next_t2, Gathered)'
  <2>1. Earliest(t2[w], ItemsOf[w]) /\ Earliest(next_t2, Gathered)
    BY <1>1, <1>2, <1>3, <1>11 DEF Answered
  <2>2. Earliest(Lesser(t2[w], next_t2), ItemsOf[w] \union Gathered)
    <3>1. ItemsOf[w] \in SUBSET Items /\ Gathered \in SUBSET Items
      BY Constants DEF Gathered
    <3> QED
      BY <1>2, <2>1, <3>1, EarliestOfBoth
  <2> QED
    BY <1>1, <1>12, <2>2 DEF Earliest
<1>14. Answered'
  <2>1. \A v \in Workers : Earliest(t2[v], Over(v)) => Earliest(t2[v], Over(v))'
    BY <1>1, <1>11 DEF Earliest
  <2>2. \A v \in Workers : wpc'[v] \in {"work", "lockdone"} => wpc'[v] = wpc[v]
    BY <1>4
  <2>3. \A v \in Workers : \A i \in Over(v)' : synced'[i] = calls' /\ Ahead(i)'
    BY <1>1, <1>2, <1>3, <1>11 DEF Answered
  <2> QED
    BY <1>1, <1>2, <1>3, <1>13, <2>1, <2>2, <2>3 DEF Answered
<1>15. Result'
  BY <1>3 DEF Result
<1> QED
  BY <1>7, <1>8, <1>10, <1>14, <1>15 DEF PoolIInv

LEMMA PoolStepIInv == PoolIInv /\ [Next]_vars => PoolIInv'
<1> SUFFICES ASSUME PoolIInv, [Next]_vars PROVE PoolIInv'
  OBVIOUS
<1>1. CASE Call
  BY <1>1, CallIInv
<1>2. CASE MainStep
  BY <1>2, SetupIInv, ReturnAgainIInv, DirectIInv, LockDoneIInv, LockStartIInv, PublishIInv,
     TestDoneIInv, RelockDoneIInv, ReturnIInv DEF MainStep
<1>3. ASSUME NEW w \in Workers, WorkerStep(w) PROVE PoolIInv'
  BY <1>3, ItemLockIInv, TestStartIInv, SyncIInv, MarkIInv, CountIInv DEF WorkerStep
<1>4. CASE UNCHANGED vars
  <2> USE <1>4 DEF vars, pool, call, own, round, locks, item
  <2>1. TypeOK' /\ Crew' /\ Result'
    BY DEF PoolIInv, TypeOK, Crew, Result, Earliest, ReturnsEarly
  <2>2. Unfinished' = Unfinished /\ Gathered' = Gathered /\ \A v \in Workers : Over(v)' = Over(v)
    BY DEF Unfinished, Gathered, Over
  <2>3. Rounds'
    BY <2>2 DEF PoolIInv, Rounds
  <2>4. \A v \in Workers : Earliest(t2[v], Over(v)) => Earliest(t2[v], Over(v))'
    BY <2>2 DEF Earliest
  <2>5. Earliest(next_t2, Gathered) => Earliest(next_t2, Gathered)'
    BY <2>2 DEF Earliest
  <2>6. Answered'
    BY <2>2, <2>4, <2>5 DEF PoolIInv, Answered
  <2> QED
    BY <2>1, <2>3, <2>6 DEF PoolIInv
<1> QED
  BY <1>1, <1>2, <1>3, <1>4 DEF Next, Finished

LEMMA PoolInductive == Spec => []PoolIInv
BY PoolInitIInv, PoolStepIInv, PTL DEF Spec

(* Types, for any items, workers and bounds.                               *)
THEOREM PoolTypeCorrect == Spec => []TypeOK
<1>1. PoolIInv => TypeOK
  BY DEF PoolIInv
<1> QED
  BY <1>1, PoolInductive, PTL

(* The result of a call is the earliest time any item answered last.       *)
THEOREM ReturnsEarliest == Spec => []ReturnsNextChange
<1>1. PoolIInv => ReturnsNextChange
  BY EarliestIsMin DEF PoolIInv, TypeOK, Result, Returned, ReturnsNextChange
<1> QED
  BY <1>1, PoolInductive, PTL

(* When a call returns every item has been synchronised by it, but where   *)
(* the pool returns early and the item's last answer is still ahead; and   *)
(* no schedule is left behind: for any answers of loadshapes and enduses,  *)
(* those that end the run included.                                        *)
THEOREM NothingIsMissed == Spec => []NothingMissed
<1>1. PoolIInv => NothingMissed
  BY DEF PoolIInv, Result, Returned, NothingMissed
<1> QED
  BY <1>1, PoolInductive, PTL
=============================================================================
