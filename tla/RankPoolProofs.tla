--------------------------- MODULE RankPoolProofs ---------------------------
(* Proofs about RankPool, for any number of rank lists, any pools, any     *)
(* wrap of the round number, whether or not threads can be created.        *)
EXTENDS RankPool, FiniteSetTheorems, TLAPS

(* The workers of a pool whose round is still open: they have not marked   *)
(* it served, or have marked it and not yet counted themselves out.        *)
Owing(l) == {w \in Pool(l) : t0[w] # next_t1[l] \/ pc[w] \in {"lockdone", "count"}}

(* Each mutex is held by the thread whose program counter says so.         *)
LockInv ==
    /\ \A w \in Workers : pc[w] \in {"test", "sleep"} <=> startlock[ListOf[w]] = w
    /\ \A l \in List : \A w \in Workers : startlock[l] = w => l = ListOf[w]
    /\ \A l \in List : startlock[l] = Main <=> cur = l /\ mpc = "publish"
    /\ \A w \in Workers : pc[w] = "count" <=> donelock[ListOf[w]] = w
    /\ \A l \in List : \A w \in Workers : donelock[l] = w => l = ListOf[w]
    /\ \A l \in List : donelock[l] = Main
                         <=> cur = l /\ mpc \in {"lockstart", "publish", "test", "sleep"}

(* Where a worker is tells whether it has served the round.                *)
RoundInv ==
    \A w \in Workers :
        /\ pc[w] = "work" => t0[w] # next_t1[ListOf[w]]
        /\ pc[w] \in {"lockdone", "count", "sleep", "asleep"} => t0[w] = next_t1[ListOf[w]]

(* donecount is the number of workers that owe the round, and outside of a *)
(* round nobody owes anything.                                             *)
CountInv ==
    /\ \A l \in List : Waiting(l) => donecount[l] = Cardinality(Owing(l))
    /\ \A l \in List : ~Waiting(l) => Owing(l) = {}
    /\ \A l \in List : cur = l /\ mpc \in {"lockstart", "publish"}
                         => donecount[l] = n_threads(l)
    /\ mpc \in {"sleep", "asleep"} => donecount[cur] > 0

(* A pool is created once, when the first iteration reaches its list.      *)
CreateInv ==
    /\ mpc = "create" => iteration = 0
    /\ mpc = "loop" => cur = 0
    /\ \A w \in Workers :
         /\ iteration = 0 /\ ListOf[w] > cur => pc[w] = "absent"
         /\ mpc = "create" /\ ListOf[w] = cur => pc[w] = "absent"

IInv == TypeOK /\ LockInv /\ RoundInv /\ CountInv /\ CreateInv

LEMMA BumpMoves ==
    ASSUME NEW n \in 0 .. Wrap - 1
    PROVE  Bump(n) \in 0 .. Wrap - 1 /\ Bump(n) # n
BY WrapAssumption DEF Bump

LEMMA PoolFinite ==
    ASSUME NEW l
    PROVE  IsFiniteSet(Pool(l)) /\ n_threads(l) \in Nat
<1>1. Pool(l) \subseteq Workers
  BY DEF Pool
<1>2. IsFiniteSet(Pool(l))
  BY <1>1, WorkersAssumption, FS_Subset
<1> QED
  BY <1>2, FS_CardinalityType DEF n_threads

LEMMA OwingFinite ==
    ASSUME NEW l
    PROVE  IsFiniteSet(Owing(l)) /\ Cardinality(Owing(l)) \in Nat
<1>1. Owing(l) \subseteq Pool(l)
  BY DEF Owing
<1>2. IsFiniteSet(Owing(l))
  BY <1>1, PoolFinite, FS_Subset
<1> QED
  BY <1>2, FS_CardinalityType

LEMMA InitInv == Init => IInv
<1> SUFFICES ASSUME Init PROVE IInv
  OBVIOUS
<1> USE ListsAssumption, WorkersAssumption, ListOfAssumption, LoadAssumption,
        WrapAssumption, BoundsAssumption DEF Init, List
<1>1. TypeOK
  BY DEF TypeOK, Mutex
<1>2. LockInv
  BY DEF LockInv
<1>3. RoundInv
  BY DEF RoundInv
<1>4. \A l \in List : Owing(l) = {}
  BY DEF Owing, Pool
<1>5. CountInv
  BY <1>4 DEF CountInv, Waiting
<1>6. CreateInv
  BY DEF CreateInv
<1> QED
  BY <1>1, <1>2, <1>3, <1>5, <1>6 DEF IInv

(* The facts that every step starts from.                                  *)
LEMMA Ranges ==
    ASSUME TypeOK
    PROVE  /\ \A w \in Workers : ListOf[w] \in List /\ ListOf[w] # 0
           /\ \A l \in List : Pool(l) = {w \in Workers : ListOf[w] = l}
           /\ mpc \notin {"loop", "ended"} => cur \in List
           /\ 0 \notin List /\ List \subseteq Nat
BY ListsAssumption, ListOfAssumption DEF TypeOK, List, Pool

(* A step that changes neither the rounds nor who has a count to report    *)
(* leaves the debts of every pool as they are.                             *)
LEMMA OwingKept ==
    ASSUME UNCHANGED <<t0, next_t1>>,
           \A w \in Workers : pc'[w] \in {"lockdone", "count"}
                                 <=> pc[w] \in {"lockdone", "count"}
    PROVE  \A l \in List : Owing(l)' = Owing(l)
BY DEF Owing, Pool

LEMMA StepLoop ==
    ASSUME IInv, Loop
    PROVE  IInv'
<1> USE ListsAssumption, WorkersAssumption, ListOfAssumption, LoadAssumption,
        BoundsAssumption, WrapAssumption
<1>0. TypeOK /\ LockInv /\ RoundInv /\ CountInv /\ CreateInv
  BY DEF IInv
<1>1. TypeOK'
  BY <1>0, Ranges DEF Loop, EnterList, setTP, TypeOK, Mutex, workerVars, mainVars
<1>2. LockInv'
  BY <1>0, Ranges DEF Loop, EnterList, setTP, TypeOK, LockInv, Mutex, workerVars, mainVars
<1>3. RoundInv'
  BY <1>0, Ranges DEF Loop, EnterList, setTP, TypeOK, RoundInv, workerVars, mainVars
<1>4. CountInv'
  <2>1. \A l \in List : Owing(l)' = Owing(l)
    BY <1>0, OwingKept DEF Loop, EnterList, setTP, TypeOK, workerVars, mainVars
  <2> QED
    BY <1>0, <2>1, Ranges DEF Loop, EnterList, setTP, TypeOK, CountInv, Waiting, workerVars, mainVars
<1>5. CreateInv'
  BY <1>0, Ranges DEF Loop, EnterList, setTP, TypeOK, CreateInv, workerVars, mainVars
<1> QED
  BY <1>1, <1>2, <1>3, <1>4, <1>5 DEF IInv

LEMMA StepCreate ==
    ASSUME IInv, Create
    PROVE  IInv'
<1> USE ListsAssumption, WorkersAssumption, ListOfAssumption, LoadAssumption,
        BoundsAssumption, WrapAssumption
<1>0. TypeOK /\ LockInv /\ RoundInv /\ CountInv /\ CreateInv
  BY DEF IInv
<1>a. \A w \in Workers : pc'[w] # pc[w] => pc[w] = "absent" /\ pc'[w] = "lock"
  BY <1>0, Ranges DEF Create, TypeOK, CreateInv
<1>1. TypeOK'
  BY <1>0, Ranges DEF Create, TypeOK, Mutex, workerVars, mainVars
<1>2. LockInv'
  BY <1>0, <1>a, Ranges DEF Create, TypeOK, LockInv, Mutex, workerVars, mainVars
<1>3. RoundInv'
  BY <1>0, Ranges DEF Create, TypeOK, RoundInv, workerVars, mainVars
<1>4. CountInv'
  <2>1. \A l \in List : Owing(l)' = Owing(l)
    BY <1>0, <1>a, OwingKept DEF Create, TypeOK, workerVars, mainVars
  <2> QED
    BY <1>0, <2>1, Ranges DEF Create, TypeOK, CountInv, Waiting, workerVars, mainVars
<1>5. CreateInv'
  BY <1>0, Ranges DEF Create, TypeOK, CreateInv, workerVars, mainVars
<1> QED
  BY <1>1, <1>2, <1>3, <1>4, <1>5 DEF IInv

LEMMA StepLockDone ==
    ASSUME IInv, LockDone
    PROVE  IInv'
<1> USE ListsAssumption, WorkersAssumption, ListOfAssumption, LoadAssumption,
        BoundsAssumption, WrapAssumption
<1>0. TypeOK /\ LockInv /\ RoundInv /\ CountInv /\ CreateInv
  BY DEF IInv
<1>1. TypeOK'
  BY <1>0, Ranges, PoolFinite DEF LockDone, TypeOK, Mutex, workerVars, mainVars
<1>2. LockInv'
  BY <1>0, Ranges DEF LockDone, TypeOK, LockInv, Mutex, workerVars, mainVars
<1>3. RoundInv'
  BY <1>0, Ranges DEF LockDone, TypeOK, RoundInv, workerVars, mainVars
<1>4. CountInv'
  <2>1. \A l \in List : Owing(l)' = Owing(l)
    BY <1>0, OwingKept DEF LockDone, TypeOK, workerVars, mainVars
  <2> QED
    BY <1>0, <2>1, Ranges DEF LockDone, TypeOK, CountInv, Waiting, workerVars, mainVars
<1>5. CreateInv'
  BY <1>0, Ranges DEF LockDone, TypeOK, CreateInv, workerVars, mainVars
<1> QED
  BY <1>1, <1>2, <1>3, <1>4, <1>5 DEF IInv

LEMMA StepLockStart ==
    ASSUME IInv, LockStart
    PROVE  IInv'
<1> USE ListsAssumption, WorkersAssumption, ListOfAssumption, LoadAssumption,
        BoundsAssumption, WrapAssumption
<1>0. TypeOK /\ LockInv /\ RoundInv /\ CountInv /\ CreateInv
  BY DEF IInv
<1>1. TypeOK'
  BY <1>0, Ranges DEF LockStart, TypeOK, Mutex, workerVars, mainVars
<1>2. LockInv'
  BY <1>0, Ranges DEF LockStart, TypeOK, LockInv, Mutex, workerVars, mainVars
<1>3. RoundInv'
  BY <1>0, Ranges DEF LockStart, TypeOK, RoundInv, workerVars, mainVars
<1>4. CountInv'
  <2>1. \A l \in List : Owing(l)' = Owing(l)
    BY <1>0, OwingKept DEF LockStart, TypeOK, workerVars, mainVars
  <2> QED
    BY <1>0, <2>1, Ranges DEF LockStart, TypeOK, CountInv, Waiting, workerVars, mainVars
<1>5. CreateInv'
  BY <1>0, Ranges DEF LockStart, TypeOK, CreateInv, workerVars, mainVars
<1> QED
  BY <1>1, <1>2, <1>3, <1>4, <1>5 DEF IInv

LEMMA StepPublish ==
    ASSUME IInv, Publish
    PROVE  IInv'
<1> USE ListsAssumption, WorkersAssumption, ListOfAssumption, LoadAssumption,
        BoundsAssumption, WrapAssumption
<1>0. TypeOK /\ LockInv /\ RoundInv /\ CountInv /\ CreateInv
  BY DEF IInv
<1>a. /\ cur \in List
      /\ \A w \in Pool(cur) :
           /\ t0[w] = next_t1[cur]
           /\ pc[w] \notin {"work", "lockdone", "count", "test", "sleep"}
  BY <1>0, Ranges DEF Publish, Owing, Waiting, TypeOK, LockInv, RoundInv, CountInv
<1>b. next_t1'[cur] # next_t1[cur]
  BY <1>0, <1>a, BumpMoves DEF Publish, TypeOK
<1>1. TypeOK'
  BY <1>0, Ranges, BumpMoves DEF Publish, TypeOK, Mutex, workerVars, mainVars
<1>2. LockInv'
  BY <1>0, Ranges DEF Publish, TypeOK, LockInv, Mutex, workerVars, mainVars
<1>3. RoundInv'
  BY <1>0, <1>a, Ranges DEF Publish, TypeOK, RoundInv, workerVars, mainVars
<1>4. CountInv'
  <2>1. Owing(cur)' = Pool(cur)
    BY <1>0, <1>a, <1>b DEF Publish, TypeOK, Owing, Pool
  <2>2. \A l \in List \ {cur} : Owing(l)' = Owing(l)
    BY <1>0, <1>a DEF Publish, TypeOK, Owing, Pool
  <2> QED
    BY <1>0, <1>a, <2>1, <2>2, Ranges DEF Publish, n_threads, TypeOK, CountInv, Waiting, workerVars, mainVars
<1>5. CreateInv'
  BY <1>0, Ranges DEF Publish, TypeOK, CreateInv, workerVars, mainVars
<1> QED
  BY <1>1, <1>2, <1>3, <1>4, <1>5 DEF IInv

LEMMA StepTestDone ==
    ASSUME IInv, TestDone
    PROVE  IInv'
<1> USE ListsAssumption, WorkersAssumption, ListOfAssumption, LoadAssumption,
        BoundsAssumption, WrapAssumption
<1>0. TypeOK /\ LockInv /\ RoundInv /\ CountInv /\ CreateInv
  BY DEF IInv
<1>1. TypeOK'
  BY <1>0, Ranges DEF TestDone, TypeOK, Mutex, workerVars, mainVars
<1>2. LockInv'
  BY <1>0, Ranges DEF TestDone, TypeOK, LockInv, Mutex, workerVars, mainVars
<1>3. RoundInv'
  BY <1>0, Ranges DEF TestDone, TypeOK, RoundInv, workerVars, mainVars
<1>4. CountInv'
  <2>1. \A l \in List : Owing(l)' = Owing(l)
    BY <1>0, OwingKept DEF TestDone, TypeOK, workerVars, mainVars
  <2>2. donecount[cur] = 0 => Owing(cur) = {}
    BY <1>0, OwingFinite, FS_EmptySet, Ranges DEF TestDone, CountInv, Waiting
  <2>3. donecount[cur] \in Nat
    BY <1>0, Ranges DEF TestDone, TypeOK
  <2> QED
    BY <1>0, <2>1, <2>2, <2>3, Ranges DEF TestDone, TypeOK, CountInv, Waiting, workerVars, mainVars
<1>5. CreateInv'
  BY <1>0, Ranges DEF TestDone, TypeOK, CreateInv, workerVars, mainVars
<1> QED
  BY <1>1, <1>2, <1>3, <1>4, <1>5 DEF IInv

LEMMA StepSleepDone ==
    ASSUME IInv, SleepDone
    PROVE  IInv'
<1> USE ListsAssumption, WorkersAssumption, ListOfAssumption, LoadAssumption,
        BoundsAssumption, WrapAssumption
<1>0. TypeOK /\ LockInv /\ RoundInv /\ CountInv /\ CreateInv
  BY DEF IInv
<1>1. TypeOK'
  BY <1>0, Ranges DEF SleepDone, TypeOK, Mutex, workerVars, mainVars
<1>2. LockInv'
  BY <1>0, Ranges DEF SleepDone, TypeOK, LockInv, Mutex, workerVars, mainVars
<1>3. RoundInv'
  BY <1>0, Ranges DEF SleepDone, TypeOK, RoundInv, workerVars, mainVars
<1>4. CountInv'
  <2>1. \A l \in List : Owing(l)' = Owing(l)
    BY <1>0, OwingKept DEF SleepDone, TypeOK, workerVars, mainVars
  <2> QED
    BY <1>0, <2>1, Ranges DEF SleepDone, TypeOK, CountInv, Waiting, workerVars, mainVars
<1>5. CreateInv'
  BY <1>0, Ranges DEF SleepDone, TypeOK, CreateInv, workerVars, mainVars
<1> QED
  BY <1>1, <1>2, <1>3, <1>4, <1>5 DEF IInv

LEMMA StepRelockDone ==
    ASSUME IInv, RelockDone
    PROVE  IInv'
<1> USE ListsAssumption, WorkersAssumption, ListOfAssumption, LoadAssumption,
        BoundsAssumption, WrapAssumption
<1>0. TypeOK /\ LockInv /\ RoundInv /\ CountInv /\ CreateInv
  BY DEF IInv
<1>1. TypeOK'
  BY <1>0, Ranges DEF RelockDone, TypeOK, Mutex, workerVars, mainVars
<1>2. LockInv'
  BY <1>0, Ranges DEF RelockDone, TypeOK, LockInv, Mutex, workerVars, mainVars
<1>3. RoundInv'
  BY <1>0, Ranges DEF RelockDone, TypeOK, RoundInv, workerVars, mainVars
<1>4. CountInv'
  <2>1. \A l \in List : Owing(l)' = Owing(l)
    BY <1>0, OwingKept DEF RelockDone, TypeOK, workerVars, mainVars
  <2> QED
    BY <1>0, <2>1, Ranges DEF RelockDone, TypeOK, CountInv, Waiting, workerVars, mainVars
<1>5. CreateInv'
  BY <1>0, Ranges DEF RelockDone, TypeOK, CreateInv, workerVars, mainVars
<1> QED
  BY <1>1, <1>2, <1>3, <1>4, <1>5 DEF IInv

LEMMA StepCheck ==
    ASSUME IInv, Check
    PROVE  IInv'
<1> USE ListsAssumption, WorkersAssumption, ListOfAssumption, LoadAssumption,
        BoundsAssumption, WrapAssumption
<1>0. TypeOK /\ LockInv /\ RoundInv /\ CountInv /\ CreateInv
  BY DEF IInv
<1>1. TypeOK'
  BY <1>0, Ranges DEF Check, EnterList, setTP, TypeOK, Mutex, workerVars, mainVars
<1>2. LockInv'
  BY <1>0, Ranges DEF Check, EnterList, setTP, TypeOK, LockInv, Mutex, workerVars, mainVars
<1>3. RoundInv'
  BY <1>0, Ranges DEF Check, EnterList, setTP, TypeOK, RoundInv, workerVars, mainVars
<1>4. CountInv'
  <2>1. \A l \in List : Owing(l)' = Owing(l)
    BY <1>0, OwingKept DEF Check, EnterList, setTP, TypeOK, workerVars, mainVars
  <2> QED
    BY <1>0, <2>1, Ranges DEF Check, EnterList, setTP, TypeOK, CountInv, Waiting, workerVars, mainVars
<1>5. CreateInv'
  BY <1>0, Ranges DEF Check, EnterList, setTP, TypeOK, CreateInv, workerVars, mainVars
<1> QED
  BY <1>1, <1>2, <1>3, <1>4, <1>5 DEF IInv

LEMMA StepLock ==
    ASSUME IInv, NEW w \in Workers, Lock(w)
    PROVE  IInv'
<1> USE ListsAssumption, WorkersAssumption, ListOfAssumption, LoadAssumption,
        BoundsAssumption, WrapAssumption
<1>0. TypeOK /\ LockInv /\ RoundInv /\ CountInv /\ CreateInv
  BY DEF IInv
<1>1. TypeOK'
  BY <1>0, Ranges DEF Lock, Go, TypeOK, Mutex, workerVars, mainVars
<1>2. LockInv'
  BY <1>0, Ranges DEF Lock, Go, TypeOK, LockInv, Mutex, workerVars, mainVars
<1>3. RoundInv'
  BY <1>0, Ranges DEF Lock, Go, TypeOK, RoundInv, workerVars, mainVars
<1>4. CountInv'
  <2>1. \A l \in List : Owing(l)' = Owing(l)
    BY <1>0, OwingKept DEF Lock, Go, TypeOK, workerVars, mainVars
  <2> QED
    BY <1>0, <2>1, Ranges DEF Lock, Go, TypeOK, CountInv, Waiting, workerVars, mainVars
<1>5. CreateInv'
  BY <1>0, Ranges DEF Lock, Go, TypeOK, CreateInv, workerVars, mainVars
<1> QED
  BY <1>1, <1>2, <1>3, <1>4, <1>5 DEF IInv

LEMMA StepTestStart ==
    ASSUME IInv, NEW w \in Workers, TestStart(w)
    PROVE  IInv'
<1> USE ListsAssumption, WorkersAssumption, ListOfAssumption, LoadAssumption,
        BoundsAssumption, WrapAssumption
<1>0. TypeOK /\ LockInv /\ RoundInv /\ CountInv /\ CreateInv
  BY DEF IInv
<1>1. TypeOK'
  BY <1>0, Ranges DEF TestStart, Go, TypeOK, Mutex, workerVars, mainVars
<1>2. LockInv'
  BY <1>0, Ranges DEF TestStart, Go, TypeOK, LockInv, Mutex, workerVars, mainVars
<1>3. RoundInv'
  BY <1>0, Ranges DEF TestStart, Go, TypeOK, RoundInv, workerVars, mainVars
<1>4. CountInv'
  <2>1. \A l \in List : Owing(l)' = Owing(l)
    BY <1>0, OwingKept DEF TestStart, Go, TypeOK, workerVars, mainVars
  <2> QED
    BY <1>0, <2>1, Ranges DEF TestStart, Go, TypeOK, CountInv, Waiting, workerVars, mainVars
<1>5. CreateInv'
  BY <1>0, Ranges DEF TestStart, Go, TypeOK, CreateInv, workerVars, mainVars
<1> QED
  BY <1>1, <1>2, <1>3, <1>4, <1>5 DEF IInv

LEMMA StepSleepStart ==
    ASSUME IInv, NEW w \in Workers, SleepStart(w)
    PROVE  IInv'
<1> USE ListsAssumption, WorkersAssumption, ListOfAssumption, LoadAssumption,
        BoundsAssumption, WrapAssumption
<1>0. TypeOK /\ LockInv /\ RoundInv /\ CountInv /\ CreateInv
  BY DEF IInv
<1>1. TypeOK'
  BY <1>0, Ranges DEF SleepStart, Go, TypeOK, Mutex, workerVars, mainVars
<1>2. LockInv'
  BY <1>0, Ranges DEF SleepStart, Go, TypeOK, LockInv, Mutex, workerVars, mainVars
<1>3. RoundInv'
  BY <1>0, Ranges DEF SleepStart, Go, TypeOK, RoundInv, workerVars, mainVars
<1>4. CountInv'
  <2>1. \A l \in List : Owing(l)' = Owing(l)
    BY <1>0, OwingKept DEF SleepStart, Go, TypeOK, workerVars, mainVars
  <2> QED
    BY <1>0, <2>1, Ranges DEF SleepStart, Go, TypeOK, CountInv, Waiting, workerVars, mainVars
<1>5. CreateInv'
  BY <1>0, Ranges DEF SleepStart, Go, TypeOK, CreateInv, workerVars, mainVars
<1> QED
  BY <1>1, <1>2, <1>3, <1>4, <1>5 DEF IInv

LEMMA StepSync ==
    ASSUME IInv, NEW w \in Workers, Sync(w)
    PROVE  IInv'
<1> USE ListsAssumption, WorkersAssumption, ListOfAssumption, LoadAssumption,
        BoundsAssumption, WrapAssumption
<1>0. TypeOK /\ LockInv /\ RoundInv /\ CountInv /\ CreateInv
  BY DEF IInv
<1>1. TypeOK'
  BY <1>0, Ranges DEF Sync, Go, TypeOK, Mutex, workerVars, mainVars
<1>2. LockInv'
  BY <1>0, Ranges DEF Sync, Go, TypeOK, LockInv, Mutex, workerVars, mainVars
<1>3. RoundInv'
  BY <1>0, Ranges DEF Sync, Go, TypeOK, RoundInv, workerVars, mainVars
<1>4. CountInv'
  <2>1. \A l \in List : Owing(l)' = Owing(l)
    BY <1>0, OwingKept DEF Sync, Go, TypeOK, workerVars, mainVars
  <2> QED
    BY <1>0, <2>1, Ranges DEF Sync, Go, TypeOK, CountInv, Waiting, workerVars, mainVars
<1>5. CreateInv'
  BY <1>0, Ranges DEF Sync, Go, TypeOK, CreateInv, workerVars, mainVars
<1> QED
  BY <1>1, <1>2, <1>3, <1>4, <1>5 DEF IInv

LEMMA StepMark ==
    ASSUME IInv, NEW w \in Workers, Mark(w)
    PROVE  IInv'
<1> USE ListsAssumption, WorkersAssumption, ListOfAssumption, LoadAssumption,
        BoundsAssumption, WrapAssumption
<1>0. TypeOK /\ LockInv /\ RoundInv /\ CountInv /\ CreateInv
  BY DEF IInv
<1>1. TypeOK'
  BY <1>0, Ranges DEF Mark, Go, TypeOK, Mutex, workerVars, mainVars
<1>2. LockInv'
  BY <1>0, Ranges DEF Mark, Go, TypeOK, LockInv, Mutex, workerVars, mainVars
<1>3. RoundInv'
  BY <1>0, Ranges DEF Mark, Go, TypeOK, RoundInv, workerVars, mainVars
<1>4. CountInv'
  <2>1. \A l \in List : Owing(l)' = Owing(l)
    BY <1>0, Ranges DEF Mark, Go, TypeOK, RoundInv, Owing, workerVars, mainVars
  <2> QED
    BY <1>0, <2>1, Ranges DEF Mark, Go, TypeOK, CountInv, Waiting, workerVars, mainVars
<1>5. CreateInv'
  BY <1>0, Ranges DEF Mark, Go, TypeOK, CreateInv, workerVars, mainVars
<1> QED
  BY <1>1, <1>2, <1>3, <1>4, <1>5 DEF IInv

LEMMA StepLockCount ==
    ASSUME IInv, NEW w \in Workers, LockCount(w)
    PROVE  IInv'
<1> USE ListsAssumption, WorkersAssumption, ListOfAssumption, LoadAssumption,
        BoundsAssumption, WrapAssumption
<1>0. TypeOK /\ LockInv /\ RoundInv /\ CountInv /\ CreateInv
  BY DEF IInv
<1>1. TypeOK'
  BY <1>0, Ranges DEF LockCount, Go, TypeOK, Mutex, workerVars, mainVars
<1>2. LockInv'
  BY <1>0, Ranges DEF LockCount, Go, TypeOK, LockInv, Mutex, workerVars, mainVars
<1>3. RoundInv'
  BY <1>0, Ranges DEF LockCount, Go, TypeOK, RoundInv, workerVars, mainVars
<1>4. CountInv'
  <2>1. \A l \in List : Owing(l)' = Owing(l)
    BY <1>0, OwingKept DEF LockCount, Go, TypeOK, workerVars, mainVars
  <2> QED
    BY <1>0, <2>1, Ranges DEF LockCount, Go, TypeOK, CountInv, Waiting, workerVars, mainVars
<1>5. CreateInv'
  BY <1>0, Ranges DEF LockCount, Go, TypeOK, CreateInv, workerVars, mainVars
<1> QED
  BY <1>1, <1>2, <1>3, <1>4, <1>5 DEF IInv

LEMMA StepCount ==
    ASSUME IInv, NEW w \in Workers, Count(w)
    PROVE  IInv'
<1> USE ListsAssumption, WorkersAssumption, ListOfAssumption, LoadAssumption,
        BoundsAssumption, WrapAssumption
<1>0. TypeOK /\ LockInv /\ RoundInv /\ CountInv /\ CreateInv
  BY DEF IInv
<1>a. /\ ListOf[w] \in List /\ w \in Owing(ListOf[w])
      /\ t0[w] = next_t1[ListOf[w]]
  BY <1>0, Ranges DEF Count, TypeOK, Owing, RoundInv
<1>b. /\ Waiting(ListOf[w])
      /\ donecount[ListOf[w]] = Cardinality(Owing(ListOf[w]))
  BY <1>0, <1>a DEF CountInv
<1>c. Cardinality(Owing(ListOf[w]) \ {w}) = donecount[ListOf[w]] - 1
  <2>1. IsFiniteSet(Owing(ListOf[w]))
    BY OwingFinite
  <2>2. Cardinality(Owing(ListOf[w]) \ {w}) = Cardinality(Owing(ListOf[w])) - 1
    BY <1>a, <2>1, FS_RemoveElement
  <2> QED
    BY <1>b, <2>2
<1>d. donecount[ListOf[w]] - 1 \in Nat
  <2>1. IsFiniteSet(Owing(ListOf[w]) \ {w})
    BY OwingFinite, FS_Subset
  <2> QED
    BY <1>c, <2>1, FS_CardinalityType
<1>1. TypeOK'
  BY <1>0, <1>a, <1>d, Ranges DEF Count, Go, TypeOK, Mutex, workerVars, mainVars
<1>2. LockInv'
  BY <1>0, Ranges DEF Count, Go, TypeOK, LockInv, Mutex, workerVars, mainVars
<1>3. RoundInv'
  BY <1>0, Ranges DEF Count, Go, TypeOK, RoundInv, workerVars, mainVars
<1>4. CountInv'
  <2>1. Owing(ListOf[w])' = Owing(ListOf[w]) \ {w}
    BY <1>0, <1>a DEF Count, Go, TypeOK, Owing, Pool
  <2>2. \A l \in List \ {ListOf[w]} : Owing(l)' = Owing(l)
    BY <1>0, <1>a DEF Count, Go, TypeOK, Owing, Pool
  <2>3. cur = ListOf[w] /\ mpc \in {"asleep", "relock"}
    BY <1>0, <1>a, <1>b DEF Count, Waiting, LockInv
  <2> QED
    BY <1>0, <1>a, <1>b, <1>c, <2>1, <2>2, <2>3, Ranges DEF Count, Go, TypeOK, CountInv, Waiting, workerVars, mainVars
<1>5. CreateInv'
  BY <1>0, Ranges DEF Count, Go, TypeOK, CreateInv, workerVars, mainVars
<1> QED
  BY <1>1, <1>2, <1>3, <1>4, <1>5 DEF IInv

LEMMA StepSpurious ==
    ASSUME IInv, Spurious
    PROVE  IInv'
<1> USE ListsAssumption, WorkersAssumption, ListOfAssumption, LoadAssumption,
        BoundsAssumption, WrapAssumption
<1>0. TypeOK /\ LockInv /\ RoundInv /\ CountInv /\ CreateInv
  BY DEF IInv
<1>1. TypeOK'
  BY <1>0, Ranges DEF Spurious, Go, TypeOK, Mutex, workerVars, mainVars
<1>2. LockInv'
  BY <1>0, Ranges DEF Spurious, Go, TypeOK, LockInv, Mutex, workerVars, mainVars
<1>3. RoundInv'
  BY <1>0, Ranges DEF Spurious, Go, TypeOK, RoundInv, workerVars, mainVars
<1>4. CountInv'
  <2>1. \A l \in List : Owing(l)' = Owing(l)
    BY <1>0, OwingKept DEF Spurious, Go, TypeOK, workerVars, mainVars
  <2> QED
    BY <1>0, <2>1, Ranges DEF Spurious, Go, TypeOK, CountInv, Waiting, workerVars, mainVars
<1>5. CreateInv'
  BY <1>0, Ranges DEF Spurious, Go, TypeOK, CreateInv, workerVars, mainVars
<1> QED
  BY <1>1, <1>2, <1>3, <1>4, <1>5 DEF IInv

LEMMA StepInv == IInv /\ [Next]_vars => IInv'
<1> SUFFICES ASSUME IInv, [Next]_vars PROVE IInv'
  OBVIOUS
<1>1. CASE MainStep
  BY <1>1, StepLoop, StepCreate, StepLockDone, StepLockStart, StepPublish,
     StepTestDone, StepSleepDone, StepRelockDone, StepCheck DEF MainStep
<1>2. ASSUME NEW w \in Workers, WorkerStep(w) PROVE IInv'
  BY <1>2, StepLock, StepTestStart, StepSleepStart, StepSync, StepMark,
     StepLockCount, StepCount DEF WorkerStep
<1>3. CASE Spurious
  BY <1>3, StepSpurious
<1>4. CASE UNCHANGED vars
  BY <1>4 DEF vars, IInv, TypeOK, LockInv, RoundInv, CountInv, CreateInv,
     Owing, Pool, Waiting, Mutex
<1> QED
  BY <1>1, <1>2, <1>3, <1>4 DEF Next, Ended

(* The inductive invariant holds in every behaviour.                       *)
THEOREM Inductive == Spec => []IInv
<1> QED
  BY InitInv, StepInv, PTL DEF Spec

(* The state of the pools stays in its types; donecount is never negative, *)
(* so the unsigned counter of the code never wraps.                        *)
THEOREM TypeCorrect == Spec => []TypeOK
<1>1. IInv => TypeOK
  BY DEF IInv
<1> QED
  BY <1>1, Inductive, PTL

LEMMA BarrierInv == IInv => Barrier
<1> SUFFICES ASSUME IInv, NEW w \in Workers, Busy(w)
             PROVE  Waiting(ListOf[w])
  BY DEF Barrier
<1>1. w \in Owing(ListOf[w])
  BY DEF IInv, RoundInv, Busy, Owing, Pool
<1> QED
  BY <1>1, Ranges DEF IInv, CountInv

(* exec_start goes on to the next rank list, and ends, only when every     *)
(* worker of the list is through: whatever the pools and the schedule.     *)
THEOREM BarrierHolds == Spec => []Barrier
<1> QED
  BY BarrierInv, Inductive, PTL

(* ss_do_object_sync updates thread_data->data[n] without a lock, and      *)
(* exec_start reads all entries without one: no two threads are ever at the*)
(* same entry, neither two workers nor a worker and the main thread.       *)
THEOREM SlotsNotShared == Spec => []SlotExclusive
<1>1. Barrier => SlotExclusive
  <2> SUFFICES ASSUME Barrier, NEW w \in Workers, pc[w] = "work"
               PROVE  /\ \A v \in Workers \ {w} : pc[v] = "work" => SlotOf[v] # SlotOf[w]
                      /\ mpc \notin {"loop", "check", "ended"}
    BY DEF SlotExclusive
  <2>1. \A v \in Workers : pc[v] = "work" => Waiting(ListOf[v])
    BY DEF Barrier, Busy
  <2> QED
    BY <2>1, SlotOfAssumption DEF Waiting
<1> QED
  BY <1>1, BarrierHolds, PTL

(* No wakeup of the start or the done condition is lost.                   *)
THEOREM WakeupsNotLost == Spec => []NoLostWakeup
<1>1. IInv => NoLostWakeup
  BY DEF IInv, RoundInv, CountInv, NoLostWakeup
<1> QED
  BY <1>1, Inductive, PTL

-----------------------------------------------------------------------------
(* A worker that has served the round of a list has been through its whole *)
(* stretch, and its index stays there until the next round opens.          *)
Served(w) ==
    /\ t0[w] = next_t1[ListOf[w]]
    /\ \/ ListOf[w] < cur
       \/ ListOf[w] = cur /\ mpc \notin {"create", "lockdone", "lockstart", "publish"}

FullInv == \A w \in Workers : Served(w) => idx[w] = Load[w]

LEMMA FullMain ==
    ASSUME IInv, FullInv, MainStep
    PROVE  FullInv'
<1>0. TypeOK /\ LockInv /\ RoundInv /\ CountInv /\ CreateInv
  BY DEF IInv
<1> SUFFICES ASSUME NEW w \in Workers, Served(w)' PROVE idx'[w] = Load[w]
  BY DEF FullInv
<1>1. idx' = idx
  BY DEF MainStep, Loop, Create, LockDone, LockStart, Publish, TestDone,
         SleepDone, RelockDone, Check, workerVars
<1>2. CASE Publish
  <2>1. cur \in List /\ cur # 0
    BY <1>0, <1>2, Ranges DEF Publish
  <2>2. ListOf[w] = cur => t0[w] = next_t1[cur]
    BY <1>0, <1>2, <2>1, Ranges DEF Publish, Owing, Waiting, CountInv, Pool
  <2>3. next_t1'[cur] # next_t1[cur]
    BY <1>0, <1>2, <2>1, BumpMoves DEF Publish, TypeOK
  <2>4. ListOf[w] # cur
    BY <1>2, <2>2, <2>3 DEF Publish, Served
  <2>5. Served(w)
    BY <1>0, <1>2, <2>1, <2>4, Ranges DEF Publish, Served, TypeOK
  <2> QED
    BY <1>1, <2>5 DEF FullInv
<1>3. CASE Check
  <2>1. UNCHANGED <<t0, next_t1>> /\ mpc = "check"
    BY <1>3 DEF Check, workerVars
  <2>2. cur \in List /\ ListOf[w] \in List /\ List \subseteq Nat
    BY <1>0, <2>1, Ranges
  <2>3. ListOf[w] <= cur
    BY <1>3, <2>2, ListsAssumption DEF Check, EnterList, Served, List
  <2>4. t0[w] = next_t1[ListOf[w]]
    BY <2>1 DEF Served
  <2>5. ListOf[w] \in Nat /\ cur \in Nat
    BY <2>2
  <2>6. ListOf[w] < cur \/ ListOf[w] = cur
    BY <2>3, <2>5
  <2>7. Served(w)
    BY <2>1, <2>4, <2>6 DEF Served
  <2> QED
    BY <1>1, <2>7 DEF FullInv
<1>4. CASE Loop
  <2>1. cur = 0 /\ ListOf[w] \in Nat /\ ListOf[w] # 0
    BY <1>0, <1>4, Ranges DEF Loop, CreateInv
  <2>2. ~Served(w)'
    BY <1>4, <2>1 DEF Loop, EnterList, Served
  <2> QED
    BY <2>2
<1>5. CASE Create \/ LockDone \/ LockStart \/ TestDone \/ SleepDone \/ RelockDone
  <2>1. Served(w)
    BY <1>5 DEF Create, LockDone, LockStart, TestDone, SleepDone, RelockDone, Served, workerVars
  <2> QED
    BY <1>1, <2>1 DEF FullInv
<1> QED
  BY <1>2, <1>3, <1>4, <1>5 DEF MainStep

LEMMA FullWorker ==
    ASSUME IInv, FullInv, NEW w \in Workers, WorkerStep(w)
    PROVE  FullInv'
<1>0. TypeOK /\ RoundInv
  BY DEF IInv
<1> SUFFICES ASSUME NEW v \in Workers, Served(v)' PROVE idx'[v] = Load[v]
  BY DEF FullInv
<1>1. CASE TestStart(w)
  <2>1. Served(v)
    BY <1>1 DEF TestStart, Served, mainVars
  <2>2. idx'[v] = idx[v]
    BY <1>0, <1>1, <2>1 DEF TestStart, Served, TypeOK
  <2> QED
    BY <2>1, <2>2 DEF FullInv
<1>2. CASE Sync(w)
  <2>1. Served(v)
    BY <1>2 DEF Sync, Served, mainVars
  <2>2. idx'[v] = idx[v]
    BY <1>0, <1>2, <2>1 DEF Sync, Served, TypeOK, RoundInv
  <2> QED
    BY <2>1, <2>2 DEF FullInv
<1>3. CASE Mark(w)
  <2>1. v # w => Served(v)
    BY <1>0, <1>3 DEF Mark, Served, TypeOK, mainVars
  <2>2. idx' = idx /\ idx[w] = Load[w]
    BY <1>3 DEF Mark
  <2>3. CASE v = w
    BY <2>2, <2>3
  <2>4. CASE v # w
    BY <2>1, <2>2, <2>4 DEF FullInv
  <2> QED
    BY <2>3, <2>4
<1>4. CASE Lock(w) \/ SleepStart(w) \/ LockCount(w) \/ Count(w)
  <2>1. Served(v) /\ idx' = idx
    BY <1>4 DEF Lock, SleepStart, LockCount, Count, Served, mainVars
  <2> QED
    BY <2>1 DEF FullInv
<1> QED
  BY <1>1, <1>2, <1>3, <1>4 DEF WorkerStep

LEMMA FullStep == IInv /\ FullInv /\ [Next]_vars => FullInv'
<1> SUFFICES ASSUME IInv, FullInv, [Next]_vars PROVE FullInv'
  OBVIOUS
<1>1. CASE Spurious
  BY <1>1 DEF Spurious, FullInv, Served
<1>2. CASE UNCHANGED vars
  BY <1>2 DEF vars, FullInv, Served
<1> QED
  BY <1>1, <1>2, FullMain, FullWorker DEF Next, Ended

LEMMA FullInit == Init => FullInv
BY ListOfAssumption, ListsAssumption DEF Init, FullInv, Served, List

-----------------------------------------------------------------------------
(* The refinement.  Prog is the number of objects every worker has         *)
(* synchronised in the iteration, as the sweep sees it.                    *)
Prog == [w \in Workers |-> Synced(w)]

LEMMA ProgKept ==
    ASSUME \A w \in Workers : Synced(w)' = Synced(w), UNCHANGED cur
    PROVE  UNCHANGED <<cur, Prog>>
BY DEF Prog

LEMMA SweepStep == IInv /\ FullInv /\ [Next]_vars => [Sweep!Next]_<<cur, Prog>>
<1> SUFFICES ASSUME IInv, FullInv, [Next]_vars
             PROVE  Sweep!Next \/ UNCHANGED <<cur, Prog>>
  OBVIOUS
<1> USE ListsAssumption, ListOfAssumption, LoadAssumption
<1>0. TypeOK /\ LockInv /\ RoundInv /\ CountInv /\ CreateInv
  BY DEF IInv
<1>1. CASE Loop
  <2>1. cur = 0 /\ \A w \in Workers : Synced(w) = 0
    BY <1>0, <1>1 DEF Loop, CreateInv, Synced
  <2>2. CASE EnterList(1)
    <3>1. \A w \in Workers : Synced(w)' = 0
      BY <1>0, <2>2, Ranges DEF EnterList, Synced, List
    <3> QED
      BY <2>1, <2>2, <3>1 DEF EnterList, Prog, Sweep!Next, Sweep!Begin
  <2>3. CASE UNCHANGED cur
    <3>1. \A w \in Workers : Synced(w)' = 0
      BY <2>1, <2>3 DEF Synced
    <3> QED BY <2>1, <2>3, <3>1 DEF Prog
  <2> QED BY <1>1, <2>2, <2>3 DEF Loop
<1>2. CASE Create \/ LockDone \/ LockStart
  <2>1. \A w \in Workers : Synced(w)' = Synced(w)
    BY <1>0, <1>2 DEF Create, LockDone, LockStart, Synced, workerVars
  <2> QED BY <1>2, <2>1, ProgKept DEF Create, LockDone, LockStart
<1>3. CASE Publish
  <2>1. cur \in List /\ cur # 0
    BY <1>0, <1>3, Ranges DEF Publish
  <2>2. next_t1'[cur] # next_t1[cur]
    BY <1>0, <1>3, <2>1, BumpMoves DEF Publish, TypeOK
  <2>3. \A w \in Pool(cur) : t0[w] = next_t1[cur] /\ pc[w] # "work"
    BY <1>0, <1>3, <2>1, Ranges DEF Publish, Owing, Waiting, RoundInv, CountInv, Pool
  <2>4. \A w \in Workers : Synced(w)' = Synced(w)
    BY <1>0, <1>3, <2>1, <2>2, <2>3, Ranges DEF Publish, Synced, Pool, TypeOK
  <2> QED BY <1>3, <2>4, ProgKept DEF Publish
<1>4. CASE TestDone \/ SleepDone \/ RelockDone
  <2>1. \A w \in Workers : Synced(w)' = Synced(w)
    BY <1>0, <1>4 DEF TestDone, SleepDone, RelockDone, Synced, workerVars
  <2> QED BY <1>4, <2>1, ProgKept DEF TestDone, SleepDone, RelockDone
<1>5. CASE Check
  <2>1. cur \in List /\ Owing(cur) = {}
    BY <1>0, <1>5, Ranges DEF Check, CountInv, Waiting
  <2>2. \A w \in Workers : ListOf[w] = cur => t0[w] = next_t1[cur]
    BY <2>1 DEF Owing, Pool
  <2>3. \A w \in Workers : ListOf[w] = cur => Synced(w) = Load[w] /\ Synced(w) = idx[w]
    BY <1>0, <1>5, <2>1, <2>2, Ranges DEF Check, Synced, FullInv, Served
  <2>4. CASE failed # {}
    <3>1. \A w \in Workers : Synced(w)' = Synced(w)
      BY <1>5, <2>4 DEF Check, Synced, workerVars
    <3> QED BY <1>5, <2>4, <3>1, ProgKept DEF Check
  <2>5. CASE failed = {} /\ cur < Lists
    <3>1. cur' = cur + 1 /\ mpc' \in {"create", "lockdone"}
      BY <1>5, <2>5 DEF Check, EnterList
    <3>2. \A w \in Workers : Synced(w)' = Synced(w)
      <4>1. UNCHANGED <<idx, t0, next_t1, pc>> /\ mpc = "check" /\ cur # 0
        BY <1>0, <1>5, Ranges, <2>1 DEF Check, workerVars
      <4> QED
        BY <1>0, <2>1, <2>3, <3>1, <4>1, Ranges DEF Synced
    <3>3. Prog' = Prog
      BY <3>2 DEF Prog
    <3>4. \A w \in Workers : ListOf[w] = cur => Prog[w] = Load[w]
      BY <2>3 DEF Prog
    <3>5. cur # 0 /\ cur < Lists
      BY <1>0, <2>1, <2>5, Ranges
    <3>6. UNCHANGED [w \in Workers |-> Synced(w)]
      BY <3>3 DEF Prog
    <3>7. Sweep!Leave
      BY <3>1, <3>4, <3>5, <3>6 DEF Prog, Sweep!Leave
    <3> QED
      BY <3>7 DEF Sweep!Next
  <2>6. CASE failed = {} /\ ~(cur < Lists)
    <3>1. cur' = 0
      BY <1>5, <2>6 DEF Check
    <3>2. \A w \in Workers : Synced(w)' = 0
      BY <3>1 DEF Synced
    <3>3. Prog' = [w \in Workers |-> 0]
      BY <3>2 DEF Prog
    <3>4. \A w \in Workers : ListOf[w] = cur => Prog[w] = Load[w]
      BY <2>3 DEF Prog
    <3> QED
      BY <1>0, <2>1, <2>6, <3>1, <3>3, <3>4, Ranges
         DEF Prog, Sweep!Next, Sweep!Leave, Sweep!Nothing
  <2> QED BY <2>4, <2>5, <2>6
<1>6. ASSUME NEW w \in Workers, Lock(w) \/ TestStart(w) \/ SleepStart(w) \/ LockCount(w)
      PROVE  UNCHANGED <<cur, Prog>>
  <2>1. CASE TestStart(w)
    <3>1. ListOf[w] \in List /\ cur \in Nat /\ List \subseteq Nat
      BY <1>0, Ranges DEF TypeOK
    <3>2. ListOf[w] < cur => t0[w] = next_t1[ListOf[w]]
      BY <1>0, <3>1 DEF CountInv, Waiting, Owing, Pool
    <3>3. \A v \in Workers : Synced(v)' = Synced(v)
      BY <1>0, <2>1, <3>1, <3>2 DEF TestStart, Go, Synced, TypeOK, mainVars
    <3> QED BY <2>1, <3>3, ProgKept DEF TestStart, mainVars
  <2>2. CASE Lock(w) \/ SleepStart(w) \/ LockCount(w)
    <3>1. \A v \in Workers : Synced(v)' = Synced(v)
      BY <1>0, <2>2 DEF Lock, SleepStart, LockCount, Go, Synced, TypeOK, mainVars
    <3> QED BY <2>2, <3>1, ProgKept DEF Lock, SleepStart, LockCount, mainVars
  <2> QED BY <1>6, <2>1, <2>2
<1>7. ASSUME NEW w \in Workers, Sync(w) PROVE Sweep!Next
  <2>1. ListOf[w] = cur /\ mpc \in {"test", "sleep", "asleep", "relock"} /\ cur # 0
    BY <1>7, BarrierInv, Ranges DEF IInv, Sync, Barrier, Busy, Waiting
  <2>2. t0[w] # next_t1[cur]
    BY <1>0, <1>7, <2>1 DEF Sync, RoundInv
  <2>3. Synced(w) = idx[w] /\ Synced(w)' = idx[w] + 1
    BY <1>0, <1>7, <2>1, <2>2 DEF Sync, Synced, TypeOK, mainVars
  <2>4. \A v \in Workers \ {w} : Synced(v)' = Synced(v)
    BY <1>0, <1>7 DEF Sync, Synced, TypeOK, mainVars
  <2>5. Prog' = [Prog EXCEPT ![w] = @ + 1] /\ Prog[w] = idx[w]
    BY <2>3, <2>4 DEF Prog
  <2> QED
    BY <1>7, <2>1, <2>5 DEF Sync, mainVars, Prog, Sweep!Next, Sweep!Sync
<1>8. ASSUME NEW w \in Workers, Mark(w) PROVE UNCHANGED <<cur, Prog>>
  <2>1. ListOf[w] = cur /\ mpc \in {"test", "sleep", "asleep", "relock"} /\ cur # 0
    BY <1>8, BarrierInv, Ranges DEF IInv, Mark, Barrier, Busy, Waiting
  <2>2. t0[w] # next_t1[cur]
    BY <1>0, <1>8, <2>1 DEF Mark, RoundInv
  <2>3. Synced(w) = Load[w] /\ Synced(w)' = Load[w]
    BY <1>0, <1>8, <2>1, <2>2 DEF Mark, Synced, TypeOK, mainVars
  <2>4. \A v \in Workers \ {w} : Synced(v)' = Synced(v)
    BY <1>0, <1>8 DEF Mark, Go, Synced, TypeOK, mainVars
  <2> QED BY <1>8, <2>3, <2>4, ProgKept DEF Mark, mainVars
<1>9. ASSUME NEW w \in Workers, Count(w) PROVE UNCHANGED <<cur, Prog>>
  <2>1. \A v \in Workers : Synced(v)' = Synced(v)
    BY <1>0, <1>9 DEF Count, Go, Synced, TypeOK, RoundInv
  <2> QED BY <1>9, <2>1, ProgKept DEF Count
<1>10. CASE Spurious
  <2>1. \A v \in Workers : Synced(v)' = Synced(v)
    BY <1>0, <1>10 DEF Spurious, Go, Synced, TypeOK, RoundInv
  <2> QED BY <1>10, <2>1, ProgKept DEF Spurious
<1>11. CASE UNCHANGED vars
  BY <1>11 DEF vars, Prog, Synced
<1> QED
  BY <1>1, <1>2, <1>3, <1>4, <1>5, <1>6, <1>7, <1>8, <1>9, <1>10, <1>11
     DEF Next, MainStep, WorkerStep, Ended

(* The pools implement the sweep: in every iteration every object of every *)
(* rank list is synchronised once, no list before the one ahead of it.     *)
THEOREM ImplementsSweep == Spec => SweepSpec
<1>1. Init => Sweep!Init
  BY DEF Init, Sweep!Init, Sweep!Nothing, Synced
<1>2. IInv /\ FullInv /\ [Next]_vars => [Sweep!Next]_<<cur, [w \in Workers |-> Synced(w)]>>
  BY SweepStep DEF Prog
<1> QED
  BY <1>1, <1>2, Inductive, FullInit, FullStep, PTL DEF Spec, SweepSpec, Sweep!Spec
=============================================================================
