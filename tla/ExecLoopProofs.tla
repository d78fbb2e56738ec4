--------------------------- MODULE ExecLoopProofs ---------------------------
(* Proofs about ExecLoop, for any objects, rank lists, service dates, stop *)
(* time, iteration limit, minimum timestep and mode.                       *)
(* The inductive invariant IInv adds two facts to the types: nothing the   *)
(* loop may step to is behind the clock (Ahead), and an object that        *)
(* stopped its clock has failed an entry nobody clears (FailureKept).      *)
(* Beside it stands Earliest: the entries together know the earliest event *)
(* asked for so far, and after they are collected step_to is it.           *)
EXTENDS ExecLoop, FiniteSetTheorems, WellFoundedInduction, TLAPS

(* Rounding to the minimum timestep never moves an event to before it was  *)
(* asked for.                                                              *)
LEMMA RoundedLater ==
    ASSUME MinimumTimestep \in Nat \ {0}, NEW t \in Nat
    PROVE  Rounded(t) \in Int /\ Rounded(t) >= t
<1> DEFINE m == MinimumTimestep
           q == (t - 1) \div m
<1>1. m \in Nat \ {0}
  OBVIOUS
<1> HIDE DEF m
<1>2. q \in Int
  BY <1>1
<1>3. t - 1 < (q + 1) * m
  BY <1>1, <1>2
<1>4. Rounded(t) = (q + 1) * m
  BY DEF Rounded, m
<1> QED
  BY <1>1, <1>2, <1>3, <1>4

(* The globals keep the values they were given.                            *)
Settings == MinimumTimestep \in Nat \ {0} /\ RunRealtime \in Nat

(* What the later facts need to know of the types.                         *)
Types ==
    /\ epc \in {"loop", "sync", "collect", "advance", "end"}
    /\ global_clock \in Nat /\ step_to \in Nat
    /\ slot \in [Slots -> [step_to : Nat, hard_event : Nat, failed : BOOLEAN]]
    /\ asked \in [Objects \union {Core} -> SUBSET Int]
    /\ epc = "sync" => list \in DOMAIN RankLists /\ pending \subseteq DOMAIN RankLists[list]

(* Nothing the loop may step to lies behind the clock.                     *)
Ahead ==
    /\ epc \in {"loop", "advance"} => step_to >= global_clock
    /\ epc \in {"sync", "collect"} =>
         step_to > global_clock /\ \A s \in Slots : slot[s].step_to >= global_clock

(* An object that stopped its clock has failed an entry of thread_data     *)
(* that nothing clears before it is looked at.                             *)
StoppedClock == \E o \in Objects : \E a \in asked[o] : When(a) < global_clock
FailureKept ==
    StoppedClock => \/ epc = "sync" /\ \E s \in Slots : slot[s].failed
                    \/ epc = "end" /\ status = "FAILED"

Steps == Types /\ Ahead /\ FailureKept
IInv  == Settings /\ Steps

LEMMA Constants ==
    /\ Never \in Nat /\ StartTime \in Nat /\ Times \subseteq Nat
    /\ InSvc \in [Objects -> Nat] /\ Core \notin Objects
    /\ \A l \in DOMAIN RankLists : \A o \in DOMAIN RankLists[l] :
         o \in Objects /\ RankLists[l][o] \in Slots
    /\ DOMAIN RankLists = 1 .. Len(RankLists) /\ Len(RankLists) \in Nat
<1>1. RankLists \in Seq(UNION {[O -> Slots] : O \in SUBSET Objects})
  BY ObjectsAssumption
<1>2. \A l \in DOMAIN RankLists : RankLists[l] \in UNION {[O -> Slots] : O \in SUBSET Objects}
  BY <1>1
<1>3. \A l \in DOMAIN RankLists : \A o \in DOMAIN RankLists[l] :
        o \in Objects /\ RankLists[l][o] \in Slots
  BY <1>2
<1>4. DOMAIN RankLists = 1 .. Len(RankLists) /\ Len(RankLists) \in Nat
  BY <1>1
<1> QED
  BY <1>3, <1>4, TimesAssumption, LimitsAssumption, ObjectsAssumption DEF Times

LEMMA AnswersAreInts ==
    ASSUME NEW o \in Objects
    PROVE  Answers(o) \subseteq Int
<1>1. InSvc[o] \in Int /\ Never \in Int /\ -Never \in Int /\ -1 \in Int
  BY Constants
<1>2. Times \subseteq Int /\ {-t : t \in Times \ {1}} \subseteq Int
  BY Constants
<1> QED
  BY <1>1, <1>2 DEF Answers

(* The event an object is given credit for is not behind the clock.        *)
LEMMA NextAhead ==
    ASSUME MinimumTimestep \in Nat \ {0}, global_clock \in Nat,
           NEW t \in Int, t >= global_clock
    PROVE  Next_t(t) \in Nat /\ Next_t(t) >= global_clock
<1>1. t \in Nat
  OBVIOUS
<1> QED
  BY <1>1, RoundedLater DEF Next_t

LEMMA InitInv == Init => IInv
<1> SUFFICES ASSUME Init PROVE IInv
  OBVIOUS
<1>0. Settings
  BY GlobalsAssumption DEF Init, Settings, MinimumTimestep, RunRealtime
<1>1. Types
  BY Constants DEF Init, Types, Asked
<1>2. Ahead
  BY Constants DEF Init, Ahead
<1>3. ~StoppedClock
  BY Constants DEF Init, StoppedClock, Asked
<1> QED
  BY <1>0, <1>1, <1>2, <1>3 DEF IInv, Steps, FailureKept

LEMMA StepBegin ==
    ASSUME IInv, Begin
    PROVE  Steps' /\ global_clock' >= global_clock
<1>0. Settings /\ Types /\ Ahead
  BY DEF IInv, Steps
<1>1. global_clock' \in Nat /\ global_clock' >= global_clock
  BY <1>0, Constants DEF Begin, Settings, Types, Ahead
<1>2. PICK t \in Times \union {Never} :
        /\ step_to' = t
        /\ IF t <= global_clock'
             THEN /\ status' = "FAILED" /\ epc' = "end"
                  /\ UNCHANGED <<list, pending, slot>>
             ELSE /\ slot' = [s \in Slots |-> Cleared(slot[s])]
                  /\ Enter(1)
                  /\ UNCHANGED status
        /\ asked' = Asked({t})
  BY DEF Begin, Behind
<1>3. t \in Nat
  BY Constants
<1>4. ~StoppedClock'
  BY <1>2, Constants DEF StoppedClock, Asked
<1>5. asked' \in [Objects \union {Core} -> SUBSET Int]
  BY <1>2, <1>3 DEF Asked
<1>6. CASE t <= global_clock'
  BY <1>0, <1>1, <1>2, <1>3, <1>4, <1>5, <1>6 DEF Steps, Types, Ahead, FailureKept
<1>7. CASE ~(t <= global_clock')
  <2>1. slot' \in [Slots -> [step_to : Nat, hard_event : Nat, failed : BOOLEAN]]
        /\ \A s \in Slots : slot'[s].step_to = Never
    <3>1. slot' = [s \in Slots |-> Cleared(slot[s])]
      BY <1>2, <1>7
    <3>2. \A s \in Slots : slot[s] \in [step_to : Nat, hard_event : Nat, failed : BOOLEAN]
      BY <1>0 DEF Types
    <3>3. \A s \in Slots : /\ Cleared(slot[s]) \in [step_to : Nat, hard_event : Nat, failed : BOOLEAN]
                           /\ Cleared(slot[s]).step_to = Never
      BY <3>2, Constants DEF Cleared
    <3> QED
      BY <3>1, <3>3
  <2>2. Never >= global_clock'
    <3>1. global_clock' <= LastTime
      BY DEF Begin
    <3>2. LastTime \in Nat /\ Never > LastTime
      BY TimesAssumption, LimitsAssumption
    <3> QED
      BY <1>1, <3>1, <3>2, Constants
  <2>3. /\ epc' \in {"sync", "collect"}
        /\ epc' = "sync" => list' \in DOMAIN RankLists
                            /\ pending' \subseteq DOMAIN RankLists[list']
    BY <1>2, <1>7, Constants DEF Enter
  <2>4. step_to' \in Nat /\ step_to' > global_clock'
    BY <1>1, <1>2, <1>3, <1>7
  <2>5. Types'
    BY <1>1, <1>5, <2>1, <2>3, <2>4 DEF Types
  <2>6. Ahead'
    BY <1>1, <2>1, <2>2, <2>3, <2>4 DEF Ahead
  <2> QED
    BY <1>1, <1>4, <2>5, <2>6 DEF Steps, FailureKept
<1> QED
  BY <1>1, <1>6, <1>7

LEMMA StepSyncObject ==
    ASSUME IInv, NEW o \in Objects, SyncObject(o)
    PROVE  Steps' /\ global_clock' = global_clock
<1>0. Settings /\ Types /\ Ahead /\ FailureKept
  BY DEF IInv, Steps
<1> DEFINE n == RankLists[list][o]
<1>1. n \in Slots /\ epc = "sync" /\ o \in pending
  BY <1>0, Constants DEF SyncObject, Types
<1> DEFINE counted(a) == [slot[n] EXCEPT !.hard_event =
                            @ + IF Hard(a) THEN 1 ELSE 0]
<1>2. PICK a \in Answers(o) :
        /\ slot' = [slot EXCEPT ![n] =
                      IF When(a) < global_clock
                        THEN [counted(a) EXCEPT !.failed = TRUE]
                        ELSE [counted(a) EXCEPT !.step_to = Lesser(Next_t(When(a)), @)]]
        /\ asked' = [asked EXCEPT ![o] = @ \union {a}]
  BY DEF SyncObject, Stopped
<1>3. a \in Int /\ When(a) \in Int
  BY AnswersAreInts DEF When, Soft
<1>4. counted(a) \in [step_to : Nat, hard_event : Nat, failed : BOOLEAN]
      /\ counted(a).step_to = slot[n].step_to
      /\ counted(a).failed = slot[n].failed
  BY <1>0, <1>1 DEF Types
<1>5. ~(When(a) < global_clock) =>
        Next_t(When(a)) \in Nat /\ Next_t(When(a)) >= global_clock
  BY <1>0, <1>3, NextAhead DEF Types, Settings
<1> HIDE DEF counted, n
<1>6. Types'
  <2>1. slot' \in [Slots -> [step_to : Nat, hard_event : Nat, failed : BOOLEAN]]
    BY <1>0, <1>1, <1>2, <1>3, <1>4, <1>5 DEF Types, Lesser
  <2>2. asked' \in [Objects \union {Core} -> SUBSET Int]
    BY <1>0, <1>2, <1>3 DEF Types
  <2> QED
    BY <1>0, <1>1, <2>1, <2>2 DEF SyncObject, Types
<1>7. Ahead'
  <2>1. \A s \in Slots : slot'[s].step_to >= global_clock
    BY <1>0, <1>1, <1>2, <1>3, <1>4, <1>5 DEF Types, Ahead, Lesser
  <2> QED
    BY <1>0, <1>1, <2>1 DEF SyncObject, Ahead
<1>8. FailureKept'
  <2>1. ASSUME NEW s \in Slots, slot[s].failed PROVE slot'[s].failed
    BY <1>0, <1>1, <1>2, <1>3, <1>4, <2>1 DEF Types
  <2>2. When(a) < global_clock => slot'[n].failed
    BY <1>0, <1>1, <1>2, <1>3, <1>4 DEF Types
  <2>3. StoppedClock' => StoppedClock \/ When(a) < global_clock
    BY <1>0, <1>2 DEF StoppedClock, SyncObject, Types, When, Soft
  <2> QED
    BY <1>0, <1>1, <2>1, <2>2, <2>3 DEF FailureKept, SyncObject
<1> QED
  BY <1>6, <1>7, <1>8 DEF Steps, SyncObject

LEMMA StepOther ==
    ASSUME IInv, LeaveList \/ Collect \/ Commit \/ Iterate \/ Leave \/ Stop
                 \/ UNCHANGED vars
    PROVE  Steps' /\ global_clock' = global_clock
<1>0. Types /\ Ahead /\ FailureKept
  BY DEF IInv, Steps
<1>1. CASE LeaveList
  <2>1. UNCHANGED <<global_clock, step_to, slot, asked>> /\ epc = "sync"
    BY <1>1 DEF LeaveList
  <2>2. StoppedClock' <=> StoppedClock
    BY <2>1 DEF StoppedClock
  <2>3. CASE \E s \in Slots : slot[s].failed
    BY <1>0, <1>1, <2>1, <2>2, <2>3 DEF LeaveList, AnyFailed, Steps, Types, Ahead, FailureKept
  <2>4. CASE ~\E s \in Slots : slot[s].failed
    <3>1. ~StoppedClock'
      BY <1>0, <2>1, <2>2, <2>4 DEF FailureKept
    <3>2. /\ epc' \in {"sync", "collect"}
          /\ epc' = "sync" => list' \in DOMAIN RankLists
                              /\ pending' \subseteq DOMAIN RankLists[list']
      BY <1>0, <1>1, <2>4, Constants DEF LeaveList, AnyFailed, Enter, Types
    <3> QED
      BY <1>0, <2>1, <3>1, <3>2 DEF Steps, Types, Ahead, FailureKept
  <2> QED BY <2>1, <2>3, <2>4
<1>2. CASE Collect
  <2>1. step_to' \in Nat /\ step_to' >= global_clock
    BY <1>0, <1>2 DEF Collect, Types, Ahead
  <2>2. StoppedClock' <=> StoppedClock
    BY <1>2 DEF StoppedClock, Collect
  <2> QED
    BY <1>0, <1>2, <2>1, <2>2 DEF Collect, Steps, Types, Ahead, FailureKept
<1>3. CASE Commit
  <2>1. ~StoppedClock
    BY <1>0, <1>3 DEF Commit, FailureKept
  <2>2. PICK t \in Times \union {-1, Never} :
         IF t <= global_clock
           THEN /\ status' = "FAILED" /\ epc' = "end"
                /\ UNCHANGED <<step_to, iteration_counter, asked>>
           ELSE /\ step_to' = Lesser(t, step_to)
                /\ asked' = [asked EXCEPT ![Core] = @ \union {t}]
                /\ iteration_counter' = IterationLimit
                /\ epc' = "loop"
                /\ UNCHANGED status
    BY <1>3 DEF Commit, Behind
  <2>3. t \in Int /\ UNCHANGED <<global_clock, slot>>
    BY <1>3, Constants DEF Commit
  <2>4. \A o \in Objects : asked'[o] = asked[o]
    BY <1>0, <2>2, Constants DEF Types
  <2>5. ~StoppedClock'
    BY <2>1, <2>3, <2>4 DEF StoppedClock
  <2>6. asked' \in [Objects \union {Core} -> SUBSET Int]
    BY <1>0, <2>2, <2>3 DEF Types
  <2> QED
    BY <1>0, <1>3, <2>2, <2>3, <2>5, <2>6
       DEF Commit, Steps, Types, Ahead, FailureKept, Lesser
<1>4. CASE Iterate \/ Leave
  <2>1. UNCHANGED <<global_clock, step_to, slot, asked>> /\ epc \in {"advance", "loop"}
    BY <1>4 DEF Iterate, Leave
  <2>2. ~StoppedClock /\ (StoppedClock' <=> StoppedClock)
    BY <1>0, <2>1 DEF StoppedClock, FailureKept
  <2> QED
    BY <1>0, <1>4, <2>1, <2>2 DEF Iterate, Leave, Steps, Types, Ahead, FailureKept
<1>5. CASE Stop \/ UNCHANGED vars
  <2>1. UNCHANGED <<epc, global_clock, step_to, status, list, pending, slot, asked>>
    BY <1>5 DEF Stop, vars
  <2>2. StoppedClock' <=> StoppedClock
    BY <2>1 DEF StoppedClock
  <2> QED
    BY <1>0, <2>1, <2>2 DEF Steps, Types, Ahead, FailureKept
<1> QED
  BY <1>1, <1>2, <1>3, <1>4, <1>5

LEMMA StepInv == IInv /\ [Next]_vars => IInv' /\ global_clock' >= global_clock
<1> SUFFICES ASSUME IInv, [Next]_vars PROVE IInv' /\ global_clock' >= global_clock
  OBVIOUS
<1>1. global_clock \in Nat
  BY DEF IInv, Steps, Types
<1>2. Steps' /\ global_clock' >= global_clock
  BY <1>1, StepBegin, StepSyncObject, StepOther DEF Next, Loop, Ended
<1>3. global' = global
  BY DEF Next, Loop, Ended, vars, Begin, SyncObject, LeaveList, Collect,
         Commit, Iterate, Leave, Stop
<1>4. Settings'
  BY <1>3 DEF IInv, Settings, MinimumTimestep, RunRealtime
<1> QED
  BY <1>2, <1>4 DEF IInv

(* The inductive invariant holds in every behaviour.                       *)
THEOREM Inductive == Spec => []IInv
<1>1. IInv /\ [Next]_vars => IInv'
  BY StepInv
<1> QED
  BY <1>1, InitInv, PTL DEF Spec

(* Simulation time never goes back.                                        *)
THEOREM ClockNeverGoesBack == Spec => ClockMonotone
<1>1. IInv /\ [Next]_vars => [global_clock' >= global_clock]_vars
  BY StepInv
<1> QED
  BY <1>1, Inductive, PTL DEF Spec, ClockMonotone

(* An object that stopped its clock ends the simulation with FAILED before *)
(* any later rank list is visited.                                         *)
THEOREM ErrorsAreNotLost == Spec => []ErrorsStop
<1>1. IInv => ErrorsStop
  BY DEF IInv, Steps, FailureKept, StoppedClock, ErrorsStop
<1> QED
  BY <1>1, Inductive, PTL
-----------------------------------------------------------------------------
(* The earliest event.                                                     *)

(* Two multiples of m less than m apart are one.                           *)
LEMMA OneMultiple ==
    ASSUME NEW m \in Nat \ {0}, NEW x \in Int, NEW y \in Int,
           x % m = 0, y % m = 0, x - y < m, y - x < m
    PROVE  x = y
<1> DEFINE i == x \div m
           j == y \div m
<1>1. i \in Int /\ j \in Int
  OBVIOUS
<1>2. x = i * m /\ y = j * m
  OBVIOUS
<1> HIDE DEF i, j
<1>3. (i - j) * m < m /\ (j - i) * m < m
  BY <1>1, <1>2
<1>4. i - j < 1 /\ j - i < 1
  BY <1>1, <1>3
<1> QED
  BY <1>1, <1>2, <1>4

(* A rounded time is the first multiple of the minimum timestep.           *)
LEMMA RoundedIsMultiple ==
    ASSUME MinimumTimestep \in Nat \ {0}, NEW t \in Nat
    PROVE  Rounded(t) % MinimumTimestep = 0 /\ Rounded(t) <= t + MinimumTimestep - 1
<1> DEFINE m == MinimumTimestep
           q == (t - 1) \div m
<1>1. m \in Nat \ {0}
  OBVIOUS
<1> HIDE DEF m
<1>2. q \in Int
  BY <1>1
<1>3. q * m <= t - 1
  BY <1>1, <1>2
<1>4. Rounded(t) = (q + 1) * m
  BY DEF Rounded, m
<1> HIDE DEF q
<1>5. ((q + 1) * m) % m = 0
  BY <1>1, <1>2
<1>6. (q + 1) * m <= t + m - 1
  BY <1>1, <1>2, <1>3
<1> QED
  BY <1>4, <1>5, <1>6 DEF m

(* The time an object is given credit for is the one it asked for, moved   *)
(* to the grid.                                                            *)
LEMMA GridIsRounded ==
    ASSUME MinimumTimestep \in Nat \ {0}, NEW t \in Nat
    PROVE  OnGrid(t) = Next_t(t)
<1>1. CASE t > global_clock /\ t < Never
  <2> DEFINE m == MinimumTimestep
             P(x) == x \in t .. t + m - 1 /\ x % m = 0
  <2>1. P(Rounded(t))
    BY RoundedLater, RoundedIsMultiple
  <2>2. \A x : P(x) => x = Rounded(t)
    <3> SUFFICES ASSUME NEW x, P(x) PROVE x = Rounded(t)
      OBVIOUS
    <3>1. x \in Int /\ Rounded(t) \in Int /\ x - Rounded(t) < m /\ Rounded(t) - x < m
      BY <2>1
    <3> QED
      BY <2>1, <3>1, OneMultiple
  <2>3. OnGrid(t) = CHOOSE x \in t .. t + m - 1 : x % m = 0
    BY <1>1 DEF OnGrid
  <2>4. OnGrid(t) = Rounded(t)
    BY <2>1, <2>2, <2>3
  <2>5. CASE MinimumTimestep > 1
    BY <1>1, <2>4, <2>5 DEF Next_t
  <2>6. CASE MinimumTimestep = 1
    <3>1. P(t)
      BY <2>6
    <3> QED
      BY <2>2, <2>4, <2>6, <3>1 DEF Next_t
  <2> QED
    BY <2>5, <2>6
<1>2. CASE ~(t > global_clock /\ t < Never)
  BY <1>2 DEF OnGrid, Next_t
<1> QED
  BY <1>1, <1>2

(* What has been collected of what was asked.                              *)
Sought(t) == \E o \in Objects : \E a \in asked[o] : t = Next_t(When(a))
Gathering ==
    /\ asked[Core] = {step_to} /\ step_to <= Never
    /\ \A s \in Slots : slot[s].step_to = Never \/ Sought(slot[s].step_to)
    /\ \A o \in Objects : \A a \in asked[o] :
         When(a) >= global_clock => \E s \in Slots : slot[s].step_to <= Next_t(When(a))
Gathered ==
    /\ step_to = Never \/ step_to \in asked[Core] \/ Sought(step_to)
    /\ step_to <= Never
    /\ \A t \in asked[Core] : step_to <= t
    /\ \A o \in Objects : \A a \in asked[o] : step_to <= Next_t(When(a))
Earliest ==
    /\ epc \in {"sync", "collect"} => Gathering
    /\ epc = "advance" \/ (epc = "loop" /\ asked[Core] # {}) => Gathered

LEMMA EarliestBegin ==
    ASSUME IInv, Begin
    PROVE  Earliest'
<1>1. PICK t \in Times \union {Never} :
        /\ step_to' = t
        /\ IF t <= global_clock'
             THEN epc' = "end"
             ELSE slot' = [s \in Slots |-> Cleared(slot[s])] /\ Enter(1)
        /\ asked' = Asked({t})
  BY DEF Begin, Behind
<1>2. t <= Never
  BY TimesAssumption DEF Times
<1>3. asked'[Core] = {t} /\ \A o \in Objects : asked'[o] = {}
  BY <1>1, Constants DEF Asked
<1>4. CASE t <= global_clock'
  BY <1>1, <1>4 DEF Earliest
<1>5. CASE ~(t <= global_clock')
  <2>1. epc' \in {"sync", "collect"}
    BY <1>1, <1>5 DEF Enter
  <2>2. \A s \in Slots : slot'[s].step_to = Never
    <3>1. \A s \in Slots : slot[s] \in [step_to : Nat, hard_event : Nat, failed : BOOLEAN]
      BY DEF IInv, Steps, Types
    <3>2. \A s \in Slots : Cleared(slot[s]).step_to = Never
      BY <3>1, Constants DEF Cleared
    <3> QED
      BY <1>1, <1>5, <3>2
  <2> QED
    BY <1>1, <1>2, <1>3, <2>1, <2>2 DEF Earliest, Gathering
<1> QED
  BY <1>4, <1>5

LEMMA EarliestSyncObject ==
    ASSUME IInv, Earliest, NEW o \in Objects, SyncObject(o)
    PROVE  Earliest'
<1>0. Settings /\ Types /\ Ahead /\ Gathering /\ epc = "sync" /\ epc' = "sync"
  BY DEF IInv, Steps, Earliest, SyncObject
<1> DEFINE n == RankLists[list][o]
<1>1. n \in Slots
  BY <1>0, Constants DEF SyncObject, Types
<1> DEFINE counted(a) == [slot[n] EXCEPT !.hard_event =
                            @ + IF Hard(a) THEN 1 ELSE 0]
<1>2. PICK a \in Answers(o) :
        /\ slot' = [slot EXCEPT ![n] =
                      IF When(a) < global_clock
                        THEN [counted(a) EXCEPT !.failed = TRUE]
                        ELSE [counted(a) EXCEPT !.step_to = Lesser(Next_t(When(a)), @)]]
        /\ asked' = [asked EXCEPT ![o] = @ \union {a}]
  BY DEF SyncObject, Stopped
<1>3. a \in Int /\ When(a) \in Int
  BY AnswersAreInts DEF When, Soft
<1>4. counted(a) \in [step_to : Nat, hard_event : Nat, failed : BOOLEAN]
      /\ counted(a).step_to = slot[n].step_to
  BY <1>0, <1>1 DEF Types
<1>5. ~(When(a) < global_clock) =>
        Next_t(When(a)) \in Nat /\ Next_t(When(a)) >= global_clock
  BY <1>0, <1>3, NextAhead DEF Types, Settings
<1>6. \A s \in Slots : slot[s].step_to \in Nat
  BY <1>0 DEF Types
<1> HIDE DEF counted, n
<1>7. \A s \in Slots : slot'[s].step_to =
        IF s = n /\ ~(When(a) < global_clock)
          THEN Lesser(Next_t(When(a)), slot[s].step_to) ELSE slot[s].step_to
  BY <1>0, <1>1, <1>2, <1>4 DEF Types
<1>8. /\ asked'[o] = asked[o] \union {a} /\ asked'[Core] = asked[Core]
      /\ \A x \in Objects : x # o => asked'[x] = asked[x]
  BY <1>0, <1>2, Constants DEF Types
<1>10. UNCHANGED <<global_clock, step_to, global>>
  BY DEF SyncObject
<1>11. \A x \in Objects : asked[x] \subseteq asked'[x] /\ asked[x] \subseteq Int
  BY <1>0, <1>8 DEF Types
<1> DEFINE Later(t) == \E x \in Objects : \E b \in asked'[x] : t = Next_t(When(b))
<1>13. \A t : Sought(t) => Later(t)
  BY <1>11 DEF Sought
<1>14. Later(Next_t(When(a)))
  BY <1>8
<1> HIDE DEF Later
<1>15. \A s \in Slots : slot'[s].step_to = Never \/ Later(slot'[s].step_to)
  <2> SUFFICES ASSUME NEW s \in Slots PROVE slot'[s].step_to = Never \/ Later(slot'[s].step_to)
    OBVIOUS
  <2>1. slot'[s].step_to = slot[s].step_to \/ slot'[s].step_to = Next_t(When(a))
    BY <1>7 DEF Lesser
  <2>2. slot[s].step_to = Never \/ Sought(slot[s].step_to)
    BY <1>0 DEF Gathering
  <2> QED
    BY <1>13, <1>14, <2>1, <2>2
<1>16. ASSUME NEW x \in Objects, NEW b \in asked'[x], When(b) >= global_clock
       PROVE  \E s \in Slots : slot'[s].step_to <= Next_t(When(b))
  <2>1. \A s \in Slots : slot'[s].step_to <= slot[s].step_to /\ slot'[s].step_to \in Nat
    BY <1>5, <1>6, <1>7 DEF Lesser
  <2>2. CASE b \in asked[x]
    <3>1. b \in Int /\ When(b) \in Int
      BY <1>11, <2>2 DEF When, Soft
    <3>2. Next_t(When(b)) \in Nat
      BY <1>0, <1>16, <3>1, NextAhead DEF Types, Settings
    <3>3. PICK s \in Slots : slot[s].step_to <= Next_t(When(b))
      BY <1>0, <1>16, <2>2 DEF Gathering
    <3> QED
      BY <1>6, <2>1, <3>2, <3>3
  <2>3. CASE b = a
    <3>1. ~(When(a) < global_clock)
      BY <1>0, <1>3, <1>16, <2>3 DEF Types
    <3>2. slot'[n].step_to <= Next_t(When(a))
      BY <1>1, <1>5, <1>6, <1>7, <3>1 DEF Lesser
    <3> QED
      BY <1>1, <2>3, <3>2
  <2> QED
    BY <1>8, <2>2, <2>3
<1>17. Gathering'
  <2>1. asked'[Core] = {step_to'} /\ step_to' <= Never
    BY <1>0, <1>8, <1>10 DEF Gathering
  <2>2. \A s \in Slots : slot'[s].step_to = Never \/ Sought(slot[s].step_to)'
    BY <1>10, <1>15 DEF Later, Sought, Next_t, Rounded, MinimumTimestep, When, Soft
  <2>3. \A x \in Objects : \A b \in asked'[x] :
          (When(b) >= global_clock)' => \E s \in Slots : slot'[s].step_to <= Next_t(When(b))'
    BY <1>10, <1>16 DEF Next_t, Rounded, MinimumTimestep, When, Soft
  <2> QED
    BY <2>1, <2>2, <2>3 DEF Gathering
<1> QED
  BY <1>0, <1>17 DEF Earliest
(* Once no object has stopped its clock, all that was asked for counts.    *)
LEMMA EarliestCollect ==
    ASSUME IInv, Earliest, Collect
    PROVE  Earliest'
<1>0. Types /\ Gathering /\ ~StoppedClock /\ Settings
  BY DEF IInv, Steps, Earliest, Collect, FailureKept
<1>1. /\ UNCHANGED <<global, global_clock, asked, slot>> /\ epc' = "advance"
      /\ step_to' \in {step_to} \union {slot[s].step_to : s \in Slots}
      /\ step_to' <= step_to /\ \A s \in Slots : step_to' <= slot[s].step_to
  BY DEF Collect
<1>2. /\ step_to \in Nat /\ step_to' \in Nat /\ Never \in Nat
      /\ \A s \in Slots : slot[s].step_to \in Nat
  <2>1. \A s \in Slots : slot[s].step_to \in Nat
    BY <1>0 DEF Types
  <2> QED
    BY <1>0, <1>1, <2>1, Constants DEF Types
<1>3. step_to' = Never \/ step_to' \in asked[Core] \/ Sought(step_to')
  BY <1>0, <1>1 DEF Gathering
<1>4. ASSUME NEW o \in Objects, NEW a \in asked[o]
      PROVE  step_to' <= Next_t(When(a))
  <2>1. a \in Int /\ When(a) \in Int /\ When(a) >= global_clock
    BY <1>0 DEF Types, StoppedClock, When, Soft
  <2>2. Next_t(When(a)) \in Nat
    BY <1>0, <2>1, NextAhead DEF Types, Settings
  <2>3. PICK s \in Slots : slot[s].step_to <= Next_t(When(a))
    BY <1>0, <2>1 DEF Gathering
  <2> QED
    BY <1>1, <1>2, <2>2, <2>3
<1>5. Gathered'
  <2>1. step_to' = Never \/ step_to' \in asked'[Core] \/ Sought(step_to)'
    BY <1>1, <1>3 DEF Sought, Next_t, Rounded, MinimumTimestep, When, Soft
  <2>2. step_to' <= Never /\ \A t \in asked'[Core] : step_to' <= t
    BY <1>0, <1>1, <1>2 DEF Gathering
  <2>3. \A o \in Objects : \A a \in asked'[o] : step_to' <= Next_t(When(a))'
    BY <1>1, <1>4 DEF Next_t, Rounded, MinimumTimestep, When, Soft
  <2> QED
    BY <2>1, <2>2, <2>3 DEF Gathered
<1> QED
  BY <1>1, <1>5 DEF Earliest

LEMMA EarliestCommit ==
    ASSUME IInv, Earliest, Commit
    PROVE  Earliest'
<1>0. Settings /\ Types /\ Gathered /\ ~StoppedClock
  BY DEF IInv, Steps, Earliest, Commit, FailureKept
<1>1. UNCHANGED <<global, global_clock>>
  BY DEF Commit
<1>2. PICK t \in Times \union {-1, Never} :
        IF t <= global_clock
          THEN epc' = "end"
          ELSE /\ step_to' = Lesser(t, step_to)
               /\ asked' = [asked EXCEPT ![Core] = @ \union {t}]
               /\ epc' = "loop"
  BY DEF Commit, Behind
<1>3. t \in Int /\ t <= Never
  BY TimesAssumption, Constants DEF Times
<1>4. CASE t <= global_clock
  BY <1>2, <1>4 DEF Earliest
<1>5. CASE ~(t <= global_clock)
  <2>1. /\ asked'[Core] = asked[Core] \union {t} /\ asked[Core] \subseteq Int
        /\ \A o \in Objects : asked'[o] = asked[o] /\ asked[o] \subseteq Int
    BY <1>0, <1>2, <1>5, Constants DEF Types
  <2>2. step_to' = Lesser(t, step_to) /\ step_to \in Nat /\ Never \in Nat
    BY <1>0, <1>2, <1>5, Constants DEF Types
  <2>3. \A o \in Objects : \A a \in asked[o] : step_to <= Next_t(When(a)) /\ Next_t(When(a)) \in Nat
    <3> SUFFICES ASSUME NEW o \in Objects, NEW a \in asked[o]
                 PROVE  step_to <= Next_t(When(a)) /\ Next_t(When(a)) \in Nat
      OBVIOUS
    <3>1. When(a) \in Int /\ When(a) >= global_clock
      BY <1>0, <2>1 DEF StoppedClock, Types, When, Soft
    <3> QED
      BY <1>0, <3>1, NextAhead DEF Gathered, Types, Settings
  <2>4. \A o \in Objects : \A a \in asked[o] : step_to' <= Next_t(When(a))
    BY <1>3, <2>2, <2>3 DEF Lesser
  <2>5. step_to' <= Never /\ \A x \in asked'[Core] : step_to' <= x
    BY <1>0, <1>3, <2>1, <2>2 DEF Gathered, Lesser
  <2>6. step_to' = Never \/ step_to' \in asked'[Core] \/ Sought(step_to')
    BY <1>0, <2>1, <2>2 DEF Gathered, Lesser
  <2>7. step_to' = Never \/ step_to' \in asked'[Core] \/ Sought(step_to)'
    BY <1>1, <2>1, <2>6 DEF Sought, Next_t, Rounded, MinimumTimestep, When, Soft
  <2>8. \A o \in Objects : \A a \in asked'[o] : step_to' <= Next_t(When(a))'
    BY <1>1, <2>1, <2>4 DEF Next_t, Rounded, MinimumTimestep, When, Soft
  <2>9. Gathered'
    BY <2>5, <2>7, <2>8 DEF Gathered
  <2> QED
    BY <1>2, <1>5, <2>9 DEF Earliest
<1> QED
  BY <1>4, <1>5

LEMMA EarliestOther ==
    ASSUME IInv, Earliest, LeaveList \/ Iterate \/ Leave \/ Stop \/ UNCHANGED vars
    PROVE  Earliest'
<1>1. UNCHANGED <<global, global_clock, step_to, slot, asked>>
  BY DEF LeaveList, Iterate, Leave, Stop, vars
<1>2. /\ epc' = epc \/ epc' = "end" \/ (epc = "sync" /\ epc' \in {"sync", "collect"})
         \/ (epc = "advance" /\ epc' = "loop")
  BY DEF LeaveList, Iterate, Leave, Stop, vars, Enter
<1>3. (Gathering' <=> Gathering) /\ (Gathered' <=> Gathered)
  BY <1>1 DEF Gathering, Gathered, Sought, Next_t, Rounded, MinimumTimestep, When, Soft
<1> QED
  BY <1>1, <1>2, <1>3 DEF Earliest

LEMMA EarliestStep == IInv /\ Earliest /\ [Next]_vars => Earliest'
<1> SUFFICES ASSUME IInv, Earliest, [Next]_vars PROVE Earliest'
  OBVIOUS
<1> QED
  BY EarliestBegin, EarliestSyncObject, EarliestCollect, EarliestCommit, EarliestOther
     DEF Next, Loop, Ended

(* What the code leaves in step_to is the least element of the events and  *)
(* Never: it is one of them, and below all of them.                        *)
LEMMA EarliestIsMin == IInv /\ Earliest => StepIsEarliest
<1> SUFFICES ASSUME IInv, Earliest, epc = "loop", asked[Core] # {}
             PROVE  step_to = Min(AskedTimes \union {Never})
  BY DEF StepIsEarliest
<1>0. Settings /\ Types /\ Gathered /\ ~StoppedClock
  BY DEF IInv, Steps, Earliest, FailureKept
<1> DEFINE S == AskedTimes \union {Never}
<1>1. \A o \in Objects : \A a \in asked[o] : OnGrid(When(a)) = Next_t(When(a))
  <2> SUFFICES ASSUME NEW o \in Objects, NEW a \in asked[o]
               PROVE  OnGrid(When(a)) = Next_t(When(a))
    OBVIOUS
  <2>1. When(a) \in Int /\ When(a) >= global_clock /\ global_clock \in Nat
    BY <1>0 DEF StoppedClock, Types, When, Soft
  <2>2. When(a) \in Nat
    BY <2>1
  <2> QED
    BY <1>0, <2>2, GridIsRounded DEF Settings
<1>2. step_to \in S
  BY <1>0, <1>1 DEF Gathered, Sought, AskedTimes
<1>3. \A t \in S : step_to <= t
  BY <1>0, <1>1 DEF Gathered, AskedTimes
<1>4. \A t \in S : t \in Int
  <2>1. \A t \in asked[Core] : t \in Int
    BY <1>0 DEF Types
  <2>2. \A o \in Objects : \A a \in asked[o] : Next_t(When(a)) \in Int
    <3> SUFFICES ASSUME NEW o \in Objects, NEW a \in asked[o]
                 PROVE  Next_t(When(a)) \in Int
      OBVIOUS
    <3>1. When(a) \in Int /\ When(a) >= global_clock
      BY <1>0 DEF StoppedClock, Types, When, Soft
    <3> QED
      BY <1>0, <3>1, NextAhead DEF Types, Settings
  <2> QED
    BY <1>1, <2>1, <2>2, Constants DEF AskedTimes
<1> HIDE DEF S
<1>5. Min(S) = CHOOSE x \in S : \A y \in S : x <= y
  BY DEF Min
<1>6. \A x \in S : (\A y \in S : x <= y) => x = step_to
  BY <1>2, <1>3, <1>4
<1>7. Min(S) = step_to
  BY <1>2, <1>3, <1>5, <1>6
<1> QED
  BY <1>7 DEF S

(* The entries and then step_to know the earliest event in every behaviour. *)
THEOREM EarliestHolds == Spec => []Earliest
<1>1. Init => Earliest
  BY Constants DEF Init, Earliest, Asked
<1>2. IInv /\ Earliest /\ [Next]_vars => Earliest'
  BY EarliestStep
<1> QED
  BY <1>1, <1>2, Inductive, PTL DEF Spec

(* The loop steps to exactly the earliest event anybody asked for, for any *)
(* number of threads, lists and objects and any minimum timestep.          *)
THEOREM EarliestIsNext == Spec => []StepIsEarliest
<1>1. IInv /\ Earliest => StepIsEarliest
  BY EarliestIsMin
<1> QED
  BY <1>1, EarliestHolds, Inductive, PTL
-----------------------------------------------------------------------------
(* The sum of the hard events.                                             *)

(* A set of subsets of a finite set has a smallest one.                    *)
LEMMA Smallest ==
    ASSUME NEW S, IsFiniteSet(S), NEW X \in SUBSET SUBSET S, X # {}
    PROVE  \E T \in X : \A U \in SUBSET T : U # T => U \notin X
<1>1. X \subseteq FiniteSubsetsOf(S)
  <2>1. \A T \in X : T \in SUBSET S /\ IsFiniteSet(T)
    BY FS_Subset
  <2> QED
    BY <2>1 DEF FiniteSubsetsOf
<1>2. PICK T \in X : \A U \in X : ~(<<U, T>> \in StrictSubsetOrdering(S))
  BY <1>1, FS_StrictSubsetOrderingWellFounded, WFMin
<1>3. ASSUME NEW U \in SUBSET T, U # T, U \in X PROVE FALSE
  BY <1>2, <1>3 DEF StrictSubsetOrdering
<1> QED
  BY <1>2, <1>3

(* What adds up the entries of the sets below T, one element after the     *)
(* other, as MapThenSumSet does.                                           *)
Pick(s) == CHOOSE x \in s : TRUE
Rest(s) == s \ {Pick(s)}
Count(f, s) == IF s = {} THEN 0 ELSE slot[Pick(s)].hard_event + f[Rest(s)]
Adds(f, T) == f = [s \in SUBSET T |-> Count(f, s)]

LEMMA RestIsSmaller ==
    ASSUME NEW s, s # {}
    PROVE  Pick(s) \in s /\ Rest(s) \subseteq s /\ Rest(s) # s /\ Pick(s) \notin Rest(s)
           /\ s = Rest(s) \union {Pick(s)}
BY DEF Pick, Rest

LEMMA AddsAgree ==
    ASSUME IsFiniteSet(Slots), NEW T \in SUBSET Slots, NEW V \in SUBSET Slots,
           NEW r \in SUBSET Slots, r \subseteq T, r \subseteq V
    PROVE  \A f, g : Adds(f, T) /\ Adds(g, V) => f[r] = g[r]
<1> SUFFICES ASSUME NEW f, Adds(f, T), NEW g, Adds(g, V) PROVE f[r] = g[r]
  OBVIOUS
<1> DEFINE X == {s \in SUBSET Slots : s \subseteq T /\ s \subseteq V /\ f[s] # g[s]}
<1>1. SUFFICES ASSUME X # {} PROVE FALSE
  OBVIOUS
<1>2. PICK s \in X : \A U \in SUBSET s : U # s => U \notin X
  BY <1>1, Smallest
<1>3. f[s] = Count(f, s) /\ g[s] = Count(g, s)
  BY <1>2 DEF Adds
<1>4. s # {}
  BY <1>2, <1>3 DEF Count
<1>5. f[Rest(s)] = g[Rest(s)]
  BY <1>2, <1>4, RestIsSmaller
<1> QED
  BY <1>2, <1>3, <1>5 DEF Count

LEMMA AddsExists ==
    ASSUME IsFiniteSet(Slots)
    PROVE  \A T \in SUBSET Slots : \E f : Adds(f, T)
<1> DEFINE X == {T \in SUBSET Slots : ~\E f : Adds(f, T)}
<1>1. SUFFICES ASSUME X # {} PROVE FALSE
  OBVIOUS
<1>0. X \in SUBSET SUBSET Slots
  OBVIOUS
<1> HIDE DEF X
<1>6. PICK T \in X : \A U \in SUBSET T : U # T => U \notin X
  BY <1>0, <1>1, Smallest
<1>2. T \in SUBSET Slots /\ ~(\E f : Adds(f, T)) /\ \A U \in SUBSET T : U # T => \E f : Adds(f, U)
  BY <1>6 DEF X
<1> DEFINE G(U) == CHOOSE f : Adds(f, U)
           f == [s \in SUBSET T |-> IF s = {} THEN 0
                                    ELSE slot[Pick(s)].hard_event + G(Rest(s))[Rest(s)]]
<1>3. \A U \in SUBSET T : U # T => Adds(G(U), U)
  <2> SUFFICES ASSUME NEW U \in SUBSET T, U # T PROVE Adds(G(U), U)
    OBVIOUS
  <2>1. \E h : Adds(h, U)
    BY <1>2
  <2> QED
    BY <2>1
<1> HIDE DEF G
<1>4. ASSUME NEW s \in SUBSET T PROVE f[s] = Count(f, s)
  <2>1. CASE s = {}
    BY <2>1 DEF Count
  <2>2. CASE s # {}
    <3> DEFINE r == Rest(s)
    <3>1. r \in SUBSET T /\ r # T /\ r \subseteq s
      BY <2>2, RestIsSmaller
    <3>2. f[s] = slot[Pick(s)].hard_event + G(r)[r]
      BY <2>2
    <3>3. G(r)[r] = Count(G(r), r)
      BY <1>3, <3>1 DEF Adds
    <3>4. f[r] = G(r)[r]
      <4>1. CASE r = {}
        BY <3>1, <3>3, <4>1 DEF Count
      <4>2. CASE r # {}
        <5>1. Rest(r) \in SUBSET r /\ Rest(r) # T /\ Rest(r) \in SUBSET T
          BY <3>1, <4>2, RestIsSmaller
        <5>2. Adds(G(r), r) /\ Adds(G(Rest(r)), Rest(r))
          BY <1>3, <3>1, <5>1
        <5>3. r \in SUBSET Slots /\ Rest(r) \in SUBSET Slots
          BY <1>2, <3>1, <5>1
        <5>5. Rest(r) \subseteq r /\ Rest(r) \subseteq Rest(r)
          BY <5>1
        <5>6. \A g, h : Adds(g, r) /\ Adds(h, Rest(r)) => g[Rest(r)] = h[Rest(r)]
          BY <5>3, <5>5, AddsAgree
        <5>4. G(r)[Rest(r)] = G(Rest(r))[Rest(r)]
          BY <5>2, <5>6
        <5> QED
          BY <3>1, <3>3, <4>2, <5>4 DEF Count
      <4> QED
        BY <4>1, <4>2
    <3> QED
      BY <2>2, <3>2, <3>4 DEF Count
  <2> QED
    BY <2>1, <2>2
<1>5. Adds(f, T)
  BY <1>4 DEF Adds
<1> QED
  BY <1>2, <1>5

(* The sum is none only when every entry is.                               *)
HardEvents == MapThenSumSet(LAMBDA s : slot[s].hard_event, Slots)

LEMMA SumCounts ==
    ASSUME Types
    PROVE  HardEvents \in Nat /\ \A s \in Slots : HardEvents >= slot[s].hard_event
<1>0. IsFiniteSet(Slots)
  BY SlotsAssumption
<1> DEFINE f == CHOOSE f : Adds(f, Slots)
<1>1. Adds(f, Slots)
  BY <1>0, AddsExists
<1>2. HardEvents = f[Slots]
  BY DEF HardEvents, MapThenSumSet, MapThenFoldSet, Adds, Count, Pick, Rest
<1> HIDE DEF f
<1> DEFINE Fine(s) == f[s] \in Nat /\ \A x \in s : f[s] >= slot[x].hard_event
           X == {s \in SUBSET Slots : ~Fine(s)}
<1>3. SUFFICES ASSUME X # {} PROVE FALSE
  BY <1>2
<1>12. X \in SUBSET SUBSET Slots
  OBVIOUS
<1> HIDE DEF X
<1>13. PICK s \in X : \A U \in SUBSET s : U # s => U \notin X
  BY <1>0, <1>3, <1>12, Smallest
<1>4. s \in SUBSET Slots /\ ~Fine(s) /\ \A U \in SUBSET s : U # s => Fine(U)
  BY <1>13 DEF X
<1>5. f[s] = Count(f, s)
  BY <1>1, <1>4 DEF Adds
<1>6. s # {}
  BY <1>4, <1>5 DEF Count
<1>7. Fine(Rest(s)) /\ Pick(s) \in Slots
  BY <1>4, <1>6, RestIsSmaller
<1>8. \A x \in Slots : slot[x].hard_event \in Nat
  BY DEF Types
<1>9. f[s] = slot[Pick(s)].hard_event + f[Rest(s)]
  BY <1>5, <1>6 DEF Count
<1>10. \A x \in s : x = Pick(s) \/ x \in Rest(s)
  BY <1>6, RestIsSmaller
<1>14. f[s] \in Nat /\ f[s] >= slot[Pick(s)].hard_event /\ f[s] >= f[Rest(s)]
  BY <1>7, <1>8, <1>9
<1>15. \A x \in Rest(s) : slot[x].hard_event \in Nat
  BY <1>4, <1>8 DEF Rest
<1>16. ASSUME NEW x \in s PROVE f[s] >= slot[x].hard_event
  BY <1>7, <1>10, <1>14, <1>15
<1>11. Fine(s)
  BY <1>14, <1>16
<1> QED
  BY <1>4, <1>11

(* What the loop knows of the events that count: an entry that has some    *)
(* while they are gathered, and hard_event itself afterwards.  With a stop *)
(* time it is never without, for the loop begins each iteration with one.  *)
Counts(a) == \E o \in Objects : a \in asked[o] /\ Hard(a)
Counted ==
    /\ hard_event \in Nat
    /\ epc \in {"sync", "collect"} => \A a : Counts(a) => \E s \in Slots : slot[s].hard_event > 0
    /\ epc \in {"advance", "loop"} => \A a : Counts(a) => hard_event > 0
    /\ StopTime # Never => hard_event > 0

(* The limit has been reached only when the loop has ended, and no event   *)
(* but Never is beyond the bound.                                          *)
Limits ==
    /\ global \in Globals
    /\ iteration_counter \in Nat /\ (epc # "end" => iteration_counter > 0)
    /\ \A o \in Objects : \A a \in asked[o] : When(a) = Never \/ When(a) <= LastTime

LEMMA LimitsStep == IInv /\ Limits /\ [Next]_vars => Limits'
<1> SUFFICES ASSUME IInv, Limits, [Next]_vars PROVE Limits'
  OBVIOUS
<1>0. Types
  BY DEF IInv, Steps
<1>1. global' = global
  BY DEF Next, Loop, Ended, vars, Begin, SyncObject, LeaveList, Collect,
         Commit, Iterate, Leave, Stop
<1>2. iteration_counter' \in Nat /\ (epc' # "end" => iteration_counter' > 0)
  <2>1. CASE Iterate
    <3>1. epc = "advance" /\ iteration_counter \in Nat /\ iteration_counter > 0
      BY <2>1 DEF Iterate, Limits
    <3>2. iteration_counter' = iteration_counter - 1
          /\ (iteration_counter = 1 => epc' = "end")
      BY <2>1 DEF Iterate
    <3> QED
      BY <3>1, <3>2
  <2>2. CASE Commit
    BY <2>2, LimitsAssumption DEF Commit, Limits
  <2>3. CASE ~Iterate /\ ~Commit
    <3>1. iteration_counter' = iteration_counter /\ (epc' # "end" => epc # "end")
      BY <2>3 DEF Next, Loop, Ended, vars, Begin, SyncObject, LeaveList, Collect, Leave, Stop
    <3> QED
      BY <3>1 DEF Limits
  <2> QED
    BY <2>1, <2>2, <2>3
<1>3. ASSUME NEW o \in Objects, SyncObject(o)
      PROVE  \A p \in Objects : \A a \in asked'[p] : When(a) = Never \/ When(a) <= LastTime
  <2>1. PICK a \in Answers(o) : asked' = [asked EXCEPT ![o] = @ \union {a}]
    BY <1>3 DEF SyncObject
  <2>2. When(a) = Never \/ When(a) <= LastTime
    BY TimesAssumption, ObjectsAssumption DEF Answers, When, Soft, Times
  <2> QED
    BY <1>0, <2>1, <2>2 DEF Limits, Types
<1>4. CASE Begin
  BY <1>1, <1>2, <1>4, ObjectsAssumption DEF Limits, Begin, Asked
<1>5. CASE Commit
  <2>1. \A o \in Objects : asked'[o] = asked[o]
    BY <1>0, <1>5, ObjectsAssumption DEF Commit, Types
  <2> QED
    BY <1>1, <1>2, <2>1 DEF Limits, When, Soft
<1>6. CASE LeaveList \/ Collect \/ Iterate \/ Leave \/ Stop \/ UNCHANGED vars
  <2>1. asked' = asked
    BY <1>6 DEF LeaveList, Collect, Iterate, Leave, Stop, vars
  <2> QED
    BY <1>1, <1>2, <2>1 DEF Limits, When, Soft
<1> QED
  BY <1>1, <1>2, <1>3, <1>4, <1>5, <1>6 DEF Next, Loop, Ended, Limits, When, Soft

LEMMA CountedBegin ==
    ASSUME IInv, Begin
    PROVE  Counted'
<1>1. hard_event' = (IF StopTime = Never THEN 0 ELSE 1) /\ StopTime' = StopTime
  BY DEF Begin, StopTime
<1>2. \A o \in Objects : asked'[o] = {}
  BY ObjectsAssumption DEF Begin, Asked
<1> QED
  BY <1>1, <1>2 DEF Counted, Counts

LEMMA CountedSyncObject ==
    ASSUME IInv, Counted, NEW o \in Objects, SyncObject(o)
    PROVE  Counted'
<1>0. Types /\ Types' /\ epc = "sync" /\ epc' = "sync"
  BY StepInv DEF IInv, Steps, SyncObject, Next, Loop
<1> DEFINE n == RankLists[list][o]
<1>1. n \in Slots
  BY <1>0, Constants DEF SyncObject, Types
<1> HIDE DEF n
<1> DEFINE counted(a) == [slot[n] EXCEPT !.hard_event =
                            @ + IF Hard(a) THEN 1 ELSE 0]
<1>9. PICK a \in Answers(o) :
        /\ slot' = [slot EXCEPT ![n] =
                      IF When(a) < global_clock
                        THEN [counted(a) EXCEPT !.failed = TRUE]
                        ELSE [counted(a) EXCEPT !.step_to = Lesser(Next_t(When(a)), @)]]
        /\ asked' = [asked EXCEPT ![o] = @ \union {a}]
  BY DEF SyncObject, Stopped, n
<1>2. /\ asked' = [asked EXCEPT ![o] = @ \union {a}]
      /\ slot' = [slot EXCEPT ![n] = slot'[n]]
      /\ slot'[n].hard_event = slot[n].hard_event + IF Hard(a) THEN 1 ELSE 0
  <2>1. slot[n] \in [step_to : Nat, hard_event : Nat, failed : BOOLEAN]
    BY <1>0, <1>1 DEF Types
  <2>2. counted(a).hard_event = slot[n].hard_event + IF Hard(a) THEN 1 ELSE 0
    BY <2>1
  <2>3. \A t : [counted(a) EXCEPT !.failed = TRUE].hard_event = counted(a).hard_event
              /\ [counted(a) EXCEPT !.step_to = t].hard_event = counted(a).hard_event
    BY <2>1
  <2> HIDE DEF counted
  <2>4. slot'[n].hard_event = counted(a).hard_event
    BY <1>0, <1>1, <1>9, <2>3 DEF Types
  <2> QED
    BY <1>0, <1>1, <1>9, <2>2, <2>4 DEF Types
<1>3. \A s \in Slots : slot[s].hard_event \in Nat /\ slot'[s].hard_event \in Nat
  BY <1>0 DEF Types
<1>4. \A s \in Slots : s # n => slot'[s] = slot[s]
  BY <1>0, <1>1, <1>2 DEF Types
<1>5. \A s \in Slots : slot'[s].hard_event >= slot[s].hard_event
  BY <1>1, <1>2, <1>3, <1>4
<1>6. Hard(a) => slot'[n].hard_event > 0
  BY <1>1, <1>2, <1>3
<1>7. ASSUME NEW b, Counts(b)' PROVE \E s \in Slots : slot'[s].hard_event > 0
  <2>1. Counts(b) \/ (b = a /\ Hard(a))
    BY <1>0, <1>2, <1>7 DEF Counts, Types
  <2>2. CASE Counts(b)
    <3>1. PICK s \in Slots : slot[s].hard_event > 0
      BY <1>0, <2>2 DEF Counted
    <3> QED
      BY <1>3, <1>5, <3>1
  <2> QED
    BY <1>1, <1>6, <2>1, <2>2
<1>8. UNCHANGED <<hard_event, StopTime>>
  BY DEF SyncObject, StopTime
<1> QED
  BY <1>0, <1>7, <1>8 DEF Counted

LEMMA CountedCollect ==
    ASSUME IInv, Counted, Collect
    PROVE  Counted'
<1>0. Types /\ epc = "collect" /\ epc' = "advance"
  BY DEF IInv, Steps, Collect
<1>1. hard_event' = hard_event + HardEvents
  BY DEF Collect, HardEvents
<1>2. HardEvents \in Nat /\ \A s \in Slots : HardEvents >= slot[s].hard_event
  BY <1>0, SumCounts
<1>3. \A s \in Slots : slot[s].hard_event \in Nat
  BY <1>0 DEF Types
<1>4. UNCHANGED <<asked, StopTime>>
  BY DEF Collect, StopTime
<1>5. ASSUME NEW a, Counts(a)' PROVE hard_event' > 0
  <2>1. PICK s \in Slots : slot[s].hard_event > 0
    BY <1>0, <1>4, <1>5 DEF Counted, Counts
  <2> QED
    BY <1>1, <1>2, <1>3, <2>1 DEF Counted
<1> HIDE DEF HardEvents
<1> QED
  BY <1>0, <1>1, <1>2, <1>4, <1>5 DEF Counted

LEMMA CountedOther ==
    ASSUME IInv, Counted, LeaveList \/ Commit \/ Iterate \/ Leave \/ Stop \/ UNCHANGED vars
    PROVE  Counted'
<1>0. Types
  BY DEF IInv, Steps
<1>1. \A o \in Objects : asked'[o] = asked[o]
  BY <1>0, ObjectsAssumption DEF LeaveList, Commit, Iterate, Leave, Stop, vars, Types
<1>2. UNCHANGED <<hard_event, slot, StopTime>>
  BY DEF LeaveList, Commit, Iterate, Leave, Stop, vars, StopTime
<1>3. epc' \in {"sync", "collect"} => epc \in {"sync", "collect"}
  BY DEF LeaveList, Commit, Iterate, Leave, Stop, vars, Enter
<1>4. epc' \in {"advance", "loop"} => epc \in {"advance", "loop"}
  BY DEF LeaveList, Commit, Iterate, Leave, Stop, vars, Enter
<1> QED
  BY <1>1, <1>2, <1>3, <1>4 DEF Counted, Counts

(* The loop leaves with success when it is told to, or when the stop time  *)
(* or the hard events are over: then so are all that anybody asked for.    *)
LEMMA LeavingIsDone ==
    ASSUME IInv, Earliest, Counted, Limits, Leave
    PROVE  StopsWhenDone'
<1> SUFFICES ASSUME ~stop_now, asked[Core] # {}
             PROVE  IF StopTime = Never
                      THEN \A o \in Objects : \A a \in asked[o] : Soft(a) \/ a = Never
                      ELSE \A t \in AskedTimes : t > StopTime
  BY DEF StopsWhenDone, Leave, StopTime, AskedTimes, OnGrid, MinimumTimestep, When, Soft
<1>0. /\ Settings /\ Types /\ Gathered /\ ~StoppedClock
      /\ StepIsEarliest /\ epc = "loop"
  BY EarliestIsMin DEF IInv, Steps, Earliest, FailureKept, Leave
<1>1. ~Running
  BY <1>0 DEF Leave, Continues, Limits
<1>2. StopTime \in Times \union {Never} /\ Never > LastTime + MinimumTimestep
      /\ Never \in Nat /\ LastTime \in Nat /\ Never > LastTime /\ MinimumTimestep \in Nat \ {0}
  BY GlobalsAssumption, TimesAssumption DEF Limits, StopTime, MinimumTimestep
<1>3. \A o \in Objects : \A a \in asked[o] : step_to <= Next_t(When(a)) /\ When(a) \in Nat
  BY <1>0 DEF Gathered, StoppedClock, Types, When, Soft
<1>4. CASE StopTime = Never
  <2> SUFFICES ASSUME NEW o \in Objects, NEW a \in asked[o], ~Soft(a), a # Never
               PROVE  FALSE
    BY <1>4
  <2>1. hard_event > 0
    BY <1>0 DEF Counted, Counts, Hard
  <2>2. step_to >= Never
    BY <1>0, <1>1, <1>2, <1>4, <2>1 DEF Running, Types, Gathered
  <2>3. When(a) = a /\ a \in Nat /\ a <= LastTime
    BY <1>3 DEF When, Limits
  <2>4. Next_t(a) <= LastTime + MinimumTimestep /\ Next_t(a) \in Nat
    <3>1. Rounded(a) <= a + MinimumTimestep - 1 /\ Rounded(a) \in Int /\ Rounded(a) >= a
      BY <1>2, <2>3, RoundedIsMultiple, RoundedLater
    <3> QED
      BY <1>2, <2>3, <3>1 DEF Next_t
  <2> QED
    BY <1>0, <1>2, <1>3, <2>2, <2>3, <2>4 DEF Types
<1>5. CASE StopTime # Never
  <2>1. hard_event > 0 /\ StopTime \in Nat /\ StopTime < Never
    BY <1>2, <1>5 DEF Counted, Times
  <2>2. step_to > StopTime
    BY <1>0, <1>1, <1>2, <2>1 DEF Running, Types
  <2>3. ASSUME NEW o \in Objects, NEW a \in asked[o]
        PROVE  OnGrid(When(a)) > StopTime
    <3>1. OnGrid(When(a)) = Next_t(When(a)) /\ Next_t(When(a)) \in Nat
      BY <1>0, <1>3, GridIsRounded, NextAhead DEF Settings, StoppedClock, Types
    <3> QED
      BY <1>0, <1>3, <2>1, <2>2, <3>1 DEF Types
  <2>4. ASSUME NEW t \in asked[Core] PROVE t > StopTime
    BY <1>0, <2>1, <2>2 DEF Gathered, Types
  <2> QED
    BY <1>5, <2>3, <2>4 DEF AskedTimes
<1> QED
  BY <1>4, <1>5

LEMMA DoneStep ==
    IInv /\ Earliest /\ Counted /\ Limits /\ StopsWhenDone /\ [Next]_vars
      => Counted' /\ StopsWhenDone'
<1> SUFFICES ASSUME IInv, Earliest, Counted, Limits, StopsWhenDone, [Next]_vars
             PROVE  Counted' /\ StopsWhenDone'
  OBVIOUS
<1>1. Counted'
  BY CountedBegin, CountedSyncObject, CountedCollect, CountedOther DEF Next, Loop, Ended
<1>2. CASE Begin \/ (\E o \in Objects : SyncObject(o)) \/ LeaveList \/ Collect \/ Commit \/ Iterate
  <2>1. epc' # "end" \/ status' = "FAILED"
    BY <1>2 DEF Begin, SyncObject, LeaveList, Collect, Commit, Iterate, Enter
  <2> QED
    BY <1>1, <2>1 DEF StopsWhenDone
<1>3. CASE Stop
  BY <1>1, <1>3 DEF Stop, StopsWhenDone
<1>4. CASE UNCHANGED vars
  BY <1>1, <1>4 DEF vars, StopsWhenDone, StopTime, AskedTimes, OnGrid, MinimumTimestep, When, Soft
<1> QED
  BY <1>1, <1>2, <1>3, <1>4, LeavingIsDone DEF Next, Loop, Ended

(* A simulation that ends well, not told to stop, has no event left that   *)
(* counts, for any number of objects, lists and threads.                   *)
THEOREM EndsWhenDone == Spec => []StopsWhenDone
<1>1. Init => Counted /\ Limits /\ StopsWhenDone
  BY LimitsAssumption, ObjectsAssumption DEF Init, Counted, Counts, Limits, StopsWhenDone, Asked
<1>2. IInv /\ Earliest /\ Counted /\ Limits /\ StopsWhenDone /\ [Next]_vars
        => Counted' /\ Limits' /\ StopsWhenDone'
  BY DoneStep, LimitsStep
<1> QED
  BY <1>1, <1>2, EarliestHolds, Inductive, PTL DEF Spec
=============================================================================
