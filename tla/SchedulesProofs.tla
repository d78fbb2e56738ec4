-------------------------- MODULE SchedulesProofs ---------------------------
(* Proofs about Schedules, for any definitions, files, numbers of threads  *)
(* and years.  First their creation: Throttled is inductive with the types *)
(* it needs; NoLostWakeup follows since what makes room wakes everybody.   *)
(* Then the calendar, and what the tables that are made of a definition    *)
(* hold.  Last the run: what a look-up found stays true until the time it  *)
(* answered.                                                               *)
EXTENDS Schedules, FiniteSetTheorems, TLAPS

Active(p) == {s \in Schedule : p[s] \in {"compile", "finish"}}
Phases == {"none", "begun", "asleep", "compile", "finish", "done"}

Types ==
    /\ file \in Files /\ global_threadcount \in Nat /\ pos \in Nat \ {0}
    /\ proc \in [Schedule -> Phases] /\ sc_running \in Nat
IInv == Types /\ Throttled /\ NoLostWakeup

(* A thread that begins is one more that is active, one that finishes one  *)
(* less, and other moves change nothing.                                   *)
LEMMA ActiveFinite ==
    ASSUME NEW p PROVE IsFiniteSet(Active(p)) /\ Cardinality(Active(p)) \in Nat
<1>1. Active(p) \in SUBSET Schedule
  BY DEF Active
<1>2. IsFiniteSet(Active(p))
  BY <1>1, DefinitionsAssumption, FS_Subset
<1> QED
  BY <1>2, FS_CardinalityType

LEMMA OneMore ==
    ASSUME NEW p, NEW q, NEW s \in Schedule, Active(q) = Active(p) \union {s}, s \notin Active(p)
    PROVE  Cardinality(Active(q)) = Cardinality(Active(p)) + 1
BY ActiveFinite, FS_AddElement

LEMMA OneLess ==
    ASSUME NEW p, NEW q, NEW s \in Schedule, Active(q) = Active(p) \ {s}, s \in Active(p)
    PROVE  Cardinality(Active(q)) = Cardinality(Active(p)) - 1
BY ActiveFinite, FS_RemoveElement

(* A broadcast moves sleepers only.                                        *)
LEMMA Broadcast ==
    ASSUME NEW p \in [Schedule -> Phases]
    PROVE  /\ Awake(p) \in [Schedule -> Phases]
           /\ \A s \in Schedule : Awake(p)[s] # "asleep"
           /\ \A s \in Schedule : p[s] # "asleep" => Awake(p)[s] = p[s]
           /\ Active(Awake(p)) = Active(p)
BY DEF Awake, Active, Phases

LEMMA InitIInv == Init => IInv
<1> SUFFICES ASSUME Init PROVE IInv
  OBVIOUS
<1>1. Types
  BY ThreadsAssumption DEF Init, Types, Phases
<1>2. {s \in Schedule : proc[s] \in {"compile", "finish"}} = {}
  BY DEF Init
<1>3. Throttled
  BY <1>1, <1>2, FS_EmptySet DEF Init, Throttled, Types
<1>4. NoLostWakeup
  BY DEF Init, NoLostWakeup
<1> QED
  BY <1>1, <1>3, <1>4 DEF IInv

LEMMA StepIInv == IInv /\ [Next]_vars => IInv'
<1> SUFFICES ASSUME IInv, [Next]_vars PROVE IInv'
  OBVIOUS
<1> USE DEF IInv
<1>1. sc_running = Cardinality(Active(proc))
  BY DEF Throttled, Active
<1>2. ASSUME UNCHANGED <<file, global_threadcount, sc_running>>, pos' \in Nat \ {0},
             proc' \in [Schedule -> Phases], Active(proc') = Active(proc),
             \A s \in Schedule : proc'[s] = "asleep" => Full,
             loader' = "asleep" => sc_running > 0
      PROVE  IInv'
  <2>1. Types'
    BY <1>2 DEF Types
  <2>2. Throttled'
    BY <1>1, <1>2 DEF Throttled, Active
  <2>3. NoLostWakeup'
    BY <1>2 DEF NoLostWakeup, Full
  <2> QED
    BY <2>1, <2>2, <2>3
<1>3. CASE schedule_create
  <2>1. UNCHANGED <<file, global_threadcount, sc_running>> /\ pos' \in Nat \ {0}
    BY <1>3 DEF schedule_create, Settings, Types
  <2>2. file[pos] \in Schedule
    <3>1. file \in Seq(Schedule \union {Object})
      BY FileAssumption DEF Types
    <3> QED
      BY <1>3, <3>1 DEF schedule_create, Types
  <2>3. \/ proc' = proc
        \/ proc[file[pos]] = "none" /\ proc' = [proc EXCEPT ![file[pos]] = "begun"]
    BY <1>3, <2>2 DEF schedule_create, Listed
  <2>4. /\ proc' \in [Schedule -> Phases] /\ Active(proc') = Active(proc)
        /\ \A s \in Schedule : proc'[s] = "asleep" => proc[s] = "asleep"
    BY <2>2, <2>3 DEF Types, Phases, Active
  <2>5. loader' # "asleep"
    BY <1>3 DEF schedule_create
  <2> QED
    BY <1>2, <2>1, <2>4, <2>5 DEF NoLostWakeup
<1>4. CASE Inlined
  BY <1>2, <1>4 DEF Inlined, Settings, Types, NoLostWakeup
<1>5. CASE schedule_createwait
  BY <1>2, <1>5 DEF schedule_createwait, Settings, Types, NoLostWakeup
<1>6. ASSUME NEW s \in Schedule, Enter(s) PROVE IInv'
  <2>1. /\ proc[s] = "begun" /\ ~Full /\ sc_running' = sc_running + 1
        /\ proc' = [Awake(proc) EXCEPT ![s] = "compile"] /\ loader' = Woken(loader)
        /\ UNCHANGED <<file, global_threadcount, pos>>
    BY <1>6 DEF Enter, Settings
  <2>2. /\ proc' \in [Schedule -> Phases]
        /\ \A r \in Schedule : proc'[r] # "asleep"
    BY <2>1, Broadcast DEF Types, Phases
  <2>3. Active(proc') = Active(proc) \union {s} /\ s \notin Active(proc)
    <3>1. proc \in [Schedule -> Phases] /\ Active(Awake(proc)) = Active(proc)
      BY Broadcast DEF Types
    <3>2. Active(proc') = Active(Awake(proc)) \union {s}
      BY <2>1, <3>1, Broadcast DEF Active
    <3> QED
      BY <2>1, <3>1, <3>2 DEF Active
  <2>4. sc_running' = Cardinality(Active(proc'))
    BY <1>1, <2>1, <2>3, OneMore
  <2>5. Types'
    BY <2>1, <2>2 DEF Types
  <2>6. Throttled'
    BY <2>1, <2>4, <2>5 DEF Throttled, Full, Active, Types
  <2>7. NoLostWakeup'
    BY <2>1, <2>2 DEF NoLostWakeup, Woken
  <2> QED
    BY <2>5, <2>6, <2>7
<1>7. ASSUME NEW s \in Schedule, Sleep(s) PROVE IInv'
  <2>1. /\ proc[s] = "begun" /\ Full /\ proc' = [proc EXCEPT ![s] = "asleep"]
        /\ UNCHANGED <<file, global_threadcount, pos, sc_running, loader>>
    BY <1>7 DEF Sleep, Settings
  <2>2. proc' \in [Schedule -> Phases] /\ Active(proc') = Active(proc)
    BY <2>1 DEF Types, Phases, Active
  <2> QED
    BY <1>2, <2>1, <2>2 DEF Types, NoLostWakeup
<1>8. ASSUME NEW s \in Schedule, Compile(s) PROVE IInv'
  <2>1. /\ proc[s] = "compile" /\ proc' = [proc EXCEPT ![s] = "finish"]
        /\ UNCHANGED <<file, global_threadcount, pos, sc_running, loader>>
    BY <1>8 DEF Compile, Settings
  <2>2. /\ proc' \in [Schedule -> Phases] /\ Active(proc') = Active(proc)
        /\ \A r \in Schedule : proc'[r] = "asleep" => proc[r] = "asleep"
    BY <2>1 DEF Types, Phases, Active
  <2> QED
    BY <1>2, <2>1, <2>2 DEF Types, NoLostWakeup
<1>9. ASSUME NEW s \in Schedule, Finish(s) PROVE IInv'
  <2>1. /\ proc[s] = "finish" /\ sc_running' = sc_running - 1
        /\ proc' = [Awake(proc) EXCEPT ![s] = "done"] /\ loader' = Woken(loader)
        /\ UNCHANGED <<file, global_threadcount, pos>>
    BY <1>9 DEF Finish, Settings
  <2>2. /\ proc' \in [Schedule -> Phases]
        /\ \A r \in Schedule : proc'[r] # "asleep"
    BY <2>1, Broadcast DEF Types, Phases
  <2>3. Active(proc') = Active(proc) \ {s} /\ s \in Active(proc)
    <3>1. proc \in [Schedule -> Phases] /\ Active(Awake(proc)) = Active(proc)
      BY Broadcast DEF Types
    <3>2. Active(proc') = Active(Awake(proc)) \ {s}
      BY <2>1, <3>1, Broadcast DEF Active
    <3> QED
      BY <2>1, <3>1, <3>2 DEF Active
  <2>4. sc_running' = Cardinality(Active(proc')) /\ sc_running' \in Nat
    BY <1>1, <2>1, <2>3, OneLess, ActiveFinite
  <2>5. Types'
    BY <2>1, <2>2, <2>4 DEF Types
  <2>6. Throttled'
    BY <2>1, <2>4, <2>5 DEF Throttled, Active, Types
  <2>7. NoLostWakeup'
    BY <2>1, <2>2 DEF NoLostWakeup, Woken
  <2> QED
    BY <2>5, <2>6, <2>7
<1>10. CASE Spurious
  <2>1. UNCHANGED <<file, global_threadcount, pos, sc_running>>
    BY <1>10 DEF Spurious, Settings
  <2>2. /\ proc' \in [Schedule -> Phases] /\ Active(proc') = Active(proc)
        /\ \A r \in Schedule : proc'[r] = "asleep" => proc[r] = "asleep"
    BY <1>10 DEF Spurious, Types, Phases, Active
  <2>3. loader' = "asleep" => loader = "asleep"
    BY <1>10 DEF Spurious
  <2> QED
    BY <1>2, <2>1, <2>2, <2>3 DEF Types, NoLostWakeup
<1>11. CASE Run
  BY <1>2, <1>11 DEF Run, Settings, Types, NoLostWakeup
<1>12. CASE Advance
  <2>1. UNCHANGED <<create, Settings>>
    BY <1>12 DEF Advance, Sync
  <2> QED
    BY <1>2, <2>1 DEF create, Settings, Types, NoLostWakeup
<1>13. CASE UNCHANGED vars
  BY <1>2, <1>13 DEF vars, create, Settings, Types, NoLostWakeup
<1> QED
  BY <1>3, <1>4, <1>5, <1>6, <1>7, <1>8, <1>9, <1>10, <1>11, <1>12, <1>13
  DEF Next, Creation, Proceed, Loading, Stopped

(* No more creations run at once than there are threads, and sc_running    *)
(* counts them.                                                            *)
THEOREM CreationsThrottled == Spec => []Throttled
<1>1. IInv => Throttled
  BY DEF IInv
<1> QED
  BY <1>1, InitIInv, StepIInv, PTL DEF Spec

(* No creation and no loader sleeps without one that will wake it.         *)
THEOREM CreationsAwaken == Spec => []NoLostWakeup
<1>1. IInv => NoLostWakeup
  BY DEF IInv
<1> QED
  BY <1>1, InitIInv, StepIInv, PTL DEF Spec
-----------------------------------------------------------------------------
(* The calendar.                                                           *)

(* A set of natural numbers has a least element, and one that is bounded a *)
(* greatest one.                                                           *)
LEMMA LeastNumber ==
    ASSUME NEW S \in SUBSET Nat, S # {}
    PROVE  \E x \in S : \A y \in S : x <= y
<1> DEFINE T == {0..x : x \in S}
<1>1. T \subseteq FiniteSubsetsOf(Nat) /\ T # {}
  <2>1. \A x \in S : IsFiniteSet(0..x)
    BY FS_Interval
  <2>2. \A x \in S : 0..x \in FiniteSubsetsOf(Nat)
    BY <2>1 DEF FiniteSubsetsOf
  <2> QED
    BY <2>2
<1>2. PICK m \in T : \A y \in T : ~(<<y, m>> \in StrictSubsetOrdering(Nat))
  BY <1>1, FS_StrictSubsetOrderingWellFounded, WFMin
<1>3. PICK x \in S : m = 0..x
  BY <1>2
<1>4. ASSUME NEW y \in S PROVE x <= y
  <2>1. 0..y \in T /\ 0..y \in SUBSET Nat /\ 0..x \in SUBSET Nat
    OBVIOUS
  <2>2. ~(0..y \subseteq 0..x /\ 0..y # 0..x)
    BY <1>2, <1>3, <2>1 DEF StrictSubsetOrdering
  <2>3. y < x => 0..y \subseteq 0..x /\ x \in 0..x /\ x \notin 0..y
    OBVIOUS
  <2> QED
    BY <2>2, <2>3
<1> QED
  BY <1>4

LEMMA GreatestNumber ==
    ASSUME NEW S \in SUBSET Nat, S # {}, NEW n \in Nat, \A x \in S : x <= n
    PROVE  \E x \in S : \A y \in S : x >= y
<1> DEFINE T == {n - x : x \in S}
<1>1. T \in SUBSET Nat /\ T # {}
  <2>1. \A x \in S : n - x \in Nat
    OBVIOUS
  <2> QED
    BY <2>1
<1>2. PICK d \in T : \A y \in T : d <= y
  BY <1>1, LeastNumber
<1>3. PICK x \in S : d = n - x
  BY <1>2
<1>4. ASSUME NEW y \in S PROVE x >= y
  <2>1. d <= n - y
    BY <1>2
  <2> QED
    BY <1>3, <2>1
<1> QED
  BY <1>4

LEMMA MaxIs ==
    ASSUME NEW S \in SUBSET Int, NEW x \in S, \A y \in S : x >= y
    PROVE  Max(S) = x
<1>1. \A z \in S : (\A y \in S : z >= y) => z = x
  OBVIOUS
<1> QED
  BY <1>1 DEF Max

LEMMA MinIs ==
    ASSUME NEW S \in SUBSET Int, NEW x \in S, \A y \in S : x <= y
    PROVE  Min(S) = x
<1>1. \A z \in S : (\A y \in S : z <= y) => z = x
  OBVIOUS
<1> QED
  BY <1>1 DEF Min

(* The lengths, in minutes.                                                *)
Length(leap) == Days(leap) * Day
YearLength(y) == Length(y \in LeapYears)

LEMMA Lengths ==
    /\ Hours \in Nat \ {0} /\ Minutes \in Nat \ {0} /\ Day \in Nat \ {0}
    /\ Weekdays \in Nat \ {0} /\ MaxDelta \in Nat \ {0}
    /\ Days(TRUE) \in Nat \ {0} /\ Days(FALSE) \in Nat \ {0} /\ Days(FALSE) < Days(TRUE)
    /\ Length(TRUE) \in Nat /\ Length(FALSE) \in Nat \ {0} /\ Length(FALSE) <= LastMinute
    /\ LastMinute = Length(TRUE) - 1 /\ LastMinute \in Nat
    /\ \A y : YearLength(y) \in Nat \ {0} /\ YearLength(y) <= LastMinute + 1
<1>1. Hours \in Nat \ {0} /\ Minutes \in Nat \ {0} /\ Weekdays \in Nat \ {0} /\ MaxDelta \in Nat \ {0}
  BY TableAssumption
<1>2. Day \in Nat \ {0}
  BY <1>1 DEF Day
<1> DEFINE a == Days(TRUE)
           b == Days(FALSE)
           d == Day
<1>3. a = b + 1 /\ b \in Nat \ {0} /\ d \in Nat \ {0}
  BY <1>2, TableAssumption
<1> HIDE DEF a, b, d
<1>4. a \in Nat \ {0} /\ b < a /\ a * d \in Nat /\ b * d \in Nat \ {0} /\ a * d = b * d + d
  BY <1>3
<1> DEFINE p == a * d
           q == b * d
<1>5. p \in Nat /\ q \in Nat \ {0} /\ q <= p - 1
  BY <1>3, <1>4
<1>6. LastMinute = p - 1 /\ Length(TRUE) = p /\ Length(FALSE) = q
  BY DEF LastMinute, Length, a, b, d
<1>8. Days(TRUE) = a /\ Days(FALSE) = b
  BY DEF a, b
<1> HIDE DEF p, q
<1>7. \A y : YearLength(y) = Length(TRUE) \/ YearLength(y) = Length(FALSE)
  <2> SUFFICES ASSUME NEW y PROVE YearLength(y) = Length(TRUE) \/ YearLength(y) = Length(FALSE)
    OBVIOUS
  <2>1. CASE y \in LeapYears
    <3>1. (y \in LeapYears) = TRUE
      BY <2>1
    <3> QED
      BY <3>1 DEF YearLength
  <2>2. CASE y \notin LeapYears
    <3>1. (y \in LeapYears) = FALSE
      BY <2>2
    <3> QED
      BY <3>1 DEF YearLength
  <2> QED
    BY <2>1, <2>2
<1>12. LastMinute = p - 1
  BY <1>6
<1>13. /\ p \in Nat /\ q \in Nat \ {0} /\ q <= LastMinute /\ LastMinute = p - 1 /\ LastMinute \in Nat
       /\ p \in Nat \ {0} /\ p <= LastMinute + 1 /\ q <= LastMinute + 1
  BY <1>5, <1>12
<1>9. \A y : YearLength(y) \in Nat \ {0} /\ YearLength(y) <= LastMinute + 1
  BY <1>6, <1>7, <1>13, Zenon
<1>10. /\ Length(TRUE) \in Nat /\ Length(FALSE) \in Nat \ {0} /\ Length(FALSE) <= LastMinute
       /\ LastMinute = Length(TRUE) - 1 /\ LastMinute \in Nat
  BY <1>6, <1>13, Zenon
<1>11. Days(TRUE) \in Nat \ {0} /\ Days(FALSE) \in Nat \ {0} /\ Days(FALSE) < Days(TRUE)
  BY <1>3, <1>4, <1>8
<1> QED
  BY <1>1, <1>2, <1>9, <1>10, <1>11

(* The years begin one after the other: the recursive definition of where  *)
(* is met by a function, because it is on each beginning of the numbers.   *)
Begins(f, n) ==
    \A y \in 0 .. n : f[y] = IF y = 0 THEN 0 ELSE f[y - 1] + Days(y - 1 \in LeapYears) * Day

LEMMA YearStarts ==
    /\ YearStart[0] = 0
    /\ \A y \in 0 .. LastYear : YearStart[y + 1] = YearStart[y] + YearLength(y)
<1>0. LastYear \in Nat
  BY YearsAssumption
<1> DEFINE D == 0 .. LastYear + 1
           N(f) == [y \in D |-> IF y = 0 THEN 0 ELSE f[y - 1] + Days(y - 1 \in LeapYears) * Day]
           X == {n \in D : ~\E f : f = [y \in D |-> f[y]] /\ Begins(f, n)}
<1>1. X = {}
  <2> SUFFICES ASSUME X # {} PROVE FALSE
    OBVIOUS
  <2>1. X \in SUBSET Nat
    BY <1>0
  <2>2. PICK n \in X : \A k \in X : n <= k
    BY <2>1, LeastNumber
  <2>3. n \in D /\ n \in Nat
    BY <2>1
  <2>4. n # 0
    <3>1. Begins([y \in D |-> 0], 0)
      BY <1>0 DEF Begins
    <3> QED
      BY <2>2, <3>1
  <2>5. n - 1 \in D /\ n - 1 \notin X
    BY <1>0, <2>1, <2>2, <2>3, <2>4
  <2>6. PICK f : f = [y \in D |-> f[y]] /\ Begins(f, n - 1)
    BY <2>5
  <2>7. Begins(N(f), n)
    <3> SUFFICES ASSUME NEW y \in 0 .. n
                 PROVE  N(f)[y] = IF y = 0 THEN 0 ELSE N(f)[y - 1] + Days(y - 1 \in LeapYears) * Day
      BY DEF Begins
    <3>1. y \in D
      BY <1>0, <2>3
    <3>2. CASE y = 0
      BY <3>1, <3>2
    <3>3. CASE y # 0
      <4>1. y - 1 \in D /\ y - 1 \in 0 .. n - 1
        BY <1>0, <2>3, <3>1, <3>3
      <4>2. N(f)[y - 1] = f[y - 1]
        BY <2>6, <4>1 DEF Begins
      <4> QED
        BY <3>1, <3>3, <4>2
    <3> QED
      BY <3>2, <3>3
  <2>8. N(f) = [y \in D |-> N(f)[y]]
    OBVIOUS
  <2> QED
    BY <2>2, <2>7, <2>8
<1>2. PICK f : f = [y \in D |-> f[y]] /\ Begins(f, LastYear + 1)
  BY <1>0, <1>1
<1>3. f = N(f)
  BY <1>2 DEF Begins
<1>4. YearStart = CHOOSE g : g = N(g)
  BY DEF YearStart
<1> HIDE DEF N
<1>5. YearStart = N(YearStart)
  BY <1>3, <1>4
<1> USE DEF N
<1>6. \A y \in D : YearStart[y] = IF y = 0 THEN 0 ELSE YearStart[y - 1] + Days(y - 1 \in LeapYears) * Day
  BY <1>5
<1>7. YearStart[0] = 0
  BY <1>0, <1>6
<1>8. ASSUME NEW y \in 0 .. LastYear PROVE YearStart[y + 1] = YearStart[y] + YearLength(y)
  <2>1. y + 1 \in D /\ y + 1 # 0 /\ (y + 1) - 1 = y
    BY <1>0
  <2> QED
    BY <1>6, <2>1 DEF YearLength, Length
<1> QED
  BY <1>7, <1>8

LEMMA YearsAreNats ==
    \A y \in 0 .. LastYear + 1 : YearStart[y] \in Nat
<1>0. LastYear \in Nat
  BY YearsAssumption
<1> DEFINE X == {y \in 0 .. LastYear + 1 : YearStart[y] \notin Nat}
<1> SUFFICES ASSUME X # {} PROVE FALSE
  OBVIOUS
<1>1. X \in SUBSET Nat
  BY <1>0
<1>2. PICK y \in X : \A z \in X : y <= z
  BY <1>1, LeastNumber
<1>3. y # 0
  BY <1>2, YearStarts
<1>4. y - 1 \in 0 .. LastYear /\ y - 1 \notin X /\ (y - 1) + 1 = y
  BY <1>0, <1>1, <1>2, <1>3
<1>5. YearStart[y - 1] \in Nat
  BY <1>0, <1>4
<1>6. YearStart[y] = YearStart[y - 1] + YearLength(y - 1)
  BY <1>4, YearStarts
<1>7. YearLength(y - 1) \in Nat
  BY Lengths
<1> QED
  BY <1>2, <1>5, <1>6, <1>7

(* Each begins after the one before, so that a time is in one of them.     *)
LEMMA YearsRise ==
    ASSUME NEW y \in 0 .. LastYear + 1, NEW z \in 0 .. LastYear + 1, y < z
    PROVE  YearStart[y] < YearStart[z] /\ YearStart[y + 1] <= YearStart[z]
<1>0. LastYear \in Nat
  BY YearsAssumption
<1> DEFINE X == {x \in y + 1 .. LastYear + 1 : ~(YearStart[y + 1] <= YearStart[x])}
<1>1. X = {}
  <2> SUFFICES ASSUME X # {} PROVE FALSE
    OBVIOUS
  <2>1. X \in SUBSET Nat
    BY <1>0
  <2>2. PICK x \in X : \A w \in X : x <= w
    BY <2>1, LeastNumber
  <2>3. x # y + 1
    BY <1>0, <2>2, YearsAreNats
  <2>4. x - 1 \in 0 .. LastYear /\ x - 1 \in y + 1 .. LastYear + 1 /\ x - 1 \notin X /\ (x - 1) + 1 = x
    BY <1>0, <2>1, <2>2, <2>3
  <2>5. YearStart[x] = YearStart[x - 1] + YearLength(x - 1) /\ YearLength(x - 1) \in Nat
    BY <2>4, YearStarts, Lengths
  <2>6. YearStart[y + 1] <= YearStart[x - 1]
    BY <2>4
  <2>7. YearStart[y + 1] \in Nat /\ YearStart[x - 1] \in Nat
    BY <1>0, <2>4, YearsAreNats
  <2> QED
    BY <2>2, <2>5, <2>6, <2>7
<1>2. YearStart[y + 1] <= YearStart[z]
  BY <1>0, <1>1
<1>3. y \in 0 .. LastYear /\ y + 1 \in 0 .. LastYear + 1
  BY <1>0
<1>4. YearStart[y + 1] = YearStart[y] + YearLength(y) /\ YearLength(y) \in Nat \ {0}
  BY <1>3, YearStarts, Lengths
<1>5. YearStart[y] \in Nat /\ YearStart[y + 1] \in Nat /\ YearStart[z] \in Nat
  BY <1>3, YearsAreNats
<1> QED
  BY <1>2, <1>4, <1>5

Times == 0 .. Horizon - 1

LEMMA YearOfTime ==
    ASSUME NEW t \in Times
    PROVE  /\ YearOf(t) \in 0 .. LastYear
           /\ YearStart[YearOf(t)] \in Nat /\ YearStart[YearOf(t) + 1] \in Nat /\ t \in Nat
           /\ YearStart[YearOf(t)] <= t /\ t < YearStart[YearOf(t) + 1]
           /\ \A y \in 0 .. LastYear : YearStart[y] <= t => y <= YearOf(t)
           /\ \A y \in 0 .. LastYear : t < YearStart[y + 1] => YearOf(t) <= y
<1>0. LastYear \in Nat /\ LastYear + 1 \in 0 .. LastYear + 1
  BY YearsAssumption
<1>1. t \in Nat /\ t < YearStart[LastYear + 1]
  <2>1. YearStart[LastYear + 1] \in Nat
    BY <1>0, YearsAreNats
  <2> QED
    BY <2>1 DEF Times, Horizon
<1> DEFINE X == {y \in 0 .. LastYear : t < YearStart[y + 1]}
<1>2. X \in SUBSET Nat /\ LastYear \in X
  BY <1>0, <1>1
<1>3. PICK y \in X : \A z \in X : y <= z
  BY <1>2, LeastNumber
<1>4. YearStart[y] <= t
  <2>1. CASE y = 0
    BY <1>1, <2>1, YearStarts
  <2>2. CASE y # 0
    <3>1. y - 1 \in 0 .. LastYear /\ y - 1 \notin X /\ (y - 1) + 1 = y
      BY <1>0, <1>2, <1>3, <2>2
    <3>2. YearStart[y] \in Nat
      BY <1>0, <1>3, YearsAreNats
    <3> QED
      BY <1>1, <3>1, <3>2
  <2> QED
    BY <2>1, <2>2
<1>5. YearOf(t) \in 0 .. LastYear /\ YearStart[YearOf(t)] <= t /\ t < YearStart[YearOf(t) + 1]
  BY <1>3, <1>4 DEF YearOf
<1> DEFINE v == YearOf(t)
<1> HIDE DEF v
<1>6. v \in 0 .. LastYear /\ YearStart[v] <= t /\ t < YearStart[v + 1]
  BY <1>5 DEF v
<1>7. YearStart[v] \in Nat /\ YearStart[v + 1] \in Nat
  <2>1. v \in 0 .. LastYear + 1 /\ v + 1 \in 0 .. LastYear + 1
    BY <1>0, <1>6
  <2> QED
    BY <2>1, YearsAreNats
<1>8. ASSUME NEW z \in 0 .. LastYear, YearStart[z] <= t PROVE z <= v
  <2> SUFFICES ASSUME v < z PROVE FALSE
    BY <1>0, <1>6
  <2>1. v \in 0 .. LastYear + 1 /\ z \in 0 .. LastYear + 1
    BY <1>0, <1>6
  <2>2. YearStart[v + 1] <= YearStart[z] /\ YearStart[z] \in Nat
    BY <2>1, YearsRise, YearsAreNats
  <2> QED
    BY <1>1, <1>6, <1>7, <1>8, <2>2
<1>9. ASSUME NEW z \in 0 .. LastYear, t < YearStart[z + 1] PROVE v <= z
  <2> SUFFICES ASSUME z < v PROVE FALSE
    BY <1>0, <1>6
  <2>1. v \in 0 .. LastYear + 1 /\ z \in 0 .. LastYear + 1 /\ z + 1 \in 0 .. LastYear + 1
    BY <1>0, <1>6
  <2>2. YearStart[z + 1] <= YearStart[v] /\ YearStart[z + 1] \in Nat
    BY <2>1, YearsRise, YearsAreNats
  <2> QED
    BY <1>1, <1>6, <1>7, <1>9, <2>2
<1> QED
  BY <1>1, <1>6, <1>7, <1>8, <1>9 DEF v

(* The year the code finds is that of the time, unless it takes the first  *)
(* instant of a year for the end of the one before.                        *)
LEMMA YearFound ==
    ASSUME NEW t \in Times
    PROVE  /\ timestamp_year(t) \in 0 .. LastYear
           /\ YearStart[timestamp_year(t)] <= t /\ t <= YearStart[timestamp_year(t) + 1]
           /\ ~Dated(t) => t = YearStart[timestamp_year(t) + 1] /\ t = YearStart[YearOf(t)]
<1>0. LastYear \in Nat /\ AverageYear \in Nat \ {0} /\ Day \in Nat \ {0}
  BY YearsAssumption, Lengths
<1> DEFINE v == YearOf(t)
           e == ((t \div Day) * 100) \div AverageYear
           B == {y \in 0 .. LastYear : YearStart[y] <= t}
           A == {y \in e .. LastYear : t <= YearStart[y + 1]}
<1>1. /\ v \in 0 .. LastYear /\ t \in Nat
      /\ YearStart[v] \in Nat /\ YearStart[v + 1] \in Nat
      /\ YearStart[v] <= t /\ t < YearStart[v + 1]
      /\ \A y \in 0 .. LastYear : YearStart[y] <= t => y <= v
      /\ \A y \in 0 .. LastYear : t < YearStart[y + 1] => v <= y
  BY YearOfTime
<1>2. e \in Nat
  <2>1. t \div Day \in Nat
    BY <1>0, <1>1
  <2>2. (t \div Day) * 100 \in Nat
    BY <2>1
  <2> QED
    BY <1>0, <2>2
<1>3. Dated(t) <=> timestamp_year(t) = v
  BY DEF Dated
<1>4. timestamp_year(t) = IF e > LastYear \/ t < YearStart[e] THEN Max(B) ELSE Min(A)
  BY DEF timestamp_year
<1> HIDE DEF v, e
<1>5. CASE e > LastYear \/ t < YearStart[e]
  <2>1. B \in SUBSET Int /\ v \in B /\ \A y \in B : v >= y
    BY <1>0, <1>1
  <2>2. Max(B) = v
    BY <2>1, MaxIs
  <2> QED
    BY <1>1, <1>3, <1>4, <1>5, <2>2
<1>6. CASE ~(e > LastYear \/ t < YearStart[e])
  <2>1. e \in 0 .. LastYear /\ YearStart[e] \in Nat
    <3>1. e \in 0 .. LastYear /\ e \in 0 .. LastYear + 1
      BY <1>0, <1>2, <1>6
    <3> QED
      BY <3>1, YearsAreNats
  <2>2. YearStart[e] <= t /\ e <= v
    BY <1>1, <1>6, <2>1
  <2>3. A \in SUBSET Nat /\ v \in A
    BY <1>0, <1>1, <1>2, <2>2
  <2>4. PICK y \in A : \A z \in A : y <= z
    BY <2>3, LeastNumber
  <2>5. Min(A) = y
    <3>1. A \in SUBSET Int
      BY <2>3
    <3> QED
      BY <2>4, <3>1, MinIs
  <2>6. timestamp_year(t) = y
    BY <1>4, <1>6, <2>5
  <2>7. y \in 0 .. LastYear /\ y <= v /\ t <= YearStart[y + 1]
    BY <1>0, <1>2, <2>3, <2>4
  <2>8. CASE y = v
    BY <1>1, <1>3, <2>6, <2>8
  <2>9. CASE y < v
    <3>1. y \in 0 .. LastYear + 1 /\ v \in 0 .. LastYear + 1 /\ y + 1 \in 0 .. LastYear + 1
      BY <1>0, <1>1, <2>7
    <3>2. YearStart[y] < YearStart[v] /\ YearStart[y + 1] <= YearStart[v]
      BY <2>9, <3>1, YearsRise
    <3>3. YearStart[y] \in Nat /\ YearStart[y + 1] \in Nat
      BY <3>1, YearsAreNats
    <3>4. t = YearStart[y + 1] /\ t = YearStart[v] /\ YearStart[y] <= t
      BY <1>1, <2>7, <3>2, <3>3
    <3> QED
      BY <2>6, <2>7, <3>4 DEF v
  <2> QED
    BY <1>0, <1>1, <2>7, <2>8, <2>9
<1> QED
  BY <1>5, <1>6

LEMMA YearsAreDays ==
    \A y \in 0 .. LastYear + 1 : \E k \in Nat : YearStart[y] = k * Day
<1>0. LastYear \in Nat /\ Day \in Nat \ {0}
  BY YearsAssumption, Lengths
<1> DEFINE X == {y \in 0 .. LastYear + 1 : ~\E k \in Nat : YearStart[y] = k * Day}
<1> SUFFICES ASSUME X # {} PROVE FALSE
  OBVIOUS
<1>1. X \in SUBSET Nat
  BY <1>0
<1>2. PICK y \in X : \A z \in X : y <= z
  BY <1>1, LeastNumber
<1>3. y # 0
  <2>1. YearStart[0] = 0 * Day
    BY <1>0, YearStarts
  <2> QED
    BY <1>2, <2>1
<1>4. y - 1 \in 0 .. LastYear /\ y - 1 \in 0 .. LastYear + 1 /\ ~(y <= y - 1) /\ (y - 1) + 1 = y
  BY <1>0, <1>2, <1>3
<1>5. PICK k \in Nat : YearStart[y - 1] = k * Day
  BY <1>2, <1>4
<1>6. \E n \in Nat : YearLength(y - 1) = n * Day
  <2>1. Days(TRUE) \in Nat /\ Days(FALSE) \in Nat
    BY Lengths
  <2>2. (y - 1 \in LeapYears) = TRUE \/ (y - 1 \in LeapYears) = FALSE
    OBVIOUS
  <2> QED
    BY <2>1, <2>2, Zenon DEF YearLength, Length
<1>7. PICK n \in Nat : YearLength(y - 1) = n * Day
  BY <1>6
<1>8. YearStart[y] = (k + n) * Day
  <2>1. YearStart[y] = YearStart[y - 1] + YearLength(y - 1)
    BY <1>4, YearStarts
  <2> QED
    BY <1>0, <1>5, <1>7, <2>1
<1>9. k + n \in Nat
  OBVIOUS
<1> QED
  BY <1>2, <1>8, <1>9

LEMMA WholeDays ==
    ASSUME NEW d \in Nat \ {0}, NEW k \in Nat, NEW r \in Nat
    PROVE  (k * d + r) \div d = k + r \div d
<1> DEFINE q == r \div d
<1>1. q \in Nat /\ q * d <= r /\ r < q * d + d
  OBVIOUS
<1> HIDE DEF q
<1> DEFINE p == (k * d + r) \div d
<1>2. p \in Int /\ p * d <= k * d + r /\ k * d + r < p * d + d
  <2>1. k * d + r \in Nat
    OBVIOUS
  <2> DEFINE x == k * d + r
  <2> HIDE DEF x
  <2>2. x \in Nat
    BY <2>1 DEF x
  <2>3. x \div d \in Int /\ (x \div d) * d <= x /\ x < (x \div d) * d + d
    BY <2>2
  <2> QED
    BY <2>3 DEF x
<1> HIDE DEF p
<1>3. (k + q) * d = k * d + q * d
  BY <1>1
<1> DEFINE u == k + q
<1>4. u \in Nat /\ u * d <= k * d + r /\ k * d + r < u * d + d
  BY <1>1, <1>3
<1> HIDE DEF u
<1>5. (p - u) * d < d /\ (u - p) * d < d
  BY <1>2, <1>4
<1>6. p - u < 1 /\ u - p < 1
  BY <1>2, <1>4, <1>5
<1>7. p = u
  BY <1>2, <1>4, <1>6
<1> QED
  BY <1>7 DEF p, q, u

(* Where the table says what holds at a time, and where the code looks.    *)
Place(t) == <<[weekday |-> (FirstWeekday + YearStart[YearOf(t)] \div Day) % Weekdays,
               leap |-> YearOf(t) \in LeapYears], t - YearStart[YearOf(t)]>>

LEMMA PlaceIsPlace == \A t \in Times : Place(t) \in Places
<1> SUFFICES ASSUME NEW t \in Times PROVE Place(t) \in Places
  OBVIOUS
<1> DEFINE v == YearOf(t)
<1>1. /\ v \in 0 .. LastYear /\ t \in Nat /\ YearStart[v] \in Nat /\ YearStart[v + 1] \in Nat
      /\ YearStart[v] <= t /\ t < YearStart[v + 1]
  BY YearOfTime
<1>2. YearStart[v + 1] = YearStart[v] + YearLength(v) /\ YearLength(v) \in Nat /\ YearLength(v) <= LastMinute + 1
      /\ LastMinute \in Nat
  BY <1>1, YearStarts, Lengths
<1>3. t - YearStart[v] \in 0 .. LastMinute
  BY <1>1, <1>2
<1>4. (FirstWeekday + YearStart[v] \div Day) % Weekdays \in 0 .. Weekdays - 1
  <2>1. YearStart[v] \div Day \in Int /\ FirstWeekday \in Int /\ Weekdays \in Nat \ {0}
    BY <1>1, Lengths, YearsAssumption
  <2> DEFINE x == FirstWeekday + YearStart[v] \div Day
  <2>2. x \in Int
    BY <2>1
  <2> HIDE DEF x
  <2>3. x % Weekdays \in 0 .. Weekdays - 1
    BY <2>1, <2>2
  <2> QED
    BY <2>3 DEF x
<1>5. (v \in LeapYears) \in BOOLEAN
  OBVIOUS
<1> QED
  BY <1>3, <1>4, <1>5 DEF Place, Places, Calendars, Year, LastMinute

LEMMA IndexIsPlace ==
    ASSUME NEW t \in Times
    PROVE  schedule_index(t) \in Places /\ (Dated(t) => schedule_index(t) = Place(t))
<1> DEFINE y == timestamp_year(t)
           rem == t - YearStart[y]
           year == IF rem >= Days(y \in LeapYears) * Day THEN y + 1 ELSE y
<1>1. y \in 0 .. LastYear /\ YearStart[y] <= t /\ t <= YearStart[y + 1]
      /\ (~Dated(t) => t = YearStart[y + 1] /\ t = YearStart[YearOf(t)])
  BY YearFound
<1>0. t \in Nat /\ YearStart[y] \in Nat /\ YearStart[y + 1] \in Nat /\ LastYear \in Nat
  <2>1. LastYear \in Nat /\ y \in 0 .. LastYear + 1 /\ y + 1 \in 0 .. LastYear + 1
    BY <1>1, YearsAssumption
  <2> QED
    BY <2>1, YearsAreNats, YearOfTime
<1>2. YearStart[y + 1] = YearStart[y] + YearLength(y) /\ YearLength(y) \in Nat
  BY <1>1, YearStarts, Lengths
<1>3. schedule_index(t) = <<[weekday |-> (FirstWeekday + t \div Day - rem \div Day) % Weekdays,
                             leap |-> year \in LeapYears], rem>>
  BY DEF schedule_index
<1>4. YearLength(y) = Days(y \in LeapYears) * Day
  BY DEF YearLength, Length
<1> HIDE DEF y
<1>5. rem \in 0 .. LastMinute
  <2>1. CASE Dated(t)
    <3>1. y = YearOf(t)
      BY <2>1 DEF Dated, y
    <3>2. t < YearStart[y + 1]
      BY <3>1, YearOfTime
    <3>3. YearLength(y) <= LastMinute + 1 /\ LastMinute \in Nat
      BY Lengths
    <3> QED
      BY <1>0, <1>1, <1>2, <3>2, <3>3
  <2>2. CASE ~Dated(t)
    <3>1. t = YearStart[y + 1] /\ t = YearStart[YearOf(t)] /\ YearOf(t) \in 0 .. LastYear
          /\ t < YearStart[YearOf(t) + 1]
      BY <1>1, <2>2, YearOfTime
    <3>2. y \notin LeapYears
      <4> SUFFICES ASSUME y \in LeapYears PROVE FALSE
        OBVIOUS
      <4>1. y \in 0 .. LastYear - 1
        <5>1. CASE y = LastYear
          <6>1. t < YearStart[LastYear + 1]
            <7>1. YearStart[LastYear + 1] \in Nat
              BY <1>0, <5>1
            <7> QED
              BY <7>1 DEF Times, Horizon
          <6> QED
            BY <1>0, <3>1, <5>1, <6>1
        <5> QED
          BY <1>0, <1>1, <5>1
      <4>2. timestamp_year(YearStart[y + 1]) = y + 1
        BY <4>1, YearsAssumption
      <4> QED
        BY <1>1, <3>1, <4>2 DEF y
    <3>3. YearLength(y) = Length(FALSE)
      <4>1. (y \in LeapYears) = FALSE
        BY <3>2
      <4> QED
        BY <4>1 DEF YearLength
    <3>4. YearLength(y) <= LastMinute /\ LastMinute \in Nat
      BY <3>3, Lengths, Zenon
    <3> QED
      BY <1>0, <1>2, <3>1, <3>4
  <2> QED
    BY <2>1, <2>2
<1>6. (FirstWeekday + t \div Day - rem \div Day) % Weekdays \in 0 .. Weekdays - 1
  <2>1. t \div Day \in Int /\ rem \div Day \in Int /\ FirstWeekday \in Int /\ Weekdays \in Nat \ {0}
    <3>1. rem \in Nat /\ Day \in Nat \ {0}
      BY <1>0, <1>1, Lengths
    <3> HIDE DEF rem
    <3> QED
      BY <1>0, <3>1, Lengths, YearsAssumption
  <2> DEFINE x == FirstWeekday + t \div Day - rem \div Day
  <2>2. x \in Int
    BY <2>1
  <2> HIDE DEF x
  <2>3. x % Weekdays \in 0 .. Weekdays - 1
    BY <2>1, <2>2
  <2> QED
    BY <2>3 DEF x
<1>7. schedule_index(t) \in Places
  <2> DEFINE w == (FirstWeekday + t \div Day - rem \div Day) % Weekdays
             l == year \in LeapYears
             c == [weekday |-> w, leap |-> l]
  <2>1. w \in 0 .. Weekdays - 1 /\ l \in BOOLEAN
    BY <1>6
  <2>2. rem \in Year(TRUE)
    BY <1>5 DEF Year, LastMinute
  <2> HIDE DEF rem, w, l
  <2>3. c \in Calendars
    BY <2>1 DEF Calendars
  <2>4. schedule_index(t) = <<c, rem>>
    BY <1>3 DEF w, l
  <2> DEFINE Y == Year(TRUE)
  <2>5. Places = Calendars \X Y /\ rem \in Y
    BY <2>2 DEF Places
  <2> HIDE DEF c, Y
  <2> QED
    BY <2>3, <2>4, <2>5
<1>8. ASSUME Dated(t) PROVE schedule_index(t) = Place(t)
  <2>1. y = YearOf(t)
    BY <1>8 DEF Dated, y
  <2>2. t < YearStart[y + 1]
    BY <2>1, YearOfTime
  <2>3. rem < Days(y \in LeapYears) * Day /\ rem \in Nat
    BY <1>0, <1>1, <1>2, <1>4, <2>2
  <2>4. year = y
    <3> DEFINE n == Days(y \in LeapYears) * Day
    <3>1. n \in Nat /\ rem < n /\ rem \in Nat
      BY <1>2, <1>4, <2>3
    <3> HIDE DEF n, rem
    <3>2. ~(rem >= n)
      BY <3>1
    <3> QED
      BY <3>2 DEF n
  <2>5. LastYear \in Nat /\ y \in 0 .. LastYear + 1
    BY <1>0, <1>1
  <2>6. PICK k \in Nat : YearStart[y] = k * Day
    BY <2>5, YearsAreDays
  <2>7. Day \in Nat \ {0}
    BY Lengths
  <2>8. t \div Day = k + rem \div Day
    <3>1. t = k * Day + rem
      BY <1>0, <2>6, <2>7
    <3> HIDE DEF rem
    <3> QED
      BY <2>3, <2>7, <3>1, WholeDays
  <2>9. YearStart[y] \div Day = k
    <3>1. (k * Day + 0) \div Day = k + 0 \div Day /\ 0 \div Day = 0 /\ k * Day + 0 = k * Day
      BY <2>7, WholeDays
    <3> QED
      BY <2>6, <3>1
  <2>10. FirstWeekday + t \div Day - rem \div Day = FirstWeekday + YearStart[y] \div Day
    <3>1. rem \div Day \in Int
      <4> HIDE DEF rem
      <4> QED
        BY <2>3, <2>7
    <3> HIDE DEF rem
    <3> QED
      BY <2>8, <2>9, <3>1, YearsAssumption
  <2> QED
    BY <1>3, <2>1, <2>4, <2>10 DEF Place
<1> QED
  BY <1>7, <1>8

-----------------------------------------------------------------------------
(* What an entry of a definition matches.                                  *)

LEMMA MatcherInRange ==
    ASSUME NEW pattern \in Pattern, NEW base \in Int, NEW max \in Int
    PROVE  schedule_matcher(pattern, base, max) \subseteq base .. max
<1> SUFFICES ASSUME NEW k \in DOMAIN pattern
             PROVE  Filled(pattern[k], base, max) \subseteq base .. max
  BY DEF schedule_matcher
<1>1. pattern[k] \in Int \X Int
  BY DEF Pattern
<1>2. pattern[k][1] \in Int /\ pattern[k][2] \in Int
  BY <1>1
<1> QED
  BY <1>2 DEF Filled

(* The places of an entry are those of its minutes, hours and dates.       *)
Hits(e, cal, d, h, m) ==
    /\ d \in 0 .. Days(cal.leap) - 1
    /\ h \in schedule_matcher(e.hour, 0, Hours - 1) /\ m \in schedule_matcher(e.minute, 0, Minutes - 1)
    /\ LET month == MonthOf(cal.leap, d) IN
       /\ month + 1 \in schedule_matcher(e.month, 1, Len(MonthDays[TRUE]))
       /\ d - Before(cal.leap, month) + 1 \in
            schedule_matcher(e.day, 1, MonthLength)
       /\ (cal.weekday + d) % Weekdays \in schedule_matcher(e.weekday, 0, Weekdays + 1)

LEMMA MatchedIs ==
    ASSUME NEW e, NEW cal \in Calendars, NEW t
    PROVE  <<cal, t>> \in Matched(e) <=> \E d, h, m : Hits(e, cal, d, h, m) /\ t = d * Day + h * Minutes + m
<1> DEFINE minute  == schedule_matcher(e.minute, 0, Minutes - 1)
           hour    == schedule_matcher(e.hour, 0, Hours - 1)
           day     == schedule_matcher(e.day, 1, MonthLength)
           month   == schedule_matcher(e.month, 1, Len(MonthDays[TRUE]))
           weekday == schedule_matcher(e.weekday, 0, Weekdays + 1)
           dates(c) == {d \in 0 .. Days(c.leap) - 1 :
                          /\ MonthOf(c.leap, d) + 1 \in month
                          /\ d - Before(c.leap, MonthOf(c.leap, d)) + 1 \in day
                          /\ (c.weekday + d) % Weekdays \in weekday}
           places(c) == {<<c, d * Day + h * Minutes + m>> : d \in dates(c), h \in hour, m \in minute}
<1>1. Matched(e) = UNION {places(c) : c \in Calendars}
  BY DEF Matched
<1>2. \A d, h, m : Hits(e, cal, d, h, m) <=> d \in dates(cal) /\ h \in hour /\ m \in minute
  BY DEF Hits
<1> HIDE DEF minute, hour, dates
<1>3. \A c : <<cal, t>> \in places(c) =>
             c = cal /\ \E d \in dates(c), h \in hour, m \in minute : t = d * Day + h * Minutes + m
  OBVIOUS
<1>4. (\E d \in dates(cal), h \in hour, m \in minute : t = d * Day + h * Minutes + m)
        => <<cal, t>> \in places(cal)
  OBVIOUS
<1> HIDE DEF places
<1>5. <<cal, t>> \in Matched(e) <=> <<cal, t>> \in places(cal)
  BY <1>1, <1>3
<1> QED
  BY <1>2, <1>3, <1>4, <1>5

(* A minute of the day is less than a day, and one of the year less than   *)
(* the year; the first is that of the first hour of the first day.         *)
LEMMA MinuteOfYear ==
    ASSUME NEW n \in Nat \ {0}, NEW d \in 0 .. n - 1, NEW h \in 0 .. Hours - 1, NEW m \in 0 .. Minutes - 1
    PROVE  /\ d * Day + h * Minutes + m \in 0 .. n * Day - 1
           /\ d * Day + h * Minutes + m = 0 => d = 0 /\ h = 0 /\ m = 0
<1>1. Hours \in Nat \ {0} /\ Minutes \in Nat \ {0} /\ Day = Hours * Minutes
  BY Lengths DEF Day
<1> DEFINE H == Hours
           M == Minutes
           D == Day
<1>2. H \in Nat \ {0} /\ M \in Nat \ {0} /\ D = H * M /\ h \in 0 .. H - 1 /\ m \in 0 .. M - 1
  BY <1>1
<1> HIDE DEF H, M, D
<1>3. h * M + m \in Nat /\ h * M + m < D /\ D \in Nat \ {0}
  <2>1. h + 1 <= H /\ h \in Nat /\ m \in Nat
    BY <1>2
  <2>2. (h + 1) * M <= H * M /\ (h + 1) * M = h * M + M
    BY <1>2, <2>1
  <2> QED
    BY <1>2, <2>1, <2>2
<1> DEFINE x == h * M + m
<1>4. x \in Nat /\ x < D /\ D \in Nat \ {0} /\ d \in Nat /\ d + 1 <= n
  BY <1>3
<1>7. x = 0 => h = 0 /\ m = 0
  <2>1. h \in Nat /\ m \in Nat /\ M \in Nat \ {0}
    BY <1>2
  <2>2. h # 0 => h * M >= M
    BY <2>1
  <2>3. h * M \in Nat
    BY <2>1
  <2> QED
    BY <2>1, <2>2, <2>3
<1> HIDE DEF x
<1>5. (d + 1) * D <= n * D /\ (d + 1) * D = d * D + D
  BY <1>4
<1>6. d * D + x \in 0 .. n * D - 1 /\ (d * D + x = 0 => d = 0 /\ x = 0)
  <2>1. d * D \in Nat /\ (d # 0 => d * D >= D)
    BY <1>4
  <2> QED
    BY <1>4, <1>5, <2>1
<1>8. d * Day + h * Minutes + m = d * D + x
  <2>1. d * D \in Nat /\ h * M \in Nat /\ m \in Nat
    BY <1>2, <1>4
  <2>2. d * D + h * M + m = d * D + x
    BY <2>1 DEF x
  <2> QED
    BY <2>2 DEF D, M
<1> QED
  BY <1>6, <1>7, <1>8 DEF D

LEMMA DaysOf ==
    ASSUME NEW cal \in Calendars
    PROVE  Days(cal.leap) \in Nat \ {0} /\ Length(cal.leap) <= LastMinute + 1
           /\ (cal.leap = FALSE => Length(cal.leap) = Length(FALSE))
<1>1. cal.leap = TRUE \/ cal.leap = FALSE
  BY DEF Calendars
<1>2. /\ Days(TRUE) \in Nat \ {0} /\ Days(FALSE) \in Nat \ {0}
      /\ Length(TRUE) <= LastMinute + 1 /\ Length(FALSE) <= LastMinute + 1
  <2> DEFINE p == Length(TRUE)
             q == Length(FALSE)
  <2>1. p \in Nat /\ LastMinute = p - 1 /\ q \in Nat /\ q <= LastMinute
    BY Lengths
  <2> HIDE DEF p, q
  <2>2. p <= LastMinute + 1 /\ q <= LastMinute + 1
    BY <2>1
  <2> QED
    BY <2>2, Lengths DEF p, q
<1> QED
  BY <1>1, <1>2, Zenon

(* No entry matches beyond the year, and what matches in the first minute  *)
(* of a leap year does in that of a year that begins on the same weekday.  *)
Calendar(w, leap) == [weekday |-> w, leap |-> leap]

LEMMA MatchedInYear ==
    ASSUME NEW e \in Lines, NEW cal \in Calendars, NEW t, <<cal, t>> \in Matched(e)
    PROVE  t \in 0 .. Length(cal.leap) - 1
<1>1. PICK d, h, m : Hits(e, cal, d, h, m) /\ t = d * Day + h * Minutes + m
  BY MatchedIs
<1>2. e.hour \in Pattern /\ e.minute \in Pattern /\ Hours - 1 \in Int /\ Minutes - 1 \in Int
  BY Lengths DEF Lines
<1>3. h \in 0 .. Hours - 1 /\ m \in 0 .. Minutes - 1 /\ d \in 0 .. Days(cal.leap) - 1
  BY <1>1, <1>2, MatcherInRange DEF Hits
<1>4. Days(cal.leap) \in Nat \ {0}
  BY DaysOf
<1> QED
  BY <1>1, <1>3, <1>4, MinuteOfYear DEF Length

LEMMA FirstMinute ==
    ASSUME NEW e \in Lines, NEW w \in 0 .. Weekdays - 1, NEW a \in BOOLEAN, NEW b \in BOOLEAN,
           <<Calendar(w, a), 0>> \in Matched(e)
    PROVE  <<Calendar(w, b), 0>> \in Matched(e)
<1> DEFINE ca == Calendar(w, a)
           cb == Calendar(w, b)
<1>0. ca \in Calendars /\ cb \in Calendars /\ ca.leap = a /\ cb.leap = b /\ ca.weekday = w /\ cb.weekday = w
  BY DEF Calendar, Calendars
<1> HIDE DEF ca, cb
<1>1. PICK d, h, m : Hits(e, ca, d, h, m) /\ 0 = d * Day + h * Minutes + m
  BY <1>0, MatchedIs DEF ca
<1>2. e.hour \in Pattern /\ e.minute \in Pattern /\ Hours - 1 \in Int /\ Minutes - 1 \in Int
  BY Lengths DEF Lines
<1>3. h \in 0 .. Hours - 1 /\ m \in 0 .. Minutes - 1 /\ d \in 0 .. Days(ca.leap) - 1
  BY <1>1, <1>2, MatcherInRange DEF Hits
<1>4. Days(ca.leap) \in Nat \ {0} /\ Days(cb.leap) \in Nat \ {0}
  BY <1>0, DaysOf
<1>5. d = 0 /\ h = 0 /\ m = 0
  BY <1>1, <1>3, <1>4, MinuteOfYear
<1>6. MonthOf(ca.leap, 0) = 0 /\ MonthOf(cb.leap, 0) = 0
  BY <1>0, MonthsAssumption
<1>7. Before(ca.leap, 0) = Before(cb.leap, 0)
  <2>1. \A leap : SubSeq(MonthDays[leap], 1, 0) = <<>>
    OBVIOUS
  <2> QED
    BY <2>1 DEF Before
<1>8. 0 \in 0 .. Days(cb.leap) - 1
  BY <1>4
<1>9. Hits(e, cb, 0, 0, 0)
  BY <1>0, <1>1, <1>5, <1>6, <1>7, <1>8 DEF Hits
<1>10. 0 = 0 * Day + 0 * Minutes + 0
  BY Lengths
<1> QED
  BY <1>0, <1>9, <1>10, MatchedIs DEF cb

-----------------------------------------------------------------------------
(* What a definition is compiled to.                                       *)

(* A schedule that is being compiled: its first value is zero, which every *)
(* minute beyond a short year has, and the first minute of a year does not *)
(* depend on whether it is leap.                                           *)
Beyond(sch) == \A w \in 0 .. Weekdays - 1 : \A t \in Length(FALSE) .. LastMinute :
                 sch.index[<<Calendar(w, FALSE), t>>] = 0
Alike(sch)  == \A w \in 0 .. Weekdays - 1 :
                 sch.index[<<Calendar(w, TRUE), 0>>] = sch.index[<<Calendar(w, FALSE), 0>>]
Fields == {"ok", "block", "index", "dtnext", "data", "weight", "count", "minutes"}
Good(sch) ==
    /\ DOMAIN sch = Fields /\ sch.ok \in BOOLEAN
    /\ sch.block \in Nat /\ sch.count \in [Blocks -> Nat]
    /\ sch.data \in [Values -> Int] /\ sch.data[0] = 0
    /\ sch.index \in [Places -> Values]
    /\ Beyond(sch) /\ Alike(sch)
Filling(sch) == Good(sch) /\ sch.block \in Blocks /\ sch.count[sch.block] >= 1

(* What the entries of a set say of each place is what it has: nothing but *)
(* zeros where it has the first value, else one other value and zeros.     *)
Said(E, p) == {e.value : e \in {x \in E : p \in Matched(x)}}
Means(sch, E) ==
    sch.ok => \A p \in Places :
        /\ sch.index[p] = 0 => Said(E, p) \subseteq {0}
        /\ sch.index[p] # 0 => /\ ValueAt(sch, p) \in Said(E, p)
                              /\ Said(E, p) \subseteq {0, ValueAt(sch, p)}

(* The values that places have are of the blocks that are done, or among   *)
(* those of the block so far.                                              *)
Room(sch) ==
    sch.ok => /\ sch.count[sch.block] <= MaxValues
              /\ \A p \in Places : sch.index[p] < sch.block * MaxValues + sch.count[sch.block]
Closed(sch) ==
    sch.ok => \A p \in Places : sch.index[p] = 0 \/ sch.index[p] < sch.block * MaxValues
Holding(sch, E)  == Filling(sch) /\ Room(sch) /\ Means(sch, E)
Compiles(sch, E) == Good(sch) /\ Closed(sch) /\ Means(sch, E)

LEMMA Sizes ==
    /\ MaxBlocks \in Nat \ {0} /\ MaxValues \in Nat \ {0}
    /\ Values \subseteq Nat /\ 0 \in Values /\ Blocks \subseteq Nat
    /\ \A b \in Blocks, k \in 0 .. MaxValues - 1 :
         b * MaxValues + k \in Values /\ (b * MaxValues + k = 0 => b = 0 /\ k = 0)
<1> DEFINE B == MaxBlocks
           V == MaxValues
<1>1. B \in Nat \ {0} /\ V \in Nat \ {0}
  BY TableAssumption
<1>2. Values = 0 .. B * V - 1 /\ Blocks = 0 .. B - 1
  BY DEF Values, Blocks
<1> HIDE DEF B, V
<1>3. B * V \in Nat \ {0}
  BY <1>1
<1>4. ASSUME NEW b \in 0 .. B - 1, NEW k \in 0 .. V - 1
      PROVE  b * V + k \in 0 .. B * V - 1 /\ (b * V + k = 0 => b = 0 /\ k = 0)
  <2>1. b \in Nat /\ k \in Nat /\ b + 1 <= B /\ k < V
    BY <1>1
  <2>2. (b + 1) * V <= B * V /\ (b + 1) * V = b * V + V /\ b * V \in Nat /\ (b # 0 => b * V >= V)
    BY <1>1, <2>1
  <2> QED
    BY <1>1, <1>3, <2>1, <2>2
<1> QED
  BY <1>1, <1>2, <1>3, <1>4 DEF B, V

LEMMA CalendarsAre ==
    \A w \in 0 .. Weekdays - 1 : \A t \in 0 .. LastMinute :
       <<Calendar(w, TRUE), t>> \in Places /\ <<Calendar(w, FALSE), t>> \in Places
<1>1. \A w \in 0 .. Weekdays - 1 : Calendar(w, TRUE) \in Calendars /\ Calendar(w, FALSE) \in Calendars
  BY DEF Calendar, Calendars
<1> DEFINE Y == Year(TRUE)
<1>2. Places = Calendars \X Y /\ Y = 0 .. LastMinute
  BY DEF Places, Year, LastMinute
<1> HIDE DEF Y
<1> QED
  BY <1>1, <1>2

LEMMA NewIsGood == Good(New)
<1>1. 0 \in Values /\ Values \subseteq Nat
  BY Sizes
<1>2. \A w \in 0 .. Weekdays - 1 : \A t \in 0 .. LastMinute :
        <<Calendar(w, TRUE), t>> \in Places /\ <<Calendar(w, FALSE), t>> \in Places
  BY CalendarsAre
<1>3. 0 \in 0 .. LastMinute /\ Length(FALSE) .. LastMinute \subseteq 0 .. LastMinute
  <2> DEFINE q == Length(FALSE)
  <2>1. q \in Nat /\ LastMinute \in Nat
    BY Lengths
  <2> HIDE DEF q
  <2>2. 0 \in 0 .. LastMinute /\ q .. LastMinute \subseteq 0 .. LastMinute
    BY <2>1
  <2> QED
    BY <2>2 DEF q
<1>4. \A p \in Places : New.index[p] = 0
  BY DEF New
<1>5. Beyond(New) /\ Alike(New)
  BY <1>2, <1>3, <1>4 DEF Beyond, Alike
<1>6. New.data \in [Values -> Int] /\ New.data[0] = 0 /\ New.index \in [Places -> Values]
      /\ New.block \in Nat /\ New.count \in [Blocks -> Nat]
  BY <1>1 DEF New
<1>7. DOMAIN New = Fields /\ New.ok \in BOOLEAN
  BY DEF New, Fields
<1> QED
  BY <1>5, <1>6, <1>7 DEF Good

LEMMA FailedIsGood ==
    ASSUME NEW sch, Good(sch)
    PROVE  Good(Failed(sch)) /\ (Filling(sch) => Filling(Failed(sch)))
<1> DEFINE f == Failed(sch)
<1>1. DOMAIN sch = Fields
  BY DEF Good
<1>2. /\ DOMAIN f = Fields /\ f.ok = FALSE
      /\ f.block = sch.block /\ f.index = sch.index /\ f.data = sch.data /\ f.count = sch.count
  BY <1>1 DEF Failed, Fields
<1> HIDE DEF f
<1>3. Good(f)
  BY <1>2 DEF Good, Beyond, Alike
<1> QED
  BY <1>2, <1>3 DEF f, Filling

(* The place of a value in its block; only a zero is the first of them.    *)
LEMMA ValueIndex ==
    ASSUME NEW sch, Filling(sch), NEW v \in Int
    PROVE  /\ find_value_index(sch, v) \in 0 .. sch.count[sch.block]
           /\ find_value_index(sch, v) < sch.count[sch.block]
                => sch.data[sch.block * MaxValues + find_value_index(sch, v)] = v
           /\ find_value_index(sch, v) = 0 => sch.data[sch.block * MaxValues] = v
<1> DEFINE b == sch.block * MaxValues
           c == sch.count[sch.block]
           known == {k \in 0 .. c - 1 : sch.data[b + k] = v}
<1>1. c \in Nat /\ c >= 1 /\ b \in Nat
  BY Sizes DEF Filling, Good
<1>2. find_value_index(sch, v) = IF known = {} THEN c ELSE Min(known)
  BY DEF find_value_index
<1> HIDE DEF b, c
<1>3. CASE known = {}
  BY <1>1, <1>2, <1>3 DEF b, c
<1>4. CASE known # {}
  <2>1. known \in SUBSET Nat
    BY <1>1
  <2>2. PICK k \in known : \A y \in known : k <= y
    BY <1>4, <2>1, LeastNumber
  <2>3. Min(known) = k
    <3>1. known \in SUBSET Int
      BY <2>1
    <3> QED
      BY <2>2, <3>1, MinIs
  <2>4. k \in 0 .. c - 1 /\ sch.data[b + k] = v
    BY <2>1
  <2>5. b + 0 = b
    BY <1>1
  <2> QED
    <3>1. find_value_index(sch, v) = k
      BY <1>2, <1>4, <2>3
    <3>2. k \in 0 .. c /\ (k = 0 => sch.data[b] = v)
      BY <1>1, <2>4, <2>5
    <3> QED
      BY <2>4, <3>1, <3>2 DEF b, c
<1> QED
  BY <1>3, <1>4

(* What an entry that is accepted adds.                                    *)
Ndx(sch, e)      == find_value_index(sch, e.value)
Number(sch, e)   == sch.block * MaxValues + Ndx(sch, e)
NewIndex(sch, e) == [p \in Places |-> IF p \in Matched(e) THEN Number(sch, e) ELSE sch.index[p]]
NewData(sch, e)  == [sch.data EXCEPT ![Number(sch, e)] = e.value]
NewCount(sch, e) == [sch.count EXCEPT ![sch.block] = IF Ndx(sch, e) < @ THEN @ ELSE @ + 1]

LEMMA EntryAdds ==
    ASSUME NEW sch, Filling(sch), NEW e \in Lines, AddEntry(sch, e).ok
    PROVE  /\ sch.ok /\ Ndx(sch, e) \in 0 .. MaxValues - 1 /\ Number(sch, e) \in Values
           /\ \A p \in Matched(e) : ~(sch.index[p] > 0)
           /\ DOMAIN AddEntry(sch, e) = Fields /\ AddEntry(sch, e).ok = sch.ok
           /\ AddEntry(sch, e).block = sch.block
           /\ AddEntry(sch, e).index = NewIndex(sch, e)
           /\ AddEntry(sch, e).data = NewData(sch, e)
           /\ AddEntry(sch, e).count = NewCount(sch, e)
<1> DEFINE ndx == find_value_index(sch, e.value)
           n   == sch.block * MaxValues + ndx
           hit == Matched(e)
           add == [sch EXCEPT
                !.index = [p \in Places |-> IF p \in hit THEN n ELSE @[p]],
                !.data[n] = e.value,
                !.weight[n] = @ + Cardinality(hit),
                !.count[sch.block] = IF ndx < @ THEN @ ELSE @ + 1,
                !.minutes[sch.block] = @ + Cardinality(hit)]
<1>1. AddEntry(sch, e) = IF ~sch.ok THEN sch
                         ELSE IF ndx >= MaxValues \/ Conflict(sch, hit) THEN Failed(sch) ELSE add
  BY DEF AddEntry
<1>2. DOMAIN sch = Fields /\ sch.block \in Blocks /\ sch.count[sch.block] \in Nat /\ e.value \in Int
  BY DEF Filling, Good, Lines
<1>3. ndx \in Nat
  BY <1>2, ValueIndex
<1>4. Failed(sch).ok = FALSE
  BY <1>2 DEF Failed, Fields
<1> HIDE DEF ndx, n, hit
<1>5. /\ DOMAIN add = Fields /\ add.ok = sch.ok /\ add.block = sch.block
      /\ add.index = [p \in Places |-> IF p \in hit THEN n ELSE sch.index[p]]
      /\ add.data = [sch.data EXCEPT ![n] = e.value]
      /\ add.count = [sch.count EXCEPT ![sch.block] = IF ndx < @ THEN @ ELSE @ + 1]
  BY <1>2 DEF Fields
<1> HIDE DEF add
<1>6. sch.ok /\ ~(ndx >= MaxValues) /\ ~Conflict(sch, hit) /\ AddEntry(sch, e) = add
  BY <1>1, <1>4
<1>7. ndx \in 0 .. MaxValues - 1
  BY <1>3, <1>6, Sizes
<1>8. n \in Values
  BY <1>2, <1>7, Sizes DEF n
<1>9. \A p \in hit : ~(sch.index[p] > 0)
  BY <1>6 DEF Conflict
<1> QED
  BY <1>5, <1>6, <1>7, <1>8, <1>9 DEF ndx, n, hit, Ndx, Number, NewIndex, NewData, NewCount

LEMMA EntryFills ==
    ASSUME NEW sch, Filling(sch), NEW e \in Lines
    PROVE  Filling(AddEntry(sch, e))
<1> DEFINE add == AddEntry(sch, e)
           ndx == Ndx(sch, e)
           n   == Number(sch, e)
           hit == Matched(e)
           ni  == NewIndex(sch, e)
           nd  == NewData(sch, e)
           nc  == NewCount(sch, e)
<1>1. CASE ~add.ok
  <2>1. add = sch \/ add = Failed(sch)
    <3>1. DOMAIN sch = Fields
      BY DEF Filling, Good
    <3>2. \A x, y, z, u, v :
            [sch EXCEPT !.index = x, !.data = y, !.weight = z, !.count = u, !.minutes = v].ok = sch.ok
      BY <3>1 DEF Fields
    <3> QED
      BY <1>1, <3>1, <3>2 DEF AddEntry, Fields
  <2> QED
    BY <2>1, FailedIsGood DEF Filling
<1>2. CASE add.ok
  <2>1. /\ sch.ok /\ ndx \in 0 .. MaxValues - 1 /\ n \in Values
        /\ DOMAIN add = Fields /\ add.ok = sch.ok /\ add.block = sch.block
        /\ add.index = ni /\ add.data = nd /\ add.count = nc
    BY <1>2, EntryAdds
  <2>2. Good(sch) /\ sch.block \in Blocks /\ sch.count[sch.block] >= 1 /\ e.value \in Int
    BY DEF Filling, Lines
  <2>3. n = 0 => e.value = 0
    <3>1. n = 0 => sch.block = 0 /\ ndx = 0
      BY <2>1, <2>2, Sizes DEF Number
    <3>2. ndx = 0 => sch.data[sch.block * MaxValues] = e.value
      BY <2>2, ValueIndex DEF Ndx
    <3>3. 0 * MaxValues = 0
      BY Sizes
    <3> QED
      BY <2>2, <3>1, <3>2, <3>3 DEF Good
  <2> HIDE DEF ndx, n, hit, add
  <2>4. ni \in [Places -> Values]
    BY <2>1, <2>2 DEF Good, NewIndex, n
  <2>5. nd \in [Values -> Int] /\ nd[0] = 0
    BY <2>1, <2>2, <2>3, Sizes DEF Good, NewData, n
  <2>6. nc \in [Blocks -> Nat] /\ nc[sch.block] >= 1
    BY <2>2 DEF Good, NewCount
  <2>7. ASSUME NEW w \in 0 .. Weekdays - 1, NEW t \in Length(FALSE) .. LastMinute
        PROVE  ni[<<Calendar(w, FALSE), t>>] = 0
    <3> DEFINE p == <<Calendar(w, FALSE), t>>
               q == Length(FALSE)
    <3>1. q \in Nat /\ LastMinute \in Nat /\ t \in q .. LastMinute
      BY Lengths
    <3> HIDE DEF q
    <3>2. t \in 0 .. LastMinute /\ t \notin 0 .. q - 1
      BY <3>1
    <3>3. p \in Places
      BY <3>2, CalendarsAre
    <3>4. p \notin hit
      <4> SUFFICES ASSUME p \in hit PROVE FALSE
        OBVIOUS
      <4>1. Calendar(w, FALSE) \in Calendars /\ Calendar(w, FALSE).leap = FALSE
        BY DEF Calendar, Calendars
      <4>2. t \in 0 .. Length(Calendar(w, FALSE).leap) - 1
        BY <4>1, MatchedInYear DEF hit
      <4>3. Length(Calendar(w, FALSE).leap) = q
        BY <4>1 DEF q
      <4> QED
        BY <3>2, <4>2, <4>3
    <3>5. sch.index[p] = 0
      BY <2>2 DEF Good, Beyond
    <3> QED
      BY <3>3, <3>4, <3>5 DEF ni, NewIndex, hit
  <2>8. ASSUME NEW w \in 0 .. Weekdays - 1
        PROVE  ni[<<Calendar(w, TRUE), 0>>] = ni[<<Calendar(w, FALSE), 0>>]
    <3>1. <<Calendar(w, TRUE), 0>> \in Places /\ <<Calendar(w, FALSE), 0>> \in Places
      <4>1. LastMinute \in Nat
        BY Lengths
      <4>2. 0 \in 0 .. LastMinute
        BY <4>1
      <4> QED
        BY <4>2, CalendarsAre
    <3>2. <<Calendar(w, TRUE), 0>> \in hit <=> <<Calendar(w, FALSE), 0>> \in hit
      <4>1. TRUE \in BOOLEAN /\ FALSE \in BOOLEAN
        OBVIOUS
      <4> QED
        BY <4>1, FirstMinute DEF hit
    <3>3. sch.index[<<Calendar(w, TRUE), 0>>] = sch.index[<<Calendar(w, FALSE), 0>>]
      BY <2>2 DEF Good, Alike
    <3> QED
      BY <3>1, <3>2, <3>3 DEF ni, NewIndex, hit
  <2> HIDE DEF ni, nd, nc
  <2>9. Beyond(add) /\ Alike(add)
    BY <2>1, <2>7, <2>8 DEF Beyond, Alike
  <2>10. Good(add)
    BY <2>1, <2>2, <2>4, <2>5, <2>6, <2>9 DEF Good
  <2> QED
    BY <2>1, <2>2, <2>6, <2>10 DEF Filling, add
<1> QED
  BY <1>1, <1>2

(* An entry that is accepted adds its value to what is said of the places  *)
(* it matches, and every place still has what is said of it.               *)
LEMMA EntryMeans ==
    ASSUME NEW sch, NEW E, Holding(sch, E), NEW e \in Lines
    PROVE  Holding(AddEntry(sch, e), E \union {e})
<1> DEFINE add == AddEntry(sch, e)
           F   == E \union {e}
<1>1. Filling(add) /\ Filling(sch)
  BY EntryFills DEF Holding
<1>2. CASE ~add.ok
  BY <1>1, <1>2 DEF Holding, Room, Means
<1>3. CASE add.ok
  <2> DEFINE ndx == Ndx(sch, e)
             n   == Number(sch, e)
             hit == Matched(e)
             c   == sch.count[sch.block]
             b   == sch.block * MaxValues
  <2>1. /\ sch.ok /\ ndx \in 0 .. MaxValues - 1 /\ n \in Values
        /\ add.block = sch.block
        /\ add.index = NewIndex(sch, e) /\ add.data = NewData(sch, e) /\ add.count = NewCount(sch, e)
        /\ \A p \in hit : ~(sch.index[p] > 0)
    BY <1>1, <1>3, EntryAdds
  <2>2. /\ sch.block \in Blocks /\ c \in Nat /\ c >= 1 /\ b \in Nat /\ n = b + ndx /\ e.value \in Int
        /\ sch.index \in [Places -> Values] /\ sch.data \in [Values -> Int] /\ sch.data[0] = 0
        /\ sch.count \in [Blocks -> Nat] /\ MaxValues \in Nat \ {0} /\ Values \subseteq Nat
    BY <1>1, Sizes DEF Filling, Good, Number, Lines
  <2>3. ndx \in 0 .. c /\ (ndx < c => sch.data[n] = e.value) /\ (ndx = 0 => sch.data[n] = e.value)
    <3>1. b + 0 = b
      BY <2>2
    <3> QED
      BY <1>1, <2>2, ValueIndex DEF Ndx, Number
  <2>4. c <= MaxValues /\ \A p \in Places : sch.index[p] < b + c
    BY <2>1 DEF Holding, Room
  <2> HIDE DEF ndx, n, hit, c, b, add, F
  <2>5. /\ \A p \in Places : add.index[p] = IF p \in hit THEN n ELSE sch.index[p]
        /\ \A k \in Values : add.data[k] = IF k = n THEN e.value ELSE sch.data[k]
        /\ add.count[sch.block] = IF ndx < c THEN c ELSE c + 1
    BY <2>1, <2>2 DEF NewIndex, NewData, NewCount, hit, n, ndx, c
  <2>6. Room(add)
    <3>1. add.count[sch.block] <= MaxValues
      BY <2>1, <2>2, <2>3, <2>4, <2>5
    <3>2. ASSUME NEW p \in Places PROVE add.index[p] < b + add.count[sch.block]
      <4>1. sch.index[p] \in Nat /\ sch.index[p] < b + c
        BY <2>2, <2>4
      <4> QED
        BY <2>1, <2>2, <2>3, <2>5, <4>1
    <3> QED
      BY <2>1, <3>1, <3>2 DEF Room, b
  <2>7. \A p \in Places : sch.index[p] # n \/ sch.data[n] = e.value
    <3> SUFFICES ASSUME NEW p \in Places, sch.index[p] = n PROVE sch.data[n] = e.value
      OBVIOUS
    <3>1. n < b + c
      BY <2>4
    <3> QED
      BY <2>2, <2>3, <3>1
  <2>8. ASSUME NEW p \in Places
        PROVE  /\ add.index[p] = 0 => Said(F, p) \subseteq {0}
               /\ add.index[p] # 0 => /\ ValueAt(add, p) \in Said(F, p)
                                     /\ Said(F, p) \subseteq {0, ValueAt(add, p)}
    <3>1. /\ sch.index[p] = 0 => Said(E, p) \subseteq {0}
          /\ sch.index[p] # 0 => /\ ValueAt(sch, p) \in Said(E, p)
                                /\ Said(E, p) \subseteq {0, ValueAt(sch, p)}
      BY <2>1 DEF Holding, Means
    <3>2. CASE p \in hit
      <4>1. Said(F, p) = Said(E, p) \union {e.value}
        BY <3>2 DEF Said, F, hit
      <4>2. sch.index[p] = 0
        <5>1. sch.index[p] \in Nat /\ ~(sch.index[p] > 0)
          BY <2>1, <2>2, <3>2
        <5> QED
          BY <5>1
      <4>3. add.index[p] = n /\ ValueAt(add, p) = e.value
        BY <2>1, <2>5, <3>2 DEF ValueAt
      <4>4. n = 0 => e.value = 0
        <5>1. n = 0 => ndx = 0
          BY <2>1, <2>2, <2>3
        <5> QED
          BY <2>2, <2>3, <5>1
      <4> QED
        BY <3>1, <4>1, <4>2, <4>3, <4>4
    <3>3. CASE p \notin hit
      <4>1. Said(F, p) = Said(E, p)
        BY <3>3 DEF Said, F, hit
      <4>2. add.index[p] = sch.index[p] /\ sch.index[p] \in Values
        BY <2>2, <2>5, <3>3
      <4>3. ValueAt(add, p) = ValueAt(sch, p)
        BY <2>5, <2>7, <4>2 DEF ValueAt
      <4> QED
        BY <3>1, <4>1, <4>2, <4>3
    <3> QED
      BY <3>2, <3>3
  <2>9. Means(add, F)
    BY <2>8 DEF Means
  <2> QED
    BY <1>1, <2>6, <2>9 DEF Holding, add, F
<1> QED
  BY <1>2, <1>3

-----------------------------------------------------------------------------
(* The folds that compile a definition.                                    *)

(* Without its greatest number, a set of the first n + 1 numbers is one of *)
(* the first n.                                                            *)
LEMMA WithoutMax ==
    ASSUME NEW n \in Nat, NEW s \in SUBSET (1 .. n), s # {}
    PROVE  Max(s) \in s /\ n # 0 /\ s \ {Max(s)} \in SUBSET (1 .. (n - 1))
<1>1. PICK x \in s : \A y \in s : x >= y
  <2>1. s \in SUBSET Nat /\ \A x \in s : x <= n
    OBVIOUS
  <2> QED
    BY <2>1, GreatestNumber
<1>2. Max(s) = x
  <2>1. s \in SUBSET Int
    OBVIOUS
  <2> QED
    BY <1>1, <2>1, MaxIs
<1>3. \A y \in s : y # x => y \in 1 .. (n - 1)
  <2> SUFFICES ASSUME NEW y \in s, y # x PROVE y \in 1 .. (n - 1)
    OBVIOUS
  <2>1. x \in 1 .. n /\ y \in 1 .. n /\ x >= y
    BY <1>1
  <2> QED
    BY <2>1
<1>4. n # 0
  BY <1>1
<1> QED
  BY <1>1, <1>2, <1>3, <1>4

(* The fold of the entries of a block, on the sets of the first places.    *)
Entered(f, base, es, s) ==
    IF s = {} THEN base ELSE AddEntry(f[s \ {Max(s)}], es[Max(s)])

LEMMA EntersExist ==
    ASSUME NEW base, NEW es, NEW len \in Nat, DOMAIN es = 1 .. len
    PROVE  \E f : f = [s \in SUBSET DOMAIN es |-> Entered(f, base, es, s)]
<1> DEFINE Upto(f, n) == \A s \in SUBSET (1 .. n) : f[s] = Entered(f, base, es, s)
           X == {n \in 0 .. len : ~\E f : f = [s \in SUBSET (1 .. len) |-> f[s]] /\ Upto(f, n)}
<1>1. ASSUME X # {} PROVE FALSE
  <2>0. X \in SUBSET Nat
    OBVIOUS
  <2>1. PICK n \in X : \A m \in X : n <= m
    BY <1>1, <2>0, LeastNumber
  <2>2. n \in 0 .. len /\ ~\E f : f = [s \in SUBSET (1 .. len) |-> f[s]] /\ Upto(f, n)
    BY <2>1
  <2>3. CASE n = 0
    <3> DEFINE f == [s \in SUBSET (1 .. len) |-> base]
    <3>1. 1 .. 0 = {}
      OBVIOUS
    <3>2. Upto(f, n)
      BY <2>3, <3>1 DEF Entered
    <3>3. f = [s \in SUBSET (1 .. len) |-> f[s]]
      OBVIOUS
    <3> QED
      BY <2>2, <3>2, <3>3
  <2>4. CASE n # 0
    <3>1. n - 1 \in 0 .. len /\ n - 1 \notin X
      <4>1. n - 1 \in 0 .. len /\ ~(n <= n - 1)
        BY <2>2, <2>4
      <4> QED
        BY <2>1, <4>1
    <3>2. PICK g : Upto(g, n - 1)
      BY <3>1
    <3> DEFINE f == [s \in SUBSET (1 .. len) |-> Entered(g, base, es, s)]
    <3>3. ASSUME NEW s \in SUBSET (1 .. n) PROVE f[s] = Entered(f, base, es, s)
      <4>1. s \in SUBSET (1 .. len)
        BY <2>2
      <4>2. f[s] = Entered(g, base, es, s)
        BY <4>1
      <4>3. CASE s = {}
        BY <4>2, <4>3 DEF Entered
      <4>4. CASE s # {}
        <5> DEFINE r == s \ {Max(s)}
        <5>1. r \in SUBSET (1 .. (n - 1))
          BY <2>2, <4>4, WithoutMax
        <5>2. r \in SUBSET (1 .. len)
          BY <4>1
        <5>3. f[r] = g[r]
          BY <3>2, <5>1, <5>2
        <5> QED
          BY <4>2, <4>4, <5>3 DEF Entered
      <4> QED
        BY <4>3, <4>4
    <3>4. f = [s \in SUBSET (1 .. len) |-> f[s]]
      OBVIOUS
    <3> QED
      BY <2>2, <3>3, <3>4
  <2> QED
    BY <2>3, <2>4
<1>2. len \in 0 .. len
  OBVIOUS
<1>3. PICK f : f = [s \in SUBSET (1 .. len) |-> f[s]] /\ Upto(f, len)
  BY <1>1, <1>2
<1> QED
  BY <1>3

LEMMA EntriesFill ==
    ASSUME NEW base, NEW E, Holding(base, E), NEW es \in Seq(Lines)
    PROVE  Holding(FoldLeft(AddEntry, base, es), E \union {es[k] : k \in DOMAIN es})
<1> DEFINE len == Len(es)
           f == CHOOSE f : f = [s \in SUBSET DOMAIN es |-> Entered(f, base, es, s)]
           G(s) == E \union {es[k] : k \in s}
<1>1. len \in Nat /\ DOMAIN es = 1 .. len /\ \A k \in 1 .. len : es[k] \in Lines
  OBVIOUS
<1>2. f = [s \in SUBSET DOMAIN es |-> Entered(f, base, es, s)]
  BY <1>1, EntersExist
<1>3. FoldLeft(AddEntry, base, es) = f[DOMAIN es]
  BY DEF FoldLeft, MapThenFoldSet, Entered
<1> HIDE DEF f, len
<1> DEFINE X == {n \in 0 .. len : \E s \in SUBSET (1 .. n) : ~Holding(f[s], G(s))}
<1>4. ASSUME X # {} PROVE FALSE
  <2>0. X \in SUBSET Nat
    BY <1>1
  <2>1. PICK n \in X : \A m \in X : n <= m
    BY <1>4, <2>0, LeastNumber
  <2>2. n \in 0 .. len /\ n \in Nat
    BY <1>1
  <2>3. PICK s \in SUBSET (1 .. n) : ~Holding(f[s], G(s))
    OBVIOUS
  <2>4. f[s] = Entered(f, base, es, s)
    BY <1>1, <1>2, <2>2
  <2>5. s # {}
    <3>1. s = {} => G(s) = E
      OBVIOUS
    <3> HIDE DEF G
    <3> QED
      BY <2>3, <2>4, <3>1 DEF Entered
  <2> DEFINE x == Max(s)
             r == s \ {x}
  <2>6. x \in s /\ n # 0 /\ r \in SUBSET (1 .. (n - 1))
    BY <2>2, <2>5, WithoutMax
  <2>7. n - 1 \in 0 .. len /\ n - 1 \notin X
    <3>1. n - 1 \in 0 .. len /\ ~(n <= n - 1)
      BY <1>1, <2>2, <2>6
    <3> QED
      BY <2>1, <3>1
  <2>8. Holding(f[r], G(r))
    BY <2>6, <2>7
  <2>9. f[s] = AddEntry(f[r], es[x])
    BY <2>4, <2>5 DEF Entered
  <2> HIDE DEF x
  <2>10. es[x] \in Lines
    <3>1. x \in 1 .. n
      BY <2>6
    <3>2. x \in 1 .. len
      BY <1>1, <2>2, <3>1
    <3> QED
      BY <1>1, <3>2
  <2>11. G(s) = G(r) \union {es[x]}
    BY <2>6
  <2> HIDE DEF G, r, X
  <2>12. Holding(AddEntry(f[r], es[x]), G(r) \union {es[x]})
    BY <2>8, <2>10, EntryMeans
  <2> QED
    BY <2>3, <2>9, <2>11, <2>12
<1>5. len \in 0 .. len
  BY <1>1
<1>6. Holding(f[1 .. len], G(1 .. len))
  BY <1>4, <1>5
<1> QED
  BY <1>1, <1>3, <1>6

LEMMA BlockFills ==
    ASSUME NEW sch, NEW E, Compiles(sch, E), NEW es \in Seq(Lines)
    PROVE  Compiles(CompileBlock(sch, es), E \union {es[k] : k \in DOMAIN es})
<1> DEFINE F == E \union {es[k] : k \in DOMAIN es}
           base == [sch EXCEPT !.count[sch.block] = 1]
           done == FoldLeft(AddEntry, base, es)
           next == [done EXCEPT !.block = @ + 1]
<1>1. CompileBlock(sch, es) = IF ~sch.ok THEN sch
                              ELSE IF sch.block >= MaxBlocks THEN Failed(sch)
                              ELSE IF done.ok THEN next ELSE done
  BY DEF CompileBlock
<1>2. /\ DOMAIN sch = Fields /\ sch.block \in Nat /\ sch.count \in [Blocks -> Nat]
      /\ sch.index \in [Places -> Values]
  BY DEF Compiles, Good
<1>3. \A x : Good(x) /\ ~x.ok => Compiles(x, F)
  BY DEF Compiles, Closed, Means
<1>4. Good(Failed(sch)) /\ ~Failed(sch).ok
  <2>1. Failed(sch).ok = FALSE
    BY <1>2 DEF Failed, Fields
  <2> QED
    BY <2>1, FailedIsGood DEF Compiles
<1>5. ASSUME sch.ok, ~(sch.block >= MaxBlocks) PROVE Good(done) /\ (done.ok => Compiles(next, F))
  <2>1. sch.block \in Blocks /\ MaxValues \in Nat \ {0} /\ Values \subseteq Nat
    BY <1>2, <1>5, Sizes DEF Blocks
  <2>2. /\ DOMAIN base = Fields /\ base.ok = sch.ok /\ base.block = sch.block /\ base.index = sch.index
        /\ base.data = sch.data /\ base.count = [sch.count EXCEPT ![sch.block] = 1]
    BY <1>2 DEF Fields
  <2>3. base.count \in [Blocks -> Nat] /\ base.count[sch.block] = 1
    BY <1>2, <2>1, <2>2
  <2> HIDE DEF base
  <2>4. Good(base)
    BY <2>2, <2>3 DEF Compiles, Good, Beyond, Alike
  <2>5. Room(base)
    <3> DEFINE b == sch.block * MaxValues
    <3>1. b \in Nat
      BY <1>2, <2>1
    <3>2. \A p \in Places : sch.index[p] = 0 \/ sch.index[p] < b
      BY <1>5 DEF Compiles, Closed
    <3>3. \A p \in Places : sch.index[p] \in Nat
      BY <1>2, <2>1
    <3> HIDE DEF b
    <3>4. \A p \in Places : sch.index[p] < b + 1
      BY <3>1, <3>2, <3>3
    <3> QED
      BY <2>1, <2>2, <2>3, <3>4 DEF Room, b
  <2>6. Means(base, E)
    BY <2>2 DEF Compiles, Means, ValueAt
  <2>7. Holding(base, E)
    BY <2>1, <2>2, <2>3, <2>4, <2>5, <2>6 DEF Holding, Filling
  <2>8. Holding(done, F)
    BY <2>7, EntriesFill
  <2> HIDE DEF done, F
  <2>9. DOMAIN done = Fields /\ done.block \in Nat /\ Good(done)
    BY <2>8 DEF Holding, Filling, Good
  <2>10. /\ DOMAIN next = Fields /\ next.ok = done.ok /\ next.block = done.block + 1
         /\ next.index = done.index /\ next.data = done.data /\ next.count = done.count
    BY <2>9 DEF Fields
  <2> HIDE DEF next
  <2>11. Good(next)
    <3>1. done.block + 1 \in Nat
      BY <2>9
    <3> QED
      BY <2>9, <2>10, <3>1 DEF Good, Beyond, Alike
  <2>12. done.ok => Closed(next)
    <3> SUFFICES ASSUME done.ok, NEW p \in Places PROVE next.index[p] < next.block * MaxValues
      BY DEF Closed
    <3> DEFINE c == done.count[done.block]
               b == done.block * MaxValues
    <3>1. c <= MaxValues /\ done.index[p] < b + c
      BY <2>8 DEF Holding, Room
    <3>2. c \in Nat /\ b \in Nat /\ done.index[p] \in Nat
      <4>1. done.count \in [Blocks -> Nat] /\ done.index \in [Places -> Values] /\ done.block \in Blocks
        BY <2>8 DEF Holding, Filling, Good
      <4>2. b \in Nat
        BY <2>1, <2>9
      <4> QED
        BY <2>1, <4>1, <4>2
    <3>3. (done.block + 1) * MaxValues = b + MaxValues
      BY <2>1, <2>9
    <3> HIDE DEF b, c
    <3> QED
      BY <2>1, <2>10, <3>1, <3>2, <3>3
  <2>13. Means(next, F)
    BY <2>8, <2>10 DEF Holding, Means, ValueAt
  <2> QED
    BY <2>9, <2>11, <2>12, <2>13 DEF Compiles
<1>6. Good(sch)
  BY DEF Compiles
<1> HIDE DEF done, next, F
<1>7. Compiles(CompileBlock(sch, es), F)
  BY <1>1, <1>3, <1>4, <1>5, <1>6
<1> QED
  BY <1>7 DEF F

(* The fold of the blocks.                                                 *)
Compiled(f, bs, s) ==
    IF s = {} THEN New ELSE CompileBlock(f[s \ {Max(s)}], bs[Max(s)])

LEMMA CompiledExist ==
    ASSUME NEW bs, NEW len \in Nat, DOMAIN bs = 1 .. len
    PROVE  \E f : f = [s \in SUBSET DOMAIN bs |-> Compiled(f, bs, s)]
<1> DEFINE Upto(f, n) == \A s \in SUBSET (1 .. n) : f[s] = Compiled(f, bs, s)
           X == {n \in 0 .. len : ~\E f : f = [s \in SUBSET (1 .. len) |-> f[s]] /\ Upto(f, n)}
<1>1. ASSUME X # {} PROVE FALSE
  <2>0. X \in SUBSET Nat
    OBVIOUS
  <2>1. PICK n \in X : \A m \in X : n <= m
    BY <1>1, <2>0, LeastNumber
  <2>2. n \in 0 .. len /\ ~\E f : f = [s \in SUBSET (1 .. len) |-> f[s]] /\ Upto(f, n)
    BY <2>1
  <2>3. CASE n = 0
    <3> DEFINE f == [s \in SUBSET (1 .. len) |-> New]
    <3>1. 1 .. 0 = {}
      OBVIOUS
    <3>2. Upto(f, n)
      BY <2>3, <3>1 DEF Compiled
    <3>3. f = [s \in SUBSET (1 .. len) |-> f[s]]
      OBVIOUS
    <3> QED
      BY <2>2, <3>2, <3>3
  <2>4. CASE n # 0
    <3>1. n - 1 \in 0 .. len /\ n - 1 \notin X
      <4>1. n - 1 \in 0 .. len /\ ~(n <= n - 1)
        BY <2>2, <2>4
      <4> QED
        BY <2>1, <4>1
    <3>2. PICK g : Upto(g, n - 1)
      BY <3>1
    <3> DEFINE f == [s \in SUBSET (1 .. len) |-> Compiled(g, bs, s)]
    <3>3. ASSUME NEW s \in SUBSET (1 .. n) PROVE f[s] = Compiled(f, bs, s)
      <4>1. s \in SUBSET (1 .. len)
        BY <2>2
      <4>2. f[s] = Compiled(g, bs, s)
        BY <4>1
      <4>3. CASE s = {}
        BY <4>2, <4>3 DEF Compiled
      <4>4. CASE s # {}
        <5> DEFINE r == s \ {Max(s)}
        <5>1. r \in SUBSET (1 .. (n - 1))
          BY <2>2, <4>4, WithoutMax
        <5>2. r \in SUBSET (1 .. len)
          BY <4>1
        <5>3. f[r] = g[r]
          BY <3>2, <5>1, <5>2
        <5> QED
          BY <4>2, <4>4, <5>3 DEF Compiled
      <4> QED
        BY <4>3, <4>4
    <3>4. f = [s \in SUBSET (1 .. len) |-> f[s]]
      OBVIOUS
    <3> QED
      BY <2>2, <3>3, <3>4
  <2> QED
    BY <2>3, <2>4
<1>2. len \in 0 .. len
  OBVIOUS
<1>3. PICK f : f = [s \in SUBSET (1 .. len) |-> f[s]] /\ Upto(f, len)
  BY <1>1, <1>2
<1> QED
  BY <1>3

(* The entries of the blocks of a set of places.                           *)
EntriesOf(bs, s) == UNION {{bs[b][k] : k \in DOMAIN bs[b]} : b \in s}

LEMMA CompileIsGood ==
    ASSUME NEW bs \in Seq(Seq(Lines))
    PROVE  Compiles(schedule_compile(bs), EntriesOf(bs, DOMAIN bs))
<1> DEFINE len == Len(bs)
           f == CHOOSE f : f = [s \in SUBSET DOMAIN bs |-> Compiled(f, bs, s)]
<1>1. len \in Nat /\ DOMAIN bs = 1 .. len /\ \A k \in 1 .. len : bs[k] \in Seq(Lines)
  OBVIOUS
<1>2. f = [s \in SUBSET DOMAIN bs |-> Compiled(f, bs, s)]
  BY <1>1, CompiledExist
<1>3. schedule_compile(bs) = f[DOMAIN bs]
  BY DEF schedule_compile, FoldLeft, MapThenFoldSet, Compiled
<1> HIDE DEF f, len
<1>4. Compiles(New, EntriesOf(bs, {}))
  <2>1. \A p \in Places : New.index[p] = 0
    BY DEF New
  <2>2. \A p : Said(EntriesOf(bs, {}), p) = {}
    BY DEF Said, EntriesOf
  <2> QED
    BY <2>1, <2>2, NewIsGood DEF Compiles, Closed, Means
<1> DEFINE X == {n \in 0 .. len : \E s \in SUBSET (1 .. n) : ~Compiles(f[s], EntriesOf(bs, s))}
<1>5. ASSUME X # {} PROVE FALSE
  <2>0. X \in SUBSET Nat
    BY <1>1
  <2>1. PICK n \in X : \A m \in X : n <= m
    BY <1>5, <2>0, LeastNumber
  <2>2. n \in 0 .. len /\ n \in Nat
    BY <1>1
  <2>3. PICK s \in SUBSET (1 .. n) : ~Compiles(f[s], EntriesOf(bs, s))
    OBVIOUS
  <2>4. f[s] = Compiled(f, bs, s)
    BY <1>1, <1>2, <2>2
  <2>5. s # {}
    BY <1>4, <2>3, <2>4 DEF Compiled
  <2> DEFINE x == Max(s)
             r == s \ {x}
  <2>6. x \in s /\ n # 0 /\ r \in SUBSET (1 .. (n - 1))
    BY <2>2, <2>5, WithoutMax
  <2>7. n - 1 \in 0 .. len /\ n - 1 \notin X
    <3>1. n - 1 \in 0 .. len /\ ~(n <= n - 1)
      BY <1>1, <2>2, <2>6
    <3> QED
      BY <2>1, <3>1
  <2>8. Compiles(f[r], EntriesOf(bs, r))
    BY <2>6, <2>7
  <2>9. f[s] = CompileBlock(f[r], bs[x])
    BY <2>4, <2>5 DEF Compiled
  <2> HIDE DEF x
  <2>10. bs[x] \in Seq(Lines)
    <3>1. x \in 1 .. n
      BY <2>6
    <3>2. x \in 1 .. len
      BY <1>1, <2>2, <3>1
    <3> QED
      BY <1>1, <3>2
  <2>11. EntriesOf(bs, s) = EntriesOf(bs, r) \union {bs[x][k] : k \in DOMAIN bs[x]}
    BY <2>6 DEF EntriesOf
  <2> HIDE DEF r, X
  <2>12. Compiles(CompileBlock(f[r], bs[x]), EntriesOf(bs, r) \union {bs[x][k] : k \in DOMAIN bs[x]})
    BY <2>8, <2>10, BlockFills
  <2> QED
    BY <2>3, <2>9, <2>11, <2>12
<1>6. len \in 0 .. len
  BY <1>1
<1>7. Compiles(f[1 .. len], EntriesOf(bs, 1 .. len))
  BY <1>5, <1>6
<1> QED
  BY <1>1, <1>3, <1>7

-----------------------------------------------------------------------------
(* The times to the next change.                                           *)

LEMMA PlacesAre ==
    /\ LastMinute \in Nat /\ Places = Calendars \X (0 .. LastMinute)
    /\ \A p \in Places : p = <<p[1], p[2]>> /\ p[1] \in Calendars /\ p[2] \in 0 .. LastMinute
<1> DEFINE Y == 0 .. LastMinute
<1>1. LastMinute \in Nat
  BY Lengths
<1>2. Places = Calendars \X Y
  BY DEF Places, Year, LastMinute
<1> HIDE DEF Y
<1>3. \A p \in Places : p = <<p[1], p[2]>> /\ p[1] \in Calendars /\ p[2] \in Y
  BY <1>2
<1> QED
  BY <1>1, <1>2, <1>3 DEF Y

(* Where no value changes, every value is the zero beyond a short year.    *)
LEMMA Unchanging ==
    ASSUME NEW sch, Good(sch), invariant(sch)
    PROVE  \A p \in Places : ValueAt(sch, p) = 0
<1> DEFINE V(cal, t) == ValueAt(sch, <<cal, t>>)
<1>1. ASSUME NEW cal \in Calendars PROVE \A t \in 0 .. LastMinute : V(cal, t) = V(cal, 0)
  <2> DEFINE X == {t \in 0 .. LastMinute : V(cal, t) # V(cal, 0)}
  <2>1. SUFFICES ASSUME X # {} PROVE FALSE
    OBVIOUS
  <2>2. X \in SUBSET Nat /\ LastMinute \in Nat
    <3>1. LastMinute \in Nat
      BY PlacesAre
    <3> QED
      BY <3>1
  <2>3. PICK t \in X : \A u \in X : t <= u
    BY <2>1, <2>2, LeastNumber
  <2>4. t \in 0 .. LastMinute /\ V(cal, t) # V(cal, 0)
    BY <2>3
  <2> HIDE DEF X, V
  <2>5. t # 0
    BY <2>4
  <2>6. t - 1 \in 0 .. LastMinute /\ ~(t <= t - 1) /\ t - 1 \in 0 .. LastMinute - 1 /\ (t - 1) + 1 = t
    BY <2>2, <2>4, <2>5
  <2>7. V(cal, t - 1) = V(cal, 0)
    BY <2>3, <2>6 DEF X
  <2>8. V(cal, t - 1) = V(cal, t)
    BY <2>6 DEF invariant, SameNext, V
  <2> QED
    BY <2>4, <2>7, <2>8
<1>2. LastMinute \in 0 .. LastMinute /\ LastMinute \in Length(FALSE) .. LastMinute
  <2> DEFINE q == Length(FALSE)
  <2>1. q \in Nat /\ q <= LastMinute /\ LastMinute \in Nat
    BY Lengths
  <2> HIDE DEF q
  <2>2. LastMinute \in 0 .. LastMinute /\ LastMinute \in q .. LastMinute
    BY <2>1
  <2> QED
    BY <2>2 DEF q
<1>3. ASSUME NEW w \in 0 .. Weekdays - 1
      PROVE  V(Calendar(w, FALSE), 0) = 0 /\ V(Calendar(w, TRUE), 0) = 0
  <2>1. Calendar(w, FALSE) \in Calendars
    BY DEF Calendar, Calendars
  <2>2. V(Calendar(w, FALSE), LastMinute) = V(Calendar(w, FALSE), 0)
    BY <1>1, <1>2, <2>1
  <2>3. V(Calendar(w, FALSE), LastMinute) = 0
    BY <1>2 DEF Good, Beyond, ValueAt
  <2>4. V(Calendar(w, TRUE), 0) = V(Calendar(w, FALSE), 0)
    BY DEF Good, Alike, ValueAt
  <2> QED
    BY <2>2, <2>3, <2>4
<1>4. \A cal \in Calendars : V(cal, 0) = 0
  <2> SUFFICES ASSUME NEW cal \in Calendars PROVE V(cal, 0) = 0
    OBVIOUS
  <2>1. /\ cal.weekday \in 0 .. Weekdays - 1
        /\ cal = Calendar(cal.weekday, TRUE) \/ cal = Calendar(cal.weekday, FALSE)
    BY DEF Calendars, Calendar
  <2> HIDE DEF V
  <2> QED
    BY <1>3, <2>1
<1>5. \A cal \in Calendars : \A t \in 0 .. LastMinute : V(cal, t) = 0
  BY <1>1, <1>4
<1> QED
  BY <1>5, PlacesAre

(* What fills the table backwards.                                         *)
Delay(g, sch, p) == IF p[2] = LastMinute \/ ~SameNext(sch, p[1], p[2]) THEN 1
                    ELSE Longer(g[<<p[1], p[2] + 1>>])
Delays(g, sch) == g = [p \in Places |-> Delay(g, sch, p)]

LEMMA DelaysExist ==
    ASSUME NEW sch
    PROVE  \E g : Delays(g, sch)
<1> DEFINE Upto(g, n) == \A p \in Places : LastMinute - n <= p[2] => g[p] = Delay(g, sch, p)
           X == {n \in 0 .. LastMinute : ~\E g : g = [p \in Places |-> g[p]] /\ Upto(g, n)}
<1>1. LastMinute \in Nat
  BY Lengths
<1>2. ASSUME X # {} PROVE FALSE
  <2>0. X \in SUBSET Nat
    BY <1>1
  <2>1. PICK n \in X : \A m \in X : n <= m
    BY <1>2, <2>0, LeastNumber
  <2>2. n \in 0 .. LastMinute /\ ~\E g : g = [p \in Places |-> g[p]] /\ Upto(g, n)
    BY <2>1
  <2>3. PICK g : n # 0 => Upto(g, n - 1)
    <3>1. CASE n = 0
      BY <3>1
    <3>2. CASE n # 0
      <4>1. n - 1 \in 0 .. LastMinute /\ ~(n <= n - 1)
        BY <1>1, <2>2, <3>2
      <4>2. n - 1 \notin X
        BY <2>1, <4>1
      <4> QED
        BY <4>1, <4>2
    <3> QED
      BY <3>1, <3>2
  <2> DEFINE f == [p \in Places |-> Delay(g, sch, p)]
  <2>4. ASSUME NEW p \in Places, LastMinute - n <= p[2] PROVE f[p] = Delay(f, sch, p)
    <3>1. f[p] = Delay(g, sch, p)
      OBVIOUS
    <3>2. CASE p[2] = LastMinute \/ ~SameNext(sch, p[1], p[2])
      BY <3>1, <3>2 DEF Delay
    <3>3. CASE ~(p[2] = LastMinute \/ ~SameNext(sch, p[1], p[2]))
      <4> DEFINE q == <<p[1], p[2] + 1>>
      <4>1. p[2] \in 0 .. LastMinute /\ p[1] \in Calendars
        BY PlacesAre
      <4>2. p[2] + 1 \in 0 .. LastMinute /\ LastMinute - (n - 1) <= p[2] + 1 /\ n # 0
        BY <1>1, <2>2, <2>4, <3>3, <4>1
      <4>3. q \in Places
        BY <4>1, <4>2, PlacesAre
      <4>4. g[q] = Delay(g, sch, q)
        BY <2>3, <4>2, <4>3
      <4>5. f[q] = Delay(g, sch, q)
        BY <4>3
      <4> QED
        BY <3>1, <3>3, <4>4, <4>5 DEF Delay
    <3> QED
      BY <3>2, <3>3
  <2>5. f = [p \in Places |-> f[p]]
    OBVIOUS
  <2>6. Upto(f, n)
    BY <2>4
  <2> HIDE DEF f
  <2> QED
    BY <2>2, <2>5, <2>6
<1>3. LastMinute \in 0 .. LastMinute
  BY <1>1
<1>4. PICK g : g = [p \in Places |-> g[p]] /\ Upto(g, LastMinute)
  BY <1>2, <1>3
<1>5. \A p \in Places : g[p] = Delay(g, sch, p)
  <2>1. \A p \in Places : LastMinute - LastMinute <= p[2]
    BY <1>1, PlacesAre
  <2> QED
    BY <1>4, <2>1
<1> HIDE DEF Upto
<1>6. g = [p \in Places |-> Delay(g, sch, p)]
  BY <1>4, <1>5
<1> QED
  BY <1>6 DEF Delays

(* A time in the table ends within its year, and no value changes before.  *)
Lasts(sch, p, n) == \A k \in 0 .. n - 1 : ValueAt(sch, <<p[1], p[2] + k>>) = ValueAt(sch, p)
Fits(sch, p, n) == n \in 1 .. MaxDelta /\ p[2] + n <= LastMinute + 1 /\ Lasts(sch, p, n)

LEMMA DelaysFit ==
    ASSUME NEW sch, NEW g, Delays(g, sch)
    PROVE  \A p \in Places : Fits(sch, p, g[p])
<1> DEFINE X == {n \in 0 .. LastMinute :
                   \E p \in Places : p[2] = LastMinute - n /\ ~Fits(sch, p, g[p])}
<1>1. LastMinute \in Nat /\ MaxDelta \in Nat \ {0}
  BY Lengths
<1>2. ASSUME X # {} PROVE FALSE
  <2>0. X \in SUBSET Nat
    BY <1>1
  <2>1. PICK n \in X : \A m \in X : n <= m
    BY <1>2, <2>0, LeastNumber
  <2>2. n \in 0 .. LastMinute
    BY <2>1
  <2>3. PICK p \in Places : p[2] = LastMinute - n /\ ~Fits(sch, p, g[p])
    BY <2>1
  <2>4. g[p] = Delay(g, sch, p)
    BY DEF Delays
  <2>5. p = <<p[1], p[2]>> /\ p[2] \in 0 .. LastMinute /\ p[1] \in Calendars
    BY PlacesAre
  <2>6. Fits(sch, p, 1)
    <3>1. 1 \in 1 .. MaxDelta /\ p[2] + 1 <= LastMinute + 1 /\ p[2] + 0 = p[2]
      BY <1>1, <2>5
    <3>2. \A k \in 0 .. 1 - 1 : k = 0
      OBVIOUS
    <3> QED
      BY <2>5, <3>1, <3>2 DEF Fits, Lasts
  <2>7. CASE p[2] = LastMinute \/ ~SameNext(sch, p[1], p[2])
    BY <2>3, <2>4, <2>6, <2>7 DEF Delay
  <2>8. CASE ~(p[2] = LastMinute \/ ~SameNext(sch, p[1], p[2]))
    <3> DEFINE q == <<p[1], p[2] + 1>>
               d == g[q]
    <3>1. p[2] + 1 \in 0 .. LastMinute /\ p[2] + 1 = LastMinute - (n - 1)
          /\ n - 1 \in 0 .. LastMinute /\ ~(n <= n - 1)
      BY <1>1, <2>2, <2>3, <2>5, <2>8
    <3>2. q \in Places /\ q[1] = p[1] /\ q[2] = p[2] + 1
      BY <2>5, <3>1, PlacesAre
    <3>3. n - 1 \notin X
      BY <2>1, <3>1
    <3>4. Fits(sch, q, d)
      BY <3>1, <3>2, <3>3
    <3>5. g[p] = Longer(d)
      BY <2>4, <2>8 DEF Delay
    <3>6. ValueAt(sch, q) = ValueAt(sch, p)
      BY <2>5, <2>8 DEF SameNext
    <3> HIDE DEF d
    <3>7. d \in 1 .. MaxDelta /\ q[2] + d <= LastMinute + 1
      BY <3>4 DEF Fits
    <3>8. CASE d = MaxDelta
      <4>1. Longer(d) = 1
        BY <1>1, <3>8 DEF Longer
      <4> QED
        BY <2>3, <2>6, <3>5, <4>1
    <3>9. CASE d # MaxDelta
      <4>1. Longer(d) = d + 1
        BY <1>1, <3>7, <3>9 DEF Longer
      <4>2. d + 1 \in 1 .. MaxDelta /\ p[2] + (d + 1) <= LastMinute + 1
        BY <1>1, <2>5, <3>2, <3>7, <3>9
      <4>3. ASSUME NEW k \in 0 .. (d + 1) - 1
            PROVE  ValueAt(sch, <<p[1], p[2] + k>>) = ValueAt(sch, p)
        <5>1. CASE k = 0
          <6>1. p[2] + k = p[2]
            BY <2>5, <5>1
          <6> QED
            BY <2>5, <6>1
        <5>2. CASE k # 0
          <6>1. k - 1 \in 0 .. d - 1 /\ q[2] + (k - 1) = p[2] + k
            BY <2>5, <3>2, <3>7, <4>3, <5>2
          <6>2. ValueAt(sch, <<q[1], q[2] + (k - 1)>>) = ValueAt(sch, q)
            BY <3>4, <6>1 DEF Fits, Lasts
          <6> QED
            BY <3>2, <3>6, <6>1, <6>2
        <5> QED
          BY <5>1, <5>2
      <4>4. Lasts(sch, p, d + 1)
        BY <4>3 DEF Lasts
      <4> QED
        BY <2>3, <3>5, <4>1, <4>2, <4>4 DEF Fits
    <3> QED
      BY <3>8, <3>9
  <2> QED
    BY <2>7, <2>8
<1>3. ASSUME NEW p \in Places PROVE Fits(sch, p, g[p])
  <2>1. p[2] \in 0 .. LastMinute
    BY PlacesAre
  <2>2. LastMinute - p[2] \in 0 .. LastMinute /\ p[2] = LastMinute - (LastMinute - p[2])
    BY <1>1, <2>1
  <2>3. LastMinute - p[2] \notin X
    BY <1>2
  <2> QED
    BY <2>2, <2>3
<1> QED
  BY <1>3

(* What a time in a table that was made says: zero that no value of the    *)
(* schedule is ever another than zero, else that this one stays so long.   *)
LEMMA TimesAreRight ==
    ASSUME NEW sch, Good(sch), NEW p \in Places
    PROVE  \/ dtnext(sch)[p] = 0 /\ \A q \in Places : ValueAt(sch, q) = 0
           \/ Fits(sch, p, dtnext(sch)[p])
<1> DEFINE g == CHOOSE g : Delays(g, sch)
<1>1. Delays(g, sch)
  BY DelaysExist
<1>2. dtnext(sch) = IF invariant(sch) THEN [q \in Places |-> 0] ELSE [q \in Places |-> g[q]]
  BY DEF dtnext, Delays, Delay
<1> HIDE DEF g
<1>3. CASE invariant(sch)
  BY <1>2, <1>3, Unchanging
<1>4. CASE ~invariant(sch)
  BY <1>1, <1>2, <1>4, DelaysFit
<1> QED
  BY <1>3, <1>4

(* A table that was accepted is that of what its definition compiles to.   *)
LEMMA TableIsCompiled ==
    ASSUME NEW s \in Schedule, Table[s].ok
    PROVE  LET sch == schedule_compile(Definitions[s].blocks)
           IN  /\ sch.ok /\ Compiles(sch, Entries(s))
               /\ Table[s].index = sch.index /\ Table[s].data = sch.data /\ Table[s].dtnext = dtnext(sch)
<1> DEFINE sch == schedule_compile(Definitions[s].blocks)
           fin == Table[s]
           flags == Definitions[s].flags
<1>1. fin = IF sch.ok THEN [sch EXCEPT !.dtnext = dtnext(sch), !.ok = Validated(sch, flags)] ELSE sch
  BY DEF Table, Created, Finished
<1>2. Compiles(sch, Entries(s))
  <2>1. Entries(s) = EntriesOf(Definitions[s].blocks, DOMAIN Definitions[s].blocks)
    BY DEF Entries, EntriesOf
  <2> QED
    BY <2>1, DefinitionsAssumption, CompileIsGood
<1> HIDE DEF sch, fin, flags
<1>3. DOMAIN sch = Fields
  BY <1>2 DEF Compiles, Good
<1>4. fin.ok
  BY DEF fin
<1>5. sch.ok /\ fin = [sch EXCEPT !.dtnext = dtnext(sch), !.ok = Validated(sch, flags)]
  BY <1>1, <1>4
<1>6. fin.index = sch.index /\ fin.data = sch.data /\ fin.dtnext = dtnext(sch)
  BY <1>3, <1>5 DEF Fields
<1> QED
  BY <1>2, <1>5, <1>6 DEF sch, fin

LEMMA TablesAreRight ==
    ASSUME NEW s \in Schedule, Table[s].ok
    PROVE  \A p \in Places :
             /\ ValueAt(Table[s], p) \in Int
             /\ \/ Table[s].dtnext[p] = 0 /\ \A q \in Places : ValueAt(Table[s], q) = 0
                \/ Fits(Table[s], p, Table[s].dtnext[p])
<1> DEFINE sch == schedule_compile(Definitions[s].blocks)
           fin == Table[s]
<1>1. Good(sch) /\ fin.index = sch.index /\ fin.data = sch.data /\ fin.dtnext = dtnext(sch)
  BY TableIsCompiled DEF Compiles
<1> HIDE DEF sch, fin
<1>2. \A p : ValueAt(fin, p) = ValueAt(sch, p)
  BY <1>1 DEF ValueAt
<1>3. \A p, n : Fits(fin, p, n) <=> Fits(sch, p, n)
  BY <1>2 DEF Fits, Lasts
<1>4. \A p \in Places : ValueAt(sch, p) \in Int
  BY <1>1 DEF Good, ValueAt
<1>5. \A p \in Places :
             /\ ValueAt(fin, p) \in Int
             /\ \/ fin.dtnext[p] = 0 /\ \A q \in Places : ValueAt(fin, q) = 0
                \/ Fits(fin, p, fin.dtnext[p])
  BY <1>1, <1>2, <1>3, <1>4, TimesAreRight
<1> QED
  BY <1>5 DEF fin

-----------------------------------------------------------------------------
(* What an entry matches is what is written.                               *)

LEMMA MatcherIsMeets ==
    ASSUME NEW pattern \in Pattern, NEW base \in Int, NEW max \in Int, InRange(pattern, base, max),
           NEW x \in base .. max
    PROVE  x \in schedule_matcher(pattern, base, max) <=> Meets(x, pattern)
<1> SUFFICES ASSUME NEW k \in DOMAIN pattern
             PROVE  x \in Filled(pattern[k], base, max) <=> Within(x, pattern[k])
  BY DEF schedule_matcher, Meets
<1>1. pattern[k] \in Int \X Int
  BY DEF Pattern
<1>2. pattern[k][1] \in Int /\ pattern[k][2] \in Int
  BY <1>1
<1>3. pattern[k][1] <= pattern[k][2] => pattern[k][1] <= max /\ base <= pattern[k][2]
  BY DEF InRange
<1> DEFINE a == pattern[k][1]
           b == pattern[k][2]
<1>4. x \in Filled(pattern[k], base, max) <=>
        LET start_ == IF a < base THEN base ELSE a
            stop_  == IF b > max THEN max ELSE b
        IN  IF start_ > stop_ THEN x \in start_ .. max \/ x \in base .. stop_ ELSE x \in start_ .. stop_
  BY DEF Filled
<1>5. Within(x, pattern[k]) <=> IF a <= b THEN a <= x /\ x <= b ELSE x >= a \/ x <= b
  BY DEF Within
<1> HIDE DEF a, b
<1> QED
  BY <1>2, <1>3, <1>4, <1>5 DEF a, b

(* Quotient and remainder.                                                 *)
LEMMA Remainders ==
    ASSUME NEW d \in Nat \ {0}, NEW x \in Nat
    PROVE  x \div d \in Nat /\ x % d \in 0 .. d - 1 /\ x = (x \div d) * d + (x % d)
OBVIOUS

LEMMA Quotients ==
    ASSUME NEW d \in Nat \ {0}, NEW k \in Nat, NEW r \in 0 .. d - 1
    PROVE  (k * d + r) \div d = k /\ (k * d + r) % d = r
<1> DEFINE x == k * d + r
           q == x \div d
           s == x % d
<1>1. x \in Nat
  OBVIOUS
<1>2. q = k
  <2>1. r \in Nat /\ r \div d = 0
    OBVIOUS
  <2> QED
    BY <2>1, WholeDays
<1> HIDE DEF x
<1>3. s \in 0 .. d - 1 /\ x = q * d + s
  BY <1>1, Remainders
<1> HIDE DEF q, s
<1>4. s = r
  <2>1. k * d \in Nat /\ x = k * d + r /\ x = k * d + s
    BY <1>2, <1>3 DEF x
  <2> DEFINE z == k * d
  <2> HIDE DEF z
  <2> QED
    BY <1>3, <2>1 DEF z
<1> QED
  BY <1>2, <1>4 DEF q, s, x

LEMMA ShiftedRemainder ==
    ASSUME NEW d \in Nat \ {0}, NEW k \in Nat, NEW r \in Nat
    PROVE  (k * d + r) % d = r % d
<1> DEFINE q == r \div d
           s == r % d
<1>1. q \in Nat /\ s \in 0 .. d - 1 /\ r = q * d + s
  BY Remainders
<1> HIDE DEF q, s
<1>2. k * d + r = (k + q) * d + s
  BY <1>1
<1>3. k + q \in Nat
  BY <1>1
<1>4. ((k + q) * d + s) % d = s
  BY <1>1, <1>3, Quotients
<1> QED
  BY <1>2, <1>4 DEF s

LEMMA RemainderOfSum ==
    ASSUME NEW d \in Nat \ {0}, NEW a \in Nat, NEW b \in Nat
    PROVE  ((a % d) + b) % d = (a + b) % d
<1> DEFINE q == a \div d
           s == a % d
<1>1. q \in Nat /\ s \in 0 .. d - 1 /\ a = q * d + s
  BY Remainders
<1> HIDE DEF q, s
<1>2. a + b = q * d + (s + b) /\ s + b \in Nat
  BY <1>1
<1>3. (q * d + (s + b)) % d = (s + b) % d
  BY <1>1, <1>2, ShiftedRemainder
<1> QED
  BY <1>2, <1>3 DEF s

LEMMA SameParts ==
    ASSUME NEW d \in Nat, NEW h \in 0 .. Hours - 1, NEW m \in 0 .. Minutes - 1,
           NEW e \in Nat, NEW i \in 0 .. Hours - 1, NEW n \in 0 .. Minutes - 1,
           d * Day + h * Minutes + m = e * Day + i * Minutes + n
    PROVE  e = d /\ i = h /\ n = m
<1> DEFINE D == Day
           M == Minutes
           x == h * M + m
           y == i * M + n
<1>1. D = Hours * M /\ D \in Nat \ {0} /\ M \in Nat \ {0} /\ Hours \in Nat \ {0}
  BY Lengths DEF Day
<1>2. ASSUME NEW a \in 0 .. Hours - 1, NEW b \in 0 .. Minutes - 1
      PROVE  a * M + b \in 0 .. D - 1
  <2>1. a * M <= (Hours - 1) * M /\ (Hours - 1) * M = D - M /\ a * M \in Nat
    BY <1>1
  <2> HIDE DEF D
  <2> QED
    BY <1>1, <2>1
<1>3. x \in 0 .. D - 1 /\ y \in 0 .. D - 1
  BY <1>2
<1>4. d * D + x = e * D + y
  <2>1. d * D \in Nat /\ e * D \in Nat /\ h * M \in Nat /\ i * M \in Nat
    BY <1>1
  <2> DEFINE a == d * D
             b == e * D
             c == h * M
             f == i * M
  <2>2. a + c + m = b + f + n
    OBVIOUS
  <2> HIDE DEF a, b, c, f
  <2>3. a + (c + m) = b + (f + n)
    BY <2>1, <2>2 DEF a, b, c, f
  <2> QED
    BY <2>3 DEF a, b, c, f
<1> HIDE DEF D, x, y
<1>5. d = e /\ x = y
  <2>1. (d * D + x) \div D = d /\ (d * D + x) % D = x
    BY <1>1, <1>3, Quotients
  <2>2. (e * D + y) \div D = e /\ (e * D + y) % D = y
    BY <1>1, <1>3, Quotients
  <2> QED
    BY <1>4, <2>1, <2>2
<1>6. h \in Nat /\ i \in Nat
  BY <1>1
<1>7. h = i /\ m = n
  <2>1. (h * M + m) \div M = h /\ (h * M + m) % M = m
    BY <1>1, <1>6, Quotients
  <2>2. (i * M + n) \div M = i /\ (i * M + n) % M = n
    BY <1>1, <1>6, Quotients
  <2> QED
    BY <1>5, <2>1, <2>2 DEF x, y
<1> QED
  BY <1>5, <1>7

(* The day, hour and minute of a time, in its year.                        *)
LEMMA PartsOfTime ==
    ASSUME NEW t \in Times
    PROVE  LET first == YearStart[YearOf(t)]
               d     == (t - first) \div Day
               h     == (t % Day) \div Minutes
               m     == t % Minutes
           IN  /\ t - first = d * Day + h * Minutes + m
               /\ d \in 0 .. Days(YearOf(t) \in LeapYears) - 1
               /\ h \in 0 .. Hours - 1 /\ m \in 0 .. Minutes - 1
               /\ (Place(t)[1].weekday + d) % Weekdays = (FirstWeekday + t \div Day) % Weekdays
<1> DEFINE v == YearOf(t)
           first == YearStart[v]
           n == Days(v \in LeapYears)
           D == Day
           M == Minutes
           H == Hours
           W == Weekdays
           r == t - first
           d == r \div D
           q == r % D
           h == q \div M
           m == q % M
<1>1. D = H * M /\ D \in Nat \ {0} /\ M \in Nat \ {0} /\ H \in Nat \ {0} /\ W \in Nat \ {0}
  BY Lengths DEF Day
<1>2. PICK k \in Nat : first = k * D
  <2>1. v \in 0 .. LastYear + 1
    <3>1. v \in 0 .. LastYear /\ LastYear \in Nat
      BY YearOfTime, YearsAssumption
    <3> HIDE DEF v
    <3> QED
      BY <3>1
  <2> QED
    BY <2>1, YearsAreDays
<1>3. t \in Nat /\ first \in Nat /\ first <= t /\ t < first + YearLength(v) /\ YearLength(v) = n * D
      /\ n \in Nat \ {0}
  <2>1. v \in 0 .. LastYear /\ t \in Nat /\ first \in Nat /\ first <= t /\ t < YearStart[v + 1]
    BY YearOfTime
  <2>2. YearStart[v + 1] = first + YearLength(v)
    BY <2>1, YearStarts
  <2>3. n \in Nat \ {0}
    <3>1. (v \in LeapYears) = TRUE \/ (v \in LeapYears) = FALSE
      OBVIOUS
    <3>2. Days(TRUE) \in Nat \ {0} /\ Days(FALSE) \in Nat \ {0}
      BY Lengths
    <3> QED
      BY <3>1, <3>2
  <2> QED
    BY <2>1, <2>2, <2>3 DEF YearLength, Length
<1> HIDE DEF v, first, n, D, M, H, W
<1>4. r \in Nat /\ r < n * D /\ t = k * D + r
  <2>1. n * D \in Nat /\ k * D \in Nat
    BY <1>1, <1>3
  <2> DEFINE a == n * D
             b == k * D
  <2>2. a \in Nat /\ b \in Nat /\ first = b /\ t < first + a
    BY <1>2, <1>3, <2>1
  <2> HIDE DEF a, b
  <2>3. r \in Nat /\ r < a /\ t = b + r
    BY <1>3, <2>2
  <2> QED
    BY <2>3 DEF a, b
<1> HIDE DEF r
<1>5. d \in Nat /\ q \in 0 .. D - 1 /\ r = d * D + q
  BY <1>1, <1>4, Remainders
<1> HIDE DEF d, q
<1>6. h \in Nat /\ m \in 0 .. M - 1 /\ q = h * M + m
  <2>1. q \in Nat
    BY <1>1, <1>5
  <2> QED
    BY <1>1, <2>1, Remainders
<1> HIDE DEF h, m
<1>7. h \in 0 .. H - 1
  <2>1. h * M < H * M
    BY <1>1, <1>5, <1>6
  <2>2. h >= H => h * M >= H * M
    BY <1>1, <1>6
  <2> QED
    BY <1>1, <1>6, <2>1, <2>2
<1>8. d \in 0 .. n - 1
  <2>1. d * D < n * D
    <3>1. d * D \in Nat /\ n * D \in Nat
      BY <1>1, <1>3, <1>5
    <3> DEFINE a == n * D
               b == d * D
    <3>2. a \in Nat /\ b \in Nat /\ r = b + q /\ r < a
      BY <1>4, <1>5, <3>1
    <3> HIDE DEF a, b
    <3>3. b < a
      BY <1>1, <1>5, <3>2
    <3> QED
      BY <3>3 DEF a, b
  <2>2. d >= n => d * D >= n * D
    BY <1>1, <1>3, <1>5
  <2>3. d * D \in Nat /\ n * D \in Nat
    BY <1>1, <1>3, <1>5
  <2>4. ~(d >= n)
    <3> DEFINE a == n * D
               b == d * D
    <3>1. a \in Nat /\ b \in Nat /\ b < a /\ (d >= n => b >= a)
      BY <2>1, <2>2, <2>3
    <3> HIDE DEF a, b
    <3> QED
      BY <3>1
  <2> QED
    BY <1>3, <1>5, <2>4
<1>9. t % D = q /\ t \div D = k + d
  <2>1. t = (k + d) * D + q /\ k + d \in Nat
    BY <1>1, <1>4, <1>5
  <2> QED
    BY <1>1, <1>5, <2>1, Quotients
<1>10. t % M = m
  <2>1. t = ((k + d) * H + h) * M + m
    <3>1. (k + d) * D = ((k + d) * H) * M
      BY <1>1, <1>5
    <3>2. t = (k + d) * D + h * M + m
      BY <1>1, <1>4, <1>5, <1>6
    <3>3. ((k + d) * H + h) * M = ((k + d) * H) * M + h * M
      BY <1>1, <1>5, <1>6
    <3> DEFINE a == ((k + d) * H) * M
               b == h * M
    <3>4. a \in Nat /\ b \in Nat
      BY <1>1, <1>5, <1>6
    <3> QED
      BY <1>6, <3>1, <3>2, <3>3, <3>4
  <2>2. (k + d) * H + h \in Nat
    BY <1>1, <1>5, <1>6
  <2> QED
    BY <1>1, <1>6, <2>1, <2>2, Quotients
<1>11. (Place(t)[1].weekday + d) % W = (FirstWeekday + (k + d)) % W
  <2>1. first \div D = k
    <3>1. first = k * D + 0 /\ 0 \in 0 .. D - 1
      BY <1>1, <1>2
    <3> QED
      BY <1>1, <3>1, Quotients
  <2>2. Place(t)[1].weekday = (FirstWeekday + k) % W
    BY <2>1 DEF Place, W, D, first, v
  <2>3. FirstWeekday + k \in Nat /\ (FirstWeekday + k) + d = FirstWeekday + (k + d)
    BY <1>5, YearsAssumption
  <2> QED
    BY <1>1, <1>5, <2>2, <2>3, RemainderOfSum
<1>12. r = d * D + h * M + m
  BY <1>1, <1>5, <1>6
<1> QED
  BY <1>6, <1>7, <1>8, <1>9, <1>10, <1>11, <1>12 DEF v, first, n, D, M, H, W, r, d, q, h, m

LEMMA MatchedIsCovered ==
    ASSUME NEW e \in Lines, Plain(e), NEW t \in Times
    PROVE  Place(t) \in Matched(e) <=> Covers(e, t)
<1> DEFINE leap == YearOf(t) \in LeapYears
           cal == Place(t)[1]
           first == YearStart[YearOf(t)]
           d == (t - first) \div Day
           h == (t % Day) \div Minutes
           m == t % Minutes
           w == (FirstWeekday + t \div Day) % Weekdays
           month == MonthOf(leap, d)
           day == d - Before(leap, month) + 1
<1>1. Place(t) = <<cal, t - first>> /\ cal.leap = leap /\ cal \in Calendars
  <2>1. Place(t) \in Places
    BY PlaceIsPlace
  <2>2. cal \in Calendars
    BY <2>1, PlacesAre
  <2> QED
    BY <2>2 DEF Place
<1>2. /\ t - first = d * Day + h * Minutes + m
      /\ d \in 0 .. Days(leap) - 1
      /\ h \in 0 .. Hours - 1 /\ m \in 0 .. Minutes - 1
      /\ (cal.weekday + d) % Weekdays = w
  BY PartsOfTime
<1>3. leap \in BOOLEAN /\ month + 1 \in 1 .. Len(MonthDays[TRUE]) /\ day \in 1 .. MonthLength
  <2>1. \A b \in BOOLEAN : \A x \in 0 .. Days(b) - 1 :
          MonthOf(b, x) + 1 \in 1 .. Len(MonthDays[TRUE]) /\ x - Before(b, MonthOf(b, x)) + 1 \in 1 .. MonthLength
    BY MonthsAssumption
  <2>2. leap \in BOOLEAN
    OBVIOUS
  <2> HIDE DEF leap, d
  <2> QED
    BY <1>2, <2>1, <2>2
<1>4. w \in 0 .. Weekdays + 1
  <2>1. FirstWeekday + t \div Day \in Nat /\ Weekdays \in Nat \ {0} /\ Day \in Nat \ {0} /\ t \in Nat
    BY Lengths, YearOfTime, YearsAssumption
  <2>2. w \in 0 .. Weekdays - 1
    BY <2>1, Remainders
  <2> HIDE DEF w
  <2> QED
    BY <2>1, <2>2
<1>5. Covers(e, t) <=> /\ Meets(m, e.minute) /\ Meets(h, e.hour)
                       /\ Meets(day, e.day) /\ Meets(month + 1, e.month) /\ Meets(w, e.weekday)
  BY DEF Covers
<1>6. /\ e.minute \in Pattern /\ e.hour \in Pattern /\ e.day \in Pattern /\ e.month \in Pattern
      /\ e.weekday \in Pattern
      /\ Minutes - 1 \in Int /\ Hours - 1 \in Int /\ MonthLength \in Int /\ Len(MonthDays[TRUE]) \in Int
      /\ Weekdays + 1 \in Int
  BY Lengths, MonthsAssumption DEF Lines
<1> HIDE DEF leap, cal, first, d, h, m, w, month, day
<1>7. /\ Meets(m, e.minute) <=> m \in schedule_matcher(e.minute, 0, Minutes - 1)
      /\ Meets(h, e.hour) <=> h \in schedule_matcher(e.hour, 0, Hours - 1)
      /\ Meets(day, e.day) <=> day \in schedule_matcher(e.day, 1, MonthLength)
      /\ Meets(month + 1, e.month) <=> month + 1 \in schedule_matcher(e.month, 1, Len(MonthDays[TRUE]))
      /\ Meets(w, e.weekday) <=> w \in schedule_matcher(e.weekday, 0, Weekdays + 1)
  <2>1. Meets(m, e.minute) <=> m \in schedule_matcher(e.minute, 0, Minutes - 1)
    BY <1>2, <1>6, MatcherIsMeets DEF Plain
  <2>2. Meets(h, e.hour) <=> h \in schedule_matcher(e.hour, 0, Hours - 1)
    BY <1>2, <1>6, MatcherIsMeets DEF Plain
  <2>3. Meets(day, e.day) <=> day \in schedule_matcher(e.day, 1, MonthLength)
    BY <1>3, <1>6, MatcherIsMeets DEF Plain
  <2> DEFINE x == month + 1
             months == Len(MonthDays[TRUE])
  <2>4. x \in 1 .. months
    BY <1>3
  <2>5. months \in Int /\ e.month \in Pattern
    BY <1>6
  <2>7. InRange(e.month, 1, months)
    BY DEF Plain
  <2> HIDE DEF x, months
  <2>8. Meets(x, e.month) <=> x \in schedule_matcher(e.month, 1, months)
    BY <2>4, <2>5, <2>7, MatcherIsMeets
  <2>6. Meets(w, e.weekday) <=> w \in schedule_matcher(e.weekday, 0, Weekdays + 1)
    BY <1>4, <1>6, MatcherIsMeets DEF Plain
  <2> QED
    BY <2>1, <2>2, <2>3, <2>6, <2>8 DEF x, months
<1>8. Hits(e, cal, d, h, m) <=> Covers(e, t)
  BY <1>1, <1>2, <1>5, <1>7 DEF Hits, month, day
<1>9. ASSUME NEW d2, NEW h2, NEW m2, Hits(e, cal, d2, h2, m2), t - first = d2 * Day + h2 * Minutes + m2
      PROVE  d2 = d /\ h2 = h /\ m2 = m
  <2>1. h2 \in 0 .. Hours - 1 /\ m2 \in 0 .. Minutes - 1 /\ d2 \in 0 .. Days(cal.leap) - 1
    BY <1>6, <1>9, MatcherInRange DEF Hits
  <2>2. d2 \in Nat /\ d \in Nat
    BY <1>1, <1>2, <2>1
  <2> QED
    BY <1>2, <1>9, <2>1, <2>2, SameParts
<1> QED
  BY <1>1, <1>2, <1>8, <1>9, MatchedIs

-----------------------------------------------------------------------------
(* What a schedule says at a minute is what is written of it.              *)
LEMMA SaysWhatIsWritten ==
    ASSUME NEW s \in Schedule, Table[s].ok, \A e \in Entries(s) : Plain(e), NEW t \in Times, Dated(t)
    PROVE  LET says == Writing[s][t] IN
            /\ schedule_value(s, t) \in says \union (IF says = {} THEN {0} ELSE {})
            /\ Cardinality(says \ {0}) <= 1
            /\ schedule_value(s, t) = 0 => says \subseteq {0}
<1> DEFINE says == Writing[s][t]
           sch == schedule_compile(Definitions[s].blocks)
           p == Place(t)
           v == schedule_value(s, t)
<1>1. says = {e.value : e \in {x \in Entries(s) : Covers(x, t)}}
  BY DEF Writing, Written, Times
<1>2. \A e \in Entries(s) : e \in Lines
  <2> SUFFICES ASSUME NEW b \in DOMAIN Definitions[s].blocks, NEW k \in DOMAIN Definitions[s].blocks[b]
               PROVE  Definitions[s].blocks[b][k] \in Lines
    BY DEF Entries
  <2> DEFINE bs == Definitions[s].blocks
  <2>1. bs \in Seq(Seq(Lines))
    BY DefinitionsAssumption
  <2> HIDE DEF bs
  <2>2. bs[b] \in Seq(Lines)
    BY <2>1 DEF bs
  <2> QED
    BY <2>2 DEF bs
<1>3. says = Said(Entries(s), p)
  <2>1. \A e \in Entries(s) : Covers(e, t) <=> p \in Matched(e)
    BY <1>2, MatchedIsCovered
  <2> HIDE DEF p
  <2> QED
    BY <1>1, <2>1 DEF Said
<1>4. p \in Places /\ v = ValueAt(Table[s], p)
  BY IndexIsPlace DEF schedule_value
<1>5. sch.ok /\ Compiles(sch, Entries(s)) /\ v = ValueAt(sch, p)
  <2>1. /\ sch.ok /\ Compiles(sch, Entries(s)) /\ Table[s].index = sch.index /\ Table[s].data = sch.data
    BY TableIsCompiled
  <2> HIDE DEF sch, v, p
  <2> QED
    BY <1>4, <2>1 DEF ValueAt
<1> HIDE DEF says, sch, p, v
<1>6. /\ sch.index[p] = 0 => says \subseteq {0}
      /\ sch.index[p] # 0 => v \in says /\ says \subseteq {0, v}
  BY <1>3, <1>4, <1>5 DEF Compiles, Means
<1>7. sch.index[p] = 0 => v = 0
  BY <1>5 DEF ValueAt, Compiles, Good
<1>8. says \subseteq {0, v} /\ (v \in says \/ (v = 0 /\ says \subseteq {0}))
  BY <1>6, <1>7
<1>9. Cardinality(says \ {0}) <= 1
  <2>1. says \ {0} \subseteq {v}
    BY <1>8
  <2>2. says \ {0} = {} \/ says \ {0} = {v}
    BY <2>1
  <2>3. Cardinality({}) = 0 /\ Cardinality({v}) = 1
    BY FS_EmptySet, FS_Singleton
  <2> QED
    BY <2>2, <2>3
<1>10. v \in says \union (IF says = {} THEN {0} ELSE {})
  BY <1>8
<1>11. v = 0 => says \subseteq {0}
  BY <1>8
<1> QED
  BY <1>9, <1>10, <1>11 DEF says, v

(* A schedule that is created says at every minute what its definition     *)
(* says, and one that says two things is not accepted, for any definition  *)
(* whose ranges are not outside of what they are of.                       *)
THEOREM TablesAreDefinitions == Spec => []TableIsDefinition
<1>1. TableIsDefinition
  BY SaysWhatIsWritten DEF TableIsDefinition, Times
<1> QED
  BY <1>1, PTL

-----------------------------------------------------------------------------
(* What a look-up at a time finds.                                         *)

(* A time whose year is mistaken is the first instant of its year.         *)
LEMMA YearLasts ==
    ASSUME NEW l \in Times, NEW t \in Times, l <= t, YearStart[YearOf(t)] <= l
    PROVE  YearOf(l) = YearOf(t) /\ (~Dated(l) => l = YearStart[YearOf(t)])
<1>1. l \in Nat /\ t \in Nat
  BY YearOfTime
<1>2. YearOf(l) \in 0 .. LastYear /\ YearOf(t) \in 0 .. LastYear /\ LastYear \in Nat
  BY YearOfTime, YearsAssumption
<1>3. YearOf(t) <= YearOf(l)
  BY <1>2, YearOfTime
<1>4. l < YearStart[YearOf(t) + 1]
  BY <1>1, YearOfTime
<1>5. YearOf(l) <= YearOf(t)
  BY <1>2, <1>4, YearOfTime
<1>6. YearOf(l) = YearOf(t)
  BY <1>2, <1>3, <1>5
<1> QED
  BY <1>6, YearFound

LEMMA SaysIsPlace == \A s, t : Says(s, t) = ValueAt(Table[s], Place(t))
BY DEF Says, Place

(* Within the year of a time that is not mistaken, a look-up finds the     *)
(* value that stays until the time it answers.                             *)
LEMMA LookUp ==
    ASSUME NEW s \in Schedule, Table[s].ok, NEW l \in Times
    PROVE  /\ schedule_value(s, l) \in Int
           /\ schedule_dtnext(s, l) \in 0 .. MaxDelta
           /\ Dated(l) => schedule_value(s, l) = Says(s, l)
           /\ schedule_dtnext(s, l) = 0 => \A t \in Times : Says(s, t) = schedule_value(s, l)
           /\ \A t \in Times :
                Dated(l) /\ YearOf(t) = YearOf(l) /\ l <= t /\ t < l + schedule_dtnext(s, l)
                  => Says(s, t) = schedule_value(s, l)
<1> DEFINE sch == Table[s]
           p == schedule_index(l)
           d == sch.dtnext[p]
<1>1. p \in Places /\ (Dated(l) => p = Place(l))
  BY IndexIsPlace
<1>2. schedule_value(s, l) = ValueAt(sch, p) /\ schedule_dtnext(s, l) = d
  BY DEF schedule_value, schedule_dtnext
<1>3. /\ ValueAt(sch, p) \in Int
      /\ \/ d = 0 /\ \A q \in Places : ValueAt(sch, q) = 0
         \/ Fits(sch, p, d)
  BY <1>1, TablesAreRight
<1>4. MaxDelta \in Nat \ {0}
  BY Lengths
<1> HIDE DEF sch, p, d
<1>5. d \in 0 .. MaxDelta /\ (d = 0 => \A q \in Places : ValueAt(sch, q) = 0)
  BY <1>3, <1>4 DEF Fits
<1>6. d = 0 => \A t \in Times : Says(s, t) = ValueAt(sch, p)
  BY <1>1, <1>5, SaysIsPlace, PlaceIsPlace DEF sch
<1>7. Dated(l) => ValueAt(sch, p) = Says(s, l)
  BY <1>1, SaysIsPlace DEF sch
<1>8. ASSUME NEW t \in Times, Dated(l), YearOf(t) = YearOf(l), l <= t, t < l + d
      PROVE  Says(s, t) = ValueAt(sch, p)
  <2>1. p = Place(l)
    BY <1>1, <1>8
  <2>2. l \in Nat /\ t \in Nat /\ YearStart[YearOf(l)] \in Nat
    BY YearOfTime
  <2>3. t - l \in 0 .. d - 1
    BY <1>5, <1>8, <2>2
  <2>4. d # 0
    BY <1>8, <2>2, <2>3
  <2>5. Fits(sch, p, d)
    BY <1>3, <1>6, <1>8, <2>4
  <2>6. ValueAt(sch, <<p[1], p[2] + (t - l)>>) = ValueAt(sch, p)
    BY <2>3, <2>5 DEF Fits, Lasts
  <2>7. Place(t) = <<p[1], p[2] + (t - l)>>
    <3>1. p[2] = l - YearStart[YearOf(l)] /\ Place(t) = <<p[1], t - YearStart[YearOf(l)]>>
      BY <1>8, <2>1 DEF Place
    <3>2. (l - YearStart[YearOf(l)]) + (t - l) = t - YearStart[YearOf(l)]
      BY <2>2
    <3> QED
      BY <3>1, <3>2
  <2> QED
    BY <2>6, <2>7, SaysIsPlace DEF sch
<1> QED
  BY <1>2, <1>3, <1>5, <1>6, <1>7, <1>8

(* What a look-up found is what the table says until the time it answered, *)
(* at every time of the run that is settled.                               *)
LEMMA Stays ==
    ASSUME NEW s \in Schedule, Table[s].ok, start \in Times,
           NEW l \in Times, NEW t \in Times, start <= l, l <= t,
           schedule_dtnext(s, l) = 0 \/ t < l + schedule_dtnext(s, l), Settled(t)
    PROVE  Says(s, t) = schedule_value(s, l)
<1> DEFINE d == schedule_dtnext(s, l)
<1>1. d \in 0 .. MaxDelta /\ MaxDelta \in Nat
  BY LookUp, Lengths
<1>2. l \in Nat /\ t \in Nat /\ start \in Nat /\ YearStart[YearOf(t)] \in Nat
  BY YearOfTime
<1>3. CASE d = 0
  BY <1>3, LookUp
<1>4. CASE d # 0
  <2>1. t < l + d
    BY <1>4
  <2> HIDE DEF d
  <2>2. CASE YearStart[YearOf(t)] + MaxDelta <= t
    <3>1. YearStart[YearOf(t)] < l
      BY <1>1, <1>2, <2>1, <2>2
    <3>2. YearOf(l) = YearOf(t) /\ Dated(l)
      BY <1>2, <3>1, YearLasts
    <3> QED
      BY <2>1, <3>2, LookUp DEF d
  <2>3. CASE SameYear(start, t)
    <3>1. Dated(start) /\ YearOf(start) = YearOf(t)
      BY <2>3 DEF SameYear
    <3>2. YearStart[YearOf(t)] <= start
      BY <3>1, YearOfTime
    <3>3. YearStart[YearOf(t)] <= l
      BY <1>2, <3>2
    <3>4. YearOf(l) = YearOf(t) /\ (~Dated(l) => l = YearStart[YearOf(t)])
      BY <3>3, YearLasts
    <3>5. ~Dated(l) => l = start
      BY <1>2, <3>2, <3>4
    <3>6. Dated(l)
      BY <3>1, <3>5
    <3> QED
      BY <2>1, <3>4, <3>6, LookUp DEF d
  <2> QED
    BY <2>2, <2>3 DEF Settled
<1> QED
  BY <1>3, <1>4
-----------------------------------------------------------------------------
(* The run.                                                                *)

Ready == loader = "run" => \A s \in Listed : proc[s] = "done" /\ Table[s].ok
Clock ==
    /\ start \in Times /\ now \in Times \union {Never} /\ (now # Never => loader = "run" /\ start <= now)
    /\ since \in [Schedule -> Nat]
    /\ now = Never => \A s \in Schedule : next_t[s] = Never /\ since[s] = 0
Found(s) ==
    /\ synced[s] \in start .. now /\ since[s] <= now
    /\ value[s] = schedule_value(s, synced[s])
    /\ next_t[s] = IF schedule_dtnext(s, synced[s]) = 0 THEN Never
                   ELSE synced[s] + schedule_dtnext(s, synced[s])
    /\ next_t[s] # Never => now < next_t[s]
Stood(s) == \A t \in start .. now : since[s] <= t /\ Settled(t) => Says(s, t) = value[s]
FInv == Ready /\ Clock /\ (now # Never => \A s \in Listed : Found(s) /\ Stood(s))

LEMMA InitFInv == Init => FInv
<1> SUFFICES ASSUME Init PROVE FInv
  OBVIOUS
<1>1. start \in Times
  BY YearsAssumption DEF Init, Times
<1>2. Ready /\ now = Never
  BY DEF Init, Ready
<1>3. Clock
  BY <1>1, <1>2 DEF Init, Clock
<1> QED
  BY <1>2, <1>3 DEF FInv

LEMMA CreatingFInv ==
    ASSUME FInv, Creation \/ Spurious \/ Loading \/ Run
    PROVE  FInv'
<1>1. UNCHANGED schedule /\ UNCHANGED Settings
  BY DEF Creation, Proceed, Enter, Sleep, Compile, Finish, Spurious, Loading, schedule_create,
         Inlined, schedule_createwait, Run
<1>2. loader # "run"
  <2> SUFFICES ASSUME loader = "run" PROVE FALSE
    OBVIOUS
  <2>1. \A s \in Schedule : proc[s] \in {"none", "done"}
    BY DEF FInv, Ready, Listed
  <2> QED
    BY <2>1 DEF Creation, Proceed, Enter, Sleep, Compile, Finish, Spurious, Loading, schedule_create,
         Inlined, schedule_createwait, Run
<1>3. now = Never /\ now' = Never
  BY <1>1, <1>2 DEF FInv, Clock, schedule
<1>4. Clock'
  BY <1>1, <1>3 DEF FInv, Clock, schedule, Settings
<1>5. Ready'
  <2>1. CASE Run
    BY <2>1 DEF Run, Ready, Listed
  <2>2. CASE ~Run
    <3>1. loader' # "run"
      BY <1>2, <2>2 DEF Creation, Proceed, Enter, Sleep, Compile, Finish, Spurious, Loading,
           schedule_create, Inlined, schedule_createwait, Woken
    <3> QED
      BY <3>1 DEF Ready
  <2> QED
    BY <2>1, <2>2
<1> QED
  BY <1>3, <1>4, <1>5 DEF FInv

LEMMA ClockAdvances ==
    ASSUME FInv, Advance
    PROVE  /\ now' \in Times /\ start' = start /\ start \in Times /\ start <= now'
           /\ now # Never => now <= now'
           /\ now = Never => now' = start
           /\ \A s \in Schedule : next_t[s] = Never \/ now' <= next_t[s]
           /\ Sync(now') /\ loader = "run" /\ Listed' = Listed
<1>1. PICK t \in (IF now = Never THEN {start} ELSE now .. Horizon - 1) :
        (\A s \in Schedule : next_t[s] = Never \/ t <= next_t[s]) /\ Sync(t)
  BY DEF Advance
<1>2. now' = t /\ UNCHANGED create /\ UNCHANGED Settings
  BY <1>1 DEF Sync
<1>3. start \in Times /\ now \in Times \union {Never} /\ (now # Never => start <= now)
  BY DEF FInv, Clock
<1>4. Horizon \in Nat
  BY YearsAreNats, YearsAssumption DEF Horizon
<1>5. t \in Times /\ start <= t /\ (now # Never => now <= t) /\ (now = Never => t = start)
  <2>1. CASE now = Never
    <3>1. t = start /\ start \in Nat
      BY <1>1, <1>3, <2>1, YearOfTime
    <3> QED
      BY <1>3, <2>1, <3>1
  <2>2. CASE now # Never
    <3>1. t \in now .. Horizon - 1 /\ now \in 0 .. Horizon - 1 /\ start \in 0 .. Horizon - 1 /\ start <= now
      BY <1>1, <1>3, <2>2 DEF Times
    <3>2. t \in 0 .. Horizon - 1 /\ start <= t /\ now <= t
      BY <1>4, <3>1
    <3> QED
      BY <2>2, <3>2 DEF Times
  <2> QED
    BY <2>1, <2>2
<1> QED
  BY <1>1, <1>2, <1>3, <1>5 DEF Advance, Listed, create, Settings

(* A look-up starts what the schedule is known to say, and one that is not *)
(* needed, or finds what is there, goes on with it.                        *)
LEMMA SyncFollows ==
    ASSUME FInv, Advance, NEW s \in Listed
    PROVE  Found(s)' /\ Stood(s)' /\ since'[s] \in Nat
<1> DEFINE t == now'
           v == schedule_value(s, t)
           d == schedule_dtnext(s, t)
<1>1. /\ t \in Times /\ start' = start /\ start \in Times /\ start <= t
      /\ (now # Never => now <= t) /\ (now = Never => t = start)
      /\ (next_t[s] = Never \/ t <= next_t[s]) /\ Sync(t) /\ loader = "run"
  <2>1. s \in Schedule
    BY DEF Listed
  <2> QED
    BY <2>1, ClockAdvances
<1>2. s \in Schedule /\ Table[s].ok /\ since[s] \in Nat
  BY <1>1 DEF FInv, Ready, Clock, Listed
<1>3. t \in Nat /\ start \in Nat /\ \A u \in Times : u \in Nat
  BY <1>1, YearOfTime
<1>4. v \in Int /\ d \in 0 .. MaxDelta /\ (Dated(t) => v = Says(s, t)) /\ MaxDelta \in Nat
      /\ (d = 0 => \A u \in Times : Says(s, u) = v)
  BY <1>1, <1>2, LookUp, Lengths
<1>5. now # Never => Found(s) /\ Stood(s)
  BY DEF FInv
<1>6. now = Never => next_t[s] = Never /\ since[s] = 0
  BY <1>2 DEF FInv, Clock
<1>7. now # Never => now \in Times /\ start <= now
  BY DEF FInv, Clock
<1> DEFINE looked == next_t[s] = Never \/ t >= next_t[s]
<1>8. /\ value'[s] = IF looked THEN v ELSE value[s]
      /\ since'[s] = IF value'[s] # value[s] THEN t ELSE since[s]
      /\ next_t'[s] = IF ~looked THEN next_t[s] ELSE IF d = 0 THEN Never ELSE t + d
      /\ synced'[s] = IF looked THEN t ELSE synced[s]
  BY <1>1, <1>2 DEF Sync, Looked, Passed
<1>9. start .. t \subseteq Times
  <2>1. Horizon \in Nat
    BY YearsAreNats, YearsAssumption DEF Horizon
  <2> HIDE DEF t
  <2> QED
    BY <1>1, <1>3, <2>1 DEF Times
<1> HIDE DEF t, v, d
<1>10. since'[s] \in Nat
  BY <1>2, <1>3, <1>8
<1>11. now # Never => /\ synced[s] \in start .. now /\ value[s] = schedule_value(s, synced[s])
                      /\ synced[s] \in Times /\ synced[s] \in Nat
                      /\ schedule_dtnext(s, synced[s]) \in 0 .. MaxDelta
                      /\ next_t[s] = IF schedule_dtnext(s, synced[s]) = 0 THEN Never
                                     ELSE synced[s] + schedule_dtnext(s, synced[s])
  <2> SUFFICES ASSUME now # Never
               PROVE  /\ synced[s] \in start .. now /\ value[s] = schedule_value(s, synced[s])
                      /\ synced[s] \in Times /\ synced[s] \in Nat
                      /\ schedule_dtnext(s, synced[s]) \in 0 .. MaxDelta
                      /\ next_t[s] = IF schedule_dtnext(s, synced[s]) = 0 THEN Never
                                     ELSE synced[s] + schedule_dtnext(s, synced[s])
    OBVIOUS
  <2>1. Found(s) /\ now <= t /\ now \in Nat
    BY <1>1, <1>3, <1>5, <1>7
  <2>2. synced[s] \in start .. now
    BY <2>1 DEF Found
  <2>3. synced[s] \in start .. t
    BY <1>3, <2>1, <2>2
  <2>4. synced[s] \in Times /\ synced[s] \in Nat
    BY <1>3, <1>9, <2>3
  <2>5. schedule_dtnext(s, synced[s]) \in 0 .. MaxDelta
    BY <1>2, <2>4, LookUp
  <2> QED
    BY <2>1, <2>2, <2>4, <2>5 DEF Found
(* As long as the answer of the last look-up has not passed.               *)
<1>12. ASSUME now # Never, NEW u \in start .. t, Settled(u), since[s] <= u,
              next_t[s] = Never \/ u < next_t[s]
       PROVE  Says(s, u) = value[s]
  <2>1. u \in Times /\ u \in Nat /\ now \in Nat /\ start <= u
    BY <1>3, <1>7, <1>9, <1>12
  <2>2. CASE u <= now
    <3>1. u \in start .. now
      BY <1>3, <2>1, <2>2
    <3> QED
      BY <1>5, <1>12, <3>1 DEF Stood
  <2>3. CASE ~(u <= now)
    <3> DEFINE l == synced[s]
               e == schedule_dtnext(s, l)
    <3>1. l \in Times /\ l \in Nat /\ l \in start .. now /\ e \in 0 .. MaxDelta
          /\ next_t[s] = (IF e = 0 THEN Never ELSE l + e) /\ value[s] = schedule_value(s, l)
      BY <1>11, <1>12
    <3> HIDE DEF l, e
    <3>2. start <= l /\ l <= u
      BY <1>3, <2>1, <2>3, <3>1
    <3>3. e = 0 \/ u < l + e
      <4>1. e # 0 => l + e # Never
        BY <1>4, <3>1 DEF Never
      <4> QED
        BY <1>12, <3>1, <4>1
    <3> QED
      BY <1>1, <1>2, <1>12, <2>1, <3>1, <3>2, <3>3, Stays DEF e
  <2> QED
    BY <2>2, <2>3
<1>13. Found(s)'
  <2>0. since'[s] <= t
    <3>1. now # Never => since[s] <= now /\ now \in Nat /\ now <= t
      BY <1>1, <1>3, <1>5, <1>7 DEF Found
    <3> QED
      BY <1>2, <1>3, <1>6, <1>8, <3>1
  <2>1. synced'[s] \in start .. t
        /\ value'[s] = schedule_value(s, synced'[s])
        /\ next_t'[s] = (IF schedule_dtnext(s, synced'[s]) = 0 THEN Never
                         ELSE synced'[s] + schedule_dtnext(s, synced'[s]))
        /\ (next_t'[s] # Never => t < next_t'[s])
    <3>1. CASE looked
      BY <1>1, <1>3, <1>4, <1>8, <3>1 DEF v, d
    <3>2. CASE ~looked
      <4>1. now # Never /\ now \in Nat /\ now <= t
        BY <1>1, <1>3, <1>6, <1>7, <3>2
      <4>2. synced'[s] = synced[s] /\ value'[s] = value[s] /\ next_t'[s] = next_t[s]
        BY <1>8, <3>2
      <4>3. synced[s] \in start .. t
        BY <1>3, <1>11, <4>1
      <4>4. t < next_t[s]
        <5>1. next_t[s] \in Int
          BY <1>4, <1>11, <4>1 DEF Never
        <5> QED
          BY <1>3, <3>2, <5>1
      <4> QED
        BY <1>11, <4>1, <4>2, <4>3, <4>4
    <3> QED
      BY <3>1, <3>2
  <2> QED
    BY <1>1, <2>0, <2>1 DEF Found, t
<1>14. ASSUME NEW u \in start .. t, since'[s] <= u, Settled(u) PROVE Says(s, u) = value'[s]
  <2>1. u \in Nat /\ u <= t /\ (u = t \/ u < t)
    BY <1>3, <1>14
  <2>2. CASE looked /\ u = t
    BY <1>4, <1>8, <1>14, <2>2 DEF Settled
  <2>3. CASE ~(looked /\ u = t)
    <3>1. value'[s] = value[s] /\ since'[s] = since[s]
      <4>1. CASE ~looked
        BY <1>8, <4>1
      <4>2. CASE looked
        <5>1. u < t
          BY <2>1, <2>3, <4>2
        <5> QED
          BY <1>3, <1>8, <1>14, <2>1, <5>1
      <4> QED
        BY <4>1, <4>2
    <3>2. now # Never
      <4> SUFFICES ASSUME now = Never PROVE FALSE
        OBVIOUS
      <4>1. t = start /\ looked
        BY <1>1, <1>6
      <4> QED
        BY <1>3, <1>14, <2>3, <4>1
    <3>3. next_t[s] \in Int
      BY <1>4, <1>11, <3>2 DEF Never
    <3>4. next_t[s] = Never \/ u < next_t[s]
      BY <1>1, <1>3, <2>1, <2>3, <3>3
    <3> QED
      BY <1>12, <1>14, <3>1, <3>2, <3>4
  <2> QED
    BY <2>2, <2>3
<1>15. Stood(s)'
  <2>1. \A u : Settled(u)' <=> Settled(u)
    BY <1>1 DEF Settled, SameYear
  <2> QED
    BY <1>1, <1>14, <2>1 DEF Stood, t
<1> QED
  BY <1>10, <1>13, <1>15

LEMMA StepFInv == FInv /\ [Next]_vars => FInv'
<1> SUFFICES ASSUME FInv, [Next]_vars PROVE FInv'
  OBVIOUS
<1>1. CASE UNCHANGED vars
  <2>1. UNCHANGED <<loader, proc, now, value, next_t, since, synced, start>>
    BY <1>1 DEF vars, create, schedule, Settings
  <2> QED
    BY <2>1 DEF FInv, Ready, Clock, Listed, Found, Stood, Settled, SameYear
<1>2. CASE Creation \/ Spurious \/ Loading \/ Run
  BY <1>2, CreatingFInv
<1>3. CASE Advance
  <2>1. /\ now' \in Times /\ start' = start /\ start \in Times /\ start <= now'
        /\ Sync(now') /\ loader = "run" /\ Listed' = Listed
    BY <1>3, ClockAdvances
  <2>2. UNCHANGED create
    BY <2>1 DEF Sync
  <2>3. Ready'
    BY <2>1, <2>2 DEF FInv, Ready, create
  <2>4. since' \in [Schedule -> Nat]
    <3>1. \A s \in Schedule : s \notin Listed => since'[s] = since[s]
      BY <2>1 DEF Sync, Looked
    <3>2. \A s \in Schedule : since'[s] \in Nat
      BY <1>3, <3>1, SyncFollows DEF FInv, Clock
    <3>3. since' = [s \in Schedule |-> since'[s]]
      BY <2>1 DEF Sync
    <3> QED
      BY <3>2, <3>3
  <2>5. now' # Never
    <3>1. now' \in Nat
      BY <2>1, YearOfTime
    <3> QED
      BY <3>1 DEF Never
  <2>6. Clock'
    BY <2>1, <2>2, <2>4, <2>5 DEF Clock, create
  <2> QED
    BY <1>3, <2>1, <2>3, <2>6, SyncFollows DEF FInv
<1> QED
  BY <1>1, <1>2, <1>3 DEF Next, Stopped

LEMMA RunsFollow == Spec => []FInv
BY InitFInv, StepFInv, PTL DEF Spec

(* However the clock gets there, a schedule has the value of this minute,  *)
(* and never changes when it answers so, for any definitions, files,       *)
(* numbers of threads and years.                                           *)
THEOREM ValuesAreCurrent == Spec => []ValueIsCurrent
<1>1. ASSUME FInv PROVE ValueIsCurrent
  <2> SUFFICES ASSUME now # Never, NEW s \in Listed
               PROVE  /\ SameYear(synced[s], now) => value[s] = Says(s, now)
                      /\ next_t[s] = Never => \A t \in now .. Horizon - 1 : Says(s, t) = value[s]
    BY DEF ValueIsCurrent
  <2> DEFINE l == synced[s]
             d == schedule_dtnext(s, l)
  <2>1. s \in Schedule /\ Table[s].ok /\ now \in Times /\ start \in Times
    BY <1>1 DEF FInv, Ready, Clock, Listed
  <2>2. /\ l \in start .. now /\ value[s] = schedule_value(s, l)
        /\ next_t[s] = (IF d = 0 THEN Never ELSE l + d)
        /\ (next_t[s] # Never => now < next_t[s])
    BY <1>1 DEF FInv, Found
  <2>3. now \in Nat /\ start \in Nat
    BY <2>1, YearOfTime
  <2>4. Horizon \in Nat
    BY YearsAreNats, YearsAssumption DEF Horizon
  <2> HIDE DEF l, d
  <2>5. l \in Times /\ l \in Nat /\ l <= now
    BY <2>1, <2>2, <2>3, <2>4 DEF Times
  <2>6. d \in 0 .. MaxDelta /\ MaxDelta \in Nat
    BY <2>1, <2>5, LookUp, Lengths DEF d
  <2>7. ASSUME SameYear(l, now) PROVE value[s] = Says(s, now)
    <3>1. Dated(l) /\ YearOf(now) = YearOf(l)
      BY <2>7 DEF SameYear
    <3>2. CASE d = 0
      BY <2>1, <2>2, <2>5, <3>2, LookUp DEF d
    <3>3. CASE d # 0
      <4>1. next_t[s] = l + d /\ l + d # Never
        BY <2>2, <2>5, <2>6, <3>3 DEF Never
      <4>2. now < l + d
        BY <2>2, <4>1
      <4> QED
        BY <2>1, <2>2, <2>5, <3>1, <4>2, LookUp DEF d
    <3> QED
      BY <3>2, <3>3
  <2>8. ASSUME next_t[s] = Never, NEW t \in now .. Horizon - 1 PROVE Says(s, t) = value[s]
    <3>1. d = 0
      BY <2>2, <2>5, <2>6, <2>8 DEF Never
    <3>2. t \in Times
      BY <2>3, <2>4 DEF Times
    <3> QED
      BY <2>1, <2>2, <2>5, <3>1, <3>2, LookUp DEF d
  <2> QED
    BY <2>7, <2>8 DEF l
<1> QED
  BY <1>1, RunsFollow, PTL

(* What an object with a skew reads is either looked up or has stood since. *)
LEMMA SkewStep == FInv /\ FInv' /\ SkewIsPast /\ [Next]_vars => SkewIsPast'
<1> SUFFICES ASSUME FInv, FInv', SkewIsPast, [Next]_vars PROVE SkewIsPast'
  OBVIOUS
<1>1. CASE ~Advance
  <2>1. UNCHANGED <<schedule, Settings>>
    BY <1>1 DEF Next, Creation, Proceed, Enter, Sleep, Compile, Finish, Spurious, Loading, schedule_create,
         Inlined, schedule_createwait, Run, Stopped, vars
  <2>2. now' # Never => Listed' = Listed
    <3>1. ASSUME now # Never PROVE UNCHANGED create
      <4>1. loader = "run" /\ \A s \in Schedule : proc[s] \in {"none", "done"}
        BY <3>1 DEF FInv, Clock, Ready, Listed
      <4> QED
        BY <1>1, <4>1 DEF Next, Creation, Proceed, Enter, Sleep, Compile, Finish, Spurious, Loading,
           schedule_create, Inlined, schedule_createwait, Run, Stopped, vars, create
    <3> QED
      BY <2>1, <3>1 DEF schedule, Listed, create
  <2> QED
    BY <2>1, <2>2 DEF SkewIsPast, Settled, SameYear, schedule, Settings
<1>2. CASE Advance
  <2>1. /\ now' \in Times /\ start' = start /\ start \in Times /\ start <= now'
        /\ Sync(now') /\ loader = "run" /\ Listed' = Listed
    BY <1>2, ClockAdvances
  <2>2. SUFFICES ASSUME NEW s \in Listed, now' - Skew[s] >= start, Settled(now' - Skew[s])
                 PROVE  target'[s] = Says(s, now' - Skew[s])
    BY <2>1 DEF SkewIsPast, Settled, SameYear
  <2> DEFINE t == now' - Skew[s]
             k == Skew[s]
  <2>3. s \in Schedule /\ Table[s].ok
    BY <2>1 DEF FInv, Ready, Listed
  <2>4. k \in Nat /\ now' \in Nat /\ start \in Nat /\ t = now' - k
    BY <2>1, <2>3, SkewAssumption, YearOfTime
  <2>5. t \in start .. now' /\ t \in Nat /\ (k = 0 => t = now')
    BY <2>2, <2>4
  <2>6. t \in Times
    <3>1. Horizon \in Nat
      BY YearsAreNats, YearsAssumption DEF Horizon
    <3>2. now' \in 0 .. Horizon - 1
      BY <2>1 DEF Times
    <3> HIDE DEF t
    <3> QED
      BY <2>4, <2>5, <3>1, <3>2 DEF Times
  <2>7. target'[s] = IF k # 0 THEN Skewed(s, t) ELSE value'[s]
    BY <2>1, <2>3 DEF Sync
  <2>8. since'[s] <= t => Says(s, t) = value'[s]
    <3>1. Stood(s)'
      BY <1>2, SyncFollows
    <3>2. \A u : Settled(u)' <=> Settled(u)
      BY <2>1 DEF Settled, SameYear
    <3>3. \A u \in start .. now' : since'[s] <= u /\ Settled(u) => Says(s, u) = value'[s]
      BY <2>1, <3>1, <3>2 DEF Stood
    <3> QED
      BY <2>2, <2>5, <3>3
  <2>9. since'[s] \in Nat /\ since'[s] <= now'
    BY <1>2, SyncFollows DEF Found
  <2>10. k # 0 => Skewed(s, t) = IF t < since'[s] \/ (next_t'[s] # Never /\ t >= next_t'[s])
                                 THEN schedule_value(s, t) ELSE value'[s]
    BY DEF Skewed
  <2>11. schedule_value(s, t) = Says(s, t)
    <3>1. Dated(t)
      BY <2>2 DEF Settled
    <3> QED
      BY <2>3, <2>6, <3>1, LookUp
  <2> HIDE DEF t, k
  <2>12. target'[s] = Says(s, t)
    BY <2>5, <2>7, <2>8, <2>9, <2>10, <2>11
  <2> QED
    BY <2>12 DEF t
<1> QED
  BY <1>1, <1>2

(* In every behaviour an object with a skew reads the value of the time    *)
(* before it.                                                              *)
THEOREM SkewsArePast == Spec => []SkewIsPast
<1>1. Init => SkewIsPast
  BY DEF Init, SkewIsPast
<1> QED
  BY <1>1, RunsFollow, SkewStep, PTL DEF Spec
=============================================================================
