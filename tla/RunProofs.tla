------------------------------ MODULE RunProofs ------------------------------
(* Proofs about what a run is made of: the ranks of objects and the passes *)
(* over them (Ranks, Passes), for any number of objects, any references in *)
(* the file, loops included, and any number of calls; and what is done     *)
(* around the passes (RunServices), for any interval and any bounds.       *)
EXTENDS Passes, RunServices, FiniteSetTheorems, SequenceTheorems, WellFoundedInduction, TLAPS

-----------------------------------------------------------------------------
(* Ranks and passes.                                                       *)

(* Parents are linked once the references are resolved; an open call of    *)
(* set_rank on behalf of a child carries that child's rank, and one that   *)
(* has come back to where it was is stopped by a mark.                     *)
Links ==
    /\ phase \in {"load", "resolve"} => linked = {}
    /\ \A o \in linked : parent[o] \in Objects /\ parent[o] # o
    /\ ~Idle /\ from # None =>
         at = parent[from] /\ want = rank[from] /\ (from = at => at \in flagged)

(* A link is in order, or being put in order.                              *)
Higher ==
    \A o \in linked \ broken :
        rank[o] < rank[parent[o]] \/ (~Idle /\ from = o)

RInv == TypeOK /\ Links /\ Higher

LEMMA RanksInit == Init => RInv
BY NAssumption, FilesAssumption, CallsAssumption
   DEF Init, RInv, TypeOK, Links, Higher, Idle, Objects, None

(* A call that is made on behalf of no child disturbs nothing.             *)
LEMMA CallKeeps ==
    ASSUME RInv, Idle, NEW o \in Objects, NEW r \in 0 .. N, Call(o, r, None),
           todo' \in [Objects -> Objects \union {None}],
           next' \in 1 .. N + 1, calls' \in 0 .. MaxCalls,
           UNCHANGED <<phase, parent, rank, linked>>
    PROVE  RInv'
BY NAssumption
   DEF RInv, TypeOK, Links, Higher, Idle, Call, Objects, None

(* Nor does a step outside of any call that leaves parents and ranks alone. *)
LEMMA QuietKeeps ==
    ASSUME RInv, Idle, UNCHANGED <<parent, rank, walk, linked>>,
           todo' \in [Objects -> Objects \union {None}],
           next' \in 1 .. N + 1, calls' \in 0 .. MaxCalls,
           phase' \in {"load", "resolve", "establish", "init", "run"},
           phase' \in {"load", "resolve"} => phase \in {"load", "resolve"}
    PROVE  RInv'
BY DEF RInv, TypeOK, Links, Higher, Idle, walk

(* A new parent of o: the call that follows is to put the link in order.   *)
LEMMA ParentKeeps ==
    ASSUME RInv, Idle, NEW o \in Objects, NEW p \in Objects \union {None},
           object_set_parent(o, p), UNCHANGED <<rank, todo>>,
           next' \in 1 .. N + 1, calls' \in 0 .. MaxCalls,
           phase' = phase, phase \in {"establish", "init"}
    PROVE  RInv'
<1>1. CASE o = p
  BY <1>1, QuietKeeps DEF object_set_parent, RInv, TypeOK, walk
<1>2. CASE o # p /\ p = None
  <2>1. linked' = linked \ {o} /\ parent' = [parent EXCEPT ![o] = None] /\ UNCHANGED walk
    BY <1>2 DEF object_set_parent
  <2> QED
    BY <1>2, <2>1 DEF RInv, TypeOK, Links, Higher, Idle, walk, Objects, None
<1>3. CASE o # p /\ p # None
  <2>1. /\ linked' = linked \union {o} /\ parent' = [parent EXCEPT ![o] = p]
        /\ Call(p, rank[o], o)
    BY <1>3 DEF object_set_parent
  <2>2. TypeOK'
    BY <1>3, <2>1 DEF RInv, TypeOK, Call
  <2>3. Links'
    BY <1>3, <2>1, NAssumption DEF RInv, TypeOK, Links, Idle, Call, Objects, None
  <2>4. Higher'
    BY <1>3, <2>1, NAssumption DEF RInv, TypeOK, Links, Higher, Idle, Call, Objects, None
  <2> QED
    BY <2>2, <2>3, <2>4 DEF RInv
<1> QED
  BY <1>1, <1>2, <1>3

LEMMA ClimbKeeps == RInv /\ Climb => RInv'
<1> SUFFICES ASSUME RInv, Climb PROVE RInv'
  OBVIOUS
<1> USE DEF RInv, Objects, None
<1>1. /\ at \in Objects /\ want \in 0 .. N - 1 /\ rank \in [Objects -> 0 .. N]
      /\ Raised(at) \in 1 .. N /\ Raised(at) > want /\ Raised(at) >= rank[at]
  BY NAssumption DEF Climb, Fails, Raised, TypeOK, Idle
<1>2. /\ rank' = [rank EXCEPT ![at] = Raised(at)] /\ broken' = broken \ {from}
      /\ UNCHANGED <<phase, todo, next, calls, parent, linked, stale>>
  BY DEF Climb, load
<1>3. from # None => from # at /\ rank[from] = want /\ at = parent[from]
  BY DEF Climb, Fails, Links
<1>4. CASE parent[at] # None
  <2>1. /\ at' = parent[at] /\ want' = Raised(at) /\ from' = at
        /\ first' = (IF first = None THEN at ELSE first)
        /\ flagged' = flagged \union {at} /\ trail' = trail \union {at}
    BY <1>4 DEF Climb
  <2>2. TypeOK'
    BY <1>1, <1>2, <1>4, <2>1 DEF TypeOK
  <2>3. Links'
    BY <1>1, <1>2, <1>4, <2>1 DEF TypeOK, Links, Idle
  <2>4. Higher'
    BY <1>1, <1>2, <1>3, <1>4, <2>1 DEF TypeOK, Links, Higher, Idle
  <2> QED
    BY <2>2, <2>3, <2>4
<1>5. CASE parent[at] = None
  <2>1. /\ at' = None /\ want' = 0 /\ from' = None /\ first' = None
        /\ flagged' = Cleared /\ trail' = {}
    BY <1>5 DEF Climb
  <2>2. flagged' \subseteq Objects
    BY <2>1 DEF TypeOK, Cleared
  <2>3. trail' \subseteq flagged' /\ want' \in 0 .. N
    BY <2>1, NAssumption
  <2>4. rank' \in [Objects -> 0 .. N] /\ broken' \subseteq Objects
    BY <1>1, <1>2 DEF TypeOK
  <2>5. TypeOK'
    BY <1>2, <2>1, <2>2, <2>3, <2>4 DEF TypeOK
  <2>6. Links'
    BY <1>1, <1>2, <2>1 DEF TypeOK, Links, Idle
  <2>7. Higher'
    BY <1>1, <1>2, <1>3, <1>5, <2>1 DEF TypeOK, Links, Higher, Idle
  <2> QED
    BY <2>5, <2>6, <2>7
<1> QED
  BY <1>4, <1>5

LEMMA FailKeeps == RInv /\ Fail => RInv'
BY NAssumption DEF RInv, TypeOK, Links, Higher, Fail, Idle, load, Objects, None

LEMMA RankingKeeps == RInv /\ [Ranking]_rankVars => RInv'
<1> SUFFICES ASSUME RInv, [Ranking]_rankVars PROVE RInv'
  OBVIOUS
<1>1. CASE SetRank
  BY <1>1, ClimbKeeps, FailKeeps DEF SetRank
<1>2. CASE LoadRank
  <2>1. Idle /\ UNCHANGED <<phase, todo, next, parent, rank, linked>> /\ calls' \in 0 .. MaxCalls
    BY <1>2, CallsAssumption DEF LoadRank, object_set_rank, RInv, TypeOK
  <2>2. PICK o \in Objects, r \in 1 .. N : object_set_rank(o, r)
    BY <1>2 DEF LoadRank
  <2>3. CASE r <= rank[o]
    BY <2>1, <2>2, <2>3, QuietKeeps DEF object_set_rank, RInv, TypeOK
  <2>4. CASE ~(r <= rank[o])
    BY <2>1, <2>2, <2>4, CallKeeps DEF object_set_rank, RInv, TypeOK
  <2> QED
    BY <2>3, <2>4
<1>3. CASE LoadDone
  BY <1>3, QuietKeeps DEF LoadDone, RInv, TypeOK
<1>4. CASE Resolve
  <2>1. PICK o \in Objects :
          /\ todo[o] # None /\ todo' = [todo EXCEPT ![o] = None]
          /\ parent' = [parent EXCEPT ![o] = todo[o]]
          /\ IF rank[o] <= rank[todo[o]] THEN UNCHANGED walk
             ELSE Call(todo[o], rank[o], None)
    BY <1>4 DEF Resolve
  <2>2. Idle /\ linked = {} /\ UNCHANGED <<phase, next, calls, rank, linked>>
    BY <1>4 DEF Resolve, RInv, Links
  <2>3. TypeOK'
    BY <2>1, <2>2 DEF RInv, TypeOK, Call, walk, Objects, None
  <2>4. Links' /\ Higher'
    BY <2>1, <2>2 DEF RInv, TypeOK, Links, Higher, Idle, Call, walk, None
  <2> QED
    BY <2>3, <2>4 DEF RInv
<1>5. CASE ResolveDone
  BY <1>5, QuietKeeps DEF ResolveDone, RInv, TypeOK
<1>6. CASE Establish
  <2>1. CASE next <= N
    <3>1. /\ Idle /\ object_set_parent(next, parent[next]) /\ next' = next + 1
          /\ UNCHANGED <<phase, todo, calls, rank>> /\ phase = "establish"
      BY <1>6, <2>1 DEF Establish
    <3>2. next \in Objects /\ next' \in 1 .. N + 1
      BY <2>1, <3>1, NAssumption DEF RInv, TypeOK, Objects
    <3> QED
      BY <3>1, <3>2, ParentKeeps DEF RInv, TypeOK
  <2>2. CASE ~(next <= N)
    BY <1>6, <2>2, QuietKeeps DEF Establish, RInv, TypeOK
  <2> QED
    BY <2>1, <2>2
<1>7. CASE ModuleCall
  <2>1. Idle /\ phase = "init" /\ UNCHANGED <<phase, todo, next>> /\ calls' \in 0 .. MaxCalls
    BY <1>7, CallsAssumption DEF ModuleCall, RInv, TypeOK
  <2>2. PICK o \in Objects :
          \/ \E r \in 1 .. N : object_set_rank(o, r)
          \/ \E p \in Objects \union {None} :
               object_set_parent(o, p) /\ UNCHANGED rank
          \/ \E d \in Objects : object_set_dependent(o, d)
    BY <1>7 DEF ModuleCall
  <2>3. ASSUME NEW r \in 1 .. N, object_set_rank(o, r) PROVE RInv'
    <3>1. UNCHANGED <<parent, rank, linked>> /\ r \in 0 .. N
      BY <2>3 DEF object_set_rank
    <3>2. CASE r <= rank[o]
      BY <2>1, <2>3, <3>1, <3>2, QuietKeeps DEF object_set_rank, RInv, TypeOK
    <3>3. CASE ~(r <= rank[o])
      BY <2>1, <2>3, <3>1, <3>3, CallKeeps DEF object_set_rank, RInv, TypeOK
    <3> QED
      BY <3>2, <3>3
  <2>4. ASSUME NEW p \in Objects \union {None}, object_set_parent(o, p), UNCHANGED rank
        PROVE  RInv'
    BY <2>1, <2>4, ParentKeeps DEF RInv, TypeOK
  <2>5. ASSUME NEW d \in Objects, object_set_dependent(o, d) PROVE RInv'
    <3>1. UNCHANGED <<parent, rank, linked>> /\ rank[o] \in 0 .. N
      BY <2>5 DEF object_set_dependent, RInv, TypeOK
    <3>2. CASE o = d
      BY <2>1, <2>5, <3>1, <3>2, QuietKeeps DEF object_set_dependent, RInv, TypeOK
    <3>3. CASE o # d
      BY <2>1, <2>5, <3>1, <3>3, CallKeeps DEF object_set_dependent, RInv, TypeOK
    <3> QED
      BY <3>2, <3>3
  <2> QED
    BY <2>2, <2>3, <2>4, <2>5
<1>8. CASE InitDone
  BY <1>8, QuietKeeps DEF InitDone, RInv, TypeOK
<1>9. CASE UNCHANGED rankVars
  BY <1>9 DEF rankVars, load, walk, RInv, TypeOK, Links, Higher, Idle
<1> QED
  BY <1>1, <1>2, <1>3, <1>4, <1>5, <1>6, <1>7, <1>8, <1>9 DEF Ranking

LEMMA NextRanks == [PNext]_vars => [Ranking]_rankVars
BY DEF PNext, vars, Passing, Insert, Indexed, Visit, NextRank, NextPass, Done

-----------------------------------------------------------------------------
(* The sweep.                                                              *)

Takes(p, o) == p \in PassConfig[o]
Seen(p)     == ToSet(visited[p])

(* The ranks before r, in the direction of a pass.                         *)
Before(r, p) == IF p % 2 = 1 THEN r < i ELSE r > i

STypes ==
    /\ stage \in {"index", "sweep", "done"}
    /\ pass \in PassNumbers /\ ptr \in 1 .. N + 1
    /\ first_used \in [PassNumbers -> Nat] /\ last_used \in [PassNumbers -> 0 .. N]
    /\ ordinal \in [PassNumbers -> [0 .. N -> SUBSET Objects]]
    /\ i \in Int /\ list \subseteq Objects
    /\ visited \in [PassNumbers -> Seq(Objects)]

(* Ranks do not change any more when they are indexed.                     *)
Settled ==
    /\ phase # "run" => stage = "index" /\ pass = 0 /\ ptr = 1
    /\ phase = "run" => Idle

(* An index holds the objects inserted so far, each at its rank, and its   *)
(* bounds enclose them.                                                    *)
Indexes ==
    \A p \in PassNumbers : \A r \in 0 .. N : \A o \in Objects :
        /\ o \in ordinal[p][r] <=>
             /\ r = rank[o] /\ Takes(p, o)
             /\ stage = "index" => p < pass \/ (p = pass /\ o < ptr)
        /\ o \in ordinal[p][r] => first_used[p] <= r /\ r <= last_used[p]

(* Within a pass the objects of the ranks before this one have been seen,  *)
(* and those of this rank that are no longer in its list.                  *)
Progress ==
    /\ stage = "index" => \A p \in PassNumbers : visited[p] = <<>>
    /\ stage = "sweep" =>
         /\ IF pass % 2 = 1 THEN i >= 0 ELSE i <= N
         /\ \A o \in list : Takes(pass, o) /\ rank[o] = i
         /\ \A p \in PassNumbers : \A o \in Objects :
              o \in Seen(p) <=>
                /\ Takes(p, o)
                /\ \/ p < pass
                   \/ p = pass /\ (Before(rank[o], p) \/ (rank[o] = i /\ o \notin list))
    /\ stage = "done" =>
         \A p \in PassNumbers : \A o \in Objects : o \in Seen(p) <=> Takes(p, o)

Distinct == \A p \in PassNumbers : IsInjective(visited[p])

SInv == RInv /\ STypes /\ Settled /\ Indexes /\ Progress /\ Distinct

LEMMA SeenAppend ==
    ASSUME NEW s \in Seq(Objects), NEW o \in Objects
    PROVE  /\ ToSet(Append(s, o)) = ToSet(s) \union {o}
           /\ IsInjective(s) /\ o \notin ToSet(s) => IsInjective(Append(s, o))
<1>1. /\ DOMAIN s = 1 .. Len(s) /\ Len(s) \in Nat
      /\ DOMAIN Append(s, o) = 1 .. Len(s) + 1
      /\ Append(s, o)[Len(s) + 1] = o
      /\ \A k \in 1 .. Len(s) : Append(s, o)[k] = s[k]
  OBVIOUS
<1>2. DOMAIN Append(s, o) = DOMAIN s \union {Len(s) + 1}
  BY <1>1
<1>3. ToSet(Append(s, o)) = ToSet(s) \union {o}
  BY <1>1, <1>2 DEF ToSet
<1>4. ASSUME IsInjective(s), o \notin ToSet(s) PROVE IsInjective(Append(s, o))
  BY <1>1, <1>4 DEF IsInjective, ToSet
<1> QED
  BY <1>3, <1>4

LEMMA SweepInit == PInit => SInv
<1> SUFFICES ASSUME PInit PROVE SInv
  OBVIOUS
<1>1. RInv /\ phase = "load"
  BY RanksInit DEF PInit, Init
<1>2. STypes
  BY NAssumption, FirstSizeAssumption DEF PInit, STypes, PassNumbers
<1>3. Settled /\ Progress
  BY <1>1 DEF PInit, Settled, Progress
<1>4. Indexes
  <2> SUFFICES ASSUME NEW p \in PassNumbers, NEW r \in 0 .. N, NEW o \in Objects
               PROVE  o \notin ordinal[p][r] /\ stage = "index" /\ ~(p < pass \/ (p = pass /\ o < ptr))
    BY DEF Indexes
  <2> QED
    BY NAssumption DEF PInit, Objects, PassNumbers
<1>5. Distinct
  BY DEF PInit, Distinct, IsInjective
<1> QED
  BY <1>1, <1>2, <1>3, <1>4, <1>5 DEF SInv

(* Nothing that sets ranks happens once they are indexed, and nothing is   *)
(* indexed before.                                                         *)
LEMMA RankingSettled ==
    ASSUME SInv, [Ranking]_rankVars, UNCHANGED <<stage, pass, ptr, index, sweep>>
    PROVE  SInv'
<1>1. RInv'
  BY RankingKeeps DEF SInv
<1>2. STypes' /\ Distinct'
  BY DEF SInv, STypes, Distinct, index, sweep
<1>3. CASE phase = "run"
  <2>1. ~Ranking
    BY <1>3 DEF SInv, Settled, Ranking, SetRank, Climb, Fail, LoadRank, LoadDone,
       Resolve, ResolveDone, Establish, ModuleCall, InitDone
  <2>2. UNCHANGED <<rank, phase, at>>
    BY <2>1 DEF rankVars, load, walk
  <2>3. Settled' /\ Indexes' /\ Progress'
    BY <2>2 DEF SInv, Settled, Indexes, Progress, index, sweep, Idle, Seen, Before
  <2> QED
    BY <1>1, <1>2, <2>3 DEF SInv
<1>4. CASE phase # "run"
  <2>1. stage = "index" /\ pass = 0 /\ ptr = 1
    BY <1>4 DEF SInv, Settled
  <2>2. phase' = "run" => Idle'
    BY <1>4 DEF Ranking, SetRank, Climb, Fail, LoadRank, LoadDone, Resolve, ResolveDone,
       Establish, ModuleCall, InitDone, Idle, rankVars, load, walk
  <2>3. Settled'
    BY <2>1, <2>2 DEF Settled
  <2>4. Indexes'
    BY <2>1 DEF SInv, Indexes, index, PassNumbers, Objects
  <2>5. Progress'
    BY <2>1 DEF SInv, Progress, sweep
  <2> QED
    BY <1>1, <1>2, <2>3, <2>4, <2>5 DEF SInv
<1> QED
  BY <1>3, <1>4

LEMMA InsertKeeps == SInv /\ Insert => SInv'
<1> SUFFICES ASSUME SInv, Insert PROVE SInv'
  OBVIOUS
<1>1. /\ ptr \in Objects /\ rank[ptr] \in 0 .. N /\ pass \in PassNumbers
      /\ phase = "run" /\ stage = "index" /\ ptr' = ptr + 1
      /\ UNCHANGED <<rankVars, stage, pass, sweep>>
  BY NAssumption DEF Insert, SInv, STypes, RInv, TypeOK, Objects
<1>2. RInv' /\ UNCHANGED <<rank, phase, at>>
  BY <1>1 DEF SInv, RInv, TypeOK, Links, Higher, Idle, rankVars, load, walk
<1>3. Settled' /\ Progress' /\ Distinct'
  BY <1>1, <1>2 DEF SInv, Settled, Progress, Distinct, sweep, Idle
<1>4. CASE pass \in PassConfig[ptr]
  <2>1. /\ ordinal' = [ordinal EXCEPT ![pass][rank[ptr]] = @ \union {ptr}]
        /\ first_used' = [first_used EXCEPT ![pass] = IF rank[ptr] < @ THEN rank[ptr] ELSE @]
        /\ last_used' = [last_used EXCEPT ![pass] = IF rank[ptr] > @ THEN rank[ptr] ELSE @]
    BY <1>4 DEF Insert, index_insert
  <2>2. STypes'
    BY <1>1, <2>1, NAssumption DEF SInv, STypes, sweep, Objects
  <2>3. ASSUME NEW p \in PassNumbers, NEW r \in 0 .. N, NEW o \in Objects
        PROVE  /\ o \in ordinal'[p][r] <=>
                    /\ r = rank[o] /\ Takes(p, o)
                    /\ p < pass \/ (p = pass /\ o < ptr + 1)
               /\ o \in ordinal'[p][r] => first_used'[p] <= r /\ r <= last_used'[p]
    <3>1. o \in ordinal'[p][r] <=>
            o \in ordinal[p][r] \/ (p = pass /\ r = rank[ptr] /\ o = ptr)
      BY <1>1, <2>1 DEF SInv, STypes
    <3>2. /\ o \in ordinal[p][r] <=>
               /\ r = rank[o] /\ Takes(p, o)
               /\ p < pass \/ (p = pass /\ o < ptr)
          /\ o \in ordinal[p][r] => first_used[p] <= r /\ r <= last_used[p]
      BY <1>1 DEF SInv, Indexes
    <3>3. /\ first_used'[p] <= first_used[p] /\ last_used'[p] >= last_used[p]
          /\ p = pass => first_used'[p] <= rank[ptr] /\ last_used'[p] >= rank[ptr]
          /\ first_used[p] \in Nat /\ first_used'[p] \in Nat
          /\ last_used[p] \in Nat /\ last_used'[p] \in Nat
      BY <1>1, <2>1 DEF SInv, STypes
    <3>4. p \in 0 .. 2 /\ pass \in 0 .. 2 /\ o \in Nat /\ ptr \in Nat
      BY <1>1, NAssumption DEF PassNumbers, Objects
    <3>5. o < ptr + 1 <=> o < ptr \/ o = ptr
      BY <3>4
    <3>6. p = pass /\ o = ptr => Takes(p, o)
      BY <1>4 DEF Takes
    <3>7. ~(p < pass /\ p = pass)
      BY <3>4
    <3>8. o \in ordinal'[p][r] <=>
            /\ r = rank[o] /\ Takes(p, o)
            /\ p < pass \/ (p = pass /\ o < ptr + 1)
      BY <3>1, <3>2, <3>5, <3>6, <3>7
    <3>9. o \in ordinal'[p][r] => first_used'[p] <= r /\ r <= last_used'[p]
      BY <3>1, <3>2, <3>3, NAssumption
    <3> QED
      BY <3>8, <3>9
  <2>4. Indexes'
    BY <1>1, <1>2, <2>3 DEF Indexes, Takes
  <2> QED
    BY <1>2, <1>3, <2>2, <2>4 DEF SInv
<1>5. CASE pass \notin PassConfig[ptr]
  <2>1. UNCHANGED index
    BY <1>5 DEF Insert
  <2>2. STypes'
    BY <1>1, <2>1, NAssumption DEF SInv, STypes, sweep, index, Objects
  <2>3. \A o \in Objects : (pass = pass /\ o < ptr + 1) /\ Takes(pass, o) => o < ptr
    BY <1>1, <1>5, NAssumption DEF Takes, Objects
  <2>4. \A o \in Objects : o < ptr => o < ptr + 1
    BY <1>1, NAssumption DEF Objects
  <2>5. Indexes'
    BY <1>1, <1>2, <2>1, <2>3, <2>4 DEF SInv, Indexes, index, Takes
  <2> QED
    BY <1>2, <1>3, <2>2, <2>5 DEF SInv
<1> QED
  BY <1>4, <1>5

(* The list of a rank that is entered holds exactly the objects of that    *)
(* rank; that the loop may have left the bounds makes no difference.       *)
LEMMA Entered ==
    ASSUME SInv, NEW q \in PassNumbers, NEW r \in Int,
           IF q % 2 = 1 THEN r >= 0 ELSE r <= N,
           stage = "index" => pass = 2 /\ ptr > N,
           NEW L, L = IF PASSCMP(r, q) THEN ordinal[q][r] ELSE {}
    PROVE  /\ \A o \in L : o \in Objects /\ Takes(q, o) /\ rank[o] = r
           /\ \A o \in Objects : Takes(q, o) =>
                /\ PASSCMP(rank[o], q)
                /\ rank[o] = r => o \in L
<1>1. /\ first_used[q] \in Nat /\ last_used[q] \in 0 .. N /\ rank \in [Objects -> 0 .. N]
      /\ ordinal[q] \in [0 .. N -> SUBSET Objects] /\ q \in 0 .. 2
  BY DEF SInv, STypes, RInv, TypeOK, PassNumbers
<1>2. stage = "index" => \A o \in Objects : q < pass \/ (q = pass /\ o < ptr)
  BY <1>1, NAssumption DEF SInv, STypes, Objects
<1>3. \A k \in 0 .. N : \A o \in Objects :
        /\ o \in ordinal[q][k] <=> k = rank[o] /\ Takes(q, o)
        /\ o \in ordinal[q][k] => first_used[q] <= k /\ k <= last_used[q]
  BY <1>2 DEF SInv, Indexes
<1>4. PASSCMP(r, q) => r \in 0 .. N
  BY <1>1, NAssumption DEF PASSCMP
<1>5. ASSUME NEW o \in L PROVE o \in Objects /\ Takes(q, o) /\ rank[o] = r
  <2>1. PASSCMP(r, q) /\ o \in ordinal[q][r] /\ r \in 0 .. N
    BY <1>4, <1>5
  <2> QED
    BY <1>1, <1>3, <2>1
<1>6. ASSUME NEW o \in Objects, Takes(q, o)
      PROVE  PASSCMP(rank[o], q) /\ (rank[o] = r => o \in L)
  <2>1. o \in ordinal[q][rank[o]] /\ first_used[q] <= rank[o] /\ rank[o] <= last_used[q]
    BY <1>1, <1>3, <1>6
  <2>2. PASSCMP(rank[o], q)
    BY <1>1, <2>1 DEF PASSCMP
  <2> QED
    BY <2>1, <2>2
<1> QED
  BY <1>5, <1>6

LEMMA IndexedKeeps == SInv /\ Indexed => SInv'
<1> SUFFICES ASSUME SInv, Indexed PROVE SInv'
  OBVIOUS
<1>1. /\ phase = "run" /\ stage = "index" /\ ptr > N /\ pass \in 0 .. 2 /\ ptr \in 1 .. N + 1
      /\ UNCHANGED <<rankVars, index, visited>>
  BY DEF Indexed, SInv, STypes, PassNumbers
<1>2. RInv' /\ UNCHANGED <<rank, phase, at, first_used, last_used, ordinal>>
  BY <1>1 DEF SInv, RInv, TypeOK, Links, Higher, Idle, rankVars, load, walk, index
<1>3. Settled' /\ Distinct'
  BY <1>1, <1>2 DEF SInv, Settled, Distinct, Idle
<1>4. \A o \in Objects : o \in Nat /\ o < ptr /\ ~(o < 1)
  BY <1>1, NAssumption DEF Objects
<1>5. CASE pass < 2
  <2>1. pass' = pass + 1 /\ ptr' = 1 /\ UNCHANGED <<stage, i, list>>
    BY <1>5 DEF Indexed
  <2>2. STypes'
    BY <1>1, <1>2, <1>5, <2>1, NAssumption DEF SInv, STypes, PassNumbers
  <2>3. \A p \in PassNumbers : p < pass \/ p = pass <=> p < pass + 1
    BY <1>1 DEF PassNumbers
  <2>4. Indexes'
    BY <1>1, <1>2, <1>4, <2>1, <2>3 DEF SInv, Indexes, Takes
  <2>5. Progress'
    BY <1>1, <2>1 DEF SInv, Progress
  <2> QED
    BY <1>2, <1>3, <2>2, <2>4, <2>5 DEF SInv
<1>6. CASE ~(pass < 2)
  <2>1. /\ stage' = "sweep" /\ pass' = 0 /\ ptr' = ptr
        /\ i' = last_used[0]
        /\ list' = IF PASSCMP(last_used[0], 0) THEN ordinal[0][last_used[0]] ELSE {}
    BY <1>6 DEF Indexed, Enter, PASSINIT
  <2>2. last_used[0] \in 0 .. N /\ 0 \in PassNumbers /\ pass = 2
    BY <1>1, <1>6 DEF SInv, STypes, PassNumbers
  <2>3. /\ \A o \in list' : o \in Objects /\ Takes(0, o) /\ rank[o] = i'
        /\ \A o \in Objects : Takes(0, o) =>
             /\ PASSCMP(rank[o], 0)
             /\ rank[o] = i' => o \in list'
    <3> DEFINE q == 0
    <3>1. last_used[q] \in Int /\ q \in PassNumbers
          /\ IF q % 2 = 1 THEN last_used[q] >= 0 ELSE last_used[q] <= N
      BY <2>2, NAssumption
    <3>2. list' = IF PASSCMP(last_used[q], q) THEN ordinal[q][last_used[q]] ELSE {}
      BY <2>1
    <3>3. stage = "index" => pass = 2 /\ ptr > N
      BY <1>1, <2>2
    <3>4. /\ \A o \in list' : o \in Objects /\ Takes(q, o) /\ rank[o] = last_used[q]
          /\ \A o \in Objects : Takes(q, o) =>
               /\ PASSCMP(rank[o], q)
               /\ rank[o] = last_used[q] => o \in list'
      <4> HIDE DEF q
      <4> QED
        BY <3>1, <3>2, <3>3, Entered
    <3> QED
      BY <2>1, <3>4
  <2>4. STypes'
    BY <1>1, <1>2, <2>1, <2>2, <2>3, NAssumption DEF SInv, STypes, PassNumbers
  <2>5. \A p \in PassNumbers, o \in Objects : p < pass \/ (p = pass /\ o < ptr)
    BY <1>4, <2>2 DEF PassNumbers
  <2>6. Indexes'
    BY <1>1, <1>2, <2>1, <2>5 DEF SInv, Indexes, Takes
  <2>7. \A p \in PassNumbers : visited[p] = <<>> /\ ~(p < 0)
    BY <1>1 DEF SInv, Progress, PassNumbers
  <2>8. \A p \in PassNumbers : \A o \in Objects : o \notin Seen(p)'
    BY <1>1, <2>7 DEF Seen, ToSet
  <2>9. \A o \in Objects : Takes(0, o) => ~(rank[o] > i')
    BY <2>1, <2>2, <2>3 DEF PASSCMP, SInv, Indexes, STypes, RInv, TypeOK
  <2>10. Progress'
    BY <1>1, <1>2, <2>1, <2>2, <2>3, <2>7, <2>8, <2>9 DEF Progress, Before, Takes
  <2> QED
    BY <1>2, <1>3, <2>4, <2>6, <2>10 DEF SInv
<1> QED
  BY <1>5, <1>6

LEMMA VisitKeeps == SInv /\ Visit => SInv'
<1> SUFFICES ASSUME SInv, Visit PROVE SInv'
  OBVIOUS
<1>1. PICK o \in list : /\ list' = list \ {o}
                        /\ visited' = [visited EXCEPT ![pass] = Append(@, o)]
  BY DEF Visit
<1>2. stage = "sweep" /\ UNCHANGED <<rankVars, stage, pass, ptr, index, i>>
  BY DEF Visit
<1>3. RInv' /\ UNCHANGED <<rank, phase, at, first_used, last_used, ordinal>>
  BY <1>2 DEF SInv, RInv, TypeOK, Links, Higher, Idle, rankVars, load, walk, index
<1>4. /\ o \in Objects /\ pass \in PassNumbers /\ visited \in [PassNumbers -> Seq(Objects)]
      /\ rank[o] = i /\ i \in Int /\ Takes(pass, o)
  BY <1>1, <1>2 DEF SInv, STypes, Progress
<1>5. o \notin Seen(pass)
  BY <1>1, <1>2, <1>4 DEF SInv, Progress, Before, PassNumbers
<1>6. /\ Seen(pass)' = Seen(pass) \union {o} /\ IsInjective(visited'[pass])
      /\ \A p \in PassNumbers \ {pass} : visited'[p] = visited[p]
  BY <1>1, <1>2, <1>4, <1>5, SeenAppend DEF SInv, Distinct, Seen
<1>7. STypes'
  BY <1>1, <1>2, <1>3, <1>4, <1>6 DEF SInv, STypes
<1>8. Settled' /\ Indexes'
  BY <1>2, <1>3 DEF SInv, Settled, Indexes, Idle
<1>9. Distinct'
  BY <1>2, <1>4, <1>6 DEF SInv, Distinct
<1>10. ASSUME NEW p \in PassNumbers, NEW x \in Objects
       PROVE  x \in Seen(p)' <=>
                /\ Takes(p, x)
                /\ \/ p < pass
                   \/ p = pass /\ (Before(rank[x], p) \/ (rank[x] = i /\ x \notin list'))
  <2>1. x \in Seen(p) <=>
          /\ Takes(p, x)
          /\ \/ p < pass
             \/ p = pass /\ (Before(rank[x], p) \/ (rank[x] = i /\ x \notin list))
    BY <1>2 DEF SInv, Progress
  <2>2. p # pass => Seen(p)' = Seen(p)
    BY <1>6 DEF Seen
  <2>3. CASE p # pass
    BY <2>1, <2>2, <2>3
  <2>4. CASE p = pass /\ x = o
    BY <1>1, <1>2, <1>4, <1>6, <2>4 DEF Seen
  <2>5. CASE p = pass /\ x # o
    BY <1>1, <1>2, <1>6, <2>1, <2>5 DEF Seen
  <2> QED
    BY <2>3, <2>4, <2>5
<1>11. Progress'
  BY <1>1, <1>2, <1>3, <1>10 DEF SInv, Progress, Before
<1> QED
  BY <1>3, <1>7, <1>8, <1>9, <1>11 DEF SInv

(* An object in a rank lies within the bounds of the loop.                 *)
LEMMA NextRankKeeps == SInv /\ NextRank => SInv'
<1> SUFFICES ASSUME SInv, NextRank PROVE SInv'
  OBVIOUS
<1> DEFINE r == i + PASSINC(pass)
<1>1. /\ stage = "sweep" /\ PASSCMP(i, pass) /\ list = {} /\ i' = r
      /\ list' = IF PASSCMP(r, pass) THEN ordinal[pass][r] ELSE {}
      /\ UNCHANGED <<rankVars, stage, pass, ptr, index, visited>>
  BY DEF NextRank, Enter
<1>2. RInv' /\ UNCHANGED <<rank, phase, at, first_used, last_used, ordinal>>
  BY <1>1 DEF SInv, RInv, TypeOK, Links, Higher, Idle, rankVars, load, walk, index
<1>3. /\ pass \in PassNumbers /\ i \in Int /\ r \in Int
      /\ r = IF pass % 2 = 1 THEN i + 1 ELSE i - 1
      /\ IF pass % 2 = 1 THEN r >= 0 ELSE r <= N
  BY <1>1, NAssumption DEF SInv, STypes, Progress, PASSINC, PassNumbers
<1>4. /\ \A o \in list' : o \in Objects /\ Takes(pass, o) /\ rank[o] = r
      /\ \A o \in Objects : Takes(pass, o) => (rank[o] = r => o \in list')
  <2>1. pass \in PassNumbers /\ r \in Int /\ IF pass % 2 = 1 THEN r >= 0 ELSE r <= N
    BY <1>3
  <2>2. (stage = "index" => pass = 2 /\ ptr > N) /\ list' = IF PASSCMP(r, pass) THEN ordinal[pass][r] ELSE {}
    BY <1>1
  <2> HIDE DEF r
  <2> QED
    BY <2>1, <2>2, Entered
<1>5. STypes' /\ Settled' /\ Indexes' /\ Distinct'
  <2>1. STypes'
    BY <1>1, <1>2, <1>3, <1>4 DEF SInv, STypes, index
  <2>2. Settled'
    BY <1>1, <1>2 DEF SInv, Settled, Idle
  <2>3. Indexes' /\ Distinct'
    BY <1>1, <1>2 DEF SInv, Indexes, Distinct, index
  <2> QED
    BY <2>1, <2>2, <2>3
<1>6. \A o \in Objects : rank[o] \in Int /\ (Takes(pass, o) =>
        (Before(rank[o], pass) \/ (rank[o] = i /\ o \notin list)
           <=> Before(rank[o], pass)' \/ (rank[o] = r /\ o \notin list')))
  BY <1>1, <1>2, <1>3, <1>4 DEF Before, SInv, RInv, TypeOK
<1>7. Progress'
  BY <1>1, <1>2, <1>3, <1>4, <1>6 DEF SInv, Progress, Seen, Takes, Before
<1> QED
  BY <1>2, <1>5, <1>7 DEF SInv

LEMMA NextPassKeeps == SInv /\ NextPass => SInv'
<1> SUFFICES ASSUME SInv, NextPass PROVE SInv'
  OBVIOUS
<1>1. /\ stage = "sweep" /\ ~PASSCMP(i, pass) /\ pass \in 0 .. 2 /\ i \in Int
      /\ UNCHANGED <<rankVars, ptr, index, visited>>
  BY DEF NextPass, SInv, STypes, PassNumbers
<1>2. RInv' /\ UNCHANGED <<rank, phase, at, first_used, last_used, ordinal>>
  BY <1>1 DEF SInv, RInv, TypeOK, Links, Higher, Idle, rankVars, load, walk, index
<1>3. ASSUME NEW p \in PassNumbers, NEW o \in Objects
      PROVE  o \in Seen(p) <=> Takes(p, o) /\ p <= pass
  <2>1. /\ Takes(pass, o) => PASSCMP(rank[o], pass)
        /\ rank[o] \in Nat /\ first_used[pass] \in Nat /\ last_used[pass] \in Nat
    <3>1. /\ rank[o] \in 0 .. N /\ pass \in PassNumbers
          /\ first_used[pass] \in Nat /\ last_used[pass] \in Nat
      BY <1>1, NAssumption DEF SInv, STypes, RInv, TypeOK
    <3>2. Takes(pass, o) => first_used[pass] <= rank[o] /\ rank[o] <= last_used[pass]
      BY <1>1, <3>1 DEF SInv, Indexes
    <3> QED
      BY <3>1, <3>2, NAssumption DEF PASSCMP
  <2>2. Takes(pass, o) => Before(rank[o], pass)
    BY <1>1, <2>1 DEF PASSCMP, Before
  <2>3. p < pass \/ p = pass <=> p <= pass
    BY <1>1 DEF PassNumbers
  <2> QED
    BY <1>1, <2>2, <2>3 DEF SInv, Progress
<1>4. CASE pass < 2
  <2> DEFINE q == pass + 1
  <2>1. /\ stage' = "sweep" /\ pass' = q /\ i' = PASSINIT(q) /\ q \in PassNumbers
        /\ list' = IF PASSCMP(PASSINIT(q), q) THEN ordinal[q][PASSINIT(q)] ELSE {}
    BY <1>1, <1>4 DEF NextPass, Enter, PassNumbers
  <2>2. /\ PASSINIT(q) = IF q % 2 = 1 THEN first_used[q] ELSE last_used[q]
        /\ first_used[q] \in Nat /\ last_used[q] \in 0 .. N
    BY <2>1 DEF PASSINIT, SInv, STypes
  <2>3. PASSINIT(q) \in Int /\ IF q % 2 = 1 THEN PASSINIT(q) >= 0 ELSE PASSINIT(q) <= N
    BY <2>2, NAssumption
  <2>4. /\ \A o \in list' : o \in Objects /\ Takes(q, o) /\ rank[o] = i'
        /\ \A o \in Objects : Takes(q, o) =>
             /\ PASSCMP(rank[o], q)
             /\ rank[o] = i' => o \in list'
    <3> HIDE DEF q
    <3> QED
      BY <1>1, <2>1, <2>3, Entered
  <2>5. STypes' /\ Settled' /\ Indexes' /\ Distinct'
    BY <1>1, <1>2, <2>1, <2>3, <2>4 DEF SInv, STypes, Settled, Indexes, Distinct, Idle
  <2>6. \A o \in Objects : Takes(q, o) => IF q % 2 = 1 THEN ~(rank[o] < i') ELSE ~(rank[o] > i')
    <3> SUFFICES ASSUME NEW o \in Objects, Takes(q, o)
                 PROVE  IF q % 2 = 1 THEN ~(rank[o] < i') ELSE ~(rank[o] > i')
      OBVIOUS
    <3>1. first_used[q] <= rank[o] /\ rank[o] <= last_used[q] /\ rank[o] \in Int
      <4>1. rank[o] \in 0 .. N
        BY DEF SInv, RInv, TypeOK
      <4> HIDE DEF q
      <4> QED
        BY <1>1, <2>1, <4>1, NAssumption DEF SInv, Indexes
    <3>2. i' = (IF q % 2 = 1 THEN first_used[q] ELSE last_used[q]) /\ i' \in Int
      BY <2>1, <2>2, <2>3
    <3> HIDE DEF q
    <3> QED
      BY <2>2, <3>1, <3>2, NAssumption
  <2>7. \A p \in PassNumbers : p <= pass <=> p < q
    BY <1>1 DEF PassNumbers
  <2>8. ASSUME NEW p \in PassNumbers, NEW o \in Objects
        PROVE  o \in Seen(p)' <=>
                 /\ Takes(p, o)
                 /\ \/ p < q
                    \/ p = q /\ (Before(rank[o], p)' \/ (rank[o] = i' /\ o \notin list'))
    <3>1. o \in Seen(p)' <=> Takes(p, o) /\ p < q
      BY <1>1, <1>3, <2>7 DEF Seen
    <3>2. p = q /\ Takes(p, o) => ~Before(rank[o], p)' /\ ~(rank[o] = i' /\ o \notin list')
      BY <1>2, <2>1, <2>4, <2>6 DEF Before
    <3> QED
      BY <3>1, <3>2
  <2>9. Progress'
    BY <1>2, <2>1, <2>3, <2>4, <2>8 DEF Progress, Takes, Before
  <2> QED
    BY <1>2, <2>5, <2>9 DEF SInv
<1>5. CASE ~(pass < 2)
  <2>1. stage' = "done" /\ UNCHANGED <<pass, i, list>> /\ pass = 2
    BY <1>1, <1>5 DEF NextPass
  <2>2. \A p \in PassNumbers : p <= pass
    BY <2>1 DEF PassNumbers
  <2>3. STypes' /\ Settled' /\ Indexes' /\ Distinct'
    BY <1>1, <1>2, <2>1 DEF SInv, STypes, Settled, Indexes, Distinct, Idle
  <2>4. Progress'
    BY <1>1, <1>3, <2>1, <2>2 DEF Progress, Seen, Takes
  <2> QED
    BY <1>2, <2>3, <2>4 DEF SInv
<1> QED
  BY <1>4, <1>5

LEMMA PassingKeeps == SInv /\ [PNext]_vars => SInv'
<1> SUFFICES ASSUME SInv, [PNext]_vars PROVE SInv'
  OBVIOUS
<1>1. CASE Ranking /\ UNCHANGED <<stage, pass, ptr, index, sweep>>
  BY <1>1, RankingSettled
<1>2. CASE UNCHANGED vars
  BY <1>2, RankingSettled DEF vars
<1> QED
  BY <1>1, <1>2, InsertKeeps, IndexedKeeps, VisitKeeps, NextRankKeeps, NextPassKeeps
     DEF PNext, Passing, Done

(* The types of the ranks and of the calls that set them.                  *)
THEOREM RankTypes == PSpec => []TypeOK
<1>1. PInit => RInv
  BY RanksInit DEF PInit
<1>2. RInv /\ [PNext]_vars => RInv'
  BY RankingKeeps, NextRanks
<1>3. RInv => TypeOK
  BY DEF RInv
<1> QED
  BY <1>1, <1>2, <1>3, PTL DEF PSpec

(* Whatever the file and the modules call, and whichever of the calls      *)
(* fail, an object stays below its parent as long as the last call for     *)
(* that link did not fail on it.                                           *)
THEOREM ParentsStayHigher == PSpec => []ParentsRankHigher
<1>1. PInit => RInv
  BY RanksInit DEF PInit
<1>2. RInv /\ [PNext]_vars => RInv'
  BY RankingKeeps, NextRanks
<1>3. RInv => ParentsRankHigher
  BY DEF RInv, Higher, ParentsRankHigher
<1> QED
  BY <1>1, <1>2, <1>3, PTL DEF PSpec

(* No call lowers a rank.                                                  *)
THEOREM RanksOnlyRise == PSpec => RanksNeverFall
<1>1. PInit => RInv
  BY RanksInit DEF PInit
<1>2. RInv /\ [PNext]_vars => RInv'
  BY RankingKeeps, NextRanks
<1>3. RInv /\ [PNext]_vars => [\A o \in Objects : rank'[o] >= rank[o]]_rankVars
  <2> SUFFICES ASSUME RInv, [PNext]_vars PROVE [\A o \in Objects : rank'[o] >= rank[o]]_rankVars
    OBVIOUS
  <2>1. CASE Climb
    BY <2>1 DEF Climb, Raised, RInv, TypeOK, Idle, None, Objects
  <2>2. CASE rank' = rank
    BY <2>2 DEF RInv, TypeOK
  <2> QED
    BY <2>1, <2>2, NextRanks DEF Ranking, rankVars, load, walk, SetRank, Fail, LoadRank, LoadDone,
       Resolve, ResolveDone, Establish, ModuleCall, InitDone, object_set_rank, object_set_dependent
<1> QED
  BY <1>1, <1>2, <1>3, PTL DEF PSpec, RanksNeverFall

(* greatest one.                                                           *)
LEMMA LeastNumber ==
    ASSUME NEW S \in SUBSET Nat, S # {}
    PROVE  \E x \in S : \A y \in S : x <= y
<1> DEFINE T == {0..x : x \in S}
<1>1. T \subseteq FiniteSubsetsOf(Nat) /\ T # {}
  <2>1. \A x \in S : IsFiniteSet(0..x)
    BY FS_Interval
  <2>2. \A x \in S : 0..x \in FiniteSubsetsOf(Nat)
    BY <2>1 DEF FiniteSubsetsOf
  <2> QED
    BY <2>2
<1>2. PICK m \in T : \A y \in T : ~(<<y, m>> \in StrictSubsetOrdering(Nat))
  BY <1>1, FS_StrictSubsetOrderingWellFounded, WFMin
<1>3. PICK x \in S : m = 0..x
  BY <1>2
<1>4. ASSUME NEW y \in S PROVE x <= y
  <2>1. 0..y \in T /\ 0..y \in SUBSET Nat /\ 0..x \in SUBSET Nat
    OBVIOUS
  <2>2. ~(0..y \subseteq 0..x /\ 0..y # 0..x)
    BY <1>2, <1>3, <2>1 DEF StrictSubsetOrdering
  <2>3. y < x => 0..y \subseteq 0..x /\ x \in 0..x /\ x \notin 0..y
    OBVIOUS
  <2> QED
    BY <2>2, <2>3
<1> QED
  BY <1>4

(* The chain of parents from o, over n links.                              *)
Follows(o, f, n) ==
    f = [k \in 0..n |-> IF k = 0 THEN o ELSE IF f[k - 1] = None THEN None ELSE parent[f[k - 1]]]

LEMMA ChainExists == \A o \in Objects : \E f : Follows(o, f, N)
<1> SUFFICES ASSUME NEW o \in Objects PROVE \E f : Follows(o, f, N)
  OBVIOUS
<1> DEFINE S == {n \in Nat : \E f : Follows(o, f, n)}
<1>1. ASSUME NEW n \in S PROVE n + 1 \in S
  <2>1. PICK f : Follows(o, f, n)
    OBVIOUS
  <2>5. \A k \in 0..n : f[k] = IF k = 0 THEN o ELSE IF f[k - 1] = None THEN None ELSE parent[f[k - 1]]
    BY <2>1 DEF Follows
  <2> DEFINE up == IF f[n] = None THEN None ELSE parent[f[n]]
             g == [k \in 0..n + 1 |-> IF k = n + 1 THEN up ELSE f[k]]
  <2>2. n + 1 \in Nat /\ 0 \in 0..n /\ \A k \in 0..n : g[k] = f[k]
    OBVIOUS
  <2>3. ASSUME NEW k \in 0..n + 1
        PROVE  g[k] = IF k = 0 THEN o ELSE IF g[k - 1] = None THEN None ELSE parent[g[k - 1]]
    <3>1. CASE k = n + 1
      <4>1. k # 0 /\ k - 1 = n /\ g[n] = f[n] /\ g[k] = up
        BY <3>1, <2>2
      <4> QED
        BY <4>1
    <3>2. CASE k \in 1..n
      <4>1. f[k] = IF f[k - 1] = None THEN None ELSE parent[f[k - 1]]
        BY <2>5, <3>2
      <4>2. g[k] = f[k] /\ g[k - 1] = f[k - 1]
        BY <3>2, <2>2
      <4> QED
        BY <3>2, <4>1, <4>2
    <3>3. CASE k = 0
      <4>1. f[0] = o
        BY <2>5, <2>2
      <4> QED
        BY <3>3, <4>1, <2>2
    <3> QED
      BY <3>1, <3>2, <3>3
  <2>4. Follows(o, g, n + 1)
    <3> HIDE DEF up
    <3>1. g = [k \in 0..n + 1 |-> g[k]]
      OBVIOUS
    <3> HIDE DEF g
    <3> QED
      BY <2>3, <3>1 DEF Follows
  <2> QED
    BY <2>2, <2>4
<1>2. 0 \in S
  <2> DEFINE f == [k \in 0..0 |-> o]
  <2>1. \A k \in 0..0 : k = 0
    OBVIOUS
  <2>2. Follows(o, f, 0)
    BY <2>1 DEF Follows
  <2> QED
    BY <2>2
<1> HIDE DEF S
<1>3. Nat \subseteq S
  <2> SUFFICES ASSUME Nat \ S # {} PROVE FALSE
    OBVIOUS
  <2>1. PICK x \in Nat \ S : \A y \in Nat \ S : x <= y
    BY LeastNumber
  <2>2. x # 0 /\ x - 1 \in Nat /\ x - 1 \in S
    BY <1>2, <2>1
  <2>3. (x - 1) + 1 \in S
    BY <1>1, <2>2
  <2> QED
    BY <2>1, <2>3
<1> QED
  BY <1>3, NAssumption DEF S

LEMMA UpFollows ==
    ASSUME NEW o \in Objects
    PROVE  /\ Up(o)[0] = o
           /\ \A k \in 1..N : Up(o)[k] = IF Up(o)[k - 1] = None THEN None ELSE parent[Up(o)[k - 1]]
<1> DEFINE up == CHOOSE f : Follows(o, f, N)
<1>1. Up(o) = up
  BY DEF Up, Follows
<1>2. Follows(o, up, N)
  <2>1. \E f : Follows(o, f, N)
    BY ChainExists
  <2> QED
    BY <2>1
<1> HIDE DEF up
<1> QED
  BY <1>1, <1>2, NAssumption DEF Follows

(* A mark is of the open call or was left by one that failed, and from each*)
(* object the open call is at work on the chain of parents leads to the one*)
(* it is at, in no more links than there are such objects.                 *)
Marks ==
    /\ Idle => trail = {}
    /\ flagged \subseteq stale \union trail
    /\ first # None => first \in trail
    /\ \A t \in trail : \E k \in 1..Cardinality(trail) : Up(t)[k] = at

LEMMA FewObjects ==
    ASSUME NEW T \in SUBSET Objects
    PROVE  IsFiniteSet(T) /\ Cardinality(T) \in 0..N
<1>1. IsFiniteSet(1..N) /\ Cardinality(1..N) = N
  BY FS_Interval, NAssumption
<1>2. IsFiniteSet(T) /\ Cardinality(T) <= Cardinality(1..N)
  BY <1>1, FS_Subset DEF Objects
<1> QED
  BY <1>1, <1>2, FS_CardinalityType, NAssumption

LEMMA ClimbMarks == ASSUME RInv, RInv', Marks, Climb PROVE Marks'
<1>1. at \in Objects /\ at \notin flagged /\ at \notin trail /\ at # None
  BY DEF Climb, Fails, RInv, TypeOK, Idle
<1>2. UNCHANGED <<parent, stale>>
  BY DEF Climb
<1>3. CASE parent[at] = None
  BY <1>1, <1>2, <1>3 DEF Climb, Marks, Cleared, Idle
<1>4. CASE parent[at] # None
  <2>1. /\ at' = parent[at] /\ at' # None
        /\ first' = (IF first = None THEN at ELSE first)
        /\ flagged' = flagged \union {at} /\ trail' = trail \union {at}
    BY <1>4 DEF Climb
  <2>2. Cardinality(trail) \in Nat /\ Cardinality(trail') = Cardinality(trail) + 1 /\ Cardinality(trail') <= N
    <3>1. trail \in SUBSET Objects /\ trail' \in SUBSET Objects
      BY DEF RInv, TypeOK
    <3> QED
      BY <1>1, <2>1, <3>1, FewObjects, FS_AddElement
  <2>3. ASSUME NEW t \in trail' PROVE \E k \in 1..Cardinality(trail') : Up(t)'[k] = at'
    <3>1. t \in Objects /\ Up(t)' = Up(t)
      BY <1>1, <1>2, <2>1 DEF RInv, TypeOK, Up
    <3>2. CASE t = at
      <4>1. Up(t)[0] = t /\ 1 \in 1..N /\ Up(t)[1] = parent[at]
        BY <1>1, <3>1, <3>2, UpFollows, NAssumption
      <4> QED
        BY <2>1, <2>2, <3>1, <4>1
    <3>3. CASE t \in trail
      <4>1. PICK k \in 1..Cardinality(trail) : Up(t)[k] = at
        BY <3>3 DEF Marks
      <4>2. k + 1 \in 1..N /\ (k + 1) - 1 = k /\ k + 1 \in 1..Cardinality(trail')
        BY <2>2, NAssumption
      <4>3. Up(t)[k + 1] = parent[at]
        BY <1>1, <3>1, <4>1, <4>2, UpFollows
      <4> QED
        BY <2>1, <3>1, <4>2, <4>3
    <3> QED
      BY <2>1, <3>2, <3>3
  <2> QED
    BY <1>2, <2>1, <2>3 DEF Marks, Idle
<1> QED
  BY <1>3, <1>4

LEMMA RankingMarks == ASSUME RInv, RInv', Marks, [Ranking]_rankVars PROVE Marks'
<1>1. CASE Climb
  BY <1>1, ClimbMarks
<1>2. CASE Fail
  BY <1>2 DEF Fail, Marks, Idle
<1>3. CASE UNCHANGED <<parent, walk>>
  <2>1. \A t \in trail : Up(t)' = Up(t)
    BY <1>3 DEF Up
  <2> QED
    BY <1>3, <2>1 DEF Marks, Idle, walk
<1>4. CASE Idle /\ UNCHANGED <<flagged, trail, stale>> /\ first' = None
  BY <1>4 DEF Marks
<1>5. ASSUME Idle, walk' = walk PROVE UNCHANGED <<flagged, trail, stale>> /\ first' = first
  BY <1>5 DEF walk
<1>6. Idle => trail = {}
  BY DEF Marks
<1>7. CASE Idle /\ walk' = walk
  BY <1>6, <1>7 DEF Marks, walk, Idle
<1> QED
  BY <1>1, <1>2, <1>3, <1>4, <1>7 DEF Ranking, rankVars, load, SetRank, LoadRank, LoadDone, Resolve,
     ResolveDone, Establish, ModuleCall, InitDone, object_set_rank, object_set_parent,
     object_set_dependent, Call

(* set_rank fails for a reason only: there is no rank left, the chain of   *)
(* parents is a loop, or it came to a mark that an earlier failure left    *)
(* behind; the marks of a call that ended well are gone.                   *)
THEOREM FailuresHaveReasons == PSpec => []FailuresExplained
<1>1. PInit => RInv /\ Marks
  BY RanksInit DEF PInit, Init, Marks
<1>2. RInv /\ [PNext]_vars => RInv'
  BY RankingKeeps, NextRanks
<1>3. RInv /\ RInv' /\ Marks /\ [PNext]_vars => Marks'
  BY RankingMarks, NextRanks
<1>4. RInv /\ Marks => FailuresExplained
  <2> SUFFICES ASSUME RInv, Marks, ~Idle, Fails(at), want < N, at \notin stale PROVE InLoop(at)
    BY NAssumption DEF FailuresExplained, RInv, TypeOK
  <2>1. at \in trail
    BY NAssumption DEF Fails, Marks, RInv, TypeOK, Idle
  <2>2. PICK k \in 1..Cardinality(trail) : Up(at)[k] = at
    BY <2>1 DEF Marks
  <2>3. k \in 1..N
    <3>1. trail \in SUBSET Objects
      BY DEF RInv, TypeOK
    <3> QED
      BY <3>1, FewObjects, NAssumption
  <2> QED
    BY <2>2, <2>3 DEF InLoop
<1> QED
  BY <1>1, <1>2, <1>3, <1>4, PTL DEF PSpec

(* On the way down parents come before their children, on the way up       *)
(* children before their parents, in every pass both take part in.         *)
THEOREM ParentsComeInOrder == PSpec => []ParentsInOrder
<1>1. SInv => ParentsInOrder
  <2> SUFFICES ASSUME SInv, NEW p \in PassNumbers, NEW o \in linked \ broken,
                      Takes(p, o), Takes(p, parent[o])
               PROVE  IF p % 2 = 1 THEN parent[o] \in Seen(p) => o \in Seen(p)
                                   ELSE o \in Seen(p) => parent[o] \in Seen(p)
    BY DEF ParentsInOrder, Takes, Seen
  <2>1. o \in Objects /\ parent[o] \in Objects
    BY DEF SInv, RInv, TypeOK, Links
  <2>2. CASE stage = "index"
    BY <2>2 DEF SInv, Progress, Seen, ToSet
  <2>3. CASE stage = "done"
    BY <2>1, <2>3 DEF SInv, Progress
  <2>4. CASE stage = "sweep"
    <3>1. rank[o] < rank[parent[o]]
      BY <2>4 DEF SInv, Settled, RInv, Higher
    <3>2. rank[o] \in Int /\ rank[parent[o]] \in Int /\ i \in Int
      BY <2>1, NAssumption DEF SInv, STypes, RInv, TypeOK
    <3>3. /\ o \in Seen(p) <=>
               p < pass \/ (p = pass /\ (Before(rank[o], p) \/ (rank[o] = i /\ o \notin list)))
          /\ parent[o] \in Seen(p) <=>
               p < pass \/ (p = pass /\ (Before(rank[parent[o]], p)
                                          \/ (rank[parent[o]] = i /\ parent[o] \notin list)))
      BY <2>1, <2>4 DEF SInv, Progress
    <3> QED
      BY <3>1, <3>2, <3>3 DEF Before
  <2> QED
    BY <2>2, <2>3, <2>4 DEF SInv, STypes
<1> QED
  BY <1>1, SweepInit, PassingKeeps, PTL DEF PSpec

(* An iteration that is done has synchronised every object exactly once in *)
(* each of its passes.                                                     *)
THEOREM EachVisitedOnce == PSpec => []VisitedOnce
<1>1. SInv => VisitedOnce
  <2> SUFFICES ASSUME SInv, stage = "done", NEW p \in PassNumbers
               PROVE  /\ IsInjective(visited[p])
                      /\ ToSet(visited[p]) = {o \in Objects : p \in PassConfig[o]}
    BY DEF VisitedOnce
  <2>1. ToSet(visited[p]) \subseteq Objects
    BY DEF SInv, STypes, ToSet
  <2>2. \A o \in Objects : o \in ToSet(visited[p]) <=> p \in PassConfig[o]
    BY DEF SInv, Progress, Seen, Takes
  <2> QED
    BY <2>1, <2>2 DEF SInv, Distinct
<1> QED
  BY <1>1, SweepInit, PassingKeeps, PTL DEF PSpec

-----------------------------------------------------------------------------
(* Checkpoints.  The handlers may be anything here.                        *)

Horizon == LastTime + 1
Elsewhere == {"init", "init objects", "init caught", "loop", "sync", "unit", "unit caught", "commit",
              "commit caught", "stop", "halt", "done", "exit", "lost", "killed"}

Types ==
    /\ pc \in Elsewhere \union {"open", "write"} /\ checkpoint_keepall \in BOOLEAN
    /\ now \in 0..Horizon /\ last_checkpoint \in Nat
    /\ fn \in Seqs \union {NoFile} /\ checkpoint_seqnum \in Nat
    /\ disk \in [Seqs -> {"absent", "partial", "complete"}]
    /\ saved \in [Seqs -> 0..Horizon] /\ writer \in [Seqs -> Nat]
    /\ run \in Nat /\ made \in Nat \union {NoFile}

(* Without checkpoint_keepall what this run has written is the file it     *)
(* remembers, or nothing while that is being replaced.                     *)
Own == {s \in Seqs : disk[s] # "absent" /\ writer[s] = run}
Remembered ==
    ~checkpoint_keepall =>
        /\ Own \subseteq {fn}
        /\ pc = "open" => Own = {}
Earlier == \A s \in Seqs : writer[s] <= run

(* The numbers to come are of no complete file.                            *)
Fresh ==
    /\ \A s \in Complete : s < checkpoint_seqnum
    /\ pc = "write" => fn \in Seqs /\ disk[fn] # "complete" /\ fn < checkpoint_seqnum

(* What is being written is due, and due is counted from the last attempt, *)
(* which is not before the last success.                                   *)
Recent ==
    /\ made # NoFile => made <= last_checkpoint
    /\ pc \in {"open", "write"} => last_checkpoint + Interval <= now

IInv == Types /\ Remembered /\ Earlier /\ Fresh /\ Recent

ProgressStep == checkpoint_keepall => Newest' >= Newest
SpacedStep == made # NoFile /\ made' # made /\ made' # NoFile => made' >= made + Interval

LEMMA Bounds == Interval \in Nat \ {0} /\ LastTime \in Nat /\ MaxSeq \in Nat /\ Horizon \in Nat
BY BoundsAssumption DEF Horizon

LEMMA InitIInv == RunInit => IInv
<1> SUFFICES ASSUME RunInit PROVE IInv
  OBVIOUS
<1>1. Types
  BY Bounds DEF RunInit, Types, Elsewhere, Seqs, NoFile, Horizon
<1> QED
  BY <1>1 DEF RunInit, IInv, Remembered, Own, Earlier, Fresh, Complete, Recent, NoFile

-----------------------------------------------------------------------------
(* The greatest of some bounded numbers is one of them.                    *)
LEMMA Greatest ==
    ASSUME NEW K \in Nat, NEW S \in SUBSET (0..K), S # {}
    PROVE  Max(S) \in S /\ \A y \in S : y <= Max(S)
<1> DEFINE T == {x..K : x \in S}
<1>1. T \subseteq FiniteSubsetsOf(Nat) /\ T # {}
  <2>1. \A x \in S : IsFiniteSet(x..K) /\ x..K \subseteq Nat
    BY FS_Interval
  <2>2. \A x \in S : x..K \in FiniteSubsetsOf(Nat)
    BY <2>1 DEF FiniteSubsetsOf
  <2> QED
    BY <2>2
<1>2. PICK m \in T : \A y \in T : ~(<<y, m>> \in StrictSubsetOrdering(Nat))
  BY <1>1, FS_StrictSubsetOrderingWellFounded, WFMin
<1>3. PICK x \in S : m = x..K
  BY <1>2
<1>4. ASSUME NEW y \in S PROVE y <= x
  <2>1. y..K \in T /\ y..K \in SUBSET Nat /\ x..K \in SUBSET Nat
    OBVIOUS
  <2>2. ~(y..K \subseteq x..K /\ y..K # x..K)
    BY <1>2, <1>3, <2>1 DEF StrictSubsetOrdering
  <2>3. y > x => y..K \subseteq x..K /\ x \in x..K /\ x \notin y..K
    OBVIOUS
  <2> QED
    BY <2>2, <2>3
<1> QED
  BY <1>4 DEF Max

(* More to choose from, no less to find.                                   *)
LEMMA MaxGrows ==
    ASSUME NEW K \in Nat, NEW S \in SUBSET (0..K), NEW R \in SUBSET (0..K), S \subseteq R, S # {}
    PROVE  Max(R) >= Max(S)
BY Greatest

LEMMA NewestGrows ==
    ASSUME Types, Types', \A s \in Complete : s \in Complete' /\ saved'[s] = saved[s]
    PROVE  Newest' >= Newest
<1> DEFINE S == {saved[s] : s \in Complete}
           R == {saved'[s] : s \in Complete'}
<1>1. S \in SUBSET (0..Horizon) /\ R \in SUBSET (0..Horizon)
  BY DEF Types, Complete
<1>2. S \subseteq R
  OBVIOUS
<1>3. CASE Complete = {}
  <2>1. Complete' # {} => Max(R) \in 0..Horizon
    <3> SUFFICES ASSUME Complete' # {} PROVE Max(R) \in 0..Horizon
      OBVIOUS
    <3>1. R # {}
      OBVIOUS
    <3> HIDE DEF R
    <3> QED
      BY <1>1, <3>1, Greatest, Bounds
  <2> QED
    BY <1>3, <2>1 DEF Newest
<1>4. CASE Complete # {}
  <2>1. S # {} /\ Complete' # {}
    BY <1>4
  <2>2. Max(R) >= Max(S)
    <3> HIDE DEF R, S
    <3> QED
      BY <1>1, <1>2, <2>1, MaxGrows, Bounds
  <2> QED
    BY <1>4, <2>1, <2>2 DEF Newest
<1> QED
  BY <1>3, <1>4

-----------------------------------------------------------------------------
(* The steps.                                                              *)
Kept == ProgressStep /\ SpacedStep

LEMMA Thrown ==
    ASSUME Types, THROW, pc \in {"init objects", "unit", "sync", "commit", "done"}
    PROVE  pc' \in Elsewhere
<1>1. OnStack(pc) \subseteq {"init_all", "unit_find", "commit_all", "exec_start"}
  <2>1. CASE pc = "init objects"
    BY <2>1 DEF OnStack
  <2>2. CASE pc = "unit"
    BY <2>2 DEF OnStack
  <2>3. CASE pc = "commit"
    BY <2>3 DEF OnStack
  <2>4. CASE pc = "sync"
    BY <2>4 DEF OnStack
  <2>5. CASE pc = "done"
    BY <2>5 DEF OnStack
  <2> QED
    BY <2>1, <2>2, <2>3, <2>4, <2>5
<1>2. \A f \in {"init_all", "unit_find", "commit_all", "exec_start"} : CATCH[f] \in Elsewhere
  <2>1. CATCH["init_all"] = "init caught" /\ CATCH["unit_find"] = "unit caught"
    BY DEF CATCH
  <2>2. CATCH["commit_all"] = "commit caught" /\ CATCH["exec_start"] = "halt"
    BY DEF CATCH
  <2> QED
    BY <2>1, <2>2 DEF Elsewhere
<1>3. "exit" \in Elsewhere /\ "lost" \in Elsewhere
  BY DEF Elsewhere
<1> QED
  BY <1>1, <1>2, <1>3 DEF THROW

(* Steps that have nothing to do with checkpoints.                         *)
LEMMA QuietStep ==
    ASSUME IInv, pc' \in Elsewhere, UNCHANGED <<memory, files, world>>, now' \in 0..Horizon
    PROVE  IInv' /\ Kept
<1>1. /\ checkpoint_keepall' = checkpoint_keepall /\ run' = run /\ disk' = disk /\ saved' = saved
      /\ writer' = writer /\ made' = made /\ fn' = fn /\ last_checkpoint' = last_checkpoint
      /\ checkpoint_seqnum' = checkpoint_seqnum /\ pc' \notin {"open", "write"}
  BY DEF memory, files, world, Elsewhere
<1>2. Types'
  BY <1>1 DEF IInv, Types
<1>3. Complete' = Complete /\ Own' = Own
  BY <1>1 DEF Complete, Own
<1>4. Newest' >= Newest
  BY <1>1, <1>2, <1>3, NewestGrows DEF IInv
<1> QED
  BY <1>1, <1>2, <1>3, <1>4 DEF IInv, Remembered, Earlier, Fresh, Recent, Kept, ProgressStep, SpacedStep

LEMMA NotDueStep == ASSUME IInv, NotDue, UNCHANGED world PROVE IInv' /\ Kept
<1>1. /\ checkpoint_keepall' = checkpoint_keepall /\ run' = run /\ disk' = disk /\ saved' = saved
      /\ writer' = writer /\ made' = made /\ fn' = fn /\ checkpoint_seqnum' = checkpoint_seqnum
      /\ now' = now /\ pc = "loop" /\ pc' = "sync"
  BY DEF NotDue, Begun, files, world
<1>2. last_checkpoint' \in Nat /\ last_checkpoint' >= last_checkpoint
  BY DEF NotDue, Begun, Latest, IInv, Types
<1>3. Types'
  BY <1>1, <1>2 DEF IInv, Types, Elsewhere
<1>4. Complete' = Complete /\ Own' = Own
  BY <1>1 DEF Complete, Own
<1>5. Newest' >= Newest
  BY <1>1, <1>3, <1>4, NewestGrows DEF IInv
<1>6. made # NoFile => made <= last_checkpoint'
  BY <1>2 DEF IInv, Recent, Types, NoFile
<1> QED
  BY <1>1, <1>3, <1>4, <1>5, <1>6 DEF IInv, Remembered, Earlier, Fresh, Recent, Kept, ProgressStep, SpacedStep
LEMMA UnlinkStep == ASSUME IInv, Unlink, UNCHANGED world PROVE IInv' /\ Kept
<1>1. /\ checkpoint_keepall' = checkpoint_keepall /\ run' = run /\ saved' = saved
      /\ writer' = writer /\ made' = made /\ fn' = fn /\ checkpoint_seqnum' = checkpoint_seqnum
      /\ now' = now /\ pc = "loop" /\ pc' = "open" /\ last_checkpoint' = Latest
      /\ disk' = IF Obsolete THEN [disk EXCEPT ![fn] = "absent"] ELSE disk
  BY DEF Unlink, Begun, world
<1>2. Latest \in Nat /\ Latest >= last_checkpoint /\ Latest + Interval <= now
  BY DEF Unlink, Lapsed, Latest, IInv, Types
<1>3. disk' \in [Seqs -> {"absent", "partial", "complete"}]
  BY <1>1 DEF IInv, Types
<1>4. Types'
  BY <1>1, <1>2, <1>3 DEF IInv, Types
<1>5. Complete' \subseteq Complete /\ (checkpoint_keepall => Complete' = Complete)
  BY <1>1 DEF Complete, Obsolete, IInv, Types
<1>6. ~checkpoint_keepall => Own' = {}
  <2> SUFFICES ASSUME ~checkpoint_keepall PROVE Own' = {}
    OBVIOUS
  <2>1. Own \subseteq {fn} /\ Own \subseteq Seqs
    BY DEF IInv, Remembered, Own
  <2>2. CASE fn = NoFile
    BY <1>1, <2>1, <2>2, Bounds DEF Own, Obsolete, NoFile, Seqs
  <2>3. CASE fn # NoFile
    <3>1. fn \in Seqs /\ disk' = [disk EXCEPT ![fn] = "absent"]
      BY <1>1, <2>3 DEF Obsolete, IInv, Types
    <3> QED
      BY <1>1, <2>1, <3>1 DEF Own, IInv, Types
  <2> QED
    BY <2>2, <2>3
<1>7. checkpoint_keepall => Newest' >= Newest
  BY <1>1, <1>4, <1>5, NewestGrows DEF IInv
<1>8. made # NoFile => made <= Latest
  BY <1>2 DEF IInv, Recent, Types, NoFile
<1> QED
  BY <1>1, <1>2, <1>4, <1>5, <1>6, <1>7, <1>8
     DEF IInv, Remembered, Earlier, Fresh, Recent, Kept, ProgressStep, SpacedStep

LEMMA OpenStep == ASSUME IInv, Open, UNCHANGED world PROVE IInv' /\ Kept
<1>1. /\ checkpoint_keepall' = checkpoint_keepall /\ run' = run /\ saved' = saved /\ made' = made
      /\ checkpoint_seqnum \in Seqs /\ fn' = checkpoint_seqnum /\ checkpoint_seqnum' = checkpoint_seqnum + 1
      /\ now' = now /\ pc = "open" /\ pc' = "write" /\ last_checkpoint' = last_checkpoint
      /\ disk' = [disk EXCEPT ![checkpoint_seqnum] = "partial"]
      /\ writer' = [writer EXCEPT ![checkpoint_seqnum] = run]
  BY DEF Open, Named, Following, world
<1>2. Types'
  BY <1>1 DEF IInv, Types
<1>3. Complete' = Complete
  BY <1>1 DEF Complete, IInv, Types, Fresh
<1>4. Newest' >= Newest
  BY <1>1, <1>2, <1>3, NewestGrows DEF IInv
<1>5. Remembered' /\ Earlier'
  BY <1>1 DEF IInv, Types, Remembered, Own, Earlier
<1>6. Fresh'
  BY <1>1, <1>2, <1>3 DEF IInv, Types, Fresh, Complete, Seqs
<1> QED
  BY <1>1, <1>2, <1>4, <1>5, <1>6 DEF IInv, Recent, Kept, ProgressStep, SpacedStep

LEMMA OpenFailsStep == ASSUME IInv, OpenFails, UNCHANGED world PROVE IInv' /\ Kept
<1>1. /\ checkpoint_keepall' = checkpoint_keepall /\ run' = run /\ disk' = disk /\ saved' = saved
      /\ writer' = writer /\ made' = made
      /\ checkpoint_seqnum \in Seqs /\ fn' = checkpoint_seqnum /\ checkpoint_seqnum' = checkpoint_seqnum + 1
      /\ now' = now /\ pc = "open" /\ pc' = "sync" /\ last_checkpoint' = last_checkpoint
  BY DEF OpenFails, Named, Following, world, files
<1>2. Types'
  BY <1>1 DEF IInv, Types, Elsewhere
<1>3. Complete' = Complete /\ Own' = Own
  BY <1>1 DEF Complete, Own
<1>4. Newest' >= Newest
  BY <1>1, <1>2, <1>3, NewestGrows DEF IInv
<1>5. Fresh'
  BY <1>1, <1>2, <1>3 DEF IInv, Types, Fresh, Complete, Seqs
<1> QED
  BY <1>1, <1>2, <1>3, <1>4, <1>5 DEF IInv, Remembered, Earlier, Recent, Kept, ProgressStep, SpacedStep

LEMMA WriteStep == ASSUME IInv, Write, UNCHANGED world PROVE IInv' /\ Kept
<1>1. /\ checkpoint_keepall' = checkpoint_keepall /\ run' = run /\ writer' = writer /\ fn' = fn
      /\ checkpoint_seqnum' = checkpoint_seqnum
      /\ now' = now /\ pc = "write" /\ pc' = "sync" /\ last_checkpoint' = now /\ made' = now
      /\ disk' = [disk EXCEPT ![fn] = "complete"] /\ saved' = [saved EXCEPT ![fn] = now]
  BY DEF Write, world
<1>2. /\ fn \in Seqs /\ disk[fn] # "complete" /\ fn < checkpoint_seqnum
      /\ last_checkpoint + Interval <= now /\ now \in Nat
  BY <1>1, Bounds DEF IInv, Types, Fresh, Recent
<1>3. Types'
  BY <1>1, <1>2 DEF IInv, Types, Elsewhere
<1>4. \A s \in Complete : s \in Complete' /\ saved'[s] = saved[s]
  BY <1>1, <1>2 DEF Complete, IInv, Types
<1>5. Newest' >= Newest
  BY <1>3, <1>4, NewestGrows DEF IInv
<1>6. Remembered' /\ Earlier'
  BY <1>1, <1>2 DEF IInv, Types, Remembered, Own, Earlier
<1>7. Fresh'
  BY <1>1, <1>2, <1>3 DEF IInv, Types, Fresh, Complete, Seqs
<1>8. SpacedStep
  BY <1>1, <1>2, Bounds DEF SpacedStep, IInv, Types, Recent, NoFile
<1> QED
  BY <1>1, <1>2, <1>3, <1>5, <1>6, <1>7, <1>8 DEF IInv, Recent, Kept, ProgressStep

LEMMA WriteFailsStep == ASSUME IInv, WriteFails, UNCHANGED world PROVE IInv' /\ Kept
<1>1. /\ checkpoint_keepall' = checkpoint_keepall /\ run' = run /\ disk' = disk /\ saved' = saved
      /\ writer' = writer /\ made' = made /\ fn' = fn /\ checkpoint_seqnum' = checkpoint_seqnum
      /\ now' = now /\ pc = "write" /\ pc' = "sync" /\ last_checkpoint' = now
  BY DEF WriteFails, world, files
<1>2. last_checkpoint + Interval <= now /\ now \in Nat
  BY <1>1, Bounds DEF IInv, Types, Recent
<1>3. Types'
  BY <1>1, <1>2 DEF IInv, Types, Elsewhere
<1>4. Complete' = Complete /\ Own' = Own
  BY <1>1 DEF Complete, Own
<1>5. Newest' >= Newest
  BY <1>1, <1>3, <1>4, NewestGrows DEF IInv
<1>6. made # NoFile => made <= now
  BY <1>2, Bounds DEF IInv, Types, Recent, NoFile
<1> QED
  BY <1>1, <1>3, <1>4, <1>5, <1>6 DEF IInv, Remembered, Earlier, Fresh, Recent, Kept, ProgressStep, SpacedStep

LEMMA RestartStep == ASSUME IInv, Restart PROVE IInv' /\ Kept
<1>1. /\ checkpoint_keepall' = checkpoint_keepall /\ run' = run + 1 /\ disk' = disk /\ saved' = saved
      /\ writer' = writer /\ made' = NoFile /\ fn' = NoFile /\ last_checkpoint' = 0 /\ pc' = "init"
      /\ checkpoint_seqnum' = IF Complete = {} THEN 0 ELSE Max(Complete) + 1
      /\ now' = IF checkpoint_type # "sim" THEN now
                ELSE IF Complete = {} THEN 1 ELSE saved[Max(Complete)]
  BY DEF Restart
<1>2. Complete # {} => Max(Complete) \in Complete /\ \A s \in Complete : s <= Max(Complete)
  <2>1. Complete \in SUBSET (0..MaxSeq)
    BY DEF Complete, Seqs
  <2> QED
    BY <2>1, Greatest, Bounds
<1>3. /\ checkpoint_seqnum' \in Nat /\ now' \in 0..Horizon
      /\ \A s \in Complete : s < checkpoint_seqnum'
  <2>1. CASE Complete = {}
    BY <1>1, <2>1, Bounds DEF IInv, Types, Horizon
  <2>2. CASE Complete # {}
    <3>1. Max(Complete) \in 0..MaxSeq /\ \A s \in Complete : s \in Nat /\ s <= Max(Complete)
      BY <1>2, <2>2 DEF Complete, Seqs
    <3>2. saved[Max(Complete)] \in 0..Horizon /\ now \in 0..Horizon
      BY <3>1 DEF IInv, Types, Seqs
    <3>3. checkpoint_seqnum' = Max(Complete) + 1 /\ now' \in {now, saved[Max(Complete)]}
      BY <1>1, <2>2
    <3> HIDE DEF Complete
    <3> QED
      BY <3>1, <3>2, <3>3
  <2> QED
    BY <2>1, <2>2
<1>4. Types'
  <2>1. "init" \in Elsewhere /\ NoFile \in Seqs \union {NoFile} /\ made' \in Nat \union {NoFile}
    BY <1>1 DEF Elsewhere
  <2>2. run' \in Nat /\ last_checkpoint' \in Nat
    BY <1>1 DEF IInv, Types
  <2>3. /\ disk' \in [Seqs -> {"absent", "partial", "complete"}] /\ saved' \in [Seqs -> 0..Horizon]
        /\ writer' \in [Seqs -> Nat] /\ checkpoint_keepall' \in BOOLEAN
    BY <1>1 DEF IInv, Types
  <2> QED
    BY <1>1, <1>3, <2>1, <2>2, <2>3 DEF Types
<1>5. Complete' = Complete
  BY <1>1 DEF Complete
<1>6. Own' = {} /\ Earlier'
  BY <1>1 DEF IInv, Types, Own, Earlier
<1>7. Newest' >= Newest
  BY <1>1, <1>4, <1>5, NewestGrows DEF IInv
<1> QED
  BY <1>1, <1>3, <1>4, <1>5, <1>6, <1>7 DEF IInv, Remembered, Fresh, Recent, Kept, ProgressStep, SpacedStep

LEMMA NextStep ==
    ASSUME IInv, [RunNext]_run_vars
    PROVE  IInv' /\ [ProgressStep]_run_vars /\ [SpacedStep]_run_vars
<1>0. Types
  BY DEF IInv
<1>1. CASE Restart
  BY <1>1, RestartStep DEF Kept
<1>2. CASE do_checkpoint /\ UNCHANGED world
  BY <1>2, NotDueStep, UnlinkStep, OpenStep, OpenFailsStep, WriteStep, WriteFailsStep DEF do_checkpoint, Kept
<1>3. CASE Committed /\ UNCHANGED world
  <2>1. pc' \in Elsewhere /\ now' \in 0..Horizon
    <3>1. pc' \in {"loop", "stop"} /\ now' \in now..LastTime
      BY <1>3 DEF Committed
    <3>2. now \in 0..Horizon
      BY <1>0 DEF Types
    <3>3. now' \in 0..Horizon
      BY <3>1, <3>2, Bounds DEF Horizon
    <3> QED
      BY <3>1, <3>3 DEF Elsewhere
  <2> QED
    BY <1>3, <2>1, QuietStep DEF Committed, Kept
<1>4. CASE (InitFails \/ UnitUnknown \/ SyncFails \/ CommitFails \/ DumpFails) /\ UNCHANGED world
  <2>1. THROW /\ pc \in {"init objects", "unit", "sync", "commit", "done"} /\ UNCHANGED <<memory, files, now>>
    BY <1>4 DEF InitFails, UnitUnknown, SyncFails, CommitFails, DumpFails
  <2>2. pc' \in Elsewhere
    BY <1>0, <2>1, Thrown
  <2>3. now' \in 0..Horizon
    BY <1>0, <2>1 DEF Types
  <2> QED
    BY <1>4, <2>1, <2>2, <2>3, QuietStep DEF Kept
<1>5. CASE /\ \/ InitAll \/ InitCaught \/ Begin \/ UnitFind \/ UnitFound \/ Iterate
              \/ CommitAll \/ ReturnFailed \/ Halt \/ Exit \/ Kill
           /\ UNCHANGED world
  <2>1. pc' \in Elsewhere /\ UNCHANGED <<memory, files, now>>
    BY <1>5 DEF InitAll, InitCaught, Begin, UnitFind, UnitFound, Iterate, CommitAll, ReturnFailed, Halt, Exit,
       Kill, Elsewhere
  <2>2. now' \in 0..Horizon
    BY <1>0, <2>1 DEF Types
  <2> QED
    BY <1>5, <2>1, <2>2, QuietStep DEF Kept
<1>6. CASE UNCHANGED run_vars
  BY <1>6 DEF run_vars, program, memory, files, world, IInv, Types, Remembered, Own, Earlier, Fresh, Complete, Recent
<1> QED
  BY <1>1, <1>2, <1>3, <1>4, <1>5, <1>6 DEF RunNext, unit_find, commit_all

-----------------------------------------------------------------------------
(* The results, about do_checkpoint (exec.c:220-304) and what follows a    *)
(* restart.                                                                *)

(* A run without checkpoint_keepall has one file at a time.                *)
THEOREM OneFileAtATime == RunSpec => []OneFile
<1>1. IInv => OneFile
  <2> SUFFICES ASSUME IInv, ~checkpoint_keepall PROVE Cardinality(Own) <= 1
    BY DEF OneFile, Own
  <2>1. Own \subseteq {fn}
    BY DEF IInv, Remembered
  <2>2. IsFiniteSet({fn}) /\ Cardinality({fn}) = 1
    BY FS_Singleton
  <2>3. IsFiniteSet(Own) /\ Cardinality(Own) <= Cardinality({fn})
    BY <2>1, <2>2, FS_Subset
  <2> QED
    BY <2>2, <2>3
<1>2. RunInit /\ [][RunNext]_run_vars => []IInv
  BY InitIInv, NextStep, PTL
<1> QED
  BY <1>1, <1>2, PTL DEF RunSpec

(* With it the newest readable checkpoint never becomes an older one.      *)
THEOREM ProgressIsKept == RunSpec => ProgressKept
<1>1. RunInit /\ [][RunNext]_run_vars => [][ProgressStep]_run_vars
  BY InitIInv, NextStep, PTL
<1> QED
  BY <1>1, PTL DEF RunSpec, ProgressKept, ProgressStep

(* The checkpoints of a run are an interval apart.                         *)
THEOREM CheckpointsSpaced == RunSpec => Spaced
<1>1. RunInit /\ [][RunNext]_run_vars => [][SpacedStep]_run_vars
  BY InitIInv, NextStep, PTL
<1> QED
  BY <1>1, PTL DEF RunSpec, Spaced, SpacedStep

-----------------------------------------------------------------------------
(* Handlers.  There are never more than two, so that what a push and a pop *)
(* do is said of sequences of one and of two.                              *)
LEMMA SameOne ==
    ASSUME NEW S, NEW s \in Seq(S), NEW t \in Seq(S), Len(s) = 1, Len(t) = 1, s[1] = t[1]
    PROVE  s = t
BY SeqEqual

LEMMA SameTwo ==
    ASSUME NEW S, NEW s \in Seq(S), NEW t \in Seq(S), Len(s) = 2, Len(t) = 2, s[1] = t[1], s[2] = t[2]
    PROVE  s = t
BY SeqEqual

LEMMA One ==
    ASSUME NEW f, NEW s, s = <<f>>
    PROVE  /\ s # <<>> /\ s[1] = f /\ Len(s) = 1
           /\ Min({k \in DOMAIN s : s[k] = f}) = 1
           /\ SubSeq(s, 2, Len(s)) = <<>>
<1>1. {k \in DOMAIN s : s[k] = f} = {1}
  OBVIOUS
<1>2. Min({1}) = 1
  BY DEF Min
<1> QED
  BY <1>1, <1>2

LEMMA Two ==
    ASSUME NEW f, NEW g, f # g, NEW s, s = <<f, g>>
    PROVE  /\ s # <<>> /\ s[1] = f /\ Len(s) = 2
           /\ Min({k \in DOMAIN s : s[k] = f}) = 1
           /\ SubSeq(s, 2, Len(s)) = <<g>>
<1>1. {k \in DOMAIN s : s[k] = f} = {1}
  OBVIOUS
<1>2. Min({1}) = 1
  BY DEF Min
<1>3. SubSeq(s, 2, Len(s)) = <<g>>
  <2>1. /\ SubSeq(s, 2, 2) \in Seq({g}) /\ Len(SubSeq(s, 2, 2)) = 1
        /\ SubSeq(s, 2, 2)[1] = g
    <3>1. \A k \in 2 .. 2 : s[k] \in {g}
      OBVIOUS
    <3>2. s[2] = g
      OBVIOUS
    <3> QED
      BY <3>1, <3>2, SubSeqProperties
  <2>2. <<g>> \in Seq({g}) /\ Len(<<g>>) = 1 /\ <<g>>[1] = g
    OBVIOUS
  <2>3. Len(s) = 2
    OBVIOUS
  <2> QED
    BY <2>1, <2>2, <2>3, SameOne
<1> QED
  BY <1>1, <1>2, <1>3

LEMMA Joined == ASSUME NEW f, NEW g PROVE <<f>> \o <<g>> = <<f, g>>
<1>1. <<f>> \in Seq({f, g}) /\ <<g>> \in Seq({f, g}) /\ <<f, g>> \in Seq({f, g})
  OBVIOUS
<1>2. Len(<<f>>) = 1 /\ Len(<<g>>) = 1 /\ Len(<<f, g>>) = 2
  OBVIOUS
<1>3. <<f>>[1] = f /\ <<g>>[1] = g /\ <<f, g>>[1] = f /\ <<f, g>>[2] = g
  OBVIOUS
<1> DEFINE s == <<f>>
           t == <<g>>
           u == <<f, g>>
<1>4. s \o t \in Seq({f, g}) /\ Len(s \o t) = 2 /\ (s \o t)[1] = s[1] /\ (s \o t)[2] = t[1]
  <2> HIDE DEF s, t
  <2> QED
    BY <1>1, <1>2, ConcatProperties DEF s, t
<1> QED
  BY <1>1, <1>2, <1>3, <1>4, SameTwo

LEMMA Rest ==
    ASSUME NEW f
    PROVE  /\ handlers = <<f>> => SubSeq(handlers, Upto(f) + 1, Len(handlers)) = <<>>
           /\ \A g : f # g /\ handlers = <<f, g>> => SubSeq(handlers, Upto(f) + 1, Len(handlers)) = <<g>>
<1>1. ASSUME handlers = <<f>> PROVE SubSeq(handlers, Upto(f) + 1, Len(handlers)) = <<>>
  <2>1. Upto(f) = 1 /\ SubSeq(handlers, 2, Len(handlers)) = <<>>
    BY <1>1, One DEF Upto
  <2> QED
    BY <2>1
<1>2. ASSUME NEW g, f # g, handlers = <<f, g>> PROVE SubSeq(handlers, Upto(f) + 1, Len(handlers)) = <<g>>
  <2>1. /\ Min({k \in DOMAIN handlers : handlers[k] = f}) = 1
        /\ SubSeq(handlers, 2, Len(handlers)) = <<g>>
    <3> DEFINE s == handlers
    <3>1. s = <<f, g>>
      BY <1>2
    <3> HIDE DEF s
    <3>2. Min({k \in DOMAIN s : s[k] = f}) = 1 /\ SubSeq(s, 2, Len(s)) = <<g>>
      BY <1>2, <3>1, Two
    <3> QED
      BY <3>2 DEF s
  <2>2. Upto(f) = 1
    BY <2>1 DEF Upto
  <2> QED
    BY <2>1, <2>2
<1> QED
  BY <1>1, <1>2

LEMMA Pop ==
    ASSUME NEW f, ENDCATCH(f)
    PROVE  /\ handlers = <<f>> => handlers' = <<>>
           /\ \A g : f # g /\ handlers = <<f, g>> => handlers' = <<g>>
BY Rest DEF ENDCATCH

LEMMA Push ==
    ASSUME NEW f, TRY(f)
    PROVE  /\ handlers = <<>> => handlers' = <<f>>
           /\ \A g : handlers = <<g>> => handlers' = <<f, g>>
<1>1. <<f>> \o <<>> = <<f>>
  OBVIOUS
<1> QED
  BY <1>1, Joined DEF TRY

(* What is thrown is caught by the first handler when its function is on   *)
(* the stack.                                                              *)
LEMMA Caught ==
    ASSUME THROW, NEW f, f \in OnStack(pc),
           handlers = <<f>> \/ (handlers = <<f, "exec_start">> /\ f # "exec_start")
    PROVE  pc' = CATCH[f] /\ handlers' = handlers
<1>1. handlers # <<>> /\ handlers[1] = f
  <2>1. CASE handlers = <<f>>
    BY <2>1, One
  <2>2. CASE handlers = <<f, "exec_start">> /\ f # "exec_start"
    BY <2>2, Two
  <2> QED
    BY <2>1, <2>2
<1> QED
  BY <1>1 DEF THROW

(* The places of the program, one by one.                                  *)
LEMMA HandlersStep == HandlersNest /\ [RunNext]_run_vars => HandlersNest'
<1> SUFFICES ASSUME HandlersNest, [RunNext]_run_vars, ~early', pc' # "killed"
             PROVE  handlers' = Pushed(pc')
  BY DEF HandlersNest
<1> USE DEF HandlersNest
<1>1. CASE InitAll
  <2>1. handlers = <<>> /\ pc' = "init objects" /\ TRY("init_all")
    BY <1>1 DEF InitAll, Pushed
  <2> QED
    BY <2>1, Push DEF Pushed
<1>2. CASE InitFails
  <2>1. pc = "init objects" /\ handlers = <<"init_all">> /\ THROW
    BY <1>2 DEF InitFails, THROW, Pushed
  <2>2. "init_all" \in OnStack(pc) /\ CATCH["init_all"] = "init caught"
    BY <2>1 DEF OnStack, CATCH
  <2>3. pc' = "init caught" /\ handlers' = handlers
    BY <2>1, <2>2, Caught
  <2> QED
    BY <2>1, <2>3 DEF Pushed
<1>3. CASE InitCaught
  <2>1. handlers = <<"init_all">> /\ ENDCATCH("init_all") /\ pc' = "done"
    BY <1>3 DEF InitCaught, Pushed
  <2> QED
    BY <2>1, Pop DEF Pushed
<1>4. CASE Begin
  <2>1. handlers = <<"init_all">> /\ pc' = "loop"
    BY <1>4 DEF Begin, Pushed
  <2>2. handlers' = <<"exec_start">> \o <<>>
    BY <1>4, <2>1, Rest DEF Begin
  <2>3. <<"exec_start">> \o <<>> = <<"exec_start">>
    OBVIOUS
  <2> QED
    BY <2>1, <2>2, <2>3 DEF Pushed
<1>5. CASE do_checkpoint
  <2>1. /\ pc \in {"loop", "open", "write"} /\ pc' \in {"sync", "open", "write"}
        /\ handlers' = handlers /\ early' = early
    BY <1>5 DEF do_checkpoint, NotDue, Unlink, Open, OpenFails, Write, WriteFails, Named, Begun
  <2> QED
    BY <2>1 DEF Pushed
<1>6. CASE UnitFind
  <2>1. handlers = <<"exec_start">> /\ pc' = "unit" /\ TRY("unit_find")
    BY <1>6 DEF UnitFind, Pushed
  <2> QED
    BY <2>1, Push DEF Pushed
<1>7. CASE UnitUnknown
  <2>1. pc = "unit" /\ handlers = <<"unit_find", "exec_start">> /\ THROW
    BY <1>7 DEF UnitUnknown, THROW, Pushed
  <2>2. "unit_find" \in OnStack(pc) /\ CATCH["unit_find"] = "unit caught"
    BY <2>1 DEF OnStack, CATCH
  <2>3. pc' = "unit caught" /\ handlers' = handlers
    BY <2>1, <2>2, Caught
  <2> QED
    BY <2>1, <2>3 DEF Pushed
<1>8. CASE UnitFound
  <2>1. handlers = <<"unit_find", "exec_start">> /\ ENDCATCH("unit_find") /\ pc' = "sync"
    BY <1>8 DEF UnitFound, Pushed
  <2> QED
    BY <2>1, Pop DEF Pushed
<1>9. CASE SyncFails
  <2>1. pc = "sync" /\ handlers = <<"exec_start">> /\ THROW
    BY <1>9 DEF SyncFails, THROW, Pushed
  <2>2. "exec_start" \in OnStack(pc) /\ CATCH["exec_start"] = "halt"
    BY <2>1 DEF OnStack, CATCH
  <2>3. pc' = "halt" /\ handlers' = handlers
    <3>1. handlers # <<>> /\ handlers[1] = "exec_start"
      BY <2>1, One
    <3> QED
      BY <2>1, <2>2, <3>1 DEF THROW
  <2> QED
    BY <2>1, <2>3 DEF Pushed
<1>10. CASE Iterate
  BY <1>10 DEF Iterate, Pushed
<1>11. CASE CommitAll
  <2>1. handlers = <<"exec_start">> /\ pc' = "commit" /\ TRY("commit_all")
    BY <1>11 DEF CommitAll, Pushed
  <2> QED
    BY <2>1, Push DEF Pushed
<1>12. CASE CommitFails
  <2>1. pc = "commit" /\ handlers = <<"commit_all", "exec_start">> /\ THROW
    BY <1>12 DEF CommitFails, THROW, Pushed
  <2>2. "commit_all" \in OnStack(pc) /\ CATCH["commit_all"] = "commit caught"
    BY <2>1 DEF OnStack, CATCH
  <2>3. pc' = "commit caught" /\ handlers' = handlers
    BY <2>1, <2>2, Caught
  <2> QED
    BY <2>1, <2>3 DEF Pushed
<1>13. CASE Committed
  <2>1. handlers = <<"commit_all", "exec_start">> /\ ENDCATCH("commit_all") /\ pc' \in {"loop", "stop"}
    BY <1>13 DEF Committed, Pushed
  <2> QED
    BY <2>1, Pop DEF Pushed
<1>14. CASE ReturnFailed
  BY <1>14 DEF ReturnFailed
<1>15. CASE Halt
  <2>1. handlers = <<"exec_start">> /\ ENDCATCH("exec_start") /\ pc' = "done"
    BY <1>15 DEF Halt, Pushed
  <2> QED
    BY <2>1, Pop DEF Pushed
<1>16. CASE DumpFails
  BY <1>16 DEF DumpFails, THROW, Pushed
<1>17. CASE Exit
  BY <1>17 DEF Exit, Pushed
<1>18. CASE Kill
  BY <1>18 DEF Kill
<1>19. CASE Restart
  BY <1>19 DEF Restart, Pushed
<1>20. CASE UNCHANGED run_vars
  BY <1>20 DEF run_vars, program
<1> QED
  BY <1>1, <1>2, <1>3, <1>4, <1>5, <1>6, <1>7, <1>8, <1>9, <1>10, <1>11, <1>12, <1>13, <1>14,
     <1>15, <1>16, <1>17, <1>18, <1>19, <1>20
  DEF RunNext, commit_all, unit_find

(* A handler is on the list exactly while the function that pushed it is   *)
(* there to catch, unless exec_start has returned inside its TRY.          *)
THEOREM HandlersAreNested == RunSpec => []HandlersNest
<1>1. RunInit => HandlersNest
  BY DEF RunInit, HandlersNest, Pushed
<1> QED
  BY <1>1, HandlersStep, PTL DEF RunSpec
=============================================================================
