------------------------------- MODULE Passes -------------------------------
(***************************************************************************)
(* From ranks to the order of synchronisation (core/exec.c, core/index.c). *)
(* setup_ranks puts the objects that take part in a pass into an index of  *)
(* that pass, a list for every rank; exec_start then goes through the      *)
(* lists of each pass, from the highest rank down in the even passes and   *)
(* from the lowest up in the odd one.  What threads do within a list is    *)
(* RankPool's subject; here its objects are visited in any order, as the   *)
(* index is shuffled.                                                      *)
(*                                                                         *)
(* Definitions named <definition>_<Word> are mutations of the definition   *)
(* that follows them; nothing uses them, and put in its place each of them *)
(* breaks a property of the module.                                        *)
(***************************************************************************)
EXTENDS Ranks, Sequences, SequencesExt

CONSTANTS PassConfig,   \* the passes of an object: oclass->passconfig
          FirstSize     \* ordinals a new index has room for: 10

PassNumbers == 0 .. 2   \* PRETOPDOWN, BOTTOMUP, POSTTOPDOWN

ASSUME PassConfigAssumption == PassConfig \in [Objects -> SUBSET PassNumbers]
ASSUME FirstSizeAssumption  == FirstSize \in Nat \ {0}

VARIABLES
    stage,       \* "index", "sweep", "done"
    pass,        \* the pass being indexed or swept
    ptr,         \* the object being inserted
    size, first_used, last_used, ordinal,  \* the index of each pass
    i,           \* the rank being visited
    list,        \* its objects not yet visited
    visited      \* history: the objects of each pass, as visited

index == <<size, first_used, last_used, ordinal>>
sweep == <<i, list, visited>>
vars  == <<rankVars, stage, pass, ptr, index, sweep>>

PInit ==
    /\ Init
    /\ stage = "index" /\ pass = 0 /\ ptr = 1
    /\ size = [p \in PassNumbers |-> FirstSize]
    /\ first_used = [p \in PassNumbers |-> FirstSize]
    /\ last_used = [p \in PassNumbers |-> 0]
    /\ ordinal = [p \in PassNumbers |-> [r \in 0 .. N |-> {}]]
    /\ i = 0 /\ list = {}
    /\ visited = [p \in PassNumbers |-> <<>>]

-----------------------------------------------------------------------------
(* setup_ranks.                                                            *)

(* An index that is too small doubles until the rank fits.                 *)
Grown(s, r) == CHOOSE n \in {s * 2^k : k \in 0 .. r} :
                 n > r /\ \A k \in 0 .. r : s * 2^k > r => n <= s * 2^k

index_insert(p, o, r) ==
    /\ size' = [size EXCEPT ![p] = Grown(@, r)]
    /\ ordinal' = [ordinal EXCEPT ![p][r] = @ \union {o}]
    /\ first_used' = [first_used EXCEPT ![p] = IF r < @ THEN r ELSE @]
    /\ last_used' = [last_used EXCEPT ![p] = IF r > @ THEN r ELSE @]

Insert ==
    /\ phase = "run" /\ stage = "index" /\ ptr <= N
    /\ IF pass \in PassConfig[ptr]
         THEN index_insert(pass, ptr, rank[ptr])
         ELSE UNCHANGED index
    /\ ptr' = ptr + 1
    /\ UNCHANGED <<rankVars, stage, pass, sweep>>

PASSINIT_Up(p) == first_used[p]
PASSINIT(p) == IF p % 2 = 1 THEN first_used[p] ELSE last_used[p]
PASSCMP(r, p) == IF p % 2 = 1 THEN r <= last_used[p] ELSE r >= first_used[p]
PASSINC(p) == IF p % 2 = 1 THEN 1 ELSE -1

(* Enter rank r of a pass, if the loop goes on.                            *)
Enter(r, p) == i' = r /\ list' = IF PASSCMP(r, p) THEN ordinal[p][r] ELSE {}

(* As Indexed, but the next pass is never come to.                         *)
Indexed_Same ==
    /\ phase = "run" /\ stage = "index" /\ ptr > N
    /\ IF pass < 2
         THEN /\ ptr' = 1
              /\ UNCHANGED <<stage, pass, i, list>>
         ELSE /\ stage' = "sweep" /\ pass' = 0
              /\ Enter(PASSINIT(0), 0)
              /\ UNCHANGED ptr
    /\ UNCHANGED <<rankVars, index, visited>>
Indexed ==
    /\ phase = "run" /\ stage = "index" /\ ptr > N
    /\ IF pass < 2
         THEN /\ pass' = pass + 1 /\ ptr' = 1
              /\ UNCHANGED <<stage, i, list>>
         ELSE /\ stage' = "sweep" /\ pass' = 0
              /\ Enter(PASSINIT(0), 0)
              /\ UNCHANGED ptr
    /\ UNCHANGED <<rankVars, index, visited>>

-----------------------------------------------------------------------------
(* The passes of one iteration of exec_start.                              *)

Visit ==
    /\ stage = "sweep" /\ PASSCMP(i, pass)
    /\ \E o \in list :
         /\ list' = list \ {o}
         /\ visited' = [visited EXCEPT ![pass] = Append(@, o)]
    /\ UNCHANGED <<rankVars, stage, pass, ptr, index, i>>

NextRank ==
    /\ stage = "sweep" /\ PASSCMP(i, pass) /\ list = {}
    /\ Enter(i + PASSINC(pass), pass)
    /\ UNCHANGED <<rankVars, stage, pass, ptr, index, visited>>

NextPass ==
    /\ stage = "sweep" /\ ~PASSCMP(i, pass)
    /\ IF pass < 2
         THEN /\ pass' = pass + 1
              /\ Enter(PASSINIT(pass + 1), pass + 1)
              /\ UNCHANGED stage
         ELSE stage' = "done" /\ UNCHANGED <<pass, i, list>>
    /\ UNCHANGED <<rankVars, ptr, index, visited>>

Done == stage = "done" /\ UNCHANGED vars

Passing == Insert \/ Indexed \/ Visit \/ NextRank \/ NextPass
PNext == (Ranking /\ UNCHANGED <<stage, pass, ptr, index, sweep>>) \/ Passing \/ Done

PSpec == PInit /\ [][PNext]_vars /\ WF_vars(SetRank /\ UNCHANGED <<stage, pass, ptr, index, sweep>>)
               /\ WF_vars(Passing)

-----------------------------------------------------------------------------

(* Every iteration synchronises every object exactly once in each pass of  *)
(* its class, and in no other pass.                                        *)
VisitedOnce ==
    stage = "done" => \A p \in PassNumbers :
        /\ IsInjective(visited[p])
        /\ ToSet(visited[p]) = {o \in Objects : p \in PassConfig[o]}

(* On the way down an object comes after its parent, on the way up before  *)
(* it, whenever both take part in the pass: parents distribute to their    *)
(* children, and collect from them.                                        *)
ParentsInOrder ==
    \A p \in PassNumbers : \A o \in linked \ broken :
        p \in PassConfig[o] /\ p \in PassConfig[parent[o]] =>
            LET seen == ToSet(visited[p]) IN
            IF p % 2 = 1 THEN parent[o] \in seen => o \in seen
                         ELSE o \in seen => parent[o] \in seen

(* set_rank returns, loops of parents or not, and the iteration comes to    *)
(* its end.                                                                *)
SweepEnds == CallsReturn /\ (phase = "run" ~> stage = "done")
=============================================================================
