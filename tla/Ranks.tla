------------------------------- MODULE Ranks --------------------------------
(***************************************************************************)
(* The ranks of objects (core/object.c) and how the loader and the modules *)
(* establish them before the simulation starts.                            *)
(*                                                                         *)
(* A rank says when an object is synchronised: a parent has a higher rank  *)
(* than its children.  set_rank raises the rank of an object and goes up   *)
(* the chain of parents; OF_RERANK marks the objects it is at work on, and *)
(* a chain that comes back to one of them, or to the object it started     *)
(* from, makes it fail.  A recursive call of set_rank is a step here:      *)
(* at, want and first are its arguments.  A call that fails leaves the     *)
(* marks of the objects it came through.                                   *)
(*                                                                         *)
(* Definitions named <definition>_<Word> are mutations of the definition   *)
(* that follows them; nothing uses them, and put in its place each of them *)
(* breaks a property of the module.                                        *)
(***************************************************************************)
EXTENDS Integers, FiniteSets

CONSTANTS N,          \* object_get_count(); objects are numbered as listed
          Files,      \* the references to parents a file may make
          MaxCalls    \* bound on the calls made by the file and by modules

Objects == 1 .. N
None    == 0

ASSUME NAssumption     == N \in Nat \ {0}
ASSUME FilesAssumption == Files \subseteq [Objects -> Objects \union {None}]
ASSUME CallsAssumption == MaxCalls \in Nat

VARIABLES
    phase,     \* "load", "resolve", "establish", "init", then "run"
    todo,      \* references to parents that are still to be resolved
    next,      \* the next object whose rank the loader establishes
    calls,     \* calls made so far by the file and by modules
    parent, rank,   \* obj->parent, obj->rank
    flagged,   \* the objects with OF_RERANK
    at, want, first,  \* the arguments of set_rank, at = None when idle
    trail,     \* the objects its open calls are at work on
    from,      \* history: the object whose parent is at
    linked,    \* history: objects given a parent by object_set_parent
    broken,    \* history: those of them whose last call failed on the link
    stale      \* history: the objects a failed call came through

walk == <<flagged, at, want, first, trail, from, broken, stale>>
load == <<phase, todo, next, calls>>
rankVars == <<load, parent, rank, walk, linked>>

Init ==
    /\ phase = "load" /\ next = 1 /\ calls = 0
    /\ todo \in Files
    /\ parent = [o \in Objects |-> None]
    /\ rank = [o \in Objects |-> 0]
    /\ flagged = {} /\ trail = {}
    /\ at = None /\ want = 0 /\ first = None /\ from = None
    /\ linked = {} /\ broken = {} /\ stale = {}

Idle == at = None

-----------------------------------------------------------------------------
(* set_rank.                                                               *)

(* Call set_rank(o, r, NULL) on behalf of the parent link of child.        *)
Call(o, r, child) ==
    /\ at' = o /\ want' = r /\ first' = None /\ from' = child
    /\ UNCHANGED <<flagged, trail, broken, stale>>

Fails(o) == want >= N \/ o = first \/ o \in flagged
Raised_Equal(o) == IF want > rank[o] THEN want + 1 ELSE rank[o]
Raised(o) == IF want >= rank[o] THEN want + 1 ELSE rank[o]

Cleared == flagged \ (trail \union {at})

(* As Climb, but it marks nothing and passes on the rank it was given.      *)
Climb_Unmarked ==
    /\ ~Idle /\ ~Fails(at)
    /\ rank' = [rank EXCEPT ![at] = Raised(at)]
    /\ broken' = broken \ {from}
    /\ at' = parent[at]
    /\ IF parent[at] # None
         THEN /\ from' = at /\ want' = want
              /\ first' = IF first = None THEN at ELSE first
         ELSE /\ from' = None /\ want' = 0 /\ first' = None
    /\ UNCHANGED <<load, parent, linked, stale, flagged, trail>>

(* Raise the rank of the object, and go on to its parent; without one all  *)
(* the calls return and take their marks away.                             *)
Climb ==
    /\ ~Idle /\ ~Fails(at)
    /\ rank' = [rank EXCEPT ![at] = Raised(at)]
    /\ broken' = broken \ {from}
    /\ IF parent[at] # None
         THEN /\ at' = parent[at] /\ want' = Raised(at) /\ from' = at
              /\ first' = IF first = None THEN at ELSE first
              /\ flagged' = flagged \union {at}
              /\ trail' = trail \union {at}
         ELSE /\ at' = None /\ want' = 0 /\ from' = None /\ first' = None
              /\ flagged' = Cleared
              /\ trail' = {}
    /\ UNCHANGED <<load, parent, linked, stale>>

(* The rank exceeds the number of objects, or the chain has come back.     *)
Fail ==
    /\ ~Idle /\ Fails(at)
    /\ broken' = broken \union ({from} \ {None})
    /\ stale' = stale \union trail
    /\ at' = None /\ want' = 0 /\ from' = None /\ first' = None /\ trail' = {}
    /\ UNCHANGED <<load, parent, rank, flagged, linked>>

SetRank == Climb \/ Fail

-----------------------------------------------------------------------------
(* The calls.                                                              *)

object_set_rank(o, r) ==
    /\ IF r <= rank[o] THEN UNCHANGED walk ELSE Call(o, r, None)
    /\ UNCHANGED <<parent, rank, linked>>

(* An object is not made its own parent.                                   *)
object_set_parent(o, p) ==
    IF o = p THEN UNCHANGED <<parent, linked, walk>>
    ELSE /\ parent' = [parent EXCEPT ![o] = p]
         /\ IF p = None
              THEN /\ linked' = linked \ {o}
                   /\ UNCHANGED walk
              ELSE /\ linked' = linked \union {o}
                   /\ Call(p, rank[o], o)

object_set_dependent(o, d) ==
    /\ IF o = d THEN UNCHANGED walk ELSE Call(d, rank[o], None)
    /\ UNCHANGED <<parent, rank, linked>>

(* The file sets ranks of objects as it is read.                           *)
LoadRank ==
    /\ phase = "load" /\ Idle /\ calls < MaxCalls
    /\ \E o \in Objects, r \in 1 .. N : object_set_rank(o, r)
    /\ calls' = calls + 1
    /\ UNCHANGED <<phase, todo, next>>

LoadDone ==
    /\ phase = "load" /\ Idle
    /\ phase' = "resolve"
    /\ UNCHANGED <<todo, next, calls, parent, rank, walk, linked>>

(* load_resolve_all: the reference is stored, then the rank of its target  *)
(* raised.  The parent is not looked at.                                   *)
Resolve ==
    /\ phase = "resolve" /\ Idle
    /\ \E o \in Objects :
         /\ todo[o] # None
         /\ todo' = [todo EXCEPT ![o] = None]
         /\ parent' = [parent EXCEPT ![o] = todo[o]]
         /\ IF rank[o] <= rank[todo[o]] THEN UNCHANGED walk
            ELSE Call(todo[o], rank[o], None)
    /\ UNCHANGED <<phase, next, calls, rank, linked>>

ResolveDone ==
    /\ phase = "resolve" /\ Idle /\ \A o \in Objects : todo[o] = None
    /\ phase' = "establish"
    /\ UNCHANGED <<todo, next, calls, parent, rank, walk, linked>>

(* for every object: object_set_parent(obj, obj->parent), result ignored.  *)
Establish ==
    /\ phase = "establish" /\ Idle
    /\ IF next <= N
         THEN /\ object_set_parent(next, parent[next])
              /\ next' = next + 1
              /\ UNCHANGED phase
         ELSE /\ phase' = "init"
              /\ UNCHANGED <<next, parent, walk, linked>>
    /\ UNCHANGED <<todo, calls, rank>>

(* object_init lets modules set parents, ranks and dependents.             *)
ModuleCall ==
    /\ phase = "init" /\ Idle /\ calls < MaxCalls
    /\ \E o \in Objects :
         \/ \E r \in 1 .. N : object_set_rank(o, r)
         \/ \E p \in Objects \union {None} :
              object_set_parent(o, p) /\ UNCHANGED rank
         \/ \E d \in Objects : object_set_dependent(o, d)
    /\ calls' = calls + 1
    /\ UNCHANGED <<phase, todo, next>>

InitDone ==
    /\ phase = "init" /\ Idle
    /\ phase' = "run"
    /\ UNCHANGED <<todo, next, calls, parent, rank, walk, linked>>

Ranking == \/ SetRank \/ LoadRank \/ LoadDone \/ Resolve \/ ResolveDone
           \/ Establish \/ ModuleCall \/ InitDone

-----------------------------------------------------------------------------
TypeOK ==
    /\ phase \in {"load", "resolve", "establish", "init", "run"}
    /\ todo \in [Objects -> Objects \union {None}]
    /\ next \in 1 .. N + 1 /\ calls \in 0 .. MaxCalls
    /\ parent \in [Objects -> Objects \union {None}]
    /\ rank \in [Objects -> 0 .. N]
    /\ flagged \subseteq Objects /\ trail \subseteq flagged
    /\ at \in Objects \union {None} /\ first \in Objects \union {None}
    /\ want \in 0 .. N /\ from \in Objects \union {None}
    /\ linked \subseteq Objects /\ broken \subseteq Objects
    /\ stale \subseteq Objects

(* "object's rank (less than parent's rank)": between calls, every object  *)
(* has a lower rank than the parent object_set_parent gave it, through all *)
(* later changes of ranks and parents, unless set_rank failed on that very *)
(* link; a failure on one link does not disturb another.                   *)
ParentsRankHigher ==
    Idle => \A o \in linked \ broken : rank[o] < rank[parent[o]]

(* "prevent rank from decreasing".                                         *)
RanksNeverFall == [][\A o \in Objects : rank'[o] >= rank[o]]_rankVars

(* set_rank returns, loops of parents or not: it is never at more objects  *)
(* than there are, and every call ends.                                    *)
CallsReturn == ~Idle ~> Idle

(* A call fails for a reason: the rank would exceed the number of objects, *)
(* the chain of parents is a loop, or it meets a mark that an earlier      *)
(* failure left behind.  No other mark outlives its call.                  *)
Up(o) == LET up[k \in 0 .. N] ==
               IF k = 0 THEN o
               ELSE IF up[k - 1] = None THEN None ELSE parent[up[k - 1]]
         IN up
InLoop(o) == \E k \in 1 .. N : Up(o)[k] = o
FailuresExplained ==
    ~Idle /\ Fails(at) => want >= N \/ InLoop(at) \/ at \in stale

(* "This will prevent an object_set_parent call from creating a parent     *)
(* loop."                                                                  *)
NoParentLoop == Idle => \A o \in Objects : ~InLoop(o)
=============================================================================
