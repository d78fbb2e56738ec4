------------------------------ MODULE SyncPool ------------------------------
(***************************************************************************)
(* The thread pools that synchronise the internal properties of the        *)
(* simulator: core/schedule.c, core/loadshape.c and core/enduse.c each     *)
(* have one, written alike.  The main thread calls ..._syncall(t1) once    *)
(* per iteration.  The first call shares the items out to worker threads;  *)
(* each later one opens a round (next_t1, next_t2, donecount), waits until *)
(* every worker has synchronised its items to t1, and returns the earliest *)
(* of the times the items gave for their next change.                      *)
(*                                                                         *)
(* The copies differ in three points, and the constant-valued variable     *)
(* kind says which copy this is: how a worker tells that a round is open   *)
(* (by the time alone, or by the time and a round counter), whether a call *)
(* returns the last result without a round while that is still ahead, and  *)
(* what synchronising an item gives.                                       *)
(*                                                                         *)
(* Definitions named <definition>_<Word> are mutations of the definition   *)
(* that follows them; nothing uses them, and put in its place each of them *)
(* breaks a property of the module.                                        *)
(***************************************************************************)
EXTENDS Integers, FiniteSets, FiniteSetsExt

CONSTANTS Kinds,        \* the pools to model
          Items,        \* the schedules, loadshapes or enduses
          Period,       \* a schedule changes every so many minutes, 0: never
          Minute,       \* 60: the units of time in a minute
          Horizon,      \* bound: how far ahead a loadshape's time may be
          Back,         \* bound: how far back it may be
          Workers,      \* the threads the items are shared out to
          ItemsOf,      \* the items of each worker
          FirstTime,    \* the start of the simulation
          LastTime,     \* bound: no call is later
          MaxCalls,     \* bound on the calls
          Never,        \* TS_NEVER: later than every time
          Main, Free    \* the main thread; nobody

ASSUME KindsAssumption == Kinds \subseteq {"schedule", "loadshape", "enduse"}
ASSUME PeriodAssumption ==
    /\ Period \in [Items -> Nat] /\ Minute \in Nat \ {0}
    /\ Horizon \in Nat /\ Back \in Nat
ASSUME TimeAssumption == /\ FirstTime \in Nat /\ LastTime \in Nat
                         /\ Never \in Nat /\ Never > LastTime
ASSUME CallsAssumption == MaxCalls \in Nat
ASSUME ShareAssumption ==
    /\ IsFiniteSet(Workers) /\ Cardinality(Workers) >= 2
    /\ ItemsOf \in [Workers -> SUBSET Items]
    /\ \A i \in Items : \E w \in Workers : i \in ItemsOf[w]
    /\ \A v, w \in Workers : v # w => ItemsOf[v] \intersect ItemsOf[w] = {}

VARIABLES
    kind,     \* which of the three pools this is
    Threaded, \* n_threads is two or more
    mpc,      \* where the main thread is
    t1,       \* the argument of the last call
    result,   \* what it returned
    calls,    \* calls so far
    wpc,       \* where each worker is
    t0, ran,  \* data->t0, data->ran
    t2,       \* a worker's earliest time so far
    todo,     \* the items it has yet to synchronise
    next_t1, next_t2, run, donecount,
    startlock, donelock,
    due,      \* per item: the time it answered last
    synced    \* per item: the call that synchronised it last

round == <<next_t1, next_t2, run, donecount>>
call  == <<t1, result, calls>>
own   == <<t0, ran, t2, todo>>
item  == <<due, synced>>
locks == <<startlock, donelock>>
pool  == <<kind, Threaded>>
vars  == <<pool, mpc, call, wpc, own, round, locks, item>>

Lesser(a, b) == IF a < b THEN a ELSE b

(* A schedule: minutes to its next change of value, 0 if there is none, as *)
(* schedule_dtnext reads them from the table of the calendar.              *)
dtnext(s, t) ==
    IF Period[s] = 0 THEN 0 ELSE Period[s] - ((t \div Minute) % Period[s])

(* next_t is kept until it is reached; a schedule without a next change is *)
(* looked up every time.                                                   *)
schedule_sync_After(s, t, next_t) ==
    IF next_t = Never \/ t > next_t
      THEN IF dtnext(s, t) = 0 THEN {Never}
           ELSE {t + dtnext(s, t) * Minute - (t % Minute)}
      ELSE {next_t}

schedule_sync(s, t, next_t) ==
    IF next_t = Never \/ t >= next_t
      THEN IF dtnext(s, t) = 0 THEN {Never}
           ELSE {t + dtnext(s, t) * Minute - (t % Minute)}
      ELSE {next_t}

(* A loadshape answers the time of its next change of state, TS_NEVER in   *)
(* the place of times that are not positive.  The time need not be ahead:  *)
(* what its queue has left is cut to whole seconds, none perhaps, or is    *)
(* negative, and a shape that is synchronised to the same time again gives *)
(* the time it had.                                                        *)
loadshape_sync(t) == {x \in 1 .. (t + Horizon) : x >= t - Back} \union {Never}

(* An enduse answers its loadshape's time as it finds it, an old one or    *)
(* none at all (0) included, or TS_NEVER without a loadshape.              *)
enduse_sync(t) == {x \in 0 .. (t + Horizon) : x >= t - Back} \union {0, Never}

(* What item i may answer when it is synchronised to t and answered d last.*)
Due(i, t, d) ==
    CASE kind = "schedule"  -> schedule_sync(i, t, d)
      [] kind = "loadshape" -> loadshape_sync(t)
      [] kind = "enduse"    -> enduse_sync(t)

CountsRuns_Never == FALSE
CountsRuns   == kind # "schedule"
ReturnsEarly == kind # "enduse"

Init ==
    /\ kind \in Kinds /\ Threaded \in BOOLEAN
    /\ mpc = "idle" /\ t1 = 0 /\ result = 0 /\ calls = 0
    /\ wpc = [w \in Workers |-> "absent"]
    /\ t0 = [w \in Workers |-> 0]
    /\ ran = [w \in Workers |-> 0]
    /\ t2 = [w \in Workers |-> Never]
    /\ todo = [w \in Workers |-> {}]
    /\ next_t1 = 0 /\ next_t2 = 0 /\ run = 0 /\ donecount = 0
    /\ startlock = Free /\ donelock = Free
    /\ due = [i \in Items |-> 0]
    /\ synced = [i \in Items |-> 0]

-----------------------------------------------------------------------------
(* The main thread.                                                        *)

(* "internal property sync failure": an answer that is not ahead of the    *)
(* time it was asked at ends the run.                                      *)
SyncFailed == calls > 0 /\ result <= t1

(* exec_start iterates at the same time, or moves on to any time up to the *)
(* one it was given.                                                       *)
Call ==
    /\ mpc = "idle" /\ calls < MaxCalls /\ ~SyncFailed
    /\ \E t \in FirstTime .. LastTime :
         /\ IF calls = 0 THEN t = FirstTime ELSE t >= t1 /\ t <= result
         /\ t1' = t
    /\ calls' = calls + 1
    /\ mpc' = "enter"
    /\ UNCHANGED <<pool, result, wpc, own, round, locks, item>>

(* The first call creates the threads, if it takes more than one; with     *)
(* fewer the call goes on by itself.                                       *)
Setup ==
    /\ mpc = "enter" /\ Threaded /\ \A w \in Workers : wpc[w] = "absent"
    /\ wpc' = [w \in Workers |-> "lock"]
    /\ UNCHANGED <<pool, mpc, call, own, round, locks, item>>

Ready == Threaded => \E w \in Workers : wpc[w] # "absent"
StillAhead_Now    == ReturnsEarly /\ next_t2 >= t1 /\ next_t2 < Never
StillAhead_Always == next_t2 > t1 /\ next_t2 < Never
StillAhead == ReturnsEarly /\ next_t2 > t1 /\ next_t2 < Never

(* The result of the last round is returned while it is ahead of t1.       *)
ReturnAgain ==
    /\ mpc = "enter" /\ Ready /\ StillAhead
    /\ result' = next_t2
    /\ mpc' = "idle"
    /\ UNCHANGED <<pool, t1, calls, wpc, own, round, locks, item>>

(* Fewer than two threads: the main thread does the items itself.          *)
Direct_Last ==
    /\ mpc = "enter" /\ ~Threaded /\ ~StillAhead
    /\ due' \in [Items -> UNION {Due(i, t1, due[i]) : i \in Items}]
    /\ \A i \in Items : due'[i] \in Due(i, t1, due[i])
    /\ synced' = [i \in Items |-> calls]
    /\ next_t2' \in {due'[i] : i \in Items}
    /\ result' = next_t2'
    /\ mpc' = "idle"
    /\ UNCHANGED <<pool, t1, calls, wpc, own, next_t1, run, donecount, locks>>

Direct ==
    /\ mpc = "enter" /\ ~Threaded /\ ~StillAhead
    /\ due' \in [Items -> UNION {Due(i, t1, due[i]) : i \in Items}]
    /\ \A i \in Items : due'[i] \in Due(i, t1, due[i])
    /\ synced' = [i \in Items |-> calls]
    /\ next_t2' = Min({due'[i] : i \in Items} \union {Never})
    /\ result' = next_t2'
    /\ mpc' = "idle"
    /\ UNCHANGED <<pool, t1, calls, wpc, own, next_t1, run, donecount, locks>>

LockDone ==
    /\ mpc = "enter" /\ Threaded /\ Ready /\ ~StillAhead
    /\ donelock = Free
    /\ donelock' = Main
    /\ donecount' = Cardinality(Workers)
    /\ mpc' = "lockstart"
    /\ UNCHANGED <<pool, call, wpc, own, next_t1, next_t2, run, startlock, item>>

LockStart ==
    /\ mpc = "lockstart" /\ startlock = Free
    /\ startlock' = Main
    /\ mpc' = "publish"
    /\ UNCHANGED <<pool, call, wpc, own, round, donelock, item>>

(* Open the round, broadcast, unlock startlock.                            *)
Publish ==
    /\ mpc = "publish"
    /\ next_t1' = t1 /\ next_t2' = Never /\ run' = run + 1
    /\ wpc' = [w \in Workers |-> IF wpc[w] = "asleep" THEN "lock" ELSE wpc[w]]
    /\ startlock' = Free
    /\ mpc' = "test"
    /\ UNCHANGED <<pool, call, own, donecount, donelock, item>>

(* while (donecount > 0) wait; the wait releases donelock as it sleeps.    *)
TestDone_Once ==
    /\ mpc = "test"
    /\ mpc' = IF donecount > 1 THEN "asleep" ELSE "return"
    /\ donelock' = Free
    /\ UNCHANGED <<pool, call, wpc, own, round, startlock, item>>

TestDone ==
    /\ mpc = "test"
    /\ mpc' = IF donecount > 0 THEN "asleep" ELSE "return"
    /\ donelock' = Free
    /\ UNCHANGED <<pool, call, wpc, own, round, startlock, item>>

RelockDone ==
    /\ mpc = "relock" /\ donelock = Free
    /\ donelock' = Main
    /\ mpc' = "test"
    /\ UNCHANGED <<pool, call, wpc, own, round, startlock, item>>

Return ==
    /\ mpc = "return"
    /\ result' = Lesser(next_t2, Never)
    /\ mpc' = "idle"
    /\ UNCHANGED <<pool, t1, calls, wpc, own, round, locks, item>>

MainStep == \/ Setup \/ ReturnAgain \/ Direct \/ LockDone \/ LockStart
            \/ Publish \/ TestDone \/ RelockDone \/ Return

-----------------------------------------------------------------------------
(* A worker.                                                               *)

Go(w, to) == wpc' = [wpc EXCEPT ![w] = to]

Served(w) == t0[w] = next_t1 /\ (CountsRuns => ran[w] = run)

Lock(w) ==
    /\ wpc[w] = "lock" /\ startlock = Free
    /\ startlock' = w
    /\ Go(w, "test")
    /\ UNCHANGED <<pool, mpc, call, own, round, donelock, item>>

(* Wait while the round is served; the wait releases startlock.            *)
TestStart(w) ==
    /\ wpc[w] = "test"
    /\ startlock' = Free
    /\ IF Served(w)
         THEN Go(w, "asleep") /\ UNCHANGED <<pool, t2, todo>>
         ELSE /\ Go(w, "work")
              /\ t2' = [t2 EXCEPT ![w] = Never]
              /\ todo' = [todo EXCEPT ![w] = ItemsOf[w]]
    /\ UNCHANGED <<pool, mpc, call, t0, ran, round, donelock, item>>

Sync(w) ==
    /\ wpc[w] = "work"
    /\ \E i \in todo[w] : \E d \in Due(i, next_t1, due[i]) :
         /\ due' = [due EXCEPT ![i] = d]
         /\ synced' = [synced EXCEPT ![i] = calls]
         /\ t2' = [t2 EXCEPT ![w] = Lesser(d, @)]
         /\ todo' = [todo EXCEPT ![w] = @ \ {i}]
    /\ UNCHANGED <<pool, mpc, call, wpc, t0, ran, round, locks>>

Mark(w) ==
    /\ wpc[w] = "work" /\ todo[w] = {}
    /\ t0' = [t0 EXCEPT ![w] = next_t1]
    /\ ran' = [ran EXCEPT ![w] = @ + 1]
    /\ Go(w, "lockdone")
    /\ UNCHANGED <<pool, mpc, call, t2, todo, round, locks, item>>

(* The result of the round is reduced under donelock, with the count.      *)
Count_Last(w) ==
    /\ wpc[w] = "lockdone" /\ donelock = Free
    /\ donecount' = donecount - 1
    /\ next_t2' = t2[w]
    /\ mpc' = IF mpc = "asleep" THEN "relock" ELSE mpc
    /\ Go(w, "lock")
    /\ UNCHANGED <<pool, call, own, next_t1, run, locks, item>>

Count(w) ==
    /\ wpc[w] = "lockdone" /\ donelock = Free
    /\ donecount' = donecount - 1
    /\ next_t2' = Lesser(t2[w], next_t2)
    /\ mpc' = IF mpc = "asleep" THEN "relock" ELSE mpc
    /\ Go(w, "lock")
    /\ UNCHANGED <<pool, call, own, next_t1, run, locks, item>>

WorkerStep(w) == Lock(w) \/ TestStart(w) \/ Sync(w) \/ Mark(w) \/ Count(w)

(* The simulation makes no further call.                                   *)
Finished ==
    /\ mpc = "idle" /\ (calls = MaxCalls \/ SyncFailed)
    /\ \A w \in Workers : wpc[w] \in {"absent", "asleep"}
    /\ UNCHANGED vars

Next == Call \/ MainStep \/ (\E w \in Workers : WorkerStep(w)) \/ Finished

Spec     == Init /\ [][Next]_vars
FairSpec == Spec /\ WF_vars(MainStep) /\ \A w \in Workers : WF_vars(WorkerStep(w))

-----------------------------------------------------------------------------
TypeOK ==
    /\ kind \in Kinds /\ Threaded \in BOOLEAN
    /\ mpc \in {"idle", "enter", "lockstart", "publish", "test", "asleep",
                "relock", "return"}
    /\ t1 \in 0 .. LastTime /\ result \in 0 .. Never /\ calls \in 0 .. MaxCalls
    /\ wpc \in [Workers -> {"absent", "lock", "test", "asleep", "work", "lockdone"}]
    /\ t0 \in [Workers -> 0 .. LastTime] /\ ran \in [Workers -> 0 .. MaxCalls]
    /\ t2 \in [Workers -> 0 .. Never]
    /\ todo \in [Workers -> SUBSET Items]
    /\ next_t1 \in 0 .. LastTime /\ next_t2 \in 0 .. Never
    /\ run \in 0 .. MaxCalls
    /\ donecount \in 0 .. Cardinality(Workers)
    /\ startlock \in Workers \union {Main, Free}
    /\ donelock \in {Main, Free}
    /\ due \in [Items -> Nat] /\ synced \in [Items -> 0 .. MaxCalls]

Returned == mpc = "idle" /\ calls > 0

(* "@return the time of the next schedule change": when a call returns,    *)
(* its result is the earliest time any item answered last, whichever       *)
(* thread asked it and whether or not this call opened a round.            *)
ReturnsNextChange == Returned => result = Min({due[i] : i \in Items} \union {Never})

(* When a call for t1 returns, every item has been synchronised by this    *)
(* very call, a second one for the same time included, unless its last     *)
(* answer is ahead of t1 and the pool is one that returns early: no change *)
(* that has come due is passed over, and enduses, which integrate energy   *)
(* over time, see every call.  And no schedule is left with a change that  *)
(* is due and was not made.                                                *)
NothingMissed == Returned => \A i \in Items :
    /\ synced[i] = calls \/ (ReturnsEarly /\ t1 < due[i])
    /\ kind = "schedule" => t1 < due[i]

(* Every call returns.                                                     *)
CallReturns == mpc = "enter" ~> mpc = "idle"
=============================================================================
