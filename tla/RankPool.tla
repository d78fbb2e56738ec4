------------------------------ MODULE RankPool ------------------------------
(***************************************************************************)
(* The thread pools of core/exec.c.  Every rank list of every pass has a   *)
(* pool of its own: worker threads that each serve one stretch of the list *)
(* (obj_syncproc), two mutexes (startlock, donelock), two conditions       *)
(* (start, done), a round number (next_t1) and a count of the workers the  *)
(* main thread still waits for (donecount).  exec_start creates a pool     *)
(* when its first iteration reaches the list, and in each iteration runs   *)
(* the lists one after another, one round of one pool at a time.           *)
(*                                                                         *)
(* A mutex holds the thread that has it, or Free.  A thread in             *)
(* pthread_cond_wait has pc "asleep" and does not hold the mutex; a        *)
(* broadcast, or a spurious wakeup, sends it to take the mutex again.      *)
(*                                                                         *)
(* Definitions named <definition>_<Word> are mutations of the definition   *)
(* that follows them; nothing uses them, and put in its place each of them *)
(* breaks a property of the module.                                        *)
(***************************************************************************)
EXTENDS Integers, FiniteSets

CONSTANTS Lists,            \* number of rank lists (nObjRankList)
          Workers,          \* all threads of all pools
          ListOf,           \* the list of the pool a thread belongs to
          SlotOf,           \* its n: the entry of thread_data it writes
          Load,             \* its nObj: objects in its stretch of the list
          Wrap,             \* 2^32 in the code: where next_t1 wraps
          MaxIterations,    \* bound on the iterations of the main loop
          MaxSpurious,      \* bound on spurious wakeups
          CreationMayFail,  \* whether pthread_create may fail
          Main, Free        \* the main thread; nobody

ASSUME ListsAssumption   == Lists \in Nat \ {0}
ASSUME WorkersAssumption == IsFiniteSet(Workers) /\ Main \notin Workers
                            /\ Free \notin Workers /\ Main # Free
ASSUME ListOfAssumption  == ListOf \in [Workers -> 1 .. Lists]
ASSUME SlotOfAssumption  ==
    \A v, w \in Workers : ListOf[v] = ListOf[w] /\ SlotOf[v] = SlotOf[w] => v = w
ASSUME LoadAssumption    == Load \in [Workers -> Nat \ {0}]
ASSUME WrapAssumption    == Wrap \in Nat /\ Wrap >= 2
ASSUME BoundsAssumption  == MaxIterations \in Nat /\ MaxSpurious \in Nat
ASSUME MayFailAssumption == CreationMayFail \in BOOLEAN

VARIABLES
    mpc,         \* where the main thread is
    cur,         \* iObjRankList + 1; 0 between iterations
    iteration,   \* iterations completed; setTP holds in the first one
    pc,          \* where each worker is; "absent" until it is created
    t0,          \* data->t0: the round a worker served last
    idx,         \* objects a worker has synchronised in its round
    next_t1,     \* per list: the round number
    donecount,   \* per list: workers to wait for
    startlock, donelock,   \* per list: who holds the mutex
    failed,      \* entries of thread_data whose status is FAILED
    spurious     \* spurious wakeups so far

mainVars   == <<mpc, cur, iteration>>
workerVars == <<pc, t0, idx>>
vars == <<mpc, cur, iteration, pc, t0, idx, next_t1, donecount,
          startlock, donelock, failed, spurious>>

List == 1 .. Lists
Pool(l) == {w \in Workers : ListOf[w] = l}
n_threads(l) == Cardinality(Pool(l))
Bump(n) == IF n = Wrap - 1 THEN 0 ELSE n + 1
setTP == iteration = 0

Init ==
    /\ mpc = "loop" /\ cur = 0 /\ iteration = 0
    /\ pc = [w \in Workers |-> "absent"]
    /\ t0 = [w \in Workers |-> 0]
    /\ idx = [w \in Workers |-> 0]
    /\ next_t1 = [l \in List |-> 0]
    /\ donecount = [l \in List |-> 0]
    /\ startlock = [l \in List |-> Free]
    /\ donelock = [l \in List |-> Free]
    /\ failed = {}
    /\ spurious = 0

-----------------------------------------------------------------------------
(* The main thread.                                                        *)

EnterList(l) == cur' = l /\ mpc' = IF setTP THEN "create" ELSE "lockdone"

(* The condition of the main loop: another iteration, or the end of it.    *)
Loop ==
    /\ mpc = "loop"
    /\ \/ iteration < MaxIterations /\ EnterList(1)
       \/ mpc' = "ended" /\ UNCHANGED cur
    /\ UNCHANGED <<iteration, workerVars, next_t1, donecount,
                   startlock, donelock, failed, spurious>>

(* All threads of a pool at once: the ones created first only find that    *)
(* their round has not come.  A creation that fails is reported and        *)
(* nothing else: n_threads still counts the thread.                        *)
Create ==
    /\ mpc = "create"
    /\ \E missing \in SUBSET Pool(cur) :
         /\ missing # {} => CreationMayFail
         /\ pc' = [w \in Workers |->
                     IF w \in Pool(cur) \ missing THEN "lock" ELSE pc[w]]
    /\ mpc' = "lockdone"
    /\ UNCHANGED <<cur, iteration, t0, idx, next_t1, donecount,
                   startlock, donelock, failed, spurious>>

LockDone ==
    /\ mpc = "lockdone" /\ donelock[cur] = Free
    /\ donelock' = [donelock EXCEPT ![cur] = Main]
    /\ donecount' = [donecount EXCEPT ![cur] = n_threads(cur)]
    /\ mpc' = "lockstart"
    /\ UNCHANGED <<cur, iteration, workerVars, next_t1, startlock, failed, spurious>>

LockStart ==
    /\ mpc = "lockstart" /\ startlock[cur] = Free
    /\ startlock' = [startlock EXCEPT ![cur] = Main]
    /\ mpc' = "publish"
    /\ UNCHANGED <<cur, iteration, workerVars, next_t1, donecount,
                   donelock, failed, spurious>>

(* next_t1++, broadcast, unlock startlock.                                 *)
Publish_Silent ==
    /\ mpc = "publish"
    /\ next_t1' = [next_t1 EXCEPT ![cur] = Bump(@)]
    /\ startlock' = [startlock EXCEPT ![cur] = Free]
    /\ mpc' = "test"
    /\ UNCHANGED <<cur, iteration, pc, t0, idx, donecount, donelock, failed, spurious>>

Publish ==
    /\ mpc = "publish"
    /\ next_t1' = [next_t1 EXCEPT ![cur] = Bump(@)]
    /\ pc' = [w \in Workers |->
                IF w \in Pool(cur) /\ pc[w] = "asleep" THEN "lock" ELSE pc[w]]
    /\ startlock' = [startlock EXCEPT ![cur] = Free]
    /\ mpc' = "test"
    /\ UNCHANGED <<cur, iteration, t0, idx, donecount, donelock, failed, spurious>>

(* while (donecount > 0), donelock held.                                   *)
TestDone_Once ==
    /\ mpc = "test"
    /\ mpc' = "check" /\ donelock' = [donelock EXCEPT ![cur] = Free]
    /\ UNCHANGED <<cur, iteration, workerVars, next_t1, donecount,
                   startlock, failed, spurious>>

TestDone ==
    /\ mpc = "test"
    /\ IF donecount[cur] > 0
         THEN mpc' = "sleep" /\ UNCHANGED donelock
         ELSE mpc' = "check" /\ donelock' = [donelock EXCEPT ![cur] = Free]
    /\ UNCHANGED <<cur, iteration, workerVars, next_t1, donecount,
                   startlock, failed, spurious>>

(* pthread_cond_wait(&done, &donelock): release and sleep in one step.     *)
SleepDone ==
    /\ mpc = "sleep"
    /\ mpc' = "asleep"
    /\ donelock' = [donelock EXCEPT ![cur] = Free]
    /\ UNCHANGED <<cur, iteration, workerVars, next_t1, donecount,
                   startlock, failed, spurious>>

RelockDone ==
    /\ mpc = "relock" /\ donelock[cur] = Free
    /\ donelock' = [donelock EXCEPT ![cur] = Main]
    /\ mpc' = "test"
    /\ UNCHANGED <<cur, iteration, workerVars, next_t1, donecount,
                   startlock, failed, spurious>>

(* A FAILED status throws out of the loop; otherwise the next list, or the *)
(* end of the iteration (and of setTP).                                    *)
Check ==
    /\ mpc = "check"
    /\ IF failed # {}
         THEN mpc' = "ended" /\ UNCHANGED <<cur, iteration>>
         ELSE IF cur < Lists
                THEN EnterList(cur + 1) /\ UNCHANGED iteration
                ELSE mpc' = "loop" /\ cur' = 0 /\ iteration' = iteration + 1
    /\ UNCHANGED <<workerVars, next_t1, donecount, startlock, donelock, failed, spurious>>

MainStep == \/ Loop \/ Create \/ LockDone \/ LockStart \/ Publish
            \/ TestDone \/ SleepDone \/ RelockDone \/ Check

-----------------------------------------------------------------------------
(* A worker.                                                               *)

Go(w, to) == pc' = [pc EXCEPT ![w] = to]

Lock(w) ==
    /\ pc[w] = "lock" /\ startlock[ListOf[w]] = Free
    /\ startlock' = [startlock EXCEPT ![ListOf[w]] = w]
    /\ Go(w, "test")
    /\ UNCHANGED <<mainVars, t0, idx, next_t1, donecount, donelock, failed, spurious>>

(* while (data->t0 == next_t1[i]), startlock held.                         *)
TestStart(w) ==
    /\ pc[w] = "test"
    /\ IF t0[w] = next_t1[ListOf[w]]
         THEN Go(w, "sleep") /\ UNCHANGED <<startlock, idx>>
         ELSE /\ Go(w, "work")
              /\ startlock' = [startlock EXCEPT ![ListOf[w]] = Free]
              /\ idx' = [idx EXCEPT ![w] = 0]
    /\ UNCHANGED <<mainVars, t0, next_t1, donecount, donelock, failed, spurious>>

SleepStart(w) ==
    /\ pc[w] = "sleep"
    /\ Go(w, "asleep")
    /\ startlock' = [startlock EXCEPT ![ListOf[w]] = Free]
    /\ UNCHANGED <<mainVars, t0, idx, next_t1, donecount, donelock, failed, spurious>>

(* ss_do_object_sync on the next object of the stretch, which may find     *)
(* that the object stopped its clock.                                      *)
Sync(w) ==
    /\ pc[w] = "work" /\ idx[w] < Load[w]
    /\ idx' = [idx EXCEPT ![w] = @ + 1]
    /\ failed' \in {failed, failed \union {SlotOf[w]}}
    /\ UNCHANGED <<mainVars, pc, t0, next_t1, donecount, startlock, donelock, spurious>>

(* data->t0 = next_t1[i], read without a lock.                             *)
Mark_Early(w) ==
    /\ pc[w] = "work" /\ idx[w] + 1 >= Load[w]
    /\ t0' = [t0 EXCEPT ![w] = next_t1[ListOf[w]]]
    /\ Go(w, "lockdone")
    /\ UNCHANGED <<mainVars, idx, next_t1, donecount, startlock, donelock, failed, spurious>>

Mark(w) ==
    /\ pc[w] = "work" /\ idx[w] = Load[w]
    /\ t0' = [t0 EXCEPT ![w] = next_t1[ListOf[w]]]
    /\ Go(w, "lockdone")
    /\ UNCHANGED <<mainVars, idx, next_t1, donecount, startlock, donelock, failed, spurious>>

LockCount(w) ==
    /\ pc[w] = "lockdone" /\ donelock[ListOf[w]] = Free
    /\ donelock' = [donelock EXCEPT ![ListOf[w]] = w]
    /\ Go(w, "count")
    /\ UNCHANGED <<mainVars, t0, idx, next_t1, donecount, startlock, failed, spurious>>

(* donecount--, broadcast, unlock donelock.                                *)
Count_Silent(w) ==
    /\ pc[w] = "count"
    /\ donecount' = [donecount EXCEPT ![ListOf[w]] = @ - 1]
    /\ donelock' = [donelock EXCEPT ![ListOf[w]] = Free]
    /\ Go(w, "lock")
    /\ UNCHANGED <<mainVars, t0, idx, next_t1, startlock, failed, spurious>>

Count(w) ==
    /\ pc[w] = "count"
    /\ donecount' = [donecount EXCEPT ![ListOf[w]] = @ - 1]
    /\ mpc' = IF mpc = "asleep" /\ cur = ListOf[w] THEN "relock" ELSE mpc
    /\ donelock' = [donelock EXCEPT ![ListOf[w]] = Free]
    /\ Go(w, "lock")
    /\ UNCHANGED <<cur, iteration, t0, idx, next_t1, startlock, failed, spurious>>

WorkerStep(w) == \/ Lock(w) \/ TestStart(w) \/ SleepStart(w) \/ Sync(w)
                 \/ Mark(w) \/ LockCount(w) \/ Count(w)

(* pthread_cond_wait may return for no reason.                             *)
Spurious ==
    /\ spurious < MaxSpurious
    /\ spurious' = spurious + 1
    /\ \/ mpc = "asleep" /\ mpc' = "relock" /\ UNCHANGED pc
       \/ \E w \in Workers : pc[w] = "asleep" /\ Go(w, "lock") /\ UNCHANGED mpc
    /\ UNCHANGED <<cur, iteration, t0, idx, next_t1, donecount,
                   startlock, donelock, failed>>

(* exec_start has returned; its workers are left asleep.                   *)
Ended ==
    /\ mpc = "ended" /\ \A w \in Workers : pc[w] \in {"absent", "asleep"}
    /\ UNCHANGED vars

Next == MainStep \/ (\E w \in Workers : WorkerStep(w)) \/ Spurious \/ Ended

Spec     == Init /\ [][Next]_vars
FairSpec == Spec /\ WF_vars(MainStep) /\ \A w \in Workers : WF_vars(WorkerStep(w))

-----------------------------------------------------------------------------
Mutex == [List -> Workers \union {Main, Free}]

TypeOK ==
    /\ mpc \in {"loop", "create", "lockdone", "lockstart", "publish", "test",
                "sleep", "asleep", "relock", "check", "ended"}
    /\ cur \in 0 .. Lists
    /\ mpc \notin {"loop", "ended"} => cur # 0
    /\ iteration \in Nat
    /\ pc \in [Workers -> {"absent", "lock", "test", "sleep", "asleep",
                           "work", "lockdone", "count"}]
    /\ t0 \in [Workers -> 0 .. Wrap - 1]
    /\ idx \in [Workers -> Nat]
    /\ \A w \in Workers : idx[w] <= Load[w]
    /\ next_t1 \in [List -> 0 .. Wrap - 1]
    /\ donecount \in [List -> Nat]
    /\ startlock \in Mutex
    /\ donelock \in Mutex
    /\ failed \subseteq {SlotOf[w] : w \in Workers}
    /\ spurious \in 0 .. MaxSpurious

Waiting(l) == cur = l /\ mpc \in {"test", "sleep", "asleep", "relock"}
Busy(w)    == pc[w] \in {"work", "lockdone", "count"}

(* No worker is at an object, or has a count to report, except while the   *)
(* main thread waits for the round of its list: the lists are visited one  *)
(* after another and nothing of one list runs on into the next.            *)
Barrier == \A w \in Workers : Busy(w) => Waiting(ListOf[w])

(* The pools share the entries of thread_data, which have no lock: the n-th*)
(* worker of every pool writes the same one while it is at its objects, and*)
(* the main thread reads all of them when a list is through, and resets    *)
(* and collects them between two sweeps.  No entry is ever in the hands of *)
(* two threads: a worker is alone with it, and the main thread is at none. *)
SlotExclusive ==
    \A w \in Workers : pc[w] = "work" =>
      /\ \A v \in Workers \ {w} : pc[v] = "work" => SlotOf[v] # SlotOf[w]
      /\ mpc \notin {"loop", "check", "ended"}

(* A thread that sleeps, or is about to, is one that has nothing to do: a  *)
(* worker that served the round, the main thread while a count is due.     *)
NoLostWakeup ==
    /\ \A w \in Workers : pc[w] \in {"sleep", "asleep"} => t0[w] = next_t1[ListOf[w]]
    /\ mpc \in {"sleep", "asleep"} => donecount[cur] > 0

(* The pools implement the sweep over the rank lists: what a worker has    *)
(* synchronised is its index, in the rounds of this iteration.             *)
Synced(w) ==
    IF cur = 0 \/ ListOf[w] > cur THEN 0
    ELSE IF ListOf[w] < cur THEN idx[w]
    ELSE IF mpc \in {"create", "lockdone", "lockstart", "publish"} THEN 0
    ELSE IF t0[w] = next_t1[cur] \/ pc[w] = "work" THEN idx[w] ELSE 0

Sweep == INSTANCE RankedSweep WITH at <- cur, synced <- [w \in Workers |-> Synced(w)]
SweepSpec == Sweep!Spec

(* exec_start: "STATUS is SUCCESS if the simulation reached equilibrium,   *)
(* and FAILED if a problem was encountered".  Either way it returns.       *)
StartReturns == <>(mpc = "ended")
=============================================================================
