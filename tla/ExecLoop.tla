------------------------------ MODULE ExecLoop ------------------------------
(***************************************************************************)
(* The main loop of core/exec.c (exec_start) and what it asks of every     *)
(* object (ss_do_object_sync): which time the global clock takes next,     *)
(* when an instant is iterated again, when the simulation ends.            *)
(*                                                                         *)
(* Times are numbers of seconds and Never is TS_NEVER.  An object answers  *)
(* a synchronisation with the time of its next event; a negative answer    *)
(* below -1 is a "soft" event, one that does not keep the simulation       *)
(* going, and -1 (TS_INVALID) or a time already past is an error.  The     *)
(* objects stand in rank lists; how a list is shared out to threads is     *)
(* RankPool's subject, here an object of the list goes next in any order   *)
(* and its answer goes to the entry of thread_data its thread owns.        *)
(*                                                                         *)
(* Definitions named <definition>_<Word> are mutations of the definition   *)
(* that follows them; nothing uses them, and put in its place each of them *)
(* breaks a property of the module.                                        *)
(***************************************************************************)
EXTENDS Integers, Sequences, FiniteSets, FiniteSetsExt

CONSTANTS Objects,
          RankLists,        \* the rank lists in the order of an iteration:
                            \* for each, the thread entry of its objects
          Slots,            \* the entries of thread_data
          InSvc, OutSvc,    \* when an object starts and ceases operating
          StartTime,
          Globals,          \* the settings of the globals below to consider
          IterationLimit,   \* global_iteration_limit
          LastTime,         \* bound: every event is at most then, or Never
          Never

Times == 1 .. LastTime
Core  == "core"

ASSUME TimesAssumption ==
    /\ LastTime \in Nat /\ Never \in Nat /\ Never > LastTime
    /\ StartTime \in 2 .. LastTime
ASSUME LimitsAssumption == IterationLimit \in Nat \ {0}
ASSUME GlobalsAssumption == \A g \in Globals :
    /\ g.stoptime \in Times \union {Never}
    /\ g.minimum_timestep \in Nat \ {0} /\ Never > LastTime + g.minimum_timestep
    /\ g.run_realtime \in Nat
ASSUME ObjectsAssumption ==
    /\ Core \notin Objects
    /\ InSvc \in [Objects -> Nat] /\ OutSvc \in [Objects -> Nat]
    /\ \A o \in Objects : InSvc[o] <= LastTime \/ InSvc[o] = Never
    /\ RankLists \in Seq(UNION {[O -> Slots] : O \in SUBSET Objects})
ASSUME SlotsAssumption == IsFiniteSet(Slots)

VARIABLES
    global,             \* the global variables that the loop only reads
    epc,                \* where exec_start is
    global_clock,
    step_to, hard_event, \* of the loop's own sync_data
    status,             \* what exec_start will return
    iteration_counter,
    stop_now,
    list, pending,      \* the list being visited, its objects not yet done
    slot,               \* thread_data: step_to, hard_event, status by entry
    asked               \* the events this iteration was told of: by every
                        \* object, and by Core (internals and commit)

StopTime        == global.stoptime          \* maybe Never
MinimumTimestep == global.minimum_timestep
RunRealtime     == global.run_realtime      \* 0, or seconds a second

vars == <<global, epc, global_clock, step_to, hard_event, status, iteration_counter,
          stop_now, list, pending, slot, asked>>

(* What each iteration resets of an entry; its status it does not.         *)
Cleared_KeepsStep(s) == [s EXCEPT !.hard_event = 0]
Cleared(s) == [s EXCEPT !.step_to = Never, !.hard_event = 0]
Asked(t)   == [o \in Objects \union {Core} |-> IF o = Core THEN t ELSE {}]
Lesser(a, b) == IF a < b THEN a ELSE b

Init ==
    /\ global \in Globals
    /\ epc = "loop"
    /\ global_clock = StartTime
    /\ step_to = StartTime /\ hard_event = 1
    /\ status = "SUCCESS"
    /\ iteration_counter = IterationLimit
    /\ stop_now = FALSE
    /\ list = 0 /\ pending = {}
    /\ slot = [s \in Slots |-> [step_to |-> Never, hard_event |-> 0, failed |-> FALSE]]
    /\ asked = Asked({})

-----------------------------------------------------------------------------
Running_Before == step_to < StopTime /\ step_to < Never /\ hard_event > 0
Running == step_to <= StopTime /\ step_to < Never /\ hard_event > 0
Continues == iteration_counter > 0 /\ (Running \/ RunRealtime > 0) /\ ~stop_now

Enter(l) ==
    IF l > Len(RankLists)
      THEN epc' = "collect" /\ list' = 0 /\ pending' = {}
      ELSE epc' = "sync" /\ list' = l /\ pending' = DOMAIN RankLists[l]

(* The time of an internal property or a commit that is no progress.       *)
Behind_Strict(t, now) == t < now
Behind(t, now) == t <= now

(* The clock moves to the next event, or with the wall clock.  Schedules,  *)
(* loadshapes and enduses go first; one that has no later event is an      *)
(* error that throws.                                                      *)
Begin ==
    /\ epc = "loop" /\ Continues
    /\ IF RunRealtime = 0 THEN global_clock' = step_to
       ELSE IF RunRealtime = 1 THEN global_clock' \in global_clock + 1 .. global_clock + 2
       ELSE global_clock' = global_clock + RunRealtime
    /\ global_clock' <= LastTime
    /\ hard_event' = IF StopTime = Never THEN 0 ELSE 1
    /\ \E t \in Times \union {Never} :
         /\ step_to' = t
         /\ IF Behind(t, global_clock')
              THEN /\ status' = "FAILED" /\ epc' = "end"
                   /\ UNCHANGED <<list, pending, slot>>
              ELSE /\ slot' = [s \in Slots |-> Cleared(slot[s])]
                   /\ Enter(1)
                   /\ UNCHANGED status
         /\ asked' = Asked({t})
    /\ UNCHANGED <<global, iteration_counter, stop_now>>

(* What an object may answer, in service or out of it.                     *)
Answers(o) ==
    IF global_clock < InSvc[o] THEN {InSvc[o]}
    ELSE IF global_clock <= OutSvc[o]
      THEN Times \union {-t : t \in Times \ {1}} \union {-1, Never, -Never}
      ELSE {Never}

Soft(a) == a < -1
When(a) == IF Soft(a) THEN -a ELSE a
Hard_Later(a) == ~Soft(a) /\ a # Never /\ a # global_clock
Hard(a) == ~Soft(a) /\ a # Never
Stopped(t) == t < global_clock
Rounded_Up(t) == (t \div MinimumTimestep + 1) * MinimumTimestep
Rounded(t) == ((t - 1) \div MinimumTimestep + 1) * MinimumTimestep
Next_t(t) == IF MinimumTimestep > 1 /\ t > global_clock /\ t < Never
               THEN Rounded(t) ELSE t

(* ss_do_object_sync: the entry of the thread counts the hard events and   *)
(* keeps the earliest event; an object that stopped its clock fails it.    *)
SyncObject(o) ==
    /\ epc = "sync" /\ o \in pending
    /\ \E a \in Answers(o) :
         LET n == RankLists[list][o]
             counted == [slot[n] EXCEPT !.hard_event =
                           @ + IF Hard(a) THEN 1 ELSE 0]
         IN /\ slot' = [slot EXCEPT ![n] =
                          IF Stopped(When(a))
                            THEN [counted EXCEPT !.failed = TRUE]
                            ELSE [counted EXCEPT !.step_to = Lesser(Next_t(When(a)), @)]]
            /\ asked' = [asked EXCEPT ![o] = @ \union {a}]
    /\ pending' = pending \ {o}
    /\ UNCHANGED <<global, epc, global_clock, step_to, hard_event, status,
                   iteration_counter, stop_now, list>>

AnyFailed_All == \A s \in Slots : slot[s].failed
AnyFailed == \E s \in Slots : slot[s].failed

(* After every list the entries are looked at: a failed one throws.        *)
LeaveList ==
    /\ epc = "sync" /\ pending = {}
    /\ IF AnyFailed
         THEN status' = "FAILED" /\ epc' = "end" /\ UNCHANGED <<list, pending>>
         ELSE Enter(list + 1) /\ UNCHANGED status
    /\ UNCHANGED <<global, global_clock, step_to, hard_event, iteration_counter,
                   stop_now, slot, asked>>

(* The entries of all threads are put together.                            *)
Collect ==
    /\ epc = "collect"
    /\ hard_event' = hard_event + MapThenSumSet(LAMBDA s : slot[s].hard_event, Slots)
    /\ step_to' \in {step_to} \union {slot[s].step_to : s \in Slots}
    /\ step_to' <= step_to /\ \A s \in Slots : step_to' <= slot[s].step_to
    /\ epc' = "advance"
    /\ UNCHANGED <<global, global_clock, status, iteration_counter, stop_now, list,
                   pending, slot, asked>>

(* The instant is over: commit, which may bring the next event forward.    *)
(* A commit time that is not ahead ends exec_start at once.                *)
Commit ==
    /\ epc = "advance" /\ step_to # global_clock
    /\ \E t \in Times \union {-1, Never} :
         IF Behind(t, global_clock)
           THEN /\ status' = "FAILED" /\ epc' = "end"
                /\ UNCHANGED <<step_to, iteration_counter, asked>>
           ELSE /\ step_to' = Lesser(t, step_to)
                /\ asked' = [asked EXCEPT ![Core] = @ \union {t}]
                /\ iteration_counter' = IterationLimit
                /\ epc' = "loop"
                /\ UNCHANGED status
    /\ UNCHANGED <<global, global_clock, hard_event, stop_now, list, pending, slot>>

(* The instant is to be iterated again, unless that was the last time.     *)
Iterate ==
    /\ epc = "advance" /\ step_to = global_clock
    /\ iteration_counter' = iteration_counter - 1
    /\ IF iteration_counter = 1
         THEN status' = "FAILED" /\ epc' = "end"
         ELSE epc' = "loop" /\ UNCHANGED status
    /\ UNCHANGED <<global, global_clock, step_to, hard_event, stop_now, list, pending,
                   slot, asked>>

Leave ==
    /\ epc = "loop" /\ ~Continues
    /\ epc' = "end"
    /\ UNCHANGED <<global, global_clock, step_to, hard_event, status, iteration_counter,
                   stop_now, list, pending, slot, asked>>

(* SIGINT, or the server being shut down.                                  *)
Stop ==
    /\ epc # "end" /\ ~stop_now
    /\ stop_now' = TRUE
    /\ UNCHANGED <<global, epc, global_clock, step_to, hard_event, status,
                   iteration_counter, list, pending, slot, asked>>

(* exec_start has returned, or the wall clock is beyond the bound.         *)
BeyondBound == epc = "loop" /\ RunRealtime > 0 /\ global_clock + RunRealtime > LastTime
Ended == (epc = "end" \/ BeyondBound) /\ UNCHANGED vars

Loop == Begin \/ (\E o \in Objects : SyncObject(o)) \/ LeaveList \/ Collect
        \/ Commit \/ Iterate \/ Leave

Next == Loop \/ Stop \/ Ended

Spec     == Init /\ [][Next]_vars
FairSpec == Spec /\ WF_vars(Loop)

-----------------------------------------------------------------------------
Events == Times \union {-t : t \in Times} \union {Never, -Never}
          \union {InSvc[o] : o \in Objects}

TypeOK ==
    /\ global \in Globals
    /\ epc \in {"loop", "sync", "collect", "advance", "end"}
    /\ global_clock \in Times
    /\ step_to \in Nat /\ hard_event \in Nat
    /\ status \in {"SUCCESS", "FAILED"}
    /\ iteration_counter \in 0 .. IterationLimit
    /\ stop_now \in BOOLEAN
    /\ list \in 0 .. Len(RankLists) /\ pending \subseteq Objects
    /\ slot \in [Slots -> [step_to : Nat, hard_event : Nat, failed : BOOLEAN]]
    /\ asked \in [Objects \union {Core} -> SUBSET Events]

(* Simulation time never goes back, whatever objects, schedules and        *)
(* commits answer.                                                         *)
ClockMonotone == [][global_clock' >= global_clock]_vars

(* What the loop steps to is exactly the earliest event anybody asked for, *)
(* soft ones included, whichever pass and thread collected it, moved to    *)
(* the first multiple of the minimum timestep: no event is skipped and no  *)
(* step is taken for nothing.                                              *)
OnGrid(t) ==
    IF t > global_clock /\ t < Never
      THEN CHOOSE m \in t .. t + MinimumTimestep - 1 : m % MinimumTimestep = 0
      ELSE t
AskedTimes == asked[Core] \union UNION {{OnGrid(When(a)) : a \in asked[o]} : o \in Objects}
StepIsEarliest ==
    epc = "loop" /\ asked[Core] # {} => step_to = Min(AskedTimes \union {Never})

(* A simulation that ends well was either stopped, or had no event left    *)
(* that counts: with a stop time none up to it, without one no hard event. *)
StopsWhenDone ==
    epc = "end" /\ status = "SUCCESS" /\ ~stop_now /\ asked[Core] # {} =>
        IF StopTime = Never
          THEN \A o \in Objects : \A a \in asked[o] : Soft(a) \/ a = Never
          ELSE \A t \in AskedTimes : t > StopTime

(* An object that stops its clock stops the simulation: the passes do not  *)
(* go on past its list, and exec_start returns FAILED.                     *)
ErrorsStop ==
    (\E o \in Objects : \E a \in asked[o] : When(a) < global_clock) =>
        epc = "sync" \/ (epc = "end" /\ status = "FAILED")

(* No instant is iterated for ever: the clock moves on or the loop ends.   *)
Converges ==
    \A t \in Times :
        global_clock = t /\ epc # "end"
            ~> global_clock # t \/ epc = "end" \/ BeyondBound
=============================================================================
