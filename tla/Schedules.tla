----------------------------- MODULE Schedules ------------------------------
(***************************************************************************)
(* The life of schedules (core/schedule.c): the loader creates them, each  *)
(* in a thread of its own of which no more than global_threadcount run at  *)
(* once, and waits for them when it comes to an object (load.c); then they *)
(* follow the clock, and objects read them with a skew.  How the threads   *)
(* of schedule_syncall divide the list is SyncPool's subject.              *)
(*                                                                         *)
(* What happens under sc_activelock is one step: nothing is shared without *)
(* it until the clock starts.                                              *)
(*                                                                         *)
(* Definitions named <definition>_<Word> are mutations of the definition   *)
(* that follows them; nothing uses them, and put in its place each of them *)
(* breaks a property.                                                      *)
(***************************************************************************)
EXTENDS ScheduleTable

CONSTANTS Definitions,  \* the definitions of the schedules, by number
          Files,        \* the files: numbers of schedules, and 0 for an object
          ThreadCounts, \* the values global_threadcount may have
          FirstWeekday, LeapYears, LastYear,   \* of the years the clock runs in
          AverageYear,  \* the length of a year in hundredths of a day, 36524
          Starts,       \* the times the clock may start at
          Skew          \* schedule_skew of the object that reads a schedule

Schedule == DOMAIN Definitions
Object   == 0
Never    == -1

Pattern == Seq(Int \X Int)
Lines   == [minute : Pattern, hour : Pattern, day : Pattern, month : Pattern, weekday : Pattern,
            value : Int]

ASSUME DefinitionsAssumption ==
    /\ IsFiniteSet(Schedule) /\ Object \notin Schedule
    /\ \A s \in Schedule : Definitions[s].blocks \in Seq(Seq(Lines))
ASSUME FileAssumption == Files \subseteq Seq(Schedule \union {Object})
ASSUME ThreadsAssumption == ThreadCounts \subseteq Nat \ {0}
ASSUME SkewAssumption == Skew \in [Schedule -> Nat] /\ \A s \in Schedule, t \in Starts : Skew[s] <= t

(* The structures that schedule_createproc makes of the definitions.        *)
Table == [s \in Schedule |-> Created(Definitions[s])]

VARIABLES
    file, global_threadcount, start,  \* chosen once
    loader,     \* "read", "inline", "asleep", "rejected", "run"
    pos,        \* the place in the file
    proc,       \* of each schedule: schedule_createproc
    sc_running, sc_status,
    now, value, next_t, since, target,  \* the clock and the schedules' values
    synced      \* history: when each schedule was last looked up

create   == <<loader, pos, proc, sc_running, sc_status>>
Settings == <<file, global_threadcount, start>>
schedule == <<now, value, next_t, since, target, synced>>
vars     == <<Settings, create, schedule>>

(* schedule_list.                                                          *)
Listed == {s \in Schedule : proc[s] # "none"}

Init ==
    /\ file \in Files /\ global_threadcount \in ThreadCounts /\ start \in Starts
    /\ loader = "read" /\ pos = 1
    /\ proc = [s \in Schedule |-> "none"]
    /\ sc_running = 0 /\ sc_status = TRUE
    /\ now = Never
    /\ value = [s \in Schedule |-> 0] /\ next_t = [s \in Schedule |-> Never]
    /\ since = [s \in Schedule |-> 0] /\ target = [s \in Schedule |-> 0]
    /\ synced = [s \in Schedule |-> Never]

-----------------------------------------------------------------------------
(* Creation.                                                               *)

Full == global_threadcount > 1 /\ sc_running >= global_threadcount
Awake(p) == [s \in Schedule |-> IF p[s] = "asleep" THEN "begun" ELSE p[s]]
Woken(l) == IF l = "asleep" THEN "read" ELSE l

(* One that exists is not made again.  A new one has a thread, or, with    *)
(* one thread or when none can be had, it is done by the loader.           *)
schedule_create ==
    /\ loader = "read" /\ pos <= Len(file) /\ file[pos] # Object
    /\ IF file[pos] \in Listed
         THEN proc' = proc /\ loader' = loader /\ pos' = pos + 1
         ELSE /\ proc' = [proc EXCEPT ![file[pos]] = "begun"]
              /\ \/ global_threadcount > 1 /\ loader' = loader /\ pos' = pos + 1
                 \/ loader' = "inline" /\ pos' = pos
    /\ UNCHANGED <<sc_running, sc_status, schedule, Settings>>

Inlined ==
    /\ loader = "inline" /\ proc[file[pos]] = "done"
    /\ loader' = IF Table[file[pos]].ok THEN "read" ELSE "rejected"
    /\ pos' = pos + 1
    /\ UNCHANGED <<proc, sc_running, sc_status, schedule, Settings>>

Enter(s) ==
    /\ proc[s] = "begun" /\ ~Full
    /\ sc_running' = sc_running + 1
    /\ proc' = [Awake(proc) EXCEPT ![s] = "compile"]
    /\ loader' = Woken(loader)
    /\ UNCHANGED <<pos, sc_status, schedule, Settings>>

Sleep(s) ==
    /\ proc[s] = "begun" /\ Full
    /\ proc' = [proc EXCEPT ![s] = "asleep"]
    /\ UNCHANGED <<loader, pos, sc_running, sc_status, schedule, Settings>>

(* A wait on a condition may end without a broadcast.                      *)
Spurious ==
    /\ \/ /\ loader = "asleep"
          /\ loader' = "read" /\ proc' = proc
       \/ \E s \in Schedule :
             /\ proc[s] = "asleep"
             /\ proc' = [proc EXCEPT ![s] = "begun"] /\ loader' = loader
    /\ UNCHANGED <<pos, sc_running, sc_status, schedule, Settings>>

(* The tables are made; a state of its own, so that others may run.        *)
Compile(s) ==
    /\ proc[s] = "compile"
    /\ proc' = [proc EXCEPT ![s] = "finish"]
    /\ UNCHANGED <<loader, pos, sc_running, sc_status, schedule, Settings>>

Finish_Silent(s) ==
    /\ proc[s] = "finish"
    /\ sc_running' = sc_running - 1 /\ sc_status' = Table[s].ok
    /\ proc' = [proc EXCEPT ![s] = "done"]
    /\ UNCHANGED <<loader, pos, schedule, Settings>>
Finish(s) ==
    /\ proc[s] = "finish"
    /\ sc_running' = sc_running - 1 /\ sc_status' = Table[s].ok
    /\ proc' = [Awake(proc) EXCEPT ![s] = "done"]
    /\ loader' = Woken(loader)
    /\ UNCHANGED <<pos, schedule, Settings>>

schedule_createwait ==
    /\ loader = "read" /\ pos <= Len(file) /\ file[pos] = Object
    /\ IF global_threadcount > 1 /\ sc_running > 0
         THEN loader' = "asleep" /\ pos' = pos
         ELSE IF global_threadcount > 1 /\ ~sc_status
         THEN loader' = "rejected" /\ pos' = pos
         ELSE loader' = "read" /\ pos' = pos + 1
    /\ UNCHANGED <<proc, sc_running, sc_status, schedule, Settings>>

-----------------------------------------------------------------------------
(* The calendar of the years the clock runs in.                            *)

YearStart[y \in 0 .. LastYear + 1] ==
    IF y = 0 THEN 0 ELSE YearStart[y - 1] + Days(y - 1 \in LeapYears) * Day
Horizon == YearStart[LastYear + 1]

(* The year is estimated and then put right, down or up; an estimate that  *)
(* is low takes the first instant of a year for the end of the one before. *)
timestamp_year(t) ==
    LET year == ((t \div Day) * 100) \div AverageYear
    IN  IF year > LastYear \/ t < YearStart[year]
          THEN Max({y \in 0 .. LastYear : YearStart[y] <= t})
          ELSE Min({y \in year .. LastYear : t <= YearStart[y + 1]})

(* The clock starts and ends in these years; the year after a leap year is *)
(* never taken for a later day of it.                                      *)
ASSUME YearsAssumption ==
    /\ LastYear \in Nat /\ AverageYear \in Nat \ {0} /\ FirstWeekday \in Nat
    /\ Starts \subseteq 0 .. Horizon - 1
    /\ \A y \in 0 .. LastYear - 1 : y \in LeapYears => timestamp_year(YearStart[y + 1]) = y + 1

(* The calendar and minute, from the local date.                           *)
schedule_index_Common(t) ==
    LET rem == t - YearStart[timestamp_year(t)]
    IN  <<[weekday |-> (FirstWeekday + t \div Day - rem \div Day) % Weekdays, leap |-> FALSE], rem>>
schedule_index(t) ==
    LET y    == timestamp_year(t)
        rem  == t - YearStart[y]
        year == IF rem >= Days(y \in LeapYears) * Day THEN y + 1 ELSE y
    IN  <<[weekday |-> (FirstWeekday + t \div Day - rem \div Day) % Weekdays,
           leap |-> year \in LeapYears], rem>>

schedule_value(s, t) == ValueAt(Table[s], schedule_index(t))
schedule_dtnext(s, t) == Table[s].dtnext[schedule_index(t)]

Passed_After(s, t) == next_t[s] = Never \/ t > next_t[s]
Passed(s, t) == next_t[s] = Never \/ t >= next_t[s]

(* scheduletransform_syncall, for a time before the skew: the current      *)
(* value if it was valid then, else the table's.                           *)
Skewed_Current(s, t) == value'[s]
Skewed(s, t) == IF t < since'[s] \/ (next_t'[s] # Never /\ t >= next_t'[s])
                THEN schedule_value(s, t) ELSE value'[s]

(* schedule_sync looks the schedule up when its time has passed.           *)
Looked(s, t) == s \in Listed /\ Passed(s, t)

(* schedule_sync of every schedule, and the transforms that follow it.     *)
Sync(t) ==
    /\ now' = t
    /\ value' = [s \in Schedule |-> IF Looked(s, t) THEN schedule_value(s, t) ELSE value[s]]
    /\ since' = [s \in Schedule |-> IF value'[s] # value[s] THEN t ELSE since[s]]
    /\ next_t' = [s \in Schedule |->
                    IF ~Looked(s, t) THEN next_t[s]
                    ELSE IF schedule_dtnext(s, t) = 0 THEN Never
                    ELSE t + schedule_dtnext(s, t)]
    /\ synced' = [s \in Schedule |-> IF Looked(s, t) THEN t ELSE synced[s]]
    /\ target' = [s \in Schedule |->
                    IF s \in Listed /\ Skew[s] # 0 THEN Skewed(s, t - Skew[s]) ELSE value'[s]]
    /\ UNCHANGED <<create, Settings>>

(* The main loop starts when the file is read.  Files that leave creations *)
(* running or failed are not followed further.                             *)
Run ==
    /\ loader = "read" /\ pos > Len(file)
    /\ \A s \in Listed : proc[s] = "done" /\ Table[s].ok
    /\ loader' = "run"
    /\ UNCHANGED <<pos, proc, sc_running, sc_status, schedule, Settings>>

(* It may stop at any time up to the next one, never after.                *)
Advance ==
    /\ loader = "run"
    /\ \E t \in (IF now = Never THEN {start} ELSE now .. Horizon - 1) :
         /\ \A s \in Schedule : next_t[s] = Never \/ t <= next_t[s]
         /\ Sync(t)

Proceed(s) == Enter(s) \/ Sleep(s) \/ Compile(s) \/ Finish(s)
Creation == \E s \in Schedule : Proceed(s)
Loading  == schedule_create \/ Inlined \/ schedule_createwait
Stopped  == (loader = "rejected" \/ pos > Len(file)) /\ UNCHANGED vars

Next == Creation \/ Spurious \/ Loading \/ Run \/ Advance \/ Stopped
Spec == Init /\ [][Next]_vars /\ WF_vars(Loading)
             /\ \A s \in Schedule : WF_vars(Proceed(s))

-----------------------------------------------------------------------------
TypeOK ==
    /\ loader \in {"read", "inline", "asleep", "rejected", "run"}
    /\ pos \in 1 .. Len(file) + 1
    /\ proc \in [Schedule -> {"none", "begun", "asleep", "compile", "finish", "done"}]
    /\ sc_running \in 0 .. Cardinality(Schedule) /\ sc_status \in BOOLEAN
    /\ now \in Nat \union {Never} /\ since \in [Schedule -> Nat]
    /\ next_t \in [Schedule -> Nat \union {Never}]

(* No more schedules are created at once than there are threads, and the   *)
(* count is of those that are.                                             *)
Throttled ==
    /\ sc_running = Cardinality({s \in Schedule : proc[s] \in {"compile", "finish"}})
    /\ global_threadcount > 1 => sc_running <= global_threadcount

(* A creation sleeps only while as many run as may, and the loader only    *)
(* while one runs that will wake it.                                       *)
NoLostWakeup ==
    /\ \A s \in Schedule : proc[s] = "asleep" => Full
    /\ loader = "asleep" => sc_running > 0

(* Every creation ends, and the loader gets past every wait for them.      *)
CreationEnds ==
    /\ \A s \in Schedule : proc[s] # "none" ~> proc[s] = "done"
    /\ <>(loader \in {"rejected", "run"} \/ pos > Len(file))

(* What is written in a definition: the value of the entry that matches    *)
(* the date, else 0.                                                       *)
YearOf(t) == CHOOSE y \in 0 .. LastYear : YearStart[y] <= t /\ t < YearStart[y + 1]
Within(x, item) == IF item[1] <= item[2] THEN item[1] <= x /\ x <= item[2]
                   ELSE x >= item[1] \/ x <= item[2]
Meets(x, pattern) == \E k \in DOMAIN pattern : Within(x, pattern[k])
Covers(e, t) ==
    LET leap == YearOf(t) \in LeapYears
        d == (t - YearStart[YearOf(t)]) \div Day
        m == MonthOf(leap, d)
    IN  /\ Meets(t % Minutes, e.minute) /\ Meets((t % Day) \div Minutes, e.hour)
        /\ Meets(d - Before(leap, m) + 1, e.day) /\ Meets(m + 1, e.month)
        /\ Meets((FirstWeekday + t \div Day) % Weekdays, e.weekday)
Entries(s) == UNION {{Definitions[s].blocks[b][k] : k \in DOMAIN Definitions[s].blocks[b]} :
                       b \in DOMAIN Definitions[s].blocks}
Written(s) == [t \in 0 .. Horizon - 1 |->
                 {e.value : e \in {x \in Entries(s) : Covers(x, t)}}]
Writing == [s \in Schedule |-> Written(s)]

(* The times whose year is not mistaken, and two such times of one year.   *)
Dated(t) == timestamp_year(t) = YearOf(t)
SameYear(t, u) == Dated(t) /\ Dated(u) /\ YearOf(t) = YearOf(u)

(* A definition whose ranges are not outside of what they are of: one that *)
(* is, as an hour of 24, matches everything.                               *)
InRange(pattern, base, max) ==
    \A k \in DOMAIN pattern : LET item == pattern[k] IN
        item[1] <= item[2] => item[1] <= max /\ base <= item[2]
Plain(e) ==
    /\ InRange(e.minute, 0, Minutes - 1) /\ InRange(e.hour, 0, Hours - 1)
    /\ InRange(e.day, 1, MonthLength) /\ InRange(e.month, 1, Len(MonthDays[TRUE]))
    /\ InRange(e.weekday, 0, Weekdays + 1)

(* A schedule that is created says at every minute what its definition     *)
(* says, and a definition that says two things is not accepted; only a     *)
(* zero may be overridden.                                                 *)
TableIsDefinition ==
    \A s \in Schedule : proc[s] = "done" /\ Table[s].ok /\ (\A e \in Entries(s) : Plain(e)) =>
        \A t \in {x \in 0 .. Horizon - 1 : Dated(x)} :
            LET says == Writing[s][t] IN
            /\ schedule_value(s, t) \in says \union (IF says = {} THEN {0} ELSE {})
            /\ Cardinality(says \ {0}) <= 1
            /\ schedule_value(s, t) = 0 => says \subseteq {0}

(* The table's value for a time, by the calendar of its true year.         *)
Says(s, t) ==
    LET first == YearStart[YearOf(t)] IN
    ValueAt(Table[s], <<[weekday |-> (FirstWeekday + first \div Day) % Weekdays,
                         leap |-> YearOf(t) \in LeapYears], t - first>>)

(* However the clock gets there, a schedule has the value of this minute,  *)
(* as long as it was last looked up in this year; and it answers that it   *)
(* will never change only if it will not, in any year.                     *)
ValueIsCurrent ==
    now # Never => \A s \in Listed :
        /\ SameYear(synced[s], now) => value[s] = Says(s, now)
        /\ next_t[s] = Never => \A t \in now .. Horizon - 1 : Says(s, t) = value[s]

(* A schedule is looked up in each year as soon as the longest time that   *)
(* was found in the table of the year before is over.                      *)
Settled(t) == Dated(t) /\ (YearStart[YearOf(t)] + MaxDelta <= t \/ SameYear(start, t))

(* "subtract so the +12 is 'twelve seconds later', not earlier": an object *)
(* with a skew reads the value of the time before it, once the clock has   *)
(* run for that long, in this year or an earlier one.                      *)
SkewIsPast ==
    now # Never => \A s \in Listed :
        LET t == now - Skew[s] IN
        t >= start /\ Settled(t) => target[s] = Says(s, t)

(* "objects should not be started until all deferred schedules are done".  *)
ObjectsAfterSchedules ==
    \A k \in 1 .. pos - 1 : file[k] = Object =>
        \A j \in 1 .. k - 1 : file[j] # Object => proc[file[j]] = "done"

(* "the time of the next schedule change": until then the value is that of *)
(* the table.                                                              *)
ChangesOnTime == now # Never => \A s \in Listed : value[s] = Says(s, now)
=============================================================================
