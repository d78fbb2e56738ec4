--------------------------- MODULE ScheduleTable ----------------------------
(***************************************************************************)
(* The compilation of a schedule (core/schedule.c).  Its definition is a   *)
(* few blocks of entries in the manner of crontab; it is compiled to a     *)
(* table for each calendar, that is for each weekday of the first of       *)
(* January and leap year or not, with the index of a value for every       *)
(* minute, and the minutes until the value changes.  Tables are as long as *)
(* a leap year whatever their calendar.                                    *)
(*                                                                         *)
(* Definitions named <definition>_<Word> are mutations of the definition   *)
(* that follows them; nothing uses them, and put in its place each of them *)
(* breaks a property of Schedules.                                         *)
(***************************************************************************)
EXTENDS Integers, Sequences, FiniteSets, FiniteSetsExt, SequencesExt

CONSTANTS MonthDays,   \* days of the months of a year that is leap or is not
          Hours, Minutes, Weekdays,   \* of a day, of an hour, of a week
          MaxBlocks, MaxValues,       \* MAXBLOCKS, MAXVALUES of a block
          MaxDelta                    \* the longest time in a table, 255

Day == Hours * Minutes
Days(leap) == FoldLeft(+, 0, MonthDays[leap])
Year(leap) == 0 .. Days(leap) * Day - 1

Calendars == [weekday : 0 .. Weekdays - 1, leap : BOOLEAN]
Values    == 0 .. MaxBlocks * MaxValues - 1
Blocks    == 0 .. MaxBlocks - 1

(* A leap year is a day longer, and has the only table that is full.       *)
ASSUME TableAssumption ==
    /\ {Hours, Minutes, Weekdays, MaxBlocks, MaxValues, MaxDelta} \subseteq Nat \ {0}
    /\ Days(FALSE) \in Nat \ {0} /\ Days(TRUE) = Days(FALSE) + 1

(* The places of a table.                                                  *)
Places == Calendars \X Year(TRUE)

-----------------------------------------------------------------------------
(* Patterns.  An item <<start, stop>> is a range, which may wrap around.   *)

Filled_Straight(item, base, max) == {x \in base .. max : item[1] <= x /\ x <= item[2]}
Filled(item, base, max) ==
    LET start == IF item[1] < base THEN base ELSE item[1]
        stop  == IF item[2] > max THEN max ELSE item[2]
    IN  IF start > stop THEN start .. max \union base .. stop ELSE start .. stop

schedule_matcher(pattern, base, max) ==
    UNION {Filled(pattern[k], base, max) : k \in DOMAIN pattern}

(* The month of a day of the year, and the day in its month, from zero.    *)
Before(leap, m) == FoldLeft(+, 0, SubSeq(MonthDays[leap], 1, m))
MonthOf(leap, d) == CHOOSE m \in 0 .. Len(MonthDays[leap]) - 1 :
                      Before(leap, m) <= d /\ d < Before(leap, m + 1)

MonthLength == Max({MonthDays[TRUE][m] : m \in DOMAIN MonthDays[TRUE]})

(* The first day of a year is in its first month, and every day is one of  *)
(* a month.                                                                *)
ASSUME MonthsAssumption ==
    /\ MonthDays \in [BOOLEAN -> Seq(Nat)] /\ MonthLength \in Nat
    /\ \A leap \in BOOLEAN : MonthOf(leap, 0) = 0
    /\ \A leap \in BOOLEAN : \A d \in 0 .. Days(leap) - 1 :
         /\ MonthOf(leap, d) + 1 \in 1 .. Len(MonthDays[TRUE])
         /\ d - Before(leap, MonthOf(leap, d)) + 1 \in 1 .. MonthLength

(* The places that an entry matches.                                       *)
Matched(e) ==
    LET minute  == schedule_matcher(e.minute, 0, Minutes - 1)
        hour    == schedule_matcher(e.hour, 0, Hours - 1)
        day     == schedule_matcher(e.day, 1, MonthLength)
        month   == schedule_matcher(e.month, 1, Len(MonthDays[TRUE]))
        weekday == schedule_matcher(e.weekday, 0, Weekdays + 1)
        dates(cal) == {d \in 0 .. Days(cal.leap) - 1 :
                         LET m == MonthOf(cal.leap, d) IN
                         /\ m + 1 \in month
                         /\ d - Before(cal.leap, m) + 1 \in day
                         /\ (cal.weekday + d) % Weekdays \in weekday}
    IN  UNION {{<<cal, d * Day + h * Minutes + m>> :
                  d \in dates(cal), h \in hour, m \in minute} : cal \in Calendars}

-----------------------------------------------------------------------------
(* schedule_compile_block, an entry at a time.                             *)

New == [ok |-> TRUE, block |-> 0,
        index   |-> [p \in Places |-> 0],
        dtnext  |-> [p \in Places |-> 0],
        data    |-> [n \in Values |-> 0],
        weight  |-> [n \in Values |-> 0],
        count   |-> [b \in Blocks |-> 0],
        minutes |-> [b \in Blocks |-> 0]]

(* The place of a value in the block, the first free one if it is new.     *)
find_value_index(sch, value) ==
    LET b     == sch.block * MaxValues
        known == {k \in 0 .. sch.count[sch.block] - 1 : sch.data[b + k] = value}
    IN  IF known = {} THEN sch.count[sch.block] ELSE Min(known)

Conflict_Never(sch, hit) == FALSE
Conflict(sch, hit) == \E p \in hit : sch.index[p] > 0

Failed(sch) == [sch EXCEPT !.ok = FALSE]

AddEntry(sch, e) ==
    LET ndx == find_value_index(sch, e.value)
        n   == sch.block * MaxValues + ndx
        hit == Matched(e)
    IN  IF ~sch.ok THEN sch
        ELSE IF ndx >= MaxValues \/ Conflict(sch, hit) THEN Failed(sch)
        ELSE [sch EXCEPT
                !.index = [p \in Places |-> IF p \in hit THEN n ELSE @[p]],
                !.data[n] = e.value,
                !.weight[n] = @ + Cardinality(hit),
                !.count[sch.block] = IF ndx < @ THEN @ ELSE @ + 1,
                !.minutes[sch.block] = @ + Cardinality(hit)]

(* The first value of a block is the default value 0.                      *)
CompileBlock(sch, entries) ==
    IF ~sch.ok THEN sch
    ELSE IF sch.block >= MaxBlocks THEN Failed(sch)
    ELSE LET done == FoldLeft(AddEntry, [sch EXCEPT !.count[sch.block] = 1], entries)
         IN  IF done.ok THEN [done EXCEPT !.block = @ + 1] ELSE done

schedule_compile(blocks) == FoldLeft(CompileBlock, New, blocks)

-----------------------------------------------------------------------------
(* schedule_createproc: the times to the next change, and the checks.      *)

ValueAt(sch, p) == sch.data[sch.index[p]]
SameNext(sch, cal, t) == ValueAt(sch, <<cal, t>>) = ValueAt(sch, <<cal, t + 1>>)

LastMinute == Days(TRUE) * Day - 1
invariant(sch) == \A cal \in Calendars : \A t \in 0 .. LastMinute - 1 : SameNext(sch, cal, t)

(* A time in the table is an unsigned char.                                *)
Longer_Wraps(n) == (n + 1) % (MaxDelta + 1)
Longer(n) == (n % MaxDelta) + 1

(* Filled backwards; zero means never.                                     *)
dtnext(sch) ==
    LET next[p \in Places] ==
          IF p[2] = LastMinute \/ ~SameNext(sch, p[1], p[2]) THEN 1
          ELSE Longer(next[<<p[1], p[2] + 1>>])
    IN  IF invariant(sch) THEN [p \in Places |-> 0] ELSE [p \in Places |-> next[p]]

(* The values that are counted go one past those of the block.             *)
Validated(sch, flags) ==
    /\ \A b \in Blocks : \A k \in 0 .. sch.count[b] :
         LET n == b * MaxValues + k
             used == n \in Values /\ sch.weight[n] > 0 IN
         /\ "boolean" \in flags /\ k > 0 => used /\ sch.data[n] \in {0, 1}
         /\ "positive" \in flags /\ k > 0 => ~(used /\ sch.data[n] < 0)
         /\ "nonzero" \in flags => ~(used /\ sch.data[n] = 0)
    /\ "nonzero" \in flags =>
         MapThenSumSet(LAMBDA n : IF sch.data[n] # 0 THEN sch.weight[n] ELSE 0, Values)
           = MapThenSumSet(LAMBDA cal : Days(cal.leap) * Day, Calendars)

(* What schedule_createproc makes of a definition.  Flags normalise none:  *)
(* schedule_normalize returns at once when the flags it is given are flags *)
(* of the schedule, and here they are the same.                            *)
Finished(sch, flags) ==
    IF sch.ok THEN [sch EXCEPT !.dtnext = dtnext(sch), !.ok = Validated(sch, flags)] ELSE sch
Created(def) == Finished(schedule_compile(def.blocks), def.flags)
=============================================================================
