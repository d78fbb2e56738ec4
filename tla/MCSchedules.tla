---------------------------- MODULE MCSchedules -----------------------------
(* Days of two hours of three minutes, weeks of two days, and years of two *)
(* days or three.                                                          *)
EXTENDS Schedules

MCMonthDays == [leap \in BOOLEAN |-> <<1, IF leap THEN 2 ELSE 1>>]
Entry(minute, hour, day, month, weekday, v) ==
    [minute |-> minute, hour |-> hour, day |-> day, month |-> month, weekday |-> weekday, value |-> v]
All == <<<<0, 2>>>>
AllDays == <<<<1, 2>>>>

(* A zero that is written before the other value; minutes that wrap around *)
(* the hour, on one weekday, and a minute of one day in a second block; a  *)
(* value in every minute; and definitions that conflict, or leave holes.   *)
Rest    == Entry(All, <<<<0, 0>>>>, AllDays, AllDays, All, 0)
Night   == Entry(All, <<<<1, 1>>>>, AllDays, AllDays, All, 2)
Evening == Entry(<<<<2, 0>>>>, <<<<1, 1>>>>, <<<<1, 1>>>>, AllDays, <<<<0, 0>>>>, 3)
Whole   == Entry(All, All, AllDays, AllDays, All, 2)
First   == Entry(<<<<0, 1>>>>, <<<<0, 0>>>>, <<<<1, 1>>>>, <<<<1, 1>>>>, <<<<0, 0>>>>, 1)

MCDefinitions ==
    << [blocks |-> <<<<Rest, Night>>>>, flags |-> {"positive"}],
       [blocks |-> <<<<Evening>>, <<First>>>>, flags |-> {}],
       [blocks |-> <<<<Whole>>>>, flags |-> {"nonzero"}],
       [blocks |-> <<<<Night>>, <<Evening>>>>, flags |-> {}],
       [blocks |-> <<<<Night>>>>, flags |-> {"nonzero"}],
       [blocks |-> <<>>, flags |-> {"positive"}] >>
MCFiles == {<<1, 2, 0, 3>>, <<3, 4, 3, 0, 6>>, <<5, 1, 0>>, <<6, 3>>}
MCThreadCounts == {1, 2}
MCSkew == <<4, 1, 2, 0, 0, 1>>
=============================================================================
