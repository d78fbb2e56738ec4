---------------------------- MODULE MCLoadshapes ----------------------------
(* Two schedules, the second with gaps; shapes of each kind, and two       *)
(* pulsed ones: one fills as fast as two seconds, the other has gaps.  And *)
(* a modulated one whose pulse is longer than its period: its queue is     *)
(* drained while the load is off, and the time it asks for is ahead, now   *)
(* or past, depending on how full the queue was.                           *)
EXTENDS Loadshapes

MCShapes == {"analog", "pulsed", "modulated", "gappy", "overlong"}
MCKind == [k \in Shapes |-> CASE k = "gappy" -> "pulsed"
                              [] k = "overlong" -> "modulated"
                              [] OTHER -> k]
MCScheduleOf == [k \in Shapes |-> IF k = "gappy" THEN "b" ELSE "a"]
MCOffRate == [k \in Shapes |-> [v \in Values |->
                CASE k = "modulated" -> v
                  [] k = "overlong" -> -2 * v
                  [] OTHER -> 2 * v]]
MCOnRate == [k \in Shapes |-> [v \in Values |-> IF k = "pulsed" THEN 1 ELSE 2]]
=============================================================================
