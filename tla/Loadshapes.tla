----------------------------- MODULE Loadshapes -----------------------------
(***************************************************************************)
(* Loadshapes (core/loadshape.c): each is a machine driven by a schedule.  *)
(* An analog one follows the value.  A pulsed or modulated one has a queue *)
(* that fills while the load is off, at a rate the value decides; at the   *)
(* threshold the load comes on and the queue drains until it is empty.     *)
(* Shapes are brought up to date together, with one thread here, when the  *)
(* clock comes to the earliest time any of them has asked for; how more    *)
(* threads divide the list is SyncPool's subject.  A schedule may have     *)
(* gaps, times without a value, in which its shapes stand still.           *)
(*                                                                         *)
(* The queue is counted in parts of the threshold, and rates in parts per  *)
(* second; one of more than Full parts stands for every greater one, an    *)
(* infinite one included.  A pulsed shape's rates have the sign its        *)
(* parameters are checked for.  A modulated one's are what comes of a      *)
(* division by the difference of its period, in hours, and its pulse, in   *)
(* seconds: of either sign.                                                *)
(*                                                                         *)
(* Definitions named <definition>_<Word> are mutations of the definition   *)
(* that follows them; nothing uses them.                                   *)
(***************************************************************************)
EXTENDS Integers, FiniteSetsExt

CONSTANTS Schedules, Values,
          Gappy,        \* the schedules with gaps
          Shapes,
          Kind,         \* of a shape: "analog", "pulsed", "modulated"
          ScheduleOf,
          Full,         \* the threshold at which a load comes on
          OffRate,      \* of a shape, by value: how fast the queue fills
          OnRate,       \*    and drains
          Gap,          \* in the place of a value: the schedule has none
          Start, LastClock,
          Holds,        \* how long a value of a schedule may last
          TS_NEVER

ASSUME ShapesAssumption == /\ Kind \in [Shapes -> {"analog", "pulsed", "modulated"}]
                           /\ ScheduleOf \in [Shapes -> Schedules]
                           /\ Gappy \subseteq Schedules
ASSUME ValuesAssumption == Values \subseteq Int /\ Gap \notin Values
ASSUME RatesAssumption ==
    /\ Full \in Nat \ {0}
    /\ OffRate \in [Shapes -> [Values -> Int]] /\ OnRate \in [Shapes -> [Values -> Int]]
    /\ \A k \in Shapes : Kind[k] = "pulsed" =>
          \A v \in Values : OffRate[k][v] >= 0 /\ OnRate[k][v] > 0
ASSUME TimesAssumption == /\ Start \in Nat \ {0} /\ LastClock \in Nat
                          /\ TS_NEVER \in Nat \ {0}
                          /\ Holds \subseteq Nat \ {0}

VARIABLES
    clock, value, next_t,  \* the clock and the schedules
    q, r, s, load, t0, t2, \* the shapes; s: whether the load is on
    next_t2_ls,            \* the earliest time a shape has asked for
    step_to, failed,       \* exec_start: the answer of syncall_internals
    held                   \* history: how long the load has been on

schedule == <<value, next_t>>
shape    == <<q, r, s, load, t0, t2>>
vars     == <<clock, schedule, shape, next_t2_ls, step_to, failed, held>>

(* loadshape_init: schedules have no value yet.                            *)
Init ==
    /\ clock = 0 /\ step_to = Start /\ failed = FALSE
    /\ value = [c \in Schedules |-> Gap] /\ next_t = [c \in Schedules |-> Start]
    /\ q \in [Shapes -> 0..Full-1] /\ \A k \in Shapes : Kind[k] = "analog" => q[k] = 0
    /\ r = [k \in Shapes |-> 0] /\ s = [k \in Shapes |-> FALSE] /\ load = [k \in Shapes |-> 0]
    /\ t0 = [k \in Shapes |-> 0] /\ t2 = [k \in Shapes |-> TS_NEVER]
    /\ next_t2_ls = 0 /\ held = [k \in Shapes |-> 0]

-----------------------------------------------------------------------------
(* One shape, at time t, with the schedule as it has become.               *)

Val(k) == value'[ScheduleOf[k]]
Pulses(k) == Kind[k] # "analog"

Elapsed(k, t) == IF t0[k] > 0 THEN t - t0[k] ELSE 0
Queue(k, t)   == q[k] + r[k] * Elapsed(k, t)

(* "within the next second", at the rate that has been.                    *)
TurnsOn(k, t)  == r[k] > 0 /\ Queue(k, t) >= Full - r[k]
TurnsOff(k, t) == r[k] < 0 /\ Queue(k, t) <= -r[k]

On(k, t) == IF r[k] >= 0 THEN TurnsOn(k, t) ELSE ~TurnsOff(k, t)

NewQueue_Kept(k, t) == Queue(k, t)

NewQueue(k, t) == CASE TurnsOn(k, t)  -> Full
                    [] TurnsOff(k, t) -> 0
                    [] OTHER          -> Queue(k, t)

Rate_Left(k, t) == IF On(k, t) THEN -OnRate[k][Val(k)]
                   ELSE IF Val(k) > 0 THEN OffRate[k][Val(k)] ELSE r[k]

Rate(k, t) == IF On(k, t) THEN -OnRate[k][Val(k)]
              ELSE IF Val(k) > 0 THEN OffRate[k][Val(k)] ELSE 0

(* The time the queue has left to its threshold, cut to whole seconds: the *)
(* distance by the speed it comes nearer at, which may be negative.        *)
Left(k, t) ==
    LET distance == IF On(k, t) THEN NewQueue(k, t) ELSE Full - NewQueue(k, t)
        speed    == IF On(k, t) THEN -Rate(k, t) ELSE Rate(k, t)
    IN  IF speed > 0 THEN distance \div speed ELSE -(distance \div (-speed))

Ask_Own(k, t) ==
    IF ~Pulses(k) \/ Rate(k, t) = 0 THEN TS_NEVER
    ELSE t + Left(k, t) + (IF Kind[k] = "modulated" THEN 1 ELSE 0)

Ask(k, t) ==
    LET own == IF ~Pulses(k) \/ Rate(k, t) = 0 THEN TS_NEVER
               ELSE t + Left(k, t) + (IF Kind[k] = "modulated" THEN 1 ELSE 0)
        change == next_t'[ScheduleOf[k]]
    IN  IF change < own THEN change ELSE own

(* What is not a time after 1970 is not taken for one.                     *)
Positive(t) == IF t > 0 THEN t ELSE TS_NEVER

(* A shape in a gap, or one that was there at this time already, does not  *)
(* move.                                                                   *)
Moves(k, t) == t > t0[k] /\ Val(k) # Gap
Moving(f, k, t, new) == IF Moves(k, t) THEN new ELSE f[k]

Answer(k, t) == IF Moves(k, t) THEN Positive(Ask(k, t))
                ELSE IF t > t0[k] THEN TS_NEVER ELSE Positive(t2[k])

-----------------------------------------------------------------------------
(* schedule_syncall: the next value of the schedules that are due.         *)
schedule_syncall(t) ==
    /\ value' \in [Schedules -> Values \union {Gap}]
    /\ next_t' \in [Schedules -> {t + h : h \in Holds} \union {next_t[c] : c \in Schedules}]
    /\ \A c \in Schedules :
         IF t >= next_t[c] THEN /\ value'[c] = Gap => c \in Gappy
                                /\ next_t'[c] - t \in Holds
         ELSE value'[c] = value[c] /\ next_t'[c] = next_t[c]

Cached(t) == next_t2_ls > t /\ next_t2_ls < TS_NEVER

loadshape_syncall(t) ==
    IF Cached(t) THEN UNCHANGED <<shape, next_t2_ls>>
    ELSE /\ q' = [k \in Shapes |-> IF Pulses(k) THEN Moving(q, k, t, NewQueue(k, t)) ELSE q[k]]
         /\ r' = [k \in Shapes |-> IF Pulses(k) THEN Moving(r, k, t, Rate(k, t)) ELSE r[k]]
         /\ s' = [k \in Shapes |-> IF Pulses(k) THEN Moving(s, k, t, On(k, t)) ELSE s[k]]
         /\ load' = [k \in Shapes |-> Moving(load, k, t, IF ~Pulses(k) THEN Val(k) ELSE IF On(k, t) THEN 1 ELSE 0)]
         /\ t2' = [k \in Shapes |-> Moving(t2, k, t, Ask(k, t))]
         /\ t0' = [k \in Shapes |-> t]
         /\ next_t2_ls' = Min({TS_NEVER} \union {Answer(k, t) : k \in Shapes})

(* The main loop comes to time t, or iterates at the time it is at;        *)
(* objects may have events before the shapes do.  An answer that is not in *)
(* the future ends the run.                                                *)
Sync(t) ==
    /\ schedule_syncall(t)
    /\ loadshape_syncall(t)
    /\ clock' = t
    /\ step_to' = Min({next_t2_ls'} \union {next_t'[c] : c \in Schedules})
    /\ failed' = (step_to' <= t)
    /\ held' = [k \in Shapes |-> IF s[k] /\ s'[k] THEN held[k] + (t - clock) ELSE 0]

Next ==
    /\ ~failed
    /\ \E t \in Start..LastClock : t >= clock /\ t <= step_to /\ Sync(t)

Spec == Init /\ [][Next]_vars

-----------------------------------------------------------------------------
(* Properties.                                                             *)

(* Each variable is of its type.                                           *)
TypeOK ==
    /\ clock \in Nat /\ step_to \in Nat /\ next_t2_ls \in Nat /\ failed \in BOOLEAN
    /\ value \in [Schedules -> Values \union {Gap}] /\ next_t \in [Schedules -> Nat]
    /\ q \in [Shapes -> Int] /\ r \in [Shapes -> Int] /\ s \in [Shapes -> BOOLEAN]
    /\ t0 \in [Shapes -> Nat] /\ t2 \in [Shapes -> Int]

(* A shape that fills while it is off and drains while it is on.           *)
Fills(k) == \A v \in Values : OffRate[k][v] >= 0 /\ OnRate[k][v] > 0

(* Whatever the gaps, the changes of value, the rates and the moments at   *)
(* which the shapes are brought up to date, no queue overflows or runs     *)
(* dry; and that of a shape that fills drains while the load is on and     *)
(* only then, which loadshape_sync checks of pulsed shapes in debug builds *)
(* ("state inconsistent").                                                 *)
StateConsistent ==
    \A k \in Shapes :
      /\ 0 <= q[k] /\ q[k] <= Full
      /\ Fills(k) => (s[k] <=> r[k] < 0)

(* The same of every shape.  A modulated one whose pulse in seconds is a   *)
(* greater number than its period in hours has a negative rate while it is *)
(* off; the debug check is only made of pulsed ones.                       *)
AlwaysConsistent == \A k \in Shapes : s[k] <=> r[k] < 0

(* A pulse is as long as its parameters make it, to a second, whatever     *)
(* other shapes and objects ask for meanwhile and whatever becomes of the  *)
(* value; a gap in another schedule does not change it.                    *)
Length(k) == Full \div OnRate[k][CHOOSE v \in Values : TRUE]
Steady(k) == /\ Pulses(k) /\ Fills(k) /\ ScheduleOf[k] \notin Gappy
             /\ \A v, w \in Values : OnRate[k][v] = OnRate[k][w]
PulseLength ==
    [][\A k \in Shapes : Steady(k) /\ s[k] =>
          /\ held'[k] <= Length(k) + 1
          /\ ~s'[k] => held[k] + (clock' - clock) >= Length(k) - 1]_vars

(* An analog shape has the value its schedule has, also when it is another *)
(* shape that is waited for.                                               *)
LoadIsCurrent ==
    \A k \in Shapes : Kind[k] = "analog" /\ ScheduleOf[k] \notin Gappy /\ clock >= Start
        => load[k] = value[ScheduleOf[k]]

(* A shape never stops the run without a word: exec_start says of the      *)
(* failure that it "should be preceded by a more informative message that  *)
(* explains which element failed", and no shape writes one.                *)
NoSilentFailure == ~failed
=============================================================================
