----------------------------- MODULE Regulators -----------------------------
(* A voltage regulator (powerflow/regulator.cpp) and the solution of the   *)
(* network around it.  Voltages are counted in steps of a tap (VtapChange),*)
(* from the centre of the band; the voltage behind the regulator is that   *)
(* before it, which loads make any, moved by its tap.  The line drop is    *)
(* left out: what is monitored is the output or a remote node.             *)
(*                                                                         *)
(* The regulator changes a tap when the voltage has been out of the band   *)
(* for dwell_time, and time_delay after the change before.  A sweep        *)
(* (FBS) runs presync with the voltages of the sweep before, solves, and   *)
(* runs postsync with the new ones, until no voltage moves; with           *)
(* Newton-Raphson (NR) sweeps come in pairs, one that solves and one that  *)
(* accumulates, and only the second runs the regulator.                    *)
(*                                                                         *)
(* Definitions named <definition>_<Word> are mutations of the definition   *)
(* that follows them; nothing uses them.                                   *)
(***************************************************************************)
EXTENDS Integers, FiniteSetsExt

CONSTANTS Phases,       \* 1 .. the number of phases
          RaiseTaps, LowerTaps, HalfBand,
          Timings,      \* choices of [dwell_time, time_delay, minimum_timestep]
          Sources,      \* voltages that loads leave before the regulator
          LastTime      \* bound of the clock

ASSUME ConfigurationAssumption ==
    /\ 1 \in Phases /\ IsFiniteSet(Phases) /\ Phases \subseteq Nat
    /\ RaiseTaps \in Nat \ {0} /\ LowerTaps \in Nat \ {0} /\ HalfBand \in Nat
    /\ Timings \subseteq [dwell_time : Nat, time_delay : Nat, minimum_timestep : Nat \ {0}]
    /\ Sources \subseteq Int /\ LastTime \in Nat

VARIABLES
    solver_method, control_level, timing,    \* the configuration: constant
    clock, source, voltage, pc,
    tap, mech_t_next, dwell_t_next, mech_flag, dwell_flag,
    first_run_flag, next_time,
    since, changed       \* history: the first reading out of the band of those up to now, the last change

configuration == <<solver_method, control_level, timing>>
regulator == <<tap, mech_t_next, dwell_t_next, mech_flag, dwell_flag, first_run_flag, next_time>>
history   == <<since, changed>>
vars      == <<configuration, clock, source, voltage, pc, regulator, history>>

Start == 0
TS_NEVER == LastTime + 1000
None == -1
Taps == -LowerTaps .. RaiseTaps

dwell_time == timing.dwell_time
time_delay == timing.time_delay
OffNominal_Never == FALSE

OffNominal == timing.minimum_timestep > 1

-----------------------------------------------------------------------------
(* What presync makes of a phase that it controls.                         *)

Limited(x) == IF x > RaiseTaps THEN RaiseTaps ELSE IF x < -LowerTaps THEN -LowerTaps ELSE x
Wanted(p) == IF voltage[p] < -HalfBand THEN 1 ELSE IF voltage[p] > HalfBand THEN -1 ELSE 0

(* What is monitored in a bank is the voltage of one phase.                *)
Controlled == IF control_level = "BANK" THEN {1} ELSE Phases
ControlOf(p) == IF control_level = "BANK" THEN 1 ELSE p

Mech(p)  == mech_flag[p] \/ mech_t_next[p] <= clock
Dwelt(p) == dwell_t_next[p] <= clock

Phase(x, m, d, mf, df) == [tap |-> x, mech |-> m, dwell |-> d, mech_flag |-> mf, dwell_flag |-> df]

(* The first solution goes to the centre of the band at once.              *)
Solved(p) == Phase(Limited(tap[p] - voltage[p]), clock + time_delay, clock + dwell_time, Mech(p), Dwelt(p))
Dwell(p)  == Phase(tap[p], clock + dwell_time + time_delay, clock + dwell_time, Mech(p), Dwelt(p))
Delay(p)  == Phase(tap[p], clock + time_delay, dwell_t_next[p], Mech(p), Dwelt(p))
Wait(p)   == Phase(tap[p], mech_t_next[p], dwell_t_next[p], Mech(p), Dwelt(p))
Change_Flagged(p) ==
    LET x == tap[p] + Wanted(p) IN
    Phase(Limited(x), clock + time_delay, clock + dwell_time, TRUE, x = Limited(x))
Change_Now(p) == Phase(Limited(tap[p] + Wanted(p)), clock, clock, FALSE, TRUE)

Change(p) ==
    LET x == tap[p] + Wanted(p) IN
    Phase(Limited(x), clock + time_delay, clock + dwell_time, FALSE, x = Limited(x))
Rest_Kept(p) == Phase(tap[p], TS_NEVER, dwell_t_next[p], FALSE, FALSE)

Rest(p)   == Phase(tap[p], TS_NEVER, TS_NEVER, FALSE, FALSE)

Regulated(p) ==
    CASE Wanted(p) = 0                                   -> Rest(p)
      [] Wanted(p) # 0 /\ first_run_flag'[p] = 0         -> Solved(p)
      [] OTHER ->
           CASE Mech(p) /\ Dwelt(p)                                          -> Change(p)
             [] ~Mech(p) /\ Dwelt(p) /\ mech_t_next[p] - clock >= time_delay  -> Delay(p)
             [] ~Dwelt(p) /\ dwell_t_next[p] - clock >= dwell_time            -> Dwell(p)
             [] OTHER                                                         -> Wait(p)
Moves(p) == Wanted(p) # 0 /\ (first_run_flag'[p] = 0 \/ (Mech(p) /\ Dwelt(p)))

(* A bank counts its first solutions by its first phase.                   *)
FirstRun ==
    first_run_flag' = [p \in Phases |->
        IF first_run_flag[ControlOf(p)] < 1 THEN first_run_flag[p] + 1 ELSE first_run_flag[p]]

(* The time of the next change.  nt is not initialised: where both times   *)
(* of a phase have come it holds anything.                                 *)
Coming(m, d, u) == IF d > clock THEN d ELSE IF m > clock THEN m ELSE u
Soonest_Last(nt) == IF nt[1] > clock THEN Max({nt[p] : p \in Controlled}) ELSE TS_NEVER

Soonest(nt) ==
    LET first == IF nt[1] > clock THEN nt[1] ELSE next_time
        least == Min({first} \union {nt[p] : p \in {q \in Controlled \ {1} : nt[q] > clock}})
    IN IF least <= clock THEN TS_NEVER ELSE least

presync ==
    /\ pc = "presync"
    /\ FirstRun
    /\ LET new == [p \in Controlled |-> Regulated(p)] IN
       /\ tap' = [p \in Phases |-> IF Moves(ControlOf(p)) THEN new[ControlOf(p)].tap ELSE tap[p]]
       /\ mech_t_next' = [p \in Phases |-> IF p \in Controlled THEN new[p].mech ELSE mech_t_next[p]]
       /\ dwell_t_next' = [p \in Phases |-> IF p \in Controlled THEN new[p].dwell ELSE dwell_t_next[p]]
       /\ mech_flag' = [p \in Phases |-> IF p \in Controlled THEN new[p].mech_flag ELSE mech_flag[p]]
       /\ dwell_flag' = [p \in Phases |-> IF p \in Controlled THEN new[p].dwell_flag ELSE dwell_flag[p]]
       /\ \E u \in [Controlled -> {Start, TS_NEVER}] :
             next_time' = Soonest([p \in Controlled |-> Coming(new[p].mech, new[p].dwell, u[p])])
    /\ since' = [p \in Phases |-> IF Wanted(ControlOf(p)) = 0 THEN None
                                  ELSE IF since[p] = None THEN clock ELSE since[p]]
    /\ changed' = [p \in Phases |-> IF tap'[p] # tap[p] THEN clock ELSE changed[p]]
    /\ pc' = "postsync"
    /\ UNCHANGED <<configuration, clock, source, voltage>>

-----------------------------------------------------------------------------
(* The network.                                                            *)

Behind == [p \in Phases |-> source[p] + tap[p]]

(* The sweep of NR that solves; presync only finds its answer.             *)
solver_nr ==
    /\ pc = "solve"
    /\ voltage' = Behind
    /\ next_time' = IF OffNominal /\ clock > next_time THEN clock ELSE next_time
    /\ pc' = "presync"
    /\ UNCHANGED <<configuration, clock, source, tap, mech_t_next, dwell_t_next, mech_flag, dwell_flag,
                   first_run_flag, history>>

(* The limits are swapped, as in the code.                                 *)
Stays(p) ==
    \/ first_run_flag[p] < 1
    \/ /\ Dwelt(p) /\ Mech(p)
       /\ \/ voltage'[ControlOf(p)] < -HalfBand /\ tap[p] # -LowerTaps
          \/ voltage'[ControlOf(p)] > HalfBand /\ tap[p] # -RaiseTaps
postsync ==
    /\ pc = "postsync"
    /\ voltage' = IF solver_method = "FBS" THEN Behind ELSE voltage
    /\ mech_flag' = [p \in Phases |-> Mech(p)]
    /\ dwell_flag' = [p \in Phases |-> Dwelt(p)]
    /\ pc' = IF voltage' = voltage /\ \A p \in Phases : ~Stays(p) THEN "settled"
             ELSE IF solver_method = "NR" THEN "solve" ELSE "presync"
    /\ UNCHANGED <<configuration, clock, source, tap, mech_t_next, dwell_t_next, first_run_flag, next_time, history>>

(* Time goes on, at the latest to the answer of presync, in steps of       *)
(* minimum_timestep; loads change.                                         *)
Step == timing.minimum_timestep
Advance ==
    /\ pc = "settled"
    /\ clock' \in {t \in clock + 1 .. LastTime : t % Step = 0 /\ t < next_time + Step}
    /\ source' \in [Phases -> Sources]
    /\ pc' = IF solver_method = "NR" THEN "solve" ELSE "presync"
    /\ UNCHANGED <<configuration, voltage, regulator, history>>

(* init; the taps may have initial values, and then there is no first run. *)
Init ==
    /\ solver_method \in {"FBS", "NR"} /\ control_level \in {"INDIVIDUAL", "BANK"} /\ timing \in Timings
    /\ clock = Start /\ source \in [Phases -> Sources] /\ voltage = [p \in Phases |-> 0]
    /\ tap = [p \in Phases |-> 0] /\ next_time = Start
    /\ mech_t_next = [p \in Phases |-> TS_NEVER] /\ dwell_t_next = [p \in Phases |-> TS_NEVER]
    /\ mech_flag = [p \in Phases |-> FALSE] /\ dwell_flag = [p \in Phases |-> FALSE]
    /\ first_run_flag \in [Phases -> {0, IF solver_method = "NR" THEN -2 ELSE -1}]
    /\ since = [p \in Phases |-> None] /\ changed = [p \in Phases |-> None]
    /\ pc = IF solver_method = "NR" THEN "solve" ELSE "presync"

Sweep == presync \/ solver_nr \/ postsync
Next == Sweep \/ Advance
Spec == Init /\ [][Next]_vars /\ WF_vars(Sweep)

-----------------------------------------------------------------------------
(* Properties.                                                             *)

Longest == IF dwell_time > time_delay THEN dwell_time ELSE time_delay
AtLimit(p) == tap[p] = IF Wanted(p) = 1 THEN RaiseTaps ELSE -LowerTaps

(* "mechanical time delay between tap changes" and "time delay setting of  *)
(* regulator control": a tap moves again only when both of them have gone  *)
(* by since its phase moved last, whatever the voltage does meanwhile; and *)
(* so, where one of them is not zero, once only however the sweeps at one  *)
(* time are repeated.                                                      *)
Paced == [][\A p \in Phases :
    tap'[p] # tap[p] /\ changed[p] # None => clock >= changed[p] + Longest]_vars

(* "wait to advance only after sensing over/under voltage for a certain    *)
(* dwell_time": after the first solutions a tap moves only when no reading *)
(* for that time was in the band.                                          *)
Patient == [][\A p \in Phases :
    tap'[p] # tap[p] /\ first_run_flag'[ControlOf(p)] >= 1 =>
        since[p] # None /\ clock >= since[p] + dwell_time]_vars

(* When time goes on with a voltage out of the band that a tap could bring *)
(* nearer, the regulator has asked to be called in time.                   *)
Awake ==
    pc = "settled" /\ Longest > 0 /\ (\E p \in Controlled : Wanted(p) # 0 /\ ~AtLimit(p)) =>
        clock < next_time /\ next_time <= clock + dwell_time + time_delay

(* The regulator never answers a time before the clock, not even where the *)
(* clock passes the time it asked for to a multiple of the minimum.        *)
NotPast ==
    /\ pc = "postsync" \/ (pc = "presync" /\ solver_method = "NR")
    /\ \A p \in Phases : first_run_flag[p] >= 1
    => next_time >= clock

(* With a delay every sweep over the network ends, unless only some taps   *)
(* of a bank have an initial value.                                        *)
Uniform == control_level = "BANK" => \A p \in Phases : first_run_flag[p] >= first_run_flag[1]
Settles == (pc # "settled" /\ Longest > 0 /\ Uniform) ~> (pc = "settled")
=============================================================================
