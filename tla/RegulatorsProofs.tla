-------------------------- MODULE RegulatorsProofs --------------------------
(* Proofs about Regulators, for any timings, limits and voltages.          *)
EXTENDS Regulators, FiniteSetTheorems, WellFoundedInduction, TLAPS

Types ==
    /\ timing \in Timings /\ control_level \in {"INDIVIDUAL", "BANK"}
    /\ clock \in 0..LastTime
    /\ source \in [Phases -> Int] /\ voltage \in [Phases -> Int] /\ tap \in [Phases -> Int]
    /\ mech_t_next \in [Phases -> Int] /\ dwell_t_next \in [Phases -> Int]
    /\ mech_flag \in [Phases -> BOOLEAN] /\ dwell_flag \in [Phases -> BOOLEAN]
    /\ first_run_flag \in [Phases -> Int]
    /\ since \in [Phases -> Nat \union {None}] /\ changed \in [Phases -> Nat \union {None}]

(* A time that is waited for is a delay after the last change, or never;   *)
(* before its first solution a tap moves only where nothing is waited for. *)
AfterChange(p, c) ==
    changed[p] # None =>
        /\ changed[p] <= clock
        /\ mech_t_next[c] >= changed[p] + time_delay \/ mech_t_next[c] = TS_NEVER
        /\ dwell_t_next[c] >= changed[p] + dwell_time \/ dwell_t_next[c] = TS_NEVER
        /\ mech_flag[c] => clock >= changed[p] + time_delay
        /\ first_run_flag[c] < 0 => dwell_time = 0 /\ time_delay = 0

(* And a dwell time after the voltage left the band.                       *)
AfterBand(p, c) ==
    IF since[p] = None THEN dwell_t_next[c] = TS_NEVER
    ELSE since[p] <= clock /\ (dwell_t_next[c] >= since[p] + dwell_time \/ dwell_t_next[c] = TS_NEVER)

(* The first solutions are all at the start.                               *)
AtStart(c) ==
    /\ pc = "settled" => first_run_flag[c] >= 1
    /\ first_run_flag[c] < 1 =>
        /\ clock = Start
        /\ mech_t_next[c] >= Start + time_delay \/ mech_t_next[c] = TS_NEVER
        /\ mech_flag[c] => time_delay = 0

Timers == \A p \in Phases : AfterChange(p, ControlOf(p)) /\ AfterBand(p, ControlOf(p))
IInv == Types /\ Timers /\ \A p \in Phases : AtStart(ControlOf(p))

PacedStep == \A p \in Phases :
    tap'[p] # tap[p] /\ changed[p] # None => clock >= changed[p] + Longest
PatientStep == \A p \in Phases :
    tap'[p] # tap[p] /\ first_run_flag'[ControlOf(p)] >= 1 =>
        since[p] # None /\ clock >= since[p] + dwell_time

LEMMA Config ==
    ASSUME Types
    PROVE  /\ dwell_time \in Nat /\ time_delay \in Nat /\ timing.minimum_timestep \in Nat \ {0}
           /\ RaiseTaps \in Int /\ LowerTaps \in Int /\ HalfBand \in Int /\ LastTime \in Nat
           /\ \A p \in Phases : ControlOf(p) \in Phases /\ ControlOf(p) \in Controlled
           /\ \A p \in Controlled : p \in Phases
BY ConfigurationAssumption DEF Types, dwell_time, time_delay, ControlOf, Controlled

LEMMA InitIInv == Init => IInv
<1> SUFFICES ASSUME Init PROVE IInv
  OBVIOUS
<1>1. Types
  <2>1. first_run_flag \in [Phases -> Int]
    BY DEF Init
  <2>2. TS_NEVER \in Int /\ 0 \in 0..LastTime
    BY ConfigurationAssumption DEF TS_NEVER
  <2>3. /\ mech_t_next \in [Phases -> Int] /\ dwell_t_next \in [Phases -> Int]
        /\ mech_flag \in [Phases -> BOOLEAN] /\ dwell_flag \in [Phases -> BOOLEAN]
        /\ since \in [Phases -> Nat \union {None}] /\ changed \in [Phases -> Nat \union {None}]
    BY <2>2 DEF Init
  <2>4. voltage \in [Phases -> Int] /\ tap \in [Phases -> Int]
    BY DEF Init
  <2>5. source \in [Phases -> Int]
    <3>1. source \in [Phases -> Sources] /\ Sources \subseteq Int
      BY ConfigurationAssumption DEF Init
    <3> QED
      BY <3>1
  <2> QED
    BY <2>1, <2>2, <2>3, <2>4, <2>5 DEF Init, Types, Start
<1>2. Timers /\ \A p \in Phases : AtStart(ControlOf(p))
  BY <1>1, Config, ConfigurationAssumption DEF Init, Timers, AtStart, AfterChange, AfterBand, Start, None
<1> QED
  BY <1>1, <1>2 DEF IInv

-----------------------------------------------------------------------------
(* What presync makes of a phase that it controls.                         *)
LEMMA OnePhase ==
    ASSUME IInv, NEW c \in Phases, first_run_flag' \in [Phases -> Int]
    PROVE  LET r == Regulated(c) IN
           /\ r.mech \in Int /\ r.dwell \in Int /\ r.tap \in Int
           /\ r.mech_flag \in BOOLEAN /\ r.dwell_flag \in BOOLEAN
           /\ r.mech >= clock + time_delay \/ r.mech = TS_NEVER \/ r.mech = mech_t_next[c]
           /\ r.dwell >= clock + dwell_time \/ r.dwell = TS_NEVER \/ r.dwell = dwell_t_next[c]
           /\ r.mech_flag => Mech(c)
           /\ Wanted(c) = 0 => r.dwell = TS_NEVER
           /\ Moves(c) =>
                /\ r.mech >= clock + time_delay /\ r.dwell >= clock + dwell_time
                /\ r.mech_flag => first_run_flag'[c] = 0
<1> DEFINE r == Regulated(c)
<1>0. Types
  BY DEF IInv
<1>1. /\ tap[c] \in Int /\ voltage[c] \in Int /\ mech_t_next[c] \in Int /\ dwell_t_next[c] \in Int
      /\ clock \in Nat /\ TS_NEVER \in Int /\ Mech(c) \in BOOLEAN /\ Dwelt(c) \in BOOLEAN
      /\ Wanted(c) \in {-1, 0, 1}
  BY <1>0, Config DEF Types, TS_NEVER, Mech, Dwelt, Wanted
<1>2. \A x \in Int : Limited(x) \in Int
  BY <1>0, Config DEF Limited
<1>3. CASE Wanted(c) = 0
  <2>1. r = Rest(c)
    BY <1>3 DEF Regulated
  <2> QED
    BY <1>1, <1>3, <2>1 DEF Rest, Phase, Moves
<1>4. CASE Wanted(c) # 0 /\ first_run_flag'[c] = 0
  <2>1. r = Solved(c)
    BY <1>4 DEF Regulated
  <2> QED
    BY <1>0, <1>1, <1>2, <1>4, <2>1, Config DEF Solved, Phase
<1>5. CASE Wanted(c) # 0 /\ first_run_flag'[c] # 0
  <2>1. CASE Mech(c) /\ Dwelt(c)
    <3>1. r = Change(c)
      BY <1>5, <2>1 DEF Regulated
    <3> QED
      BY <1>0, <1>1, <1>2, <1>5, <2>1, <3>1, Config DEF Change, Phase
  <2>2. CASE ~(Mech(c) /\ Dwelt(c))
    <3>1. r \in {Delay(c), Dwell(c), Wait(c)} /\ ~Moves(c)
      BY <1>5, <2>2 DEF Regulated, Moves
    <3> QED
      BY <1>0, <1>1, <1>5, <3>1, Config DEF Delay, Dwell, Wait, Phase
  <2> QED
    BY <2>1, <2>2
<1> QED
  BY <1>3, <1>4, <1>5

(* A phase whose times have come.                                          *)
LEMMA Come ==
    ASSUME IInv, NEW p \in Phases
    PROVE  LET c == ControlOf(p) IN
           /\ Mech(c) /\ changed[p] # None => clock >= changed[p] + time_delay
           /\ Dwelt(c) /\ changed[p] # None => clock >= changed[p] + dwell_time
           /\ Dwelt(c) => since[p] # None /\ clock >= since[p] + dwell_time
           /\ Mech(c) /\ first_run_flag[c] < 1 => time_delay = 0
<1> DEFINE c == ControlOf(p)
<1>1. /\ c \in Phases /\ mech_t_next[c] \in Int /\ dwell_t_next[c] \in Int /\ clock \in 0..LastTime
      /\ dwell_time \in Nat /\ time_delay \in Nat /\ LastTime \in Nat
      /\ changed[p] \in Nat \union {None} /\ since[p] \in Nat \union {None}
      /\ AfterChange(p, c) /\ AfterBand(p, c) /\ AtStart(c)
  BY Config DEF IInv, Types, Timers
<1> QED
  BY <1>1 DEF Mech, Dwelt, AfterChange, AfterBand, AtStart, TS_NEVER, None, Start

-----------------------------------------------------------------------------
(* The steps.                                                              *)
LEMMA PresyncStep ==
    ASSUME IInv, presync
    PROVE  IInv' /\ PacedStep /\ PatientStep
<1> DEFINE R(c) == Regulated(c)
<1>0. Types
  BY DEF IInv
<1>1. first_run_flag' \in [Phases -> Int]
  <2>1. \A p \in Phases : first_run_flag[p] \in Int
    BY <1>0 DEF Types
  <2> QED
    BY <2>1 DEF presync, FirstRun
<1>2. \A p \in Phases :
        /\ tap'[p] = IF Moves(ControlOf(p)) THEN R(ControlOf(p)).tap ELSE tap[p]
        /\ p \in Controlled => /\ mech_t_next'[p] = R(p).mech /\ dwell_t_next'[p] = R(p).dwell
                               /\ mech_flag'[p] = R(p).mech_flag /\ dwell_flag'[p] = R(p).dwell_flag
        /\ p \notin Controlled => /\ mech_t_next'[p] = mech_t_next[p] /\ dwell_t_next'[p] = dwell_t_next[p]
                                  /\ mech_flag'[p] = mech_flag[p] /\ dwell_flag'[p] = dwell_flag[p]
        /\ since'[p] = IF Wanted(ControlOf(p)) = 0 THEN None ELSE IF since[p] = None THEN clock ELSE since[p]
        /\ changed'[p] = IF tap'[p] # tap[p] THEN clock ELSE changed[p]
        /\ first_run_flag'[p] = IF first_run_flag[ControlOf(p)] < 1 THEN first_run_flag[p] + 1 ELSE first_run_flag[p]
  BY <1>0, Config DEF presync, FirstRun
<1>3. Types'
  <2>1. \A p \in Phases :
          /\ tap'[p] \in Int /\ mech_t_next'[p] \in Int /\ dwell_t_next'[p] \in Int
          /\ mech_flag'[p] \in BOOLEAN /\ dwell_flag'[p] \in BOOLEAN
    BY <1>0, <1>1, <1>2, Config, OnePhase DEF Types
  <2>2. \A p \in Phases : since'[p] \in Nat \union {None} /\ changed'[p] \in Nat \union {None}
    BY <1>0, <1>2 DEF Types
  <2>3. /\ DOMAIN tap' = Phases /\ tap' = [p \in Phases |-> tap'[p]]
        /\ mech_t_next' = [p \in Phases |-> mech_t_next'[p]] /\ dwell_t_next' = [p \in Phases |-> dwell_t_next'[p]]
        /\ mech_flag' = [p \in Phases |-> mech_flag'[p]] /\ dwell_flag' = [p \in Phases |-> dwell_flag'[p]]
        /\ since' = [p \in Phases |-> since'[p]] /\ changed' = [p \in Phases |-> changed'[p]]
    BY DEF presync
  <2>4. /\ timing' = timing /\ control_level' = control_level /\ clock' = clock
        /\ source' = source /\ voltage' = voltage
    BY DEF presync, configuration
  <2>5. /\ tap' \in [Phases -> Int] /\ mech_t_next' \in [Phases -> Int] /\ dwell_t_next' \in [Phases -> Int]
        /\ mech_flag' \in [Phases -> BOOLEAN] /\ dwell_flag' \in [Phases -> BOOLEAN]
    BY <2>1, <2>3
  <2>6. since' \in [Phases -> Nat \union {None}] /\ changed' \in [Phases -> Nat \union {None}]
    BY <2>2, <2>3
  <2> QED
    BY <1>0, <1>1, <2>4, <2>5, <2>6 DEF Types
<1>4. SUFFICES ASSUME NEW p \in Phases
               PROVE  /\ AfterChange(p, ControlOf(p))' /\ AfterBand(p, ControlOf(p))' /\ AtStart(ControlOf(p))'
                      /\ tap'[p] # tap[p] /\ changed[p] # None => clock >= changed[p] + Longest
                      /\ tap'[p] # tap[p] /\ first_run_flag'[ControlOf(p)] >= 1 =>
                            since[p] # None /\ clock >= since[p] + dwell_time
  BY <1>3 DEF IInv, Timers, PacedStep, PatientStep
<1> DEFINE c == ControlOf(p)
<1>5. /\ c \in Phases /\ c \in Controlled /\ ControlOf(c) = c /\ ControlOf(p)' = c
      /\ dwell_time \in Nat /\ time_delay \in Nat /\ LastTime \in Nat
      /\ dwell_time' = dwell_time /\ time_delay' = time_delay /\ clock' = clock /\ pc' = "postsync"
  BY <1>0, Config DEF presync, configuration, ControlOf, dwell_time, time_delay
<1>6. /\ clock \in 0..LastTime /\ mech_t_next[c] \in Int /\ dwell_t_next[c] \in Int /\ mech_flag[c] \in BOOLEAN
      /\ changed[p] \in Nat \union {None} /\ since[p] \in Nat \union {None}
      /\ first_run_flag[c] \in Int /\ tap[p] \in Int
  BY <1>0, <1>5 DEF Types
<1>7. AfterChange(p, c) /\ AfterBand(p, c) /\ AtStart(c)
  BY DEF IInv, Timers
<1>8. /\ mech_t_next'[c] \in Int /\ dwell_t_next'[c] \in Int /\ mech_flag'[c] \in BOOLEAN
      /\ mech_t_next'[c] >= clock + time_delay \/ mech_t_next'[c] = TS_NEVER \/ mech_t_next'[c] = mech_t_next[c]
      /\ dwell_t_next'[c] >= clock + dwell_time \/ dwell_t_next'[c] = TS_NEVER \/ dwell_t_next'[c] = dwell_t_next[c]
      /\ mech_flag'[c] => Mech(c)
      /\ Wanted(c) = 0 => dwell_t_next'[c] = TS_NEVER
      /\ Moves(c) => /\ mech_t_next'[c] >= clock + time_delay /\ dwell_t_next'[c] >= clock + dwell_time
                     /\ mech_flag'[c] => first_run_flag'[c] = 0
  BY <1>1, <1>2, <1>5, OnePhase
<1>9. /\ first_run_flag'[c] = IF first_run_flag[c] < 1 THEN first_run_flag[c] + 1 ELSE first_run_flag[c]
      /\ changed'[p] = IF tap'[p] # tap[p] THEN clock ELSE changed[p]
      /\ tap'[p] # tap[p] => Moves(c)
      /\ since'[p] = IF Wanted(c) = 0 THEN None ELSE IF since[p] = None THEN clock ELSE since[p]
  BY <1>2, <1>5
<1>10. /\ Mech(c) /\ changed[p] # None => clock >= changed[p] + time_delay
       /\ Dwelt(c) /\ changed[p] # None => clock >= changed[p] + dwell_time
       /\ Dwelt(c) => since[p] # None /\ clock >= since[p] + dwell_time
       /\ Mech(c) /\ first_run_flag[c] < 1 => time_delay = 0
  BY Come
<1>11. Moves(c) => first_run_flag'[c] = 0 \/ (Mech(c) /\ Dwelt(c))
  BY DEF Moves
<1>12. AfterChange(p, ControlOf(p))'
  <2>1. mech_flag'[c] /\ Moves(c) => time_delay = 0
    BY <1>6, <1>8, <1>9, <1>10
  <2> QED
    <3>1. changed'[p] # None /\ first_run_flag'[c] < 0 => dwell_time = 0 /\ time_delay = 0
      <4>1. first_run_flag[c] < 0 /\ Moves(c) /\ first_run_flag'[c] # 0 => dwell_time = 0 /\ time_delay = 0
        BY <1>5, <1>6, <1>7, <1>10, <1>11 DEF AtStart, Start, None
      <4> QED
        BY <1>5, <1>6, <1>7, <1>9, <4>1 DEF AfterChange, None
    <3> QED
      BY <1>5, <1>6, <1>7, <1>8, <1>9, <1>10, <2>1, <3>1 DEF AfterChange, None
<1>13. AfterBand(p, ControlOf(p))'
  BY <1>5, <1>6, <1>7, <1>8, <1>9 DEF AfterBand, None
<1>14. AtStart(ControlOf(p))'
  BY <1>5, <1>6, <1>7, <1>8, <1>9, <1>10 DEF AtStart, Start
<1>15. tap'[p] # tap[p] /\ changed[p] # None => clock >= changed[p] + Longest
  <2>1. first_run_flag'[c] = 0 /\ changed[p] # None => changed[p] <= clock /\ dwell_time = 0 /\ time_delay = 0
    BY <1>6, <1>7, <1>9 DEF AtStart, AfterChange, Start, None
  <2> QED
    BY <1>5, <1>6, <1>9, <1>10, <1>11, <2>1 DEF Longest
<1> QED
  BY <1>9, <1>10, <1>11, <1>12, <1>13, <1>14, <1>15
(* Where the taps, times and histories stay, the flags may follow.         *)
LEMMA QuietStep ==
    ASSUME IInv, Types',
           timing' = timing, control_level' = control_level, first_run_flag' = first_run_flag,
           mech_t_next' = mech_t_next, dwell_t_next' = dwell_t_next, tap' = tap, history' = history,
           clock' >= clock,
           mech_flag' = [p \in Phases |-> Mech(p)] \/ mech_flag' = mech_flag,
           \A p \in Phases : first_run_flag[ControlOf(p)] < 1 => clock' = clock,
           pc' = "settled" => \A p \in Phases : first_run_flag[ControlOf(p)] >= 1
    PROVE  IInv' /\ PacedStep /\ PatientStep
<1>0. Types
  BY DEF IInv
<1>1. PacedStep /\ PatientStep
  BY DEF PacedStep, PatientStep, history
<1>2. SUFFICES ASSUME NEW p \in Phases
               PROVE  AfterChange(p, ControlOf(p))' /\ AfterBand(p, ControlOf(p))' /\ AtStart(ControlOf(p))'
  BY <1>1 DEF IInv, Timers
<1> DEFINE c == ControlOf(p)
<1>3. /\ c \in Phases /\ ControlOf(p)' = c
      /\ dwell_time' = dwell_time /\ time_delay' = time_delay
      /\ dwell_time \in Nat /\ time_delay \in Nat
      /\ since' = since /\ changed' = changed
  BY <1>0, Config DEF ControlOf, dwell_time, time_delay, history
<1>4. /\ clock \in Nat /\ clock' \in Nat /\ mech_t_next[c] \in Int /\ dwell_t_next[c] \in Int
      /\ changed[p] \in Nat \union {None} /\ since[p] \in Nat \union {None} /\ first_run_flag[c] \in Int
  BY <1>0, <1>3 DEF Types
<1>5. AfterChange(p, c) /\ AfterBand(p, c) /\ AtStart(c)
  BY DEF IInv, Timers
<1>6. mech_flag'[c] => Mech(c)
  BY <1>3 DEF Mech
<1>7. /\ Mech(c) /\ changed[p] # None => clock >= changed[p] + time_delay
      /\ Mech(c) /\ first_run_flag[c] < 1 => time_delay = 0
  BY Come
<1> QED
  BY <1>3, <1>4, <1>5, <1>6, <1>7 DEF AfterChange, AfterBand, AtStart, None, Start

LEMMA NextStep ==
    ASSUME IInv, [Next]_vars
    PROVE  IInv' /\ [PacedStep]_vars /\ [PatientStep]_vars
<1>0. Types
  BY DEF IInv
<1>1. CASE presync
  BY <1>1, PresyncStep
<1>2. CASE solver_nr
  <2>1. voltage' \in [Phases -> Int]
    BY <1>0, <1>2 DEF solver_nr, Behind, Types
  <2>2. Types'
    BY <1>0, <1>2, <2>1 DEF solver_nr, Types, configuration, history
  <2>3. clock' >= clock
    BY <1>0, <1>2 DEF solver_nr, Types
  <2> QED
    BY <1>2, <2>2, <2>3, QuietStep DEF solver_nr, configuration
<1>3. CASE postsync
  <2>1. voltage' \in [Phases -> Int]
    BY <1>0, <1>3 DEF postsync, Behind, Types
  <2>2. mech_flag' \in [Phases -> BOOLEAN] /\ dwell_flag' \in [Phases -> BOOLEAN]
    BY <1>0, <1>3 DEF postsync, Mech, Dwelt, Types
  <2>3. Types'
    BY <1>0, <1>3, <2>1, <2>2 DEF postsync, Types, configuration, history
  <2>4. clock' >= clock
    BY <1>0, <1>3 DEF postsync, Types
  <2>5. pc' = "settled" => \A p \in Phases : first_run_flag[ControlOf(p)] >= 1
    BY <1>0, <1>3, Config DEF postsync, Stays, Types
  <2> QED
    BY <1>3, <2>3, <2>4, <2>5, QuietStep DEF postsync, configuration
<1>4. CASE Advance
  <2>1. source' \in [Phases -> Int]
    <3>1. source' \in [Phases -> Sources] /\ Sources \subseteq Int
      BY <1>4, ConfigurationAssumption DEF Advance
    <3> QED
      BY <3>1
  <2>2. clock' \in 0..LastTime /\ clock' >= clock
    BY <1>0, <1>4, Config DEF Advance, Types
  <2>3. Types'
    BY <1>0, <1>4, <2>1, <2>2 DEF Advance, Types, configuration, regulator, history
  <2>4. \A p \in Phases : first_run_flag[ControlOf(p)] >= 1 /\ ~(first_run_flag[ControlOf(p)] < 1)
    BY <1>0, <1>4, Config DEF IInv, AtStart, Advance, Types
  <2>5. QED
    BY <1>4, <2>2, <2>3, <2>4, QuietStep DEF Advance, configuration, regulator
<1>5. CASE UNCHANGED vars
  <2>1. Types'
    BY <1>0, <1>5 DEF Types, vars, configuration, regulator, history
  <2> QED
    BY <1>5, <2>1 DEF vars, configuration, regulator, history, IInv, Timers, AfterChange, AfterBand, AtStart,
       ControlOf, dwell_time, time_delay
<1> QED
  BY <1>1, <1>2, <1>3, <1>4, <1>5 DEF Next, Sweep

(* Changes of a tap are a time_delay and a dwell_time apart (the counters  *)
(* of presync and postsync, regulator.cpp:304-470 and 473-615).            *)
THEOREM ChangesPaced == Spec => Paced
<1>1. Init /\ [][Next]_vars => [][PacedStep]_vars
  BY InitIInv, NextStep, PTL
<1> QED
  BY <1>1, PTL DEF Spec, Paced, PacedStep

(* A tap waits for a dwell time of readings out of the band.               *)
THEOREM ChangesPatient == Spec => Patient
<1>1. Init /\ [][Next]_vars => [][PatientStep]_vars
  BY InitIInv, NextStep, PTL
<1> QED
  BY <1>1, PTL DEF Spec, Patient, PatientStep
-----------------------------------------------------------------------------
(* The answer of presync.                                                  *)

(* The least of some natural numbers is one of them: the intervals they    *)
(* end are finite sets, which strict inclusion orders well.                *)
LEMMA Least ==
    ASSUME NEW S \in SUBSET Nat, S # {}
    PROVE  Min(S) \in S /\ \A y \in S : Min(S) <= y
<1> DEFINE T == {0..x : x \in S}
<1>1. T \subseteq FiniteSubsetsOf(Nat) /\ T # {}
  <2>1. \A x \in S : IsFiniteSet(0..x)
    BY FS_Interval
  <2>2. \A x \in S : 0..x \in FiniteSubsetsOf(Nat)
    BY <2>1 DEF FiniteSubsetsOf
  <2> QED
    BY <2>2
<1>2. PICK m \in T : \A y \in T : ~(<<y, m>> \in StrictSubsetOrdering(Nat))
  BY <1>1, FS_StrictSubsetOrderingWellFounded, WFMin
<1>3. PICK x \in S : m = 0..x
  BY <1>2
<1>4. ASSUME NEW y \in S PROVE x <= y
  <2>1. 0..y \in T /\ 0..y \in SUBSET Nat /\ 0..x \in SUBSET Nat
    OBVIOUS
  <2>2. ~(0..y \subseteq 0..x /\ 0..y # 0..x)
    BY <1>2, <1>3, <2>1 DEF StrictSubsetOrdering
  <2>3. y < x => 0..y \subseteq 0..x /\ x \in 0..x /\ x \notin 0..y
    OBVIOUS
  <2> QED
    BY <2>2, <2>3
<1> QED
  BY <1>4 DEF Min

(* Without a delay between changes, a phase that has dwelt may move: the   *)
(* time for the mechanism comes with the other one at the latest.          *)
Prompt(c) == time_delay = 0 => Mech(c) \/ (mech_t_next[c] <= dwell_t_next[c] /\ ~dwell_flag[c])

(* The answer is a time, never behind where the core sees it, and soon     *)
(* enough where a phase is out of the band.                                *)
InTime == Longest > 0 /\ (\E p \in Controlled : Wanted(p) # 0) =>
              clock < next_time /\ next_time <= clock + dwell_time + time_delay
Answer ==
    /\ next_time \in Nat
    /\ pc \in {"presync", "solve", "postsync", "settled"} /\ solver_method \in {"FBS", "NR"}
    /\ pc = "postsync" => next_time >= clock /\ InTime
    /\ pc = "settled" => next_time >= clock /\ InTime
    /\ pc = "solve" => clock < next_time + Step
    /\ pc = "presync" /\ solver_method = "NR" => next_time >= clock
AInv == Answer /\ \A p \in Controlled : Prompt(p)

(* What a phase makes of its times when its voltage is out of the band:    *)
(* one of them is ahead, and not far.                                      *)
LEMMA TimesOfPhase ==
    ASSUME IInv, NEW c \in Controlled, Prompt(c), first_run_flag' \in [Phases -> Int],
           NEW u \in {Start, TS_NEVER}
    PROVE  LET r == Regulated(c)
               t == Coming(r.mech, r.dwell, u)
           IN /\ t \in Nat
              /\ Longest > 0 => t > clock
              /\ Longest > 0 /\ Wanted(c) # 0 => t <= clock + dwell_time + time_delay
              /\ time_delay = 0 => \/ r.mech_flag \/ r.mech <= clock
                                   \/ r.mech <= r.dwell /\ ~r.dwell_flag
<1> DEFINE r == Regulated(c)
           t == Coming(r.mech, r.dwell, u)
<1>0. Types
  BY DEF IInv
<1>1. /\ c \in Phases /\ mech_t_next[c] \in Int /\ dwell_t_next[c] \in Int
      /\ mech_flag[c] \in BOOLEAN /\ dwell_flag[c] \in BOOLEAN
      /\ clock \in 0..LastTime /\ LastTime \in Nat /\ dwell_time \in Nat /\ time_delay \in Nat
      /\ TS_NEVER = LastTime + 1000 /\ Start = 0
  BY <1>0, Config DEF Types, TS_NEVER, Start
<1>2. r.mech \in Int /\ r.dwell \in Int /\ r.mech_flag \in BOOLEAN /\ r.dwell_flag \in BOOLEAN
  BY <1>1, OnePhase
<1>3. t \in Nat
  BY <1>1, <1>2 DEF Coming
<1>4. CASE Wanted(c) = 0
  <2>1. r = Rest(c)
    BY <1>4 DEF Regulated
  <2> QED
    BY <1>1, <1>3, <1>4, <2>1 DEF Rest, Phase, Coming, Longest
<1>5. CASE Wanted(c) # 0 /\ first_run_flag'[c] = 0
  <2>1. r = Solved(c)
    BY <1>5 DEF Regulated
  <2>2. r.mech = clock + time_delay /\ r.dwell = clock + dwell_time
    BY <2>1 DEF Solved, Phase
  <2> HIDE DEF r
  <2>3. Longest > 0 => t > clock /\ t <= clock + dwell_time + time_delay
    BY <1>1, <1>2, <2>2 DEF Coming, Longest
  <2>4. time_delay = 0 => r.mech <= clock
    BY <1>1, <2>2
  <2> QED
    BY <1>3, <2>3, <2>4 DEF r
<1>6. CASE Wanted(c) # 0 /\ first_run_flag'[c] # 0
  <2> DEFINE Moving == Mech(c) /\ Dwelt(c)
             Delayed == ~Mech(c) /\ Dwelt(c) /\ mech_t_next[c] - clock >= time_delay
             Dwelling == ~Dwelt(c) /\ dwell_t_next[c] - clock >= dwell_time
  <2>1. r = CASE Moving -> Change(c) [] Delayed -> Delay(c) [] Dwelling -> Dwell(c) [] OTHER -> Wait(c)
    BY <1>6 DEF Regulated
  <2>2. CASE Moving
    <3>1. r = Change(c)
      BY <2>1, <2>2
    <3>2. r.mech = clock + time_delay /\ r.dwell = clock + dwell_time
      BY <3>1 DEF Change, Phase
    <3> QED
      BY <1>1, <1>2, <1>3, <3>2 DEF Coming, Longest
  <2>3. CASE Delayed
    <3>1. r = Delay(c)
      BY <2>1, <2>3
    <3>2. r.mech = clock + time_delay /\ r.dwell = dwell_t_next[c] /\ time_delay # 0
      BY <1>1, <2>3, <3>1 DEF Delay, Phase, Prompt, Mech, Dwelt
    <3>3. dwell_t_next[c] <= clock
      BY <2>3 DEF Dwelt
    <3> QED
      BY <1>1, <1>2, <1>3, <3>2, <3>3 DEF Coming, Longest
  <2>4. CASE Dwelling
    <3>1. r = Dwell(c)
      BY <2>1, <2>3, <2>4
    <3>2. r.mech = clock + dwell_time + time_delay /\ r.dwell = clock + dwell_time /\ r.dwell_flag = FALSE
      BY <2>4, <3>1 DEF Dwell, Phase
    <3> QED
      BY <1>1, <1>2, <1>3, <3>2 DEF Coming, Longest
  <2>5. CASE ~Moving /\ ~Delayed /\ ~Dwelling
    <3>1. r = Wait(c)
      BY <2>1, <2>5
    <3>2. /\ r.mech = mech_t_next[c] /\ r.dwell = dwell_t_next[c]
          /\ r.mech_flag = Mech(c) /\ r.dwell_flag = Dwelt(c)
      BY <3>1 DEF Wait, Phase
    <3> QED
      BY <1>1, <1>2, <1>3, <2>5, <3>2 DEF Coming, Longest, Prompt, Mech, Dwelt
  <2> QED
    BY <2>2, <2>3, <2>4, <2>5
<1> QED
  BY <1>4, <1>5, <1>6
LEMMA AInvInit == Init => AInv
<1> SUFFICES ASSUME Init PROVE AInv
  OBVIOUS
<1>0. Types
  BY InitIInv DEF IInv
<1>1. Answer
  BY <1>0, Config DEF Init, Answer, Start, Step
<1>2. \A p \in Controlled : Prompt(p)
  <2>1. TS_NEVER \in Int /\ \A p \in Controlled : p \in Phases
    BY <1>0, Config DEF TS_NEVER
  <2>2. \A p \in Phases : mech_t_next[p] = TS_NEVER /\ dwell_t_next[p] = TS_NEVER /\ ~dwell_flag[p]
    BY DEF Init
  <2> QED
    BY <2>1, <2>2 DEF Prompt
<1> QED
  BY <1>1, <1>2 DEF AInv

LEMMA AInvPresync ==
    ASSUME IInv, AInv, presync
    PROVE  AInv'
<1>0. Types /\ Answer
  BY DEF IInv, AInv
<1>1. first_run_flag' \in [Phases -> Int]
  <2>1. \A p \in Phases : first_run_flag[p] \in Int
    BY <1>0 DEF Types
  <2> QED
    BY <2>1 DEF presync, FirstRun
<1>2. PICK u \in [Controlled -> {Start, TS_NEVER}] :
        next_time' = Soonest([p \in Controlled |->
            Coming(Regulated(p).mech, Regulated(p).dwell, u[p])])
  <2>1. \E u \in [Controlled -> {Start, TS_NEVER}] :
          next_time' = Soonest([p \in Controlled |->
              Coming([q \in Controlled |-> Regulated(q)][p].mech, [q \in Controlled |-> Regulated(q)][p].dwell, u[p])])
    BY DEF presync
  <2>2. \A u : [p \in Controlled |->
              Coming([q \in Controlled |-> Regulated(q)][p].mech, [q \in Controlled |-> Regulated(q)][p].dwell, u[p])]
            = [p \in Controlled |-> Coming(Regulated(p).mech, Regulated(p).dwell, u[p])]
    OBVIOUS
  <2> QED
    BY <2>1, <2>2
<1> DEFINE nt == [p \in Controlled |-> Coming(Regulated(p).mech, Regulated(p).dwell, u[p])]
           first == IF nt[1] > clock THEN nt[1] ELSE next_time
           S == {first} \union {nt[p] : p \in {q \in Controlled \ {1} : nt[q] > clock}}
<1>3. /\ clock \in Nat /\ clock <= LastTime /\ LastTime \in Nat /\ TS_NEVER = LastTime + 1000
      /\ dwell_time \in Nat /\ time_delay \in Nat /\ next_time \in Nat /\ 1 \in Controlled
  BY <1>0, Config, ConfigurationAssumption DEF Types, TS_NEVER, Answer, Controlled
<1>4. \A p \in Controlled :
        /\ nt[p] \in Nat
        /\ Longest > 0 => nt[p] > clock
        /\ Longest > 0 /\ Wanted(p) # 0 => nt[p] <= clock + dwell_time + time_delay
  <2> SUFFICES ASSUME NEW p \in Controlled
               PROVE  /\ nt[p] \in Nat
                      /\ Longest > 0 => nt[p] > clock
                      /\ Longest > 0 /\ Wanted(p) # 0 => nt[p] <= clock + dwell_time + time_delay
    OBVIOUS
  <2>1. u[p] \in {Start, TS_NEVER} /\ Prompt(p)
    BY DEF AInv
  <2>2. nt[p] = Coming(Regulated(p).mech, Regulated(p).dwell, u[p])
    OBVIOUS
  <2> QED
    BY <1>1, <2>1, <2>2, TimesOfPhase
<1>5. next_time' = IF Min(S) <= clock THEN TS_NEVER ELSE Min(S)
  BY <1>2 DEF Soonest
<1> HIDE DEF nt
<1>6. S \in SUBSET Nat /\ S # {}
  BY <1>3, <1>4
<1>7. Min(S) \in S /\ Min(S) \in Nat /\ \A y \in S : Min(S) <= y
  BY <1>6, Least
<1>8. Longest > 0 => /\ \A y \in S : y > clock
                     /\ \A p \in Controlled : nt[p] \in S
  BY <1>3, <1>4
<1> HIDE DEF S
<1>9. next_time' \in Nat /\ next_time' > clock
  BY <1>3, <1>5, <1>7
<1>10. ASSUME Longest > 0, NEW p \in Controlled, Wanted(p) # 0
       PROVE  next_time' <= clock + dwell_time + time_delay
  <2>1. nt[p] \in S /\ nt[p] \in Nat /\ nt[p] <= clock + dwell_time + time_delay
    BY <1>4, <1>8, <1>10
  <2>2. Min(S) > clock /\ Min(S) <= nt[p]
    BY <1>7, <1>8, <1>10, <2>1
  <2> QED
    BY <1>3, <1>5, <1>7, <2>1, <2>2
<1>11. /\ clock' = clock /\ voltage' = voltage /\ timing' = timing /\ control_level' = control_level
       /\ pc' = "postsync" /\ solver_method' = solver_method
  BY DEF presync, configuration
<1>12. Answer'
  <2>1. InTime'
    BY <1>9, <1>10, <1>11 DEF InTime, Longest, Controlled, Wanted, dwell_time, time_delay
  <2>2. next_time' >= clock'
    BY <1>3, <1>9, <1>11
  <2> QED
    BY <1>0, <1>9, <1>11, <2>1, <2>2 DEF Answer
<1>13. ASSUME NEW p \in Controlled
       PROVE  Prompt(p)'
  <2> DEFINE r == Regulated(p)
  <2>0. p \in Phases
    BY <1>0, Config
  <2>1. /\ mech_t_next'[p] = r.mech /\ dwell_t_next'[p] = r.dwell
        /\ mech_flag'[p] = r.mech_flag /\ dwell_flag'[p] = r.dwell_flag
    BY <2>0 DEF presync
  <2>2. Prompt(p) /\ u[p] \in {Start, TS_NEVER}
    BY DEF AInv
  <2>3. time_delay = 0 => \/ r.mech_flag \/ r.mech <= clock
                          \/ r.mech <= r.dwell /\ ~r.dwell_flag
    BY <1>1, <2>2, TimesOfPhase
  <2> QED
    BY <1>11, <2>1, <2>3 DEF Prompt, Mech, time_delay
<1> QED
  BY <1>11, <1>12, <1>13 DEF AInv, Controlled

(* Elsewhere the times stay, and flags only follow them.                   *)
LEMMA PromptKept ==
    ASSUME IInv, NEW p \in Controlled, Prompt(p),
           timing' = timing, clock' \in Nat, clock' >= clock,
           mech_t_next' = mech_t_next, dwell_t_next' = dwell_t_next,
           \/ mech_flag' = mech_flag /\ dwell_flag' = dwell_flag
           \/ clock' = clock /\ mech_flag'[p] = Mech(p) /\ dwell_flag'[p] = Dwelt(p)
    PROVE  Prompt(p)'
<1>1. /\ p \in Phases /\ mech_t_next[p] \in Int /\ dwell_t_next[p] \in Int /\ clock \in Nat
      /\ mech_flag[p] \in BOOLEAN /\ dwell_flag[p] \in BOOLEAN
  BY Config DEF IInv, Types
<1>2. time_delay' = time_delay
  BY DEF time_delay
<1> QED
  BY <1>1, <1>2 DEF Prompt, Mech, Dwelt

LEMMA AInvStep ==
    ASSUME IInv, AInv, [Next]_vars
    PROVE  AInv'
<1>0. Types /\ Answer /\ Types'
  BY NextStep DEF IInv, AInv
<1>1. CASE presync
  BY <1>1, AInvPresync
<1> DEFINE Same == /\ timing' = timing /\ control_level' = control_level /\ solver_method' = solver_method
                  /\ mech_t_next' = mech_t_next /\ dwell_t_next' = dwell_t_next
<1>2. CASE solver_nr
  <2>1. Same /\ mech_flag' = mech_flag /\ dwell_flag' = dwell_flag /\ clock' = clock
        /\ pc = "solve" /\ pc' = "presync"
        /\ next_time' = IF OffNominal /\ clock > next_time THEN clock ELSE next_time
    BY <1>2 DEF solver_nr, configuration
  <2>2. next_time' \in Nat /\ next_time' >= clock
    BY <1>0, <2>1, Config DEF Answer, Types, OffNominal, Step
  <2>3. \A p \in Controlled : Prompt(p)'
    BY <1>0, <2>1, PromptKept DEF AInv, Types
  <2> QED
    BY <1>0, <2>1, <2>2, <2>3 DEF AInv, Answer, Controlled
<1>3. CASE postsync
  <2>1. Same /\ clock' = clock /\ next_time' = next_time /\ pc = "postsync"
    BY <1>3 DEF postsync, configuration
  <2>2. /\ pc' \in {"settled", "solve", "presync"}
        /\ pc' = "settled" => voltage' = voltage
        /\ solver_method = "NR" => pc' # "presync"
    BY <1>3 DEF postsync
  <2>3. \A p \in Phases : mech_flag'[p] = Mech(p) /\ dwell_flag'[p] = Dwelt(p)
    BY <1>3 DEF postsync
  <2>4. ASSUME NEW p \in Controlled PROVE Prompt(p)'
    <3>1. p \in Phases /\ clock' \in Nat /\ clock' >= clock
      BY <1>0, <2>1, Config DEF Types
    <3> QED
      BY <2>1, <2>3, <3>1, PromptKept DEF AInv
  <2>5. voltage' = voltage => (InTime' <=> InTime)
    BY <2>1 DEF InTime, Longest, Controlled, Wanted, dwell_time, time_delay
  <2>6. next_time \in Nat /\ next_time >= clock /\ InTime
    BY <1>0, <2>1 DEF Answer
  <2>7. Step \in Nat \ {0} /\ Step' = Step /\ clock \in Nat
    BY <1>0, <2>1, Config DEF Types, Step
  <2>8. clock < next_time + Step
    BY <2>6, <2>7
  <2>9. Answer'
    BY <1>0, <2>1, <2>2, <2>5, <2>6, <2>7, <2>8 DEF Answer
  <2> QED
    BY <2>1, <2>4, <2>9 DEF AInv, Controlled
<1>4. CASE Advance
  <2>1. /\ Same /\ mech_flag' = mech_flag /\ dwell_flag' = dwell_flag /\ next_time' = next_time
        /\ clock' \in {t \in clock + 1 .. LastTime : t % Step = 0 /\ t < next_time + Step}
        /\ pc' = IF solver_method = "NR" THEN "solve" ELSE "presync"
    BY <1>4 DEF Advance, configuration, regulator
  <2>2. clock' \in Nat /\ clock' >= clock /\ clock' < next_time + Step
    BY <1>0, <2>1 DEF Types
  <2>3. \A p \in Controlled : Prompt(p)'
    BY <1>0, <2>1, <2>2, PromptKept DEF AInv
  <2>4. Step' = Step
    BY <2>1 DEF Step
  <2>5. Answer'
    BY <1>0, <2>1, <2>2, <2>4 DEF Answer
  <2> QED
    BY <2>1, <2>3, <2>5 DEF AInv, Controlled
<1>5. CASE UNCHANGED vars
  BY <1>5 DEF vars, configuration, regulator, AInv, Answer, InTime, Longest, Wanted, Step, Prompt, Mech, Controlled,
     dwell_time, time_delay
<1> QED
  BY <1>1, <1>2, <1>3, <1>4, <1>5 DEF Next, Sweep

LEMMA Answers == Spec => [](IInv /\ AInv)
<1>1. Init => IInv /\ AInv
  BY InitIInv, AInvInit
<1>2. (IInv /\ AInv) /\ [Next]_vars => (IInv /\ AInv)'
  BY NextStep, AInvStep
<1> QED
  BY <1>1, <1>2, PTL DEF Spec

(* What the regulator answers is never a time that has passed, also where  *)
(* the clock passes the time it asked for (regulator.cpp:448-464).         *)
THEOREM AnswersNotPast == Spec => []NotPast
<1>1. IInv /\ AInv => NotPast
  BY DEF AInv, Answer, NotPast
<1> QED
  BY <1>1, Answers, PTL

(* A voltage out of the band is looked at again within its two delays, for *)
(* any number of phases, in both solvers, as a bank or singly.             *)
THEOREM StaysAwake == Spec => []Awake
<1>1. IInv /\ AInv => Awake
  BY DEF AInv, Answer, InTime, Awake
<1> QED
  BY <1>1, Answers, PTL
=============================================================================
