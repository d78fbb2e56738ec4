---------------------------- MODULE MCRegulators ----------------------------
(* Two phases, with more steps to raise than to lower, and delays equal,   *)
(* shorter and longer than the dwell time, or none; times in steps of two  *)
(* may pass those that were asked for.                                     *)
EXTENDS Regulators

Timing(d, m, s) == [dwell_time |-> d, time_delay |-> m, minimum_timestep |-> s]
MCTimings == {Timing(1, 2, 1), Timing(2, 1, 1), Timing(0, 0, 1), Timing(1, 2, 2)}
MCSources == {-3, 1, 2}
=============================================================================
