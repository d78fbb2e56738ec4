----------------------------- MODULE MCExecLoop -----------------------------
(* Two objects and two rank lists: both objects in the first, served by    *)
(* two threads, one of them in the second again, served by the thread that *)
(* served the other one.  One object goes in and out of service.           *)
(* With a stop time, without one, and following the wall clock.            *)
EXTENDS ExecLoop, TLC
MCObjects == {"house", "meter"}
MCRankLists == <<"house" :> 0 @@ "meter" :> 1, "meter" :> 0>>
MCSlots == {0, 1}
MCInSvc == "house" :> 3 @@ "meter" :> 0
MCOutSvc == "house" :> 3 @@ "meter" :> Never
MCGlobals == {[stoptime |-> 3,     minimum_timestep |-> 1, run_realtime |-> 0],
              [stoptime |-> Never, minimum_timestep |-> 2, run_realtime |-> 0],
              [stoptime |-> 3,     minimum_timestep |-> 1, run_realtime |-> 1]}
=============================================================================
