----------------------------- MODULE MCRankPool -----------------------------
(* Two rank lists: three objects served by two threads (two and one), then *)
(* two objects served by two threads.  The first threads of both pools     *)
(* share an entry of thread_data.                                          *)
EXTENDS RankPool, TLC
CONSTANTS a0, a1, b0, b1
MCWorkers == {a0, a1, b0, b1}
MCListOf == a0 :> 1 @@ a1 :> 1 @@ b0 :> 2 @@ b1 :> 2
MCSlotOf == a0 :> 0 @@ a1 :> 1 @@ b0 :> 0 @@ b1 :> 1
MCLoad == a0 :> 2 @@ a1 :> 1 @@ b0 :> 1 @@ b1 :> 1
=============================================================================
