----------------------------- MODULE MCSyncPool -----------------------------
(* All three pools, with threads and without.  Three items: as schedules   *)
(* they change every minute, every two minutes, and never; or none of them *)
(* ever.  Three units of time make a minute, so that calls fall between    *)
(* minutes too.                                                            *)
EXTENDS SyncPool, TLC
CONSTANTS i1, i2, i3, a, b
MCKinds == {"schedule", "loadshape", "enduse"}
MCScheduleKind == {"schedule"}
MCItems == {i1, i2, i3}
MCPeriod == i1 :> 1 @@ i2 :> 2 @@ i3 :> 0
MCConstantPeriod == i1 :> 0 @@ i2 :> 0 @@ i3 :> 0
MCWorkers == {a, b}
MCItemsOf == a :> {i1, i2} @@ b :> {i3}
=============================================================================
