--------------------------- MODULE MCRunServices ----------------------------
(* Three starts of the process, and time for several checkpoints.          *)
EXTENDS RunServices
=============================================================================
