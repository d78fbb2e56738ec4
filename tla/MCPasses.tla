------------------------------ MODULE MCPasses ------------------------------
(* Three objects with every choice of parents, loops included; the second  *)
(* takes part in one pass only.  An index starts with room for one rank.   *)
EXTENDS Passes, TLC
MCFiles == [Objects -> Objects \union {None}]
MCNoReferences == {[o \in Objects |-> None]}
MCPassConfig == <<{0, 1, 2}, {1}, {0, 1}>>
=============================================================================
