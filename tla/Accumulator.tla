---------------------------- MODULE Accumulator ----------------------------
(***************************************************************************)
(* What core/lock.h promises to the objects of a model: many threads add   *)
(* their contribution to one accumulator (the admittance and current       *)
(* injection of a node, in the example of lock.h) and every contribution   *)
(* is counted, once.  A contribution is the pair of the thread that posts  *)
(* it and its number, and the accumulator is the set of the contributions  *)
(* it adds up.                                                             *)
(***************************************************************************)
EXTENDS Integers

CONSTANTS Threads,  \* the threads of a pass
          Posts     \* how many contributions each of them posts

VARIABLE sum        \* the contributions the accumulator holds

Contributions == Threads \X (1 .. Posts)

Init == sum = {}

Post(c) ==
    /\ c \notin sum
    /\ sum' = sum \union {c}

Next == \E c \in Contributions : Post(c)

Spec == Init /\ [][Next]_sum /\ WF_sum(Next)
=============================================================================
