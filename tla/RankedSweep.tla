---------------------------- MODULE RankedSweep ----------------------------
(***************************************************************************)
(* What the passes of exec_start promise to the objects, whatever threads  *)
(* carry them out.  The objects that take part in the passes stand in rank *)
(* lists, numbered in the order in which one iteration visits them.  Each  *)
(* worker of a list has a number of objects.  An iteration synchronises    *)
(* every object of every list exactly once, and no object of a list before *)
(* the last object of the list ahead of it.                                *)
(***************************************************************************)
EXTENDS Integers

CONSTANTS Lists,    \* how many rank lists an iteration visits
          Workers,  \* who synchronises objects
          ListOf,   \* the list a worker serves
          Load      \* how many objects a worker has in its list

VARIABLES at,       \* the list being visited, 0 between iterations
          synced    \* objects each worker has synchronised this iteration

Nothing == [w \in Workers |-> 0]

Init == at = 0 /\ synced = Nothing

Begin ==
    /\ at = 0
    /\ at' = 1
    /\ UNCHANGED synced

Sync(w) ==
    /\ ListOf[w] = at
    /\ synced[w] < Load[w]
    /\ synced' = [synced EXCEPT ![w] = @ + 1]
    /\ UNCHANGED at

(* The list is left when it is complete; the last one ends the iteration.  *)
Leave ==
    /\ at # 0
    /\ \A w \in Workers : ListOf[w] = at => synced[w] = Load[w]
    /\ IF at < Lists
         THEN at' = at + 1 /\ UNCHANGED synced
         ELSE at' = 0 /\ synced' = Nothing

Next == Begin \/ Leave \/ \E w \in Workers : Sync(w)

Spec == Init /\ [][Next]_<<at, synced>>
=============================================================================
