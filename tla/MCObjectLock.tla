---------------------------- MODULE MCObjectLock ----------------------------
(* Three threads, two contributions each: twelve increments of a lock word *)
(* that wraps at four, so that a compare-and-swap can meet a word that     *)
(* went round while it was not looking.                                    *)
EXTENDS ObjectLock, TLC
CONSTANTS t1, t2, t3
MCThreads == {t1, t2, t3}
MCTwoThreads == {t1, t2}
=============================================================================
