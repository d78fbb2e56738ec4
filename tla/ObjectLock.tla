----------------------------- MODULE ObjectLock -----------------------------
(***************************************************************************)
(* The spin lock of core/lock.h, and the code that relies on it: threads   *)
(* of one pass that post contributions to an accumulator of an object      *)
(* between LOCK_OBJECT and UNLOCK_OBJECT.                                  *)
(*                                                                         *)
(* The lock is one unsigned int of the object header, odd while the lock   *)
(* is held: lock() reads it, retries while it is odd, and moves an even    *)
(* value to the next one with a compare-and-swap; unlock() increments it   *)
(* once more.  The word wraps at 2^32; Modulus stands for that power.      *)
(*                                                                         *)
(* The compare-and-swap is given a `volatile long *'.  Where long is 32    *)
(* bits the word alone is compared (CasWidth = 1).  Where long is 64 bits  *)
(* the word and the one behind it are (CasWidth = 2): in an OBJECT that is *)
(* rng_state, the state of the object's own random number generator.       *)
(*                                                                         *)
(* Definitions named <definition>_<Word> are mutations of the definition   *)
(* that follows them; nothing uses them, and put in its place each of them *)
(* breaks a property of the module.                                        *)
(***************************************************************************)
EXTENDS Integers

CONSTANTS Threads,     \* the threads that post
          Posts,       \* how many contributions each of them posts
          Modulus,     \* 2^32 in the code: where the lock word wraps
          CasWidth,    \* words the compare-and-swap compares and writes
          RngStates    \* the values rng_state is drawn from

ASSUME PostsAssumption    == Posts \in Nat
ASSUME ModulusAssumption  == Modulus \in Nat /\ Modulus >= 2 /\ Modulus % 2 = 0
ASSUME CasWidthAssumption == CasWidth \in {1, 2}
ASSUME RngAssumption      == RngStates \subseteq Nat /\ RngStates # {}

VARIABLES word,      \* obj->lock
          rng,       \* obj->rng_state
          pc,        \* where each thread is
          value,     \* lock()'s local variable
          reg,       \* the accumulator as the thread read it
          left,      \* contributions the thread has yet to post
          sum        \* the accumulator

lock_vars == <<word, rng, pc, value, reg, left, sum>>

Contributions == Threads \X (1 .. Posts)
Mine(t) == <<t, left[t]>>
Wrap(n) == IF n = Modulus - 1 THEN 0 ELSE n + 1
Held == word % 2 = 1

LockInit ==
    /\ word = 0
    /\ rng \in RngStates
    /\ pc = [t \in Threads |-> IF Posts = 0 THEN "done" ELSE "spin"]
    /\ value = [t \in Threads |-> 0]
    /\ reg = [t \in Threads |-> {}]
    /\ left = [t \in Threads |-> Posts]
    /\ sum = {}

(* value = *lock, and round again while it is odd. *)
Read(t) ==
    /\ pc[t] = "spin"
    /\ value' = [value EXCEPT ![t] = word]
    /\ pc' = [pc EXCEPT ![t] = IF Held THEN "spin" ELSE "cas"]
    /\ UNCHANGED <<word, rng, reg, left, sum>>

(* The long that starts at the lock equals (long)value. *)
Matches_Any(t) == TRUE
Matches(t) == word = value[t] /\ (CasWidth = 2 => rng = 0)

(* The swap writes (long)(value + 1), which clears the upper word. *)
Cas(t) ==
    /\ pc[t] = "cas"
    /\ IF Matches(t)
         THEN /\ word' = Wrap(value[t])
              /\ rng' = IF CasWidth = 2 THEN 0 ELSE rng
              /\ pc' = [pc EXCEPT ![t] = "load"]
         ELSE /\ pc' = [pc EXCEPT ![t] = "spin"]
              /\ UNCHANGED <<word, rng>>
    /\ UNCHANGED <<value, reg, left, sum>>

(* The two halves of `from->Ys += Y'. *)
Load(t) ==
    /\ pc[t] = "load"
    /\ reg' = [reg EXCEPT ![t] = sum]
    /\ pc' = [pc EXCEPT ![t] = "store"]
    /\ UNCHANGED <<word, rng, value, left, sum>>

Store_Late(t) ==
    /\ pc[t] = "store"
    /\ word' = Wrap(word)
    /\ sum' = reg[t] \union {Mine(t)}
    /\ pc' = [pc EXCEPT ![t] = "unlock"]
    /\ UNCHANGED <<rng, value, reg, left>>

Store(t) ==
    /\ pc[t] = "store"
    /\ sum' = reg[t] \union {Mine(t)}
    /\ pc' = [pc EXCEPT ![t] = "unlock"]
    /\ UNCHANGED <<word, rng, value, reg, left>>

Unlock(t) ==
    /\ pc[t] = "unlock"
    /\ word' = Wrap(word)
    /\ left' = [left EXCEPT ![t] = @ - 1]
    /\ pc' = [pc EXCEPT ![t] = IF left[t] > 1 THEN "spin" ELSE "done"]
    /\ UNCHANGED <<rng, value, reg, sum>>

(* The object draws a random number from its own state, at any time and    *)
(* without the lock (randunit(&obj->rng_state)).                           *)
Draw ==
    /\ rng' \in RngStates
    /\ UNCHANGED <<word, pc, value, reg, left, sum>>

Terminated == (\A t \in Threads : pc[t] = "done") /\ UNCHANGED lock_vars

Thread(t) == Read(t) \/ Cas(t) \/ Load(t) \/ Store(t) \/ Unlock(t)

LockNext == (\E t \in Threads : Thread(t)) \/ Draw \/ Terminated

LockSpec     == LockInit /\ [][LockNext]_lock_vars
LockFairSpec == LockSpec /\ \A t \in Threads : WF_lock_vars(Thread(t))

-----------------------------------------------------------------------------
LockTypeOK ==
    /\ word \in 0 .. Modulus - 1
    /\ rng \in Nat
    /\ pc \in [Threads -> {"spin", "cas", "load", "store", "unlock", "done"}]
    /\ value \in [Threads -> 0 .. Modulus - 1]
    /\ reg \in [Threads -> SUBSET Contributions]
    /\ left \in [Threads -> 0 .. Posts]
    /\ sum \subseteq Contributions

Inside(t) == pc[t] \in {"load", "store", "unlock"}

(* At most one thread is between lock() and unlock(), and the word is odd  *)
(* while one is, through every wrap of the word.                           *)
MutualExclusion ==
    /\ \A t, u \in Threads : Inside(t) /\ Inside(u) => t = u
    /\ (\E t \in Threads : Inside(t)) <=> Held

(* A contribution that has been stored is never lost: the accumulator      *)
(* holds every contribution of the threads that are past their store.      *)
NothingLost ==
    \A t \in Threads : \A k \in 1 .. Posts :
        k > left[t] \/ (k = left[t] /\ pc[t] = "unlock") => <<t, k>> \in sum

(* The lock implements the accumulator it guards: a contribution appears   *)
(* by itself, once, and under fair scheduling all of them do.              *)
Acc == INSTANCE Accumulator
AccumulatorSpec == Acc!Spec

(* "LOCK_OBJECT(obj) Locks an object": a thread that asks for the lock of  *)
(* an object gets through in the end, for no holder keeps it for ever.     *)
LocksAnObject == \A t \in Threads : pc[t] = "spin" ~> Inside(t)
=============================================================================
