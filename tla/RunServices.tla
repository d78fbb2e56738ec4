---------------------------- MODULE RunServices -----------------------------
(* What a run does around the synchronisation of objects: exec_start       *)
(* (core/exec.c) initialises them, makes checkpoints (do_checkpoint),      *)
(* commits each step (commit_all) and catches the exceptions thrown        *)
(* meanwhile (core/exception.c).  The process may be killed anywhere; it   *)
(* is then started again from the newest checkpoint that can be read, or   *)
(* from the model when there is none.                                      *)
(*                                                                         *)
(* An exception is a longjmp to the first handler of one list, wherever    *)
(* the function that pushed it is by then.  Here a handler is the name of  *)
(* that function, and pc is the place in the program: it determines which  *)
(* functions are on the stack.                                             *)
(*                                                                         *)
(* Definitions named <definition>_<Word> are mutations of the definition   *)
(* that follows them; nothing uses them.                                   *)
(***************************************************************************)
EXTENDS Integers, Sequences, FiniteSetsExt

CONSTANTS Interval,   \* global_checkpoint_interval
          LastTime,   \* bounds: of the time that checkpoints go by,
          MaxSeq,     \*    of checkpoint_seqnum
          MaxRuns     \*    and of the starts of the process

ASSUME BoundsAssumption == /\ Interval \in Nat \ {0} /\ MaxRuns \in Nat \ {0}
                           /\ LastTime \in Nat /\ MaxSeq \in Nat

VARIABLES
    checkpoint_type, checkpoint_keepall,  \* the globals; they do not change
    pc,
    handlers,                   \* exception.c: the list, first handler first
    early,                      \* history: exec_start has returned inside TRY
    now,                        \* the clock, or the wall clock
    last_checkpoint, fn, checkpoint_seqnum,
    disk, saved, writer,        \* files: their state, time and (history) run
    run, made                   \* history: starts; when this run last saved

program == <<pc, handlers, early>>
memory  == <<last_checkpoint, fn, checkpoint_seqnum>>
files   == <<disk, saved, writer, made>>
world   == <<checkpoint_type, checkpoint_keepall, run>>
run_vars    == <<program, memory, files, world, now>>

NoFile == -1
Seqs == 0..MaxSeq

RunInit ==
    /\ checkpoint_type \in {"none", "wall", "sim"} /\ checkpoint_keepall \in BOOLEAN
    /\ pc = "init" /\ handlers = <<>> /\ early = FALSE
    /\ now = 1 /\ last_checkpoint = 0 /\ fn = NoFile /\ checkpoint_seqnum = 0
    /\ disk = [s \in Seqs |-> "absent"] /\ saved = [s \in Seqs |-> 0] /\ writer = [s \in Seqs |-> 0]
    /\ run = 1 /\ made = NoFile

-----------------------------------------------------------------------------
(* Exceptions.                                                             *)

TRY(f) == handlers' = <<f>> \o handlers

(* delete_exception_handler: f's handler goes, and all that are before it. *)
Upto(f) == Min({i \in DOMAIN handlers : handlers[i] = f})
ENDCATCH_Keep(f) == handlers' = IF handlers = <<>> THEN handlers ELSE SubSeq(handlers, Upto(f), Len(handlers))

ENDCATCH(f) == handlers' = SubSeq(handlers, Upto(f) + 1, Len(handlers))

(* The functions that are on the stack and have a CATCH.                   *)
OnStack(p) ==
    CASE p = "init objects"           -> {"init_all"}
      [] p \in {"init", "done", "exit", "lost", "killed"} -> {}
      [] p = "unit"                   -> {"exec_start", "unit_find"}
      [] p = "commit"                 -> {"exec_start", "commit_all"}
      [] OTHER                        -> {"exec_start"}

CATCH == [init_all   |-> "init caught",   unit_find  |-> "unit caught",
          commit_all |-> "commit caught", exec_start |-> "halt"]

(* throw_exception: without a handler the process exits.                   *)
THROW ==
    /\ pc' = IF handlers = <<>> THEN "exit"
             ELSE IF handlers[1] \in OnStack(pc) THEN CATCH[handlers[1]] ELSE "lost"
    /\ UNCHANGED <<handlers, early>>

-----------------------------------------------------------------------------
(* The run.                                                                *)

InitAll == pc = "init" /\ TRY("init_all") /\ pc' = "init objects" /\ UNCHANGED <<early, memory, files, now>>
InitFails == pc = "init objects" /\ THROW /\ UNCHANGED <<memory, files, now>>
InitCaught == /\ pc = "init caught" /\ ENDCATCH("init_all")
              /\ pc' = "done" /\ UNCHANGED <<early, memory, files, now>>

(* init_all's ENDCATCH, then the TRY of the main loop.                     *)
Begin == /\ pc = "init objects"
         /\ handlers' = <<"exec_start">> \o SubSeq(handlers, Upto("init_all") + 1, Len(handlers))
         /\ pc' = "loop" /\ UNCHANGED <<early, memory, files, now>>

(* do_checkpoint *)
Latest == IF last_checkpoint = 0 THEN now ELSE last_checkpoint
Lapsed_Twice == last_checkpoint > 0 /\ now > Latest

Lapsed == Latest + Interval <= now

Begun(p) == pc = "loop" /\ pc' = p /\ last_checkpoint' = IF checkpoint_type = "none" THEN last_checkpoint ELSE Latest
NotDue == /\ checkpoint_type = "none" \/ ~Lapsed
          /\ Begun("sync") /\ UNCHANGED <<handlers, early, fn, checkpoint_seqnum, files, now>>

Obsolete_Swapped == checkpoint_keepall /\ fn # NoFile

Obsolete == ~checkpoint_keepall /\ fn # NoFile

Unlink == /\ checkpoint_type # "none" /\ Lapsed /\ Begun("open")
          /\ disk' = IF Obsolete THEN [disk EXCEPT ![fn] = "absent"] ELSE disk
          /\ UNCHANGED <<handlers, early, fn, checkpoint_seqnum, saved, writer, made, now>>

Following_Same == checkpoint_seqnum

Following == checkpoint_seqnum + 1

Named == pc = "open" /\ checkpoint_seqnum \in Seqs /\ fn' = checkpoint_seqnum /\ checkpoint_seqnum' = Following
Open == /\ Named
        /\ disk' = [disk EXCEPT ![checkpoint_seqnum] = "partial"]
        /\ writer' = [writer EXCEPT ![checkpoint_seqnum] = run]
        /\ pc' = "write" /\ UNCHANGED <<handlers, early, last_checkpoint, saved, made, now>>
OpenFails == /\ Named
             /\ pc' = "sync" /\ UNCHANGED <<handlers, early, last_checkpoint, files, now>>

(* stream_out, and fclose; a failure, -1, is not noticed.                  *)
Write == /\ pc = "write"
         /\ disk' = [disk EXCEPT ![fn] = "complete"] /\ saved' = [saved EXCEPT ![fn] = now]
         /\ last_checkpoint' = now /\ made' = now
         /\ pc' = "sync" /\ UNCHANGED <<handlers, early, fn, checkpoint_seqnum, writer, now>>
WriteFails == /\ pc = "write" /\ last_checkpoint' = now
              /\ pc' = "sync" /\ UNCHANGED <<handlers, early, fn, checkpoint_seqnum, files, now>>

(* The objects: a unit may have to be looked up, something may be thrown.  *)
UnitFind == pc = "sync" /\ TRY("unit_find") /\ pc' = "unit" /\ UNCHANGED <<early, memory, files, now>>
UnitUnknown == pc = "unit" /\ THROW /\ UNCHANGED <<memory, files, now>>
UnitFound == /\ pc \in {"unit", "unit caught"} /\ ENDCATCH("unit_find")
             /\ pc' = "sync" /\ UNCHANGED <<early, memory, files, now>>
SyncFails == pc = "sync" /\ THROW /\ UNCHANGED <<memory, files, now>>

(* Another iteration at this time; or commit_all, and time goes on.        *)
Iterate == pc = "sync" /\ pc' = "loop" /\ UNCHANGED <<handlers, early, memory, files, now>>
CommitAll == pc = "sync" /\ TRY("commit_all") /\ pc' = "commit" /\ UNCHANGED <<early, memory, files, now>>
CommitFails == pc = "commit" /\ THROW /\ UNCHANGED <<memory, files, now>>
Committed == /\ pc = "commit" /\ ENDCATCH("commit_all")
             /\ now' \in now..LastTime
             /\ pc' \in {"loop", "stop"} /\ UNCHANGED <<early, memory, files>>

(* "model commit failed": the handler of exec_start remains.               *)
ReturnFailed == /\ pc = "commit caught" /\ ENDCATCH("commit_all")
                /\ early' = TRUE
                /\ pc' = "done" /\ UNCHANGED <<memory, files, now>>
Halt == /\ pc \in {"stop", "halt"} /\ ENDCATCH("exec_start")
        /\ pc' = "done" /\ UNCHANGED <<early, memory, files, now>>

(* main: the savefile, the dumps and the KML file.                         *)
DumpFails == pc = "done" /\ THROW /\ UNCHANGED <<memory, files, now>>
Exit == pc = "done" /\ pc' = "exit" /\ UNCHANGED <<handlers, early, memory, files, now>>

Kill == /\ pc \notin {"exit", "lost", "killed"} /\ run < MaxRuns
        /\ pc' = "killed" /\ UNCHANGED <<handlers, early, memory, files, now>>

(* stream_in restores the clock and the number that follows.               *)
Complete == {s \in Seqs : disk[s] = "complete"}
Restart ==
    /\ pc = "killed"
    /\ pc' = "init" /\ handlers' = <<>> /\ early' = FALSE
    /\ last_checkpoint' = 0 /\ fn' = NoFile /\ made' = NoFile
    /\ checkpoint_seqnum' = IF Complete = {} THEN 0 ELSE Max(Complete) + 1
    /\ now' = IF checkpoint_type # "sim" THEN now
              ELSE IF Complete = {} THEN 1 ELSE saved[Max(Complete)]
    /\ run' = run + 1
    /\ UNCHANGED <<disk, saved, writer, checkpoint_type, checkpoint_keepall>>

do_checkpoint == NotDue \/ Unlink \/ Open \/ OpenFails \/ Write \/ WriteFails
commit_all == CommitAll \/ CommitFails \/ Committed
unit_find == UnitFind \/ UnitUnknown \/ UnitFound

RunNext ==
    \/ /\ \/ InitAll \/ InitFails \/ InitCaught \/ Begin
          \/ do_checkpoint \/ unit_find \/ SyncFails \/ Iterate \/ commit_all
          \/ ReturnFailed \/ Halt \/ DumpFails \/ Exit \/ Kill
       /\ UNCHANGED world
    \/ Restart

RunSpec == RunInit /\ [][RunNext]_run_vars

-----------------------------------------------------------------------------
(* Properties.                                                             *)

(* A handler is on the list exactly while the function that pushed it is   *)
(* there to catch, innermost first, so that what is thrown is caught by    *)
(* whoever is meant to: as long as exec_start has not left its TRY block   *)
(* by the return after "model commit failed".                              *)
Pushed(p) ==
    CASE p \in {"init objects", "init caught"} -> <<"init_all">>
      [] p \in {"unit", "unit caught"}        -> <<"unit_find", "exec_start">>
      [] p \in {"commit", "commit caught"}     -> <<"commit_all", "exec_start">>
      [] p \in {"init", "done", "exit"}           -> <<>>
      [] OTHER                                    -> <<"exec_start">>
HandlersNest == ~early /\ pc # "killed" => handlers = Pushed(pc)

(* With checkpoint_keepall, what has been saved stays: the newest          *)
(* checkpoint that can be read never becomes an older one, whether the     *)
(* process is killed in the middle of a checkpoint, started again, or      *)
(* cannot open or write a file.                                            *)
Newest == IF Complete = {} THEN 0 ELSE Max({saved[s] : s \in Complete})
ProgressKept == [][checkpoint_keepall => Newest' >= Newest]_run_vars

(* "zero delete all but last": without it a run has one file at a time.    *)
OneFile == ~checkpoint_keepall => Cardinality({s \in Seqs : disk[s] # "absent" /\ writer[s] = run}) <= 1

(* Checkpoints of a run are an interval apart, however often the loop      *)
(* comes by and whatever attempts failed.                                  *)
Spaced == [][made # NoFile /\ made' # made /\ made' # NoFile => made' >= made + Interval]_run_vars

(* "zero delete all but last": between two checkpoints the last one is     *)
(* there.                                                                  *)
LastIsKept == pc \notin {"open", "write"} /\ made # NoFile => \E s \in Complete : saved[s] >= made

(* An exception is caught by a function that has not returned yet.         *)
CaughtOrExit == pc # "lost"
=============================================================================
