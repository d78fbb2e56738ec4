# GridLAB-D in TLA+

GridLAB-D is a discrete-event simulator of power systems. A model is a set of
*objects* (houses, meters, lines, markets) loaded from a GLM file; the core
(`src/core`) brings them all from one time to the next until nothing is left
to happen. This directory models the core: the loop that moves the clock, the
threads it uses, the lock objects are guarded with, the internal properties
(schedules, loadshapes, enduses) it keeps up to date, the checkpoints and exceptions
of a run; and two of the objects whose behaviour depends most on how the core calls them:
the auction of `src/market` and the voltage regulator of `src/powerflow`.

## Inventory

| Part | State | Operations | Talks to |
|---|---|---|---|
| object lock, `lock.h` | one word per object | `lock`, `unlock`, compare-and-swap | every thread that posts to an object; `rng_state` is its neighbour in memory |
| rank pools, `exec.c` `exec_start`/`obj_syncproc` | per rank list: threads, `next_t1`, `donecount`, two mutexes, two conditions; `thread_data` | create threads, open a round, wait for it; a worker: wait, sync objects, count down | main loop, objects |
| main loop, `exec.c` `exec_start`/`ss_do_object_sync` | `global_clock`, `step_to`, `hard_event`, `status`, `iteration_counter`, `stop_now` | begin, sync of an object, collect, commit, iterate, leave | pools, internal pools, modules' commit functions, signals |
| passes and ranks, `exec.c`, `index.c`, `object.c` | `obj->rank`, `obj->parent`, one index of lists per pass | set parent/rank/dependent; build the indexes | loader, modules; the pools' lists |
| internal pools, `schedule.c`, `loadshape.c`, `enduse.c` | threads, `next_t1`, `next_t2`, `run`, `donecount`, a lock pair | `..._syncall`, `..._syncproc` | main loop; items |
| schedules, `schedule.c` | compiled calendars: table of a value per minute, `dtnext` | create (in threads), compile, index, sync | loader, loadshapes |
| loadshapes, `loadshape.c` | state machine per shape: state, `q`, `r`, `t0`, `t2`; the cached `next_t2_ls` | init, sync | schedules, enduses |
| enduses, `enduse.c` | loads, energy, `t_last` | sync | loadshapes |
| objects, `object.c` | clock, `valid_to`, service dates, properties | create, sync, save | classes, modules |
| exceptions, `exception.c` | list of handlers | create, delete, throw | everything that TRYs or THROWs |
| checkpoints and commits, `exec.c` `do_checkpoint`, `init_all`, `commit_all` | `last_checkpoint`, name and number of the last file; files | write a checkpoint, start from one, commit | exceptions, streams |
| realtime events, `realtime.c` | list of at most one event | schedule, run | the progress display |
| markets, `src/market` | two curves of bids, a ring of results, statistics over a ring of prices, the time of the next clearing | submit, clear, retrieve a frame | controllers submit bids from other threads and read the frame in force |
| voltage regulators, `powerflow/regulator.cpp` | tap, two times and two flags per phase, first-run counters | `presync`, `postsync` | the solver, which repeats the sweep; the main loop, through the answer |
| random numbers, `random.c` | generator states | draw | objects, loadshapes |
| loader, classes, modules, properties, units, output, server, debugger | tables, files, sockets | parse, convert, print | users |
| other modules: rest of the power flow, residential, tape, ... | physics | `sync`, `commit` | the core's calls |

What is hard in this code:

* **Threads.** Each rank list has a pool of its own and each internal pool
  another; rounds are opened and closed with counters, mutexes and broadcast
  conditions, and much shared data (`thread_data`, the items) is touched
  without a lock, on the strength of the round protocol alone.
* **Ordering.** The next time is gathered from every object of every pass, by
  several threads, in entries that must be reset and reduced at the right
  moments; parents must come before or after their children.
* **Early results and stale data.** Internal pools return old results while they
  are ahead; a schedule or loadshape keeps its next time from one call to the next.
* **Failure.** Objects fail, threads cannot be created, code throws across frames, files
  cannot be opened or written, and the process may be killed between two checkpoints.
* **Repeated calls.** The core iterates at one time; a regulator or an auction must change its state once,
  however many sweeps call it, and must ask for the right next time in each.
* **Boundaries.** The lock word and round numbers wrap, times are rounded to the
  minimum timestep, "soft" events are negative times, `TS_NEVER` and -1 are special.

What makes each part correct: one holder of a lock and no lost update (lock);
rounds that do not overlap, with no lost wakeup, and every object synchronised
once per list (rank pools); a clock that moves to the earliest event asked for, never
back, and stops when and only when it should (main loop); every call returning
the true next change with nothing missed (internal pools); parents ranked above
their children, and every object once in each pass (passes and ranks); a value at
every minute that is the one written for it (schedules); queues within bounds and pulses of the right
length (loadshapes); a clearing of the largest volume at a price all who trade accept, and results in force
in order and on time (auction); handlers that belong to a function still there, and saved work that
is not lost (run services); tap changes that are paced, patient and not forgotten (regulators).

## Modules

| Module | Models | Checked by |
|---|---|---|
| `Accumulator` | what posting under a lock promises | refined by `ObjectLock` |
| `ObjectLock` | `lock.h` and the threads that post under it | `MCObjectLock` |
| `RankedSweep` | what an iteration promises: list after list, each object once | refined by `RankPool` |
| `RankPool` | the pools of `exec_start` and `obj_syncproc` | `MCRankPool` |
| `SyncPool` | `schedule_syncall`, `loadshape_syncall`, `enduse_syncall` and their workers | `MCSyncPool` |
| `ExecLoop` | the main loop and `ss_do_object_sync` | `MCExecLoop` |
| `Ranks` | `set_rank`, its callers, and the loader's references to parents | through `Passes` |
| `Passes` | `setup_ranks`, the index, the order of the passes; extends `Ranks` | `MCPasses` |
| `ScheduleTable` | the compilation of a schedule: patterns, entries, blocks, tables, validation | through `Schedules` |
| `Schedules` | creation in threads, the loader's wait, look-ups, skewed transforms; extends `ScheduleTable` | `MCSchedules` |
| `Loadshapes` | the analog, pulsed and modulated machines of `loadshape.c` on the schedules that drive them | `MCLoadshapes` |
| `RunServices` | `do_checkpoint`, `init_all`, `commit_all`, `exception.c`, and what of `exec_start` calls them; kills and restarts | `MCRunServices` |
| `MarketClearing` | `curve.cpp` and the arithmetic of `clear_market`, pure | through `Auction` |
| `Auction` | submission, clearings, the rings of frames and prices; extends `MarketClearing` | `MCClearing`, `MCAuction` |
| `Regulators` | `regulator.cpp` in the sweeps of both solvers | `MCRegulators` |
| `ThreadsProofs` | theorems about `ObjectLock` and `SyncPool` | |
| `RunProofs` | theorems about `Ranks`, `Passes` and `RunServices` | |
| `RankPoolProofs`, `ExecLoopProofs`, `SchedulesProofs`, `LoadshapesProofs`, `RegulatorsProofs`, `AuctionProofs` | theorems about the module each is named after | |

How they fit: `ObjectLock` is what `submit` of `Auction` holds, which makes a submission one step;
`RankPool` is one list of the sweep that `Passes` orders and `ExecLoop` takes as `SyncObject`; `SyncPool`
divides among threads what `Schedules` and `Loadshapes` do with one; `Loadshapes` takes of a schedule any
sequence of values that `Schedules` could give; `RunServices` is `ExecLoop` seen from the outside.
`Auction` and `Regulators` are objects: the answers they give are among those `ExecLoop`
lets any object give.

Definitions named `<definition>_<Word>` in a module are deliberate mutations of
`<definition>`: nothing uses them. Put in the place of the original each of
them must break the property PROJECT.json pairs it with. They show that the
property depends on the code.

### ObjectLock

`Read` and `Cas` are the two halves of the loop in `lock()`, `Unlock` the
increment in `unlock()`. Between them a thread reads (`Load`) and writes back
(`Store`) an accumulator, the documented use of `LOCK_OBJECT`. The word is a
number modulo `Modulus` (2^32 in the code). `CasWidth = 2` is a build with
64-bit `long`: the compare-and-swap then also compares `rng_state` (`Draw`
changes it at any time) with the upper half of the expected value, which is zero.
`Matches` and `Cas` say precisely that.

### RankPool and RankedSweep

One worker per thread of each list. `mpc` and `pc` are the places in
`exec_start` and `obj_syncproc`; a condition wait is two steps (release and
sleep, wake and lock again), a broadcast moves every sleeper of that condition.
Workers synchronise the objects of their share one by one (`Sync`), may fail
one, then `Mark` their round and `Count` down. `RankedSweep` is the
sequential reading: enter a list, do its objects in any order, leave it.
The refinement mapping is stated at the end of `RankPool`.

### SyncPool

The three copies of the pool are one module; the constant-valued variable
`kind` says which. The main thread makes up to `MaxCalls` calls at times that
the code could call it with: the same time again, or any time up to the last result.
A schedule's answer follows from its period. A loadshape or an enduse answers a later time or none, but also the
present (`loadshape.c:793`) or one that has passed: `enduse.c:142` returns its shape's `t2` unguarded, which is 0 while nothing has set it and an old time in a gap
(`loadshape.c:756-761` leaves it). `Back` bounds how old; 0 stands for all that is older. After such an answer the run ends (`SyncFailed`, `exec.c:912`), but
the call that gave it returns, and its answer and what it synchronised are checked like any other. Spurious wakeups are left out here, since every wait tests again
in a loop and `RankPool` models them.

### ExecLoop

`Begin` is the head of the loop (clock, internal properties, reset), `SyncObject`
is `ss_do_object_sync` for an object, `LeaveList` the test for failures after each
list, `Collect` the reduction over the threads, `Commit` / `Iterate` the two ways
an iteration ends, `Stop` the signal handler. An object answers anything: past
times, soft times, invalid, never. `asked` is a history of the answers of this
iteration, which only the properties read. In realtime mode the wall clock is taken
not to run back and to be bounded by `LastTime`; where that bound ends the run the
model stutters (`BeyondBound`).

### Ranks and Passes

A recursive call of `set_rank` is a step, `Climb` or `Fail`; `at`, `want` and `first`
are its arguments, `trail` the objects its open calls have marked. The marks of a
call that fails stay, as in the code. `LoadRank`, `Resolve`, `Establish` and
`ModuleCall` are the callers, in the order of the program: properties of the
file, references in any order, `object_set_parent` for every object with its
result ignored, and the calls modules make from `init`. Objects are taken to exist
before the first rank is set: while a file is read the limit on ranks is the number of objects
created so far, here it is `N` throughout. `linked`, `broken`, `from` and `stale` are
histories that only the properties read.

`Passes` goes on where `Ranks` ends: `Insert` is the body of `setup_ranks`,
`index_insert` keeps the bounds and the size of the memory as the code does
(including an empty index, whose bounds are the wrong way around), and `Visit`,
`NextRank` and `NextPass` are the three loops of an iteration, written with the
code's own `PASSINIT`, `PASSCMP` and `PASSINC`. `RankPool` takes over where `Visit` is
one object after the other.

### ScheduleTable and Schedules

`ScheduleTable` is the pure part: an entry is five patterns and a value, a pattern a list of
ranges, and the functions have the names they have in `schedule.c`. The fields of the
record they build are those of `SCHEDULE`; its index is a value for each minute of each
*calendar* (the weekday of January 1, and leap year or not). The lengths of
hours, days, weeks, months and years are constants. Definitions start as lists of entries: the text that
is split into them is not modelled.

In `Schedules`, `schedule_create` starts a creation, in a thread or in the loader
(`Inlined`, also when no thread can be had); `Enter`, `Sleep`, `Compile`, `Finish`
are the parts of `schedule_createproc` between its locks, `schedule_createwait` is the
loader at an object. When a file is read and every creation has succeeded, `Advance` lets the
clock stop at any time up to the earliest next change, since other objects may
ask for it, and `Sync` looks schedules up as `schedule_sync` does and then applies
a transform to an object for each. `timestamp_year` keeps the estimate of the year and the two loops
that correct it; `AverageYear` is 365.24 days in the code.

What the modules show of the code besides: `schedule_normalize` returns at once, since it is called
with the schedule's own flags (`schedule.c:621`, `843`); "boolean" schedules never
validate, because the value one past the last is looked at (`schedule.c:798`); a
single item that is out of the bounds of its pattern selects everything, since cutting it
turns it into a range that wraps around (`schedule.c:159-170`). `schedule_duration` masks the block
with 4 rather than 3 (`schedule.c:966`); durations are not modelled.

### Loadshapes

A shape's `q`, `r`, `t0`, `t2` are the fields of `loadshape`, with the queue counted in parts of its
threshold and rates in parts per second; a rate of more than `Full` stands for every greater one, an infinite one included. A pulsed shape's rates have
the sign its parameters are checked for (`loadshape_init`). Those of a modulated shape may have either: the code divides by the difference of a period, which comes from the
schedule's duration in hours, and a pulse in seconds (`loadshape.c:171-176`, `186-188`). Dividing by it, the time left is cut toward zero (`Left`), and an answer that
is not positive is none (`Positive`). `Gap` is the place of a value where a schedule has none. `Sync(t)` is one call of `syncall_internals` at a time that is not later than
the answer before: `schedule_syncall` gives new values (or a gap) to schedules that are due,
`loadshape_syncall` returns at once when its cached answer is ahead (`Cached`), otherwise every shape moves.
`TurnsOn` and `TurnsOff` decide with the rate the shape had, `Rate` is that of the new
value, `Ask` the time the shape wants. An answer that is not in the future ends the run, as
in `exec_start`.

### RunServices

`pc` is a place in the program and says which functions are on the stack; `handlers` is the list of
`exception.c` by the names of the functions that pushed them. `THROW` jumps to the first, and ends
nowhere (`lost`) when that function has returned. `do_checkpoint` is cut at its file operations:
not due, unlink, open (or fail), write (or fail). `Kill` may come at any place; `Restart` is a new process that
loads the newest complete file, as a user gives it, or the model. `writer`, `run` and `made` are histories.

### MarketClearing and Auction

`MarketClearing` keeps the code's shape: two sorted curves (`Keys` orders the bids as the two merges do, ties included), one walk that consumes a bid of one side or of both
(`Step`), the type and the price from the place where they part, then the exceptions (`TwoSided`), or one side
against a fixed price or quantity (`OneSided`). What an array holds past its end is
an argument, `stale`, chosen freely. Prices are whole numbers, those of the runs multiples of four, so that the middle of two prices is exact. Nothing keeps two prices from
being closer than `bid_offset` (0.0001 by default, `init.cpp:19`), and then the price that is moved just off one bid is past the other, so that somebody trades at a price worse than
the bid. `Willing` says by how much: not at all where no two bids of the curve are closer (`Crowded`), and by no more than the offset in any case. `clearing` has books of both kinds,
and in the crowded ones the stricter claim fails on either side.

In `Auction`, `Submit` is one call of `auction::submit` with the key the bidder remembers, as `controller::sync`
makes it: a new bid, a resubmission or a withdrawal. `Open`, `Wait` and `Clear` are the three outcomes of
`auction::presync`; `Clear` is the whole of `clear_market` with the statistics, `pop_market_frame` and
`push_market_frame` (`FileLater`, or `FileNow` without latency). `Advance` moves the clock to any time up to the next clearing, or iterates. `wanted`, `book` and
`prices` are histories: what each bidder wants of this market, the bids cleared last as they were submitted, all prices so far.
So `MaxVolume` is about the sort and the walk together: a sort that lost a bid would break it.

### Regulators

The tap logic of one regulator (`presync`) with a network around it that is only what the regulator
sees: voltages are in steps of a tap, loads move them between times (`source`), and a sweep makes the
monitored voltage that of the new taps. `FBS` solves in every sweep, `NR` in every other one
(`solver_nr`), in which `presync` only computes its answer. `Solved`, `Dwell`, `Delay`, `Change`, `Wait` and `Rest` are the
branches of the code for a phase, in its order; `Soonest` is the minimum over the phases with
its two oddities: `next_time` may be an old one and `nt` may be uninitialised (any value). `postsync` compares with
the swapped limits, as the code does.

## Runs

| Run | Shows | Bounds |
|---|---|---|
| `object_lock` | mutual exclusion, refinement of `Accumulator` with its liveness (no lost contribution) | 3 threads, 2 posts each: 12 increments of a word that wraps at 4, so a stale value can match again; `rng_state` zero or not |
| `rank_pool` | thread entries have one writer, and no reader meanwhile, no lost wakeup, refinement of `RankedSweep`, termination | two lists of 2 threads sharing entries, 3 iterations with round numbers modulo 2, one spurious wakeup |
| `sync_pool` | results, no missed change, enduses synchronised each call, every call returns | 3 items on 2 threads and without threads; 4 calls; answers up to `Back` = 1 s old, or 0 |
| `exec_loop` | next step, stop conditions, errors, convergence | 2 objects, 2 lists, 2 thread entries, times 1..4; stop time, none, minimum timestep 2, realtime |
| `passes` | each object once per pass and in order of parents, calls and sweep end | 3 objects, all 64 choices of references (every loop included), 2 further calls, an index that starts with one ordinal and must grow twice |
| `schedules` | creations end, tables that say what definitions say, current values, skews | 6 definitions of up to 2 blocks, 4 files with an object and up to 3 schedules, 1 or 2 threads; days of 6 minutes, 3 years one of them leap, 4 starting times; the longest time in a table is 4 minutes; skews of none, 1 and 4 minutes, the last as long as a value can be stale |
| `loadshapes` | queues within bounds, loads that follow, pulses of the right length | shapes of every kind on a schedule without gaps and one with, and a modulated one with a negative rate while it is off; threshold 4 parts, rates 1 and 2; values last 2 or 3 s; times to 7 |
| `services` | handlers nest, one file, nothing saved is lost, checkpoints spaced | interval 2, times to 6, 4 checkpoint numbers, 3 starts of the process |
| `clearing` | largest volume, willing traders, a share that is a share | 2 buyers and 2 sellers of 4 or 5 bids each (one may stay away), ties, an offset of 6 with prices 4, 8 and more apart, unresponsive bids, prices beyond the cap on either side and a withdrawn bid, 7 modes, 3 stale prices; one clearing |
| `auction` | standing bids, results in order and in force in time, statistics, one market after the other | 2 buyers (one changes and withdraws), 1 seller; period 2 with latencies 0, 1, 3 and 4; times to 8: four clearings, more than either ring holds |
| `regulators` | paced and patient changes, right answers, sweeps that end | 2 phases, 2 steps up and 1 down, both solvers, singly and as a bank; 4 timings; 3 voltages per phase; times to 6 |
| `parent_loop` | violation: `object_set_parent` makes a loop of parents | no references, 2 calls |

Three runs do not check for deadlock since the program stops in them: `loadshapes` after a failure,
`services` when the process is over and may not be started again, `regulators` at the end of time.

Bounds are named constants. Three objects are the least with a loop that does not come
back to its start, and with a rank that can be left out. Two threads are the least that interleave, and the
third of `object_lock` lets one sleep through a whole wrap of the word; two lists are
the least for entries of `thread_data` to be handed from one pool to the next; three
iterations let a round number of two values repeat. For schedules, a longest time of 4 minutes
is shorter than the constant stretches of the definitions, so that tables are cut as
those of 255 minutes are; the leap year lies between two common ones, so that the clock passes
into it and out of it. Two phases of a regulator are the least for a minimum over phases and for a bank
that moves what it does not look at; a tap range that is not symmetric tells the two limits apart. Three starts let a
restart from a checkpoint be killed in its turn. Latencies are chosen for each case of
`latency / period + 2`: none, less than a period, no multiple, a multiple.

**Fairness.** Weak fairness per thread: the operating system runs every thread
that can run. No strong fairness is assumed: the spin lock guarantees progress of
some thread only, and the liveness of `AccumulatorSpec` holds since contributions are
finite. In `Schedules` each creation and the loader are threads; the clock is not required to
advance. In `Regulators` the sweeps are fair, the clock is not: `exec_start` iterates at one time until
nobody asks for another sweep. Signals, spurious wakeups and random draws are never required to happen.

## Findings

Shown by a run:

* `object.c:1156`: the parent is stored before `set_rank` refuses it, so the comment
  at `object.c:1078-1080` does not hold (`parent_loop`).

Stated in the modules, where the code does not keep them; each fails with the constants given, in a few steps, and
is in no run:

* `lock.h:74` passes a 32-bit word to a compare-and-swap on `long`: with `CasWidth = 2` it never matches when
  `rng_state` is not zero, and nobody gets the lock (`ObjectLock!LocksAnObject`).
* `exec.c:1019`: a thread that cannot be created is reported and still waited for (`RankPool!StartReturns` with
  `CreationMayFail`).
* `schedule.c:1051`: schedule workers compare times only, so a second round for the same
  time is not noticed. One is opened when the last result was `TS_NEVER`, that is when `schedule_dtnext` is 0 for every
  schedule: they are constant with value 0 (`SyncPool!CallReturns` with such periods).
* `schedule.c:550`: the tables of common years end in an unused day of value 0, and the look-up
  that should stop at the end of the year may pass it (`Schedules!ChangesOnTime`).
* `schedule.c:661`: creations that have not begun are not waited for
  (`Schedules!ObjectsAfterSchedules`). Nothing waits for the schedules that follow the last object at all.
* `loadshape.c:793`: a pulsed shape whose queue is within the last second of the threshold, at a rate that has since grown, answers the time
  it was called at; `exec.c:912` ends the run for it, and no message says which shape
  (`Loadshapes!NoSilentFailure`). The test for the last second, line 69, uses the rate before.
* `loadshape.c:171-176` and `186-188` subtract a pulse in seconds from a period in hours (`schedule.c:1007`, `schedule.h:79`), which is negative when the pulse is the greater number: the rate of a
  modulated shape that is off is negative, so that `s` says off while the queue drains (`Loadshapes!AlwaysConsistent`; the debug check is made of pulsed shapes only, 771-782).
  Next it takes the load to be on; the time it asks for may have passed, and then `exec.c:912` ends the run (`Loadshapes!NoSilentFailure` as well). `StateConsistent` says
  of such shapes only that the queue keeps its bounds, and of those that fill (`Fills`) that the queue moves as the load says.
* `enduse.c:142` returns the shape's `t2` as it is, while `loadshape_sync` guards its own (line 854): an enduse whose shape has come into a gap
  answers the time at which the gap began, and ends the run in the same way (`SyncFailed` in `SyncPool`).
* `exec.c:286-303`: the old checkpoint is unlinked before the new one is opened: a failure, or a kill, leaves none
  (`RunServices!LastIsKept`), while `checkpoint_keepall` is documented to "delete all but last" when zero.
* `exec.c:1105`: `return FAILED` inside TRY leaves a handler of a frame that is gone, and whoever throws later, as
  `kml.c:157` may while the model is dumped, jumps into it (`RunServices!CaughtOrExit`).
* `auction.cpp:1128`, `1137-1138`: when the buyers run out at the price of a seller that is not
  satisfied, the type is SELLER and the price stays the buyer's, against the comment at 1157: what is left for the sellers
  at the margin is negative and of none (`Auction!SellerShare`).

Seen while modelling, and in the models as the code has it, or out of their reach:

* `timestamp.c:107` compares with `>`, so where the estimate of the year is low (January 1 of the leap years 1996 to
  2016, and of some years before) the first instant of the year is day 366 of the one before, and
  `schedule_index` reads the table there. The calendar of `schedules` has such a year; the
  properties except that instant (`Dated`).
* `schedule.c:1220-1228` keeps a value that was looked up at the end of a year until its time is over, up to 255 minutes
  (`MaxDelta`) into the next year, and an object with a skew reads it then. `SkewIsPast` is about the times after
  that (`Settled`); the attempt to prove it for all times showed this.
* `schedule.c:150-173` cuts a range that lies outside its bounds (hour 24, day 0), with a warning, to an empty one, which the
  next lines take for one that wraps around: it matches every hour, or every day. `TableIsDefinition` is about
  definitions without such ranges (`Plain`), as its proof needs.
* `exec.c:297` tests `!stream_out(...)`, which is not true of the -1 that says writing failed.
* `loadshape.c:996` keeps shapes in a gap from being looked at until another asks; queued shapes have the two thresholds
  the wrong way around (293-304 against 25-26).
* `auction.cpp:1178-1181` reads one bid past the end of a curve, 935 and 983 the first bid of an empty one; 1187 compares with
  the count of the wrong curve; 1331 uses `unresponsive_buy` of an earlier market; 1429 cuts prices above the cap but not below its negative,
  while 1314 limits the price that is posted at both: a buyer who asks to be paid more than the cap
  (a stub bidder may; controllers cut their bids, `controller.cpp:858`) trades for less. `Willing` is about buyers
  within the cap on that side; its proof failed without it.
* `auction.cpp:1281` and `1299` divide by the total of the bids at the margin, which is zero when those bids have all been withdrawn (resubmitted
  with quantity 0, as `controller.cpp:885` does), so that `marginal_frac` is not a number. Here the quantity and the total are kept apart, and `BuyerShare`
  asks for a total above zero only of bids that are not withdrawn; its proof, and then TLC with a third buyer and a second withdrawal, showed it.
* `write_bid` writes 19 bits of a bid's number where `translate` reads 15; `double_controller.cpp` compares a bid's key with a market's number.
* `regulator.cpp:776-781` compares the low limit with the highest tap and the reverse. At a true limit with both delays zero,
  which is the default, the regulator asks for another sweep for ever; at low voltage and the
  lowest tap it lets time go on with a tap to move. `Settles` and `Awake` therefore ask for a delay.
* A bank with an initial tap for phase A only never ends its first run (`regulator.cpp:244`; `Uniform` in `Settles`). `init` overwrites the
  initial taps of the shared configuration, so a second regulator with it skips its first run (99). `nt` is not
  initialised where both times have come (448-454).

## Proofs

All theorems hold for every value of the constants that satisfies the assumptions of the
modules. Each follows one pattern: an inductive invariant `IInv`, checked by TLC
before it was proved, `Init => IInv`, `IInv /\ [Next]_vars => IInv'`, and the
property from `IInv`.

* `ThreadsProofs`, `ObjectLock`: the word is odd exactly while some thread is inside,
  a thread about to swap holds an even value, and the register of the holder is the
  accumulator (`LockIInv`). Hence `MutualExclusion`, `NothingLost` (which the refinement checked by `object_lock` implies), and every
  step is one of `Accumulator` or none.
* `ThreadsProofs`, `SyncPool`: the count of a pool is the number of workers that have not finished the round, and every worker has
  marked each round that is over (`PoolIInv`). Of the items of a worker that has finished, each has been synchronised by the call, and a schedule has its next change later than its time; `next_t2` is the earliest of the changes reported so far, and between calls the earliest of all. Hence `ReturnsNextChange` and
  `NothingMissed`, for each kind of pool and any number of items and threads, none included. No item need answer a time ahead for it: one that was not synchronised by this call is in a pool
  that returned early, and then the answer kept, which is the earliest of all, is ahead of it.
* `RankPoolProofs`: the count of a list is the number of workers
  that have not finished the round; a worker asleep has seen the current round; the
  main thread holds `donelock` while it tests. Hence the barrier, and from it that nobody else, worker or main thread, is at an entry of `thread_data` while a worker is at its objects; no lost
  wakeup, and the refinement of `RankedSweep`.
* `ExecLoopProofs`: what the loop may step to is not behind the clock (the strengthening
  `ClockMonotone` needs, because the clock is set from `step_to`), and a failed
  entry stays failed until it is looked at. For `StepIsEarliest`, the entries of all threads together know the earliest event
  asked for so far (`Gathering`), and once collected and committed `step_to` is it (`Gathered`); that rounding gives the first multiple of the
  minimum timestep is arithmetic (`OneMultiple`, `RoundedIsMultiple`). For `StopsWhenDone`, the entries together count the events that
  are not soft, and `hard_event` is their sum once collected (`Counted`); a sum of counts is zero only when each is, by
  taking away one entry at a time from the smallest set for which it fails (`SumCounts`); and the clock passes neither the stop time nor
  the last time (`Limits`).
* `RunProofs`, `Ranks` and `Passes`: a link is in order or is the one the open call is
  putting in order (`Higher`), which needs that an open call carries the rank of the child it comes
  from (`Links`); hence `ParentsRankHigher` and `RanksNeverFall`. From each object an open call
  is at work on the chain of parents leads to the one it is at, in no more links than there are such objects, and every other mark is of a call that failed
  (`Marks`); hence `FailuresExplained`, which is in no run: a call fails only for want of ranks, in a loop, or at such a mark. For the sweep, an index holds exactly
  the objects inserted so far within its bounds (`Indexes`), and the objects seen in a pass are those
  of the ranks before this one and those of this rank no longer in the list (`Progress`); hence
  `VisitedOnce` and `ParentsInOrder`.
* `RunProofs`, `RunServices`: without `checkpoint_keepall` the only file this run has is the one it remembers (`Remembered`); numbers
  to come are of no complete file, and no file holds a time later than the clock's (`Fresh` and the conjuncts after it). Hence `OneFile`,
  `ProgressKept` and `Spaced`, for any interval and any number of kills. `HandlersNest` is inductive by itself: at most two handlers
  are ever pushed, so that the list at each place is one of three literals.
* `SchedulesProofs`, the threads: `sc_running` is the number of active creations, by adding and removing one member of a
  finite set; whoever makes room wakes everybody (`Broadcast`), and only who finds none sleeps. Hence `Throttled`
  and `NoLostWakeup`, for any definitions: what the tables hold does not matter for it.
* `SchedulesProofs`, the calendar: the two loops of `timestamp_year` find the year a time is in, from any
  estimate (`YearFound`), and `schedule_index` is the place of the time in its calendar (`IndexIsPlace`), except the instant above.
* `SchedulesProofs`, the tables: whether a table holds only what has been compiled is kept by each minute of an entry, each entry and
  each block (`EntryFills`, `EntriesFill`, `BlockFills`). The folds are over sets or sequences: in each, a least place where the result
  is not what it should be leads to a contradiction. A minute has the value of the one entry of a block that says anything
  but zero, and nothing has changed where two places next to one another are alike (`Unchanging`), so a time in the table fits the stretch it
  is about (`DelaysFit`). Hence `TableIsDefinition`, for any definitions that are plain. For the run, what a look-up found stands until the time it
  answered, within the year (`Stood`, with `Found` for the skewed values). Hence `ValueIsCurrent` and `SkewIsPast`.
* `LoadshapesProofs`: a shape that follows its schedule asks for no time later than the schedule's next change, and the
  cached answer is no later than what each shape asked for (`Begun`), so while the answer is ahead no value can have changed.
  Hence `LoadIsCurrent`. The bounds of every queue need nothing but that a shape sets its queue to the threshold it meets, for rates of any sign and size; `StateConsistent` adds to them the
  sign of the rate, of shapes that fill. That the minimum of a finite set
  of times is one of them is a lemma, from the order of strict inclusion on finite sets.
  `PulseLength` needs that a queue that drains is the threshold less what the time held has taken, and that the shape has asked
  to be looked at when it is empty (`Draining`); the division of that time into whole seconds is the lemma `Division`.
* `RegulatorsProofs`: the time a phase waits for is a delay after its last change, or never (`AfterChange`), and a dwell time after its
  voltage left the band (`AfterBand`); flags are only set when those times have come, and are taken back by the move, so that a phase that moved waits for both times again, at the same clock too,
  unless both are zero. Hence `Paced` and `Patient`, for
  any timings, limits, voltages and both solvers. A phase out of the band always has one of its times ahead, and not farther than
  both delays (`TimesOfPhase`; `Prompt` is what that needs when there is no delay between changes), and the answer is the least of them: hence `Awake`
  and `NotPast`.
* `AuctionProofs`, the rings of frames (`FInv`): one market clears in each period, at a time fixed by its number, so that the results that
  wait span less than a latency and a period and the ring has room for one more (`Clockwork`, `InRing`); the one in force is the last whose time has
  come (`InForce`). Hence `PendingInOrder`, `FrameInForce` and `OneAfterAnother`, for any period and latency.
* `AuctionProofs`, statistics (`SInv`): the price of market `m` is in place `(m - 1) % history_count` for as long as a window may
  reach it (`Prices`), and a frame carries the means of its market (`FiledStatistics`); equal sequences have equal sums, so that
  nothing about sums is needed. Hence `StatisticsExact`.
* `AuctionProofs`, bids (`BInv`): each entry of a curve is of the bidder whose key numbers it (`CurvesHold`, `KeysHold`), so a curve is not longer
  than its bidders are many, and its numbers fit in a key by `KeysAssumption` (the code does not enforce it: `write_bid`
  would let a number run into the bits of the market). Hence `BidsStand`.

* `AuctionProofs`, clearings (`CInv`). A sum over a set of bids adds up and grows with the set: the folds of the library are
  functions on finite sets (`FoldExists`), and a least set for which a fact fails leads to a contradiction. Keys in order exist
  (`OrderExists`), the curves they give fall and rise (`AsksFall`, `OffersRise`) and hold the bids submitted (`Rearranged`), so that what is
  asked for and offered at a price is the same before the sort and after. Along the walk (`Stands`), `demand` and `supply` are
  the sums of the bids each side is done with (`Taken`), and the last step says at whose price the walk is: the buyer's, the seller's, or
  between both (`AtBuyer`, `AtSeller`, `AtBoth`). Where it parts, no price clears more (`NoMore`) and one clears as much (`Reached`): hence
  `MaxVolume`. The price, its exceptions, and its limits are then between the two bids (`SplitIs`, `WalkPriceIs`,
  `LimitedIs`), with `Accumulated` for a market of one side (`AccumulatedIs`): hence `Willing`: the two of them are the only ones that move a price, and by no more than the offset past the next bid (`SlackIs`). What is left of the margin is a difference of two
  neighbouring sums (`MarginShare`): hence `BuyerShare`. All for any bids, any number of bidders and any stale prices.

Model-checked only: liveness (`StartReturns`, `CallReturns`, `SweepEnds`, `Converges`, `CreationEnds`, `Settles`, the
liveness of `AccumulatorSpec`), which needs fairness and ENABLED.

## Not modelled

* The physics of the modules (power flow, residential, generators, climate and the rest): floating-point
  equations inside the calls that the core makes; the core's models let an object answer any time. They are most of the
  repository's lines, with the parsers.
* The GLM and XML parsers, output, property conversion, units, server, debugger, tapes: text and I/O.
  What the loader does to ranks and schedules is in `Ranks` and `Schedules`.
* Memory: allocation failures, and the use of freed memory (threads that outlive `exec_start`, schedules freed
  while in the list), where the C language says nothing of what follows.
* Daylight saving time and seconds within a minute in `Schedules`: `schedule_index` reads local
  dates, and the local clock is taken to run evenly.
* Scheduled and queued loadshapes: the first ones follow the calendar, the second ones draw a random rate for each pulse.
* In a regulator: the compensated voltages (line drop), manual control, which moves nothing, and the switching times
  of other devices on the same network. In a market: controllers' bidding curves, statistics other than the mean (the deviation is a square root),
  the capacity reference and its bids, `ignore_pricecap`.
* Realtime events: the list never holds more than one.

## Plan

The order of what is left, most important first.

1. `ObjectSync` (`object.c` `_object_sync`, `object_sync`): the clock of an object, `valid_to`, service
   dates, the loop that repeats until the object catches up; refines the object `ExecLoop` assumes.
2. Controllers (`market/controller.cpp`, `double_controller.cpp`): what a bidder does with a frame in force, composed with `Auction`.
3. The state machines of `powerflow` next to the regulator: capacitors (`capacitor.cpp`), reclosers and fault
   checks, volt-var control, which drives regulators and capacitors together.
4. Deferred initialisation of objects (`init_all`), as a composition of `RunServices` and `Passes`.

Abstract specifications worth stating: a calendar (`value` a function of time) that `Schedules` implements within
a year; "the clock is the minimum of what was asked" for `ExecLoop`; a market as a sequence of clearings that `Auction` delays.

To prove next: every safety property that a run checks has its theorem, so what comes next are the parts above as they are added, and the
refinements between modules: that one call of `SyncPool` gives the answer `Loadshapes` takes of a schedule.
