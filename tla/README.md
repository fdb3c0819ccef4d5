# TLA+ models of cbox telemetry-native

Specifications of the PHP extension in `src/` (C, non-thread-safe builds, both
timer backends), the TLC configurations that check them, and TLAPS proofs of the
parts that are worth knowing for every value of the constants. Paths below are
relative to the repository root, `src/`; so `src/ops.c` is the file that
PROJECT.json calls `src/src/ops.c`.

    tlc -workers 2 -config MCOps.cfg MCOps        # a run
    tlapm OpsProofs.tla                           # a proof

## 1. The system

Everything is scoped to a *unit of work* in a PHP process. PHP code calls
`begin` and `finish`; in between a timer samples the PHP stack, hooked internal
functions are timed, and breadcrumbs are left in a ring that outlives the unit.
If the process dies of a signal, a handler appends one record to a file named
after the process, which some other process later drains.

| part | state | operations | what is hard |
|---|---|---|---|
| operation timing (`src/ops.c`, wrappers in `src/hooks.c`) | aggregates, a stack of slots for crash context, a generation | reset, begin, end, current | Fibers end calls out of order; calls outlive units; forks and bailouts in the middle of a call |
| breadcrumb ring (`src/breadcrumbs.c`) | entries with sequence numbers, head, written | push, snapshot | the reader is a signal handler that may interrupt the writer between two stores, or run beside it on another thread |
| profiler (`src/profiler.c`) | two pending counters shared with a signal handler, the profile, a deadline | tick, interrupt, start, stop, reset, clear_deadline, after_fork | the signal lands between any two instructions |
| POSIX timer (`src/timer_posix.c`) | created, armed | arm, disarm, signal, after_fork, shutdown | timers are not inherited by a child, the variables that describe them are |
| unit lifecycle (`cbox_telemetry.c`, `src/unit.c`) | the unit, next_handle, owner_pid | begin (with adoption), finish, status, RINIT, RSHUTDOWN, MSHUTDOWN, detect_fork | any order of calls, stale handles, fatal errors, forks nobody announces |
| crash handler and sink (`src/crash.c`) | dispositions below ours, latch, path, descriptor, files | install, open_sink, handler, uninstall, drain, compact | faults inside the handler; handlers below that return; no lock between writer and reader; pid reuse; torn writes; several versions of the record; a collector that dies |
| stack trie, frame table, arena (`src/stacktree.c`, `src/frames.c`, `src/arena.c`), profile output | bounded tables with hashed buckets | intern, child, record, reset, fold | limits reached half way through a sample; colliding hashes; cached ids |
| thread timer (`src/timer_thread.c`) | mutex, condition, armed flag, a thread | the fallback for platforms without a per-thread CPU timer, off by default | a sampler thread against the PHP thread; a fork while it holds the lock |
| hooks, interrupt, signals, alternate stack (`src/hooks.c`, `src/sigstack.c`, MINIT and MSHUTDOWN) | who is called from where; one stack | install, uninstall | chains with other extensions in any order; startup that fails half way; the order of shutdown |

The parts interact by plain calls on the one PHP thread, through the two
counters and the interrupt flag (timer signal to VM), through the pointers the
crash handler holds into the module globals (ring, unit, operations), and
through the files of the crash directory. `fork` copies all of it except the
kernel timers and threads.

PROJECT.json lists every component with its status, the map from definitions to
source lines, and the hazards the properties are for.

## 2. Modules

| module | models | composes |
|---|---|---|
| `Ops` | `ops.c` with the wrappers and all unit boundaries as its environment | |
| `Breadcrumbs` | push and snapshot, one step per store and load | |
| `Profiler` | profiler and POSIX timer, one step per instruction a signal can separate | |
| `Samples` | one sample stored in frame table, trie and arena, one step per call that may run out of room | frames, trie, arena under the profiler |
| `ProfileOutput` | `cbox_profile_into` as definitions over `Samples` | `Samples` |
| `TimerThread` | the fallback timer, one step per lock, wait and flag | sampler thread, profiler, fork |
| `Telemetry` | the entry points over unit, profiler and timer, one step per call, along a line of forked processes | unit, profiler, timer |
| `Install` | module startup, first request and shutdown, one step per call | hooks, profiler, timers, crash handler, alternate stack |
| `CrashHandler` | install, sink preparation, handler and uninstall of one process, a signal between any two steps | |
| `CrashLog` | abstract: what the recorder promises | |
| `CrashSink` | handlers and drain of many processes, one step per system call | refines `CrashLog` |
| `MC*` | instances for TLC | |
| `OpsProofs`, `BreadcrumbsProofs`, `TimerThreadProofs`, `InstallProofs`, `CrashHandlerProofs`, `CrashSinkProofs` | theorems about the module of that name | |
| `TelemetryProofs` | theorems about `Telemetry` and `Profiler` | both |
| `SamplesProofs` | theorems about `Samples` and `ProfileOutput` | both |

Definitions marked *Mutant* in a module are alternative bodies of the definition
that follows them, each a plausible mistake in that code; replacing the
definition by its mutant makes TLC report the property PROJECT.json pairs with
it. No specification uses them otherwise.

### Ops

`ops` is the C struct, `calls[c]` the token held by the C frame `c` of a wrapper.
Frames end in any order (Fibers). `NoteOpBegin` and `NoteOpEnd` are the two
functions of `cbox_telemetry.c` the wrapper calls, with the operators
`BeginToken`, `BeginState` and `EndState` for `cbox_ops_begin` and
`cbox_ops_end`. `UnitOpen`, `Finish`, `DetectFork` and `RShutdown` stand for
everything that calls `cbox_ops_reset`; a begin in a child that has not noticed
its fork resets twice. `Bailout` drops every frame without its end. The loops of
`cbox_ops_top` and of the trimming in `cbox_ops_end` are one operator, `Top`,
defined by what they find. Ghosts (`mine`, `age`, `orphans`, `measured`) record
which frames belong to the open unit and what an ideal observer would have
booked. `MaxAge < GenModulus` says that no call lives through 2^32 resets, which
is all that the wrap of the generation asks for.

### Breadcrumbs

The writer's program counter `wpc` walks through retract, stamp, label, publish,
advance, account; the reader's `rpc` through the loads of
`cbox_crumbs_snapshot`. When the handler starts it chooses whether it runs on
the writer's thread, which then never moves again, or on another one. A
breadcrumb's contents are the number of the push that wrote them, so a mixture
shows. Stores and loads happen in program order: the model does not reorder the
plain stores of lines 86-97 before the retracting store of line 84, whose
release ordering does not by itself forbid it; on the same thread a handler
cannot see that reordering unless the compiler made it.

### Profiler

Its `Init`, `Next`, `Spec`, `vars` and `TypeOK` carry the module's name, so that one
module of proofs can extend it and `Telemetry`. A C function that a signal can split is a sequence of instruction names in
`todo`; `Signal` may fire before each of them. The handler is one step: it runs on
the PHP thread with its own signal blocked. `cbox_profiler_interrupt` is two
takes and one accounting step (`Account`), because nothing else in it is shared
with the handler. Storing a sample succeeds or drops it, at the model's choice
(`Samples` is the module that shows how).
The two deadline counters are kept as distances to the last check. After
`cbox_timer_disarm` returns no signal of the timer is outstanding: it is queued
for the calling thread and delivered before the system call returns to it.

### Telemetry

`m` is the memory a fork copies plus the kernel timer of the current process,
which it does not. Every entry point is a composition of operators named after
the C functions, each from state to state: `UnitOpen`, `Adopt`, `DetectFork`,
`ProfilerStart`, `ProfilerStop`, `ProfilerReset`, `TimerArm`. `RSHUTDOWN` and
`MSHUTDOWN` have no fork check in the code and have none here. Arming may fail, before the timer is created or after.
Units are numbered by a ghost; a sample is the pair of process and unit it was
taken in. The period is left out: no decision reads it. Initially the extension is enabled and MINIT has succeeded; `auto` and
`profiler` are any configuration.

### Samples and ProfileOutput

`prof` is the storage half of `struct cbox_profiler`. `Collect` starts
`cbox_profiler_collect` on one of the stacks of `Chains`; `WalkFrame` interns one
function, `Mark`, `DescendFrame` and `EngineSample` take one child of the trie
each, and `Record` ends the sample; each of them may find no room and `Drop` the
whole weight, while what was stored so far stays. `Interned` and `Child` are the
two hash tables over one `Probe`; the hash functions are constants, so that an
instance chooses the collisions. A function is its identity after
`cbox_profiler_frame_for` has cut its name, and costs cells of 8 bytes in the
arena, the name before the file: a name whose file does not fit keeps its cells.
`ProfilerReset` clears the buckets only if an entry was made, as the code does.
The ghost `taken` is the profile an unlimited store would have.

`CalledIn` and `PathOf` are the definition of that profile and not code.
`ProfileOutput` computes the arrays of `finish` in the code's ids and then reads
them back the way docs/core-concepts/profiler.md tells a consumer to
(`StackPath`, `Shown`), to compare them with `taken`.

### TimerThread

The PHP thread executes programs as in `Profiler`; the sampler has a program
counter through `cbox_timer_main`. `pthread_cond_wait` releases the lock and
waits in one step and may wake by itself; `pthread_cond_signal` wakes the sampler
only if it waits. `Fork` follows the child: no sampler, and a lock the sampler
held becomes a lock of nobody (`"ghost"`), until `cbox_timer_after_fork`. Begin
and finish look at the pid first, RSHUTDOWN and MSHUTDOWN do not. Ticks are kept
apart by whether the period that ends with them began in the unit being profiled.

### CrashHandler

`disp` is the process's table of dispositions, `frames` the stack of handlers
being executed: ours go through enter (the test of the latch), latch (its set),
open, write, restore, chain or raise, and return; one of another extension
("prior") returns, repairs the fault or lets the process die. `Deliver` is the
kernel: default and unignorable faults kill, a handler is pushed. `Signal` is a
signal that finds the program running, `InHandler` one that finds a handler
running: SA_NODEFER and the empty mask leave every signal, a sent one as well as a
fault of the handler, deliverable at every step, also between the test of the
latch and its set. A faulting instruction of the program is executed again when its
handlers have returned (`Retrap`); one of a handler then kills if nobody handles the
signal any more. Install and uninstall go signal by signal, with a failure and a roll
back at any of them. The file is accepted or refused at each attempt. The ghost
`seen` keeps the signals since the program last ran undisturbed (`got`) and those of
them the handler below saw (`handled`), whether a signal reached ours while a handler
ran (`reentered`), whether a crash was survived, and whether a record was due and
was written.

### Install

A slot is a place with one entry point: a hooked function, the engine's
interrupt function, the timer's signal, the crash signals. Who takes a slot calls
whoever was there, so `Reached` is everyone a call passes. `StartupProgram` and
`ShutdownProgram` list the calls of MINIT and MSHUTDOWN, each with its failures;
the hooks come in the first request. Another extension may be in all the slots
before us and one may come and go after us; it goes before our own shutdown,
which is the order PHP unloads extensions in.

### CrashSink

`path[p]` is what the process has in `cbox_crash_path`: a pid, its own once
`cbox_crash_open_sink` has run, its parent's between a fork and that call.
`HandlerOpens` and `HandlerWrites` are the two system calls of the handler; the
drain is `DrainBegins`, `DrainEntry`, `DrainReads`, `DrainVisits` and then
`DrainUnlinks`, `CompactCopies` and `CompactTruncates`, or `DrainKeeps`. A file is
a sequence of records of kind own, foreign (another version), torn (less than a
header reached the disk) or cut (a header and most of the record did). A cut
record takes the bytes it lacks from the one behind it (`Swallowed`): the
validity test looks at the header alone. Budgets are the `max` of the call and
`ReadMax` the read cap, in records.

`RemovalFails` and `CollectorDies` are the faults of a drain: a system call that
removes what was handed over fails, or the collector is killed at any step, with
the front of the file possibly overwritten by a compaction that was never
truncated (`Overwritten`).

Assumptions: one collector at a time, as docs/cookbook/unit-of-work.md asks; what
a compaction moves fits into its one buffer of 8192 bytes; a pid is not handed
out again while the drain works on the file of that name; the checks on owner,
mode and file type succeed; the process that wrote its record dies.

## 3. Runs

All passing runs are exhaustive for their bounds.

| run | bounds | shows |
|---|---|---|
| `ops` | 3 frames, 2 types, 3 slots, generation modulo 3, 4 begins per unit, clock 0..2 | `SlotOwnership`, `SlotAccounting`, `CurrentIsInnermost`, `AggregatesAreThisUnitsCalls` |
| `breadcrumbs` | ring of 4, snapshot of 3, 9 pushes | `SnapshotComplete`, `SnapshotOrdered`, `SnapshotRecent`, `SnapshotTerminates` |
| `profiler` | deadline check every 2, overruns up to 1, 5 ticks per unit | `TickConservation`, `NothingLeftBehind`, `ValveBound`, `TicksAreNoticed`, `ValveTrips` |
| `samples` | 3 functions and 2 markers for 3 frames, 5 nodes, 6 arena cells, depth 2, weights 1 and 2, samples up to a weight of 5 between resets, a list of 2 functions | `EntriesAreUnique`, `ProfileIsExact`, `TruncationShows`, `TopListAddsUp` |
| `timer_thread` | pending ticks counted to 2 | `LateTickBound`, `NoThreadAfterUnload`, `TickArrives`, `CallsReturn` |
| `telemetry` | 4 units, 2 forks | `ArmedOnlyForUnit`, `SamplesAreOwn`, `HandleFinishesItsUnit`, `ValveIffUnattended`, `SamplesSurviveAdoption` |
| `install` | 3 functions of which one is absent and one does not fit, every configuration | `NobodyIsCutOut`, `StackOutlivesHandlers`, `UndoneWhateverFailed` |
| `crash_handler` | 2 signals over every disposition, 2 signals or faults while handlers run | `EndsAsWithoutUs`, `RecordedIfArmed`, `HandlerEnds` |
| `crash_sink` | 2 pids, 3 processes, 3 records, reads of 2 records, budgets 1 and 2, 1 fault of the collector; own, torn and foreign records | `HandedOnce`, `NoRecordLost`, `ImplementsCrashLog`, `EventuallyHanded` |
| `telemetry_stray`, `crash_sink_fork`, `crash_sink_torn` | the least that shows it | section 4 |

`TypeOK` is checked in `ops`, `breadcrumbs`, `samples` and `crash_handler`, where
it says more than the types: every index stays in its table, and no more than one
of our handlers is past the latch. `Telemetry`, `TimerThread`, `Install` and
`Profiler` (as `ProfilerTypeOK`) define theirs as the base of a proof,
`CrashSinkProofs` its own.

Why the bounds are enough: three frames and three slots let calls nest, end out
of order, leave a hole, and let a fourth begin find the stack full (a frame that
has ended may begin again); modulus 3 wraps within a behaviour. Nine pushes lap a
ring of four twice while the reader stands still. Five ticks reach the check
interval twice and leave room for ticks after the deadline. In `samples` the
functions need six cells for their names and files, the markers two each, so that
frames, arena and nodes each run out first in some behaviour, before or after the
markers are interned, and the hashes collide and wrap around the end of the
buckets (8 and 16, powers of two as in the code). `timer_thread` needs no bound but the one on pending ticks, of which the
property tells one from two. Four units let a handle be kept across an adoption,
an abandoned unit and a finish; two forks give a grandchild. Two signals are
enough for one to be ours while the other is not yet, or for one to be restored while
the other is still ours; two nested signals give one that enters before the latch is
set and one that interrupts the handler that sets it, and a fault in the handler of a
fault. Two pids and three processes give a pid back while the
other process lives, and three records exceed both the read cap and the budgets.

Deadlock is checked for `ops`, `profiler` and `samples`. The others may really
stop: the process is dead, the module shut down, a child waits for a lock of its
parent (section 4), or no crash is left to happen.

Symmetry is used only in `ops`, over frames and operation types.

Fairness. `Breadcrumbs`: the handler keeps executing; the writer need not.
`Profiler`: the PHP thread keeps executing instructions, reaches a safe point
when the flag is raised, and uses the CPU time that drives an armed timer; units
need not end. `TimerThread`: both threads are scheduled and a sleep ends (weak
fairness), and a thread that finds the lock free again and again gets it (strong
fairness); no spurious wake-up, no call and no safe point is assumed.
`CrashHandler`: a handler that was entered is executed, ours or the one below.
`CrashSink`: a collector is run again and again, a drain comes to its end unless
one of its few faults ends it, and every process ends some day (a live process's
file is skipped); crashes and writes need not happen.

What the runs show is in the comment of each property. Three that qualify a
promise of the code: `LateTickBound` allows one tick of an earlier period per
unit, `HandedOnce` allows a second hand-over after a fault of the collector or
beside a record of another version, and `NobodyIsCutOut` holds for the interrupt
and the signals only until our shutdown begins.

## 4. Disagreements with the repository's own words

Each is a run that TLC refutes, with a finding in PROJECT.json.

* `telemetry_stray`: a child that only shuts down uses the timer id that
  `cbox_timer_after_fork` calls meaningless there.
* `crash_sink_fork`: "nothing can be appending to it while we compact" fails for
  a child that crashes before its first call into the extension, once its parent
  has exited. `crash_sink` therefore forks only before the sink is prepared, as an
  FPM master does (`ForksInherit = FALSE`).
* `crash_sink_torn`: "A torn record would be unparseable" fails when the header
  was written and another record follows: the two are decoded as one. `crash_sink`
  has only records torn within the header.

Seen while modelling and not given a run:

* Profiler. `timer_overruns` counts a tick as skipped by the kernel when the
  signal falls between the two takes of `cbox_profiler_interrupt`, although the
  comment says "Ticks the kernel counted but never delivered". A unit that is not
  profiled reports the `period_ns` of an earlier one, although `cbox_unit_open`
  resets "so the last unit cannot bleed into this one".
* Profiles. docs/core-concepts/profiler.md says "`sample_count` is the sum of
  `top_functions` samples, always"; the list is cut at `CBOX_TOP_FUNCTIONS_MAX`
  (`TopListAddsUp` states what holds). It also says that "a truncated profile
  looks truncated"; a marker refused by a full frame table leaves only
  `frame_capacity_hits` to tell (`TruncationShows`). `frames.c` calls the bucket
  count "strictly greater" than twice the capacity; its loop stops at equal, which
  is still enough for probing to end.
* Thread timer. A tick may arrive after the unit that armed it has stopped, in
  spite of the second look at the flag: the comment there explains why that would
  be wrong. A child that reaches RSHUTDOWN or MSHUTDOWN without begin, finish or
  status may wait forever for a lock its parent's sampler held, or join a thread
  it does not have (`CallsReturn` is about a process that knows its pid).
* Crash handler. docs/core-concepts/crashes.md measures a burst of sent signals: one
  re-enters the handler while the first is writing, the process ends by
  `_exit(128 + signal)` "but that record is lost". `EndsAsWithoutUs` and
  `RecordedIfArmed` say exactly how far that goes: `_exit` needs a signal that reached
  our handler while a handler ran, and a record is lost only when that happens between
  the set of the latch and the end of the write (`CutShort`). A signal that arrives
  before the latch is set is written by the handler of that signal instead, and one
  after the write changes only how the process ends. A process that a first signal
  would have killed through its own disposition ends by `_exit` in such a burst, which
  is the cost of the latch.
  The latch stays set after a crash that a handler below survived,
  so the next one ends in `_exit` without a record, although "a crash in any
  request is" covered (crash.c:549); both properties speak of a process up to the
  first crash it survives. `cbox_crash_uninstall` and `cbox_timer_shutdown` put the
  previous action back without asking whether somebody has wrapped ours since, and
  `cbox_profiler_uninstall` forgets its predecessor while it stays in the chain
  under a later wrapper.
* Crash files. The comment before `cbox_crash_drain` still says that nothing is
  ever truncated or compacted. Once a record of another version was stepped over,
  the file is kept as it is, so its other records are handed over by every drain
  ("records handed over are removed", docs/core-concepts/crashes.md), and with a
  small budget they can keep the drain from ever reaching other files. A file of
  which one whole read shows only torn records is never shortened.
  `EventuallyHanded` excludes these two (`OutOfReach`).
* Operations and breadcrumbs. After a bailout inside a unit, `cbox_ops_current`
  may name an operation that is no longer running until the next unit boundary
  (`CurrentIsInnermost` excludes it). A ring of at most `CBOX_CRASH_CRUMBS`
  entries, which the configuration allows (16 or 32), does not keep the order of a
  snapshot, although `breadcrumbs.h` says "oldest first": when the crash comes
  after a push has published its slot and before it has advanced `head`, even on
  the PHP thread itself, that newest entry is still in the place of the oldest. The
  run keeps the snapshot smaller than the ring, as the default does, and
  `RecordsAreOrdered` has `CrashCrumbs < Capacity` as its condition. After 2^32 pushes `seq` becomes 0,
  which means being written, and that breadcrumb is skipped.

## 5. Proofs

Every safety property of the passing runs is proved for every value of the
constants. The bounds of the
models that count steps (`MaxBegins`, `MaxPushes`, `MaxSignalled`, `MaxPending`,
`MaxSamples`, `MaxUnits`, `MaxForks`, `MaxNested`, `MaxSpawns`, `MaxCrashes`) are parameters of
the theorems, so these hold however large they are chosen. Every inductive
invariant was checked by TLC on the bounds of the run before it was proved.

| theorem of | property | condition |
|---|---|---|
| `OpsProofs` `TypeCorrect` | `TypeOK` | |
| `SlotsAreOwned` | `SlotOwnership` | |
| `SlotsAreAccountedFor` | `SlotAccounting` | |
| `AggregatesAreExact` | `AggregatesAreThisUnitsCalls` | |
| `CurrentOperation` | `CurrentIsInnermost` | |
| `BreadcrumbsProofs` `TypeCorrect` | `TypeOK` | |
| `RecordsAreComplete` | `SnapshotComplete` | `MaxPushes < SeqModulus` |
| `RecordsAreRecent` | `SnapshotRecent` | `MaxPushes < SeqModulus` |
| `RecordsAreOrdered` | `SnapshotOrdered` | the same, `CrashCrumbs < Capacity` |
| `TelemetryProofs` `ProfilerTypeCorrect` | `ProfilerTypeOK` | |
| `TicksAreConserved` | `TickConservation` | |
| `StopLeavesNothing` | `NothingLeftBehind` | |
| `ValveIsBounded` | `ValveBound` | |
| `NoTickGoesUnnoticed` | `TicksAreNoticed` | |
| `TypeCorrect` | `TypeOK` | |
| `TimerArmedOnlyForUnit` | `ArmedOnlyForUnit` | |
| `SamplesBelongToUnit` | `SamplesAreOwn` | |
| `StaleHandlesAreRefused` | `HandleFinishesItsUnit` | |
| `ValveFollowsOwnership` | `ValveIffUnattended` | |
| `AdoptionKeepsSamples` | `SamplesSurviveAdoption` (an action property) | |
| `SamplesProofs` `SamplesTypeCorrect` | `TypeOK` | |
| `EntriesUnique` | `EntriesAreUnique` | |
| `ProfileExact` | `ProfileIsExact` | |
| `TruncationIsShown` | `TruncationShows` | |
| `TopListComplete` | `TopListAddsUp` | |
| `TimerThreadProofs` `TypeCorrect` | `TypeOK` | |
| `LateTicksAreBounded` | `LateTickBound` | |
| `NoThreadOutlivesModule` | `NoThreadAfterUnload` | |
| `InstallProofs` `TypeCorrect` | `TypeOK` | |
| `ChainsStayWhole` | `NobodyIsCutOut` | |
| `HandlersHaveTheirStack` | `StackOutlivesHandlers` | |
| `ShutdownUndoesStartup` | `UndoneWhateverFailed` | |
| `CrashHandlerProofs` `TypeCorrect` | `TypeOK` | |
| `ProcessEndsAsWithoutUs` | `EndsAsWithoutUs` | |
| `ArmedCrashIsRecorded` | `RecordedIfArmed` | |
| `CrashSinkProofs` `RecordsAreNotLost` | `NoRecordLost` | `ForksInherit = FALSE`, no `"cut"` outcome |
| `RecordsAreHandedOnce` | `HandedOnce` | the same |
| `FilesImplementLog` | `ImplementsCrashLog` (the refinement) | the same |

Each module's `ASSUME` is used throughout. Besides types and positive sizes they
say: no call lives through a whole cycle of the generation (`Ops`); a process opens
fewer units than there are handles, 2^32 (`Telemetry`); the pending ticks are counted at least to
two (`TimerThread`); the signals of `cbox_crash_signals` are distinct and none has
the name of another way to end (`CrashHandler`); no hooked function is called
`interrupt`, `timer` or `crash`, which name the other slots (`Install`); the
placeholders for no pid, no name and no file differ from pids and files
(`CrashSink`); the two markers are not names of functions, and a table has at least twice as
many buckets as entries, which is what `cbox_bucket_count` computes (`Samples`).

The conditions of the last column are limits of the code and not of the argument.
Below 2^32 pushes `seq` does not repeat; a ring no larger than the snapshot does
lose the order, and a child that inherits a sink, or a record cut behind its
header, does lose records (section 4, with the runs `crash_sink_fork` and
`crash_sink_torn`).

### Ops

`cbox_ops_end` trusts the generation in the token, so `TokenInv` says that a
frame's generation plus the resets it has seen is the current one modulo
`GenModulus` and that the frames of the open unit have seen none;
`SameGenerationIsFresh` then turns the comparison in the code into membership in
the unit, which is the place where the bound on a call's age is needed. `SlotInv`
joins ownership, accounting, the separation of orphaned slots, and the order of
the stack: a begin takes the slot above every occupied one (`TopLemma`), so start
times never decrease along it, which gives `CurrentOperation`. `IInv` is the
conjunction with the type invariant and the aggregates.

### Breadcrumbs

Completeness: sequence numbers count the pushes (`SeqCounts`); the slot in the
writer's hand carries number 0 until it is published (`SlotInHand`); a slot with
another number is whole (`PublishedIsWhole`); and what the reader has copied so far
of a slot whose number is still the one it saw first is what is there
(`CopyIsCurrent`). A slot that was rewritten in between has a larger number or 0,
so the second load rejects it.

Order and recency, for a crash on the PHP thread: going back from `head`, every
slot holds the push before, except that the slot at `head` may be in the writer's
hand (`RingInv`); the handler sees this ring unchanged (`WindowInv`), so each of
its iterations finds the push it should (`PresentInv`) and appends it behind
smaller ones (`SortedInv`).

### Profiler

An assertional proof of the C functions. What is left of a program moves along a
fixed graph of instructions (`Remainder`, `Flow`); for each next instruction
`AtInstruction` says how far the profile has been set up or torn down, and
`HeldTicks` where the interrupt may hold ticks it has taken. Conservation and
notice are inductive beside these. `Lateness` bounds the stack walks after the
deadline by the counter of interrupts since the last look at the clock, which is
why that counter, and not the one of stored samples, has to drive the valve.

### Telemetry

The properties need each other: `begin` may open a unit because no timer is armed
without one, and the timer is armed for the open unit because every path that drops
a unit stops the profiler. `Consistent` says all of it of one memory, which lets
every C function have one lemma, from a consistent memory to a consistent memory;
the entry points are compositions of them. A fork makes `owner_pid` differ from the
pid, and `Owned` then says nothing until `cbox_detect_fork` has run, while `Armed`
still holds because the kernel timer is not inherited. Handles are the numbers of
their units, so a stale one is not that of the open unit.

### Samples and ProfileOutput

`SamplesInv` has four parts. `Tables`: an id is in one bucket, and no bucket from
its hash up to that one is empty (`Hashed`). There are more buckets than ids, so
probing ends (`ProbeStops`), finds what is there (`ProbeFinds`), and an entry put
where a vain search ended keeps it so (`ProbeInserts`); nothing is assumed of the
hash functions. A parent comes before its children, so a node stands for one path
and no two for the same one (`NodePathDistinct`). The buckets that a reset does not
clear belong to a table without entries and are empty (`ClearedBare`).

`WalkInv` follows one sample: the names behind the collected ids are the functions
of the frames visited so far; from then on the path of the node reached and the ids
still held make up the path of the stack (`Descending`), unless the engine frame is
still to come, or the marker was refused and `frameHits` says so. `Conserved`:
recorded, dropped and pending weight is the weight given.

`ProfileOK` is what the output has to show, kept along every step rather than
computed at the end: path by path with and without the marker, and in sum over
paths and over functions. A table that grows shows nothing new (`GrowKeepsProfile`),
and a recorded sample adds its weight to one path and one function
(`RecordKeepsProfile`).

Under these are facts about the operators themselves, for all finite sets: the sum
of the community modules may be taken element by element in any order
(`SumRemove`), a recursion along smaller arguments has a solution
(`RecursionExists`), and a finite set of totals can be sorted (`SortedExists`).
Each is an argument about a smallest counterexample (`LeastNatural`,
`SmallestSet`), which needs only that the naturals are well founded and none of the
induction theorems with an operator as parameter. `TopListAddsUp` then follows from
the order of the list and the sum over a subset.

### TimerThread

But for the lock, every program of the PHP thread executes its instructions in one
order (`Rank`), so the set of instructions still ahead describes its position, and
the invariants are statements about that set. `TickInv` is the argument for the one
late tick: after a stop has dropped the ticks, pending ticks and iterations of the
sampler in flight are at most one, and arming makes that one the late tick of the
next unit. `ThreadInv`: a started thread that is not joined has the join ahead.

### Install

For each slot the callers pass one of five chains: nobody or the other extension
above what was there, or us alone, below it, or above it (`ChainInv`); which one a
shutdown in progress leaves depends on the step it has reached. `StackInv` and
`HoldInv` say what is held at each step, whichever steps of startup failed.

### CrashHandler

Four things are followed: what dispositions and saved dispositions say of the
original ones at each step of the loops over the signals (`DispInv`, `SetupInv`),
and that all of them are ours until a latch is set (`TakenInv`); what each handler
on the stack has done, and that above one that has set the latch ours are still
before the test (`StackInv`, `LatchInv`), from which there is at most one past it;
that every signal that came is settled or is the one some handler on the stack was
called for (`GotInv`); and that a record that is due is written, was cut short, or is
on its way: no handler has come past the write, and the latch is not set yet or the
handler that set it is still there (`RecordInv`, `OnItsWay`). `MaxNested` bounds no
step of the argument: the theorems are about storms of any length.

### CrashSink

A file belongs to one pid, and a process writes only to its own (`OwnFile`, where
`ForksInherit = FALSE` is needed); the drain works on a file only while no process
has that pid, so the file does not change between its read and its removal
(`Undisturbed`, `BufferIsFront`), and what is about to be removed has been handed
over (`RemovalIsSafe`). From these `NoRecordLost` is inductive, with lemmas on the
loop of `cbox_crash_drain_file` (`ReachedBound`, `ConsumedBound`) and on a
compaction over its own file (`OverwrittenHolds`). `OnceInv` adds that a record has
one place and that one handed over is about to go. For the refinement every step is
one of `CrashLog` or leaves its variables alone (`StepsOfLog`).

### Only model-checked

Liveness, which is beyond the prover: `SnapshotTerminates`, `ValveTrips`,
`TickArrives`, `CallsReturn`, `HandlerEnds`, `EventuallyHanded`.

## 6. Not modelled

The contents of records, labels, trace ids and the arrays handed to PHP other
than the profile; the clamping of settings, phpinfo and the texts of status; the
ownership and mode checks of the crash directory, which are predicates on the file
system without state of their own; two collectors at once, which the
documentation forbids; memory reordering in the breadcrumb ring; thread-safe
builds, which the extension does not support; generated code, tests, benchmarks
and build files.

## 7. What is left

Every safety property that a run checks has a theorem. Open is what the models do
not say: two collectors at once, whose drains may hand over one file twice; the
stores of the breadcrumb ring in an order the compiler or the processor may choose;
and the checks of the crash directory.
