------------------------------- MODULE Profiler -------------------------------
(***************************************************************************)
(* The sampling profiler (src/src/profiler.c) on its POSIX timer backend   *)
(* (src/src/timer_posix.c).  The timer's signal is directed at the PHP     *)
(* thread and may land between any two of its instructions; the handler    *)
(* counts and raises the VM's interrupt flag, and the engine calls         *)
(* cbox_profiler_interrupt at its next safe point.                         *)
(*                                                                         *)
(* A C function that a signal can split is a program: a sequence of        *)
(* instruction names held in todo and executed one per step, with todo     *)
(* empty while PHP code runs.  The handler itself is atomic: the PHP       *)
(* thread does not move during it and its own signal is blocked.           *)
(*                                                                         *)
(* Abstractions: storing a sample may succeed or drop it (frame table,     *)
(* trie and arena are not in this module); the deadline is a flag, and the *)
(* clock is whether it has passed; differences to the last deadline check  *)
(* are kept instead of the running totals they are taken from.             *)
(***************************************************************************)
EXTENDS Integers, Sequences

CONSTANTS
    CheckEvery,   \* 512: interrupts or ticks between two deadline checks
    MaxOverrun,   \* bound: si_overrun of one delivery
    MaxSignalled  \* bound: ticks the kernel counts while one unit profiles

ASSUME ProfilerAssumption ==
    /\ CheckEvery \in Nat \ {0}
    /\ MaxOverrun \in Nat
    /\ MaxSignalled \in Nat

VARIABLES
    ticks,        \* cbox_pending_ticks
    deliveries,   \* cbox_pending_deliveries
    vmInterrupt,  \* EG(vm_interrupt)
    armed,        \* the kernel timer runs
    prof,         \* the struct cbox_profiler
    todo,         \* instructions left of the C function being executed
    local,        \* pending and deliveries of cbox_profiler_interrupt
    past,         \* cbox_now_ns() > deadline_ns
    \* Ghosts:
    signalled,    \* ticks the kernel counted since the profile began
    late          \* safe points handled after the deadline had passed

profilerVars == <<ticks, deliveries, vmInterrupt, armed, prof, todo, local, past,
                  signalled, late>>

-----------------------------------------------------------------------------
(* Programs *)

InterruptProgram == <<"get_ticks", "get_deliveries", "account">>

(* cbox_profiler_start of a profile with or without a deadline. *)
StartProgram(limited) ==
    <<"reset", IF limited THEN "limit" ELSE "unlimit", "arm", "run">>

(* Mutant: the counters are taken while the timer still runs. *)
TakeThenDisarm == <<"drop_ticks", "drop_deliveries", "disarm", "halt">>

(* cbox_profiler_stop, past its early return. *)
StopProgram == <<"disarm", "halt", "drop_ticks", "drop_deliveries">>

(* cbox_profiler_stop with its early return. *)
StopIfRunning == IF prof.running THEN StopProgram ELSE <<>>

Instructions == {"get_ticks", "get_deliveries", "account", "reset", "limit", "unlimit",
                 "arm", "run", "disarm", "halt", "drop_ticks", "drop_deliveries",
                 "cap"}

-----------------------------------------------------------------------------
(* The struct *)

Prof == [samples : Nat, dropped : Nat, deferred : Nat, deferred_events : Nat,
         max_deferred : Nat, timer_overruns : Nat,
         since_interrupts : 0 .. CheckEvery - 1, since_ticks : 0 .. CheckEvery - 1,
         capped : BOOLEAN, running : BOOLEAN, deadline : BOOLEAN]

(* cbox_profiler_reset: every field but running and the deadline. *)
Reset(p) ==
    [samples |-> 0, dropped |-> 0, deferred |-> 0, deferred_events |-> 0,
     max_deferred |-> 0, timer_overruns |-> 0,
     since_interrupts |-> 0, since_ticks |-> 0,
     capped |-> FALSE, running |-> p.running, deadline |-> p.deadline]

(* The bookkeeping of cbox_profiler_interrupt for n ticks seen in d        *)
(* deliveries, up to the call of cbox_profiler_collect.                    *)
Accounted(p, n, d) ==
    LET lateness == IF d > 1 THEN d - 1 ELSE 0
    IN  [p EXCEPT !.timer_overruns = IF n > d THEN @ + (n - d) ELSE @,
                  !.deferred = @ + lateness,
                  !.deferred_events = IF d > 1 THEN @ + 1 ELSE @,
                  !.max_deferred = IF lateness > @ THEN lateness ELSE @]

(* Mutant: a sample counts once, however many ticks it stands for. *)
CollectedOnce(p, n, stored) ==
    IF stored THEN [p EXCEPT !.samples = @ + 1] ELSE [p EXCEPT !.dropped = @ + 1]

(* cbox_profiler_collect: the sample is stored, or dropped for want of a   *)
(* frame or a node, always with its full weight.                           *)
Collected(p, n, stored) ==
    IF stored THEN [p EXCEPT !.samples = @ + n] ELSE [p EXCEPT !.dropped = @ + n]

(* Mutant: the deadline check is driven by the samples that were stored.   *)
SinceStored(p, n, stored) ==
    IF stored THEN [interrupts |-> p.since_interrupts + 1, ticks |-> p.since_ticks + n]
              ELSE [interrupts |-> p.since_interrupts, ticks |-> p.since_ticks]

(* interrupts - deadline_checked_at and ticks - deadline_ticks_at, as this *)
(* interrupt leaves them.                                                  *)
Since(p, n, stored) ==
    [interrupts |-> p.since_interrupts + 1, ticks |-> p.since_ticks + n]

(* It is time to look at the clock: whichever comes first. *)
CheckDue(since) == since.interrupts >= CheckEvery \/ since.ticks >= CheckEvery

-----------------------------------------------------------------------------
(* Signal context: cbox_timer_signal and cbox_profiler_tick *)

(* Mutant: the handler counts but does not raise the flag. *)
FlagUntouched == vmInterrupt

(* The store at the end of cbox_profiler_tick. *)
FlagRaised == TRUE

Signal(overrun) ==
    /\ armed
    /\ signalled + overrun + 1 <= MaxSignalled
    /\ ticks' = ticks + 1 + overrun
    /\ deliveries' = deliveries + 1
    /\ vmInterrupt' = FlagRaised
    /\ signalled' = signalled + 1 + overrun
    /\ UNCHANGED <<armed, prof, todo, local, past, late>>

-----------------------------------------------------------------------------
(* The PHP thread: what starts a program *)

(* The engine's safe point: it clears the flag and calls                   *)
(* zend_interrupt_function.                                                *)
SafePoint ==
    /\ todo = <<>>
    /\ vmInterrupt
    /\ vmInterrupt' = FALSE
    /\ todo' = InterruptProgram
    /\ UNCHANGED <<ticks, deliveries, armed, prof, local, past, signalled, late>>

Call(program) ==
    /\ todo = <<>>
    /\ todo' = program
    /\ UNCHANGED <<ticks, deliveries, vmInterrupt, armed, prof, local, past,
                   signalled, late>>

(* A unit that wants a profile opens, over an open one or not: begin() and *)
(* RINIT.  Only an automatic unit is limited.                              *)
BeginUnit(limited) == Call(StopIfRunning \o StartProgram(limited))

(* finish(), RSHUTDOWN, or a begin() whose unit is not profiled. *)
EndUnit == Call(StopIfRunning \o <<"reset">>)

(* cbox_profiler_clear_deadline, when an automatic unit is adopted. *)
OwnerClearsDeadline ==
    /\ todo = <<>>
    /\ prof.deadline
    /\ prof' = [prof EXCEPT !.deadline = FALSE]
    /\ past' = FALSE
    /\ late' = 0
    /\ UNCHANGED <<ticks, deliveries, vmInterrupt, armed, todo, local, signalled>>

(* The clock moves past the deadline, with room for the ticks of the       *)
(* safe points that still follow.                                          *)
DeadlinePasses ==
    /\ prof.deadline /\ prof.running /\ ~past
    /\ signalled + CheckEvery <= MaxSignalled
    /\ past' = TRUE
    /\ UNCHANGED <<ticks, deliveries, vmInterrupt, armed, prof, todo, local,
                   signalled, late>>

-----------------------------------------------------------------------------
(* The PHP thread: instructions *)

Executes(instruction) ==
    /\ todo # <<>>
    /\ Head(todo) = instruction

GetTicks ==
    /\ Executes("get_ticks")
    /\ local' = [local EXCEPT !.ticks = ticks]
    /\ ticks' = 0
    /\ todo' = Tail(todo)
    /\ UNCHANGED <<deliveries, vmInterrupt, armed, prof, past, signalled, late>>

GetDeliveries ==
    /\ Executes("get_deliveries")
    /\ local' = [local EXCEPT !.deliveries = deliveries]
    /\ deliveries' = 0
    /\ todo' = Tail(todo)
    /\ UNCHANGED <<ticks, vmInterrupt, armed, prof, past, signalled, late>>

(* The body of cbox_profiler_interrupt, up to a possible stop.  Without a  *)
(* deadline nothing reads the distance to the last check, and none is      *)
(* kept: only a start sets a deadline, and it clears both counts.          *)
Account(stored) ==
    LET n == local.ticks
        p == Collected(Accounted(prof, n, local.deliveries), n, stored)
        since == Since(prof, n, stored)
        due == prof.deadline /\ CheckDue(since)
    IN  /\ Executes("account")
        /\ n > 0 /\ prof.running
        /\ prof' = IF ~prof.deadline \/ due
                   THEN [p EXCEPT !.since_interrupts = 0, !.since_ticks = 0]
                   ELSE [p EXCEPT !.since_interrupts = since.interrupts,
                                  !.since_ticks = since.ticks]
        /\ todo' = IF due /\ past THEN StopProgram \o <<"cap">> ELSE <<>>
        /\ late' = IF prof.deadline /\ past THEN late + 1 ELSE late
        /\ local' = [ticks |-> 0, deliveries |-> 0]
        /\ UNCHANGED <<ticks, deliveries, vmInterrupt, armed, past, signalled>>

(* The interrupt was not ours: another request of the engine, or a tick    *)
(* that was taken in the meantime.                                         *)
NothingPending ==
    /\ Executes("account")
    /\ ~(local.ticks > 0 /\ prof.running)
    /\ todo' = Tail(todo)
    /\ local' = [ticks |-> 0, deliveries |-> 0]
    /\ UNCHANGED <<ticks, deliveries, vmInterrupt, armed, prof, past, signalled, late>>

(* Instructions on the struct alone. *)
SetProf(instruction, p) ==
    /\ Executes(instruction)
    /\ prof' = p
    /\ todo' = Tail(todo)
    /\ UNCHANGED <<ticks, deliveries, vmInterrupt, armed, local, signalled>>

DoReset ==
    /\ Executes("reset")
    /\ prof' = Reset(prof)
    /\ todo' = Tail(todo)
    /\ past' = FALSE
    /\ signalled' = 0
    /\ late' = 0
    /\ UNCHANGED <<ticks, deliveries, vmInterrupt, armed, local>>

DoLimit == /\ \/ SetProf("limit", [prof EXCEPT !.deadline = TRUE])
              \/ SetProf("unlimit", [prof EXCEPT !.deadline = FALSE])
           /\ UNCHANGED <<past, late>>
DoRun == SetProf("run", [prof EXCEPT !.running = TRUE]) /\ UNCHANGED <<past, late>>
DoHalt == SetProf("halt", [prof EXCEPT !.running = FALSE]) /\ UNCHANGED <<past, late>>
DoCap == SetProf("cap", [prof EXCEPT !.capped = TRUE]) /\ UNCHANGED <<past, late>>

(* cbox_timer_arm; when it fails the profile does not run. *)
DoArm ==
    /\ Executes("arm")
    /\ \/ armed' = TRUE /\ todo' = Tail(todo)
       \/ armed' = armed /\ todo' = <<>>
    /\ UNCHANGED <<ticks, deliveries, vmInterrupt, prof, local, past, signalled, late>>

(* cbox_timer_disarm: a signal the timer had queued for this thread lands  *)
(* before the system call returns.                                         *)
DoDisarm ==
    /\ Executes("disarm")
    /\ armed' = FALSE
    /\ todo' = Tail(todo)
    /\ UNCHANGED <<ticks, deliveries, vmInterrupt, prof, local, past, signalled, late>>

DropTicks ==
    /\ Executes("drop_ticks")
    /\ ticks' = 0
    /\ todo' = Tail(todo)
    /\ UNCHANGED <<deliveries, vmInterrupt, armed, prof, local, past, signalled, late>>

DropDeliveries ==
    /\ Executes("drop_deliveries")
    /\ deliveries' = 0
    /\ todo' = Tail(todo)
    /\ UNCHANGED <<ticks, vmInterrupt, armed, prof, local, past, signalled, late>>

-----------------------------------------------------------------------------
ProfilerInit ==
    /\ ticks = 0
    /\ deliveries = 0
    /\ vmInterrupt = FALSE
    /\ armed = FALSE
    /\ prof = Reset([running |-> FALSE, deadline |-> FALSE])
    /\ todo = <<>>
    /\ local = [ticks |-> 0, deliveries |-> 0]
    /\ past = FALSE
    /\ signalled = 0
    /\ late = 0

AnySignal == \E overrun \in 0 .. MaxOverrun : Signal(overrun)

Instruction ==
    \/ GetTicks
    \/ GetDeliveries
    \/ \E stored \in BOOLEAN : Account(stored)
    \/ NothingPending
    \/ DoReset
    \/ DoLimit
    \/ DoArm
    \/ DoRun
    \/ DoDisarm
    \/ DoHalt
    \/ DropTicks
    \/ DropDeliveries
    \/ DoCap

ProfilerNext ==
    \/ AnySignal
    \/ SafePoint
    \/ \E limited \in BOOLEAN : BeginUnit(limited)
    \/ EndUnit
    \/ OwnerClearsDeadline
    \/ DeadlinePasses
    \/ Instruction

ProfilerSpec == ProfilerInit /\ [][ProfilerNext]_profilerVars

(* The PHP thread keeps executing and so keeps using the CPU time that     *)
(* drives an armed timer, and PHP code whose interrupt flag is raised      *)
(* reaches a safe point: a loop or a call.                                 *)
ProfilerFairSpec ==
    /\ ProfilerSpec
    /\ WF_profilerVars(Instruction)
    /\ WF_profilerVars(SafePoint)
    /\ WF_profilerVars(AnySignal)

-----------------------------------------------------------------------------
(* Properties *)

(* Every variable stays in its type; in particular the deadline check is   *)
(* never further away than its interval.                                   *)
ProfilerTypeOK ==
    /\ ticks \in Nat
    /\ deliveries \in Nat
    /\ vmInterrupt \in BOOLEAN
    /\ armed \in BOOLEAN
    /\ prof \in Prof
    /\ todo \in Seq(Instructions)
    /\ local \in [ticks : Nat, deliveries : Nat]
    /\ past \in BOOLEAN
    /\ signalled \in Nat
    /\ late \in Nat

(* While a profile runs, every tick the kernel counted for it is pending,  *)
(* in the hands of the interrupt, sampled or dropped: none is lost between *)
(* the handler and the safe point and none comes from an earlier profile.  *)
TickConservation ==
    prof.running => signalled = ticks + local.ticks + prof.samples + prof.dropped

(* Between two calls into the profiler the kernel timer runs exactly while *)
(* the profile does, and a profile that has stopped leaves nothing for the *)
(* next unit: "Anything the timer queued but the VM never got to is not a  *)
(* sample".                                                                *)
NothingLeftBehind ==
    todo = <<>> =>
        /\ armed = prof.running
        /\ ~prof.running => ticks = 0 /\ deliveries = 0

(* The safety valve: once the deadline has passed at most CheckEvery more  *)
(* stack walks are taken, even if none of them can be stored.              *)
ValveBound == late <= CheckEvery

(* A pending tick always has a safe point coming to it: the flag is raised *)
(* or the interrupt that will take it has just been entered.               *)
TicksAreNoticed ==
    ticks > 0 => \/ vmInterrupt
                 \/ todo # <<>> /\ Head(todo) = "get_ticks"

(* A limited profile that outlives its deadline is stopped, unless its     *)
(* unit ends or gets an owner first.                                       *)
ValveTrips == past ~> ~past \/ prof.capped
=============================================================================
