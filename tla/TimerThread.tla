----------------------------- MODULE TimerThread -----------------------------
(***************************************************************************)
(* The fallback timer (src/src/timer_thread.c): a sampler thread that      *)
(* sleeps for the period and ticks, under the profiler's start and stop,   *)
(* the engine's safe points, fork and module shutdown.                     *)
(*                                                                         *)
(* The PHP thread executes C functions as programs, one instruction per    *)
(* step, with todo empty while PHP code runs; the sampler thread has a     *)
(* program counter.  They share the lock, its condition variable and the   *)
(* flags under it.  After a fork the model follows the child, in which     *)
(* there is no sampler thread and a lock it held stays held.               *)
(*                                                                         *)
(* Abstractions: the period is not read by any property; pending ticks are *)
(* counted up to MaxPending, apart for iterations of the sampler that      *)
(* began in the unit being profiled (own) and earlier (late); the flag     *)
(* that requests a safe point is in Profiler, here one may come any time.  *)
(***************************************************************************)
EXTENDS Integers, Sequences

CONSTANT MaxPending  \* bound: pending ticks are counted up to this number

ASSUME TimerThreadAssumption == MaxPending \in Nat /\ MaxPending >= 2

VARIABLES
    lock,     \* holder of cbox_timer_lock, "ghost" if it does not exist here
    timer,    \* the flags of the backend
    sampler,  \* where cbox_timer_main is
    todo,     \* instructions left of the PHP thread
    prof,     \* running and the pending ticks of the profiler
    aware,    \* this process knows its pid
    up,       \* the module is loaded
    ghost     \* about the sampler's iteration, see Ghost

vars == <<lock, timer, sampler, todo, prof, aware, up, ghost>>

Timer == [installed : BOOLEAN, started : BOOLEAN, stopping : BOOLEAN, armed : BOOLEAN]
SamplerSteps == {"none", "lock", "check", "block", "waiting", "sleep", "recheck", "tick", "done"}
Prof == [running : BOOLEAN, own : 0 .. MaxPending, late : 0 .. MaxPending]

(* current: the iteration began in the unit being profiled; ticked: the    *)
(* unit got a tick; booked: late ticks booked by the unit.                 *)
Ghost == [current : BOOLEAN, ticked : BOOLEAN, booked : 0 .. MaxPending]

Upto(n) == IF n < MaxPending THEN n ELSE MaxPending

-----------------------------------------------------------------------------
(* Programs of the PHP thread *)

(* Mutant: the flag is set and the sampler signalled without the lock. *)
ArmUnlocked == <<"installed", "arm", "run">>

(* cbox_profiler_start, from cbox_timer_arm on. *)
StartProgram == <<"installed", "lock", "arm", "unlock", "run">>

(* Mutant: what is pending when the unit stops is left for the next one. *)
StopKeeping == <<"lock", "disarm", "unlock", "halt">>

(* cbox_profiler_stop, past its early return. *)
StopProgram == <<"lock", "disarm", "unlock", "halt", "drop">>

StopIf(running) == IF running THEN StopProgram ELSE <<>>

(* Mutant: the thread is told to stop and not waited for. *)
ShutdownDetached == <<"lock", "stop", "unlock", "clear">>

(* cbox_timer_shutdown, past its early return. *)
ShutdownProgram == <<"lock", "stop", "unlock", "join", "clear">>

Instructions == {"detect", "installed", "lock", "arm", "unlock", "run", "disarm", "halt",
                 "drop", "stop", "join", "clear"}

-----------------------------------------------------------------------------
(* The sampler thread: cbox_timer_main *)

SamplerAt(step) == sampler = step

SamplerLock ==
    /\ SamplerAt("lock") /\ lock = "free"
    /\ lock' = "sampler"
    /\ sampler' = "check"
    /\ UNCHANGED <<timer, todo, prof, aware, up, ghost>>

(* The condition of the inner loop, under the lock. *)
SamplerCheck ==
    /\ SamplerAt("check")
    /\ \/ /\ timer.stopping
          /\ lock' = "free" /\ sampler' = "done" /\ ghost' = ghost
       \/ /\ timer.armed /\ ~timer.stopping
          /\ lock' = "free" /\ sampler' = "sleep"
          /\ ghost' = [ghost EXCEPT !.current = TRUE]
       \/ /\ ~timer.armed /\ ~timer.stopping
          /\ sampler' = "block" /\ UNCHANGED <<lock, ghost>>
    /\ UNCHANGED <<timer, todo, prof, aware, up>>

(* pthread_cond_wait releases the lock and waits in one step. *)
SamplerBlock ==
    /\ SamplerAt("block")
    /\ lock' = "free"
    /\ sampler' = "waiting"
    /\ UNCHANGED <<timer, todo, prof, aware, up, ghost>>

(* It may also return without a signal. *)
SpuriousWakeup ==
    /\ SamplerAt("waiting")
    /\ sampler' = "lock"
    /\ UNCHANGED <<lock, timer, todo, prof, aware, up, ghost>>

SleepEnds ==
    /\ SamplerAt("sleep")
    /\ sampler' = "recheck"
    /\ UNCHANGED <<lock, timer, todo, prof, aware, up, ghost>>

(* The unit may have finished during the sleep. *)
Recheck ==
    /\ SamplerAt("recheck")
    /\ sampler' = IF timer.armed THEN "tick" ELSE "lock"
    /\ UNCHANGED <<lock, timer, todo, prof, aware, up, ghost>>

(* cbox_profiler_tick(1) *)
Tick ==
    /\ SamplerAt("tick")
    /\ sampler' = "lock"
    /\ prof' = IF ghost.current THEN [prof EXCEPT !.own = Upto(@ + 1)]
                                ELSE [prof EXCEPT !.late = Upto(@ + 1)]
    /\ ghost' = [ghost EXCEPT !.ticked = TRUE]
    /\ UNCHANGED <<lock, timer, todo, aware, up>>

-----------------------------------------------------------------------------
(* The PHP thread: what starts a program *)

Call(program) ==
    /\ up /\ todo = <<>>
    /\ todo' = program
    /\ UNCHANGED <<lock, timer, sampler, prof, aware, up, ghost>>

(* A begin() that profiles, and finish(), look at the pid first; RSHUTDOWN *)
(* does not.                                                               *)
Begin == Call(<<"detect">> \o StopIf(prof.running /\ aware) \o StartProgram)
Finish == Call(<<"detect">> \o StopIf(prof.running /\ aware))
RShutdown == prof.running /\ Call(StopIf(prof.running))

(* MSHUTDOWN: cbox_profiler_shutdown, then cbox_timer_shutdown. *)
MShutdown ==
    /\ up /\ todo = <<>>
    /\ up' = FALSE
    /\ todo' = StopIf(prof.running) \o (IF timer.installed THEN ShutdownProgram ELSE <<>>)
    /\ UNCHANGED <<lock, timer, sampler, prof, aware, ghost>>

(* The profiler's interrupt takes what is pending, and stops the profile   *)
(* if it finds the deadline passed.                                        *)
SafePoint(capped) ==
    /\ up /\ todo = <<>>
    /\ prof.own + prof.late > 0
    /\ prof' = [prof EXCEPT !.own = 0, !.late = 0]
    /\ ghost' = IF prof.running THEN [ghost EXCEPT !.booked = Upto(@ + prof.late)] ELSE ghost
    /\ todo' = StopIf(capped /\ prof.running)
    /\ UNCHANGED <<lock, timer, sampler, aware, up>>

(* pcntl_fork, the child: only the calling thread comes across. *)
Fork ==
    /\ up /\ todo = <<>> /\ aware
    /\ aware' = FALSE
    /\ sampler' = "none"
    /\ lock' = IF lock = "sampler" THEN "ghost" ELSE lock
    /\ UNCHANGED <<timer, todo, prof, up, ghost>>

-----------------------------------------------------------------------------
(* The PHP thread: instructions *)

Executes(instruction) ==
    /\ todo # <<>>
    /\ Head(todo) = instruction

Known ==
    /\ Executes("detect") /\ aware
    /\ todo' = Tail(todo)
    /\ UNCHANGED <<lock, timer, sampler, prof, aware, up, ghost>>

(* Mutant: the inherited lock is kept. *)
LockKept == lock

(* pthread_mutex_init in the child. *)
LockRenewed == "free"

(* cbox_detect_fork in a child: cbox_profiler_after_fork and               *)
(* cbox_timer_after_fork, which creates a thread if the parent had one.    *)
AfterFork(created) ==
    /\ Executes("detect") /\ ~aware
    /\ created => timer.installed
    /\ aware' = TRUE
    /\ prof' = [running |-> FALSE, own |-> 0, late |-> 0]
    /\ lock' = LockRenewed
    /\ timer' = [installed |-> created, started |-> created, stopping |-> FALSE, armed |-> FALSE]
    /\ sampler' = IF created THEN "lock" ELSE "none"
    /\ ghost' = [ghost EXCEPT !.current = FALSE, !.ticked = FALSE, !.booked = 0]
    /\ todo' = Tail(todo)
    /\ UNCHANGED up

(* cbox_timer_arm refuses when there is no timer. *)
CheckInstalled ==
    /\ Executes("installed")
    /\ todo' = IF timer.installed THEN Tail(todo) ELSE <<>>
    /\ UNCHANGED <<lock, timer, sampler, prof, aware, up, ghost>>

PhpLock ==
    /\ Executes("lock") /\ lock = "free"
    /\ lock' = "php"
    /\ todo' = Tail(todo)
    /\ UNCHANGED <<timer, sampler, prof, aware, up, ghost>>

PhpUnlock ==
    /\ Executes("unlock")
    /\ lock' = "free"
    /\ todo' = Tail(todo)
    /\ UNCHANGED <<timer, sampler, prof, aware, up, ghost>>

(* pthread_cond_signal: lost when nobody waits. *)
Signalled == IF sampler = "waiting" THEN "lock" ELSE sampler

(* The unit begins here: an iteration under way is not of this unit. *)
Arm ==
    /\ Executes("arm")
    /\ timer' = [timer EXCEPT !.armed = TRUE]
    /\ sampler' = Signalled
    /\ ghost' = [ghost EXCEPT !.current = FALSE, !.ticked = FALSE, !.booked = 0]
    /\ prof' = [prof EXCEPT !.own = 0, !.late = Upto(prof.late + prof.own)]
    /\ todo' = Tail(todo)
    /\ UNCHANGED <<lock, aware, up>>

Disarm ==
    /\ Executes("disarm")
    /\ timer' = [timer EXCEPT !.armed = FALSE]
    /\ todo' = Tail(todo)
    /\ UNCHANGED <<lock, sampler, prof, aware, up, ghost>>

StopThread ==
    /\ Executes("stop")
    /\ timer' = [timer EXCEPT !.stopping = TRUE, !.armed = FALSE]
    /\ sampler' = Signalled
    /\ todo' = Tail(todo)
    /\ UNCHANGED <<lock, prof, aware, up, ghost>>

(* pthread_join returns when the thread has returned. *)
Join ==
    /\ Executes("join")
    /\ timer.started => sampler = "done"
    /\ timer' = [timer EXCEPT !.started = FALSE]
    /\ todo' = Tail(todo)
    /\ UNCHANGED <<lock, sampler, prof, aware, up, ghost>>

Clear ==
    /\ Executes("clear")
    /\ timer' = [timer EXCEPT !.installed = FALSE, !.stopping = FALSE]
    /\ todo' = Tail(todo)
    /\ UNCHANGED <<lock, sampler, prof, aware, up, ghost>>

(* The rest of start and stop, on the profiler's own state. *)
OnProf ==
    /\ \/ Executes("run") /\ prof' = [prof EXCEPT !.running = TRUE]
       \/ Executes("halt") /\ prof' = [prof EXCEPT !.running = FALSE]
       \/ Executes("drop") /\ prof' = [prof EXCEPT !.own = 0, !.late = 0]
    /\ todo' = Tail(todo)
    /\ UNCHANGED <<lock, timer, sampler, aware, up, ghost>>

-----------------------------------------------------------------------------
(* MINIT created the thread, or could not. *)
Init ==
    \E created \in BOOLEAN :
        /\ lock = "free"
        /\ timer = [installed |-> created, started |-> created, stopping |-> FALSE,
                    armed |-> FALSE]
        /\ sampler = IF created THEN "lock" ELSE "none"
        /\ todo = <<>>
        /\ prof = [running |-> FALSE, own |-> 0, late |-> 0]
        /\ aware = TRUE
        /\ up = TRUE
        /\ ghost = [current |-> FALSE, ticked |-> FALSE, booked |-> 0]

SamplerRuns == SamplerCheck \/ SamplerBlock \/ SleepEnds \/ Recheck \/ Tick

PhpRuns ==
    \/ Known
    \/ \E created \in BOOLEAN : AfterFork(created)
    \/ CheckInstalled
    \/ PhpUnlock
    \/ Arm
    \/ Disarm
    \/ StopThread
    \/ Join
    \/ Clear
    \/ OnProf

Next ==
    \/ SamplerLock
    \/ SamplerRuns
    \/ SpuriousWakeup
    \/ Begin
    \/ Finish
    \/ RShutdown
    \/ MShutdown
    \/ \E capped \in BOOLEAN : SafePoint(capped)
    \/ Fork
    \/ PhpLock
    \/ PhpRuns

Spec == Init /\ [][Next]_vars

(* Both threads are scheduled, a sleep ends, and a thread that wants the   *)
(* lock and again and again finds it free gets it.  No spurious wake-up is *)
(* relied on.                                                              *)
FairSpec ==
    /\ Spec
    /\ WF_vars(SamplerRuns) /\ SF_vars(SamplerLock)
    /\ WF_vars(PhpRuns) /\ SF_vars(PhpLock)

-----------------------------------------------------------------------------
(* Properties *)

(* Every variable stays in its type. *)
TypeOK ==
    /\ lock \in {"free", "php", "sampler", "ghost"}
    /\ timer \in Timer
    /\ sampler \in SamplerSteps
    /\ todo \in Seq(Instructions)
    /\ prof \in Prof
    /\ aware \in BOOLEAN
    /\ up \in BOOLEAN
    /\ ghost \in Ghost

(* However the threads interleave, a unit books at most one tick of a      *)
(* period that began before the unit did.                                  *)
LateTickBound == ghost.booked <= 1

(* Code of a module that was unloaded is not executed by a thread it left  *)
(* behind.                                                                 *)
NoThreadAfterUnload == ~up /\ todo = <<>> => sampler \in {"none", "done"}

(* An armed timer ticks, unless it is disarmed first: no wake-up is lost   *)
(* between the sampler's check and its wait, nor by a fork.                *)
TickArrives ==
    timer.armed /\ aware /\ ~ghost.ticked
        ~> ghost.ticked \/ ~timer.armed \/ ~aware

(* In a process that knows its pid every call into the timer returns: it   *)
(* never waits for a lock or a thread that exists only in the parent.      *)
CallsReturn == todo # <<>> /\ aware ~> todo = <<>>
=============================================================================
