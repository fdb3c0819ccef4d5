------------------------------- MODULE Install -------------------------------
(***************************************************************************)
(* What the extension puts into the process and takes out again: module    *)
(* startup, the hooks of the first request and module shutdown             *)
(* (src/cbox_telemetry.c), with hooks.c, profiler_install, timer_posix.c,  *)
(* crash.c and sigstack.c beneath them.                                    *)
(*                                                                         *)
(* Every place that holds one entry point (the handler of an internal      *)
(* function, zend_interrupt_function, a signal's action) is a slot.  Each  *)
(* actor that takes a slot remembers who was there and calls it, so a slot *)
(* is the head of a chain that ends at "base".  Another extension may be   *)
(* there before us ("early", in every slot or in none) and one may come    *)
(* later ("later"), between our own calls, which leaves a slot only while  *)
(* it is the head.                                                         *)
(*                                                                         *)
(* Startup and shutdown are programs, one call per step: a signal may      *)
(* arrive after any of them, and every allocation and system call in them  *)
(* may fail.  Abstractions: the crash signals are one slot (CrashHandler   *)
(* takes them one by one), the settings are an initial choice, and the     *)
(* names and counters that status() shows are left out.                    *)
(***************************************************************************)
EXTENDS Integers, Sequences, FiniteSets

CONSTANTS
    Hooked,    \* functions cbox_hooks_install asks for, in order
    Present,   \* those of them that exist in this build
    HookMax    \* CBOX_HOOK_MAX

ASSUME InstallAssumption ==
    /\ Hooked \in Seq(STRING)
    /\ Present \subseteq {Hooked[i] : i \in 1 .. Len(Hooked)}
    /\ {"interrupt", "timer", "crash"} \cap Present = {}  \* no function has these names
    /\ HookMax \in Nat

VARIABLES
    entry,   \* slot -> actor that is called first
    next,    \* actor -> slot -> actor it calls
    placed,  \* actor -> slots it believes to be in
    have,    \* what the extension holds
    config,  \* enabled features; profiler_enabled is cleared on failure
    todo,    \* steps left of startup or shutdown
    phase    \* "starting", "up", "stopping" or "down"

vars == <<entry, next, placed, have, config, todo, phase>>

Actors == {"early", "us", "later"}
SignalSlots == {"timer", "crash"}
Slots == Present \cup {"interrupt"} \cup SignalSlots

Have == [crumbs : BOOLEAN, storage : BOOLEAN, active : BOOLEAN, hooks_done : BOOLEAN,
         thread : BOOLEAN, stack : {"none", "ours", "theirs"}, onstack : SUBSET SignalSlots]
Config == [enabled : BOOLEAN, profiler : BOOLEAN, hooks : BOOLEAN, crash : BOOLEAN, foreign_stack : BOOLEAN,
           cpu_time : BOOLEAN, allow_fallback : BOOLEAN]

-----------------------------------------------------------------------------
(* Chains *)

(* Actors called by whoever calls a slot, of which there are three. *)
Reached(s) ==
    LET Called(S) == S \cup {next[a][s] : a \in S \cap Actors}
    IN  Called(Called(Called({entry[s]})))

(* An actor takes a slot and remembers its predecessor. *)
Takes(a, s) ==
    /\ next' = [next EXCEPT ![a][s] = entry[s]]
    /\ entry' = [entry EXCEPT ![s] = a]
    /\ placed' = [placed EXCEPT ![a] = @ \cup {s}]

Keeps == UNCHANGED <<entry, next, placed>>

LaterWraps(s) ==
    /\ phase = "up" /\ s \notin placed["later"]
    /\ Takes("later", s)
    /\ UNCHANGED <<have, config, todo, phase>>

(* PHP shuts extensions down in the reverse of their order, so it may      *)
(* leave before we do, not after.                                          *)
LaterLeaves(s) ==
    /\ phase = "up"
    /\ s \in placed["later"] /\ entry[s] = "later"
    /\ entry' = [entry EXCEPT ![s] = next["later"][s]]
    /\ placed' = [placed EXCEPT !["later"] = @ \ {s}]
    /\ UNCHANGED <<next, have, config, todo, phase>>

-----------------------------------------------------------------------------
(* Module startup *)

Does(step) == todo # <<>> /\ Head(todo) = step

(* What is left of MINIT when the profiler is off or cannot be had. *)
WithoutProfiler == IF config.crash THEN <<"crash", "active">> ELSE <<"active">>

(* MINIT does nothing when the extension is off. *)
StartupProgram ==
    IF ~config.enabled THEN <<>>
    ELSE (IF config.profiler THEN <<"crumbs", "storage", "timer", "backend", "interrupt">>
                             ELSE <<"crumbs">>) \o WithoutProfiler

(* cbox_crumbs_init; MINIT gives up without it. *)
InitCrumbs(ok) ==
    /\ phase = "starting" /\ Does("crumbs")
    /\ have' = [have EXCEPT !.crumbs = ok]
    /\ todo' = IF ok THEN Tail(todo) ELSE <<>>
    /\ UNCHANGED <<entry, next, placed, config, phase>>

(* cbox_profiler_init releases what it got before it fails. *)
InitStorage(ok) ==
    /\ phase = "starting" /\ Does("storage")
    /\ have' = [have EXCEPT !.storage = ok]
    /\ config' = [config EXCEPT !.profiler = ok]
    /\ todo' = IF ok THEN Tail(todo) ELSE WithoutProfiler
    /\ Keeps /\ UNCHANGED phase

(* cbox_sigstack_ensure: a stack that is there is shared, none is replaced. *)
EnsuredStack(ok) ==
    IF have.stack # "none" THEN have.stack
    ELSE IF config.foreign_stack THEN "theirs" ELSE IF ok THEN "ours" ELSE "none"

(* A handler is put on its signal, on the alternate stack if there is one; *)
(* sigaction may fail, which leaves the stack.                             *)
TakesSignal(s, stacked, ok) ==
    LET stack == EnsuredStack(stacked)
    IN  /\ have' = [have EXCEPT !.stack = stack,
                                !.onstack = IF ok /\ stack # "none" THEN @ \cup {s} ELSE @]
        /\ IF ok THEN Takes("us", s) ELSE Keeps

(* Mutant: the profiler stays enabled without a timer. *)
StillEnabled(ok) == config

(* profiler_enabled after cbox_timer_init. *)
EnabledIf(ok) == [config EXCEPT !.profiler = ok]

(* cbox_timer_init: a handler for the timer's signal, or in a build        *)
(* without CPU timers the sampler thread.                                  *)
InitTimer(stacked, ok) ==
    /\ phase = "starting" /\ Does("timer")
    /\ \/ config.cpu_time /\ TakesSignal("timer", stacked, ok)
       \/ ~config.cpu_time /\ Keeps /\ have' = [have EXCEPT !.thread = ok]
    /\ config' = EnabledIf(ok)
    /\ todo' = IF ok THEN Tail(todo) ELSE WithoutProfiler
    /\ UNCHANGED phase

(* A backend without a CPU clock is shut down again unless it is allowed. *)
CheckBackend ==
    /\ phase = "starting" /\ Does("backend")
    /\ \/ /\ config.cpu_time \/ config.allow_fallback
          /\ todo' = Tail(todo)
          /\ UNCHANGED <<have, config>>
       \/ /\ ~(config.cpu_time \/ config.allow_fallback)
          /\ have' = [have EXCEPT !.thread = FALSE]
          /\ config' = [config EXCEPT !.profiler = FALSE]
          /\ todo' = WithoutProfiler
    /\ Keeps /\ UNCHANGED phase

(* cbox_profiler_install *)
InstallInterrupt ==
    /\ phase = "starting" /\ Does("interrupt")
    /\ Takes("us", "interrupt")
    /\ todo' = Tail(todo)
    /\ UNCHANGED <<have, config, phase>>

(* cbox_crash_install, which refuses a bad directory before anything else. *)
InstallCrash(stacked, ok) ==
    /\ phase = "starting" /\ Does("crash")
    /\ \/ TakesSignal("crash", stacked, ok)
       \/ ~ok /\ Keeps /\ have' = have
    /\ todo' = Tail(todo)
    /\ UNCHANGED <<config, phase>>

Activate ==
    /\ phase = "starting" /\ Does("active")
    /\ have' = [have EXCEPT !.active = TRUE]
    /\ todo' = Tail(todo)
    /\ UNCHANGED <<entry, next, placed, config, phase>>

Started ==
    /\ phase = "starting" /\ todo = <<>>
    /\ phase' = "up"
    /\ UNCHANGED <<entry, next, placed, have, config, todo>>

-----------------------------------------------------------------------------
(* The first request *)

(* cbox_hook_add for every function asked for: those that are absent and   *)
(* those past the last place are left alone.                               *)
HookedNow ==
    LET there(i) == {j \in 1 .. i : Hooked[j] \in Present}
    IN  {f \in Present : \E i \in 1 .. Len(Hooked) :
            Hooked[i] = f /\ Cardinality(there(i)) <= HookMax}

(* RINIT: cbox_hooks_install, once. *)
RInit ==
    /\ phase = "up"
    /\ have.active /\ config.hooks /\ ~have.hooks_done
    /\ have' = [have EXCEPT !.hooks_done = TRUE]
    /\ next' = [next EXCEPT !["us"] = [s \in Slots |-> IF s \in HookedNow THEN entry[s] ELSE @[s]]]
    /\ entry' = [s \in Slots |-> IF s \in HookedNow THEN "us" ELSE entry[s]]
    /\ placed' = [placed EXCEPT !["us"] = @ \cup HookedNow]
    /\ UNCHANGED <<config, todo, phase>>

-----------------------------------------------------------------------------
(* Module shutdown *)

(* Mutant: the stack goes before the last handler on it. *)
StackFirst == <<"hooks", "crash", "sigstack", "interrupt", "storage", "timer", "crumbs">>

ShutdownProgram == <<"hooks", "crash", "interrupt", "storage", "timer", "sigstack", "crumbs">>

MShutdown ==
    /\ phase = "up"
    /\ phase' = "stopping"
    /\ todo' = ShutdownProgram
    /\ UNCHANGED <<entry, next, placed, have, config>>

Undo(step) == phase = "stopping" /\ Does(step) /\ todo' = Tail(todo)

(* Mutant: the original handler comes back whoever has the function now. *)
RestoredHooks == placed["us"] \cap Present

(* Functions whose handler is still ours. *)
StillOurs == {f \in placed["us"] \cap Present : entry[f] = "us"}

(* cbox_hooks_uninstall: the others stay behind whoever wrapped us and go  *)
(* on calling the original.                                                *)
UninstallHooks ==
    /\ Undo("hooks")
    /\ entry' = [s \in Slots |-> IF s \in StillOurs THEN next["us"][s] ELSE entry[s]]
    /\ placed' = [placed EXCEPT !["us"] = @ \ Present]
    /\ have' = [have EXCEPT !.hooks_done = FALSE]
    /\ UNCHANGED <<next, config, phase>>

(* sigaction with the action that was there, whoever has the slot now. *)
PutsBack(s) ==
    /\ entry' = [entry EXCEPT ![s] = next["us"][s]]
    /\ placed' = [placed EXCEPT !["us"] = @ \ {s}]
    /\ next' = next

(* cbox_crash_uninstall and cbox_timer_shutdown, which also ends the       *)
(* sampler thread of a build that has one.                                 *)
UninstallSignal(s) ==
    /\ Undo(s)
    /\ \/ s \in placed["us"] /\ PutsBack(s)
       \/ s \notin placed["us"] /\ Keeps
    /\ have' = [have EXCEPT !.onstack = @ \ {s}, !.thread = @ /\ s # "timer"]
    /\ UNCHANGED <<config, phase>>

(* cbox_profiler_uninstall forgets its predecessor even when it stays. *)
UninstallInterrupt ==
    /\ Undo("interrupt")
    /\ \/ /\ "interrupt" \in placed["us"]
          /\ entry' = [entry EXCEPT !["interrupt"] = IF @ = "us" THEN next["us"]["interrupt"] ELSE @]
          /\ next' = [next EXCEPT !["us"]["interrupt"] = "base"]
          /\ placed' = [placed EXCEPT !["us"] = @ \ {"interrupt"}]
       \/ "interrupt" \notin placed["us"] /\ Keeps
    /\ UNCHANGED <<have, config, phase>>

(* cbox_profiler_shutdown *)
FreeStorage ==
    /\ Undo("storage")
    /\ have' = [have EXCEPT !.storage = FALSE]
    /\ UNCHANGED <<entry, next, placed, config, phase>>

(* cbox_sigstack_release: a shared stack is left to its owner. *)
ReleaseStack ==
    /\ Undo("sigstack")
    /\ have' = [have EXCEPT !.stack = "none"]
    /\ UNCHANGED <<entry, next, placed, config, phase>>

(* cbox_crumbs_destroy and active = false *)
FreeCrumbs ==
    /\ Undo("crumbs")
    /\ have' = [have EXCEPT !.crumbs = FALSE, !.active = FALSE]
    /\ phase' = "down"
    /\ UNCHANGED <<entry, next, placed, config>>

-----------------------------------------------------------------------------
Init ==
    /\ \E before \in {{}, Slots} :
          /\ entry = [s \in Slots |-> IF s \in before THEN "early" ELSE "base"]
          /\ placed = [a \in Actors |-> IF a = "early" THEN before ELSE {}]
    /\ next = [a \in Actors |-> [s \in Slots |-> "base"]]
    /\ have = [crumbs |-> FALSE, storage |-> FALSE, active |-> FALSE, hooks_done |-> FALSE,
               thread |-> FALSE, stack |-> "none", onstack |-> {}]
    /\ config \in Config
    /\ todo = StartupProgram
    /\ phase = "starting"

Next ==
    \/ \E s \in Slots : LaterWraps(s) \/ LaterLeaves(s)
    \/ \E ok \in BOOLEAN : InitCrumbs(ok) \/ InitStorage(ok)
    \/ \E stacked, ok \in BOOLEAN : InitTimer(stacked, ok) \/ InstallCrash(stacked, ok)
    \/ CheckBackend
    \/ InstallInterrupt
    \/ Activate
    \/ Started
    \/ RInit
    \/ MShutdown
    \/ UninstallHooks
    \/ \E s \in SignalSlots : UninstallSignal(s)
    \/ UninstallInterrupt
    \/ FreeStorage
    \/ ReleaseStack
    \/ FreeCrumbs

Spec == Init /\ [][Next]_vars

-----------------------------------------------------------------------------
(* Properties *)

(* Every variable stays in its type. *)
TypeOK ==
    /\ entry \in [Slots -> Actors \cup {"base"}]
    /\ next \in [Actors -> [Slots -> Actors \cup {"base"}]]
    /\ placed \in [Actors -> SUBSET Slots]
    /\ have \in Have
    /\ config \in Config
    /\ phase \in {"starting", "up", "stopping", "down"}

(* In whatever order the extensions come and go, a call of a hooked        *)
(* function passes everyone who hooked it and ends at the original, before *)
(* and after our shutdown; so does every interrupt and every signal until  *)
(* our shutdown begins ("putting the original back would cut them out").   *)
NobodyIsCutOut ==
    \A s \in Slots : s \in Present \/ phase \in {"starting", "up"} =>
        /\ "base" \in Reached(s)
        /\ \A a \in Actors : s \in placed[a] => a \in Reached(s)

(* The alternate stack is there for every signal handler of ours that can  *)
(* still be called on it, at every step of startup and shutdown: "Only     *)
(* once every handler that could run on it is back to its original."       *)
StackOutlivesHandlers ==
    \A s \in SignalSlots :
        s \in have.onstack /\ "us" \in Reached(s) => have.stack # "none"

(* Whatever part of startup failed: a profiler that counts as enabled has  *)
(* its storage, its timer and its safe point, and after shutdown no slot   *)
(* starts with us, no signal reaches us and nothing is held.               *)
UndoneWhateverFailed ==
    /\ phase = "up" /\ have.active /\ config.profiler =>
          /\ have.storage /\ "interrupt" \in placed["us"]
          /\ have.thread \/ "timer" \in placed["us"]
    /\ phase = "down" =>
          /\ \A s \in Slots : entry[s] # "us"
          /\ \A s \in SignalSlots : "us" \notin Reached(s)
          /\ have.stack = "none" /\ ~have.thread /\ ~have.storage /\ ~have.crumbs
=============================================================================
