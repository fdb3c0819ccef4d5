------------------------------- MODULE Telemetry -------------------------------
(***************************************************************************)
(* The unit lifecycle (cbox_telemetry.c, unit.c) over the profiler and its *)
(* POSIX timer, along one line of processes: the process that runs MINIT,  *)
(* then whichever child we follow at each fork.  A child has a copy of the *)
(* memory and none of the kernel timers of its parent, and learns that it  *)
(* is a child only when an entry point calls cbox_detect_fork.             *)
(*                                                                         *)
(* Every PHP function and module hook runs to its end on the one PHP       *)
(* thread and is one action, written as a composition of the C functions   *)
(* it calls, each an operator from process state to process state.  The    *)
(* interleaving with the timer's signal is module Profiler's subject; here *)
(* a sample is taken, or the deadline trips, between two calls.            *)
(*                                                                         *)
(* The extension is enabled and MINIT succeeded; units are numbered by the *)
(* ghost serial, and a sample is the pair of unit and process it is from.  *)
(***************************************************************************)
EXTENDS Integers

CONSTANTS
    HandleModulus,  \* 2^32: handles are uint32_t and wrap
    MaxUnits,       \* bound: units opened
    MaxForks        \* bound: forks followed

ASSUME TelemetryAssumption ==
    /\ HandleModulus \in Nat
    /\ MaxUnits \in Nat
    /\ MaxForks \in Nat
    /\ MaxUnits + 1 < HandleModulus

VARIABLES
    m,         \* process memory and kernel timer, see Memory
    phase,     \* "between" requests, in a "request", or "down" after MSHUTDOWN
    pid,       \* getpid()
    auto,      \* cbox_telemetry.auto
    profiler,  \* CBOX_G(profiler_enabled)
    held,      \* handles PHP code got from begin(), with the unit's serial
    \* Ghosts:
    serial,    \* units opened so far
    report,    \* what the last finish() that returned anything said
    strayCall  \* a timer system call was made with another process's handle

vars == <<m, phase, pid, auto, profiler, held, serial, report, strayCall>>

-----------------------------------------------------------------------------
Pids == 0 .. MaxForks
Serials == 0 .. MaxUnits
Handles == 0 .. HandleModulus - 1
Sample == [pid : Pids, unit : Serials]

Unit == [handle : Handles, sampled : BOOLEAN, profiling : BOOLEAN,
         automatic : BOOLEAN, adopted : BOOLEAN]
NoUnit == [handle |-> 0, sampled |-> FALSE, profiling |-> FALSE,
           automatic |-> FALSE, adopted |-> FALSE]

(* unit and next_handle and owner_pid from the module globals; running,    *)
(* limited (deadline_ns # 0), capped and samples from struct               *)
(* cbox_profiler; created from timer_posix.c; timer is the kernel's:       *)
(* absent, created but idle, or armed.                                     *)
Memory == [unit : Unit, next_handle : Handles, owner_pid : Pids,
           running : BOOLEAN, limited : BOOLEAN,
           capped : BOOLEAN, samples : SUBSET Sample,
           created : BOOLEAN, timer : {"absent", "idle", "armed"}]

NoReport == [by |-> -1, unit |-> 0, asked |-> 0, samples |-> {}]

-----------------------------------------------------------------------------
(* timer_posix.c *)

(* cbox_timer_disarm: a system call only if a timer was created. *)
TimerDisarm(s) == IF s.created /\ s.timer = "armed" THEN [s EXCEPT !.timer = "idle"] ELSE s

(* What the kernel answers: no timer, a timer that it does not set, or one *)
(* that is armed.                                                          *)
Replies == {"refused", "unset", "armed"}

(* cbox_timer_arm, which creates the timer once and keeps it when setting  *)
(* it fails.                                                               *)
TimerArm(s, reply) ==
    CASE reply = "refused" -> s
      [] reply = "unset" -> [s EXCEPT !.created = TRUE, !.timer = IF s.created THEN @ ELSE "idle"]
      [] reply = "armed" -> [s EXCEPT !.created = TRUE, !.timer = "armed"]

(* The system calls of s's functions would name a timer of another process. *)
Stray(s) == s.created /\ s.timer = "absent"

-----------------------------------------------------------------------------
(* profiler.c *)

(* cbox_profiler_reset: the profile, but not the deadline. *)
ProfilerReset(s) == [s EXCEPT !.samples = {}, !.capped = FALSE]

(* cbox_profiler_stop *)
ProfilerStop(s) == IF s.running THEN [TimerDisarm(s) EXCEPT !.running = FALSE] ELSE s

(* cbox_profiler_start *)
ProfilerStart(s, limit, reply) ==
    LET r == [ProfilerReset(s) EXCEPT !.limited = limit]
        armed == TimerArm(r, reply)
    IN  IF reply = "armed" THEN [armed EXCEPT !.running = TRUE] ELSE armed

-----------------------------------------------------------------------------
(* cbox_telemetry.c: helpers *)

(* Mutant: only the unit is dropped, the profile stays. *)
ForkKeepsProfile(s) == [s EXCEPT !.running = FALSE, !.created = FALSE]

(* cbox_profiler_after_fork and cbox_timer_after_fork. *)
AfterFork(s) == [ProfilerReset(s) EXCEPT !.running = FALSE, !.created = FALSE]

(* cbox_detect_fork *)
DetectFork(s) ==
    IF s.owner_pid = pid THEN s
    ELSE [AfterFork(s) EXCEPT !.owner_pid = pid, !.unit = NoUnit]

(* Mutant: every unit gets the same handle. *)
SameHandle(h) == 1

(* ++next_handle, never 0. *)
NextHandle(h) == IF h + 1 = HandleModulus THEN 1 ELSE h + 1

(* Only an automatic unit gets a deadline. *)
Limited(automatic) == automatic

(* cbox_unit_open *)
UnitOpen(s, sampled, want, automatic, reply) ==
    LET h == NextHandle(s.next_handle)
        r == [s EXCEPT !.next_handle = h,
                       !.unit = [NoUnit EXCEPT !.handle = h, !.sampled = sampled,
                                               !.automatic = automatic]]
    IN  IF want /\ sampled /\ profiler
        THEN [ProfilerStart(r, Limited(automatic), reply) EXCEPT !.unit.profiling = (reply = "armed")]
        ELSE ProfilerReset(r)

(* Mutant: adoption restarts a profile that is already running. *)
AdoptRestarts(u) == TRUE

(* The unit adopted has no profile yet. *)
NeedsProfile(u) == ~u.profiling

(* Mutant: the automatic deadline survives adoption. *)
KeepDeadline(s) == s

(* cbox_profiler_clear_deadline *)
ClearDeadline(s) == [s EXCEPT !.limited = FALSE]

(* The adoption branch of cbox_telemetry_begin. *)
Adopt(s, sampled, want, reply) ==
    LET a == [s EXCEPT !.unit.adopted = TRUE, !.unit.sampled = sampled]
        r == CASE ~sampled \/ ~want ->
                    [ProfilerReset(ProfilerStop(a)) EXCEPT !.unit.profiling = FALSE]
               [] sampled /\ want /\ NeedsProfile(s.unit) /\ profiler ->
                    LET p == ProfilerStart(a, FALSE, reply)
                    IN  [p EXCEPT !.unit.profiling = reply = "armed" \/ @]
               [] OTHER -> a
    IN  ClearDeadline(r)

(* An automatic unit that nobody has claimed. *)
Adoptable(u) == u.handle # 0 /\ u.automatic /\ ~u.adopted

-----------------------------------------------------------------------------
(* Entry points *)

(* cbox_telemetry_begin; PHP code keeps the handle. *)
Begin(sampled, want, reply) ==
    LET s == DetectFork(m)
        stopped == IF s.unit.handle # 0 THEN ProfilerStop(s) ELSE s
    IN  /\ phase = "request"
        /\ IF Adoptable(s.unit)
           THEN /\ m' = Adopt(s, sampled, want, reply)
                /\ serial' = serial
           ELSE /\ serial < MaxUnits
                /\ m' = UnitOpen(stopped, sampled, want, FALSE, reply)
                /\ serial' = serial + 1
        /\ held' = held \cup {[handle |-> m'.unit.handle, unit |-> serial']}
        /\ UNCHANGED <<phase, pid, auto, profiler, report, strayCall>>

(* cbox_telemetry_finish with a handle some begin() returned, or 0 for     *)
(* whichever unit is open.                                                 *)
Finish(h) ==
    LET s == DetectFork(m)
        known == s.unit.handle # 0 /\ (h.handle = 0 \/ h.handle = s.unit.handle)
    IN  /\ phase = "request"
        /\ m' = IF known
                THEN [ProfilerReset(ProfilerStop(s)) EXCEPT !.unit = NoUnit]
                ELSE s
        /\ report' = IF known
                     THEN [by |-> pid, unit |-> serial, asked |-> h.unit,
                           samples |-> s.samples]
                     ELSE report
        /\ UNCHANGED <<phase, pid, auto, profiler, held, serial, strayCall>>

(* cbox_telemetry_status: all it changes is the fork check. *)
Status ==
    /\ phase = "request"
    /\ m.owner_pid # pid
    /\ m' = DetectFork(m)
    /\ UNCHANGED <<phase, pid, auto, profiler, held, serial, report, strayCall>>

(* PHP_RINIT *)
RInit(reply) ==
    LET s == DetectFork(m)
        opens == auto /\ s.unit.handle = 0
    IN  /\ phase = "between"
        /\ phase' = "request"
        /\ opens => serial < MaxUnits
        /\ m' = IF opens THEN UnitOpen(s, TRUE, TRUE, TRUE, reply) ELSE s
        /\ serial' = IF opens THEN serial + 1 ELSE serial
        /\ UNCHANGED <<pid, auto, profiler, held, report, strayCall>>

(* Mutant: RSHUTDOWN ends the unit only. *)
ShutdownUnitOnly(s) == [s EXCEPT !.unit = NoUnit]

(* The state RSHUTDOWN leaves of an open unit, also after a fatal error or *)
(* an exit() inside it.                                                    *)
ShutdownUnit(s) == [ProfilerReset(ProfilerStop(s)) EXCEPT !.unit = NoUnit]

(* PHP_RSHUTDOWN; the request's variables, and with them its handles, go. *)
RShutdown ==
    /\ phase = "request"
    /\ phase' = "between"
    /\ m' = IF m.unit.handle # 0 THEN ShutdownUnit(m) ELSE m
    /\ held' = {}
    /\ strayCall' = (strayCall \/ (m.unit.handle # 0 /\ m.running /\ Stray(m)))
    /\ UNCHANGED <<pid, auto, profiler, serial, report>>

(* PHP_MSHUTDOWN: cbox_profiler_shutdown, cbox_timer_shutdown. *)
MShutdown ==
    /\ phase = "between"
    /\ phase' = "down"
    /\ m' = [ProfilerStop(m) EXCEPT !.timer = "absent", !.created = FALSE]
    /\ strayCall' = (strayCall \/ Stray(m))
    /\ UNCHANGED <<pid, auto, profiler, held, serial, report>>

(* PHP code forks, or the process manager does before it serves anything;  *)
(* we follow the child.                                                    *)
Fork ==
    /\ phase = "request" \/ (phase = "between" /\ serial = 0)
    /\ pid < MaxForks
    /\ pid' = pid + 1
    /\ m' = [m EXCEPT !.timer = "absent"]
    /\ UNCHANGED <<phase, auto, profiler, held, serial, report, strayCall>>

(* A tick reaches a safe point and is stored (profiler.c, module Profiler). *)
TakeSample ==
    /\ phase = "request"
    /\ m.timer = "armed" /\ m.running
    /\ m' = [m EXCEPT !.samples = @ \cup {[pid |-> pid, unit |-> serial]}]
    /\ UNCHANGED <<phase, pid, auto, profiler, held, serial, report, strayCall>>

(* The deadline check of the interrupt finds the deadline passed. *)
Cap ==
    /\ phase = "request"
    /\ m.timer = "armed" /\ m.running /\ m.limited
    /\ m' = [ProfilerStop(m) EXCEPT !.capped = TRUE]
    /\ UNCHANGED <<phase, pid, auto, profiler, held, serial, report, strayCall>>

-----------------------------------------------------------------------------
Init ==
    /\ m = [unit |-> NoUnit, next_handle |-> 0, owner_pid |-> 0,
            running |-> FALSE, limited |-> FALSE,
            capped |-> FALSE, samples |-> {}, created |-> FALSE, timer |-> "absent"]
    /\ phase = "between"
    /\ pid = 0
    /\ auto \in BOOLEAN
    /\ profiler \in BOOLEAN
    /\ held = {}
    /\ serial = 0
    /\ report = NoReport
    /\ strayCall = FALSE

Next ==
    \/ \E sampled, want \in BOOLEAN, reply \in Replies : Begin(sampled, want, reply)
    \/ \E h \in held \cup {[handle |-> 0, unit |-> 0]} : Finish(h)
    \/ Status
    \/ \E reply \in Replies : RInit(reply)
    \/ RShutdown
    \/ MShutdown
    \/ Fork
    \/ TakeSample
    \/ Cap

Spec == Init /\ [][Next]_vars

-----------------------------------------------------------------------------
(* Properties *)

(* Every variable stays in its type. *)
TypeOK ==
    /\ m \in Memory
    /\ phase \in {"between", "request", "down"}
    /\ pid \in Pids
    /\ auto \in BOOLEAN
    /\ profiler \in BOOLEAN
    /\ held \subseteq [handle : Handles \ {0}, unit : Serials]
    /\ serial \in Serials
    /\ report \in [by : Pids \cup {-1}, unit : Serials, asked : Serials,
                   samples : SUBSET Sample]
    /\ strayCall \in BOOLEAN

IsOpen == m.unit.handle # 0
Aware == m.owner_pid = pid

(* A timer is armed only for an open, sampled, profiled unit of this       *)
(* process, whatever mix of begins, finishes, fatal errors and forks came  *)
(* before ("instead of leaving a timer armed forever", begin()), and a     *)
(* process that knows who it is believes in no timer it does not have      *)
(* ("running is a lie" only until cbox_detect_fork).                       *)
ArmedOnlyForUnit ==
    /\ m.timer = "armed" =>
          /\ phase = "request" /\ IsOpen /\ Aware
          /\ m.unit.sampled /\ m.unit.profiling
          /\ m.running
    /\ Aware /\ m.running => m.timer = "armed"

(* The profile in a process that knows who it is comes from the unit open  *)
(* in it, and what it reports are samples it took itself for the unit it   *)
(* reports: a forked child does not report the parent's profile again, nor *)
(* one unit the samples of another (finish()).                             *)
SamplesAreOwn ==
    /\ Aware => \A x \in m.samples : IsOpen /\ x.pid = pid /\ x.unit = serial
    /\ \A x \in report.samples : x.pid = report.by /\ x.unit = report.unit

(* A handle only ever finishes the unit whose begin() returned it; a stale *)
(* one gets nothing back.                                                  *)
HandleFinishesItsUnit == report.asked \in {0, report.unit}

(* A running profile is limited exactly while its unit is automatic and    *)
(* nobody has adopted it: no unattended unit samples without its valve,    *)
(* and no owned unit is silently truncated.                                *)
ValveIffUnattended ==
    m.timer = "armed" => (m.limited <=> Adoptable(m.unit))

(* Samples are thrown away only with their unit, or when its owner says    *)
(* that it is not worth keeping: adoption keeps the boot of the request.   *)
SamplesSurviveAdoption ==
    [][~(m.samples \subseteq m'.samples)
          => \/ m'.unit.handle # m.unit.handle
             \/ ~m'.unit.profiling]_vars

(* What timer_posix.c says of the handle a child inherits: it is           *)
(* meaningless there, and is not used.                                     *)
NoStrayTimerCall == ~strayCall
=============================================================================
