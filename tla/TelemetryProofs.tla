---------------------------- MODULE TelemetryProofs ----------------------------
(***************************************************************************)
(* Theorems about Telemetry, for any number of units and forks, and about  *)
(* the profiler its entry points start and stop, for every check interval  *)
(* and however the signals fall between the instructions of the PHP        *)
(* thread.                                                                 *)
(*                                                                         *)
(* The properties of Telemetry are about what a process believes and what  *)
(* the kernel has, and each needs the others: begin() may open a unit only *)
(* because no timer is armed without one, and a timer is armed for the     *)
(* unit that is open only because every path that drops a unit stops the   *)
(* profiler.  Consistent says all of it of one memory, so that every C     *)
(* function has one lemma: from a consistent memory to a consistent        *)
(* memory.                                                                 *)
(*                                                                         *)
(* The second part, about Profiler, is an assertional proof of the C       *)
(* functions: the instruction the thread executes next says how far the    *)
(* profile has been set up or torn down (AtInstruction), every signal      *)
(* preserves what it says, and the instructions follow each other only     *)
(* along Flow.                                                             *)
(***************************************************************************)
EXTENDS Telemetry, Profiler, SequenceTheorems, TLAPS

(* Memory s of process p in phase q, after n units. *)
Numbered(s, n) ==
    /\ s.next_handle = n
    /\ s.unit.handle \in {0, n}

Armed(s, p, q) ==
    s.timer = "armed" =>
        /\ q = "request" /\ s.unit.handle # 0 /\ s.owner_pid = p
        /\ s.unit.sampled /\ s.unit.profiling
        /\ s.running /\ s.created
        /\ s.limited <=> Adoptable(s.unit)

Owned(s, p, n) ==
    s.owner_pid = p =>
        /\ s.running => s.timer = "armed"
        /\ \A x \in s.samples : x.pid = p /\ x.unit = n
        /\ s.samples # {} => s.unit.handle # 0 /\ s.unit.profiling

Consistent(s, p, n, q) ==
    /\ s \in Memory
    /\ Numbered(s, n)
    /\ s.owner_pid <= p
    /\ q # "request" => s.unit.handle = 0
    /\ Armed(s, p, q)
    /\ Owned(s, p, n)

(* A handle is the number of its unit. *)
HandlesAreSerials == \A h \in held : h.handle = h.unit

ReportIsOwn == \A x \in report.samples : x.pid = report.by /\ x.unit = report.unit

IInv ==
    /\ TypeOK
    /\ Consistent(m, pid, serial, phase)
    /\ HandlesAreSerials
    /\ ReportIsOwn
    /\ HandleFinishesItsUnit

-----------------------------------------------------------------------------
(* What the C functions do to the memory *)

LEMMA MemoryFields ==
    ASSUME NEW s \in Memory
    PROVE  /\ s.unit \in Unit /\ s.next_handle \in Handles /\ s.owner_pid \in Pids
           /\ s.running \in BOOLEAN /\ s.limited \in BOOLEAN /\ s.capped \in BOOLEAN
           /\ s.samples \subseteq Sample /\ s.created \in BOOLEAN
           /\ s.timer \in {"absent", "idle", "armed"}
           /\ s.unit.handle \in Handles /\ s.unit.sampled \in BOOLEAN
           /\ s.unit.profiling \in BOOLEAN /\ s.unit.automatic \in BOOLEAN
           /\ s.unit.adopted \in BOOLEAN
  BY DEF Memory, Unit

(* cbox_profiler_reset *)
LEMMA ResetFields ==
    ASSUME NEW s \in Memory
    PROVE  LET r == ProfilerReset(s)
           IN  /\ r \in Memory /\ r.samples = {} /\ r.capped = FALSE
               /\ r.unit = s.unit /\ r.next_handle = s.next_handle
               /\ r.owner_pid = s.owner_pid /\ r.running = s.running
               /\ r.limited = s.limited /\ r.created = s.created /\ r.timer = s.timer
  BY DEF ProfilerReset, Memory

(* cbox_profiler_stop *)
LEMMA StopFields ==
    ASSUME NEW s \in Memory
    PROVE  LET r == ProfilerStop(s)
           IN  /\ r \in Memory /\ r.running = FALSE
               /\ r.timer = IF s.running /\ s.created /\ s.timer = "armed" THEN "idle" ELSE s.timer
               /\ r.unit = s.unit /\ r.next_handle = s.next_handle
               /\ r.owner_pid = s.owner_pid /\ r.samples = s.samples
               /\ r.limited = s.limited /\ r.created = s.created /\ r.capped = s.capped
  BY DEF ProfilerStop, TimerDisarm, Memory

(* The fields of a memory in which only the unit changes. *)
LEMMA UnitFields ==
    ASSUME NEW s \in Memory, NEW u \in Unit
    PROVE  LET r == [s EXCEPT !.unit = u]
           IN  /\ r \in Memory /\ r.unit = u
               /\ r.next_handle = s.next_handle
               /\ r.owner_pid = s.owner_pid /\ r.running = s.running
               /\ r.limited = s.limited /\ r.capped = s.capped /\ r.samples = s.samples
               /\ r.created = s.created /\ r.timer = s.timer
  BY DEF Memory

LEMMA NoUnitFields ==
    /\ NoUnit \in Unit /\ NoUnit.handle = 0 /\ NoUnit.profiling = FALSE
    /\ NoUnit.sampled = FALSE
  BY TelemetryAssumption DEF NoUnit, Unit, Handles

(* cbox_detect_fork leaves a process that knows its pid as it is; a child  *)
(* forgets the unit, the profile and the timer it inherited.               *)
LEMMA DetectForkConsistent ==
    ASSUME pid \in Pids, NEW s, NEW n, NEW q, Consistent(s, pid, n, q)
    PROVE  LET r == DetectFork(s)
           IN  /\ Consistent(r, pid, n, q) /\ r.owner_pid = pid
               /\ s.owner_pid = pid => r = s
               /\ s.owner_pid # pid => r.unit = NoUnit /\ r.samples = {}
<1>1. CASE s.owner_pid = pid
  BY <1>1 DEF DetectFork
<1>2. CASE s.owner_pid # pid
  <2> DEFINE r == DetectFork(s)
  <2>1. /\ r \in Memory /\ r.owner_pid = pid /\ r.unit = NoUnit /\ r.samples = {}
        /\ r.running = FALSE /\ r.next_handle = s.next_handle /\ r.timer = s.timer
    BY <1>2, NoUnitFields DEF DetectFork, AfterFork, ProfilerReset, Memory, Consistent
  <2>2. r.timer # "armed"
    BY <1>2, <2>1 DEF Consistent, Armed
  <2> HIDE DEF r
  <2>3. Consistent(r, pid, n, q)
    BY <2>1, <2>2, NoUnitFields DEF Consistent, Numbered, Armed, Owned, Pids
  <2>4. QED
    BY <1>2, <2>1, <2>3 DEF r
<1>3. QED
  BY <1>1, <1>2

(* The timer of an aware process goes with its profile. *)
LEMMA StopDisarms ==
    ASSUME NEW s, NEW p, NEW n, NEW q, Consistent(s, p, n, q)
    PROVE  LET r == ProfilerStop(s)
           IN  /\ r \in Memory /\ r.running = FALSE /\ r.timer # "armed"
               /\ r.unit = s.unit /\ r.next_handle = s.next_handle
               /\ r.owner_pid = s.owner_pid /\ r.samples = s.samples
               /\ r.limited = s.limited
<1>1. s \in Memory /\ (s.timer = "armed" => s.running /\ s.created)
  BY DEF Consistent, Armed
<1>2. QED
  BY <1>1, StopFields

(* The unit ends: finish() and RSHUTDOWN. *)
LEMMA ShutdownConsistent ==
    ASSUME NEW s, NEW p, NEW n, NEW q, NEW w, Consistent(s, p, n, q)
    PROVE  /\ ShutdownUnit(s) = [ProfilerReset(ProfilerStop(s)) EXCEPT !.unit = NoUnit]
           /\ Consistent(ShutdownUnit(s), p, n, w)
           /\ ShutdownUnit(s).unit = NoUnit /\ ShutdownUnit(s).samples = {}
<1> DEFINE t == ProfilerStop(s)
           u == ProfilerReset(t)
           r == [u EXCEPT !.unit = NoUnit]
<1>1. /\ t \in Memory /\ t.running = FALSE /\ t.timer # "armed"
      /\ t.next_handle = s.next_handle /\ t.owner_pid = s.owner_pid
  BY StopDisarms
<1> HIDE DEF t
<1>2. /\ u \in Memory /\ u.samples = {} /\ u.running = FALSE /\ u.timer # "armed"
      /\ u.next_handle = s.next_handle /\ u.owner_pid = s.owner_pid
  BY <1>1, ResetFields
<1> HIDE DEF u
<1>3. /\ r \in Memory /\ r.samples = {} /\ r.running = FALSE /\ r.timer # "armed"
      /\ r.next_handle = s.next_handle /\ r.owner_pid = s.owner_pid /\ r.unit = NoUnit
  BY <1>2, NoUnitFields, UnitFields
<1> HIDE DEF r
<1>4. Consistent(r, p, n, w)
  BY <1>3, NoUnitFields DEF Consistent, Numbered, Armed, Owned
<1>5. ShutdownUnit(s) = r
  BY DEF ShutdownUnit, r, u, t
<1>6. QED
  BY <1>3, <1>4, <1>5 DEF r, u, t

(* cbox_unit_open, in a process that knows its pid and has no timer armed. *)
LEMMA UnitOpenConsistent ==
    ASSUME profiler \in BOOLEAN, NEW n \in 0 .. MaxUnits - 1, NEW p,
           NEW sampled \in BOOLEAN, NEW want \in BOOLEAN, NEW automatic \in BOOLEAN,
           NEW reply \in Replies,
           NEW s \in Memory, s.next_handle = n, s.owner_pid = p, s.owner_pid <= p,
           s.timer # "armed", ~s.running
    PROVE  LET r == UnitOpen(s, sampled, want, automatic, reply)
           IN  /\ Consistent(r, p, n + 1, "request") /\ r.owner_pid = p
               /\ r.unit.handle = n + 1 /\ r.unit.handle # 0
<1> DEFINE h == NextHandle(s.next_handle)
           u == [NoUnit EXCEPT !.handle = h, !.sampled = sampled, !.automatic = automatic]
           t == [s EXCEPT !.next_handle = h, !.unit = u]
           r == UnitOpen(s, sampled, want, automatic, reply)
           ok == reply = "armed"
<1>1. h = n + 1 /\ h \in Handles /\ h # 0
  BY TelemetryAssumption DEF NextHandle, Handles
<1>2. /\ u \in Unit /\ u.handle = h /\ u.sampled = sampled /\ u.automatic = automatic
      /\ u.adopted = FALSE /\ u.profiling = FALSE
  BY <1>1 DEF NoUnit, Unit
<1>3. /\ t \in Memory /\ t.next_handle = h /\ t.unit = u /\ t.owner_pid = p
      /\ t.running = FALSE /\ t.timer = s.timer
  BY <1>1, <1>2 DEF Memory
<1>4. r = IF want /\ sampled /\ profiler
          THEN [ProfilerStart(t, automatic, reply) EXCEPT !.unit.profiling = (reply = "armed")]
          ELSE ProfilerReset(t)
  BY DEF UnitOpen, Limited
<1> HIDE DEF r, t, u, h
<1>5. CASE want /\ sampled /\ profiler
  <2> DEFINE v == ProfilerStart(t, automatic, reply)
             w == [u EXCEPT !.profiling = ok]
  <2>1. /\ v \in Memory /\ v.samples = {} /\ v.limited = automatic
        /\ (ok => v.running /\ v.created) /\ (~ok => ~v.running)
        /\ (ok <=> v.timer = "armed")
        /\ v.unit = u /\ v.next_handle = h /\ v.owner_pid = p
    BY <1>3 DEF ProfilerStart, ProfilerReset, TimerArm, Replies, Memory
  <2> HIDE DEF v
  <2>2. /\ w \in Unit /\ w.handle = h /\ w.sampled = sampled /\ w.automatic = automatic
        /\ w.adopted = FALSE /\ w.profiling = ok
    BY <1>2 DEF Unit
  <2>3. r = [v EXCEPT !.unit = w]
    BY <1>4, <1>5, <2>1 DEF v, Memory
  <2> HIDE DEF w
  <2>4. /\ r \in Memory /\ r.unit = w /\ r.next_handle = h /\ r.owner_pid = p
        /\ (~ok => ~r.running) /\ (ok => r.running) /\ r.limited = automatic /\ r.samples = {}
        /\ (ok => r.created) /\ (ok <=> r.timer = "armed")
    BY <2>1, <2>2, <2>3, UnitFields
  <2>5. Adoptable(r.unit) <=> automatic
    BY <1>1, <2>2, <2>4 DEF Adoptable
  <2>6. Armed(r, p, "request")
    BY <1>1, <1>3, <1>5, <2>2, <2>4, <2>5 DEF Armed
  <2>7. Owned(r, p, n + 1) /\ Numbered(r, n + 1)
    BY <1>1, <2>2, <2>4 DEF Owned, Numbered
  <2>8. QED
    BY <1>1, <2>2, <2>4, <2>6, <2>7 DEF Consistent, r
<1>6. CASE ~(want /\ sampled /\ profiler)
  <2>1. /\ r \in Memory /\ r.samples = {} /\ r.running = FALSE /\ r.timer # "armed"
        /\ r.unit = u /\ r.next_handle = h /\ r.owner_pid = p
    BY <1>3, <1>4, <1>6, ResetFields
  <2>2. Consistent(r, p, n + 1, "request")
    BY <1>1, <1>2, <2>1 DEF Consistent, Armed, Owned, Numbered
  <2>3. QED
    BY <1>1, <1>2, <2>1, <2>2 DEF r
<1>7. QED
  BY <1>5, <1>6

(* begin() over an automatic unit: the unit stays the same one, without    *)
(* its deadline, and keeps its samples if it keeps its profile.            *)
LEMMA AdoptConsistent ==
    ASSUME profiler \in BOOLEAN, NEW n, NEW p,
           NEW sampled \in BOOLEAN, NEW want \in BOOLEAN, NEW reply \in Replies,
           NEW s, Consistent(s, p, n, "request"), s.owner_pid = p, Adoptable(s.unit)
    PROVE  LET r == Adopt(s, sampled, want, reply)
           IN  /\ Consistent(r, p, n, "request")
               /\ r.unit.handle = s.unit.handle
               /\ r.unit.profiling => s.samples \subseteq r.samples
<1> DEFINE ua == [s.unit EXCEPT !.adopted = TRUE, !.sampled = sampled]
           a == [s EXCEPT !.unit.adopted = TRUE, !.unit.sampled = sampled]
           r == Adopt(s, sampled, want, reply)
           ok == reply = "armed"
<1>1. /\ s \in Memory /\ s.unit \in Unit /\ s.unit.handle # 0 /\ s.next_handle = n
      /\ s.unit.handle = n /\ s.owner_pid <= p
  BY MemoryFields DEF Consistent, Numbered, Adoptable
<1>2. /\ s.timer = "armed" => s.unit.profiling /\ s.running /\ s.created
      /\ s.running => s.timer = "armed"
      /\ \A x \in s.samples : x.pid = p /\ x.unit = n
      /\ s.samples # {} => s.unit.profiling
  BY DEF Consistent, Armed, Owned
<1>3. /\ ua \in Unit /\ ua.handle = n /\ ua.profiling = s.unit.profiling
      /\ ua.sampled = sampled /\ ua.adopted = TRUE
  BY <1>1 DEF Unit
<1>4. /\ a \in Memory /\ a.unit = ua /\ a.next_handle = n
      /\ a.owner_pid = p /\ a.running = s.running /\ a.created = s.created
      /\ a.timer = s.timer /\ a.samples = s.samples
  BY <1>1, <1>3 DEF Memory
<1>5. r = ClearDeadline(CASE ~sampled \/ ~want ->
                                [ProfilerReset(ProfilerStop(a)) EXCEPT !.unit.profiling = FALSE]
                          [] sampled /\ want /\ NeedsProfile(s.unit) /\ profiler ->
                                [ProfilerStart(a, FALSE, reply) EXCEPT !.unit.profiling = reply = "armed" \/ @]
                          [] OTHER -> a)
  BY DEF Adopt
<1> HIDE DEF ua, a, r
<1>6. CASE ~sampled \/ ~want
  <2> DEFINE t == ProfilerStop(a)
             v == ProfilerReset(t)
  <2>1. /\ t \in Memory /\ t.running = FALSE /\ t.timer # "armed"
        /\ t.unit = ua /\ t.next_handle = n /\ t.owner_pid = p
    BY <1>2, <1>4, StopFields
  <2> HIDE DEF t
  <2>2. /\ v \in Memory /\ v.running = FALSE /\ v.timer # "armed" /\ v.samples = {}
        /\ v.unit = ua /\ v.next_handle = n /\ v.owner_pid = p
    BY <2>1 DEF ProfilerReset, Memory
  <2>3. r = ClearDeadline([v EXCEPT !.unit.profiling = FALSE])
    BY <1>5, <1>6 DEF v, t
  <2> HIDE DEF v
  <2>4. /\ r \in Memory /\ r.running = FALSE /\ r.timer # "armed" /\ r.samples = {}
        /\ r.unit.handle = n /\ r.unit.profiling = FALSE
        /\ r.next_handle = n /\ r.owner_pid = p
    BY <1>3, <2>2, <2>3 DEF ClearDeadline, Memory, Unit
  <2>5. Consistent(r, p, n, "request")
    BY <1>1, <2>4 DEF Consistent, Numbered, Armed, Owned
  <2>6. QED
    BY <1>1, <2>4, <2>5 DEF r
<1>7. CASE sampled /\ want /\ NeedsProfile(s.unit) /\ profiler
  <2> DEFINE v == ProfilerStart(a, FALSE, reply)
  <2>1. s.unit.profiling = FALSE
    BY <1>1, <1>7 DEF NeedsProfile, Unit
  <2>2. s.timer # "armed" /\ ~s.running /\ s.samples = {}
    BY <1>2, <2>1
  <2>3. /\ v \in Memory /\ v.samples = {} /\ (ok => v.running /\ v.created)
        /\ (~ok => ~v.running) /\ (ok <=> v.timer = "armed")
        /\ v.unit = ua /\ v.next_handle = n /\ v.owner_pid = p
    BY <1>4, <2>2 DEF ProfilerStart, ProfilerReset, TimerArm, Replies, Memory
  <2>4. r = ClearDeadline([v EXCEPT !.unit.profiling = ok \/ @])
    BY <1>5, <1>7 DEF v
  <2> HIDE DEF v
  <2>5. /\ r \in Memory /\ r.samples = {} /\ (ok => r.running /\ r.created)
        /\ (~ok => ~r.running) /\ r.timer = v.timer
        /\ r.next_handle = n /\ r.owner_pid = p /\ r.limited = FALSE
        /\ r.unit.handle = n /\ (ok => r.unit.profiling) /\ r.unit.adopted = TRUE
        /\ r.unit.sampled = TRUE
    BY <1>3, <1>7, <2>3, <2>4 DEF ClearDeadline, Memory, Unit
  <2>6. ~Adoptable(r.unit)
    BY <2>5 DEF Adoptable
  <2>7. Armed(r, p, "request")
    BY <1>1, <1>4, <2>2, <2>3, <2>5, <2>6 DEF Armed
  <2>8. Consistent(r, p, n, "request")
    BY <1>1, <2>2, <2>3, <2>5, <2>7 DEF Consistent, Numbered, Owned
  <2>9. QED
    BY <1>1, <2>2, <2>5, <2>8 DEF r
<1>8. CASE ~(~sampled \/ ~want) /\ ~(sampled /\ want /\ NeedsProfile(s.unit) /\ profiler)
  <2>1. r = ClearDeadline(a)
    BY <1>5, <1>8
  <2>2. /\ r \in Memory /\ r.unit = ua /\ r.limited = FALSE /\ r.next_handle = n
        /\ r.owner_pid = p /\ r.running = s.running /\ r.created = s.created
        /\ r.timer = s.timer /\ r.samples = s.samples
    BY <1>4, <2>1 DEF ClearDeadline, Memory
  <2>3. ~Adoptable(r.unit)
    BY <1>3, <2>2 DEF Adoptable
  <2>4. Armed(r, p, "request")
    BY <1>1, <1>2, <1>3, <1>8, <2>2, <2>3 DEF Armed
  <2>5. Owned(r, p, n)
    BY <1>1, <1>2, <1>3, <2>2 DEF Owned
  <2>6. Consistent(r, p, n, "request")
    BY <1>1, <1>3, <2>2, <2>4, <2>5 DEF Consistent, Numbered
  <2>7. QED
    BY <1>1, <1>3, <2>2, <2>6 DEF r
<1>9. QED
  BY <1>6, <1>7, <1>8

-----------------------------------------------------------------------------
(* Every step preserves the invariant *)

(* What the rest of the invariant needs of a step that reports nothing and *)
(* gives out no handle.                                                    *)
LEMMA QuietStep ==
    ASSUME IInv, held' \subseteq held, report' = report,
           UNCHANGED <<auto, profiler>>, strayCall' \in BOOLEAN,
           pid' \in Pids, serial' \in Serials, phase' \in {"between", "request", "down"},
           Consistent(m', pid', serial', phase')
    PROVE  IInv'
<1>1. TypeOK'
  BY DEF IInv, TypeOK, Consistent
<1>2. HandlesAreSerials' /\ ReportIsOwn' /\ HandleFinishesItsUnit'
  BY DEF IInv, HandlesAreSerials, ReportIsOwn, HandleFinishesItsUnit
<1>3. Consistent(m, pid, serial, phase)'
  BY DEF Consistent, Numbered, Armed, Owned, Adoptable
<1>4. QED
  BY <1>1, <1>2, <1>3 DEF IInv

(* A finish() that finds the unit it was asked for. *)
LEMMA FinishStep ==
    ASSUME IInv, NEW h \in held \cup {[handle |-> 0, unit |-> 0]}, Finish(h)
    PROVE  IInv'
<1> DEFINE s == DetectFork(m)
           known == s.unit.handle # 0 /\ (h.handle = 0 \/ h.handle = s.unit.handle)
<1>1. /\ TypeOK /\ pid \in Pids /\ serial \in Serials /\ phase = "request"
      /\ Consistent(m, pid, serial, phase)
      /\ UNCHANGED <<phase, pid, auto, profiler, held, serial, strayCall>>
  BY DEF IInv, TypeOK, Finish
<1>2. Consistent(s, pid, serial, phase) /\ s.owner_pid = pid
  BY <1>1, DetectForkConsistent
<1>3. /\ m' = IF known THEN ShutdownUnit(s) ELSE s
      /\ report' = IF known THEN [by |-> pid, unit |-> serial, asked |-> h.unit,
                                  samples |-> s.samples]
                   ELSE report
  BY DEF Finish, ShutdownUnit
<1> HIDE DEF s, known
<1>4. Consistent(m', pid', serial', phase')
  BY <1>1, <1>2, <1>3, ShutdownConsistent
<1>5. CASE ~known
  <2>1. report' = report
    BY <1>3, <1>5
  <2>2. QED
    BY <1>1, <1>4, <2>1, QuietStep DEF TypeOK
<1>6. CASE known
  <2>1. /\ s \in Memory /\ s.unit.handle = serial
        /\ \A x \in s.samples : x.pid = pid /\ x.unit = serial
    BY <1>2, <1>6 DEF Consistent, Numbered, Owned, known
  <2>2. h.unit \in {0, serial} /\ h.unit \in Serials
    <3>1. CASE h \in held
      <4>1. h.handle # 0 /\ h.handle = h.unit /\ h.unit \in Serials
        BY <3>1 DEF IInv, TypeOK, HandlesAreSerials
      <4>2. QED
        BY <1>6, <2>1, <4>1 DEF known
    <3>2. CASE h = [handle |-> 0, unit |-> 0]
      BY <3>2, TelemetryAssumption DEF Serials
    <3>3. QED
      BY <3>1, <3>2
  <2>3. s.samples \subseteq Sample
    BY <2>1, MemoryFields
  <2>4. /\ report' \in [by : Pids \cup {-1}, unit : Serials, asked : Serials,
                        samples : SUBSET Sample]
        /\ report'.by = pid /\ report'.unit = serial /\ report'.asked = h.unit
        /\ report'.samples = s.samples
    BY <1>1, <1>3, <1>6, <2>2, <2>3
  <2>5. ReportIsOwn' /\ HandleFinishesItsUnit'
    BY <2>1, <2>2, <2>4 DEF ReportIsOwn, HandleFinishesItsUnit
  <2>6. TypeOK'
    <3>1. m' \in Memory
      BY <1>4 DEF Consistent
    <3>2. QED
      BY <1>1, <2>4, <3>1 DEF TypeOK
  <2>7. Consistent(m, pid, serial, phase)'
    BY <1>4 DEF Consistent, Numbered, Armed, Owned, Adoptable
  <2>8. QED
    BY <1>1, <2>5, <2>6, <2>7 DEF IInv, HandlesAreSerials
<1>7. QED
  BY <1>5, <1>6

(* begin() *)
LEMMA BeginStep ==
    ASSUME IInv, NEW sampled \in BOOLEAN, NEW want \in BOOLEAN, NEW reply \in Replies,
           Begin(sampled, want, reply)
    PROVE  /\ IInv'
           /\ m'.unit.handle = m.unit.handle /\ m'.unit.profiling => m.samples \subseteq m'.samples
<1> DEFINE s == DetectFork(m)
           stopped == IF s.unit.handle # 0 THEN ProfilerStop(s) ELSE s
<1>1. /\ TypeOK /\ pid \in Pids /\ serial \in Serials /\ phase = "request"
      /\ profiler \in BOOLEAN /\ Consistent(m, pid, serial, phase)
      /\ UNCHANGED <<phase, pid, auto, profiler, report, strayCall>>
  BY DEF IInv, TypeOK, Begin
<1>2. /\ Consistent(s, pid, serial, "request") /\ s.owner_pid = pid
      /\ m.owner_pid = pid => s = m
      /\ m.owner_pid # pid => s.unit = NoUnit
  BY <1>1, DetectForkConsistent
<1>3. \/ /\ Adoptable(s.unit)
         /\ m' = Adopt(s, sampled, want, reply) /\ serial' = serial
      \/ /\ ~Adoptable(s.unit) /\ serial < MaxUnits
         /\ m' = UnitOpen(stopped, sampled, want, FALSE, reply) /\ serial' = serial + 1
  BY DEF Begin
<1>4. held' = held \cup {[handle |-> m'.unit.handle, unit |-> serial']}
  BY DEF Begin
<1> HIDE DEF s
<1>5. /\ Consistent(m', pid, serial', "request") /\ serial' \in Serials
      /\ m'.unit.handle = serial' /\ m'.unit.handle # 0
      /\ m'.unit.handle = m.unit.handle /\ m'.unit.profiling => m.samples \subseteq m'.samples
  <2>1. CASE /\ Adoptable(s.unit)
             /\ m' = Adopt(s, sampled, want, reply) /\ serial' = serial
    <3>1. /\ Consistent(m', pid, serial, "request")
          /\ m'.unit.handle = s.unit.handle
          /\ m'.unit.profiling => s.samples \subseteq m'.samples
      <4> DEFINE r == Adopt(s, sampled, want, reply)
      <4>1. /\ Consistent(r, pid, serial, "request")
            /\ r.unit.handle = s.unit.handle
            /\ r.unit.profiling => s.samples \subseteq r.samples
        <5>1. Adoptable(s.unit) /\ profiler \in BOOLEAN
          BY <1>1, <2>1, Zenon
        <5>2. Consistent(s, pid, serial, "request") /\ s.owner_pid = pid
          BY <1>2
        <5>3. Consistent(r, pid, serial, "request")
          BY <5>1, <5>2, AdoptConsistent
        <5>4. r.unit.handle = s.unit.handle
          BY <5>1, <5>2, AdoptConsistent
        <5>5. r.unit.profiling => s.samples \subseteq r.samples
          BY <5>1, <5>2, AdoptConsistent
        <5>6. QED
          BY <5>3, <5>4, <5>5
      <4>2. m' = r
        BY <2>1, Zenon
      <4> HIDE DEF r
      <4>3. QED
        BY <4>1, <4>2
    <3>2. s.unit.handle # 0 /\ s.unit.handle = serial
      BY <1>2, <2>1 DEF Adoptable, Consistent, Numbered
    <3>3. s = m
      BY <1>2, <3>2, NoUnitFields
    <3>4. QED
      BY <1>1, <2>1, <3>1, <3>2, <3>3
  <2>2. CASE /\ ~Adoptable(s.unit) /\ serial < MaxUnits
             /\ m' = UnitOpen(stopped, sampled, want, FALSE, reply) /\ serial' = serial + 1
    <3>1. /\ stopped \in Memory /\ stopped.next_handle = serial
          /\ stopped.owner_pid = pid /\ stopped.timer # "armed" /\ ~stopped.running
      <4>1. CASE s.unit.handle # 0
        <5>1. stopped = ProfilerStop(s)
          BY <4>1
        <5> HIDE DEF stopped
        <5>2. /\ stopped \in Memory /\ stopped.running = FALSE /\ stopped.timer # "armed"
              /\ stopped.next_handle = s.next_handle /\ stopped.owner_pid = s.owner_pid
          BY <1>2, <5>1, StopDisarms
        <5>3. QED
          BY <1>2, <5>2 DEF Consistent, Numbered
      <4>2. CASE s.unit.handle = 0
        BY <1>2, <4>2 DEF Consistent, Numbered, Armed, Owned
      <4>3. QED
        BY <4>1, <4>2
    <3> HIDE DEF stopped
    <3>2. serial \in 0 .. MaxUnits - 1 /\ pid <= pid
      BY <1>1, <2>2, TelemetryAssumption DEF Serials, Pids
    <3> DEFINE r == UnitOpen(stopped, sampled, want, FALSE, reply)
    <3>6. /\ Consistent(r, pid, serial + 1, "request")
          /\ r.unit.handle = serial + 1 /\ r.unit.handle # 0
      <4>1. FALSE \in BOOLEAN
        OBVIOUS
      <4>2. profiler \in BOOLEAN /\ stopped.owner_pid <= pid
        BY <1>1, <3>1, <3>2
      <4>3. ASSUME NEW a \in BOOLEAN
            PROVE  LET q == UnitOpen(stopped, sampled, want, a, reply)
                   IN  /\ Consistent(q, pid, serial + 1, "request")
                       /\ q.unit.handle = serial + 1 /\ q.unit.handle # 0
        BY <3>1, <3>2, <4>2, UnitOpenConsistent
      <4>4. QED
        BY <4>1, <4>3, Zenon
    <3>3. /\ Consistent(m', pid, serial + 1, "request")
          /\ m'.unit.handle = serial + 1 /\ m'.unit.handle # 0
      BY <2>2, <3>6, Zenon
    <3>4. m.unit.handle \in {0, serial}
      BY <1>1 DEF Consistent, Numbered
    <3>5. serial' \in Serials /\ m'.unit.handle # m.unit.handle
      <4>1. serial' = serial + 1
        BY <2>2, Zenon
      <4>2. QED
        BY <3>2, <3>3, <3>4, <4>1, TelemetryAssumption DEF Serials
    <3>7. QED
      BY <2>2, <3>3, <3>5, Zenon
  <2>3. QED
    BY <1>3, <2>1, <2>2
<1>6. m' \in Memory /\ m'.unit.handle \in Handles
  BY <1>5, MemoryFields DEF Consistent
<1>7. /\ held' \subseteq [handle : Handles \ {0}, unit : Serials]
      /\ \A h \in held' : h.handle = h.unit
  BY <1>1, <1>4, <1>5, <1>6 DEF IInv, TypeOK, HandlesAreSerials
<1>8. TypeOK'
  BY <1>1, <1>5, <1>6, <1>7 DEF TypeOK
<1>9. Consistent(m, pid, serial, phase)'
  BY <1>1, <1>5 DEF Consistent, Numbered, Armed, Owned, Adoptable
<1>10. HandlesAreSerials' /\ ReportIsOwn' /\ HandleFinishesItsUnit'
  BY <1>1, <1>7 DEF IInv, HandlesAreSerials, ReportIsOwn, HandleFinishesItsUnit
<1>11. QED
  BY <1>5, <1>8, <1>9, <1>10 DEF IInv

(* RINIT *)
LEMMA RInitStep ==
    ASSUME IInv, NEW reply \in Replies, RInit(reply)
    PROVE  /\ IInv'
           /\ m'.unit.handle = m.unit.handle /\ m'.unit.profiling => m.samples \subseteq m'.samples
<1> DEFINE s == DetectFork(m)
           opens == auto /\ s.unit.handle = 0
<1>1. /\ TypeOK /\ pid \in Pids /\ serial \in Serials /\ phase = "between"
      /\ profiler \in BOOLEAN /\ Consistent(m, pid, serial, phase)
      /\ phase' = "request"
      /\ UNCHANGED <<pid, auto, profiler, held, report, strayCall>>
  BY DEF IInv, TypeOK, RInit
<1>2. /\ Consistent(s, pid, serial, "between") /\ s.owner_pid = pid
      /\ m.owner_pid = pid => s = m
      /\ m.owner_pid # pid => s.unit = NoUnit
  BY <1>1, DetectForkConsistent
<1>3. /\ opens => serial < MaxUnits
      /\ m' = IF opens THEN UnitOpen(s, TRUE, TRUE, TRUE, reply) ELSE s
      /\ serial' = IF opens THEN serial + 1 ELSE serial
  BY DEF RInit
<1> HIDE DEF s
<1>4. /\ s \in Memory /\ s.next_handle = serial /\ s.timer # "armed" /\ ~s.running
      /\ s.unit.handle = 0
  BY <1>2 DEF Consistent, Numbered, Armed, Owned
<1>5. m.unit.handle = 0
  BY <1>1 DEF Consistent
<1>6. CASE opens
  <2>1. serial \in 0 .. MaxUnits - 1 /\ pid <= pid
    BY <1>1, <1>3, <1>6, TelemetryAssumption DEF Serials, Pids
  <2>2. m' = UnitOpen(s, TRUE, TRUE, TRUE, reply) /\ serial' = serial + 1
    BY <1>3, <1>6
  <2>3. Consistent(m', pid, serial + 1, "request") /\ m'.unit.handle # 0
    <3>1. ASSUME NEW a \in BOOLEAN, NEW b \in BOOLEAN, NEW c \in BOOLEAN
          PROVE  LET r == UnitOpen(s, a, b, c, reply)
                 IN  Consistent(r, pid, serial + 1, "request") /\ r.unit.handle # 0
      <4>1. profiler \in BOOLEAN /\ s.owner_pid = pid /\ s.owner_pid <= pid
        BY <1>1, <1>2, <2>1
      <4>2. QED
        BY <1>4, <2>1, <4>1, UnitOpenConsistent
    <3>2. TRUE \in BOOLEAN
      OBVIOUS
    <3>3. QED
      BY <2>2, <3>1, <3>2, Zenon
  <2>4. serial' \in Serials /\ strayCall' \in BOOLEAN
    BY <1>1, <2>1, <2>2, TelemetryAssumption DEF Serials, TypeOK
  <2>5. IInv'
    BY <1>1, <2>2, <2>3, <2>4, QuietStep
  <2>6. QED
    BY <1>5, <2>3, <2>5
<1>7. CASE ~opens
  <2>1. m' = s /\ serial' = serial
    BY <1>3, <1>7
  <2>2. Consistent(s, pid, serial, "request")
    BY <1>2, <1>4 DEF Consistent, Armed
  <2>3. IInv'
    BY <1>1, <2>1, <2>2, QuietStep DEF TypeOK
  <2>4. m'.unit.profiling => m.samples \subseteq m'.samples
    BY <1>2, <2>1, NoUnitFields
  <2>5. QED
    BY <2>3, <2>4
<1>8. QED
  BY <1>6, <1>7

(* The other steps. *)
LEMMA OtherSteps ==
    ASSUME IInv, Status \/ RShutdown \/ MShutdown \/ Fork \/ TakeSample \/ Cap
    PROVE  /\ IInv'
           /\ m'.unit.handle = m.unit.handle /\ m'.unit.profiling => m.samples \subseteq m'.samples
<1>1. /\ TypeOK /\ pid \in Pids /\ serial \in Serials /\ strayCall \in BOOLEAN
      /\ phase \in {"between", "request", "down"}
      /\ Consistent(m, pid, serial, phase) /\ m \in Memory
  BY DEF IInv, TypeOK
<1>2. CASE Status
  <2>1. m' = DetectFork(m) /\ phase' = phase /\ pid' = pid /\ serial' = serial
        /\ UNCHANGED <<auto, profiler, held, report, strayCall>>
    BY <1>2 DEF Status
  <2>2. Consistent(m', pid, serial, phase) /\ m'.unit = NoUnit
    BY <1>1, <1>2, <2>1, DetectForkConsistent DEF Status
  <2>3. IInv'
    BY <1>1, <2>1, <2>2, QuietStep
  <2>4. QED
    BY <2>2, <2>3, NoUnitFields
<1>3. CASE RShutdown
  <2>1. /\ phase = "request" /\ phase' = "between" /\ pid' = pid /\ serial' = serial
        /\ m' = IF m.unit.handle # 0 THEN ShutdownUnit(m) ELSE m
        /\ held' = {} /\ UNCHANGED <<auto, profiler, report>>
        /\ strayCall' \in BOOLEAN
    BY <1>1, <1>3 DEF RShutdown
  <2>2. CASE m.unit.handle # 0
    <3>1. m' = ShutdownUnit(m)
      BY <2>1, <2>2
    <3>2. Consistent(m', pid, serial, "between") /\ m'.unit = NoUnit
      BY <1>1, <3>1, ShutdownConsistent
    <3>3. IInv'
      BY <1>1, <2>1, <3>2, QuietStep
    <3>4. QED
      BY <3>2, <3>3, NoUnitFields
  <2>3. CASE m.unit.handle = 0
    <3>1. m' = m
      BY <2>1, <2>3
    <3>2. Consistent(m', pid, serial, "between")
      BY <1>1, <2>1, <2>3, <3>1 DEF Consistent, Armed
    <3>3. IInv'
      BY <1>1, <2>1, <3>2, QuietStep
    <3>4. QED
      BY <3>1, <3>3
  <2>4. QED
    BY <2>2, <2>3
<1>4. CASE MShutdown
  <2> DEFINE t == ProfilerStop(m)
  <2>1. /\ phase = "between" /\ phase' = "down" /\ pid' = pid /\ serial' = serial
        /\ m' = [t EXCEPT !.timer = "absent", !.created = FALSE]
        /\ UNCHANGED <<auto, profiler, held, report>>
    BY <1>4 DEF MShutdown
  <2>2. strayCall' \in BOOLEAN
    BY <1>1, <1>4 DEF MShutdown
  <2>3. /\ t \in Memory /\ t.running = FALSE /\ t.unit = m.unit
        /\ t.next_handle = m.next_handle /\ t.owner_pid = m.owner_pid /\ t.samples = m.samples
    BY <1>1, StopDisarms
  <2> HIDE DEF t
  <2>4. /\ m' \in Memory /\ m'.running = FALSE /\ m'.unit = m.unit /\ m'.timer = "absent"
        /\ m'.next_handle = m.next_handle /\ m'.owner_pid = m.owner_pid /\ m'.samples = m.samples
    BY <2>1, <2>3 DEF Memory
  <2>5. Consistent(m', pid, serial, "down")
    BY <1>1, <2>1, <2>4 DEF Consistent, Numbered, Armed, Owned
  <2>6. IInv'
    BY <1>1, <2>1, <2>2, <2>5, QuietStep
  <2>7. QED
    BY <2>4, <2>6
<1>5. CASE Fork
  <2>1. /\ pid < MaxForks /\ pid' = pid + 1 /\ phase' = phase /\ serial' = serial
        /\ m' = [m EXCEPT !.timer = "absent"]
        /\ UNCHANGED <<auto, profiler, held, report, strayCall>>
    BY <1>5 DEF Fork
  <2>2. pid' \in Pids /\ pid \in Int
    BY <1>1, <2>1, TelemetryAssumption DEF Pids
  <2>3. /\ m' \in Memory /\ m'.running = m.running /\ m'.unit = m.unit /\ m'.timer = "absent"
        /\ m'.next_handle = m.next_handle /\ m'.owner_pid = m.owner_pid /\ m'.samples = m.samples
    BY <1>1, <2>1 DEF Memory
  <2>4. m'.owner_pid <= pid' /\ m'.owner_pid # pid'
    <3>1. m.owner_pid \in Int /\ m.owner_pid <= pid
      BY <1>1, MemoryFields DEF Consistent, Pids
    <3>2. QED
      BY <2>1, <2>2, <2>3, <3>1
  <2>5. Consistent(m', pid', serial', phase')
    BY <1>1, <2>1, <2>3, <2>4 DEF Consistent, Numbered, Armed, Owned
  <2>6. IInv'
    BY <1>1, <2>1, <2>2, <2>5, QuietStep
  <2>7. QED
    BY <2>3, <2>6
<1>6. CASE TakeSample
  <2> DEFINE x == [pid |-> pid, unit |-> serial]
  <2>1. /\ m.timer = "armed" /\ phase' = phase /\ pid' = pid /\ serial' = serial
        /\ m' = [m EXCEPT !.samples = @ \cup {x}]
        /\ UNCHANGED <<auto, profiler, held, report, strayCall>>
    BY <1>6 DEF TakeSample
  <2>2. x \in Sample /\ x.pid = pid /\ x.unit = serial
    BY <1>1 DEF Sample
  <2> HIDE DEF x
  <2>3. /\ m' \in Memory /\ m'.running = m.running /\ m'.unit = m.unit /\ m'.timer = m.timer
        /\ m'.next_handle = m.next_handle /\ m'.owner_pid = m.owner_pid
        /\ m'.limited = m.limited /\ m'.created = m.created /\ m'.samples = m.samples \cup {x}
    BY <1>1, <2>1, <2>2 DEF Memory
  <2>4. Armed(m', pid, phase) /\ m.unit.handle # 0 /\ m.unit.profiling
    BY <1>1, <2>1, <2>3 DEF Consistent, Armed
  <2>5. Owned(m', pid, serial)
    BY <1>1, <2>1, <2>2, <2>3, <2>4 DEF Consistent, Owned
  <2>6. Consistent(m', pid, serial, phase)
    BY <1>1, <2>3, <2>4, <2>5 DEF Consistent, Numbered
  <2>7. IInv'
    BY <1>1, <2>1, <2>6, QuietStep
  <2>8. QED
    BY <2>3, <2>7
<1>7. CASE Cap
  <2> DEFINE t == ProfilerStop(m)
  <2>1. /\ phase' = phase /\ pid' = pid /\ serial' = serial
        /\ m' = [t EXCEPT !.capped = TRUE]
        /\ UNCHANGED <<auto, profiler, held, report, strayCall>>
    BY <1>7 DEF Cap
  <2>2. /\ t \in Memory /\ t.running = FALSE /\ t.timer # "armed" /\ t.unit = m.unit
        /\ t.next_handle = m.next_handle /\ t.owner_pid = m.owner_pid /\ t.samples = m.samples
    BY <1>1, StopDisarms
  <2> HIDE DEF t
  <2>3. /\ m' \in Memory /\ m'.running = FALSE /\ m'.timer # "armed" /\ m'.unit = m.unit
        /\ m'.next_handle = m.next_handle /\ m'.owner_pid = m.owner_pid /\ m'.samples = m.samples
    BY <2>1, <2>2 DEF Memory
  <2>4. Consistent(m', pid, serial, phase)
    BY <1>1, <2>3 DEF Consistent, Numbered, Armed, Owned
  <2>5. IInv'
    BY <1>1, <2>1, <2>4, QuietStep
  <2>6. QED
    BY <2>3, <2>5
<1>8. QED
  BY <1>2, <1>3, <1>4, <1>5, <1>6, <1>7

(* finish() returns what the unit gathered, and the unit is gone. *)
LEMMA FinishForgets ==
    ASSUME IInv, NEW h, Finish(h)
    PROVE  m'.unit.profiling => m'.samples = m.samples
<1> DEFINE s == DetectFork(m)
<1>1. pid \in Pids /\ Consistent(m, pid, serial, phase)
  BY DEF IInv, TypeOK
<1>2. /\ Consistent(s, pid, serial, phase)
      /\ m.owner_pid = pid => s = m
      /\ m.owner_pid # pid => s.unit = NoUnit
  BY <1>1, DetectForkConsistent
<1>3. m' = ShutdownUnit(s) \/ m' = s
  BY DEF Finish, ShutdownUnit
<1> HIDE DEF s
<1>4. ShutdownUnit(s).unit = NoUnit
  BY <1>2, ShutdownConsistent
<1>5. QED
  BY <1>2, <1>3, <1>4, NoUnitFields

LEMMA Initially ==
    Init => IInv
<1> SUFFICES ASSUME Init
             PROVE  IInv
  OBVIOUS
<1> USE TelemetryAssumption DEF Init
<1>1. 0 \in Pids /\ 0 \in Serials /\ 0 \in Handles
  BY DEF Pids, Serials, Handles
<1>2. /\ m \in Memory /\ m.unit = NoUnit /\ m.next_handle = 0 /\ m.owner_pid = 0
      /\ m.timer = "absent" /\ m.samples = {} /\ m.running = FALSE
  BY <1>1, NoUnitFields DEF Memory
<1>3. TypeOK
  BY <1>1, <1>2 DEF TypeOK, NoReport
<1>4. Consistent(m, pid, serial, phase)
  BY <1>2, NoUnitFields DEF Consistent, Numbered, Armed, Owned
<1>5. HandlesAreSerials /\ ReportIsOwn /\ HandleFinishesItsUnit
  BY DEF HandlesAreSerials, ReportIsOwn, HandleFinishesItsUnit, NoReport
<1>6. QED
  BY <1>3, <1>4, <1>5 DEF IInv

LEMMA Inductive ==
    ASSUME IInv, [Next]_vars
    PROVE  IInv'
<1>1. CASE UNCHANGED vars
  BY <1>1 DEF vars, IInv, TypeOK, HandlesAreSerials, ReportIsOwn, HandleFinishesItsUnit,
              Consistent, Numbered, Armed, Owned, Adoptable
<1>2. CASE Next
  BY <1>2, BeginStep, FinishStep, RInitStep, OtherSteps, Zenon DEF Next
<1>3. QED
  BY <1>1, <1>2

LEMMA Invariant ==
    Spec => []IInv
  BY Initially, Inductive, PTL DEF Spec

-----------------------------------------------------------------------------
(* The theorems *)

(* Every variable stays in its type; handles do not wrap. *)
THEOREM TypeCorrect ==
    Spec => []TypeOK
<1>1. IInv => TypeOK
  BY DEF IInv
<1>2. QED
  BY <1>1, Invariant, PTL

(* Whatever mix of begins, finishes, fatal errors, forks, capped profiles  *)
(* and failed system calls came before, a timer is armed only for an open, *)
(* sampled and profiled unit of the process that armed it, and an aware    *)
(* process believes in no timer it does not have.                          *)
THEOREM TimerArmedOnlyForUnit ==
    Spec => []ArmedOnlyForUnit
<1>1. IInv => ArmedOnlyForUnit
  BY DEF IInv, Consistent, Armed, Owned, ArmedOnlyForUnit, IsOpen, Aware
<1>2. QED
  BY <1>1, Invariant, PTL

(* The profile belongs to the unit that is open, and what is reported was  *)
(* sampled by the reporting process for the unit reported.                 *)
THEOREM SamplesBelongToUnit ==
    Spec => []SamplesAreOwn
<1>1. IInv => SamplesAreOwn
  BY DEF IInv, Consistent, Owned, ReportIsOwn, SamplesAreOwn, IsOpen, Aware
<1>2. QED
  BY <1>1, Invariant, PTL

(* finish() with a stale handle finishes nothing: a handle is the number   *)
(* of its unit, and only the last unit can be open.                        *)
THEOREM StaleHandlesAreRefused ==
    Spec => []HandleFinishesItsUnit
<1>1. IInv => HandleFinishesItsUnit
  BY DEF IInv
<1>2. QED
  BY <1>1, Invariant, PTL

(* The deadline is there exactly while the unit that runs is automatic and *)
(* has not been adopted.                                                   *)
THEOREM ValveFollowsOwnership ==
    Spec => []ValveIffUnattended
<1>1. IInv => ValveIffUnattended
  BY DEF IInv, Consistent, Armed, ValveIffUnattended
<1>2. QED
  BY <1>1, Invariant, PTL

(* No step drops samples of a unit that goes on with its profile; begin()  *)
(* over an automatic unit in particular keeps them.                        *)
THEOREM AdoptionKeepsSamples ==
    Spec => SamplesSurviveAdoption
<1> DEFINE Kept == ~(m.samples \subseteq m'.samples)
                      => m'.unit.handle # m.unit.handle \/ ~m'.unit.profiling
<1>1. ASSUME IInv, [Next]_vars
      PROVE  [Kept]_vars
  <2>1. CASE UNCHANGED vars
    BY <2>1
  <2>2. CASE Next
    <3>1. ASSUME NEW sampled \in BOOLEAN, NEW want \in BOOLEAN, NEW reply \in Replies,
                 Begin(sampled, want, reply)
          PROVE  Kept
      BY <1>1, <3>1, BeginStep, Zenon
    <3>2. ASSUME NEW h, Finish(h)
          PROVE  Kept
      BY <1>1, <3>2, FinishForgets
    <3>3. ASSUME NEW reply \in Replies, RInit(reply)
          PROVE  Kept
      BY <1>1, <3>3, RInitStep, Zenon
    <3>4. CASE Status \/ RShutdown \/ MShutdown \/ Fork \/ TakeSample \/ Cap
      BY <1>1, <3>4, OtherSteps, Zenon
    <3> HIDE DEF Kept
    <3>5. QED
      BY <2>2, <3>1, <3>2, <3>3, <3>4, Zenon DEF Next
  <2>3. QED
    BY <1>1, <2>1, <2>2
<1>2. QED
  BY <1>1, Invariant, PTL DEF Spec, SamplesSurviveAdoption

-----------------------------------------------------------------------------
(* Control flow *)

(* The instruction pairs of a program of Profiler. *)
Flow == {<<"get_ticks", "get_deliveries">>, <<"get_deliveries", "account">>,
         <<"reset", "limit">>, <<"reset", "unlimit">>,
         <<"limit", "arm">>, <<"unlimit", "arm">>, <<"arm", "run">>,
         <<"disarm", "halt">>, <<"halt", "drop_ticks">>,
         <<"drop_ticks", "drop_deliveries">>,
         <<"drop_deliveries", "reset">>, <<"drop_deliveries", "cap">>}

(* The instructions a program may end with. *)
Final == {"account", "reset", "run", "cap"}

(* s is what is left of a program. *)
Remainder(s) ==
    /\ s \in Seq(Instructions)
    /\ \A k \in 1 .. Len(s) - 1 : <<s[k], s[k + 1]>> \in Flow
    /\ s # <<>> => s[Len(s)] \in Final

(* The instruction the PHP thread executes next. *)
At == IF todo = <<>> THEN "php" ELSE Head(todo)

-----------------------------------------------------------------------------
(* The inductive invariant *)

(* The timer runs with the profile, except in these stretches of a start   *)
(* or a stop.                                                              *)
Stopping == {"drop_ticks", "drop_deliveries"}
Clear    == {"reset", "limit", "unlimit", "arm", "cap"}
Starting == {"limit", "unlimit", "arm", "run"}

(* How far the profile is set up when the thread is at its instruction. *)
AtInstruction ==
    /\ At \in {"php", "get_ticks", "get_deliveries", "account"} =>
          /\ armed <=> prof.running
          /\ ~prof.running => ticks = 0 /\ deliveries = 0
    /\ At = "disarm" => armed /\ prof.running
    /\ At = "halt" => ~armed /\ prof.running
    /\ At \in Stopping \cup Clear => ~armed /\ ~prof.running
    /\ At = "drop_deliveries" => ticks = 0
    /\ At \in Clear => ticks = 0 /\ deliveries = 0
    /\ At \in Starting => /\ prof.samples = 0 /\ prof.dropped = 0
                          /\ signalled = ticks
    /\ At = "run" => armed /\ ~prof.running

(* The interrupt holds ticks only between its first read and its end, and  *)
(* only of a profile that runs.                                            *)
HeldTicks ==
    /\ local.ticks > 0 => At \in {"get_deliveries", "account"}
    /\ ~prof.running => local.ticks = 0

(* Once the deadline has passed, the safe points handled since are among   *)
(* those counted since the clock was last looked at, until the profile is  *)
(* about to stop.                                                          *)
Lateness ==
    /\ past => prof.deadline
    /\ ~past => late = 0
    /\ late <= CheckEvery
    /\ prof.running /\ At \notin {"disarm", "halt"} => late <= prof.since_interrupts
    /\ At \in Starting => ~past

ProfilerInv ==
    /\ ProfilerTypeOK
    /\ Remainder(todo)
    /\ AtInstruction
    /\ HeldTicks
    /\ Lateness
    /\ TickConservation
    /\ TicksAreNoticed

-----------------------------------------------------------------------------
(* Lemmas about programs *)

(* Executing an instruction moves the thread along Flow, and to PHP code   *)
(* only from a final instruction.                                          *)
LEMMA Advance ==
    ASSUME Remainder(todo), todo # <<>>, todo' = Tail(todo)
    PROVE  /\ Remainder(todo')
           /\ At \in Instructions
           /\ At' = "php" => At \in Final
           /\ At' # "php" => <<At, At'>> \in Flow
<1> USE DEF Remainder
<1>1. /\ Len(todo) \in Nat \ {0}
      /\ \A k \in 1 .. Len(todo) : todo[k] \in Instructions
      /\ Head(todo) = todo[1]
  OBVIOUS
<1>2. /\ todo' \in Seq(Instructions)
      /\ Len(todo') = Len(todo) - 1
      /\ \A k \in 1 .. Len(todo) - 1 : todo'[k] = todo[k + 1]
  OBVIOUS
<1>3. \A k \in 1 .. Len(todo') - 1 : <<todo'[k], todo'[k + 1]>> \in Flow
  <2> SUFFICES ASSUME NEW k \in 1 .. Len(todo') - 1
               PROVE  <<todo'[k], todo'[k + 1]>> \in Flow
    OBVIOUS
  <2>1. /\ k \in 1 .. Len(todo) - 1 /\ k + 1 \in 1 .. Len(todo) - 1
        /\ todo'[k] = todo[k + 1] /\ todo'[k + 1] = todo[(k + 1) + 1]
    BY <1>1, <1>2
  <2>2. QED
    BY <2>1
<1>4. todo' # <<>> => todo'[Len(todo')] \in Final
  BY <1>1, <1>2
<1>5. At \in Instructions /\ At = todo[1]
  BY <1>1 DEF At
<1>6. CASE todo' = <<>>
  <2>1. At' = "php" /\ Len(todo') = 0
    BY <1>6 DEF At
  <2>2. Len(todo) = 1
    BY <1>1, <1>2, <2>1
  <2>3. At \in Final
    BY <1>5, <2>2
  <2>4. QED
    BY <1>2, <1>3, <1>4, <1>5, <2>1, <2>3
<1>7. CASE todo' # <<>>
  <2>1. At' = todo'[1] /\ Len(todo') \in Nat \ {0}
    BY <1>2, <1>7 DEF At
  <2>2. At' = todo[2] /\ 1 \in 1 .. Len(todo) - 1
    BY <1>1, <1>2, <2>1
  <2>3. <<todo[1], todo[2]>> \in Flow
    BY <2>2
  <2>4. At' # "php"
    BY <2>3, <2>2 DEF Flow
  <2>5. QED
    BY <1>2, <1>3, <1>4, <1>5, <2>2, <2>3, <2>4
<1>8. QED
  BY <1>6, <1>7

(* A stop in front of what is left of a program that may follow it. *)
LEMMA StopThen ==
    ASSUME NEW r, Remainder(r), r # <<>>, r[1] \in {"reset", "cap"}
    PROVE  /\ Remainder(StopProgram \o r)
           /\ StopProgram \o r # <<>>
           /\ Head(StopProgram \o r) = "disarm"
<1> DEFINE s == StopProgram \o r
<1>1. r \in Seq(Instructions) /\ Len(r) \in Nat \ {0}
  BY DEF Remainder
<1>2. /\ StopProgram \in Seq(Instructions) /\ Len(StopProgram) = 4
      /\ StopProgram[1] = "disarm" /\ StopProgram[2] = "halt"
      /\ StopProgram[3] = "drop_ticks" /\ StopProgram[4] = "drop_deliveries"
  BY DEF StopProgram, Instructions
<1>3. /\ s \in Seq(Instructions) /\ Len(s) = Len(r) + 4
      /\ \A k \in 1 .. 4 : s[k] = StopProgram[k]
      /\ \A k \in 5 .. Len(r) + 4 : s[k] = r[k - 4]
  <2>1. /\ s \in Seq(Instructions) /\ Len(s) = Len(StopProgram) + Len(r)
        /\ \A k \in 1 .. Len(StopProgram) + Len(r) :
              s[k] = IF k <= Len(StopProgram) THEN StopProgram[k]
                                              ELSE r[k - Len(StopProgram)]
    BY <1>1, <1>2, ConcatProperties, Zenon
  <2> HIDE DEF s
  <2>2. QED
    BY <1>1, <1>2, <2>1
<1> HIDE DEF s
<1>4. ASSUME NEW k \in 1 .. Len(s) - 1
      PROVE  <<s[k], s[k + 1]>> \in Flow
  <2>1. CASE k = 1
    BY <1>2, <1>3, <2>1 DEF Flow
  <2>2. CASE k = 2
    BY <1>2, <1>3, <2>2 DEF Flow
  <2>3. CASE k = 3
    BY <1>2, <1>3, <2>3 DEF Flow
  <2>4. CASE k = 4
    <3>1. s[5] = r[1]
      BY <1>1, <1>3
    <3>2. QED
      BY <1>2, <1>3, <2>4, <3>1 DEF Flow
  <2>5. CASE k > 4
    <3>1. /\ k - 4 \in 1 .. Len(r) - 1
          /\ s[k] = r[k - 4] /\ s[k + 1] = r[(k - 4) + 1]
      BY <1>1, <1>3, <2>5
    <3>2. QED
      BY <3>1 DEF Remainder
  <2>6. QED
    BY <1>1, <1>3, <2>1, <2>2, <2>3, <2>4, <2>5
<1>5. s # <<>> /\ Head(s) = s[1] /\ s[1] = "disarm"
  BY <1>1, <1>2, <1>3
<1>6. s[Len(s)] = r[Len(r)]
  BY <1>1, <1>3
<1>7. QED
  BY <1>1, <1>3, <1>4, <1>5, <1>6 DEF Remainder, s

(* The programs of Profiler are built along Flow. *)
LEMMA Programs ==
    /\ Remainder(<<>>)
    /\ Remainder(InterruptProgram) /\ Head(InterruptProgram) = "get_ticks"
    /\ InterruptProgram # <<>>
    /\ Remainder(StopProgram \o <<"cap">>) /\ Head(StopProgram \o <<"cap">>) = "disarm"
    /\ StopProgram \o <<"cap">> # <<>>
    /\ Remainder(StopIfRunning \o <<"reset">>)
    /\ StopIfRunning \o <<"reset">> # <<>>
    /\ Head(StopIfRunning \o <<"reset">>) = IF prof.running THEN "disarm" ELSE "reset"
    /\ \A limited \in BOOLEAN :
          /\ Remainder(StopIfRunning \o StartProgram(limited))
          /\ StopIfRunning \o StartProgram(limited) # <<>>
          /\ Head(StopIfRunning \o StartProgram(limited))
                = IF prof.running THEN "disarm" ELSE "reset"
<1>1. Remainder(<<>>)
  BY DEF Remainder
<1>2. /\ Remainder(InterruptProgram) /\ Head(InterruptProgram) = "get_ticks"
      /\ InterruptProgram # <<>>
  BY DEF InterruptProgram, Remainder, Instructions, Flow, Final
<1>3. /\ Remainder(<<"cap">>) /\ <<"cap">>[1] = "cap" /\ <<"cap">> # <<>>
      /\ Remainder(<<"reset">>) /\ Head(<<"reset">>) = "reset"
      /\ <<"reset">>[1] = "reset" /\ <<"reset">> # <<>>
      /\ <<>> \o <<"reset">> = <<"reset">>
  BY DEF Remainder, Instructions, Final
<1>4. ASSUME NEW limited \in BOOLEAN
      PROVE  LET s == StartProgram(limited)
             IN  /\ Remainder(s) /\ Head(s) = "reset" /\ s[1] = "reset" /\ s # <<>>
                 /\ <<>> \o s = s
  BY DEF StartProgram, Remainder, Instructions, Flow, Final
<1>5. /\ Remainder(StopProgram \o <<"cap">>) /\ Head(StopProgram \o <<"cap">>) = "disarm"
      /\ StopProgram \o <<"cap">> # <<>>
  BY <1>3, StopThen
<1>6. /\ Remainder(StopIfRunning \o <<"reset">>)
      /\ StopIfRunning \o <<"reset">> # <<>>
      /\ Head(StopIfRunning \o <<"reset">>) = IF prof.running THEN "disarm" ELSE "reset"
  BY <1>3, StopThen DEF StopIfRunning
<1>7. ASSUME NEW limited \in BOOLEAN
      PROVE  /\ Remainder(StopIfRunning \o StartProgram(limited))
             /\ StopIfRunning \o StartProgram(limited) # <<>>
             /\ Head(StopIfRunning \o StartProgram(limited))
                  = IF prof.running THEN "disarm" ELSE "reset"
  BY <1>4, StopThen DEF StopIfRunning
<1>8. QED
  BY <1>1, <1>2, <1>5, <1>6, <1>7

(* The instruction x is executed, and the thread moves on. *)
LEMMA Moves ==
    ASSUME Remainder(todo), NEW x, Executes(x), todo' = Tail(todo)
    PROVE  /\ Remainder(todo)'
           /\ At = x
           /\ At' = "php" => x \in Final
           /\ At' # "php" => <<x, At'>> \in Flow
<1>1. At = x
  BY DEF Executes, At
<1>2. QED
  BY <1>1, Advance DEF Executes

(* A call from PHP code puts the thread at the head of a program. *)
LEMMA Calls ==
    ASSUME NEW s, todo' = s, Remainder(s)
    PROVE  /\ Remainder(todo)'
           /\ At' = IF s = <<>> THEN "php" ELSE Head(s)
  BY DEF At

(* What TicksAreNoticed says, in terms of the next instruction. *)
LEMMA NoticedAt ==
    TicksAreNoticed <=> (ticks > 0 => vmInterrupt \/ At = "get_ticks")
  BY DEF TicksAreNoticed, At

(* The numbers of a state. *)
LEMMA Numbers ==
    ASSUME ProfilerTypeOK
    PROVE  /\ ticks \in Nat /\ deliveries \in Nat /\ signalled \in Nat /\ late \in Nat
           /\ local.ticks \in Nat /\ local.deliveries \in Nat
           /\ prof.samples \in Nat /\ prof.dropped \in Nat
           /\ prof.since_interrupts \in 0 .. CheckEvery - 1
           /\ prof.since_ticks \in 0 .. CheckEvery - 1
           /\ prof.running \in BOOLEAN /\ prof.deadline \in BOOLEAN
  BY DEF ProfilerTypeOK, Prof

-----------------------------------------------------------------------------
(* Every step preserves the invariant *)

(* A signal lands: at no instruction does it undo what holds there. *)
LEMMA SignalStep ==
    ASSUME ProfilerInv, NEW overrun \in 0 .. MaxOverrun, Signal(overrun)
    PROVE  ProfilerInv'
<1> USE ProfilerAssumption
<1>1. At' = At /\ UNCHANGED <<todo, prof, local, armed, past, late>>
  BY DEF Signal, At
<1>2. /\ ticks' = ticks + 1 + overrun /\ signalled' = signalled + 1 + overrun
      /\ deliveries' = deliveries + 1 /\ vmInterrupt' = TRUE
  BY DEF Signal, FlagRaised
<1>3. ProfilerTypeOK' /\ Remainder(todo)'
  BY <1>1, <1>2 DEF ProfilerInv, ProfilerTypeOK
<1>4. AtInstruction'
  BY <1>1, <1>2 DEF ProfilerInv, ProfilerTypeOK, AtInstruction, Signal, Stopping, Clear, Starting
<1>5. HeldTicks' /\ Lateness'
  BY <1>1 DEF ProfilerInv, HeldTicks, Lateness
<1>6. TickConservation'
  BY <1>1, <1>2, Numbers DEF ProfilerInv, TickConservation
<1>7. TicksAreNoticed'
  BY <1>2 DEF TicksAreNoticed
<1>8. QED
  BY <1>3, <1>4, <1>5, <1>6, <1>7 DEF ProfilerInv

(* PHP code calls into the profiler, or the engine reaches a safe point. *)
LEMMA CallStep ==
    ASSUME ProfilerInv, NEW s, Remainder(s), todo = <<>>, todo' = s, s # <<>>,
           UNCHANGED <<ticks, deliveries, armed, prof, local, past, signalled, late>>,
           vmInterrupt' \in BOOLEAN,
           \/ Head(s) = "get_ticks"
           \/ Head(s) = "disarm" /\ prof.running /\ UNCHANGED vmInterrupt
           \/ Head(s) = "reset" /\ ~prof.running /\ UNCHANGED vmInterrupt
    PROVE  ProfilerInv'
<1>1. Remainder(todo)' /\ At = "php" /\ At' = Head(s)
  BY DEF At
<1>2. ProfilerTypeOK'
  BY DEF ProfilerInv, ProfilerTypeOK, Remainder
<1>3. AtInstruction' /\ HeldTicks' /\ Lateness' /\ TickConservation'
  BY <1>1 DEF ProfilerInv, ProfilerTypeOK, AtInstruction, HeldTicks, Lateness, TickConservation,
              Stopping, Clear, Starting
<1>4. TicksAreNoticed'
  <2>1. ticks > 0 => vmInterrupt
    BY <1>1, NoticedAt DEF ProfilerInv
  <2>2. CASE At' = "get_ticks"
    BY <2>2 DEF TicksAreNoticed, At
  <2>3. CASE UNCHANGED vmInterrupt
    BY <2>1, <2>3, Zenon DEF TicksAreNoticed
  <2>4. QED
    BY <1>1, <2>2, <2>3
<1>5. QED
  BY <1>1, <1>2, <1>3, <1>4 DEF ProfilerInv

(* The interrupt takes the pending ticks. *)
LEMMA GetTicksStep ==
    ASSUME ProfilerInv, GetTicks
    PROVE  ProfilerInv'
<1> USE ProfilerAssumption
<1>1. Remainder(todo)' /\ At = "get_ticks" /\ At' = "get_deliveries"
  BY Moves DEF ProfilerInv, GetTicks, Flow, Final
<1>2. ProfilerTypeOK'
  BY <1>1 DEF ProfilerInv, ProfilerTypeOK, Remainder, GetTicks
<1>3. AtInstruction'
  BY <1>1, Numbers DEF ProfilerInv, AtInstruction, Stopping, Clear,
    Starting, GetTicks
<1>4. HeldTicks'
  BY <1>1, Numbers DEF ProfilerInv, ProfilerTypeOK, AtInstruction, HeldTicks, GetTicks
<1>5. Lateness'
  BY <1>1, Numbers DEF ProfilerInv, AtInstruction, Lateness, Stopping, Clear,
    Starting, GetTicks
<1>6. TickConservation'
  BY <1>1, Numbers DEF ProfilerInv, AtInstruction, HeldTicks, TickConservation,
                       Stopping, Clear,
    Starting, GetTicks
<1>7. TicksAreNoticed'
  BY DEF TicksAreNoticed, GetTicks
<1>8. QED
  BY <1>1, <1>2, <1>3, <1>4, <1>5, <1>6, <1>7 DEF ProfilerInv

(* The interrupt takes the pending deliveries. *)
LEMMA GetDeliveriesStep ==
    ASSUME ProfilerInv, GetDeliveries
    PROVE  ProfilerInv'
<1> USE ProfilerAssumption
<1>1. Remainder(todo)' /\ At = "get_deliveries" /\ At' = "account"
  BY Moves DEF ProfilerInv, GetDeliveries, Flow, Final
<1>2. ProfilerTypeOK'
  BY <1>1 DEF ProfilerInv, ProfilerTypeOK, Remainder, GetDeliveries
<1>3. AtInstruction'
  BY <1>1, Numbers DEF ProfilerInv, AtInstruction, Stopping, Clear,
    Starting, GetDeliveries
<1>4. HeldTicks'
  BY <1>1, Numbers DEF ProfilerInv, HeldTicks, GetDeliveries
<1>5. Lateness'
  BY <1>1, Numbers DEF ProfilerInv, AtInstruction, Lateness, Stopping, Clear,
    Starting, GetDeliveries
<1>6. TickConservation'
  BY <1>1, Numbers DEF ProfilerInv, AtInstruction, HeldTicks, TickConservation,
                       Stopping, Clear,
    Starting, GetDeliveries
<1>7. TicksAreNoticed'
  <2>1. ticks > 0 => vmInterrupt
    BY <1>1, NoticedAt DEF ProfilerInv
  <2>2. QED
    BY <2>1, Zenon DEF TicksAreNoticed, GetDeliveries
<1>8. QED
  BY <1>1, <1>2, <1>3, <1>4, <1>5, <1>6, <1>7 DEF ProfilerInv

(* The interrupt finds nothing to do. *)
LEMMA NothingPendingStep ==
    ASSUME ProfilerInv, NothingPending
    PROVE  ProfilerInv'
<1> USE ProfilerAssumption
<1>1. Remainder(todo)' /\ At = "account" /\ At' = "php"
  BY Moves DEF ProfilerInv, NothingPending, Flow, Final
<1>2. ProfilerTypeOK'
  BY <1>1 DEF ProfilerInv, ProfilerTypeOK, Remainder, NothingPending
<1>3. AtInstruction'
  BY <1>1, Numbers DEF ProfilerInv, AtInstruction, Stopping, Clear,
    Starting, NothingPending
<1>4. HeldTicks'
  BY <1>1, Numbers DEF ProfilerInv, HeldTicks, NothingPending
<1>5. Lateness'
  BY <1>1, Numbers DEF ProfilerInv, AtInstruction, Lateness, Stopping, Clear,
    Starting, NothingPending
<1>6. TickConservation'
  BY <1>1, Numbers DEF ProfilerInv, AtInstruction, HeldTicks, TickConservation,
                       Stopping, Clear,
    Starting, NothingPending
<1>7. TicksAreNoticed'
  <2>1. ticks > 0 => vmInterrupt
    BY <1>1, NoticedAt DEF ProfilerInv
  <2>2. QED
    BY <2>1, Zenon DEF TicksAreNoticed, NothingPending
<1>8. QED
  BY <1>1, <1>2, <1>3, <1>4, <1>5, <1>6, <1>7 DEF ProfilerInv

(* A stop disarms the timer first. *)
LEMMA DisarmStep ==
    ASSUME ProfilerInv, DoDisarm
    PROVE  ProfilerInv'
<1> USE ProfilerAssumption
<1>1. Remainder(todo)' /\ At = "disarm" /\ At' = "halt"
  BY Moves DEF ProfilerInv, DoDisarm, Flow, Final
<1>2. ProfilerTypeOK'
  BY <1>1 DEF ProfilerInv, ProfilerTypeOK, Remainder, DoDisarm
<1>3. AtInstruction'
  BY <1>1, Numbers DEF ProfilerInv, AtInstruction, Stopping, Clear,
    Starting, DoDisarm
<1>4. HeldTicks'
  BY <1>1, Numbers DEF ProfilerInv, HeldTicks, DoDisarm
<1>5. Lateness'
  BY <1>1, Numbers DEF ProfilerInv, AtInstruction, Lateness, Stopping, Clear,
    Starting, DoDisarm
<1>6. TickConservation'
  BY <1>1, Numbers DEF ProfilerInv, AtInstruction, HeldTicks, TickConservation,
                       Stopping, Clear,
    Starting, DoDisarm
<1>7. TicksAreNoticed'
  <2>1. ticks > 0 => vmInterrupt
    BY <1>1, NoticedAt DEF ProfilerInv
  <2>2. QED
    BY <2>1, Zenon DEF TicksAreNoticed, DoDisarm
<1>8. QED
  BY <1>1, <1>2, <1>3, <1>4, <1>5, <1>6, <1>7 DEF ProfilerInv

(* A stop drops the pending ticks. *)
LEMMA DropTicksStep ==
    ASSUME ProfilerInv, DropTicks
    PROVE  ProfilerInv'
<1> USE ProfilerAssumption
<1>1. Remainder(todo)' /\ At = "drop_ticks" /\ At' = "drop_deliveries"
  BY Moves DEF ProfilerInv, DropTicks, Flow, Final
<1>2. ProfilerTypeOK'
  BY <1>1 DEF ProfilerInv, ProfilerTypeOK, Remainder, DropTicks
<1>3. AtInstruction'
  BY <1>1, Numbers DEF ProfilerInv, AtInstruction, Stopping, Clear,
    Starting, DropTicks
<1>4. HeldTicks'
  BY <1>1, Numbers DEF ProfilerInv, HeldTicks, DropTicks
<1>5. Lateness'
  BY <1>1, Numbers DEF ProfilerInv, AtInstruction, Lateness, Stopping, Clear,
    Starting, DropTicks
<1>6. TickConservation'
  BY <1>1, Numbers DEF ProfilerInv, AtInstruction, HeldTicks, TickConservation,
                       Stopping, Clear,
    Starting, DropTicks
<1>7. TicksAreNoticed'
  BY DEF TicksAreNoticed, DropTicks
<1>8. QED
  BY <1>1, <1>2, <1>3, <1>4, <1>5, <1>6, <1>7 DEF ProfilerInv

(* A stop drops the pending deliveries. *)
LEMMA DropDeliveriesStep ==
    ASSUME ProfilerInv, DropDeliveries
    PROVE  ProfilerInv'
<1> USE ProfilerAssumption
<1>1. Remainder(todo)' /\ At = "drop_deliveries" /\ At' \in {"reset", "cap"}
  BY Moves DEF ProfilerInv, DropDeliveries, Flow, Final
<1>2. ProfilerTypeOK'
  BY <1>1 DEF ProfilerInv, ProfilerTypeOK, Remainder, DropDeliveries
<1>3. AtInstruction'
  BY <1>1, Numbers DEF ProfilerInv, AtInstruction, Stopping, Clear,
    Starting, DropDeliveries
<1>4. HeldTicks'
  BY <1>1, Numbers DEF ProfilerInv, HeldTicks, DropDeliveries
<1>5. Lateness'
  BY <1>1, Numbers DEF ProfilerInv, AtInstruction, Lateness, Stopping, Clear,
    Starting, DropDeliveries
<1>6. TickConservation'
  BY <1>1, Numbers DEF ProfilerInv, AtInstruction, HeldTicks, TickConservation,
                       Stopping, Clear,
    Starting, DropDeliveries
<1>7. TicksAreNoticed'
  <2>1. ticks > 0 => vmInterrupt
    BY <1>1, NoticedAt DEF ProfilerInv
  <2>2. QED
    BY <2>1, Zenon DEF TicksAreNoticed, DropDeliveries
<1>8. QED
  BY <1>1, <1>2, <1>3, <1>4, <1>5, <1>6, <1>7 DEF ProfilerInv

(* The struct is cleared. *)
LEMMA ResetStep ==
    ASSUME ProfilerInv, DoReset
    PROVE  ProfilerInv'
<1> USE ProfilerAssumption
<1>1. Remainder(todo)' /\ At = "reset" /\ At' \in {"php", "limit", "unlimit"}
  BY Moves DEF ProfilerInv, DoReset, Flow, Final
<1>2. /\ prof'.running = prof.running /\ prof'.deadline = prof.deadline
      /\ prof'.samples = 0 /\ prof'.dropped = 0 /\ prof'.since_interrupts = 0
      /\ prof' \in Prof
  <2>1. 0 \in 0 .. CheckEvery - 1
    OBVIOUS
  <2>2. prof.running \in BOOLEAN /\ prof.deadline \in BOOLEAN
    BY Numbers DEF ProfilerInv
  <2>3. Reset(prof) \in Prof
    BY <2>1, <2>2 DEF Reset, Prof
  <2>4. QED
    BY <2>3 DEF DoReset, Reset
<1>3. ProfilerTypeOK'
  BY <1>1, <1>2 DEF ProfilerInv, ProfilerTypeOK, Remainder, DoReset
<1>4. AtInstruction'
  BY <1>1, <1>2, Numbers DEF ProfilerInv, AtInstruction, Stopping, Clear,
    Starting, DoReset
<1>5. HeldTicks'
  BY <1>1, <1>2, Numbers DEF ProfilerInv, HeldTicks, DoReset
<1>6. Lateness'
  BY <1>1, <1>2, Numbers DEF ProfilerInv, AtInstruction, Lateness, Stopping, Clear,
    Starting, DoReset
<1>7. TickConservation'
  BY <1>1, <1>2, Numbers DEF ProfilerInv, AtInstruction, HeldTicks, TickConservation,
                       Stopping, Clear,
    Starting, DoReset
<1>8. TicksAreNoticed'
  <2>1. ticks > 0 => vmInterrupt
    BY <1>1, NoticedAt DEF ProfilerInv
  <2>2. QED
    BY <2>1, Zenon DEF TicksAreNoticed, DoReset
<1>9. QED
  BY <1>1, <1>3, <1>4, <1>5, <1>6, <1>7, <1>8 DEF ProfilerInv

(* A start sets or clears the deadline. *)
LEMMA LimitStep ==
    ASSUME ProfilerInv, DoLimit
    PROVE  ProfilerInv'
<1> USE ProfilerAssumption
<1>1. Remainder(todo)' /\ At \in {"limit", "unlimit"} /\ At' = "arm"
  BY Moves DEF ProfilerInv, DoLimit, SetProf, Flow, Final
<1>2. /\ prof' \in Prof
      /\ prof'.samples = prof.samples /\ prof'.dropped = prof.dropped
      /\ prof'.since_interrupts = prof.since_interrupts
      /\ prof'.running = prof.running
  BY DEF ProfilerInv, ProfilerTypeOK, Prof, DoLimit, SetProf
<1>3. UNCHANGED <<ticks, deliveries, vmInterrupt, armed, local, signalled, past, late>>
  BY DEF DoLimit, SetProf
<1>4. ProfilerTypeOK'
  BY <1>1, <1>2, <1>3 DEF ProfilerInv, ProfilerTypeOK, Remainder
<1>5. AtInstruction'
  BY <1>1, <1>2, <1>3, Numbers DEF ProfilerInv, AtInstruction, Stopping, Clear, Starting
<1>6. HeldTicks'
  BY <1>1, <1>2, <1>3, Numbers DEF ProfilerInv, AtInstruction, HeldTicks, Stopping,
    Clear, Starting
<1>7. Lateness'
  BY <1>1, <1>2, <1>3, Numbers DEF ProfilerInv, AtInstruction, Lateness, Stopping, Clear, Starting
<1>8. TickConservation'
  BY <1>1, <1>2, <1>3, Numbers DEF ProfilerInv, AtInstruction, HeldTicks, TickConservation,
                       Stopping, Clear, Starting
<1>9. TicksAreNoticed'
  <2>1. ticks > 0 => vmInterrupt
    BY <1>1, NoticedAt DEF ProfilerInv
  <2>2. QED
    BY <1>3, <2>1, Zenon DEF TicksAreNoticed
<1>10. QED
  BY <1>1, <1>4, <1>5, <1>6, <1>7, <1>8, <1>9 DEF ProfilerInv

(* A start ends: the profile runs. *)
LEMMA RunStep ==
    ASSUME ProfilerInv, DoRun
    PROVE  ProfilerInv'
<1> USE ProfilerAssumption
<1>1. Remainder(todo)' /\ At = "run" /\ At' = "php"
  BY Moves DEF ProfilerInv, DoRun, SetProf, Flow, Final
<1>2. /\ prof' \in Prof
      /\ prof'.samples = prof.samples /\ prof'.dropped = prof.dropped
      /\ prof'.since_interrupts = prof.since_interrupts
      /\ prof'.running = TRUE /\ prof'.deadline = prof.deadline
  BY DEF ProfilerInv, ProfilerTypeOK, Prof, DoRun, SetProf
<1>3. UNCHANGED <<ticks, deliveries, vmInterrupt, armed, local, signalled, past, late>>
  BY DEF DoRun, SetProf
<1>4. ProfilerTypeOK'
  BY <1>1, <1>2, <1>3 DEF ProfilerInv, ProfilerTypeOK, Remainder
<1>5. AtInstruction'
  BY <1>1, <1>2, <1>3, Numbers DEF ProfilerInv, AtInstruction, Stopping, Clear, Starting
<1>6. HeldTicks'
  BY <1>1, <1>2, <1>3, Numbers DEF ProfilerInv, AtInstruction, HeldTicks, Stopping,
    Clear, Starting
<1>7. Lateness'
  BY <1>1, <1>2, <1>3, Numbers DEF ProfilerInv, AtInstruction, Lateness, Stopping, Clear, Starting
<1>8. TickConservation'
  BY <1>1, <1>2, <1>3, Numbers DEF ProfilerInv, AtInstruction, HeldTicks, TickConservation,
                       Stopping, Clear, Starting
<1>9. TicksAreNoticed'
  <2>1. ticks > 0 => vmInterrupt
    BY <1>1, NoticedAt DEF ProfilerInv
  <2>2. QED
    BY <1>3, <2>1, Zenon DEF TicksAreNoticed
<1>10. QED
  BY <1>1, <1>4, <1>5, <1>6, <1>7, <1>8, <1>9 DEF ProfilerInv

(* A stop marks the profile as not running. *)
LEMMA HaltStep ==
    ASSUME ProfilerInv, DoHalt
    PROVE  ProfilerInv'
<1> USE ProfilerAssumption
<1>1. Remainder(todo)' /\ At = "halt" /\ At' = "drop_ticks"
  BY Moves DEF ProfilerInv, DoHalt, SetProf, Flow, Final
<1>2. /\ prof' \in Prof
      /\ prof'.samples = prof.samples /\ prof'.dropped = prof.dropped
      /\ prof'.since_interrupts = prof.since_interrupts
      /\ prof'.running = FALSE /\ prof'.deadline = prof.deadline
  BY DEF ProfilerInv, ProfilerTypeOK, Prof, DoHalt, SetProf
<1>3. UNCHANGED <<ticks, deliveries, vmInterrupt, armed, local, signalled, past, late>>
  BY DEF DoHalt, SetProf
<1>4. ProfilerTypeOK'
  BY <1>1, <1>2, <1>3 DEF ProfilerInv, ProfilerTypeOK, Remainder
<1>5. AtInstruction'
  BY <1>1, <1>2, <1>3, Numbers DEF ProfilerInv, AtInstruction, Stopping, Clear, Starting
<1>6. HeldTicks'
  BY <1>1, <1>2, <1>3, Numbers DEF ProfilerInv, AtInstruction, HeldTicks, Stopping,
    Clear, Starting
<1>7. Lateness'
  BY <1>1, <1>2, <1>3, Numbers DEF ProfilerInv, AtInstruction, Lateness, Stopping, Clear, Starting
<1>8. TickConservation'
  BY <1>1, <1>2, <1>3, Numbers DEF ProfilerInv, AtInstruction, HeldTicks, TickConservation,
                       Stopping, Clear, Starting
<1>9. TicksAreNoticed'
  <2>1. ticks > 0 => vmInterrupt
    BY <1>1, NoticedAt DEF ProfilerInv
  <2>2. QED
    BY <1>3, <2>1, Zenon DEF TicksAreNoticed
<1>10. QED
  BY <1>1, <1>4, <1>5, <1>6, <1>7, <1>8, <1>9 DEF ProfilerInv

(* The valve marks the profile as capped. *)
LEMMA CapStep ==
    ASSUME ProfilerInv, DoCap
    PROVE  ProfilerInv'
<1> USE ProfilerAssumption
<1>1. Remainder(todo)' /\ At = "cap" /\ At' = "php"
  BY Moves DEF ProfilerInv, DoCap, SetProf, Flow, Final
<1>2. /\ prof' \in Prof
      /\ prof'.samples = prof.samples /\ prof'.dropped = prof.dropped
      /\ prof'.since_interrupts = prof.since_interrupts
      /\ prof'.running = prof.running /\ prof'.deadline = prof.deadline
  BY DEF ProfilerInv, ProfilerTypeOK, Prof, DoCap, SetProf
<1>3. UNCHANGED <<ticks, deliveries, vmInterrupt, armed, local, signalled, past, late>>
  BY DEF DoCap, SetProf
<1>4. ProfilerTypeOK'
  BY <1>1, <1>2, <1>3 DEF ProfilerInv, ProfilerTypeOK, Remainder
<1>5. AtInstruction'
  BY <1>1, <1>2, <1>3, Numbers DEF ProfilerInv, AtInstruction, Stopping, Clear, Starting
<1>6. HeldTicks'
  BY <1>1, <1>2, <1>3, Numbers DEF ProfilerInv, AtInstruction, HeldTicks, Stopping,
    Clear, Starting
<1>7. Lateness'
  BY <1>1, <1>2, <1>3, Numbers DEF ProfilerInv, AtInstruction, Lateness, Stopping, Clear, Starting
<1>8. TickConservation'
  BY <1>1, <1>2, <1>3, Numbers DEF ProfilerInv, AtInstruction, HeldTicks, TickConservation,
                       Stopping, Clear, Starting
<1>9. TicksAreNoticed'
  <2>1. ticks > 0 => vmInterrupt
    BY <1>1, NoticedAt DEF ProfilerInv
  <2>2. QED
    BY <1>3, <2>1, Zenon DEF TicksAreNoticed
<1>10. QED
  BY <1>1, <1>4, <1>5, <1>6, <1>7, <1>8, <1>9 DEF ProfilerInv

(* The timer is armed, or its arming fails and the start is given up. *)
LEMMA ArmStep ==
    ASSUME ProfilerInv, DoArm
    PROVE  ProfilerInv'
<1> USE ProfilerAssumption
<1>1. At = "arm" /\ ~armed /\ ~prof.running
  <2>1. At = "arm"
    BY DEF DoArm, Executes, At
  <2>2. QED
    BY <2>1 DEF ProfilerInv, AtInstruction, Clear
<1>2. UNCHANGED <<ticks, deliveries, vmInterrupt, prof, local, past, signalled, late>>
  BY DEF DoArm
<1>3. /\ Remainder(todo)'
      /\ \/ At' = "run" /\ armed' = TRUE
         \/ At' = "php" /\ armed' = armed
  <2>1. CASE armed' = TRUE /\ todo' = Tail(todo)
    <3>1. /\ Remainder(todo)'
          /\ At' = "php" => "arm" \in Final
          /\ At' # "php" => <<"arm", At'>> \in Flow
      BY <2>1, Moves DEF ProfilerInv, DoArm
    <3>2. QED
      BY <2>1, <3>1 DEF Flow, Final
  <2>2. CASE armed' = armed /\ todo' = <<>>
    BY <2>2, Calls, Programs
  <2>3. QED
    BY <2>1, <2>2 DEF DoArm
<1>4. ProfilerTypeOK'
  BY <1>2, <1>3 DEF ProfilerInv, ProfilerTypeOK, Remainder
<1>5. AtInstruction'
  BY <1>1, <1>2, <1>3, Numbers DEF ProfilerInv, AtInstruction, Stopping, Clear, Starting
<1>6. HeldTicks' /\ Lateness' /\ TickConservation'
  BY <1>1, <1>2, <1>3, Numbers DEF ProfilerInv, HeldTicks, Lateness, TickConservation, Starting
<1>7. TicksAreNoticed'
  <2>1. ticks > 0 => vmInterrupt
    BY <1>1, NoticedAt DEF ProfilerInv
  <2>2. QED
    BY <1>2, <2>1, Zenon DEF TicksAreNoticed
<1>8. QED
  BY <1>3, <1>4, <1>5, <1>6, <1>7 DEF ProfilerInv

(* The interrupt samples: the ticks it holds become weight, and the safe   *)
(* point counts towards the next look at the clock.                        *)
LEMMA AccountStep ==
    ASSUME ProfilerInv, NEW stored \in BOOLEAN, Account(stored)
    PROVE  ProfilerInv'
<1> USE ProfilerAssumption
<1> DEFINE n == local.ticks
           d == local.deliveries
           p == Collected(Accounted(prof, n, d), n, stored)
           interrupts == prof.since_interrupts + 1
           due == prof.deadline /\ (interrupts >= CheckEvery \/ prof.since_ticks + n >= CheckEvery)
<1>1. /\ At = "account" /\ prof.running /\ armed /\ n > 0
  BY DEF Account, Executes, At, ProfilerInv, AtInstruction
<1>2. UNCHANGED <<ticks, deliveries, vmInterrupt, armed, past, signalled>>
  BY DEF Account
<1>3. /\ p \in Prof
      /\ p.samples + p.dropped = prof.samples + prof.dropped + n
      /\ p.running = prof.running /\ p.deadline = prof.deadline
  <2>1. n \in Nat /\ d \in Nat /\ prof \in Prof
    BY Numbers DEF ProfilerInv, ProfilerTypeOK
  <2> HIDE DEF n, d
  <2>2. /\ Accounted(prof, n, d) \in Prof
        /\ Accounted(prof, n, d).samples = prof.samples
        /\ Accounted(prof, n, d).dropped = prof.dropped
        /\ Accounted(prof, n, d).running = prof.running
        /\ Accounted(prof, n, d).deadline = prof.deadline
    <3> DEFINE lateness == IF d > 1 THEN d - 1 ELSE 0
    <3>1. /\ (IF n > d THEN prof.timer_overruns + (n - d) ELSE prof.timer_overruns) \in Nat
          /\ prof.deferred + lateness \in Nat
          /\ (IF d > 1 THEN prof.deferred_events + 1 ELSE prof.deferred_events) \in Nat
          /\ (IF lateness > prof.max_deferred THEN lateness ELSE prof.max_deferred) \in Nat
      BY <2>1 DEF Prof
    <3> HIDE DEF lateness
    <3>2. Accounted(prof, n, d)
            = [prof EXCEPT !.timer_overruns = IF n > d THEN @ + (n - d) ELSE @,
                           !.deferred = @ + lateness,
                           !.deferred_events = IF d > 1 THEN @ + 1 ELSE @,
                           !.max_deferred = IF lateness > @ THEN lateness ELSE @]
      BY DEF Accounted, lateness
    <3>3. QED
      BY <2>1, <3>1, <3>2 DEF Prof
  <2>3. ASSUME NEW q \in Prof
        PROVE  /\ Collected(q, n, stored) \in Prof
               /\ Collected(q, n, stored).samples + Collected(q, n, stored).dropped
                    = q.samples + q.dropped + n
               /\ Collected(q, n, stored).running = q.running
               /\ Collected(q, n, stored).deadline = q.deadline
    BY <2>1 DEF Collected, Prof
  <2>4. QED
    BY <2>2, <2>3
<1>4. /\ Since(prof, n, stored).interrupts = interrupts
      /\ Since(prof, n, stored).ticks = prof.since_ticks + n
  BY DEF Since
<1>5. due = (prof.deadline /\ CheckDue(Since(prof, n, stored)))
  BY <1>4 DEF CheckDue
<1>6. prof' = IF ~prof.deadline \/ due
              THEN [p EXCEPT !.since_interrupts = 0, !.since_ticks = 0]
              ELSE [p EXCEPT !.since_interrupts = interrupts,
                             !.since_ticks = prof.since_ticks + n]
  BY <1>4, <1>5 DEF Account
<1>7. /\ todo' = IF due /\ past THEN StopProgram \o <<"cap">> ELSE <<>>
      /\ late' = IF prof.deadline /\ past THEN late + 1 ELSE late
      /\ local' = [ticks |-> 0, deliveries |-> 0]
  BY <1>5 DEF Account
<1>8. Remainder(todo)' /\ At' = IF due /\ past THEN "disarm" ELSE "php"
  BY <1>7, Calls, Programs
<1>9. /\ prof' \in Prof
      /\ prof'.samples + prof'.dropped = prof.samples + prof.dropped + n
      /\ prof'.running = prof.running /\ prof'.deadline = prof.deadline
      /\ prof'.since_interrupts = IF ~prof.deadline \/ due THEN 0 ELSE interrupts
  <2>1. n \in Nat /\ prof.since_ticks \in 0 .. CheckEvery - 1
        /\ prof.since_interrupts \in 0 .. CheckEvery - 1
    BY Numbers DEF ProfilerInv
  <2>2. ~(~prof.deadline \/ due) => /\ interrupts \in 0 .. CheckEvery - 1
                                    /\ prof.since_ticks + n \in 0 .. CheckEvery - 1
    BY <2>1
  <2>3. 0 \in 0 .. CheckEvery - 1
    OBVIOUS
  <2> HIDE DEF n, p, interrupts, due
  <2>4. CASE ~prof.deadline \/ due
    BY <1>3, <1>6, <2>3, <2>4 DEF Prof
  <2>5. CASE ~(~prof.deadline \/ due)
    BY <1>3, <1>6, <2>2, <2>5 DEF Prof
  <2>6. QED
    BY <2>4, <2>5
<1>10. /\ local'.ticks = 0 /\ local' \in [ticks : Nat, deliveries : Nat]
       /\ late' \in Nat
  BY <1>7, Numbers DEF ProfilerInv
<1> HIDE DEF n, p
<1>11. ProfilerTypeOK'
  BY <1>2, <1>8, <1>9, <1>10 DEF ProfilerInv, ProfilerTypeOK, Remainder
<1>12. AtInstruction' /\ HeldTicks'
  BY <1>1, <1>2, <1>8, <1>9, <1>10 DEF ProfilerInv, AtInstruction, HeldTicks, Stopping,
    Clear, Starting
<1>13. Lateness'
  BY <1>1, <1>2, <1>7, <1>8, <1>9, Numbers DEF ProfilerInv, Lateness, Starting
<1>14. TickConservation'
  <2>1. prof'.samples \in Nat /\ prof'.dropped \in Nat
    BY <1>9 DEF Prof
  <2>2. signalled = ticks + n + prof.samples + prof.dropped
    BY <1>1 DEF ProfilerInv, TickConservation, n
  <2>3. n \in Nat
    BY Numbers DEF ProfilerInv, n
  <2>4. signalled' = ticks' + local'.ticks + prof'.samples + prof'.dropped
    BY <1>2, <1>9, <1>10, <2>1, <2>2, <2>3, Numbers DEF ProfilerInv
  <2>5. QED
    BY <2>4 DEF TickConservation
<1>15. TicksAreNoticed'
  <2>1. ticks > 0 => vmInterrupt
    BY <1>1, NoticedAt DEF ProfilerInv
  <2>2. QED
    BY <1>2, <2>1, Zenon DEF TicksAreNoticed
<1>16. QED
  BY <1>8, <1>11, <1>12, <1>13, <1>14, <1>15 DEF ProfilerInv

(* An adopted unit loses its deadline, or the clock passes it. *)
LEMMA DeadlineStep ==
    ASSUME ProfilerInv, OwnerClearsDeadline \/ DeadlinePasses
    PROVE  ProfilerInv'
<1> USE ProfilerAssumption
<1>1. /\ UNCHANGED <<ticks, deliveries, vmInterrupt, armed, todo, local, signalled>>
      /\ At' = At /\ past' \in BOOLEAN /\ late' \in Nat
      /\ prof' \in Prof
      /\ prof'.samples = prof.samples /\ prof'.dropped = prof.dropped
      /\ prof'.running = prof.running
      /\ prof'.since_interrupts = prof.since_interrupts
  <2>1. CASE OwnerClearsDeadline
    BY <2>1 DEF OwnerClearsDeadline, At, ProfilerInv, ProfilerTypeOK, Prof
  <2>2. CASE DeadlinePasses
    BY <2>2 DEF DeadlinePasses, At, ProfilerInv, ProfilerTypeOK
  <2>3. QED
    BY <2>1, <2>2
<1>2. ProfilerTypeOK'
  BY <1>1 DEF ProfilerInv, ProfilerTypeOK
<1>3. Remainder(todo)' /\ AtInstruction' /\ HeldTicks' /\ TickConservation'
  BY <1>1, Zenon DEF ProfilerInv, AtInstruction, HeldTicks, TickConservation
<1>4. TicksAreNoticed'
  BY <1>1, Zenon DEF ProfilerInv, TicksAreNoticed
<1>5. Lateness'
  <2>1. CASE OwnerClearsDeadline
    <3>1. past' = FALSE /\ late' = 0
      BY <2>1 DEF OwnerClearsDeadline
    <3>2. QED
      BY <1>1, <1>2, <3>1 DEF Lateness, ProfilerTypeOK, Prof
  <2>2. CASE DeadlinePasses
    <3>1. prof' = prof /\ past' = TRUE /\ late' = late /\ prof.deadline /\ prof.running
      BY <2>2 DEF DeadlinePasses
    <3>2. At \notin Starting
      BY <3>1 DEF ProfilerInv, AtInstruction, Starting, Clear
    <3>3. QED
      BY <1>1, <3>1, <3>2 DEF ProfilerInv, Lateness
  <2>3. QED
    BY <2>1, <2>2
<1>6. QED
  BY <1>2, <1>3, <1>4, <1>5 DEF ProfilerInv

-----------------------------------------------------------------------------
(* Theorems *)

(* The invariant is inductive. *)
LEMMA ProfilerInductive ==
    ProfilerInv /\ [ProfilerNext]_profilerVars => ProfilerInv'
<1> SUFFICES ASSUME ProfilerInv, [ProfilerNext]_profilerVars
             PROVE  ProfilerInv'
  OBVIOUS
<1>1. CASE AnySignal
  BY <1>1, SignalStep DEF AnySignal
<1>2. CASE SafePoint
  BY <1>2, CallStep, Programs DEF SafePoint
<1>3. ASSUME NEW limited \in BOOLEAN, BeginUnit(limited)
      PROVE  ProfilerInv'
  <2>1. prof.running \in BOOLEAN /\ vmInterrupt \in BOOLEAN
    BY Numbers DEF ProfilerInv, ProfilerTypeOK
  <2>2. QED
    BY <1>3, <2>1, CallStep, Programs DEF BeginUnit, Call
<1>4. CASE EndUnit
  <2>1. prof.running \in BOOLEAN /\ vmInterrupt \in BOOLEAN
    BY Numbers DEF ProfilerInv, ProfilerTypeOK
  <2>2. QED
    BY <1>4, <2>1, CallStep, Programs DEF EndUnit, Call
<1>5. CASE OwnerClearsDeadline \/ DeadlinePasses
  BY <1>5, DeadlineStep
<1>6. CASE Instruction
  BY <1>6, GetTicksStep, GetDeliveriesStep, AccountStep, NothingPendingStep, ResetStep,
     LimitStep, ArmStep, RunStep, DisarmStep, HaltStep, DropTicksStep,
     DropDeliveriesStep, CapStep DEF Instruction
<1>7. CASE UNCHANGED profilerVars
  <2>1. At' = At /\ UNCHANGED <<ticks, deliveries, vmInterrupt, armed, prof, todo, local,
                                past, signalled, late>>
    BY <1>7 DEF profilerVars, At
  <2>2. ProfilerTypeOK' /\ Remainder(todo)'
    BY <2>1 DEF ProfilerInv, ProfilerTypeOK
  <2>3. AtInstruction' /\ HeldTicks' /\ Lateness' /\ TickConservation' /\ TicksAreNoticed'
    BY <2>1, Zenon DEF ProfilerInv, AtInstruction, HeldTicks, Lateness, TickConservation,
                       TicksAreNoticed
  <2>4. QED
    BY <2>2, <2>3 DEF ProfilerInv
<1>8. QED
  BY <1>1, <1>2, <1>3, <1>4, <1>5, <1>6, <1>7 DEF ProfilerNext

(* It holds at the start: no profile runs and nothing is pending. *)
LEMMA ProfilerInitially ==
    ProfilerInit => ProfilerInv
<1> SUFFICES ASSUME ProfilerInit
             PROVE  ProfilerInv
  OBVIOUS
<1> USE ProfilerAssumption DEF ProfilerInit
<1>1. At = "php"
  BY DEF At
<1>2. 0 \in 0 .. CheckEvery - 1
  OBVIOUS
<1>3. prof \in Prof /\ ~prof.running /\ prof.running = FALSE
  BY <1>2 DEF Reset, Prof
<1>4. ProfilerTypeOK /\ Remainder(todo)
  BY <1>3, Programs DEF ProfilerTypeOK, Remainder
<1>5. AtInstruction /\ HeldTicks /\ Lateness /\ TickConservation /\ TicksAreNoticed
  BY <1>1, <1>3 DEF AtInstruction, HeldTicks, Lateness, TickConservation, TicksAreNoticed,
                    Stopping, Clear, Starting
<1>6. QED
  BY <1>4, <1>5 DEF ProfilerInv

(* The invariant holds throughout. *)
LEMMA ProfilerInvariant ==
    ProfilerSpec => []ProfilerInv
  BY ProfilerInitially, ProfilerInductive, PTL DEF ProfilerSpec

(* Every variable of the profiler stays in its type; the deadline check is *)
(* never further away than its interval.                                   *)
THEOREM ProfilerTypeCorrect ==
    ProfilerSpec => []ProfilerTypeOK
<1>1. ProfilerInv => ProfilerTypeOK
  BY DEF ProfilerInv
<1>2. QED
  BY <1>1, ProfilerInvariant, PTL

(* No tick is lost between cbox_profiler_tick and cbox_profiler_interrupt, *)
(* wherever between two instructions the signals land, and none is         *)
(* inherited from an earlier profile.                                      *)
THEOREM TicksAreConserved ==
    ProfilerSpec => []TickConservation
<1>1. ProfilerInv => TickConservation
  BY DEF ProfilerInv
<1>2. QED
  BY <1>1, ProfilerInvariant, PTL

(* Outside the profiler's functions the kernel timer runs exactly while    *)
(* the profile does, and a stopped profile leaves no tick for the next.    *)
THEOREM StopLeavesNothing ==
    ProfilerSpec => []NothingLeftBehind
<1>1. ProfilerInv => NothingLeftBehind
  BY DEF ProfilerInv, ProfilerTypeOK, Prof, AtInstruction, NothingLeftBehind, At
<1>2. QED
  BY <1>1, ProfilerInvariant, PTL

(* The safety valve of an unattended profile opens after at most           *)
(* CheckEvery further stack walks, for every CheckEvery.                   *)
THEOREM ValveIsBounded ==
    ProfilerSpec => []ValveBound
<1>1. ProfilerInv => ValveBound
  BY DEF ProfilerInv, Lateness, ValveBound
<1>2. QED
  BY <1>1, ProfilerInvariant, PTL

(* A pending tick has a safe point coming to it, although the engine       *)
(* clears the flag before the interrupt function takes the ticks.          *)
THEOREM NoTickGoesUnnoticed ==
    ProfilerSpec => []TicksAreNoticed
<1>1. ProfilerInv => TicksAreNoticed
  BY DEF ProfilerInv
<1>2. QED
  BY <1>1, ProfilerInvariant, PTL
=============================================================================
