----------------------------- MODULE CrashHandler -----------------------------
(***************************************************************************)
(* The crash handler of one process (src/src/crash.c): installing it over  *)
(* whatever was there, preparing the sink in every request, what it does   *)
(* with a signal and how it hands the signal on, and taking it down again. *)
(*                                                                         *)
(* A signal may arrive between any two steps of the process, those of the  *)
(* handlers included, whether it is sent or a fault of the handler itself: *)
(* frames is the stack of handlers being executed, the last one runs.      *)
(* What the file then looks like is the subject of CrashSink.              *)
(*                                                                         *)
(* Abstractions: the content of the record; the directory and the file are *)
(* usable or not at each attempt; one handler of another extension may sit *)
(* below ours ("prior"), which returns or lets the process die.            *)
(***************************************************************************)
EXTENDS Integers, Sequences, FiniteSets

CONSTANTS
    Signals,    \* cbox_crash_signals, in the order of the array
    MaxNested   \* bound: signals that arrive while a handler runs

(* The array names every signal once; the other strings are the values of  *)
(* retrap and end that are no signals.                                     *)
ASSUME CrashHandlerAssumption ==
    /\ Signals \in Seq(STRING \ {"none", "alive", "exit", "prior"})
    /\ \A i, j \in 1 .. Len(Signals) : Signals[i] = Signals[j] => i = j
    /\ MaxNested \in Nat

VARIABLES
    disp,      \* signal -> its disposition
    previous,  \* cbox_crash_previous
    sink,      \* installed, status, whether path is set and fd is open
    latch,     \* cbox_crash_in_progress
    frames,    \* handlers being executed: who, for which signal, at which step
    retrap,    \* signal of a faulting instruction that will be executed again
    end,       \* how the process ended
    setup,     \* install or uninstall in progress, at which index
    request,   \* RINIT has run and RSHUTDOWN has not
    \* Ghosts:
    original,  \* dispositions before us
    seen       \* what happened to the process so far, see Seen

vars == <<disp, previous, sink, latch, frames, retrap, end, setup, request, original, seen>>

SignalSet == {Signals[i] : i \in 1 .. Len(Signals)}
Dispositions == {"dfl", "ign", "prior", "ours"}
Statuses == {"off", "armed", "no_directory", "no_sink", "no_handler"}
Steps == {"enter", "latch", "open", "write", "restore", "chain", "raise", "return", "runs"}

Sink == [installed : BOOLEAN, status : Statuses, path : BOOLEAN, fd : BOOLEAN]
Frame == [who : {"ours", "prior"}, sig : SignalSet, step : Steps, fault : BOOLEAN]

(* nested: signals while a handler ran; reentered: one of them was ours to *)
(* handle; survived: a signal we handled left the process alive; refused:  *)
(* the file was not ours; due: a crash came that had to be recorded; got:  *)
(* the signals since the program was last running undisturbed, TRUE for    *)
(* faults; handled: those of them the prior handler saw.                   *)
Seen == [nested : 0 .. MaxNested, reentered : BOOLEAN, survived : BOOLEAN, refused : BOOLEAN,
         due : BOOLEAN, records : Nat, got : SUBSET (SignalSet \X BOOLEAN),
         handled : SUBSET SignalSet]

Idle == [op |-> "none", index |-> 0]

Alive == end = "alive"
Top == frames[Len(frames)]
Running(step) == Alive /\ frames # <<>> /\ Top.step = step

(* The process outside every handler. *)
Program == Alive /\ frames = <<>> /\ retrap = "none"

(* A handler of ours that has set the latch. *)
PastLatch(f) == f.who = "ours" /\ f.step \notin {"enter", "latch"}

At(step) == [frames EXCEPT ![Len(frames)].step = step]

-----------------------------------------------------------------------------
(* Installation *)

SetupStep(op) == Program /\ setup.op = op

(* cbox_crash_install up to its loop; MINIT calls it once.  A directory    *)
(* that is not set or too long ends it there.                              *)
InstallBegins ==
    /\ SetupStep("none") /\ sink.status = "off" /\ ~sink.installed
    /\ \/ setup' = [op |-> "install", index |-> 1] /\ sink' = sink
       \/ setup' = setup /\ sink' = [sink EXCEPT !.status = "no_directory"]
    /\ UNCHANGED <<disp, previous, latch, frames, retrap, end, request, original, seen>>

InstallSignal ==
    /\ SetupStep("install") /\ setup.index <= Len(Signals)
    /\ LET s == Signals[setup.index]
       IN  /\ previous' = [previous EXCEPT ![s] = disp[s]]
           /\ disp' = [disp EXCEPT ![s] = "ours"]
    /\ setup' = [setup EXCEPT !.index = @ + 1]
    /\ UNCHANGED <<sink, latch, frames, retrap, end, request, original, seen>>

(* sigaction fails: back through the signals already taken. *)
InstallFails ==
    /\ SetupStep("install") /\ setup.index <= Len(Signals)
    /\ setup' = [op |-> "rollback", index |-> setup.index - 1]
    /\ UNCHANGED <<disp, previous, sink, latch, frames, retrap, end, request, original, seen>>

Rollback ==
    /\ SetupStep("rollback") /\ setup.index > 0
    /\ LET s == Signals[setup.index] IN disp' = [disp EXCEPT ![s] = previous[s]]
    /\ setup' = [setup EXCEPT !.index = @ - 1]
    /\ UNCHANGED <<previous, sink, latch, frames, retrap, end, request, original, seen>>

InstallEnds ==
    /\ \/ /\ SetupStep("install") /\ setup.index > Len(Signals)
          /\ sink' = [sink EXCEPT !.installed = TRUE, !.status = "armed"]
       \/ /\ SetupStep("rollback") /\ setup.index = 0
          /\ sink' = [sink EXCEPT !.status = "no_handler"]
    /\ setup' = Idle
    /\ UNCHANGED <<disp, previous, latch, frames, retrap, end, request, original, seen>>

(* Mutant: a sink that cannot be prepared leaves the status as it was. *)
StatusKept(outcome) == "armed"

(* The status cbox_crash_open_sink ends with. *)
StatusOf(outcome) == outcome

(* RINIT: cbox_crash_open_sink, which tries again in every request until   *)
(* it has a path.                                                          *)
RInit(outcome) ==
    /\ SetupStep("none") /\ ~request /\ sink.status # "off"
    /\ request' = TRUE
    /\ \/ /\ ~sink.installed \/ sink.path
          /\ outcome = "armed" /\ sink' = sink
       \/ /\ sink.installed /\ ~sink.path
          /\ sink' = [sink EXCEPT !.fd = FALSE, !.path = (outcome = "armed"),
                                  !.status = StatusOf(outcome)]
    /\ UNCHANGED <<disp, previous, latch, frames, retrap, end, setup, original, seen>>

RShutdown ==
    /\ SetupStep("none") /\ request
    /\ request' = FALSE
    /\ UNCHANGED <<disp, previous, sink, latch, frames, retrap, end, setup, original, seen>>

(* MSHUTDOWN: cbox_crash_uninstall puts every signal back and then forgets *)
(* the sink.                                                               *)
UninstallBegins ==
    /\ SetupStep("none") /\ ~request /\ sink.status # "off"
    /\ setup' = [op |-> "uninstall", index |-> IF sink.installed THEN 1 ELSE Len(Signals) + 1]
    /\ UNCHANGED <<disp, previous, sink, latch, frames, retrap, end, request, original, seen>>

UninstallSignal ==
    /\ SetupStep("uninstall") /\ setup.index <= Len(Signals)
    /\ LET s == Signals[setup.index] IN disp' = [disp EXCEPT ![s] = previous[s]]
    /\ setup' = [setup EXCEPT !.index = @ + 1]
    /\ UNCHANGED <<previous, sink, latch, frames, retrap, end, request, original, seen>>

UninstallEnds ==
    /\ SetupStep("uninstall") /\ setup.index > Len(Signals)
    /\ sink' = [installed |-> FALSE, status |-> "off", path |-> FALSE, fd |-> FALSE]
    /\ setup' = [op |-> "unloaded", index |-> 0]
    /\ UNCHANGED <<disp, previous, latch, frames, retrap, end, request, original, seen>>

-----------------------------------------------------------------------------
(* The kernel: delivering a signal *)

(* What a delivery above the frames of stack does to the process, by the   *)
(* disposition it finds.  A fault is not ignored.                          *)
Deliver(s, fault, stack) ==
    \/ /\ disp[s] = "dfl" \/ (disp[s] = "ign" /\ fault)
       /\ end' = s
       /\ frames' = stack
    \/ /\ disp[s] = "ign" /\ ~fault
       /\ end' = end
       /\ frames' = stack
    \/ /\ disp[s] \in {"prior", "ours"}
       /\ end' = end
       /\ frames' = Append(stack, [who |-> disp[s], sig |-> s, fault |-> fault,
                                   step |-> IF disp[s] = "ours" THEN "enter" ELSE "runs"])

(* The delivery joins the signals got and those of them handled so far. *)
Noted(s, fault, got, handled) ==
    [seen EXCEPT !.got = got \cup {<<s, fault>>},
                 !.handled = IF disp[s] = "prior" THEN handled \cup {s} ELSE handled]

(* A signal while the program runs: a fault of its own, or one it is sent. *)
Signal(s, fault) ==
    /\ Program
    /\ Deliver(s, fault, frames)
    /\ seen' = [Noted(s, fault, {}, {}) EXCEPT
                   !.due = @ \/ (/\ request /\ sink.status = "armed"
                                 /\ disp[s] = "ours" /\ ~seen.survived)]
    /\ UNCHANGED <<disp, previous, sink, latch, retrap, setup, request, original>>

(* A signal while a handler runs: a fault of the handler, or one that is   *)
(* sent.  SA_NODEFER and the empty mask leave every signal deliverable at  *)
(* every step of ours, the test of the latch included; that test and the   *)
(* set touch a static and do not fault.  A handler of somebody else may    *)
(* block signals: it is interrupted here all the same.  A signal between   *)
(* the return of the last handler and the instruction executed again does  *)
(* what it does at that handler's last step.                               *)
InHandler(s, fault) ==
    /\ Alive /\ frames # <<>>
    /\ fault => Top.step \notin {"enter", "latch"}
    /\ seen.nested < MaxNested
    /\ Deliver(s, fault, frames)
    /\ seen' = [Noted(s, fault, seen.got, seen.handled) EXCEPT
                   !.nested = @ + 1,
                   !.reentered = @ \/ disp[s] = "ours"]
    /\ UNCHANGED <<disp, previous, sink, latch, retrap, setup, request, original>>

(* The instruction that faulted is executed again. *)
Retrap ==
    /\ Alive /\ frames = <<>> /\ retrap # "none"
    /\ Deliver(retrap, TRUE, frames)
    /\ retrap' = "none"
    /\ UNCHANGED <<disp, previous, sink, latch, setup, request, original, seen>>

-----------------------------------------------------------------------------
(* cbox_crash_handler *)

(* Mutant: the latch is set once the record is out. *)
LatchLater == FALSE

(* cbox_crash_in_progress = 1 *)
LatchSet == TRUE

(* if (cbox_crash_in_progress) _exit(128 + sig) *)
Enter ==
    /\ Running("enter")
    /\ \/ latch /\ end' = "exit" /\ frames' = frames
       \/ ~latch /\ frames' = At("latch") /\ end' = end
    /\ UNCHANGED <<disp, previous, sink, latch, retrap, setup, request, original, seen>>

(* The test and the set are two steps: another signal may come between. *)
SetLatch ==
    /\ Running("latch")
    /\ latch' = LatchSet
    /\ frames' = At("open")
    /\ UNCHANGED <<disp, previous, sink, retrap, end, setup, request, original, seen>>

(* Mutant: a name that is a FIFO without a reader blocks the open. *)
OpenBlocks == sink.fd

(* O_NONBLOCK: open() returns whatever the name stands for. *)
OpenReturns == TRUE

(* The file is opened and inspected, and refused if it is not ours alone. *)
Open(ok) ==
    /\ Running("open") /\ OpenReturns
    /\ LET tries == ~sink.fd /\ sink.path
       IN  /\ ok \/ tries
           /\ sink' = IF tries THEN [sink EXCEPT !.fd = ok] ELSE sink
           /\ seen' = IF tries /\ ~ok THEN [seen EXCEPT !.refused = TRUE] ELSE seen
    /\ frames' = At("write")
    /\ UNCHANGED <<disp, previous, latch, retrap, end, setup, request, original>>

Write ==
    /\ Running("write")
    /\ seen' = IF sink.fd THEN [seen EXCEPT !.records = @ + 1] ELSE seen
    /\ frames' = At("restore")
    /\ UNCHANGED <<disp, previous, sink, latch, retrap, end, setup, request, original>>

(* sigaction(sig, &cbox_crash_previous[index], NULL) *)
Restore ==
    /\ Running("restore")
    /\ disp' = [disp EXCEPT ![Top.sig] = previous[Top.sig]]
    /\ frames' = At("chain")
    /\ UNCHANGED <<previous, sink, latch, retrap, end, setup, request, original, seen>>

(* Mutant: the signal is left to come again by itself. *)
NoRaise(s) == IF previous[s] = "prior" THEN "call" ELSE "return"

(* A handler that was there is called; otherwise the signal is raised      *)
(* again, always.                                                          *)
HandOn(s) == IF previous[s] = "prior" THEN "call" ELSE "raise"

Chain ==
    /\ Running("chain")
    /\ \/ /\ HandOn(Top.sig) = "call"
          /\ frames' = Append(At("return"), [who |-> "prior", sig |-> Top.sig,
                                             fault |-> FALSE, step |-> "runs"])
          /\ seen' = [seen EXCEPT !.handled = @ \cup {Top.sig}]
       \/ /\ HandOn(Top.sig) # "call"
          /\ frames' = At(HandOn(Top.sig))
          /\ seen' = seen
    /\ UNCHANGED <<disp, previous, sink, latch, retrap, end, setup, request, original>>

(* raise(), which returns unless the signal kills. *)
Raise ==
    /\ Running("raise")
    /\ Deliver(Top.sig, FALSE, At("return"))
    /\ UNCHANGED <<disp, previous, sink, latch, retrap, setup, request, original, seen>>

(* The last frame returns, to the handler it interrupted or to the         *)
(* program; a faulting instruction is executed again and faults again,     *)
(* unless a handler of somebody else has repaired its cause.  An           *)
(* instruction of the program faults in Retrap; one of a handler kills at  *)
(* once when nobody handles the signal any more, and is another InHandler  *)
(* otherwise.                                                              *)
Pop(repaired) ==
    /\ repaired => Top.fault /\ disp[Top.sig] = "prior"
    /\ frames' = SubSeq(frames, 1, Len(frames) - 1)
    /\ end' = IF Len(frames) > 1 /\ Top.fault /\ disp[Top.sig] # "prior" THEN Top.sig ELSE end
    /\ LET again == Len(frames) = 1 /\ Top.fault /\ ~repaired
       IN  /\ retrap' = IF again THEN Top.sig ELSE retrap
           /\ seen' = [seen EXCEPT !.survived = @ \/ (Len(frames) = 1 /\ latch /\ ~again)]
    /\ UNCHANGED <<disp, previous, sink, latch, setup, request, original>>

(* Ours returns, or the handler of somebody else does, or dies. *)
Return(repaired) == Running("return") /\ Pop(repaired)

PriorReturns(repaired) == Running("runs") /\ Pop(repaired)

PriorDies ==
    /\ Running("runs")
    /\ end' = "prior"
    /\ UNCHANGED <<disp, previous, sink, latch, frames, retrap, setup, request, original, seen>>

-----------------------------------------------------------------------------
Init ==
    /\ disp \in [SignalSet -> {"dfl", "ign", "prior"}]
    /\ previous = [s \in SignalSet |-> "dfl"]
    /\ sink = [installed |-> FALSE, status |-> "off", path |-> FALSE, fd |-> FALSE]
    /\ latch = FALSE
    /\ frames = <<>>
    /\ retrap = "none"
    /\ end = "alive"
    /\ setup = Idle
    /\ request = FALSE
    /\ original = disp
    /\ seen = [nested |-> 0, reentered |-> FALSE, survived |-> FALSE, refused |-> FALSE,
               due |-> FALSE, records |-> 0, got |-> {}, handled |-> {}]

HandlerStep ==
    \/ Enter
    \/ SetLatch
    \/ \E ok \in BOOLEAN : Open(ok)
    \/ Write
    \/ Restore
    \/ Chain
    \/ Raise
    \/ \E repaired \in BOOLEAN : Return(repaired) \/ PriorReturns(repaired)
    \/ PriorDies

Next ==
    \/ InstallBegins
    \/ InstallSignal
    \/ InstallFails
    \/ Rollback
    \/ InstallEnds
    \/ \E outcome \in {"armed", "no_directory", "no_sink"} : RInit(outcome)
    \/ RShutdown
    \/ UninstallBegins
    \/ UninstallSignal
    \/ UninstallEnds
    \/ \E s \in SignalSet, fault \in BOOLEAN : Signal(s, fault)
    \/ \E s \in SignalSet, fault \in BOOLEAN : InHandler(s, fault)
    \/ Retrap
    \/ HandlerStep

Spec == Init /\ [][Next]_vars

(* A handler that was entered is executed. *)
FairSpec == Spec /\ WF_vars(HandlerStep)

-----------------------------------------------------------------------------
(* Properties *)

(* Every variable stays in its type, and however signals and faults        *)
(* interrupt each other, at most one of our handlers is past the latch:    *)
(* the one static record buffer is filled by one handler at a time, and "A *)
(* crash inside the crash handler must not loop."                          *)
TypeOK ==
    /\ disp \in [SignalSet -> Dispositions]
    /\ previous \in [SignalSet -> Dispositions \ {"ours"}]
    /\ sink \in Sink
    /\ latch \in BOOLEAN
    /\ frames \in Seq(Frame)
    /\ retrap \in SignalSet \cup {"none"}
    /\ end \in SignalSet \cup {"alive", "exit", "prior"}
    /\ setup.op \in {"none", "install", "rollback", "uninstall", "unloaded"}
    /\ request \in BOOLEAN
    /\ seen \in Seen
    /\ Cardinality({i \in 1 .. Len(frames) : PastLatch(frames[i])}) <= 1

(* "let the process die the way it would have without us", for every       *)
(* disposition that was there, at every moment of install, roll back and   *)
(* uninstall and with signals and faults in the middle of handlers: _exit  *)
(* only when a signal reached our handler while a handler was running (the *)
(* storm of docs/core-concepts/crashes.md) or after a crash that was       *)
(* survived; death by a signal only where that was the disposition (or a   *)
(* fault was ignored); no life after a fatal signal, no handler below us   *)
(* left out, and no trace of us when we are not installed.                 *)
EndsAsWithoutUs ==
    /\ end = "exit" => seen.reentered \/ seen.survived
    /\ end \in SignalSet =>
          \/ original[end] = "dfl"
          \/ original[end] = "ign" /\ <<end, TRUE>> \in seen.got
    /\ Program => \A d \in seen.got :
          \/ original[d[1]] = "ign" /\ ~d[2]
          \/ original[d[1]] = "prior" /\ d[1] \in seen.handled
    /\ Program /\ ~sink.installed /\ setup.op \in {"none", "unloaded"} => disp = original

(* _exit(128 + signal) in a handler that interrupted another one of ours   *)
(* before its record was out.                                              *)
CutShort ==
    /\ end = "exit"
    /\ \E i \in 1 .. Len(frames) - 1 :
          frames[i].who = "ours" /\ frames[i].step \in {"open", "write"}

(* When status() says armed during a request and a crash comes, a record   *)
(* is written before anything else sees the signal, also when further      *)
(* signals re-enter the handler before its latch is set.  It is lost only  *)
(* when the file is refused or when a further signal or a fault re-enters  *)
(* the handler "while the first is still writing"                          *)
(* (docs/core-concepts/crashes.md), and then the process ends at once.     *)
(* The first crash of a process and those of the same storm are meant: one *)
(* that survived a crash keeps its latch set.                              *)
RecordedIfArmed ==
    seen.due /\ ~seen.refused /\ (~Alive \/ frames = <<>> \/ Top.who = "prior")
    => seen.records > 0 \/ CutShort

(* A handler that was entered comes to its end, with the process or        *)
(* without, so that a crashing worker never hangs.                         *)
HandlerEnds == frames # <<>> ~> frames = <<>> \/ ~Alive
=============================================================================
