-------------------------- MODULE CrashHandlerProofs --------------------------
(***************************************************************************)
(* Theorems about CrashHandler, for any array of signals, any disposition  *)
(* they had before us, any number of signals and faults while handlers     *)
(* run and a signal at every moment of install, request and uninstall.     *)
(*                                                                         *)
(* The invariant follows four things: what the dispositions and the saved  *)
(* ones say about the original ones at every step of install and           *)
(* uninstall; what each handler on the stack has done so far; which        *)
(* signals are not settled yet, those the handlers on the stack were       *)
(* called for; and how far the record of a crash has come.                 *)
(***************************************************************************)
EXTENDS CrashHandler, FiniteSetTheorems, TLAPS

-----------------------------------------------------------------------------
(* The inductive invariant *)

Types ==
    /\ disp \in [SignalSet -> Dispositions]
    /\ previous \in [SignalSet -> Dispositions \ {"ours"}]
    /\ original \in [SignalSet -> Dispositions \ {"ours"}]
    /\ sink \in Sink
    /\ latch \in BOOLEAN
    /\ frames \in Seq(Frame)
    /\ retrap \in SignalSet \cup {"none"}
    /\ end \in SignalSet \cup {"alive", "exit", "prior"}
    /\ setup \in [op : {"none", "install", "rollback", "uninstall", "unloaded"},
                  index : 0 .. Len(Signals) + 1]
    /\ request \in BOOLEAN
    /\ seen \in Seen

(* A signal is as it was before us, or ours and the way it was is saved. *)
DispInv ==
    \A s \in SignalSet :
        /\ disp[s] # "ours" => disp[s] = original[s]
        /\ disp[s] = "ours" => previous[s] = original[s]

AsBefore == \A s \in SignalSet : disp[s] = original[s]
Saved == \A s \in SignalSet : previous[s] = original[s]

(* What is saved and what is as before, by the progress of the loops over  *)
(* the array.                                                              *)
SetupInv ==
    /\ sink.installed => Saved
    /\ ~sink.installed /\ setup.op \in {"none", "unloaded"} => AsBefore
    /\ setup.op = "install" =>
          \A j \in 1 .. Len(Signals) :
              IF j < setup.index THEN previous[Signals[j]] = original[Signals[j]]
                                 ELSE disp[Signals[j]] = original[Signals[j]]
    /\ setup.op = "rollback" =>
          /\ setup.index <= Len(Signals)
          /\ \A j \in 1 .. Len(Signals) :
              IF j <= setup.index THEN previous[Signals[j]] = original[Signals[j]]
                                  ELSE disp[Signals[j]] = original[Signals[j]]
    /\ setup.op = "uninstall" =>
          /\ \A j \in 1 .. Len(Signals) : j < setup.index => disp[Signals[j]] = original[Signals[j]]
          /\ setup.index <= Len(Signals) => sink.installed
    /\ setup.op = "install" => setup.index > 0
    /\ setup.op = "uninstall" => setup.index > 0
    /\ setup.op \in {"install", "rollback"} => ~sink.installed

(* A sink that is armed during a request has a path, and there is no       *)
(* request before installation is over or after uninstalling began.        *)
SinkInv ==
    /\ sink.status = "armed" => sink.installed
    /\ request /\ sink.status = "armed" => sink.path
    /\ setup.op # "none" \/ sink.status = "off" => ~request

(* Until a handler sets the latch, every signal that was taken is ours. *)
AllOurs == \A s \in SignalSet : disp[s] = "ours"

TakenInv ==
    /\ ~latch /\ sink.installed /\ setup.op = "none" => AllOurs
    /\ ~latch /\ setup.op = "install" =>
          \A j \in 1 .. Len(Signals) : j < setup.index => disp[Signals[j]] = "ours"

(* A signal that left the process as it would have been without us. *)
Settled(d) ==
    \/ original[d[1]] = "ign" /\ ~d[2]
    \/ original[d[1]] = "prior" /\ d[1] \in seen.handled

(* A signal after which the process may go on, or fault again. *)
Passed(s) == original[s] = "ign" \/ (original[s] = "prior" /\ s \in seen.handled)

(* What a handler on the stack has done. *)
FrameInv(f) ==
    /\ f.who = "ours" =>
          /\ f.step # "runs"
          /\ previous[f.sig] = original[f.sig]
          /\ f.step \in {"chain", "raise", "return"} => disp[f.sig] # "ours"
          /\ f.step = "raise" => original[f.sig] # "prior"
          /\ f.step = "return" /\ Alive => Passed(f.sig)
          /\ PastLatch(f) => latch
    /\ f.who = "prior" =>
          f.step = "runs" /\ disp[f.sig] # "ours" /\ original[f.sig] = "prior" /\ f.sig \in seen.handled
    /\ f.fault => <<f.sig, TRUE>> \in seen.got

(* Above a handler that has set the latch, ours are still before the test. *)
StackInv ==
    /\ \A i \in 1 .. Len(frames) : FrameInv(frames[i])
    /\ \A i, j \in 1 .. Len(frames) :
          i < j /\ PastLatch(frames[i]) /\ frames[j].who = "ours" => frames[j].step = "enter"

(* A signal that a handler on the stack was called for, or a fault that    *)
(* comes again.                                                            *)
Pending(d) ==
    \/ \E i \in 1 .. Len(frames) : d = <<frames[i].sig, frames[i].fault>>
    \/ retrap # "none" /\ d = <<retrap, TRUE>>

(* Every signal that came is settled or pending. *)
GotInv ==
    /\ frames # <<>> => retrap = "none"
    /\ retrap # "none" => <<retrap, TRUE>> \in seen.got /\ disp[retrap] # "ours" /\ Passed(retrap)
    /\ Alive => \A d \in seen.got : Settled(d) \/ Pending(d)

(* The latch is set when the process survived, and else only while a       *)
(* handler runs or the fault is about to come again.                       *)
LatchInv ==
    /\ Program /\ latch => seen.survived
    /\ \A i \in 1 .. Len(frames) : i > 1 /\ frames[i].who = "ours" => seen.reentered
    /\ frames # <<>> /\ frames[1].step = "enter" /\ latch => seen.reentered \/ seen.survived

(* How the process ended. *)
EndInv ==
    /\ end = "exit" => seen.reentered \/ seen.survived
    /\ end \in SignalSet =>
          \/ original[end] = "dfl"
          \/ original[end] = "ign" /\ <<end, TRUE>> \in seen.got

(* No handler has come further than the write, and one will come there     *)
(* unless another signal re-enters it.                                     *)
OnItsWay ==
    /\ Alive /\ frames # <<>> /\ AllOurs /\ (sink.fd \/ sink.path)
    /\ \A i \in 1 .. Len(frames) :
          /\ frames[i].who = "ours"
          /\ frames[i].step \in {"enter", "latch", "open", "write"}
          /\ frames[i].step = "write" => sink.fd
    /\ latch => \E i \in 1 .. Len(frames) : frames[i].step \in {"open", "write"}

(* A crash that has to be recorded is, or will be, or the process ended in *)
(* the middle of it.                                                       *)
RecordInv ==
    seen.due /\ ~seen.refused => seen.records > 0 \/ OnItsWay \/ CutShort

IInv ==
    /\ Types
    /\ DispInv
    /\ SetupInv
    /\ SinkInv
    /\ TakenInv
    /\ StackInv
    /\ GotInv
    /\ LatchInv
    /\ EndInv
    /\ RecordInv

-----------------------------------------------------------------------------
(* Installing, preparing and uninstalling *)

(* The places of the array are the signals, one each. *)
LEMMA Places ==
    /\ Len(Signals) \in Nat
    /\ \A j \in 1 .. Len(Signals) : Signals[j] \in SignalSet
    /\ \A s \in SignalSet : \E j \in 1 .. Len(Signals) : s = Signals[j]
    /\ \A i, j \in 1 .. Len(Signals) : Signals[i] = Signals[j] => i = j
    /\ "none" \notin SignalSet /\ "alive" \notin SignalSet
    /\ "exit" \notin SignalSet /\ "prior" \notin SignalSet
<1>1. /\ Len(Signals) \in Nat
      /\ \A j \in 1 .. Len(Signals) : Signals[j] \in STRING \ {"none", "alive", "exit", "prior"}
      /\ \A i, j \in 1 .. Len(Signals) : Signals[i] = Signals[j] => i = j
  BY CrashHandlerAssumption
<1>2. QED
  BY <1>1 DEF SignalSet

(* Outside of every handler it is enough to look at the dispositions, what *)
(* is saved of them and the sink.                                          *)
LEMMA ProgramStep ==
    ASSUME IInv, Program, UNCHANGED <<latch, frames, retrap, end, original, seen>>,
           Types', DispInv', SetupInv', SinkInv', TakenInv'
    PROVE  IInv'
<1>1. /\ frames = <<>> /\ Len(frames) = 0 /\ retrap = "none" /\ frames' = <<>> /\ retrap' = "none"
      /\ Len(frames') = 0
  BY DEF Program
<1>2. StackInv'
  BY <1>1 DEF StackInv
<1>3. GotInv'
  BY <1>1 DEF IInv, GotInv, Settled, Pending, Alive
<1>4. LatchInv'
  BY <1>1 DEF IInv, LatchInv, Program, Alive
<1>5. EndInv'
  BY DEF IInv, EndInv
<1>6. RecordInv'
  <2>1. ~CutShort /\ ~OnItsWay
    BY <1>1 DEF Program, Alive, CutShort, OnItsWay
  <2>2. QED
    BY <2>1 DEF IInv, RecordInv
<1>7. QED
  BY <1>2, <1>3, <1>4, <1>5, <1>6 DEF IInv

LEMMA InstallBeginsStep ==
    ASSUME IInv, InstallBegins
    PROVE  IInv'
<1>1. /\ Program /\ setup.op = "none" /\ sink.status = "off" /\ ~sink.installed
      /\ \/ setup' = [op |-> "install", index |-> 1] /\ sink' = sink
         \/ setup' = setup /\ sink' = [sink EXCEPT !.status = "no_directory"]
      /\ UNCHANGED <<disp, previous, latch, frames, retrap, end, request, original, seen>>
  BY DEF InstallBegins, SetupStep
<1>2. AsBefore
  BY <1>1 DEF IInv, SetupInv
<1>3. CASE setup' = [op |-> "install", index |-> 1] /\ sink' = sink
  <2>1. setup'.op = "install" /\ setup'.index = 1 /\ Len(Signals) \in Nat
        /\ setup' \in [op : {"none", "install", "rollback", "uninstall", "unloaded"},
                       index : 0 .. Len(Signals) + 1]
    BY <1>3, Places
  <2>2. Types' /\ DispInv' /\ SinkInv' /\ TakenInv'
    BY <1>1, <1>3, <2>1 DEF IInv, Types, DispInv, SinkInv, TakenInv
  <2>3. SetupInv'
    BY <1>1, <1>2, <1>3, <2>1, Places DEF IInv, SetupInv, AsBefore
  <2>4. QED
    BY <1>1, <2>2, <2>3, ProgramStep
<1>4. CASE setup' = setup /\ sink' = [sink EXCEPT !.status = "no_directory"]
  <2>1. /\ sink' \in Sink /\ sink'.status = "no_directory" /\ sink'.installed = sink.installed
    BY <1>4 DEF IInv, Types, Sink, Statuses
  <2>2. Types' /\ DispInv' /\ SinkInv' /\ TakenInv'
    BY <1>1, <1>4, <2>1 DEF IInv, Types, DispInv, SinkInv, TakenInv
  <2>3. SetupInv'
    BY <1>1, <1>2, <1>4, <2>1 DEF SetupInv, AsBefore
  <2>4. QED
    BY <1>1, <2>2, <2>3, ProgramStep
<1>5. QED
  BY <1>1, <1>3, <1>4

LEMMA InstallSignalStep ==
    ASSUME IInv, InstallSignal
    PROVE  IInv'
<1> DEFINE i == setup.index
           s == Signals[i]
<1>1. /\ Program /\ setup.op = "install" /\ i <= Len(Signals)
      /\ previous' = [previous EXCEPT ![s] = disp[s]]
      /\ disp' = [disp EXCEPT ![s] = "ours"]
      /\ setup' = [setup EXCEPT !.index = i + 1]
      /\ UNCHANGED <<sink, latch, frames, retrap, end, request, original, seen>>
  BY DEF InstallSignal, SetupStep
<1>2. i \in 1 .. Len(Signals) /\ s \in SignalSet /\ ~sink.installed
  <2>1. i \in 0 .. Len(Signals) + 1 /\ i > 0 /\ ~sink.installed
    BY <1>1 DEF IInv, Types, SetupInv
  <2>2. QED
    BY <1>1, <2>1, Places
<1>3. setup' \in [op : {"none", "install", "rollback", "uninstall", "unloaded"},
                  index : 0 .. Len(Signals) + 1]
      /\ setup'.op = "install" /\ setup'.index = i + 1
  <2>1. i + 1 \in 0 .. Len(Signals) + 1
    BY <1>2, Places
  <2>2. QED
    BY <1>1, <2>1 DEF IInv, Types
<1>4. disp[s] = original[s] /\ original[s] \in Dispositions \ {"ours"}
  BY <1>1, <1>2, Places DEF IInv, Types, SetupInv
<1> HIDE DEF i, s
<1>5. /\ previous' \in [SignalSet -> Dispositions \ {"ours"}] /\ disp' \in [SignalSet -> Dispositions]
      /\ previous'[s] = original[s] /\ disp'[s] = "ours"
      /\ \A t \in SignalSet : t # s => previous'[t] = previous[t] /\ disp'[t] = disp[t]
  BY <1>1, <1>2, <1>4 DEF IInv, Types, Dispositions
<1>6. Types' /\ DispInv' /\ SinkInv'
  BY <1>1, <1>3, <1>5 DEF IInv, Types, DispInv, SinkInv
<1>7. ASSUME NEW j \in 1 .. Len(Signals)
      PROVE  IF j < i + 1 THEN previous'[Signals[j]] = original[Signals[j]]
                          ELSE disp'[Signals[j]] = original[Signals[j]]
  <2>1. Signals[j] \in SignalSet /\ (Signals[j] = s <=> j = i)
    BY <1>2, Places DEF s
  <2>2. IF j < i THEN previous[Signals[j]] = original[Signals[j]]
                 ELSE disp[Signals[j]] = original[Signals[j]]
    BY <1>1 DEF IInv, SetupInv, i
  <2>3. CASE j = i
    BY <1>2, <1>5, <2>1, <2>3
  <2>4. CASE j # i
    BY <1>2, <1>5, <2>1, <2>2, <2>4
  <2>5. QED
    BY <2>3, <2>4
<1>8. SetupInv'
  <2>1. i + 1 > 0
    BY <1>2
  <2>2. QED
    BY <1>1, <1>2, <1>3, <1>7, <2>1 DEF SetupInv
<1>9. TakenInv'
  <2>1. ASSUME NEW j \in 1 .. Len(Signals), j < i + 1, ~latch
        PROVE  disp'[Signals[j]] = "ours"
    <3>1. Signals[j] \in SignalSet /\ (j # i => j < i) /\ (Signals[j] = s <=> j = i)
      BY <1>2, <2>1, Places DEF s
    <3>2. j < i => disp[Signals[j]] = "ours"
      BY <1>1, <2>1 DEF IInv, TakenInv, i
    <3>3. QED
      BY <1>5, <3>1, <3>2
  <2>2. QED
    BY <1>1, <1>3, <2>1 DEF TakenInv
<1>10. QED
  BY <1>1, <1>6, <1>8, <1>9, ProgramStep

LEMMA InstallFailsStep ==
    ASSUME IInv, InstallFails
    PROVE  IInv'
<1> DEFINE i == setup.index
<1>1. /\ Program /\ setup.op = "install" /\ i <= Len(Signals)
      /\ setup' = [op |-> "rollback", index |-> i - 1]
      /\ UNCHANGED <<disp, previous, sink, latch, frames, retrap, end, request, original, seen>>
  BY DEF InstallFails, SetupStep
<1>2. i \in 1 .. Len(Signals) /\ ~sink.installed
  <2>1. i \in 0 .. Len(Signals) + 1 /\ i > 0 /\ ~sink.installed
    BY <1>1 DEF IInv, Types, SetupInv
  <2>2. QED
    BY <1>1, <2>1, Places
<1>3. \A j \in 1 .. Len(Signals) :
          IF j < i THEN previous[Signals[j]] = original[Signals[j]]
                   ELSE disp[Signals[j]] = original[Signals[j]]
  BY <1>1 DEF IInv, SetupInv
<1> HIDE DEF i
<1>4. /\ i - 1 \in 0 .. Len(Signals) + 1 /\ i - 1 <= Len(Signals)
      /\ \A j \in 1 .. Len(Signals) : j < i <=> j <= i - 1
  BY <1>2, Places
<1>5. /\ setup'.op = "rollback" /\ setup'.index = i - 1
      /\ setup' \in [op : {"none", "install", "rollback", "uninstall", "unloaded"},
                     index : 0 .. Len(Signals) + 1]
  BY <1>1, <1>4
<1>6. Types' /\ DispInv' /\ SinkInv' /\ TakenInv'
  BY <1>1, <1>5 DEF IInv, Types, DispInv, SinkInv, TakenInv
<1>7. SetupInv'
  BY <1>1, <1>2, <1>3, <1>4, <1>5 DEF SetupInv
<1>8. QED
  BY <1>1, <1>6, <1>7, ProgramStep

LEMMA RollbackStep ==
    ASSUME IInv, Rollback
    PROVE  IInv'
<1> DEFINE i == setup.index
           s == Signals[i]
<1>1. /\ Program /\ setup.op = "rollback" /\ i > 0
      /\ disp' = [disp EXCEPT ![s] = previous[s]]
      /\ setup' = [setup EXCEPT !.index = i - 1]
      /\ UNCHANGED <<previous, sink, latch, frames, retrap, end, request, original, seen>>
  BY DEF Rollback, SetupStep
<1>2. i \in 1 .. Len(Signals) /\ s \in SignalSet /\ ~sink.installed
  <2>1. i \in 0 .. Len(Signals) + 1 /\ i <= Len(Signals) /\ ~sink.installed
    BY <1>1 DEF IInv, Types, SetupInv
  <2>2. QED
    BY <1>1, <2>1, Places
<1>3. /\ setup' \in [op : {"none", "install", "rollback", "uninstall", "unloaded"},
                     index : 0 .. Len(Signals) + 1]
      /\ setup'.op = "rollback" /\ setup'.index = i - 1
  <2>1. i - 1 \in 0 .. Len(Signals) + 1
    BY <1>2, Places
  <2>2. QED
    BY <1>1, <2>1 DEF IInv, Types
<1>4. previous[s] = original[s] /\ previous[s] \in Dispositions \ {"ours"}
  BY <1>1, <1>2, Places DEF IInv, Types, SetupInv
<1> HIDE DEF i, s
<1>5. /\ disp' \in [SignalSet -> Dispositions] /\ disp'[s] = original[s] /\ original[s] # "ours"
      /\ \A t \in SignalSet : t # s => disp'[t] = disp[t]
  BY <1>1, <1>2, <1>4 DEF IInv, Types
<1>6. Types' /\ DispInv' /\ SinkInv' /\ TakenInv'
  BY <1>1, <1>3, <1>5 DEF IInv, Types, DispInv, SinkInv, TakenInv
<1>7. ASSUME NEW j \in 1 .. Len(Signals)
      PROVE  IF j <= i - 1 THEN previous[Signals[j]] = original[Signals[j]]
                           ELSE disp'[Signals[j]] = original[Signals[j]]
  <2>1. Signals[j] \in SignalSet /\ (Signals[j] = s <=> j = i)
    BY <1>2, Places DEF s
  <2>2. IF j <= i THEN previous[Signals[j]] = original[Signals[j]]
                  ELSE disp[Signals[j]] = original[Signals[j]]
    BY <1>1 DEF IInv, SetupInv, i
  <2>3. CASE j = i
    BY <1>2, <1>5, <2>1, <2>3
  <2>4. CASE j # i
    BY <1>2, <1>5, <2>1, <2>2, <2>4
  <2>5. QED
    BY <2>3, <2>4
<1>8. SetupInv'
  <2>1. i - 1 <= Len(Signals)
    BY <1>2, Places
  <2>2. QED
    BY <1>1, <1>2, <1>3, <1>7, <2>1 DEF SetupInv
<1>9. QED
  BY <1>1, <1>6, <1>8, ProgramStep

LEMMA InstallEndsStep ==
    ASSUME IInv, InstallEnds
    PROVE  IInv'
<1>1. /\ setup' = Idle
      /\ UNCHANGED <<disp, previous, latch, frames, retrap, end, request, original, seen>>
  BY DEF InstallEnds
<1>2. /\ setup'.op = "none"
      /\ setup' \in [op : {"none", "install", "rollback", "uninstall", "unloaded"},
                     index : 0 .. Len(Signals) + 1]
  BY <1>1, Places DEF Idle
<1>3. CASE /\ SetupStep("install") /\ setup.index > Len(Signals)
           /\ sink' = [sink EXCEPT !.installed = TRUE, !.status = "armed"]
  <2>1. Program /\ setup.op = "install" /\ ~request
    BY <1>3 DEF SetupStep, IInv, SinkInv
  <2>2. \A j \in 1 .. Len(Signals) : previous[Signals[j]] = original[Signals[j]]
    <3>1. setup.index \in 0 .. Len(Signals) + 1
      BY DEF IInv, Types
    <3>2. QED
      BY <1>3, <2>1, <3>1, Places DEF IInv, SetupInv
  <2>3. sink' \in Sink /\ sink'.installed /\ sink'.status = "armed"
    BY <1>3 DEF IInv, Types, Sink, Statuses
  <2>4. Types' /\ DispInv' /\ SinkInv'
    BY <1>1, <1>2, <2>1, <2>3 DEF IInv, Types, DispInv, SinkInv
  <2>5. SetupInv'
    BY <1>1, <1>2, <2>2, <2>3, Places DEF SetupInv, Saved
  <2>6. TakenInv'
    <3>1. setup.index \in 0 .. Len(Signals) + 1
      BY DEF IInv, Types
    <3>2. ~latch => \A j \in 1 .. Len(Signals) : disp[Signals[j]] = "ours"
      BY <1>3, <2>1, <3>1, Places DEF IInv, TakenInv
    <3>3. QED
      BY <1>1, <1>2, <3>2, Places DEF TakenInv, AllOurs
  <2>7. QED
    BY <1>1, <2>1, <2>4, <2>5, <2>6, ProgramStep
<1>4. CASE /\ SetupStep("rollback") /\ setup.index = 0
           /\ sink' = [sink EXCEPT !.status = "no_handler"]
  <2>1. Program /\ setup.op = "rollback" /\ ~request /\ ~sink.installed
    BY <1>4 DEF SetupStep, IInv, SinkInv, SetupInv
  <2>2. \A j \in 1 .. Len(Signals) : disp[Signals[j]] = original[Signals[j]]
    BY <1>4, <2>1, Places DEF IInv, SetupInv
  <2>3. sink' \in Sink /\ ~sink'.installed /\ sink'.status = "no_handler"
    BY <1>4, <2>1 DEF IInv, Types, Sink, Statuses
  <2>4. Types' /\ DispInv' /\ SinkInv' /\ TakenInv'
    BY <1>1, <1>2, <2>1, <2>3 DEF IInv, Types, DispInv, SinkInv, TakenInv
  <2>5. SetupInv'
    BY <1>1, <1>2, <2>2, <2>3, Places DEF SetupInv, AsBefore
  <2>6. QED
    BY <1>1, <2>1, <2>4, <2>5, ProgramStep
<1>5. QED
  BY <1>3, <1>4 DEF InstallEnds

LEMMA RInitStep ==
    ASSUME IInv, NEW outcome \in {"armed", "no_directory", "no_sink"}, RInit(outcome)
    PROVE  IInv'
<1>1. /\ Program /\ setup.op = "none" /\ sink.status # "off" /\ request' = TRUE
      /\ \/ (~sink.installed \/ sink.path) /\ sink' = sink
         \/ /\ sink.installed /\ ~sink.path
            /\ sink' = [sink EXCEPT !.fd = FALSE, !.path = (outcome = "armed"), !.status = outcome]
      /\ UNCHANGED <<disp, previous, latch, frames, retrap, end, setup, original, seen>>
  BY DEF RInit, SetupStep, StatusOf
<1>2. /\ sink' \in Sink /\ sink'.installed = sink.installed /\ sink'.status # "off"
      /\ sink'.status = "armed" => sink'.installed /\ sink'.path
  <2>1. CASE (~sink.installed \/ sink.path) /\ sink' = sink
    BY <1>1, <2>1 DEF IInv, Types, SinkInv
  <2>2. CASE /\ sink.installed /\ ~sink.path
             /\ sink' = [sink EXCEPT !.fd = FALSE, !.path = (outcome = "armed"), !.status = outcome]
    <3>1. (outcome = "armed") \in BOOLEAN /\ outcome \in Statuses /\ outcome # "off"
      BY DEF Statuses
    <3>2. sink \in Sink
      BY DEF IInv, Types
    <3>3. /\ sink' \in Sink /\ sink'.installed = sink.installed /\ sink'.status = outcome
          /\ sink'.path = (outcome = "armed")
      BY <2>2, <3>1, <3>2 DEF Sink
    <3>4. QED
      BY <2>2, <3>1, <3>3
  <2>3. QED
    BY <1>1, <2>1, <2>2
<1>3. Types' /\ DispInv' /\ SinkInv' /\ TakenInv'
  BY <1>1, <1>2 DEF IInv, Types, DispInv, SinkInv, TakenInv, AllOurs
<1>4. SetupInv'
  BY <1>1, <1>2 DEF IInv, SetupInv, AsBefore, Saved
<1>5. QED
  BY <1>1, <1>3, <1>4, ProgramStep

LEMMA RShutdownStep ==
    ASSUME IInv, RShutdown
    PROVE  IInv'
<1>1. /\ Program /\ request' = FALSE
      /\ UNCHANGED <<disp, previous, sink, latch, frames, retrap, end, setup, original, seen>>
  BY DEF RShutdown, SetupStep
<1>2. Types' /\ DispInv' /\ SinkInv' /\ TakenInv'
  BY <1>1 DEF IInv, Types, DispInv, SinkInv, TakenInv, AllOurs
<1>3. SetupInv'
  BY <1>1 DEF IInv, SetupInv, AsBefore, Saved
<1>4. QED
  BY <1>1, <1>2, <1>3, ProgramStep

LEMMA UninstallBeginsStep ==
    ASSUME IInv, UninstallBegins
    PROVE  IInv'
<1> DEFINE first == IF sink.installed THEN 1 ELSE Len(Signals) + 1
<1>1. /\ Program /\ setup.op = "none" /\ ~request
      /\ setup' = [op |-> "uninstall", index |-> first]
      /\ UNCHANGED <<disp, previous, sink, latch, frames, retrap, end, request, original, seen>>
  BY DEF UninstallBegins, SetupStep
<1>2. /\ first \in 0 .. Len(Signals) + 1 /\ first > 0
      /\ first <= Len(Signals) => sink.installed
      /\ \A j \in 1 .. Len(Signals) : j < first => ~sink.installed
  BY Places
<1> HIDE DEF first
<1>3. /\ setup'.op = "uninstall" /\ setup'.index = first
      /\ setup' \in [op : {"none", "install", "rollback", "uninstall", "unloaded"},
                     index : 0 .. Len(Signals) + 1]
  BY <1>1, <1>2
<1>4. Types' /\ DispInv' /\ SinkInv' /\ TakenInv'
  BY <1>1, <1>3 DEF IInv, Types, DispInv, SinkInv, TakenInv
<1>5. SetupInv'
  BY <1>1, <1>2, <1>3, Places DEF IInv, SetupInv, AsBefore, Saved
<1>6. QED
  BY <1>1, <1>4, <1>5, ProgramStep

LEMMA UninstallSignalStep ==
    ASSUME IInv, UninstallSignal
    PROVE  IInv'
<1> DEFINE i == setup.index
           s == Signals[i]
<1>1. /\ Program /\ setup.op = "uninstall" /\ i <= Len(Signals)
      /\ disp' = [disp EXCEPT ![s] = previous[s]]
      /\ setup' = [setup EXCEPT !.index = i + 1]
      /\ UNCHANGED <<previous, sink, latch, frames, retrap, end, request, original, seen>>
  BY DEF UninstallSignal, SetupStep
<1>2. i \in 1 .. Len(Signals) /\ s \in SignalSet /\ sink.installed
  <2>1. i \in 0 .. Len(Signals) + 1 /\ i > 0 /\ sink.installed
    BY <1>1 DEF IInv, Types, SetupInv
  <2>2. QED
    BY <1>1, <2>1, Places
<1>3. /\ setup' \in [op : {"none", "install", "rollback", "uninstall", "unloaded"},
                     index : 0 .. Len(Signals) + 1]
      /\ setup'.op = "uninstall" /\ setup'.index = i + 1
  <2>1. i + 1 \in 0 .. Len(Signals) + 1
    BY <1>2, Places
  <2>2. QED
    BY <1>1, <2>1 DEF IInv, Types
<1>4. previous[s] = original[s] /\ previous[s] \in Dispositions \ {"ours"}
  BY <1>1, <1>2, Places DEF IInv, Types, SetupInv, Saved
<1> HIDE DEF i, s
<1>5. /\ disp' \in [SignalSet -> Dispositions] /\ disp'[s] = original[s] /\ original[s] # "ours"
      /\ \A t \in SignalSet : t # s => disp'[t] = disp[t]
  BY <1>1, <1>2, <1>4 DEF IInv, Types
<1>6. Types' /\ DispInv' /\ SinkInv' /\ TakenInv'
  BY <1>1, <1>3, <1>5 DEF IInv, Types, DispInv, SinkInv, TakenInv
<1>7. ASSUME NEW j \in 1 .. Len(Signals), j < i + 1
      PROVE  disp'[Signals[j]] = original[Signals[j]]
  <2>1. Signals[j] \in SignalSet /\ (Signals[j] = s <=> j = i)
    BY <1>2, Places DEF s
  <2>2. j < i => disp[Signals[j]] = original[Signals[j]]
    BY <1>1 DEF IInv, SetupInv, i
  <2>3. CASE j = i
    BY <1>2, <1>5, <2>1, <2>3
  <2>4. CASE j # i
    BY <1>2, <1>5, <1>7, <2>1, <2>2, <2>4
  <2>5. QED
    BY <2>3, <2>4
<1>8. SetupInv'
  <2>1. i + 1 > 0
    BY <1>2
  <2>2. sink' = sink /\ Saved /\ previous' = previous /\ original' = original
    BY <1>1, <1>2 DEF IInv, SetupInv
  <2>3. QED
    BY <1>2, <1>3, <1>7, <2>1, <2>2 DEF SetupInv, Saved
<1>9. QED
  BY <1>1, <1>6, <1>8, ProgramStep

LEMMA UninstallEndsStep ==
    ASSUME IInv, UninstallEnds
    PROVE  IInv'
<1>1. /\ Program /\ setup.op = "uninstall" /\ setup.index > Len(Signals)
      /\ sink' = [installed |-> FALSE, status |-> "off", path |-> FALSE, fd |-> FALSE]
      /\ setup' = [op |-> "unloaded", index |-> 0]
      /\ UNCHANGED <<disp, previous, latch, frames, retrap, end, request, original, seen>>
  BY DEF UninstallEnds, SetupStep
<1>2. /\ setup'.op = "unloaded"
      /\ setup' \in [op : {"none", "install", "rollback", "uninstall", "unloaded"},
                     index : 0 .. Len(Signals) + 1]
      /\ sink' \in Sink /\ ~sink'.installed /\ sink'.status = "off"
  BY <1>1, Places DEF Sink, Statuses
<1>3. \A j \in 1 .. Len(Signals) : disp[Signals[j]] = original[Signals[j]]
  <2>1. setup.index \in 0 .. Len(Signals) + 1
    BY DEF IInv, Types
  <2>2. QED
    BY <1>1, <2>1, Places DEF IInv, SetupInv
<1>4. Types' /\ DispInv' /\ SinkInv' /\ TakenInv'
  BY <1>1, <1>2 DEF IInv, Types, DispInv, SinkInv, TakenInv
<1>5. SetupInv'
  BY <1>1, <1>2, <1>3, Places DEF SetupInv, AsBefore
<1>6. QED
  BY <1>1, <1>4, <1>5, ProgramStep

-----------------------------------------------------------------------------
(* Facts the steps of handlers share *)

(* The handler that runs goes on to another step. *)
LEMMA AtProps ==
    ASSUME Types, frames # <<>>, NEW x \in Steps
    PROVE  /\ At(x) \in Seq(Frame)
           /\ Len(At(x)) = Len(frames) /\ Len(frames) \in Nat \ {0}
           /\ \A i \in 1 .. Len(frames) :
                 /\ i # Len(frames) => At(x)[i] = frames[i]
                 /\ At(x)[i].who = frames[i].who
                 /\ At(x)[i].sig = frames[i].sig
                 /\ At(x)[i].fault = frames[i].fault
           /\ At(x)[Len(frames)].step = x
<1> DEFINE n == Len(frames)
<1>1. frames \in Seq(Frame) /\ n \in Nat \ {0} /\ frames \in [1 .. n -> Frame] /\ n \in 1 .. n
  BY DEF Types
<1>2. At(x) = [frames EXCEPT ![n] = [frames[n] EXCEPT !.step = x]]
  BY <1>1 DEF At
<1> DEFINE g == [frames[n] EXCEPT !.step = x]
<1>3. /\ g \in Frame /\ g.who = frames[n].who /\ g.sig = frames[n].sig
      /\ g.fault = frames[n].fault /\ g.step = x
  BY <1>1 DEF Frame
<1>4. At(x) = [frames EXCEPT ![n] = g]
  BY <1>2
<1> HIDE DEF g
<1>5. At(x) \in [1 .. n -> Frame] /\ At(x)[n] = g /\ \A i \in 1 .. n : i # n => At(x)[i] = frames[i]
  BY <1>1, <1>3, <1>4
<1>6. At(x) \in Seq(Frame) /\ Len(At(x)) = n
  BY <1>1, <1>3, <1>4
<1>7. ASSUME NEW i \in 1 .. n
      PROVE  /\ i # n => At(x)[i] = frames[i]
             /\ At(x)[i].who = frames[i].who
             /\ At(x)[i].sig = frames[i].sig
             /\ At(x)[i].fault = frames[i].fault
  <2>1. CASE i = n
    BY <1>3, <1>5, <2>1
  <2>2. CASE i # n
    BY <1>5, <2>2
  <2>3. QED
    BY <2>1, <2>2
<1>8. At(x)[n].step = x
  BY <1>3, <1>5
<1>9. QED
  BY <1>1, <1>6, <1>7, <1>8

(* Every handler on the stack is a frame that keeps its invariant. *)
LEMMA Frames ==
    ASSUME IInv, frames # <<>>
    PROVE  /\ Len(frames) \in Nat \ {0} /\ 1 \in 1 .. Len(frames) /\ Len(frames) \in 1 .. Len(frames)
           /\ \A i \in 1 .. Len(frames) :
                 /\ frames[i] \in Frame /\ frames[i].sig \in SignalSet
                 /\ frames[i].who \in {"ours", "prior"} /\ frames[i].fault \in BOOLEAN
                 /\ FrameInv(frames[i])
<1>1. frames \in Seq(Frame) /\ Len(frames) \in Nat \ {0}
  BY DEF IInv, Types
<1>2. \A i \in 1 .. Len(frames) : frames[i] \in Frame
  BY <1>1
<1>3. QED
  BY <1>1, <1>2 DEF IInv, StackInv, Frame

(* Which handler a step belongs to. *)
LEMMA TopIsOurs ==
    ASSUME IInv, frames # <<>>, Top.step # "runs"
    PROVE  /\ Top.who = "ours" /\ Top.sig \in SignalSet /\ previous[Top.sig] = original[Top.sig]
           /\ Top.step \in {"chain", "raise", "return"} => disp[Top.sig] # "ours"
           /\ Top.step \notin {"enter", "latch"} => latch
BY Frames DEF Top, FrameInv, PastLatch

LEMMA TopIsPrior ==
    ASSUME IInv, frames # <<>>, Top.step = "runs"
    PROVE  /\ Top.who = "prior" /\ Top.sig \in SignalSet /\ Top.sig \in seen.handled
           /\ disp[Top.sig] # "ours" /\ original[Top.sig] = "prior"
BY Frames DEF Top, FrameInv

(* Below a handler of ours that passed the test of the latch there is none *)
(* that has set it.                                                        *)
LEMMA NoneBelow ==
    ASSUME IInv, frames # <<>>, Top.who = "ours", Top.step # "enter" \/ ~latch
    PROVE  \A i \in 1 .. Len(frames) : i < Len(frames) => ~PastLatch(frames[i])
<1>1. SUFFICES ASSUME NEW i \in 1 .. Len(frames), i < Len(frames), PastLatch(frames[i])
               PROVE  FALSE
  OBVIOUS
<1>2. Len(frames) \in 1 .. Len(frames) /\ FrameInv(frames[i])
  BY Frames
<1>3. frames[Len(frames)].step = "enter"
  BY <1>1, <1>2 DEF IInv, StackInv, Top
<1>4. latch
  BY <1>1, <1>2 DEF FrameInv, PastLatch
<1>5. QED
  BY <1>3, <1>4 DEF Top

(* Nothing a handler does undoes what the invariant says of another one.   *)
Onward ==
    /\ previous' = previous /\ original' = original
    /\ \A s \in SignalSet : disp[s] # "ours" => disp'[s] # "ours"
    /\ latch => latch'
    /\ Alive' => Alive
    /\ seen.handled \subseteq seen'.handled
    /\ seen.got \subseteq seen'.got
    /\ seen.reentered => seen'.reentered
    /\ seen.survived => seen'.survived

LEMMA FramesKept ==
    ASSUME IInv, frames # <<>>, Onward, NEW i \in 1 .. Len(frames), frames'[i] = frames[i]
    PROVE  FrameInv(frames[i])'
<1>1. FrameInv(frames[i]) /\ frames[i].sig \in SignalSet
  BY Frames
<1>2. QED
  BY <1>1 DEF Onward, FrameInv, Passed, PastLatch

(* The dispositions, the saved ones and the sink are left alone. *)
LEMMA SetupKept ==
    ASSUME IInv, UNCHANGED <<disp, previous, original, setup, request>>, latch => latch',
           sink'.installed = sink.installed, sink'.status = sink.status, sink'.path = sink.path
    PROVE  DispInv' /\ SetupInv' /\ SinkInv' /\ TakenInv'
<1>1. DispInv'
  BY DEF IInv, DispInv
<1>2. SinkInv'
  BY DEF IInv, SinkInv
<1>3. SetupInv'
  BY DEF IInv, SetupInv, Saved, AsBefore
<1>4. TakenInv'
  BY DEF IInv, TakenInv, AllOurs
<1>5. QED
  BY <1>1, <1>2, <1>3, <1>4

LEMMA EndKept ==
    ASSUME IInv, Onward, end' = end
    PROVE  EndInv'
BY DEF IInv, EndInv, Onward

(* What the handlers on the stack were called for stays pending; a signal  *)
(* that has just come is settled or pending too.                           *)
LEMMA GotKept ==
    ASSUME IInv, frames # <<>>, Onward, UNCHANGED retrap,
           \A i \in 1 .. Len(frames) :
               /\ i \in 1 .. Len(frames')
               /\ frames'[i].sig = frames[i].sig /\ frames'[i].fault = frames[i].fault,
           \A d \in seen'.got : d \in seen.got \/ (Alive' => Settled(d)' \/ Pending(d)')
    PROVE  GotInv'
<1>1. retrap' = "none"
  BY DEF IInv, GotInv
<1>2. ASSUME Alive', NEW d \in seen.got
      PROVE  Settled(d)' \/ Pending(d)'
  <2>1. Settled(d) \/ \E i \in 1 .. Len(frames) : d = <<frames[i].sig, frames[i].fault>>
    <3>1. Alive /\ retrap = "none"
      BY <1>1, <1>2 DEF Onward
    <3>2. QED
      BY <3>1 DEF IInv, GotInv, Pending
  <2>2. Settled(d) => Settled(d)'
    BY DEF Settled, Onward
  <2>3. (\E i \in 1 .. Len(frames) : d = <<frames[i].sig, frames[i].fault>>) => Pending(d)'
    <3>1. SUFFICES ASSUME NEW i \in 1 .. Len(frames), d = <<frames[i].sig, frames[i].fault>>
                   PROVE  Pending(d)'
      OBVIOUS
    <3>2. i \in 1 .. Len(frames') /\ d = <<frames'[i].sig, frames'[i].fault>>
      BY <3>1
    <3>3. QED
      BY <3>2 DEF Pending
  <2>4. QED
    BY <2>1, <2>2, <2>3
<1>3. QED
  BY <1>1, <1>2 DEF GotInv

(* The stack is left as it is. *)
LEMMA StackKept ==
    ASSUME IInv, frames # <<>>, Onward, frames' = frames
    PROVE  StackInv'
<1>1. \A i \in 1 .. Len(frames) : FrameInv(frames[i])'
  BY FramesKept
<1>2. QED
  BY <1>1 DEF IInv, StackInv, PastLatch

(* The handler of ours that runs goes on. *)
LEMMA TopMoves ==
    ASSUME IInv, frames # <<>>, Onward, NEW x \in Steps \ {"enter", "runs"}, frames' = At(x),
           UNCHANGED retrap, seen'.got = seen.got,
           Top.who = "ours", Top.step # "enter" \/ ~latch,
           x \in {"chain", "raise", "return"} => disp'[Top.sig] # "ours",
           x = "raise" => original[Top.sig] # "prior",
           x = "return" /\ Alive' =>
               original[Top.sig] = "ign" \/ (original[Top.sig] = "prior" /\ Top.sig \in seen'.handled),
           x # "latch" => latch'
    PROVE  /\ StackInv' /\ GotInv' /\ LatchInv' /\ frames' \in Seq(Frame)
           /\ Len(frames) \in 1 .. Len(frames) /\ Len(frames') = Len(frames)
           /\ \A i \in 1 .. Len(frames) :
                 frames'[i].who = frames[i].who /\ (i # Len(frames) => frames'[i] = frames[i])
           /\ frames'[Len(frames)].step = x
<1> DEFINE n == Len(frames)
<1>1. /\ frames' \in Seq(Frame) /\ Len(frames') = n /\ n \in Nat \ {0} /\ n \in 1 .. n /\ 1 \in 1 .. n
      /\ \A i \in 1 .. n :
            /\ i # n => frames'[i] = frames[i]
            /\ frames'[i].who = frames[i].who
            /\ frames'[i].sig = frames[i].sig
            /\ frames'[i].fault = frames[i].fault
      /\ frames'[n].step = x
  BY AtProps, Frames DEF IInv
<1>2. /\ previous'[Top.sig] = original'[Top.sig] /\ original' = original
      /\ frames'[n].who = "ours" /\ frames'[n].sig = Top.sig
      /\ frames'[n].fault => <<Top.sig, TRUE>> \in seen'.got
  <2>1. FrameInv(Top)
    BY Frames DEF Top
  <2>2. QED
    BY <1>1, <2>1 DEF FrameInv, Onward, Top
<1>3. \A i \in 1 .. n : i < n => ~PastLatch(frames[i])
  BY NoneBelow
<1>4. GotInv'
  BY <1>1, GotKept
<1>5. n # 1 => seen'.reentered
  <2>1. n # 1 => n > 1
    BY <1>1
  <2>2. n > 1 => seen.reentered
    BY <1>1 DEF IInv, LatchInv, Top
  <2>3. QED
    BY <2>1, <2>2 DEF Onward
<1> HIDE DEF n
<1>6. ASSUME NEW i \in 1 .. n
      PROVE  FrameInv(frames[i])'
  <2>1. CASE i = n
    <3>1. /\ frames'[i].who = "ours" /\ frames'[i].sig = Top.sig /\ frames'[i].step = x
          /\ frames'[i].fault => <<Top.sig, TRUE>> \in seen'.got
      BY <1>1, <1>2, <2>1
    <3>2. x = "return" /\ Alive' => Passed(frames[i].sig)'
      BY <1>2, <3>1 DEF Passed
    <3>3. QED
      BY <1>2, <3>1, <3>2 DEF FrameInv, PastLatch
  <2>2. CASE i # n
    BY <1>1, <2>2, FramesKept DEF n
  <2>3. QED
    BY <2>1, <2>2
<1>7. ASSUME NEW i \in 1 .. n, NEW j \in 1 .. n, i < j
      PROVE  ~PastLatch(frames[i])'
  <2>1. i < n /\ i # n
    BY <1>1, <1>7
  <2>2. frames'[i] = frames[i] /\ ~PastLatch(frames[i])
    BY <1>1, <1>3, <2>1
  <2>3. QED
    BY <2>2 DEF PastLatch
<1>8. StackInv'
  BY <1>1, <1>6, <1>7 DEF StackInv
<1>9. LatchInv'
  <2>1. frames' # <<>>
    BY <1>1
  <2>2. \A i \in 1 .. n : i > 1 => n # 1
    BY <1>1
  <2>3. frames'[1].step = "enter" => n # 1
    BY <1>1
  <2>4. QED
    BY <1>1, <1>5, <2>1, <2>2, <2>3 DEF LatchInv, Program
<1>10. QED
  BY <1>1, <1>4, <1>8, <1>9 DEF n

(* The record comes nearer. *)
LEMMA StillOnItsWay ==
    ASSUME IInv, OnItsWay, Alive', NEW x \in {"latch", "open", "write"},
           disp' = disp, x = "latch" => ~latch', x = "write" => sink'.fd, sink.fd => sink'.fd,
           sink'.fd \/ sink'.path,
           frames' \in Seq(Frame), Len(frames) \in 1 .. Len(frames), Len(frames') = Len(frames),
           \A i \in 1 .. Len(frames) :
               frames'[i].who = frames[i].who /\ (i # Len(frames) => frames'[i] = frames[i]),
           frames'[Len(frames)].step = x
    PROVE  OnItsWay'
<1>1. frames' # <<>> /\ AllOurs'
  <2>1. frames' # <<>>
    OBVIOUS
  <2>2. QED
    BY <2>1 DEF OnItsWay, AllOurs
<1>2. ASSUME NEW i \in 1 .. Len(frames)
      PROVE  /\ frames'[i].who = "ours"
             /\ frames'[i].step \in {"enter", "latch", "open", "write"}
             /\ frames'[i].step = "write" => sink'.fd
  <2>1. CASE i = Len(frames)
    BY <2>1 DEF OnItsWay
  <2>2. CASE i # Len(frames)
    BY <2>2 DEF OnItsWay
  <2>3. QED
    BY <2>1, <2>2
<1>3. latch' => \E i \in 1 .. Len(frames) : frames'[i].step \in {"open", "write"}
  OBVIOUS
<1>4. QED
  BY <1>1, <1>2, <1>3 DEF OnItsWay

(* The record is out once our handler is past writing it. *)
LEMMA Recorded ==
    ASSUME IInv, Alive, frames = <<>> \/ Top.step \notin {"enter", "latch", "open", "write"},
           seen.due, ~seen.refused
    PROVE  seen.records > 0
<1>1. ~CutShort
  BY DEF CutShort, Alive
<1>2. ~OnItsWay
  <2>1. CASE frames = <<>>
    BY <2>1 DEF OnItsWay
  <2>2. CASE frames # <<>>
    BY <2>2, Frames DEF OnItsWay, Top
  <2>3. QED
    BY <2>1, <2>2
<1>3. QED
  BY <1>1, <1>2 DEF IInv, RecordInv

LEMMA RecordKept ==
    ASSUME IInv, Alive, frames = <<>> \/ Top.step \notin {"enter", "latch", "open", "write"},
           seen'.due = seen.due, seen'.refused = seen.refused, seen'.records = seen.records
    PROVE  RecordInv'
BY Recorded DEF RecordInv

-----------------------------------------------------------------------------
(* The steps of handlers *)

LEMMA EnterStep ==
    ASSUME IInv, Enter
    PROVE  IInv'
<1>1. /\ Alive /\ frames # <<>> /\ Top.step = "enter"
      /\ UNCHANGED <<disp, previous, sink, latch, retrap, setup, request, original, seen>>
  BY DEF Enter, Running
<1>2. DispInv' /\ SetupInv' /\ SinkInv' /\ TakenInv'
  BY <1>1, SetupKept
<1>3. Top.who = "ours" /\ Len(frames) \in 1 .. Len(frames) /\ Len(frames) \in Nat
  BY <1>1, TopIsOurs, Frames
<1>4. CASE latch /\ end' = "exit" /\ frames' = frames
  <2>1. Types'
    BY <1>1, <1>4 DEF IInv, Types
  <2>2. Onward /\ ~Alive'
    BY <1>1, <1>4 DEF Onward, Alive
  <2>3. StackInv'
    BY <1>1, <1>4, <2>2, StackKept
  <2>4. GotInv'
    BY <1>1, <1>4, <2>2, GotKept
  <2>5. seen.reentered \/ seen.survived
    <3>1. CASE Len(frames) = 1
      BY <1>1, <1>4, <3>1 DEF IInv, LatchInv, Top
    <3>2. CASE Len(frames) # 1
      <4>1. \A k \in Nat : k \in 1 .. k /\ k # 1 => k > 1
        OBVIOUS
      <4>2. Len(frames) > 1
        BY <1>3, <3>2, <4>1, Zenon
      <4>3. QED
        BY <1>3, <4>2 DEF IInv, LatchInv, Top
    <3>3. QED
      BY <3>1, <3>2
  <2>6. LatchInv' /\ EndInv'
    BY <1>1, <1>4, <2>2, <2>5, Places DEF IInv, LatchInv, EndInv, Program
  <2>7. RecordInv'
    <3>1. ~CutShort
      BY <1>1 DEF CutShort, Alive
    <3>2. ASSUME OnItsWay
          PROVE  CutShort'
      <4>1. PICK i \in 1 .. Len(frames) : frames[i].step \in {"open", "write"}
        BY <1>4, <3>2 DEF OnItsWay
      <4>2. i # Len(frames)
        BY <1>1, <4>1 DEF Top
      <4>3. i \in 1 .. Len(frames) - 1 /\ frames[i].who = "ours"
        BY <1>3, <3>2, <4>2 DEF OnItsWay
      <4>4. QED
        BY <1>4, <4>1, <4>3 DEF CutShort
    <3>3. QED
      BY <1>1, <3>1, <3>2 DEF IInv, RecordInv
  <2>8. QED
    BY <1>2, <2>1, <2>3, <2>4, <2>6, <2>7 DEF IInv
<1>5. CASE ~latch /\ frames' = At("latch") /\ end' = end
  <2>1. Onward /\ Alive'
    BY <1>1, <1>5 DEF Onward, Alive
  <2>2. /\ StackInv' /\ GotInv' /\ LatchInv' /\ frames' \in Seq(Frame)
        /\ Len(frames') = Len(frames)
        /\ \A i \in 1 .. Len(frames) :
              frames'[i].who = frames[i].who /\ (i # Len(frames) => frames'[i] = frames[i])
        /\ frames'[Len(frames)].step = "latch"
    BY <1>1, <1>3, <1>5, <2>1, TopMoves DEF Steps
  <2>3. Types'
    BY <1>1, <1>5, <2>2 DEF IInv, Types
  <2>4. EndInv'
    BY <1>5, <2>1, EndKept
  <2>5. RecordInv'
    <3>1. ~CutShort
      BY <1>1 DEF CutShort, Alive
    <3>2. OnItsWay => sink'.fd \/ sink'.path
      BY <1>1 DEF OnItsWay
    <3>3. OnItsWay => OnItsWay'
      BY <1>1, <1>3, <1>5, <2>1, <2>2, <3>2, StillOnItsWay
    <3>4. QED
      BY <1>1, <3>1, <3>3 DEF IInv, RecordInv
  <2>6. QED
    BY <1>2, <2>2, <2>3, <2>4, <2>5 DEF IInv
<1>6. QED
  BY <1>4, <1>5 DEF Enter

LEMMA SetLatchStep ==
    ASSUME IInv, SetLatch
    PROVE  IInv'
<1>1. /\ Alive /\ frames # <<>> /\ Top.step = "latch" /\ latch' = TRUE /\ frames' = At("open")
      /\ UNCHANGED <<disp, previous, sink, retrap, end, setup, request, original, seen>>
  BY DEF SetLatch, LatchSet, Running
<1>2. DispInv' /\ SetupInv' /\ SinkInv' /\ TakenInv'
  BY <1>1, SetupKept
<1>3. Top.who = "ours" /\ Len(frames) \in 1 .. Len(frames)
  BY <1>1, TopIsOurs, Frames
<1>4. Onward /\ Alive'
  BY <1>1 DEF Onward, Alive
<1>5. /\ StackInv' /\ GotInv' /\ LatchInv' /\ frames' \in Seq(Frame)
      /\ Len(frames') = Len(frames)
      /\ \A i \in 1 .. Len(frames) :
            frames'[i].who = frames[i].who /\ (i # Len(frames) => frames'[i] = frames[i])
      /\ frames'[Len(frames)].step = "open"
  BY <1>1, <1>3, <1>4, TopMoves DEF Steps
<1>6. Types'
  BY <1>1, <1>5 DEF IInv, Types
<1>7. EndInv'
  BY <1>1, <1>4, EndKept
<1>8. RecordInv'
  <2>1. ~CutShort
    BY <1>1 DEF CutShort, Alive
  <2>2. OnItsWay => sink'.fd \/ sink'.path
    BY <1>1 DEF OnItsWay
  <2>3. OnItsWay => OnItsWay'
    BY <1>1, <1>3, <1>4, <1>5, <2>2, StillOnItsWay
  <2>4. QED
    BY <1>1, <2>1, <2>3 DEF IInv, RecordInv
<1>9. QED
  BY <1>2, <1>5, <1>6, <1>7, <1>8 DEF IInv

LEMMA OpenStep ==
    ASSUME IInv, NEW ok \in BOOLEAN, Open(ok)
    PROVE  IInv'
<1> DEFINE tries == ~sink.fd /\ sink.path
<1>1. /\ Alive /\ frames # <<>> /\ Top.step = "open"
      /\ ok \/ tries
      /\ sink' = IF tries THEN [sink EXCEPT !.fd = ok] ELSE sink
      /\ seen' = IF tries /\ ~ok THEN [seen EXCEPT !.refused = TRUE] ELSE seen
      /\ frames' = At("write")
      /\ UNCHANGED <<disp, previous, latch, retrap, end, setup, request, original>>
  BY DEF Open, Running
<1>2. /\ sink' \in Sink /\ sink'.installed = sink.installed /\ sink'.status = sink.status
      /\ sink'.path = sink.path
      /\ tries => sink'.fd = ok
      /\ ~tries => sink'.fd = sink.fd
  <2>1. sink \in Sink
    BY DEF IInv, Types
  <2>2. CASE tries
    BY <1>1, <2>1, <2>2 DEF Sink
  <2>3. CASE ~tries
    BY <1>1, <2>1, <2>3
  <2>4. QED
    BY <2>2, <2>3
<1>3. /\ seen' \in Seen /\ seen'.got = seen.got /\ seen'.handled = seen.handled
      /\ seen'.reentered = seen.reentered /\ seen'.survived = seen.survived
      /\ seen'.due = seen.due /\ seen'.records = seen.records
      /\ seen.refused => seen'.refused
      /\ tries /\ ~ok => seen'.refused
  <2>1. seen \in Seen
    BY DEF IInv, Types
  <2>2. CASE tries /\ ~ok
    BY <1>1, <2>1, <2>2 DEF Seen
  <2>3. CASE ~(tries /\ ~ok)
    BY <1>1, <2>1, <2>3
  <2>4. QED
    BY <2>2, <2>3
<1>4. Onward /\ Alive'
  BY <1>1, <1>3 DEF Onward, Alive
<1>5. Top.who = "ours" /\ latch' /\ Len(frames) \in 1 .. Len(frames)
  BY <1>1, TopIsOurs, Frames
<1>6. /\ StackInv' /\ GotInv' /\ LatchInv' /\ frames' \in Seq(Frame)
      /\ Len(frames') = Len(frames)
      /\ \A i \in 1 .. Len(frames) :
            frames'[i].who = frames[i].who /\ (i # Len(frames) => frames'[i] = frames[i])
      /\ frames'[Len(frames)].step = "write"
  BY <1>1, <1>3, <1>4, <1>5, TopMoves DEF Steps
<1>7. Types'
  BY <1>1, <1>2, <1>3, <1>6 DEF IInv, Types
<1>8. DispInv' /\ SetupInv' /\ SinkInv' /\ TakenInv'
  BY <1>1, <1>2, SetupKept
<1>9. EndInv'
  BY <1>1, <1>4, EndKept
<1>10. RecordInv'
  <2>1. ~CutShort
    BY <1>1 DEF CutShort, Alive
  <2>2. ASSUME OnItsWay, ~seen'.refused
        PROVE  OnItsWay'
    <3>1. sink.fd \/ sink.path
      BY <2>2 DEF OnItsWay
    <3>2. sink'.fd
      BY <1>2, <1>3, <2>2, <3>1
    <3>3. QED
      BY <1>1, <1>4, <1>5, <1>6, <2>2, <3>2, StillOnItsWay
  <2>3. QED
    BY <1>3, <2>1, <2>2 DEF IInv, RecordInv
<1>11. QED
  BY <1>6, <1>7, <1>8, <1>9, <1>10 DEF IInv

LEMMA WriteStep ==
    ASSUME IInv, Write
    PROVE  IInv'
<1>1. /\ Alive /\ frames # <<>> /\ Top.step = "write"
      /\ seen' = IF sink.fd THEN [seen EXCEPT !.records = @ + 1] ELSE seen
      /\ frames' = At("restore")
      /\ UNCHANGED <<disp, previous, sink, latch, retrap, end, setup, request, original>>
  BY DEF Write, Running
<1>2. /\ seen' \in Seen /\ seen'.got = seen.got /\ seen'.handled = seen.handled
      /\ seen'.reentered = seen.reentered /\ seen'.survived = seen.survived
      /\ seen'.due = seen.due /\ seen'.refused = seen.refused
      /\ seen.records > 0 \/ sink.fd => seen'.records > 0
  <2>1. seen \in Seen /\ seen.records \in Nat /\ seen.records + 1 \in Nat /\ seen.records + 1 > 0
    BY DEF IInv, Types, Seen
  <2>2. CASE sink.fd
    <3>1. seen' = [seen EXCEPT !.records = seen.records + 1]
      BY <1>1, <2>2
    <3>2. QED
      BY <2>1, <2>2, <3>1 DEF Seen
  <2>3. CASE ~sink.fd
    BY <1>1, <2>1, <2>3
  <2>4. QED
    BY <2>2, <2>3
<1>3. Onward /\ Alive'
  BY <1>1, <1>2 DEF Onward, Alive
<1>4. Top.who = "ours" /\ latch' /\ Len(frames) \in 1 .. Len(frames)
  BY <1>1, TopIsOurs, Frames
<1>5. StackInv' /\ GotInv' /\ LatchInv' /\ frames' \in Seq(Frame)
  BY <1>1, <1>2, <1>3, <1>4, TopMoves DEF Steps
<1>6. Types'
  BY <1>1, <1>2, <1>5 DEF IInv, Types
<1>7. DispInv' /\ SetupInv' /\ SinkInv' /\ TakenInv'
  BY <1>1, SetupKept
<1>8. EndInv'
  BY <1>1, <1>3, EndKept
<1>9. RecordInv'
  <2>1. ~CutShort
    BY <1>1 DEF CutShort, Alive
  <2>2. OnItsWay => sink.fd
    BY <1>1, <1>4 DEF OnItsWay, Top
  <2>3. QED
    BY <1>2, <2>1, <2>2 DEF IInv, RecordInv
<1>10. QED
  BY <1>5, <1>6, <1>7, <1>8, <1>9 DEF IInv

LEMMA RestoreStep ==
    ASSUME IInv, Restore
    PROVE  IInv'
<1> DEFINE s == Top.sig
<1>1. /\ Alive /\ frames # <<>> /\ Top.step = "restore"
      /\ disp' = [disp EXCEPT ![s] = previous[s]]
      /\ frames' = At("chain")
      /\ UNCHANGED <<previous, sink, latch, retrap, end, setup, request, original, seen>>
  BY DEF Restore, Running
<1>2. Top.who = "ours" /\ latch' /\ s \in SignalSet /\ previous[s] = original[s]
  BY <1>1, TopIsOurs
<1>3. /\ disp' \in [SignalSet -> Dispositions] /\ disp'[s] = original[s] /\ original[s] # "ours"
      /\ \A t \in SignalSet : t # s => disp'[t] = disp[t]
  <2>1. previous[s] \in Dispositions \ {"ours"} /\ disp \in [SignalSet -> Dispositions]
    BY <1>2 DEF IInv, Types
  <2>2. QED
    BY <1>1, <1>2, <2>1
<1>4. \A t \in SignalSet : /\ disp[t] # "ours" => disp'[t] # "ours"
                           /\ disp[t] = original[t] => disp'[t] = original[t]
  BY <1>3
<1>5. Onward /\ Alive'
  BY <1>1, <1>4 DEF Onward, Alive
<1>6. disp'[Top.sig] # "ours"
  BY <1>3
<1>7. StackInv' /\ GotInv' /\ LatchInv' /\ frames' \in Seq(Frame)
  BY <1>1, <1>2, <1>5, <1>6, TopMoves DEF Steps
<1>8. Types'
  BY <1>1, <1>3, <1>7 DEF IInv, Types
<1> HIDE DEF s
<1>9. DispInv' /\ SinkInv' /\ TakenInv'
  BY <1>1, <1>2, <1>3 DEF IInv, DispInv, SinkInv, TakenInv
<1>10. SetupInv'
  BY <1>1, <1>4, Places DEF IInv, SetupInv, AsBefore, Saved
<1>11. EndInv' /\ RecordInv'
  BY <1>1, <1>5, EndKept, RecordKept
<1>12. QED
  BY <1>7, <1>8, <1>9, <1>10, <1>11 DEF IInv

(* The handler that was there is called from ours. *)
LEMMA ChainCalls ==
    ASSUME IInv, Chain, HandOn(Top.sig) = "call"
    PROVE  IInv'
<1> DEFINE n == Len(frames)
           s == Top.sig
           f == [who |-> "prior", sig |-> s, fault |-> FALSE, step |-> "runs"]
<1>1. /\ Alive /\ frames # <<>> /\ Top.step = "chain"
      /\ frames' = Append(At("return"), f)
      /\ seen' = [seen EXCEPT !.handled = @ \cup {s}]
      /\ UNCHANGED <<disp, previous, sink, latch, retrap, end, setup, request, original>>
  BY DEF Chain, Running
<1>2. /\ Top.who = "ours" /\ s \in SignalSet /\ previous[s] = original[s] /\ disp[s] # "ours" /\ latch
      /\ original[s] = "prior"
  BY <1>1, TopIsOurs DEF HandOn
<1>3. /\ seen' \in Seen /\ seen'.got = seen.got /\ seen'.handled = seen.handled \cup {s}
      /\ seen'.reentered = seen.reentered /\ seen'.survived = seen.survived
      /\ seen'.due = seen.due /\ seen'.refused = seen.refused /\ seen'.records = seen.records
  <2>1. seen \in Seen /\ seen.handled \cup {s} \in SUBSET SignalSet
    BY <1>2 DEF IInv, Types, Seen
  <2>2. QED
    BY <1>1, <2>1 DEF Seen
<1>4. Onward /\ Alive'
  BY <1>1, <1>3 DEF Onward, Alive
<1>5. f \in Frame /\ f.who = "prior" /\ f.sig = s /\ f.step = "runs" /\ f.fault = FALSE
  BY <1>2 DEF Frame, Steps
<1>6. /\ At("return") \in Seq(Frame) /\ Len(At("return")) = n /\ n \in Nat \ {0}
      /\ \A i \in 1 .. n :
            /\ i # n => At("return")[i] = frames[i]
            /\ At("return")[i].who = frames[i].who
            /\ At("return")[i].sig = frames[i].sig
            /\ At("return")[i].fault = frames[i].fault
      /\ At("return")[n].step = "return"
  BY <1>1, AtProps DEF IInv, Steps
<1> HIDE DEF f
<1>7. /\ frames' \in Seq(Frame) /\ Len(frames') = n + 1 /\ frames'[n + 1] = f
      /\ \A i \in 1 .. n : frames'[i] = At("return")[i]
  BY <1>1, <1>5, <1>6
<1>8. /\ frames[n].who = "ours" /\ frames[n].sig = s
      /\ frames[n].fault => <<s, TRUE>> \in seen.got
  BY <1>1, <1>2, Frames DEF Top, FrameInv
<1>9. n # 1 => seen.reentered
  <2>1. n \in 1 .. n /\ (n # 1 => n > 1)
    BY <1>6
  <2>2. QED
    BY <1>8, <2>1 DEF IInv, LatchInv
<1> HIDE DEF n, s
<1>10. ASSUME NEW i \in 1 .. n + 1
       PROVE  FrameInv(frames[i])'
  <2>1. CASE i = n + 1
    <3>1. /\ frames'[i].who = "prior" /\ frames'[i].sig = s /\ frames'[i].step = "runs"
          /\ frames'[i].fault = FALSE /\ s \in seen'.handled
      BY <1>3, <1>5, <1>7, <2>1
    <3>2. QED
      BY <1>1, <1>2, <3>1 DEF FrameInv
  <2>2. CASE i = n
    <3>1. /\ frames'[i].who = "ours" /\ frames'[i].sig = s /\ frames'[i].step = "return"
          /\ frames'[i].fault => <<s, TRUE>> \in seen'.got
      BY <1>3, <1>6, <1>7, <1>8, <2>2
    <3>2. s \in seen'.handled
      BY <1>3
    <3>3. QED
      BY <1>1, <1>2, <3>1, <3>2 DEF FrameInv, Passed
  <2>3. CASE i # n /\ i # n + 1
    <3>1. i \in 1 .. n
      BY <1>6, <2>3
    <3>2. frames'[i] = frames[i]
      BY <1>6, <1>7, <2>3, <3>1
    <3>3. QED
      BY <1>1, <1>4, <3>1, <3>2, FramesKept DEF n
  <2>4. QED
    BY <2>1, <2>2, <2>3
<1>11. \A i \in 1 .. n : i < n => ~PastLatch(frames[i])
  BY <1>1, <1>2, NoneBelow DEF n
<1>12. ASSUME NEW i \in 1 .. n + 1, NEW j \in 1 .. n + 1, i < j
       PROVE  ~(PastLatch(frames[i])' /\ frames'[j].who = "ours")
  <2>1. i \in 1 .. n
    BY <1>6, <1>12
  <2>2. CASE i = n
    <3>1. j = n + 1
      BY <1>6, <1>12, <2>2
    <3>2. frames'[j].who = "prior"
      BY <1>5, <1>7, <3>1
    <3>3. QED
      BY <3>2
  <2>3. CASE i # n
    <3>1. i < n
      BY <1>6, <2>1, <2>3
    <3>2. frames'[i] = frames[i] /\ ~PastLatch(frames[i])
      BY <1>6, <1>7, <1>11, <2>1, <2>3, <3>1
    <3>3. QED
      BY <3>2 DEF PastLatch
  <2>4. QED
    BY <2>2, <2>3
<1>13. StackInv'
  BY <1>7, <1>10, <1>12 DEF StackInv
<1>14. \A i \in 1 .. n : /\ i \in 1 .. Len(frames')
                         /\ frames'[i].sig = frames[i].sig /\ frames'[i].fault = frames[i].fault
  BY <1>6, <1>7
<1>15. Types'
  BY <1>1, <1>3, <1>7 DEF IInv, Types
<1>16. DispInv' /\ SetupInv' /\ SinkInv' /\ TakenInv'
  BY <1>1, SetupKept
<1>17. GotInv'
  BY <1>1, <1>3, <1>4, <1>14, GotKept DEF n
<1>18. LatchInv'
  <2>1. frames' # <<>> /\ 1 \in 1 .. n
    BY <1>6, <1>7
  <2>2. ASSUME NEW i \in 1 .. n + 1, i > 1, frames'[i].who = "ours"
        PROVE  n # 1
    <3>1. i # n + 1
      BY <1>5, <1>7, <2>2
    <3>2. QED
      BY <1>6, <2>2, <3>1
  <2>3. frames'[1].step = "enter" => n # 1
    BY <1>6, <1>7, <2>1
  <2>4. QED
    BY <1>3, <1>7, <1>9, <2>1, <2>2, <2>3 DEF LatchInv, Program
<1>19. EndInv' /\ RecordInv'
  BY <1>1, <1>3, <1>4, EndKept, RecordKept
<1>20. QED
  BY <1>13, <1>15, <1>16, <1>17, <1>18, <1>19 DEF IInv

LEMMA ChainStep ==
    ASSUME IInv, Chain
    PROVE  IInv'
<1>1. CASE HandOn(Top.sig) = "call"
  BY <1>1, ChainCalls
<1>2. CASE HandOn(Top.sig) # "call"
  <2>1. /\ Alive /\ frames # <<>> /\ Top.step = "chain"
        /\ frames' = At("raise")
        /\ UNCHANGED <<disp, previous, sink, latch, retrap, end, setup, request, original, seen>>
    BY <1>2 DEF Chain, Running, HandOn
  <2>2. /\ Top.who = "ours" /\ Top.sig \in SignalSet /\ disp'[Top.sig] # "ours" /\ latch'
        /\ original[Top.sig] # "prior"
    BY <1>2, <2>1, TopIsOurs DEF HandOn
  <2>3. Onward /\ Alive'
    BY <2>1 DEF Onward, Alive
  <2>4. StackInv' /\ GotInv' /\ LatchInv' /\ frames' \in Seq(Frame)
    BY <2>1, <2>2, <2>3, TopMoves DEF Steps
  <2>5. Types'
    BY <2>1, <2>4 DEF IInv, Types
  <2>6. DispInv' /\ SetupInv' /\ SinkInv' /\ TakenInv'
    BY <2>1, SetupKept
  <2>7. EndInv' /\ RecordInv'
    BY <2>1, <2>3, EndKept, RecordKept
  <2>8. QED
    BY <2>4, <2>5, <2>6, <2>7 DEF IInv
<1>3. QED
  BY <1>1, <1>2

(* The signal is raised again with the disposition it had before us: it    *)
(* kills the process or it is ignored.                                     *)
LEMMA RaiseStep ==
    ASSUME IInv, Raise
    PROVE  IInv'
<1> DEFINE s == Top.sig
<1>1. /\ Alive /\ frames # <<>> /\ Top.step = "raise"
      /\ Deliver(s, FALSE, At("return"))
      /\ UNCHANGED <<disp, previous, sink, latch, retrap, setup, request, original, seen>>
  BY DEF Raise, Running
<1>2. Top.who = "ours" /\ s \in SignalSet /\ disp[s] # "ours" /\ latch
  BY <1>1, TopIsOurs
<1>3. original[s] # "prior" /\ disp[s] = original[s] /\ disp[s] \in {"dfl", "ign"}
  <2>1. original[s] # "prior"
    BY <1>1, <1>2, Frames DEF FrameInv, Top
  <2>2. disp[s] = original[s] /\ disp[s] \in Dispositions
    BY <1>2 DEF IInv, DispInv, Types
  <2>3. QED
    BY <1>2, <2>1, <2>2 DEF Dispositions
<1>4. /\ frames' = At("return")
      /\ \/ disp[s] = "dfl" /\ end' = s
         \/ disp[s] = "ign" /\ end' = end
  BY <1>1, <1>3 DEF Deliver
<1>5. /\ Onward
      /\ Alive' => original[s] = "ign"
  BY <1>1, <1>2, <1>3, <1>4, Places DEF Onward, Alive
<1>6. StackInv' /\ GotInv' /\ LatchInv' /\ frames' \in Seq(Frame)
  BY <1>1, <1>2, <1>4, <1>5, TopMoves DEF Steps
<1>7. Types'
  BY <1>1, <1>2, <1>4, <1>6 DEF IInv, Types
<1>8. DispInv' /\ SetupInv' /\ SinkInv' /\ TakenInv'
  BY <1>1, SetupKept
<1>9. EndInv'
  <2>1. CASE disp[s] = "dfl" /\ end' = s
    BY <1>1, <1>2, <1>3, <2>1, Places DEF EndInv
  <2>2. CASE end' = end
    BY <1>5, <2>2, EndKept
  <2>3. QED
    BY <1>4, <2>1, <2>2
<1>10. RecordInv'
  BY <1>1, RecordKept
<1>11. QED
  BY <1>6, <1>7, <1>8, <1>9, <1>10 DEF IInv

LEMMA PriorDiesStep ==
    ASSUME IInv, PriorDies
    PROVE  IInv'
<1>1. /\ Alive /\ frames # <<>> /\ Top.step = "runs" /\ end' = "prior"
      /\ UNCHANGED <<disp, previous, sink, latch, frames, retrap, setup, request, original, seen>>
  BY DEF PriorDies, Running
<1>2. Onward /\ ~Alive'
  BY <1>1 DEF Onward, Alive
<1>3. Types'
  BY <1>1 DEF IInv, Types
<1>4. DispInv' /\ SetupInv' /\ SinkInv' /\ TakenInv'
  BY <1>1, SetupKept
<1>5. StackInv' /\ GotInv'
  BY <1>1, <1>2, StackKept, GotKept
<1>6. LatchInv' /\ EndInv'
  BY <1>1, <1>2, Places DEF IInv, LatchInv, EndInv, Program
<1>7. RecordInv'
  BY <1>1, RecordKept
<1>8. QED
  BY <1>3, <1>4, <1>5, <1>6, <1>7 DEF IInv

(* The handler that runs is over: its signal has passed. *)
LEMMA TopHasPassed ==
    ASSUME IInv, Alive, frames # <<>>, Top.step \in {"return", "runs"}
    PROVE  /\ Passed(Top.sig) /\ disp[Top.sig] # "ours" /\ disp[Top.sig] = original[Top.sig]
           /\ Top.sig \in SignalSet /\ Top.fault \in BOOLEAN
           /\ Top.fault => <<Top.sig, TRUE>> \in seen.got
<1>1. /\ FrameInv(Top) /\ Top.sig \in SignalSet /\ Top.fault \in BOOLEAN
      /\ Top.who \in {"ours", "prior"}
  BY Frames DEF Top
<1>2. Passed(Top.sig) /\ disp[Top.sig] # "ours" /\ (Top.fault => <<Top.sig, TRUE>> \in seen.got)
  BY <1>1 DEF FrameInv, Passed
<1>3. disp[Top.sig] = original[Top.sig]
  BY <1>1, <1>2 DEF IInv, DispInv
<1>4. QED
  BY <1>1, <1>2, <1>3

LEMMA Popped ==
    ASSUME Types, frames # <<>>, frames' = SubSeq(frames, 1, Len(frames) - 1)
    PROVE  /\ frames' \in Seq(Frame) /\ Len(frames') = Len(frames) - 1
           /\ \A i \in 1 .. Len(frames) - 1 : frames'[i] = frames[i] /\ i \in 1 .. Len(frames)
<1>1. frames \in Seq(Frame) /\ Len(frames) \in Nat \ {0}
  BY DEF Types
<1>2. frames' \in Seq(Frame) /\ \A i \in 1 .. Len(frames) - 1 : frames'[i] = frames[i] /\ i \in 1 .. Len(frames)
  BY <1>1
<1>3. CASE Len(frames) = 1
  BY <1>1, <1>2, <1>3
<1>4. CASE Len(frames) # 1
  <2>1. \A k \in Nat \ {0} : k # 1 => 1 <= k - 1 /\ k - 1 <= k
    OBVIOUS
  <2>2. 1 <= Len(frames) - 1 /\ Len(frames) - 1 <= Len(frames)
    BY <1>1, <1>4, <2>1
  <2>3. QED
    BY <1>1, <1>2, <2>2
<1>5. QED
  BY <1>3, <1>4

LEMMA PopStep ==
    ASSUME IInv, Alive, frames # <<>>, Top.step \in {"return", "runs"},
           NEW repaired \in BOOLEAN, Pop(repaired)
    PROVE  IInv'
<1> DEFINE n == Len(frames)
           s == Top.sig
           again == n = 1 /\ Top.fault /\ ~repaired
           dies == n > 1 /\ Top.fault /\ disp[s] # "prior"
<1>1. /\ repaired => Top.fault /\ disp[s] = "prior"
      /\ frames' = SubSeq(frames, 1, n - 1)
      /\ end' = IF dies THEN s ELSE end
      /\ retrap' = IF again THEN s ELSE retrap
      /\ seen' = [seen EXCEPT !.survived = @ \/ (n = 1 /\ latch /\ ~again)]
      /\ UNCHANGED <<disp, previous, sink, latch, setup, request, original>>
  BY DEF Pop
<1>2. frames \in Seq(Frame) /\ n \in Nat \ {0} /\ retrap = "none"
  BY Frames DEF IInv, Types, GotInv
<1>3. /\ Passed(s) /\ disp[s] # "ours" /\ disp[s] = original[s]
      /\ s \in SignalSet /\ Top.fault \in BOOLEAN
      /\ Top.fault => <<s, TRUE>> \in seen.got
  BY TopHasPassed
<1>4. /\ seen' \in Seen /\ seen'.got = seen.got /\ seen'.handled = seen.handled
      /\ seen'.reentered = seen.reentered /\ seen'.due = seen.due
      /\ seen'.refused = seen.refused /\ seen'.records = seen.records
      /\ seen'.survived = (seen.survived \/ (n = 1 /\ latch /\ ~again))
  <2> DEFINE b == seen.survived \/ (n = 1 /\ latch /\ ~again)
  <2>1. seen \in Seen /\ b \in BOOLEAN
    BY DEF IInv, Types
  <2>2. seen' = [seen EXCEPT !.survived = b]
    BY <1>1
  <2> HIDE DEF b
  <2>3. /\ seen' \in Seen /\ seen'.got = seen.got /\ seen'.handled = seen.handled
        /\ seen'.reentered = seen.reentered /\ seen'.due = seen.due
        /\ seen'.refused = seen.refused /\ seen'.records = seen.records /\ seen'.survived = b
    BY <2>1, <2>2 DEF Seen
  <2>4. QED
    BY <2>3 DEF b
<1>5. Onward
  BY <1>1, <1>4 DEF Onward, Alive
<1>6. /\ frames' \in Seq(Frame) /\ Len(frames') = n - 1
      /\ \A i \in 1 .. n - 1 : frames'[i] = frames[i] /\ i \in 1 .. n
  BY <1>1, Popped DEF IInv
<1>7. retrap' \in SignalSet \cup {"none"} /\ end' \in SignalSet \cup {"alive", "exit", "prior"}
  BY <1>1, <1>2, <1>3 DEF IInv, Types
<1>8. Types'
  BY <1>1, <1>4, <1>6, <1>7 DEF IInv, Types
<1>9. DispInv' /\ SetupInv' /\ SinkInv' /\ TakenInv'
  BY <1>1, SetupKept
<1>10. StackInv'
  <2>1. ASSUME NEW i \in 1 .. n - 1
        PROVE  FrameInv(frames[i])'
    BY <1>5, <1>6, FramesKept
  <2>2. \A i, j \in 1 .. n - 1 :
          i < j /\ PastLatch(frames'[i]) /\ frames'[j].who = "ours" => frames'[j].step = "enter"
    BY <1>6 DEF IInv, StackInv
  <2>3. QED
    BY <1>6, <2>1, <2>2 DEF StackInv, PastLatch
<1>11. EndInv'
  <2>1. CASE dies
    <3>1. end' = s /\ original[s] = "ign" /\ <<s, TRUE>> \in seen.got
      BY <1>1, <1>3, <2>1 DEF Passed
    <3>2. QED
      BY <1>1, <1>3, <1>4, <3>1, Places DEF EndInv
  <2>2. CASE ~dies
    BY <1>1, <1>5, <2>2, EndKept
  <2>3. QED
    BY <2>1, <2>2
<1>12. RecordInv'
  BY <1>4, RecordKept
<1>13. GotInv'
  <2>1. frames' # <<>> => retrap' = "none"
    <3>1. frames' # <<>> => n # 1
      BY <1>6
    <3>2. QED
      BY <1>1, <1>2, <3>1
  <2>2. retrap' # "none" => <<retrap', TRUE>> \in seen'.got /\ disp'[retrap'] # "ours" /\ Passed(retrap)'
    <3>1. SUFFICES ASSUME retrap' # "none"
                   PROVE  <<retrap', TRUE>> \in seen'.got /\ disp'[retrap'] # "ours" /\ Passed(retrap)'
      OBVIOUS
    <3>2. again /\ retrap' = s
      BY <1>1, <1>2, <3>1
    <3>3. QED
      BY <1>1, <1>3, <1>4, <3>2 DEF Passed
  <2>3. ASSUME Alive', NEW d \in seen.got
        PROVE  Settled(d)' \/ Pending(d)'
    <3>1. Settled(d) => Settled(d)'
      BY <1>5 DEF Settled, Onward
    <3>2. Settled(d) \/ \E i \in 1 .. n : d = <<frames[i].sig, frames[i].fault>>
      BY <1>2 DEF IInv, GotInv, Pending
    <3>3. ASSUME NEW i \in 1 .. n, i # n, d = <<frames[i].sig, frames[i].fault>>
          PROVE  Pending(d)'
      <4>1. i \in 1 .. n - 1
        BY <1>2, <3>3
      <4>2. i \in 1 .. Len(frames') /\ d = <<frames'[i].sig, frames'[i].fault>>
        BY <1>6, <3>3, <4>1
      <4>3. QED
        BY <4>2 DEF Pending
    <3>4. ASSUME d = <<s, Top.fault>>
          PROVE  Settled(d) \/ Pending(d)'
      <4>1. d[1] = s /\ d[2] = Top.fault
        BY <3>4
      <4>2. CASE ~Top.fault
        BY <1>3, <4>1, <4>2 DEF Settled, Passed
      <4>3. CASE disp[s] = "prior"
        BY <1>3, <4>1, <4>3 DEF Settled, Passed
      <4>4. CASE Top.fault /\ disp[s] # "prior"
        <5>1. ~dies
          <6>1. s # "alive"
            BY <1>3, Places
          <6>2. QED
            BY <1>1, <2>3, <6>1 DEF Alive
        <5>2. n = 1
          <6>1. ~(n > 1)
            BY <4>4, <5>1
          <6>2. \A k \in Nat \ {0} : ~(k > 1) => k = 1
            OBVIOUS
          <6>3. QED
            BY <1>2, <6>1, <6>2, Zenon
        <5>3. again
          BY <1>1, <4>4, <5>2
        <5>4. retrap' = s /\ s # "none" /\ d = <<s, TRUE>>
          BY <1>1, <1>3, <3>4, <4>4, <5>3, Places
        <5>5. QED
          BY <5>4 DEF Pending
      <4>5. QED
        BY <4>2, <4>3, <4>4
    <3>5. QED
      BY <3>1, <3>2, <3>3, <3>4 DEF Top
  <2>4. QED
    BY <1>4, <2>1, <2>2, <2>3 DEF GotInv
<1>14. LatchInv'
  <2>1. CASE n # 1
    <3>1. 1 \in 1 .. n - 1 /\ frames' # <<>>
      BY <1>2, <1>6, <2>1
    <3>2. frames'[1] = frames[1]
      BY <1>6, <3>1
    <3>3. \A i \in 1 .. n - 1 : i > 1 /\ frames'[i].who = "ours" => seen'.reentered
      BY <1>4, <1>6 DEF IInv, LatchInv
    <3>4. frames'[1].step = "enter" /\ latch' => seen'.reentered \/ seen'.survived
      BY <1>1, <1>4, <3>2 DEF IInv, LatchInv
    <3>5. QED
      BY <1>6, <3>1, <3>3, <3>4 DEF LatchInv, Program
  <2>2. CASE n = 1
    <3>1. frames' = <<>> /\ Len(frames') = 0
      BY <1>6, <2>2
    <3>2. Program' /\ latch' => seen'.survived
      <4>1. again => retrap' # "none"
        BY <1>1, <1>3, Places
      <4>2. QED
        BY <1>1, <1>4, <2>2, <4>1 DEF Program
    <3>3. QED
      BY <3>1, <3>2 DEF LatchInv
  <2>3. QED
    BY <2>1, <2>2
<1>15. QED
  BY <1>8, <1>9, <1>10, <1>11, <1>12, <1>13, <1>14 DEF IInv

-----------------------------------------------------------------------------
(* Deliveries *)

(* A handler is put on the stack. *)
LEMMA Pushed ==
    ASSUME IInv, frames # <<>> => Onward, NEW s \in SignalSet, NEW fault \in BOOLEAN,
           disp[s] \in {"prior", "ours"}, UNCHANGED <<disp, previous, original>>,
           disp[s] = "prior" => s \in seen'.handled, fault => <<s, TRUE>> \in seen'.got,
           frames' = Append(frames, [who |-> disp[s], sig |-> s, fault |-> fault,
                                     step |-> IF disp[s] = "ours" THEN "enter" ELSE "runs"])
    PROVE  /\ StackInv' /\ frames' \in Seq(Frame) /\ frames' # <<>>
           /\ Len(frames) \in Nat /\ Len(frames') = Len(frames) + 1
           /\ \A i \in 1 .. Len(frames) : frames'[i] = frames[i]
           /\ frames'[Len(frames) + 1].who = disp[s]
           /\ frames'[Len(frames) + 1].sig = s
           /\ frames'[Len(frames) + 1].fault = fault
           /\ frames'[Len(frames) + 1].step = IF disp[s] = "ours" THEN "enter" ELSE "runs"
<1> DEFINE n == Len(frames)
           x == IF disp[s] = "ours" THEN "enter" ELSE "runs"
           f == [who |-> disp[s], sig |-> s, fault |-> fault, step |-> x]
<1>1. /\ f \in Frame /\ f.who = disp[s] /\ f.sig = s /\ f.fault = fault /\ f.step = x
      /\ disp[s] = "ours" => x = "enter"
      /\ disp[s] = "prior" => x = "runs"
  BY DEF Frame, Steps
<1>2. frames \in Seq(Frame) /\ n \in Nat
  BY DEF IInv, Types
<1>3. frames' = Append(frames, f)
  OBVIOUS
<1> HIDE DEF f, x
<1>4. /\ frames' \in Seq(Frame) /\ Len(frames') = n + 1 /\ frames'[n + 1] = f /\ frames' # <<>>
      /\ \A i \in 1 .. n : frames'[i] = frames[i]
  BY <1>1, <1>2, <1>3
<1>5. \A i \in 1 .. n : frames # <<>> /\ i \in 1 .. Len(frames)
  BY <1>2
<1> HIDE DEF n
<1>6. ASSUME NEW i \in 1 .. n + 1
      PROVE  FrameInv(frames[i])'
  <2>1. CASE i = n + 1
    <3>1. /\ frames'[i].who = disp[s] /\ frames'[i].sig = s /\ frames'[i].step = x
          /\ frames'[i].fault = fault
      BY <1>1, <1>4, <2>1
    <3>2. /\ disp[s] = "ours" => previous[s] = original[s]
          /\ disp[s] = "prior" => original[s] = "prior"
      BY DEF IInv, DispInv
    <3>3. CASE disp[s] = "ours"
      BY <1>1, <3>1, <3>2, <3>3 DEF FrameInv, PastLatch
    <3>4. CASE disp[s] = "prior"
      BY <1>1, <3>1, <3>2, <3>4 DEF FrameInv
    <3>5. QED
      BY <3>3, <3>4
  <2>2. CASE i # n + 1
    <3>1. i \in 1 .. n
      BY <1>2, <2>2 DEF n
    <3>2. frames'[i] = frames[i] /\ frames # <<>> /\ i \in 1 .. Len(frames)
      BY <1>4, <1>5, <3>1
    <3>3. QED
      BY <3>2, FramesKept
  <2>3. QED
    BY <2>1, <2>2
<1>7. ASSUME NEW i \in 1 .. n + 1, NEW j \in 1 .. n + 1, i < j, PastLatch(frames'[i]),
             frames'[j].who = "ours"
      PROVE  frames'[j].step = "enter"
  <2>1. i \in 1 .. n
    BY <1>2, <1>7 DEF n
  <2>2. frames'[i] = frames[i]
    BY <1>4, <2>1
  <2>3. CASE j = n + 1
    BY <1>1, <1>4, <1>7, <2>3
  <2>4. CASE j # n + 1
    <3>1. j \in 1 .. n
      BY <1>2, <2>4 DEF n
    <3>2. frames'[j] = frames[j]
      BY <1>4, <3>1
    <3>3. QED
      BY <1>7, <2>1, <2>2, <3>1, <3>2 DEF IInv, StackInv, n
  <2>5. QED
    BY <2>3, <2>4
<1>8. StackInv'
  BY <1>4, <1>6, <1>7 DEF StackInv, PastLatch
<1>9. QED
  BY <1>1, <1>2, <1>4, <1>8 DEF n, x

(* What Noted keeps and changes. *)
LEMMA NotedProps ==
    ASSUME seen \in Seen, NEW s \in SignalSet, NEW fault \in BOOLEAN,
           NEW got \in SUBSET (SignalSet \X BOOLEAN), NEW handled \in SUBSET SignalSet
    PROVE  LET m == Noted(s, fault, got, handled)
           IN  /\ m \in Seen /\ m.got = got \cup {<<s, fault>>}
               /\ m.handled = IF disp[s] = "prior" THEN handled \cup {s} ELSE handled
               /\ m.nested = seen.nested /\ m.reentered = seen.reentered
               /\ m.survived = seen.survived /\ m.refused = seen.refused
               /\ m.due = seen.due /\ m.records = seen.records
<1> DEFINE g == got \cup {<<s, fault>>}
           h == IF disp[s] = "prior" THEN handled \cup {s} ELSE handled
<1>1. g \in SUBSET (SignalSet \X BOOLEAN) /\ h \in SUBSET SignalSet
  OBVIOUS
<1>2. Noted(s, fault, got, handled) = [seen EXCEPT !.got = g, !.handled = h]
  BY DEF Noted
<1> HIDE DEF g, h
<1>3. LET m == Noted(s, fault, got, handled)
      IN  /\ m \in Seen /\ m.got = g /\ m.handled = h
          /\ m.nested = seen.nested /\ m.reentered = seen.reentered
          /\ m.survived = seen.survived /\ m.refused = seen.refused
          /\ m.due = seen.due /\ m.records = seen.records
  BY <1>1, <1>2 DEF Seen
<1>4. QED
  BY <1>3 DEF g, h

(* A signal while a handler runs. *)
LEMMA InHandlerStep ==
    ASSUME IInv, NEW s \in SignalSet, NEW fault \in BOOLEAN, InHandler(s, fault)
    PROVE  IInv'
<1> DEFINE n == Len(frames)
           f == [who |-> disp[s], sig |-> s, fault |-> fault,
                 step |-> IF disp[s] = "ours" THEN "enter" ELSE "runs"]
           m == Noted(s, fault, seen.got, seen.handled)
<1>1. /\ Alive /\ frames # <<>> /\ seen.nested < MaxNested
      /\ seen' = [m EXCEPT !.nested = @ + 1, !.reentered = @ \/ disp[s] = "ours"]
      /\ UNCHANGED <<disp, previous, sink, latch, retrap, setup, request, original>>
  BY DEF InHandler
<1>2. \/ /\ disp[s] = "dfl" \/ (disp[s] = "ign" /\ fault)
         /\ end' = s /\ frames' = frames
      \/ disp[s] = "ign" /\ ~fault /\ end' = end /\ frames' = frames
      \/ disp[s] \in {"prior", "ours"} /\ end' = end /\ frames' = Append(frames, f)
  BY DEF InHandler, Deliver
<1>3. /\ m \in Seen /\ m.got = seen.got \cup {<<s, fault>>}
      /\ m.handled = IF disp[s] = "prior" THEN seen.handled \cup {s} ELSE seen.handled
      /\ m.nested = seen.nested /\ m.reentered = seen.reentered
      /\ m.survived = seen.survived /\ m.refused = seen.refused
      /\ m.due = seen.due /\ m.records = seen.records
  <2> DEFINE g == seen.got \cup {<<s, fault>>}
             h == IF disp[s] = "prior" THEN seen.handled \cup {s} ELSE seen.handled
  <2>1. seen \in Seen
    BY DEF IInv, Types
  <2>2. g \in SUBSET (SignalSet \X BOOLEAN) /\ h \in SUBSET SignalSet
    BY <2>1 DEF Seen
  <2>3. m = [seen EXCEPT !.got = g, !.handled = h]
    BY DEF Noted
  <2> HIDE DEF g, h, m
  <2>4. /\ m \in Seen /\ m.got = g /\ m.handled = h
        /\ m.nested = seen.nested /\ m.reentered = seen.reentered
        /\ m.survived = seen.survived /\ m.refused = seen.refused
        /\ m.due = seen.due /\ m.records = seen.records
    BY <2>1, <2>2, <2>3 DEF Seen
  <2>5. QED
    BY <2>4 DEF g, h
<1> HIDE DEF m
<1>4. /\ seen' \in Seen /\ seen'.got = m.got /\ seen'.handled = m.handled
      /\ seen'.reentered = (seen.reentered \/ disp[s] = "ours")
      /\ seen'.survived = seen.survived /\ seen'.refused = seen.refused
      /\ seen'.due = seen.due /\ seen'.records = seen.records
  <2> DEFINE r == seen.reentered \/ disp[s] = "ours"
  <2>1. m.nested \in 0 .. MaxNested /\ MaxNested \in Nat /\ m.nested < MaxNested
    BY <1>1, <1>3, CrashHandlerAssumption DEF Seen
  <2>2. m.nested + 1 \in 0 .. MaxNested /\ r \in BOOLEAN
    BY <2>1
  <2>3. seen' = [m EXCEPT !.nested = m.nested + 1, !.reentered = r]
    BY <1>1, <1>3
  <2> HIDE DEF r
  <2>4. /\ seen' \in Seen /\ seen'.got = m.got /\ seen'.handled = m.handled /\ seen'.reentered = r
        /\ seen'.survived = m.survived /\ seen'.refused = m.refused
        /\ seen'.due = m.due /\ seen'.records = m.records
    BY <1>3, <2>2, <2>3 DEF Seen
  <2>5. QED
    BY <1>3, <2>4 DEF r
<1>5. /\ seen.got \subseteq seen'.got /\ <<s, fault>> \in seen'.got
      /\ \A d \in seen'.got : d \in seen.got \/ d = <<s, fault>>
      /\ seen.handled \subseteq seen'.handled /\ (disp[s] = "prior" => s \in seen'.handled)
  BY <1>3, <1>4
<1>6. Onward
  BY <1>1, <1>2, <1>4, <1>5, Places DEF Onward, Alive
<1>7. DispInv' /\ SetupInv' /\ SinkInv' /\ TakenInv'
  BY <1>1, SetupKept
<1>8. disp[s] # "ours" => disp[s] = original[s]
  BY DEF IInv, DispInv
<1>9. n \in Nat \ {0} /\ 1 \in 1 .. n /\ n \in 1 .. n
  BY <1>1, Frames
<1>10. ~CutShort /\ (OnItsWay => disp[s] = "ours")
  BY <1>1 DEF CutShort, Alive, OnItsWay, AllOurs
<1>11. CASE frames' = frames /\ disp[s] \in {"dfl", "ign"}
  <2>1. StackInv'
    BY <1>1, <1>6, <1>11, StackKept
  <2>2. end' \in SignalSet \cup {"alive", "exit", "prior"}
    BY <1>2 DEF IInv, Types
  <2>3. Types'
    BY <1>1, <1>4, <1>11, <2>2 DEF IInv, Types
  <2>4. Alive' => disp[s] = "ign" /\ ~fault
    BY <1>2, <1>11, Places DEF Alive
  <2>5. Alive' => Settled(<<s, fault>>)'
    BY <1>1, <1>8, <2>4 DEF Settled
  <2>6. GotInv'
    BY <1>1, <1>5, <1>6, <1>11, <2>5, GotKept
  <2>7. LatchInv'
    BY <1>1, <1>4, <1>11 DEF IInv, LatchInv, Program
  <2>8. EndInv'
    <3>1. CASE end' = end
      BY <1>6, <3>1, EndKept
    <3>2. CASE (disp[s] = "dfl" \/ (disp[s] = "ign" /\ fault)) /\ end' = s
      BY <1>1, <1>5, <1>8, <3>2, Places DEF EndInv
    <3>3. QED
      BY <1>2, <3>1, <3>2
  <2>9. RecordInv'
    BY <1>4, <1>10, <1>11 DEF IInv, RecordInv
  <2>10. QED
    BY <1>7, <2>1, <2>3, <2>6, <2>7, <2>8, <2>9 DEF IInv
<1>12. CASE disp[s] \in {"prior", "ours"} /\ end' = end /\ frames' = Append(frames, f)
  <2>1. /\ StackInv' /\ frames' \in Seq(Frame) /\ frames' # <<>> /\ Len(frames') = n + 1
        /\ \A i \in 1 .. n : frames'[i] = frames[i]
        /\ frames'[n + 1].who = disp[s] /\ frames'[n + 1].sig = s /\ frames'[n + 1].fault = fault
        /\ frames'[n + 1].step = IF disp[s] = "ours" THEN "enter" ELSE "runs"
    <3>1. fault => <<s, TRUE>> \in seen'.got
      BY <1>5
    <3>2. QED
      BY <1>1, <1>5, <1>6, <1>12, <3>1, Pushed
  <2>2. Types'
    BY <1>1, <1>4, <1>12, <2>1 DEF IInv, Types
  <2>3. n + 1 \in 1 .. Len(frames') /\ \A i \in 1 .. n : i \in 1 .. Len(frames')
    BY <1>9, <2>1
  <2>4. Pending(<<s, fault>>)'
    BY <2>1, <2>3 DEF Pending
  <2>5. GotInv'
    BY <1>1, <1>5, <1>6, <2>1, <2>3, <2>4, GotKept
  <2>6. LatchInv'
    <3>1. ASSUME NEW i \in 1 .. n + 1, i > 1, frames'[i].who = "ours"
          PROVE  seen'.reentered
      <4>1. CASE i = n + 1
        BY <1>4, <2>1, <3>1, <4>1
      <4>2. CASE i # n + 1
        <5>1. i \in 1 .. n
          BY <1>9, <4>2
        <5>2. frames[i].who = "ours"
          BY <2>1, <3>1, <5>1
        <5>3. QED
          BY <1>4, <3>1, <5>1, <5>2 DEF IInv, LatchInv
      <4>3. QED
        BY <4>1, <4>2
    <3>2. frames'[1].step = "enter" /\ latch' => seen'.reentered \/ seen'.survived
      BY <1>1, <1>4, <1>9, <2>1 DEF IInv, LatchInv
    <3>3. QED
      BY <2>1, <3>1, <3>2 DEF LatchInv, Program
  <2>7. EndInv'
    BY <1>6, <1>12, EndKept
  <2>8. RecordInv'
    <3>1. ASSUME OnItsWay
          PROVE  OnItsWay'
      <4>1. /\ disp[s] = "ours" /\ Alive' /\ AllOurs' /\ (sink'.fd \/ sink'.path)
        BY <1>1, <1>10, <1>12, <3>1 DEF OnItsWay, AllOurs, Alive
      <4>2. ASSUME NEW i \in 1 .. n + 1
            PROVE  /\ frames'[i].who = "ours"
                   /\ frames'[i].step \in {"enter", "latch", "open", "write"}
                   /\ frames'[i].step = "write" => sink'.fd
        <5>1. CASE i = n + 1
          BY <2>1, <4>1, <5>1
        <5>2. CASE i # n + 1
          <6>1. i \in 1 .. n
            BY <1>9, <5>2
          <6>2. QED
            BY <1>1, <2>1, <3>1, <6>1 DEF OnItsWay
        <5>3. QED
          BY <5>1, <5>2
      <4>3. latch' => \E i \in 1 .. n + 1 : frames'[i].step \in {"open", "write"}
        <5>1. SUFFICES ASSUME latch
                       PROVE  \E i \in 1 .. n + 1 : frames'[i].step \in {"open", "write"}
          BY <1>1
        <5>2. PICK i \in 1 .. n : frames[i].step \in {"open", "write"}
          BY <3>1, <5>1 DEF OnItsWay
        <5>3. i \in 1 .. n + 1 /\ frames'[i] = frames[i]
          BY <1>9, <2>1
        <5>4. QED
          BY <5>2, <5>3
      <4>4. QED
        BY <2>1, <4>1, <4>2, <4>3 DEF OnItsWay
    <3>2. QED
      BY <1>4, <1>10, <3>1 DEF IInv, RecordInv
  <2>9. QED
    BY <1>7, <2>1, <2>2, <2>5, <2>6, <2>7, <2>8 DEF IInv
<1>13. QED
  BY <1>2, <1>11, <1>12

(* The instruction is executed again; the fault finds the disposition the  *)
(* signal had before us.                                                   *)
LEMMA RetrapStep ==
    ASSUME IInv, Retrap
    PROVE  IInv'
<1> DEFINE s == retrap
           f == [who |-> disp[s], sig |-> s, fault |-> TRUE,
                 step |-> IF disp[s] = "ours" THEN "enter" ELSE "runs"]
<1>1. /\ Alive /\ frames = <<>> /\ retrap # "none" /\ retrap' = "none"
      /\ UNCHANGED <<disp, previous, sink, latch, setup, request, original, seen>>
  BY DEF Retrap
<1>2. /\ s \in SignalSet /\ <<s, TRUE>> \in seen.got /\ disp[s] # "ours" /\ disp[s] = original[s]
      /\ original[s] = "prior" => s \in seen.handled
  <2>1. s \in SignalSet
    BY <1>1 DEF IInv, Types
  <2>2. <<s, TRUE>> \in seen.got /\ disp[s] # "ours" /\ Passed(s)
    BY <1>1 DEF IInv, GotInv
  <2>3. QED
    BY <2>1, <2>2 DEF IInv, DispInv, Passed
<1>3. \/ disp[s] \in {"dfl", "ign"} /\ end' = s /\ frames' = <<>>
      \/ disp[s] = "prior" /\ end' = end /\ frames' = Append(frames, f)
  BY <1>1, <1>2 DEF Retrap, Deliver
<1>4. DispInv' /\ SetupInv' /\ SinkInv' /\ TakenInv'
  BY <1>1, SetupKept
<1>5. RecordInv'
  BY <1>1, RecordKept
<1>6. CASE disp[s] \in {"dfl", "ign"} /\ end' = s /\ frames' = <<>>
  <2>1. ~Alive' /\ Len(frames') = 0
    BY <1>2, <1>6, Places DEF Alive
  <2>2. Types'
    BY <1>1, <1>2, <1>6 DEF IInv, Types
  <2>3. StackInv'
    BY <2>1 DEF StackInv
  <2>4. GotInv' /\ LatchInv'
    BY <1>1, <1>6, <2>1 DEF GotInv, LatchInv, Program
  <2>5. EndInv'
    BY <1>1, <1>2, <1>6, Places DEF EndInv
  <2>6. QED
    BY <1>4, <1>5, <2>2, <2>3, <2>4, <2>5 DEF IInv
<1>7. CASE disp[s] = "prior" /\ end' = end /\ frames' = Append(frames, f)
  <2>1. /\ StackInv' /\ frames' \in Seq(Frame) /\ frames' # <<>> /\ Len(frames') = 1
        /\ frames'[1].who = "prior" /\ frames'[1].sig = s /\ frames'[1].fault = TRUE
        /\ frames'[1].step = "runs"
    <3>1. Len(frames) = 0 /\ Len(frames) + 1 = 1
      BY <1>1
    <3>2. disp[s] \in {"prior", "ours"} /\ disp' = disp /\ TRUE \in BOOLEAN
          /\ s \in seen'.handled /\ <<s, TRUE>> \in seen'.got
      BY <1>1, <1>2, <1>7
    <3>3. /\ StackInv' /\ frames' \in Seq(Frame) /\ frames' # <<>>
          /\ Len(frames') = Len(frames) + 1
          /\ frames'[Len(frames) + 1].who = disp[s]
          /\ frames'[Len(frames) + 1].sig = s
          /\ frames'[Len(frames) + 1].fault = TRUE
          /\ frames'[Len(frames) + 1].step = IF disp[s] = "ours" THEN "enter" ELSE "runs"
      BY <1>1, <1>2, <1>7, <3>2, Pushed
    <3>4. QED
      BY <1>7, <3>1, <3>3
  <2>2. Types'
    BY <1>1, <1>7, <2>1 DEF IInv, Types
  <2>3. \A d \in seen.got : Settled(d) \/ d = <<s, TRUE>>
    <3>1. Len(frames) = 0
      BY <1>1
    <3>2. \A d \in seen.got : Settled(d) \/ Pending(d)
      BY <1>1 DEF IInv, GotInv
    <3>3. ASSUME NEW d, Pending(d)
          PROVE  d = <<s, TRUE>>
      <4>1. ~ \E i \in 1 .. Len(frames) : TRUE
        BY <3>1
      <4>2. QED
        BY <3>3, <4>1, Zenon DEF Pending
    <3>4. QED
      BY <3>2, <3>3
  <2>4. ASSUME NEW d, d = <<s, TRUE>>
        PROVE  Pending(d)'
    <3>1. 1 \in 1 .. Len(frames')
      BY <2>1
    <3>2. d = <<frames'[1].sig, frames'[1].fault>>
      BY <2>1, <2>4
    <3>3. QED
      BY <3>1, <3>2 DEF Pending
  <2>5. \A d \in seen'.got : Settled(d)' \/ Pending(d)'
    <3>1. \A d \in seen.got : Settled(d) => Settled(d)'
      BY <1>1 DEF Settled
    <3>2. QED
      BY <1>1, <2>3, <2>4, <3>1
  <2>6. GotInv'
    BY <1>1, <2>5 DEF GotInv
  <2>7. LatchInv'
    BY <2>1 DEF LatchInv, Program
  <2>8. EndInv'
    BY <1>1, <1>7 DEF IInv, EndInv
  <2>9. QED
    BY <1>4, <1>5, <2>1, <2>2, <2>6, <2>7, <2>8 DEF IInv
<1>8. QED
  BY <1>3, <1>6, <1>7

(* A signal of the program. *)
LEMMA SignalStep ==
    ASSUME IInv, NEW s \in SignalSet, NEW fault \in BOOLEAN, Signal(s, fault)
    PROVE  IInv'
<1> DEFINE f == [who |-> disp[s], sig |-> s, fault |-> fault,
                 step |-> IF disp[s] = "ours" THEN "enter" ELSE "runs"]
           now == request /\ sink.status = "armed" /\ disp[s] = "ours" /\ ~seen.survived
           due == seen.due \/ now
           m == Noted(s, fault, {}, {})
<1>1. /\ Alive /\ frames = <<>> /\ retrap = "none" /\ Program /\ Len(frames) = 0
      /\ seen' = [m EXCEPT !.due = @ \/ now]
      /\ UNCHANGED <<disp, previous, sink, latch, retrap, setup, request, original>>
  BY DEF Signal, Program
<1>2. \/ /\ disp[s] = "dfl" \/ (disp[s] = "ign" /\ fault)
         /\ end' = s /\ frames' = <<>>
      \/ disp[s] = "ign" /\ ~fault /\ end' = end /\ frames' = <<>>
      \/ disp[s] \in {"prior", "ours"} /\ end' = end /\ frames' = Append(frames, f)
  BY <1>1 DEF Signal, Deliver
<1>3. /\ m \in Seen /\ m.got = {} \cup {<<s, fault>>}
      /\ m.handled = IF disp[s] = "prior" THEN {} \cup {s} ELSE {}
      /\ m.nested = seen.nested /\ m.reentered = seen.reentered
      /\ m.survived = seen.survived /\ m.refused = seen.refused
      /\ m.due = seen.due /\ m.records = seen.records
  <2>1. seen \in Seen
    BY DEF IInv, Types
  <2>2. {} \in SUBSET (SignalSet \X BOOLEAN) /\ {} \in SUBSET SignalSet
    OBVIOUS
  <2>3. QED
    BY <2>1, <2>2, NotedProps
<1> HIDE DEF m
<1>4. /\ seen' \in Seen /\ seen'.got = {<<s, fault>>} /\ (disp[s] = "prior" => s \in seen'.handled)
      /\ seen'.due = due /\ seen'.reentered = seen.reentered /\ seen'.survived = seen.survived
      /\ seen'.refused = seen.refused /\ seen'.records = seen.records
  <2>1. due \in BOOLEAN /\ seen' = [m EXCEPT !.due = due]
    <3>1. seen.due \in BOOLEAN
      BY DEF IInv, Types, Seen
    <3>2. QED
      BY <1>1, <1>3, <3>1
  <2> HIDE DEF due
  <2>2. /\ seen' \in Seen /\ seen'.got = m.got /\ seen'.handled = m.handled /\ seen'.due = due
        /\ seen'.reentered = m.reentered /\ seen'.survived = m.survived
        /\ seen'.refused = m.refused /\ seen'.records = m.records
    BY <1>3, <2>1 DEF Seen
  <2>3. m.got = {<<s, fault>>} /\ (disp[s] = "prior" => s \in m.handled)
    BY <1>3
  <2>4. QED
    BY <1>3, <2>2, <2>3
<1>5. disp[s] # "ours" => disp[s] = original[s]
  BY DEF IInv, DispInv
<1>6. latch => seen.survived
  BY <1>1 DEF IInv, LatchInv
<1>7. seen.due /\ ~seen.refused => seen.records > 0
  BY <1>1, Recorded
<1>8. now => sink.path /\ ~latch /\ disp[s] = "ours" /\ AllOurs
  <2>1. SUFFICES ASSUME now
                 PROVE  sink.path /\ ~latch /\ disp[s] = "ours" /\ AllOurs
    OBVIOUS
  <2>2. sink.path /\ sink.installed /\ setup.op = "none"
    BY <2>1 DEF IInv, SinkInv
  <2>3. QED
    BY <1>6, <2>1, <2>2 DEF IInv, TakenInv
<1>9. DispInv' /\ SetupInv' /\ SinkInv' /\ TakenInv'
  BY <1>1, SetupKept
<1>10. CASE disp[s] \in {"dfl", "ign"} /\ frames' = <<>>
  <2>1. Len(frames') = 0
    BY <1>10
  <2>2. StackInv'
    BY <2>1 DEF StackInv
  <2>3. RecordInv'
    <3>1. seen.due \in BOOLEAN /\ ~now
      BY <1>10 DEF IInv, Types, Seen
    <3>2. QED
      BY <1>4, <1>7, <3>1 DEF RecordInv
  <2>4. end' \in SignalSet \cup {"alive", "exit", "prior"}
    BY <1>2 DEF IInv, Types
  <2>5. Types'
    BY <1>1, <1>4, <1>10, <2>4 DEF IInv, Types
  <2>6. GotInv'
    <3>1. Alive' => disp[s] = "ign" /\ ~fault
      BY <1>2, <1>10, Places DEF Alive
    <3>2. Alive' => Settled(<<s, fault>>)'
      BY <1>1, <1>5, <3>1 DEF Settled
    <3>3. QED
      BY <1>1, <1>4, <1>10, <3>2 DEF GotInv
  <2>7. LatchInv'
    BY <1>1, <1>4, <1>6, <1>10, <2>1 DEF LatchInv
  <2>8. EndInv'
    <3>1. CASE end' = end
      BY <1>1, <3>1, Places DEF EndInv, Alive
    <3>2. CASE (disp[s] = "dfl" \/ (disp[s] = "ign" /\ fault)) /\ end' = s
      BY <1>1, <1>4, <1>5, <3>2, Places DEF EndInv
    <3>3. QED
      BY <1>2, <3>1, <3>2
  <2>9. QED
    BY <1>9, <2>2, <2>3, <2>5, <2>6, <2>7, <2>8 DEF IInv
<1>11. CASE disp[s] \in {"prior", "ours"} /\ end' = end /\ frames' = Append(frames, f)
  <2>1. /\ StackInv' /\ frames' \in Seq(Frame) /\ frames' # <<>> /\ Len(frames') = 1
        /\ frames'[1].who = disp[s] /\ frames'[1].sig = s /\ frames'[1].fault = fault
        /\ frames'[1].step = IF disp[s] = "ours" THEN "enter" ELSE "runs"
    <3>1. Len(frames) + 1 = 1 /\ (fault => <<s, TRUE>> \in seen'.got)
      <4>1. Len(frames) + 1 = 1
        BY <1>1
      <4>2. <<s, fault>> \in seen'.got
        BY <1>4, Zenon
      <4>3. fault => fault = TRUE
        OBVIOUS
      <4>4. QED
        BY <4>1, <4>2, <4>3, Zenon
    <3>2. /\ StackInv' /\ frames' \in Seq(Frame) /\ frames' # <<>>
          /\ Len(frames') = Len(frames) + 1
          /\ frames'[Len(frames) + 1].who = disp[s]
          /\ frames'[Len(frames) + 1].sig = s
          /\ frames'[Len(frames) + 1].fault = fault
          /\ frames'[Len(frames) + 1].step = IF disp[s] = "ours" THEN "enter" ELSE "runs"
      BY <1>1, <1>4, <1>11, <3>1, Pushed
    <3>3. QED
      BY <3>1, <3>2
  <2>2. Types'
    BY <1>1, <1>4, <1>11, <2>1 DEF IInv, Types
  <2>3. GotInv'
    <3>1. 1 \in 1 .. Len(frames')
      BY <2>1
    <3>2. Pending(<<s, fault>>)'
      BY <2>1, <3>1 DEF Pending
    <3>3. QED
      BY <1>1, <1>4, <3>2 DEF GotInv
  <2>4. LatchInv'
    BY <1>1, <1>4, <1>6, <2>1 DEF LatchInv, Program
  <2>5. EndInv'
    BY <1>1, <1>11, Places DEF EndInv, Alive
  <2>6. RecordInv'
    <3>1. CASE seen.due
      BY <1>4, <1>7, <3>1 DEF RecordInv
    <3>2. CASE now
      <4>1. /\ Alive' /\ frames'[1].who = "ours" /\ frames'[1].step = "enter"
            /\ ~latch' /\ sink'.path /\ AllOurs'
        BY <1>1, <1>8, <1>11, <2>1, <3>2 DEF Alive, AllOurs
      <4>2. \A i \in 1 .. Len(frames') : i = 1
        BY <2>1
      <4>3. OnItsWay'
        BY <2>1, <4>1, <4>2 DEF OnItsWay
      <4>4. QED
        BY <4>3 DEF RecordInv
    <3>3. CASE ~seen.due /\ ~now
      BY <1>4, <3>3 DEF RecordInv
    <3>4. QED
      BY <3>1, <3>2, <3>3
  <2>7. QED
    BY <1>9, <2>1, <2>2, <2>3, <2>4, <2>5, <2>6 DEF IInv
<1>12. QED
  BY <1>2, <1>10, <1>11

-----------------------------------------------------------------------------
(* The theorems *)

LEMMA StutterStep ==
    ASSUME IInv, UNCHANGED vars
    PROVE  IInv'
<1>1. UNCHANGED <<disp, previous, sink, latch, frames, retrap, end, setup, request, original, seen>>
  BY DEF vars
<1>2. Types' /\ DispInv' /\ SinkInv' /\ EndInv'
  BY <1>1 DEF IInv, Types, DispInv, SinkInv, EndInv
<1>3. SetupInv'
  BY <1>1 DEF IInv, SetupInv, AsBefore, Saved
<1>4. StackInv'
  BY <1>1 DEF IInv, StackInv, FrameInv, Passed, PastLatch, Alive
<1>5. GotInv'
  BY <1>1 DEF IInv, GotInv, Settled, Passed, Pending, Alive
<1>6. LatchInv' /\ TakenInv'
  BY <1>1 DEF IInv, LatchInv, TakenInv, AllOurs, Program, Alive
<1>7. RecordInv'
  BY <1>1 DEF IInv, RecordInv, OnItsWay, AllOurs, CutShort, Alive
<1>8. QED
  BY <1>2, <1>3, <1>4, <1>5, <1>6, <1>7 DEF IInv

LEMMA Initially ==
    ASSUME Init
    PROVE  IInv
<1>1. /\ disp \in [SignalSet -> {"dfl", "ign", "prior"}] /\ original = disp
      /\ previous = [s \in SignalSet |-> "dfl"]
      /\ sink = [installed |-> FALSE, status |-> "off", path |-> FALSE, fd |-> FALSE]
      /\ latch = FALSE /\ frames = <<>> /\ retrap = "none" /\ end = "alive"
      /\ setup = [op |-> "none", index |-> 0] /\ request = FALSE
      /\ seen = [nested |-> 0, reentered |-> FALSE, survived |-> FALSE, refused |-> FALSE,
                 due |-> FALSE, records |-> 0, got |-> {}, handled |-> {}]
  BY DEF Init, Idle
<1>2. /\ sink \in Sink /\ ~sink.installed /\ sink.status = "off"
      /\ setup.op = "none" /\ setup.index = 0
      /\ setup \in [op : {"none", "install", "rollback", "uninstall", "unloaded"},
                    index : 0 .. Len(Signals) + 1]
      /\ frames \in Seq(Frame) /\ Len(frames) = 0
  BY <1>1, Places DEF Sink, Statuses
<1>3. seen \in Seen /\ seen.got = {} /\ ~seen.due
  BY <1>1, CrashHandlerAssumption DEF Seen
<1>4. Types
  BY <1>1, <1>2, <1>3 DEF Types, Dispositions
<1>5. DispInv
  BY <1>1 DEF DispInv
<1>6. SetupInv
  BY <1>1, <1>2 DEF SetupInv, AsBefore
<1>7. SinkInv /\ TakenInv /\ StackInv /\ LatchInv
  BY <1>1, <1>2 DEF SinkInv, TakenInv, StackInv, LatchInv
<1>8. GotInv /\ EndInv /\ RecordInv
  BY <1>1, <1>3, Places DEF GotInv, EndInv, RecordInv
<1>9. QED
  BY <1>4, <1>5, <1>6, <1>7, <1>8 DEF IInv

LEMMA HandlerSteps ==
    ASSUME IInv, HandlerStep
    PROVE  IInv'
<1>1. CASE Enter
  BY <1>1, EnterStep
<1>2. CASE SetLatch
  BY <1>2, SetLatchStep
<1>3. CASE \E ok \in BOOLEAN : Open(ok)
  BY <1>3, OpenStep
<1>4. CASE Write
  BY <1>4, WriteStep
<1>5. CASE Restore
  BY <1>5, RestoreStep
<1>6. CASE Chain
  BY <1>6, ChainStep
<1>7. CASE Raise
  BY <1>7, RaiseStep
<1>8. ASSUME NEW repaired \in BOOLEAN, Return(repaired) \/ PriorReturns(repaired)
      PROVE  IInv'
  <2>1. Alive /\ frames # <<>> /\ Top.step \in {"return", "runs"} /\ Pop(repaired)
    BY <1>8 DEF Return, PriorReturns, Running
  <2>2. QED
    BY <2>1, PopStep
<1>9. CASE PriorDies
  BY <1>9, PriorDiesStep
<1>10. QED
  BY <1>1, <1>2, <1>3, <1>4, <1>5, <1>6, <1>7, <1>8, <1>9 DEF HandlerStep

LEMMA Inductive ==
    ASSUME IInv, [Next]_vars
    PROVE  IInv'
<1>1. CASE InstallBegins
  BY <1>1, InstallBeginsStep
<1>2. CASE InstallSignal
  BY <1>2, InstallSignalStep
<1>3. CASE InstallFails
  BY <1>3, InstallFailsStep
<1>4. CASE Rollback
  BY <1>4, RollbackStep
<1>5. CASE InstallEnds
  BY <1>5, InstallEndsStep
<1>6. CASE \E outcome \in {"armed", "no_directory", "no_sink"} : RInit(outcome)
  BY <1>6, RInitStep
<1>7. CASE RShutdown
  BY <1>7, RShutdownStep
<1>8. CASE UninstallBegins
  BY <1>8, UninstallBeginsStep
<1>9. CASE UninstallSignal
  BY <1>9, UninstallSignalStep
<1>10. CASE UninstallEnds
  BY <1>10, UninstallEndsStep
<1>11. CASE \E s \in SignalSet, fault \in BOOLEAN : Signal(s, fault)
  BY <1>11, SignalStep
<1>12. CASE Retrap
  BY <1>12, RetrapStep
<1>13. CASE \E s \in SignalSet, fault \in BOOLEAN : InHandler(s, fault)
  BY <1>13, InHandlerStep
<1>14. CASE HandlerStep
  BY <1>14, HandlerSteps
<1>15. CASE UNCHANGED vars
  BY <1>15, StutterStep
<1>16. QED
  BY <1>1, <1>2, <1>3, <1>4, <1>5, <1>6, <1>7, <1>8, <1>9, <1>10, <1>11, <1>12, <1>13, <1>14,
     <1>15 DEF Next

LEMMA Invariant == Spec => []IInv
BY Initially, Inductive, PTL DEF Spec

(* Of two handlers of ours on the stack at most the lower one has set the  *)
(* latch.                                                                  *)
LEMMA OnePastLatch ==
    ASSUME IInv
    PROVE  Cardinality({i \in 1 .. Len(frames) : PastLatch(frames[i])}) <= 1
<1> DEFINE n == Len(frames)
           P == {i \in 1 .. n : PastLatch(frames[i])}
<1>1. n \in Nat
  BY DEF IInv, Types
<1>2. ASSUME NEW i \in P, NEW j \in P
      PROVE  i = j
  <2>1. i \in 1 .. n /\ j \in 1 .. n /\ PastLatch(frames[i]) /\ PastLatch(frames[j])
    OBVIOUS
  <2>2. ~(i < j) /\ ~(j < i)
    BY <2>1 DEF IInv, StackInv, PastLatch
  <2>3. QED
    BY <1>1, <2>1, <2>2
<1> HIDE DEF P, n
<1>3. CASE P = {}
  <2>1. Cardinality(P) = 0
    BY <1>3, FS_EmptySet
  <2>2. QED
    BY <2>1 DEF P, n
<1>4. CASE P # {}
  <2>1. PICK a \in P : TRUE
    BY <1>4
  <2>2. P = {a}
    BY <1>2, <2>1
  <2>3. Cardinality(P) = 1
    BY <2>2, FS_Singleton
  <2>4. QED
    BY <2>3 DEF P, n
<1>5. QED
  BY <1>3, <1>4

(* Every variable stays in its type, and a crash inside the crash handler  *)
(* does not loop: however many signals and faults interrupt handlers, at   *)
(* most one frame of cbox_crash_handler is past its latch, so that one     *)
(* handler at a time fills cbox_crash_record_buffer.                       *)
THEOREM TypeCorrect == Spec => []TypeOK
<1>1. IInv => TypeOK
  <2> SUFFICES ASSUME IInv PROVE TypeOK
    OBVIOUS
  <2>2. setup.op \in {"none", "install", "rollback", "uninstall", "unloaded"}
    BY DEF IInv, Types
  <2>3. QED
    BY <2>2, OnePastLatch DEF IInv, Types, TypeOK
<1>2. QED
  BY <1>1, Invariant, PTL

(* The process ends, or goes on, the way it would have without the         *)
(* handler, whatever the dispositions were before it, at every moment of   *)
(* install, roll back and uninstall and with any signals, sent or faults,  *)
(* at any step of a handler: _exit only when a signal reached              *)
(* cbox_crash_handler while a handler was running or after a crash that    *)
(* was survived, death by a signal only where that was the disposition     *)
(* cbox_crash_previous saved, and no disposition of ours left behind.      *)
THEOREM ProcessEndsAsWithoutUs == Spec => []EndsAsWithoutUs
<1>1. IInv => EndsAsWithoutUs
  <2> SUFFICES ASSUME IInv PROVE EndsAsWithoutUs
    OBVIOUS
  <2>2. Program => \A d \in seen.got :
          \/ original[d[1]] = "ign" /\ ~d[2]
          \/ original[d[1]] = "prior" /\ d[1] \in seen.handled
    <3>1. Program => Alive /\ retrap = "none" /\ Len(frames) = 0
      BY DEF Program
    <3>2. QED
      BY <3>1 DEF IInv, GotInv, Pending, Settled
  <2>3. Program /\ ~sink.installed /\ setup.op \in {"none", "unloaded"} => disp = original
    <3>1. disp \in [SignalSet -> Dispositions] /\ original \in [SignalSet -> Dispositions \ {"ours"}]
      BY DEF IInv, Types
    <3>2. ~sink.installed /\ setup.op \in {"none", "unloaded"} => AsBefore
      BY DEF IInv, SetupInv
    <3>3. AsBefore => disp = original
      BY <3>1 DEF AsBefore
    <3>4. QED
      BY <3>2, <3>3
  <2>4. QED
    BY <2>2, <2>3 DEF IInv, EndInv, EndsAsWithoutUs
<1>2. QED
  BY <1>1, Invariant, PTL

(* A crash in a request whose status() says armed is on its way to the     *)
(* file before anything else sees the signal, for every order of installs, *)
(* requests, signals and faults, those inside handlers included:           *)
(* cbox_crash_open_sink keeps "armed" and a usable path together, and the  *)
(* latch is free unless the process survived an earlier crash.  The record *)
(* is lost only to a file that is refused, or to a signal that re-enters   *)
(* the handler between its latch and the end of its write.                 *)
THEOREM ArmedCrashIsRecorded == Spec => []RecordedIfArmed
<1>1. IInv => RecordedIfArmed
  <2> SUFFICES ASSUME IInv, seen.due, ~seen.refused,
                      ~Alive \/ frames = <<>> \/ Top.who = "prior"
               PROVE  seen.records > 0 \/ CutShort
    BY DEF RecordedIfArmed
  <2>2. ~OnItsWay
    <3>1. CASE ~Alive \/ frames = <<>>
      BY <3>1 DEF OnItsWay
    <3>2. CASE frames # <<>> /\ Top.who = "prior"
      BY <3>2, Frames DEF OnItsWay, Top
    <3>3. QED
      BY <3>1, <3>2
  <2>3. QED
    BY <2>2 DEF IInv, RecordInv
<1>2. QED
  BY <1>1, Invariant, PTL
=============================================================================
