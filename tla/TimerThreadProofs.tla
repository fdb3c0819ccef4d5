--------------------------- MODULE TimerThreadProofs ---------------------------
(***************************************************************************)
(* Theorems about TimerThread, for any bound on the pending ticks and      *)
(* every interleaving of the PHP thread, the sampler thread, safe points   *)
(* and forks.                                                              *)
(*                                                                         *)
(* Where the PHP thread is matters only through what it still has to do.   *)
(* But for the lock, every program executes its instructions in one order, *)
(* that of Rank; so the set of instructions ahead of the thread, of which  *)
(* it executes the first, describes its position, and the invariants are   *)
(* statements about that set.                                              *)
(***************************************************************************)
EXTENDS TimerThread, SequenceTheorems, TLAPS

Locking == {"lock", "unlock"}

Rank(x) ==
    CASE x = "detect" -> 1
      [] x = "disarm" -> 2
      [] x = "halt" -> 3
      [] x = "drop" -> 4
      [] x = "installed" -> 5
      [] x = "arm" -> 6
      [] x = "run" -> 7
      [] x = "stop" -> 8
      [] x = "join" -> 9
      [] x = "clear" -> 10
      [] OTHER -> 0

(* s executes its instructions in the order of Rank. *)
Ordered(s) ==
    /\ s \in Seq(Instructions)
    /\ \A i, j \in 1 .. Len(s) :
          i < j /\ s[i] \notin Locking /\ s[j] \notin Locking => Rank(s[i]) < Rank(s[j])

InstructionsOf(s) == {x \in Instructions \ Locking : \E k \in 1 .. Len(s) : s[k] = x}

Ahead == InstructionsOf(todo)

-----------------------------------------------------------------------------
(* The inductive invariant *)

(* Which instructions come together. *)
ControlInv ==
    /\ Ordered(todo)
    /\ "disarm" \in Ahead => "halt" \in Ahead /\ "drop" \in Ahead
    /\ "installed" \in Ahead => "arm" \in Ahead
    /\ "arm" \in Ahead => "run" \in Ahead
    /\ "detect" \in Ahead /\ "run" \in Ahead => "arm" \in Ahead
    /\ "detect" \in Ahead \/ "installed" \in Ahead => up
    /\ "join" \in Ahead => "clear" \in Ahead
    /\ "run" \in Ahead => "stop" \notin Ahead
    /\ "clear" \in Ahead => ~up

(* The timer is armed while the profile runs, but for what is ahead. *)
RunInv ==
    /\ timer.armed /\ "arm" \in Ahead => "disarm" \in Ahead \/ ("detect" \in Ahead /\ ~aware)
    /\ prof.running /\ ~timer.armed => "halt" \in Ahead
    /\ timer.armed /\ ~prof.running => "run" \in Ahead
    /\ "halt" \in Ahead /\ timer.armed => "disarm" \in Ahead
    /\ "run" \in Ahead => "arm" \in Ahead \/ (timer.armed /\ "disarm" \notin Ahead)
    /\ "stop" \in Ahead /\ prof.running => "halt" \in Ahead

(* An iteration of the sampler that may still tick, and one that began     *)
(* before the unit did.                                                    *)
InFlight == IF sampler \in {"sleep", "recheck", "tick"} THEN 1 ELSE 0
LateInFlight == IF ghost.current THEN 0 ELSE InFlight

(* While the timer is disarmed and the old profile was dropped, at most    *)
(* one tick is pending or can still come; that is the late tick of the     *)
(* next unit.                                                              *)
TickInv ==
    /\ ~timer.armed /\ "drop" \notin Ahead => prof.own + prof.late + InFlight <= 1
    /\ timer.armed => ghost.booked + prof.late + LateInFlight <= 1
    /\ LateTickBound

(* There is a sampler thread only while the backend says so, and shutdown  *)
(* does not end without waiting for it.                                    *)
ThreadInv ==
    /\ ~timer.started => sampler \in {"none", "done"}
    /\ timer.installed /\ ~timer.started => "clear" \in Ahead
    /\ timer.started => timer.installed
    /\ ~up /\ timer.started => "join" \in Ahead
    /\ "clear" \in Ahead /\ timer.started => "join" \in Ahead

IInv ==
    /\ TypeOK
    /\ ControlInv
    /\ RunInv
    /\ TickInv
    /\ ThreadInv

-----------------------------------------------------------------------------
(* Lemmas about programs *)

(* Executing the instruction x takes it away from what is ahead, where all *)
(* else comes after it.                                                    *)
LEMMA Advance ==
    ASSUME Ordered(todo), NEW x, Executes(x), todo' = Tail(todo)
    PROVE  /\ Ordered(todo')
           /\ x \in Instructions
           /\ x \in Locking => Ahead' = Ahead
           /\ x \notin Locking => /\ x \in Ahead
                                  /\ Ahead' = Ahead \ {x}
                                  /\ \A y \in Ahead' : Rank(x) < Rank(y)
<1>1. /\ todo \in Seq(Instructions) /\ Len(todo) \in Nat \ {0}
      /\ todo[1] = x
      /\ \A k \in 1 .. Len(todo) : todo[k] \in Instructions
  BY DEF Ordered, Executes
<1>2. /\ todo' \in Seq(Instructions) /\ Len(todo') = Len(todo) - 1
      /\ \A k \in 1 .. Len(todo) - 1 : todo'[k] = todo[k + 1]
  BY <1>1
<1>3. Ordered(todo')
  <2> SUFFICES ASSUME NEW i \in 1 .. Len(todo'), NEW j \in 1 .. Len(todo'), i < j,
                      todo'[i] \notin Locking, todo'[j] \notin Locking
               PROVE  Rank(todo'[i]) < Rank(todo'[j])
    BY <1>2 DEF Ordered
  <2>1. /\ i + 1 \in 1 .. Len(todo) /\ j + 1 \in 1 .. Len(todo) /\ i + 1 < j + 1
        /\ todo'[i] = todo[i + 1] /\ todo'[j] = todo[j + 1]
    BY <1>1, <1>2
  <2>2. QED
    BY <2>1 DEF Ordered
<1>4. x \in Instructions /\ 1 \in 1 .. Len(todo)
  BY <1>1
<1>5. ASSUME NEW y \in Ahead'
      PROVE  y \in Ahead /\ (x \notin Locking => Rank(x) < Rank(y))
  <2>1. /\ y \in Instructions \ Locking
        /\ \E k \in 1 .. Len(todo') : todo'[k] = y
    BY DEF Ahead, InstructionsOf
  <2>2. PICK k \in 1 .. Len(todo') : todo'[k] = y
    BY <2>1
  <2>3. k + 1 \in 1 .. Len(todo) /\ todo[k + 1] = y /\ 1 < k + 1
    BY <1>1, <1>2, <2>2
  <2>4. y \in Ahead
    BY <2>1, <2>3 DEF Ahead, InstructionsOf
  <2>5. x \notin Locking => Rank(x) < Rank(y)
    BY <1>1, <1>4, <2>1, <2>3 DEF Ordered
  <2>6. QED
    BY <2>4, <2>5
<1>6. ASSUME NEW y \in Ahead, y # x
      PROVE  y \in Ahead'
  <2>1. /\ y \in Instructions \ Locking
        /\ \E k \in 1 .. Len(todo) : todo[k] = y
    BY DEF Ahead, InstructionsOf
  <2>2. PICK k \in 1 .. Len(todo) : todo[k] = y
    BY <2>1
  <2>3. k # 1
    BY <1>1, <1>6, <2>2
  <2>4. k - 1 \in 1 .. Len(todo') /\ todo'[k - 1] = y
    <3>1. k - 1 \in 1 .. Len(todo) - 1 /\ (k - 1) + 1 = k
      BY <1>1, <2>3
    <3>2. QED
      BY <1>2, <2>2, <3>1
  <2>5. QED
    BY <2>1, <2>4 DEF Ahead, InstructionsOf
<1>7. CASE x \in Locking
  <2>1. x \notin Ahead
    BY <1>7 DEF Ahead, InstructionsOf
  <2>2. Ahead' = Ahead
    BY <1>5, <1>6, <2>1
  <2>3. QED
    BY <1>3, <1>4, <1>7, <2>2
<1>8. CASE x \notin Locking
  <2>1. x \in Ahead
    BY <1>1, <1>4, <1>8 DEF Ahead, InstructionsOf
  <2>2. x \notin Ahead'
    <3>1. Rank(x) \in Int
      BY DEF Rank
    <3>2. QED
      BY <1>5, <1>8, <3>1
  <2>3. Ahead' = Ahead \ {x}
    BY <1>5, <1>6, <2>2
  <2>4. QED
    BY <1>3, <1>4, <1>5, <1>8, <2>1, <2>3
<1>9. QED
  BY <1>7, <1>8

(* One program after another. *)
LEMMA Sequel ==
    ASSUME NEW s, Ordered(s), NEW t, Ordered(t),
           \A x \in InstructionsOf(s) : \A y \in InstructionsOf(t) : Rank(x) < Rank(y)
    PROVE  /\ Ordered(s \o t)
           /\ InstructionsOf(s \o t) = InstructionsOf(s) \cup InstructionsOf(t)
<1> DEFINE u == s \o t
           n == Len(s)
<1>1. /\ s \in Seq(Instructions) /\ t \in Seq(Instructions) /\ n \in Nat /\ Len(t) \in Nat
      /\ \A k \in 1 .. n : s[k] \in Instructions
      /\ \A k \in 1 .. Len(t) : t[k] \in Instructions
  BY DEF Ordered
<1>2. /\ u \in Seq(Instructions) /\ Len(u) = n + Len(t)
      /\ \A k \in 1 .. n + Len(t) : u[k] = IF k <= n THEN s[k] ELSE t[k - n]
  BY <1>1, ConcatProperties, Zenon
<1> HIDE DEF u, n
<1>3. ASSUME NEW k \in 1 .. Len(u)
      PROVE  \/ k <= n /\ k \in 1 .. n /\ u[k] = s[k]
             \/ k > n /\ k - n \in 1 .. Len(t) /\ u[k] = t[k - n]
  BY <1>1, <1>2
<1>4. /\ \A k \in 1 .. n : k \in 1 .. Len(u) /\ u[k] = s[k]
      /\ \A k \in 1 .. Len(t) : n + k \in 1 .. Len(u) /\ u[n + k] = t[k]
  <2>1. \A k \in 1 .. n : k \in 1 .. n + Len(t) /\ u[k] = s[k]
    BY <1>1, <1>2
  <2>2. ASSUME NEW k \in 1 .. Len(t)
        PROVE  n + k \in 1 .. n + Len(t) /\ u[n + k] = t[k]
    <3>1. n + k \in 1 .. n + Len(t) /\ ~(n + k <= n) /\ (n + k) - n = k
      BY <1>1
    <3>2. QED
      BY <1>2, <3>1
  <2>3. QED
    BY <1>2, <2>1, <2>2
<1>5. ASSUME NEW i \in 1 .. Len(u), NEW j \in 1 .. Len(u), i < j,
             u[i] \notin Locking, u[j] \notin Locking
      PROVE  Rank(u[i]) < Rank(u[j])
  <2>1. CASE j <= n
    <3>1. i \in 1 .. n /\ j \in 1 .. n /\ u[i] = s[i] /\ u[j] = s[j]
      BY <1>1, <1>2, <1>3, <1>5, <2>1
    <3>2. QED
      BY <1>1, <1>5, <3>1 DEF Ordered, n
  <2>2. CASE i > n
    <3>1. /\ i - n \in 1 .. Len(t) /\ j - n \in 1 .. Len(t) /\ i - n < j - n
          /\ u[i] = t[i - n] /\ u[j] = t[j - n]
      BY <1>1, <1>2, <1>3, <1>5, <2>2
    <3>2. QED
      BY <1>5, <3>1 DEF Ordered
  <2>3. CASE i <= n /\ j > n
    <3>1. i \in 1 .. n /\ u[i] = s[i] /\ j - n \in 1 .. Len(t) /\ u[j] = t[j - n]
      BY <1>1, <1>3, <2>3
    <3>2. u[i] \in InstructionsOf(s) /\ u[j] \in InstructionsOf(t)
      BY <1>1, <1>5, <3>1 DEF InstructionsOf, n
    <3>3. QED
      BY <3>2
  <2>4. QED
    BY <1>1, <1>2, <2>1, <2>2, <2>3
<1>6. Ordered(u)
  BY <1>2, <1>5 DEF Ordered
<1>7. ASSUME NEW x \in Instructions \ Locking
      PROVE  (\E k \in 1 .. Len(u) : u[k] = x)
                <=> (\E k \in 1 .. Len(s) : s[k] = x) \/ (\E k \in 1 .. Len(t) : t[k] = x)
  BY <1>3, <1>4 DEF n
<1>8. InstructionsOf(u) = InstructionsOf(s) \cup InstructionsOf(t)
  BY <1>7, Zenon DEF InstructionsOf
<1>9. QED
  BY <1>6, <1>8 DEF u

(* The programs that others are made of. *)
LEMMA Parts ==
    /\ Ordered(<<>>) /\ InstructionsOf(<<>>) = {}
    /\ Ordered(<<"detect">>) /\ InstructionsOf(<<"detect">>) = {"detect"}
    /\ Ordered(StopProgram) /\ InstructionsOf(StopProgram) = {"disarm", "halt", "drop"}
    /\ Ordered(StartProgram) /\ InstructionsOf(StartProgram) = {"installed", "arm", "run"}
    /\ Ordered(ShutdownProgram) /\ InstructionsOf(ShutdownProgram) = {"stop", "join", "clear"}
<1>1. Ordered(<<>>) /\ InstructionsOf(<<>>) = {}
  BY DEF Ordered, InstructionsOf
<1>2. Ordered(<<"detect">>) /\ InstructionsOf(<<"detect">>) = {"detect"}
  BY DEF Ordered, InstructionsOf, Instructions, Locking
<1>3. Ordered(StopProgram) /\ InstructionsOf(StopProgram) = {"disarm", "halt", "drop"}
  <2> DEFINE s == StopProgram
  <2>1. /\ s \in Seq(Instructions) /\ Len(s) = 5 /\ s[1] = "lock" /\ s[2] = "disarm"
        /\ s[3] = "unlock" /\ s[4] = "halt" /\ s[5] = "drop"
    BY DEF StopProgram, Instructions
  <2> HIDE DEF s
  <2>2. \A k \in 1 .. 5 : k = 1 \/ k = 2 \/ k = 3 \/ k = 4 \/ k = 5
    OBVIOUS
  <2>3. Ordered(s)
    BY <2>1, <2>2 DEF Ordered, Locking, Rank
  <2>4. InstructionsOf(s) = {"disarm", "halt", "drop"}
    BY <2>1, <2>2 DEF InstructionsOf, Instructions, Locking
  <2>5. QED
    BY <2>3, <2>4 DEF s
<1>4. Ordered(StartProgram) /\ InstructionsOf(StartProgram) = {"installed", "arm", "run"}
  <2> DEFINE s == StartProgram
  <2>1. /\ s \in Seq(Instructions) /\ Len(s) = 5 /\ s[1] = "installed" /\ s[2] = "lock"
        /\ s[3] = "arm" /\ s[4] = "unlock" /\ s[5] = "run"
    BY DEF StartProgram, Instructions
  <2> HIDE DEF s
  <2>2. \A k \in 1 .. 5 : k = 1 \/ k = 2 \/ k = 3 \/ k = 4 \/ k = 5
    OBVIOUS
  <2>3. Ordered(s)
    BY <2>1, <2>2 DEF Ordered, Locking, Rank
  <2>4. InstructionsOf(s) = {"installed", "arm", "run"}
    BY <2>1, <2>2 DEF InstructionsOf, Instructions, Locking
  <2>5. QED
    BY <2>3, <2>4 DEF s
<1>5. Ordered(ShutdownProgram) /\ InstructionsOf(ShutdownProgram) = {"stop", "join", "clear"}
  <2> DEFINE s == ShutdownProgram
  <2>1. /\ s \in Seq(Instructions) /\ Len(s) = 5 /\ s[1] = "lock" /\ s[2] = "stop"
        /\ s[3] = "unlock" /\ s[4] = "join" /\ s[5] = "clear"
    BY DEF ShutdownProgram, Instructions
  <2> HIDE DEF s
  <2>2. \A k \in 1 .. 5 : k = 1 \/ k = 2 \/ k = 3 \/ k = 4 \/ k = 5
    OBVIOUS
  <2>3. Ordered(s)
    BY <2>1, <2>2 DEF Ordered, Locking, Rank
  <2>4. InstructionsOf(s) = {"stop", "join", "clear"}
    BY <2>1, <2>2 DEF InstructionsOf, Instructions, Locking
  <2>5. QED
    BY <2>3, <2>4 DEF s
<1>6. QED
  BY <1>1, <1>2, <1>3, <1>4, <1>5

(* The programs of TimerThread, with or without a stop. *)
LEMMA Programs ==
    ASSUME NEW s \in {<<>>, StopProgram}
    PROVE  /\ Ordered(s)
           /\ s = <<>> => InstructionsOf(s) = {}
           /\ s = StopProgram => InstructionsOf(s) = {"disarm", "halt", "drop"}
           /\ InstructionsOf(s) \in {{}, {"disarm", "halt", "drop"}}
           /\ Ordered(<<"detect">> \o s)
           /\ InstructionsOf(<<"detect">> \o s) = {"detect"} \cup InstructionsOf(s)
           /\ Ordered(<<"detect">> \o s \o StartProgram)
           /\ InstructionsOf(<<"detect">> \o s \o StartProgram)
                = {"detect"} \cup InstructionsOf(s) \cup {"installed", "arm", "run"}
           /\ Ordered(s \o ShutdownProgram)
           /\ InstructionsOf(s \o ShutdownProgram)
                = InstructionsOf(s) \cup {"stop", "join", "clear"}
           /\ Ordered(s \o <<>>) /\ InstructionsOf(s \o <<>>) = InstructionsOf(s)
<1> DEFINE d == <<"detect">>
           ds == <<"detect">> \o s
<1>1. /\ Ordered(s)
      /\ s = <<>> => InstructionsOf(s) = {}
      /\ s = StopProgram => InstructionsOf(s) = {"disarm", "halt", "drop"}
  BY Parts, Zenon
<1>2. InstructionsOf(s) \in {{}, {"disarm", "halt", "drop"}}
  BY <1>1
<1>3. /\ Ordered(d) /\ InstructionsOf(d) = {"detect"}
      /\ Ordered(<<>>) /\ InstructionsOf(<<>>) = {}
      /\ Ordered(StartProgram) /\ InstructionsOf(StartProgram) = {"installed", "arm", "run"}
      /\ Ordered(ShutdownProgram) /\ InstructionsOf(ShutdownProgram) = {"stop", "join", "clear"}
  BY Parts, Zenon
<1> HIDE DEF d
<1>4. \A x \in InstructionsOf(d) : \A y \in InstructionsOf(s) : Rank(x) < Rank(y)
  BY <1>2, <1>3 DEF Rank
<1>5. Ordered(d \o s) /\ InstructionsOf(d \o s) = {"detect"} \cup InstructionsOf(s)
  BY <1>1, <1>3, <1>4, Sequel, Zenon
<1>6. Ordered(ds) /\ InstructionsOf(ds) = {"detect"} \cup InstructionsOf(s)
  BY <1>5 DEF d
<1> HIDE DEF ds
<1>7. \A x \in InstructionsOf(ds) : \A y \in InstructionsOf(StartProgram) : Rank(x) < Rank(y)
  BY <1>2, <1>3, <1>6 DEF Rank
<1>8. /\ Ordered(ds \o StartProgram)
      /\ InstructionsOf(ds \o StartProgram)
            = {"detect"} \cup InstructionsOf(s) \cup {"installed", "arm", "run"}
  <2>1. Ordered(ds) /\ Ordered(StartProgram)
    BY <1>3, <1>6
  <2>2. /\ Ordered(ds \o StartProgram)
        /\ InstructionsOf(ds \o StartProgram) = InstructionsOf(ds) \cup InstructionsOf(StartProgram)
    BY <1>7, <2>1, Sequel
  <2>3. QED
    BY <1>3, <1>6, <2>2, Zenon
<1>9. \A x \in InstructionsOf(s) : \A y \in InstructionsOf(ShutdownProgram) : Rank(x) < Rank(y)
  BY <1>2, <1>3 DEF Rank
<1>10. /\ Ordered(s \o ShutdownProgram)
       /\ InstructionsOf(s \o ShutdownProgram) = InstructionsOf(s) \cup {"stop", "join", "clear"}
  BY <1>1, <1>3, <1>9, Sequel, Zenon
<1>11. Ordered(s \o <<>>) /\ InstructionsOf(s \o <<>>) = InstructionsOf(s)
  <2>1. InstructionsOf(s) \cup {} = InstructionsOf(s)
    OBVIOUS
  <2>2. \A x \in InstructionsOf(s) : \A y \in InstructionsOf(<<>>) : Rank(x) < Rank(y)
    BY <1>3
  <2>3. /\ Ordered(s \o <<>>)
        /\ InstructionsOf(s \o <<>>) = InstructionsOf(s) \cup InstructionsOf(<<>>)
    <3>1. Ordered(<<>>)
      BY <1>3
    <3>2. QED
      BY <1>1, <2>2, <3>1, Sequel
  <2>4. QED
    BY <1>3, <2>1, <2>3, Zenon
<1>12. QED
  BY <1>1, <1>2, <1>6, <1>8, <1>10, <1>11 DEF ds

LEMMA StopIfIs ==
    ASSUME NEW b \in BOOLEAN
    PROVE  /\ StopIf(b) \in {<<>>, StopProgram}
           /\ b => StopIf(b) = StopProgram
           /\ ~b => StopIf(b) = <<>>
  BY DEF StopIf

-----------------------------------------------------------------------------
(* Every step preserves the invariant *)

LEMMA Fields ==
    ASSUME TypeOK
    PROVE  /\ timer.installed \in BOOLEAN /\ timer.started \in BOOLEAN
           /\ timer.stopping \in BOOLEAN /\ timer.armed \in BOOLEAN
           /\ prof.running \in BOOLEAN /\ prof.own \in 0 .. MaxPending
           /\ prof.late \in 0 .. MaxPending
           /\ ghost.current \in BOOLEAN /\ ghost.ticked \in BOOLEAN
           /\ ghost.booked \in 0 .. MaxPending
           /\ aware \in BOOLEAN /\ up \in BOOLEAN /\ sampler \in SamplerSteps
  BY DEF TypeOK, Timer, Prof, Ghost

LEMMA UptoType ==
    ASSUME NEW n \in Nat
    PROVE  /\ Upto(n) \in 0 .. MaxPending
           /\ n <= 2 => Upto(n) = n
  BY TimerThreadAssumption DEF Upto

(* Taking and moving the pending ticks. *)
LEMMA Counts ==
    ASSUME prof \in Prof, NEW n \in 0 .. MaxPending, NEW m \in 0 .. MaxPending,
           prof' = [prof EXCEPT !.own = n, !.late = m]
    PROVE  prof' \in Prof /\ prof'.own = n /\ prof'.late = m /\ prof'.running = prof.running
<1>1. prof' = [running |-> prof.running, own |-> n, late |-> m]
  BY DEF Prof
<1>2. prof.running \in BOOLEAN
  BY DEF Prof
<1>3. QED
  BY <1>1, <1>2 DEF Prof

(* A unit begins: the iteration of the sampler is not of this unit. *)
LEMMA Renewed ==
    ASSUME NEW g \in Ghost,
           NEW h, h = [g EXCEPT !.current = FALSE, !.ticked = FALSE, !.booked = 0]
    PROVE  h \in Ghost /\ h.current = FALSE /\ h.booked = 0
<1>1. h = [current |-> FALSE, ticked |-> FALSE, booked |-> 0]
  BY DEF Ghost
<1>2. 0 \in 0 .. MaxPending
  BY TimerThreadAssumption
<1>3. QED
  BY <1>1, <1>2 DEF Ghost

(* PHP code is running: nothing is ahead. *)
LEMMA Nothing ==
    ASSUME todo = <<>>
    PROVE  Ahead = {}
  BY Parts DEF Ahead

(* A program begins. *)
LEMMA CallStep ==
    ASSUME IInv, todo = <<>>, NEW s, Ordered(s), todo' = s,
           UNCHANGED <<lock, timer, sampler, prof, aware, ghost>>, up' \in BOOLEAN,
           NEW stop \in {{}, {"disarm", "halt", "drop"}},
           \/ /\ up' /\ InstructionsOf(s) = {"detect"} \cup stop \cup {"installed", "arm", "run"}
              /\ prof.running /\ aware => stop # {}
           \/ /\ up' /\ InstructionsOf(s) \in {{"detect"} \cup stop, stop}
           \/ /\ ~up' /\ InstructionsOf(s) = stop \cup {"stop", "join", "clear"}
              /\ prof.running => stop # {}
              /\ timer.installed
           \/ /\ ~up' /\ InstructionsOf(s) = stop /\ ~timer.installed
    PROVE  IInv'
<1>1. Ahead = {} /\ Ahead' = InstructionsOf(s)
  BY Nothing DEF Ahead
<1>2. TypeOK'
  BY DEF IInv, TypeOK, Ordered
<1>3. ControlInv'
  BY <1>1 DEF ControlInv
<1>4. RunInv'
  BY <1>1 DEF IInv, RunInv
<1>5. TickInv'
  BY <1>1 DEF IInv, TickInv, LateTickBound, InFlight, LateInFlight
<1>6. ThreadInv'
  BY <1>1 DEF IInv, ThreadInv
<1>7. QED
  BY <1>2, <1>3, <1>4, <1>5, <1>6 DEF IInv

(* What the PHP thread does when PHP code calls the extension. *)
LEMMA CallSteps ==
    ASSUME IInv, Begin \/ Finish \/ RShutdown \/ MShutdown
    PROVE  IInv'
<1> DEFINE b == StopIf(prof.running /\ aware)
           c == StopIf(prof.running)
<1>1. TypeOK /\ prof.running \in BOOLEAN /\ aware \in BOOLEAN
  BY Fields DEF IInv
<1>2. /\ b \in {<<>>, StopProgram} /\ (prof.running /\ aware => b = StopProgram)
      /\ c \in {<<>>, StopProgram} /\ (prof.running => c = StopProgram)
  BY <1>1 DEF StopIf
<1>3. CASE Begin
  <2>1. /\ up /\ todo = <<>> /\ todo' = <<"detect">> \o b \o StartProgram
        /\ UNCHANGED <<lock, timer, sampler, prof, aware, up, ghost>>
    BY <1>3 DEF Begin, Call
  <2> HIDE DEF b
  <2>2. /\ Ordered(<<"detect">> \o b \o StartProgram)
        /\ InstructionsOf(<<"detect">> \o b \o StartProgram)
             = {"detect"} \cup InstructionsOf(b) \cup {"installed", "arm", "run"}
        /\ InstructionsOf(b) \in {{}, {"disarm", "halt", "drop"}}
    BY <1>2, Programs
  <2>3. prof.running /\ aware => InstructionsOf(b) # {}
    BY <1>2, Programs
  <2>4. up' \in BOOLEAN /\ up'
    BY <1>1, <2>1 DEF TypeOK
  <2>5. QED
    BY <2>1, <2>2, <2>3, <2>4, CallStep
<1>4. CASE Finish
  <2>1. /\ up /\ todo = <<>> /\ todo' = <<"detect">> \o b
        /\ UNCHANGED <<lock, timer, sampler, prof, aware, up, ghost>>
    BY <1>4 DEF Finish, Call
  <2> HIDE DEF b
  <2>2. /\ Ordered(<<"detect">> \o b)
        /\ InstructionsOf(<<"detect">> \o b) = {"detect"} \cup InstructionsOf(b)
        /\ InstructionsOf(b) \in {{}, {"disarm", "halt", "drop"}}
    BY <1>2, Programs
  <2>3. up' \in BOOLEAN /\ up'
    BY <1>1, <2>1 DEF TypeOK
  <2>4. QED
    BY <2>1, <2>2, <2>3, CallStep
<1>5. CASE RShutdown
  <2>1. /\ up /\ todo = <<>> /\ todo' = c
        /\ UNCHANGED <<lock, timer, sampler, prof, aware, up, ghost>>
    BY <1>5 DEF RShutdown, Call
  <2> HIDE DEF c
  <2>2. Ordered(c) /\ InstructionsOf(c) \in {{}, {"disarm", "halt", "drop"}}
    BY <1>2, Programs
  <2>3. up' \in BOOLEAN /\ up'
    BY <1>1, <2>1 DEF TypeOK
  <2>4. QED
    BY <2>1, <2>2, <2>3, CallStep
<1>6. CASE MShutdown
  <2>1. /\ up /\ todo = <<>> /\ up' = FALSE
        /\ timer.installed => todo' = c \o ShutdownProgram
        /\ ~timer.installed => todo' = c \o <<>>
        /\ UNCHANGED <<lock, timer, sampler, prof, aware, ghost>>
    BY <1>6 DEF MShutdown
  <2> HIDE DEF c
  <2>2. /\ Ordered(c \o ShutdownProgram)
        /\ InstructionsOf(c \o ShutdownProgram) = InstructionsOf(c) \cup {"stop", "join", "clear"}
        /\ Ordered(c \o <<>>) /\ InstructionsOf(c \o <<>>) = InstructionsOf(c)
        /\ InstructionsOf(c) \in {{}, {"disarm", "halt", "drop"}}
    BY <1>2, Programs
  <2>3. prof.running => InstructionsOf(c) # {}
    BY <1>2, Programs
  <2>4. CASE timer.installed
    BY <2>1, <2>2, <2>3, <2>4, CallStep
  <2>5. CASE ~timer.installed
    BY <2>1, <2>2, <2>5, CallStep
  <2>6. QED
    BY <2>4, <2>5
<1>7. QED
  BY <1>3, <1>4, <1>5, <1>6

(* A step of the sampler thread, or none. *)
LEMMA SamplerStep ==
    ASSUME IInv,
           \/ SamplerLock \/ SamplerCheck \/ SamplerBlock \/ SpuriousWakeup
           \/ SleepEnds \/ Recheck \/ Tick \/ UNCHANGED vars
    PROVE  IInv'
<1> USE TimerThreadAssumption
<1>1. /\ UNCHANGED <<timer, todo, aware, up>> /\ prof'.running = prof.running
      /\ Ahead' = Ahead
  <2>1. UNCHANGED <<timer, todo, aware, up>>
    BY DEF SamplerLock, SamplerCheck, SamplerBlock, SpuriousWakeup, SleepEnds, Recheck, Tick, vars
  <2>2. prof'.running = prof.running
    BY DEF SamplerLock, SamplerCheck, SamplerBlock, SpuriousWakeup, SleepEnds, Recheck, Tick, vars,
           IInv, TypeOK, Prof
  <2>3. QED
    BY <2>1, <2>2 DEF Ahead
<1>2. TypeOK'
  <2>1. CASE Tick
    <3>1. Upto(prof.own + 1) \in 0 .. MaxPending /\ Upto(prof.late + 1) \in 0 .. MaxPending
      BY Fields, UptoType DEF IInv
    <3>2. QED
      BY <2>1, <3>1 DEF Tick, IInv, TypeOK, Prof, Ghost, SamplerSteps
  <2>2. CASE \/ SamplerLock \/ SamplerCheck \/ SamplerBlock \/ SpuriousWakeup
             \/ SleepEnds \/ Recheck \/ UNCHANGED vars
    BY <2>2 DEF SamplerLock, SamplerCheck, SamplerBlock, SpuriousWakeup, SleepEnds, Recheck, vars,
                IInv, TypeOK, Ghost, SamplerSteps
  <2>3. QED
    BY <2>1, <2>2
<1>3. ControlInv' /\ RunInv'
  BY <1>1 DEF IInv, ControlInv, RunInv
<1>4. ThreadInv'
  <2>1. sampler \in {"none", "done"} => sampler' \in {"none", "done"}
    BY DEF SamplerLock, SamplerCheck, SamplerBlock, SpuriousWakeup, SleepEnds, Recheck, Tick,
           SamplerAt, vars
  <2>2. QED
    BY <1>1, <2>1 DEF IInv, ThreadInv
<1>5. TickInv'
  <2>1. CASE Tick
    <3>1. /\ InFlight = 1 /\ InFlight' = 0 /\ LateInFlight' = 0 /\ ghost'.booked = ghost.booked
          /\ ghost.current => prof'.own = Upto(prof.own + 1) /\ prof'.late = prof.late
          /\ ~ghost.current => prof'.own = prof.own /\ prof'.late = Upto(prof.late + 1)
          /\ ~ghost.current => LateInFlight = 1
          /\ ghost.current => LateInFlight = 0
      BY <2>1 DEF Tick, SamplerAt, InFlight, LateInFlight, IInv, TypeOK, Prof, Ghost
    <3>2. /\ prof.own \in Nat /\ prof.late \in Nat /\ ghost.booked \in Nat
          /\ ghost.current \in BOOLEAN
      BY Fields DEF IInv
    <3>3. /\ prof.own <= 1 => Upto(prof.own + 1) = prof.own + 1
          /\ prof.late <= 1 => Upto(prof.late + 1) = prof.late + 1
      BY <3>2, UptoType
    <3>4. QED
      BY <1>1, <3>1, <3>2, <3>3 DEF IInv, TickInv, LateTickBound
  <2>2. CASE \/ SamplerLock \/ SamplerBlock \/ SpuriousWakeup
             \/ SleepEnds \/ Recheck \/ UNCHANGED vars
    <3>1. UNCHANGED <<prof, ghost>> /\ InFlight' <= InFlight /\ LateInFlight' <= LateInFlight
      BY <2>2 DEF SamplerLock, SamplerBlock, SpuriousWakeup, SleepEnds, Recheck,
                  SamplerAt, vars, InFlight, LateInFlight
    <3>2. InFlight \in 0 .. 1 /\ LateInFlight \in 0 .. 1
          /\ InFlight' \in 0 .. 1 /\ LateInFlight' \in 0 .. 1
      BY DEF InFlight, LateInFlight
    <3>3. /\ prof.own \in Nat /\ prof.late \in Nat /\ ghost.booked \in Nat
      BY Fields DEF IInv
    <3>4. QED
      BY <1>1, <3>1, <3>2, <3>3 DEF IInv, TickInv, LateTickBound
  <2>3. CASE SamplerCheck
    <3>1. /\ prof' = prof /\ ghost'.booked = ghost.booked
          /\ LateInFlight' = 0 /\ (~timer.armed => InFlight' = 0)
      BY <2>3 DEF SamplerCheck, InFlight, LateInFlight, IInv, TypeOK, Ghost
    <3>2. InFlight \in 0 .. 1 /\ LateInFlight \in 0 .. 1
      BY DEF InFlight, LateInFlight
    <3>3. /\ prof.own \in Nat /\ prof.late \in Nat /\ ghost.booked \in Nat
      BY Fields DEF IInv
    <3>4. QED
      BY <1>1, <3>1, <3>2, <3>3 DEF IInv, TickInv, LateTickBound
  <2>4. QED
    BY <2>1, <2>2, <2>3
<1>6. QED
  BY <1>2, <1>3, <1>4, <1>5 DEF IInv

(* A safe point: booking is where a late tick would show. *)
LEMMA SafePointStep ==
    ASSUME IInv, NEW capped \in BOOLEAN, SafePoint(capped)
    PROVE  IInv'
<1> USE TimerThreadAssumption
<1> DEFINE c == StopIf(capped /\ prof.running)
<1>1. /\ todo = <<>> /\ up /\ todo' = c /\ UNCHANGED <<lock, timer, sampler, aware, up>>
      /\ prof' = [prof EXCEPT !.own = 0, !.late = 0]
      /\ ghost' = IF prof.running THEN [ghost EXCEPT !.booked = Upto(@ + prof.late)] ELSE ghost
  BY DEF SafePoint
<1>2. /\ prof.running \in BOOLEAN /\ prof.own \in Nat /\ prof.late \in Nat /\ ghost.booked \in Nat
      /\ timer.armed \in BOOLEAN
  BY Fields DEF IInv
<1>3. c \in {<<>>, StopProgram}
  BY <1>2 DEF StopIf
<1> HIDE DEF c
<1>4. Ordered(c) /\ InstructionsOf(c) \in {{}, {"disarm", "halt", "drop"}}
  BY <1>3, Programs
<1>5. Ahead = {} /\ Ahead' \in {{}, {"disarm", "halt", "drop"}}
  BY <1>1, <1>4, Nothing DEF Ahead
<1>6. /\ prof' \in Prof /\ prof'.own = 0 /\ prof'.late = 0 /\ prof'.running = prof.running
  <2>1. prof \in Prof /\ prof' = [prof EXCEPT !.own = 0, !.late = 0]
    BY <1>1 DEF IInv, TypeOK
  <2>2. 0 \in 0 .. MaxPending
    OBVIOUS
  <2>3. QED
    BY <2>1, <2>2, Counts, Zenon
<1>7. /\ ghost' \in Ghost /\ ghost'.current = ghost.current
      /\ prof.running => ghost'.booked = Upto(ghost.booked + prof.late)
      /\ ~prof.running => ghost'.booked = ghost.booked
  <2>1. Upto(ghost.booked + prof.late) \in 0 .. MaxPending
    BY <1>2, UptoType
  <2>2. QED
    BY <1>1, <1>2, <2>1 DEF IInv, TypeOK, Ghost
<1>8. TypeOK'
  BY <1>1, <1>4, <1>6, <1>7 DEF IInv, TypeOK, Ordered
<1>9. ControlInv'
  BY <1>1, <1>4, <1>5 DEF ControlInv
<1>10. timer.armed <=> prof.running
  BY <1>2, <1>5 DEF IInv, RunInv
<1>11. RunInv'
  BY <1>1, <1>5, <1>6, <1>10 DEF RunInv
<1>12. ThreadInv'
  BY <1>1, <1>5 DEF IInv, ThreadInv
<1>13. TickInv'
  <2>1. InFlight' = InFlight /\ LateInFlight' = LateInFlight /\ InFlight \in 0 .. 1
        /\ LateInFlight \in 0 .. 1
    BY <1>1, <1>7 DEF InFlight, LateInFlight
  <2>2. prof.running => ghost'.booked = ghost.booked + prof.late
    BY <1>2, <1>7, <1>10, <2>1, UptoType DEF IInv, TickInv
  <2>3. QED
    BY <1>1, <1>2, <1>5, <1>6, <1>7, <1>10, <2>1, <2>2 DEF IInv, TickInv, LateTickBound
<1>14. QED
  BY <1>8, <1>9, <1>11, <1>12, <1>13 DEF IInv

(* A fork, seen by the child: its sampler is gone. *)
LEMMA ForkStep ==
    ASSUME IInv, Fork
    PROVE  IInv'
<1>1. /\ todo = <<>> /\ sampler' = "none" /\ lock' \in {lock, "ghost"} /\ aware' = FALSE
      /\ UNCHANGED <<timer, todo, prof, up, ghost>>
  BY DEF Fork
<1>2. Ahead = {} /\ Ahead' = {}
  BY <1>1, Nothing DEF Ahead
<1>3. TypeOK' /\ ControlInv'
  BY <1>1, <1>2 DEF IInv, TypeOK, ControlInv, SamplerSteps
<1>4. RunInv' /\ ThreadInv'
  BY <1>1, <1>2 DEF IInv, RunInv, ThreadInv
<1>5. TickInv'
  <2>1. InFlight' = 0 /\ LateInFlight' = 0 /\ InFlight \in 0 .. 1 /\ LateInFlight \in 0 .. 1
    BY <1>1 DEF InFlight, LateInFlight
  <2>2. prof.own \in Nat /\ prof.late \in Nat /\ ghost.booked \in Nat
    BY Fields DEF IInv
  <2>3. QED
    BY <1>1, <1>2, <2>1, <2>2 DEF IInv, TickInv, LateTickBound
<1>6. QED
  BY <1>3, <1>4, <1>5 DEF IInv

(* An instruction after which the timer and the profile are as before. *)
LEMMA LockStep ==
    ASSUME IInv, Known \/ PhpLock \/ PhpUnlock
    PROVE  IInv'
<1>1. PICK x \in {"detect", "lock", "unlock"} :
          Executes(x) /\ todo' = Tail(todo) /\ (x = "detect" => aware)
  BY DEF Known, PhpLock, PhpUnlock
<1>2. /\ UNCHANGED <<timer, sampler, prof, aware, up, ghost>>
      /\ lock' \in {lock, "php", "free"}
  BY DEF Known, PhpLock, PhpUnlock
<1>3. /\ Ordered(todo')
      /\ x \in Locking => Ahead' = Ahead
      /\ x \notin Locking => Ahead' = Ahead \ {x}
  BY <1>1, Advance DEF IInv, ControlInv
<1>4. Ahead' = Ahead \/ (Ahead' = Ahead \ {"detect"} /\ aware)
  BY <1>1, <1>3 DEF Locking
<1>5. TypeOK' /\ ControlInv'
  BY <1>2, <1>3, <1>4 DEF IInv, TypeOK, ControlInv, Ordered
<1>6. RunInv'
  BY <1>2, <1>4 DEF IInv, RunInv
<1>7. TickInv' /\ ThreadInv'
  BY <1>2, <1>4 DEF IInv, TickInv, ThreadInv, InFlight, LateInFlight, LateTickBound
<1>8. QED
  BY <1>5, <1>6, <1>7 DEF IInv

(* cbox_detect_fork in a child. *)
LEMMA AfterForkStep ==
    ASSUME IInv, NEW created \in BOOLEAN, AfterFork(created)
    PROVE  IInv'
<1> USE TimerThreadAssumption
<1>1. /\ Executes("detect") /\ todo' = Tail(todo) /\ aware' = TRUE /\ up' = up
      /\ prof' = [running |-> FALSE, own |-> 0, late |-> 0]
      /\ lock' = "free"
      /\ timer' = [installed |-> created, started |-> created, stopping |-> FALSE,
                   armed |-> FALSE]
      /\ sampler' = IF created THEN "lock" ELSE "none"
      /\ ghost' = [ghost EXCEPT !.current = FALSE, !.ticked = FALSE, !.booked = 0]
  BY DEF AfterFork, LockRenewed
<1>2. /\ Ordered(todo') /\ "detect" \in Ahead /\ Ahead' = Ahead \ {"detect"}
      /\ \A y \in Ahead' : Rank("detect") < Rank(y)
  BY <1>1, Advance DEF IInv, ControlInv, Locking
<1>3. up /\ ("run" \in Ahead => "arm" \in Ahead)
  BY <1>2 DEF IInv, ControlInv
<1>4. /\ prof' \in Prof /\ prof'.running = FALSE /\ prof'.own = 0 /\ prof'.late = 0
      /\ timer' \in Timer /\ timer'.armed = FALSE
      /\ timer'.installed = created /\ timer'.started = created
      /\ ghost' \in Ghost /\ ghost'.booked = 0
  <2>1. ghost' \in Ghost /\ ghost'.booked = 0
    BY <1>1, Renewed DEF IInv, TypeOK
  <2>2. QED
    BY <1>1, <2>1 DEF Prof, Timer
<1>5. TypeOK' /\ ControlInv'
  BY <1>1, <1>2, <1>4 DEF IInv, TypeOK, ControlInv, Ordered, SamplerSteps
<1>6. RunInv'
  BY <1>2, <1>3, <1>4 DEF RunInv
<1>7. TickInv'
  <2>1. InFlight' = 0
    BY <1>1 DEF InFlight
  <2>2. QED
    BY <1>4, <2>1 DEF TickInv, LateTickBound
<1>8. ThreadInv'
  <2>1. up' /\ (created => sampler' = "lock") /\ (~created => sampler' = "none")
    BY <1>1, <1>3
  <2>2. "clear" \in Ahead' /\ created => "join" \in Ahead'
    BY <1>2, <1>3 DEF IInv, ControlInv
  <2>3. QED
    BY <1>4, <2>1, <2>2 DEF ThreadInv
<1>9. QED
  BY <1>5, <1>6, <1>7, <1>8 DEF IInv

(* cbox_timer_arm looks for a timer. *)
LEMMA InstalledStep ==
    ASSUME IInv, CheckInstalled
    PROVE  IInv'
<1>1. /\ Executes("installed") /\ UNCHANGED <<lock, timer, sampler, prof, aware, up, ghost>>
      /\ todo' = IF timer.installed THEN Tail(todo) ELSE <<>>
  BY DEF CheckInstalled
<1>2. CASE timer.installed
  <2>1. /\ Ordered(todo') /\ Ahead' = Ahead \ {"installed"}
    BY <1>1, <1>2, Advance DEF IInv, ControlInv, Locking
  <2>2. TypeOK' /\ ControlInv'
    BY <1>1, <2>1 DEF IInv, TypeOK, ControlInv, Ordered
  <2>3. RunInv' /\ TickInv' /\ ThreadInv'
    BY <1>1, <2>1 DEF IInv, RunInv, TickInv, ThreadInv, InFlight, LateInFlight, LateTickBound
  <2>4. QED
    BY <2>2, <2>3 DEF IInv
<1>3. CASE ~timer.installed
  <2>1. /\ "installed" \in Ahead /\ "disarm" \notin Ahead /\ "halt" \notin Ahead
        /\ "drop" \notin Ahead /\ "detect" \notin Ahead
    <3>1. /\ todo # <<>> /\ todo \in Seq(Instructions) /\ todo[1] = "installed"
          /\ Len(todo) \in Nat \ {0}
      BY <1>1 DEF IInv, ControlInv, Ordered, Executes
    <3>2. "installed" \in Ahead
      BY <3>1 DEF Ahead, InstructionsOf, Instructions, Locking
    <3>3. ASSUME NEW y \in Ahead, y # "installed"
          PROVE  Rank("installed") < Rank(y)
      <4>1. y \in Instructions \ Locking /\ \E k \in 1 .. Len(todo) : todo[k] = y
        BY DEF Ahead, InstructionsOf
      <4>2. PICK k \in 1 .. Len(todo) : todo[k] = y
        BY <4>1
      <4>3. 1 < k /\ 1 \in 1 .. Len(todo)
        BY <3>1, <3>3, <4>2
      <4>4. QED
        BY <3>1, <4>1, <4>2, <4>3 DEF IInv, ControlInv, Ordered, Locking
    <3>4. /\ Rank("installed") = 5 /\ Rank("disarm") = 2 /\ Rank("halt") = 3
          /\ Rank("drop") = 4 /\ Rank("detect") = 1
      BY DEF Rank
    <3>5. QED
      BY <3>2, <3>3, <3>4
  <2>2. todo' = <<>> /\ Ahead' = {} /\ Ordered(todo')
    BY <1>1, <1>3, Parts DEF Ahead
  <2>3. ~timer.armed /\ ~prof.running
    <3>1. ~timer.armed
      BY <2>1 DEF IInv, ControlInv, RunInv
    <3>2. QED
      BY <2>1, <3>1 DEF IInv, RunInv
  <2>4. up
    BY <2>1 DEF IInv, ControlInv
  <2>5. TypeOK' /\ ControlInv'
    BY <1>1, <2>2 DEF IInv, TypeOK, ControlInv, Ordered
  <2>6. RunInv' /\ ThreadInv'
    BY <1>1, <1>3, <2>2, <2>3, <2>4 DEF IInv, RunInv, ThreadInv
  <2>7. TickInv'
    BY <1>1, <2>1, <2>2, <2>3 DEF IInv, TickInv, InFlight, LateInFlight, LateTickBound
  <2>8. QED
    BY <2>5, <2>6, <2>7 DEF IInv
<1>4. QED
  BY <1>2, <1>3

(* What is ahead when the thread executes x. *)
LEMMA First ==
    ASSUME IInv, NEW x \in Instructions \ Locking, Executes(x), todo' = Tail(todo)
    PROVE  /\ Ordered(todo') /\ x \in Ahead /\ Ahead' = Ahead \ {x}
           /\ \A y \in Ahead : y = x \/ Rank(x) < Rank(y)
<1>1. /\ Ordered(todo') /\ x \in Ahead /\ Ahead' = Ahead \ {x}
      /\ \A y \in Ahead' : Rank(x) < Rank(y)
  BY Advance DEF IInv, ControlInv
<1>2. QED
  BY <1>1

(* The unit begins. *)
LEMMA ArmStep ==
    ASSUME IInv, Arm
    PROVE  IInv'
<1> USE TimerThreadAssumption
<1>1. /\ Executes("arm") /\ todo' = Tail(todo)
      /\ timer' = [timer EXCEPT !.armed = TRUE]
      /\ sampler' = IF sampler = "waiting" THEN "lock" ELSE sampler
      /\ ghost' = [ghost EXCEPT !.current = FALSE, !.ticked = FALSE, !.booked = 0]
      /\ prof' = [prof EXCEPT !.own = 0, !.late = Upto(prof.late + prof.own)]
      /\ UNCHANGED <<lock, aware, up>>
  BY DEF Arm, Signalled
<1>2. /\ Ordered(todo') /\ "arm" \in Ahead /\ Ahead' = Ahead \ {"arm"}
      /\ \A y \in Ahead : y = "arm" \/ Rank("arm") < Rank(y)
  BY <1>1, First DEF Instructions, Locking
<1>3. /\ "disarm" \notin Ahead /\ "drop" \notin Ahead /\ "detect" \notin Ahead
      /\ "halt" \notin Ahead /\ "installed" \notin Ahead
  BY <1>2 DEF Rank
<1>4. ~timer.armed /\ "run" \in Ahead
  BY <1>2, <1>3 DEF IInv, RunInv, ControlInv
<1>5. ~prof.running
  BY <1>3, <1>4 DEF IInv, RunInv
<1>6. /\ prof.own \in Nat /\ prof.late \in Nat /\ InFlight \in 0 .. 1
      /\ prof.own + prof.late + InFlight <= 1
  BY <1>3, <1>4, Fields DEF IInv, TickInv, InFlight
<1>7. Upto(prof.late + prof.own) = prof.late + prof.own
      /\ Upto(prof.late + prof.own) \in 0 .. MaxPending
  BY <1>6, UptoType
<1>8. /\ timer' \in Timer /\ timer'.armed = TRUE
      /\ timer'.started = timer.started /\ timer'.installed = timer.installed
      /\ ghost' \in Ghost /\ ghost'.booked = 0 /\ ghost'.current = FALSE
      /\ prof' \in Prof /\ prof'.own = 0 /\ prof'.late = prof.late + prof.own
      /\ prof'.running = prof.running
  <2>1. timer \in Timer /\ ghost \in Ghost /\ prof \in Prof
    BY DEF IInv, TypeOK
  <2>2. 0 \in 0 .. MaxPending
    OBVIOUS
  <2>3. /\ ghost' \in Ghost /\ ghost'.booked = 0 /\ ghost'.current = FALSE
    BY <1>1, <2>1, Renewed, Zenon
  <2>4. /\ prof' \in Prof /\ prof'.own = 0 /\ prof'.late = prof.late + prof.own
        /\ prof'.running = prof.running
    BY <1>1, <1>7, <2>1, <2>2, Counts, Zenon
  <2>5. /\ timer' \in Timer /\ timer'.armed = TRUE
        /\ timer'.started = timer.started /\ timer'.installed = timer.installed
    BY <1>1, <2>1 DEF Timer
  <2>6. QED
    BY <2>3, <2>4, <2>5, Zenon
<1>9. TypeOK' /\ ControlInv'
  BY <1>1, <1>2, <1>3, <1>8 DEF IInv, TypeOK, ControlInv, Ordered, SamplerSteps
<1>10. RunInv'
  BY <1>2, <1>3, <1>4, <1>5, <1>8 DEF IInv, RunInv
<1>11. ThreadInv'
  BY <1>1, <1>2, <1>8 DEF IInv, ThreadInv
<1>12. TickInv'
  <2>1. LateInFlight' = InFlight
    BY <1>1, <1>8 DEF LateInFlight, InFlight
  <2>2. QED
    BY <1>6, <1>8, <2>1 DEF TickInv, LateTickBound
<1>13. QED
  BY <1>9, <1>10, <1>11, <1>12 DEF IInv

(* The unit ends. *)
LEMMA DisarmStep ==
    ASSUME IInv, Disarm
    PROVE  IInv'
<1>1. /\ Executes("disarm") /\ todo' = Tail(todo)
      /\ timer' = [timer EXCEPT !.armed = FALSE]
      /\ UNCHANGED <<lock, sampler, prof, aware, up, ghost>>
  BY DEF Disarm
<1>2. /\ Ordered(todo') /\ "disarm" \in Ahead /\ Ahead' = Ahead \ {"disarm"}
  BY <1>1, First DEF Instructions, Locking
<1>3. "halt" \in Ahead' /\ "drop" \in Ahead'
  BY <1>2 DEF IInv, ControlInv
<1>4. /\ timer' \in Timer /\ timer'.armed = FALSE
      /\ timer'.started = timer.started /\ timer'.installed = timer.installed
  BY <1>1 DEF IInv, TypeOK, Timer
<1>5. TypeOK' /\ ControlInv'
  BY <1>1, <1>2, <1>4 DEF IInv, TypeOK, ControlInv, Ordered
<1>6. "run" \in Ahead => "arm" \in Ahead
  BY <1>2 DEF IInv, RunInv
<1>7. RunInv' /\ ThreadInv'
  BY <1>1, <1>2, <1>3, <1>4, <1>6 DEF IInv, RunInv, ThreadInv
<1>8. TickInv'
  BY <1>1, <1>3, <1>4 DEF IInv, TickInv, LateTickBound
<1>9. QED
  BY <1>5, <1>7, <1>8 DEF IInv

(* Module shutdown ends the thread. *)
LEMMA StopThreadStep ==
    ASSUME IInv, StopThread
    PROVE  IInv'
<1>1. /\ Executes("stop") /\ todo' = Tail(todo)
      /\ timer' = [timer EXCEPT !.stopping = TRUE, !.armed = FALSE]
      /\ sampler' = IF sampler = "waiting" THEN "lock" ELSE sampler
      /\ UNCHANGED <<lock, prof, aware, up, ghost>>
  BY DEF StopThread, Signalled
<1>2. /\ Ordered(todo') /\ "stop" \in Ahead /\ Ahead' = Ahead \ {"stop"}
      /\ \A y \in Ahead : y = "stop" \/ Rank("stop") < Rank(y)
  BY <1>1, First DEF Instructions, Locking
<1>3. "halt" \notin Ahead /\ "run" \notin Ahead
  BY <1>2 DEF Rank
<1>4. ~prof.running /\ ~timer.armed
  <2>1. ~prof.running
    BY <1>2, <1>3 DEF IInv, RunInv
  <2>2. QED
    BY <1>3, <2>1 DEF IInv, RunInv
<1>5. /\ timer' \in Timer /\ timer'.armed = FALSE
      /\ timer'.started = timer.started /\ timer'.installed = timer.installed
  BY <1>1 DEF IInv, TypeOK, Timer
<1>6. TypeOK' /\ ControlInv'
  BY <1>1, <1>2, <1>5 DEF IInv, TypeOK, ControlInv, Ordered, SamplerSteps
<1>7. RunInv' /\ ThreadInv'
  BY <1>1, <1>2, <1>3, <1>4, <1>5 DEF IInv, RunInv, ThreadInv
<1>8. TickInv'
  <2>1. InFlight' = InFlight
    BY <1>1 DEF InFlight
  <2>2. QED
    BY <1>1, <1>2, <1>4, <1>5, <2>1 DEF IInv, TickInv, LateTickBound
<1>9. QED
  BY <1>6, <1>7, <1>8 DEF IInv

(* It waits for the thread, and then forgets it. *)
LEMMA JoinStep ==
    ASSUME IInv, Join \/ Clear
    PROVE  IInv'
<1>1. /\ todo' = Tail(todo) /\ UNCHANGED <<lock, sampler, prof, aware, up, ghost>>
  BY DEF Join, Clear
<1>2. /\ timer' \in Timer /\ timer'.armed = timer.armed
  BY DEF Join, Clear, IInv, TypeOK, Timer
<1>3. CASE Join
  <2>1. /\ Executes("join") /\ (timer.started => sampler = "done")
        /\ timer'.started = FALSE /\ timer'.installed = timer.installed
    BY <1>3 DEF Join, IInv, TypeOK, Timer
  <2>2. /\ Ordered(todo') /\ "join" \in Ahead /\ Ahead' = Ahead \ {"join"}
    BY <1>1, <2>1, First DEF Instructions, Locking
  <2>3. TypeOK' /\ ControlInv' /\ "clear" \in Ahead'
    BY <1>1, <1>2, <2>2 DEF IInv, TypeOK, ControlInv, Ordered
  <2>4. RunInv' /\ TickInv'
    BY <1>1, <1>2, <2>2 DEF IInv, RunInv, TickInv, InFlight, LateInFlight, LateTickBound
  <2>5. ThreadInv'
    BY <1>1, <2>1, <2>2, <2>3 DEF IInv, ThreadInv
  <2>6. QED
    BY <2>3, <2>4, <2>5 DEF IInv
<1>4. CASE Clear
  <2>1. /\ Executes("clear")
        /\ timer'.started = timer.started /\ timer'.installed = FALSE
    BY <1>4 DEF Clear, IInv, TypeOK, Timer
  <2>2. /\ Ordered(todo') /\ "clear" \in Ahead /\ Ahead' = Ahead \ {"clear"}
        /\ \A y \in Ahead : y = "clear" \/ Rank("clear") < Rank(y)
    BY <1>1, <2>1, First DEF Instructions, Locking
  <2>3. "join" \notin Ahead
    BY <2>2 DEF Rank
  <2>4. ~timer.started
    BY <2>2, <2>3 DEF IInv, ThreadInv
  <2>5. TypeOK' /\ ControlInv'
    BY <1>1, <1>2, <2>2, <2>3 DEF IInv, TypeOK, ControlInv, Ordered
  <2>6. RunInv' /\ TickInv'
    BY <1>1, <1>2, <2>2 DEF IInv, RunInv, TickInv, InFlight, LateInFlight, LateTickBound
  <2>7. ThreadInv'
    BY <1>1, <2>1, <2>2, <2>4 DEF IInv, ThreadInv
  <2>8. QED
    BY <2>5, <2>6, <2>7 DEF IInv
<1>5. QED
  BY <1>3, <1>4

(* The profiler's own part of start and stop. *)
LEMMA OnProfStep ==
    ASSUME IInv, OnProf
    PROVE  IInv'
<1> USE TimerThreadAssumption
<1>1. /\ todo' = Tail(todo) /\ UNCHANGED <<lock, timer, sampler, aware, up, ghost>>
  BY DEF OnProf
<1>2. CASE Executes("run") /\ prof' = [prof EXCEPT !.running = TRUE]
  <2>1. /\ prof' \in Prof /\ prof'.running = TRUE /\ prof'.own = prof.own
        /\ prof'.late = prof.late
    BY <1>2 DEF IInv, TypeOK, Prof
  <2>2. /\ Ordered(todo') /\ "run" \in Ahead /\ Ahead' = Ahead \ {"run"}
        /\ \A y \in Ahead : y = "run" \/ Rank("run") < Rank(y)
    BY <1>1, <1>2, First DEF Instructions, Locking
  <2>3. "arm" \notin Ahead /\ "detect" \notin Ahead /\ "installed" \notin Ahead
        /\ "halt" \notin Ahead
    BY <2>2 DEF Rank
  <2>4. timer.armed
    BY <2>2, <2>3 DEF IInv, RunInv
  <2>5. "stop" \notin Ahead
    BY <2>2, <2>3 DEF IInv, RunInv, ControlInv
  <2>6. TypeOK' /\ ControlInv'
    BY <1>1, <2>1, <2>2, <2>3 DEF IInv, TypeOK, ControlInv, Ordered
  <2>7. RunInv'
    BY <1>1, <2>1, <2>2, <2>3, <2>4, <2>5 DEF RunInv
  <2>8. ThreadInv'
    BY <1>1, <2>2 DEF IInv, ThreadInv
  <2>9. TickInv'
    BY <1>1, <2>1, <2>2, <2>4 DEF IInv, TickInv, InFlight, LateInFlight, LateTickBound
  <2>10. QED
    BY <2>6, <2>7, <2>8, <2>9 DEF IInv
<1>3. CASE Executes("halt") /\ prof' = [prof EXCEPT !.running = FALSE]
  <2>1. /\ prof' \in Prof /\ prof'.running = FALSE /\ prof'.own = prof.own
        /\ prof'.late = prof.late
    BY <1>3 DEF IInv, TypeOK, Prof
  <2>2. /\ Ordered(todo') /\ "halt" \in Ahead /\ Ahead' = Ahead \ {"halt"}
        /\ \A y \in Ahead : y = "halt" \/ Rank("halt") < Rank(y)
    BY <1>1, <1>3, First DEF Instructions, Locking
  <2>3. "disarm" \notin Ahead
    BY <2>2 DEF Rank
  <2>4. ~timer.armed
    BY <2>2, <2>3 DEF IInv, RunInv
  <2>5. TypeOK' /\ ControlInv'
    BY <1>1, <2>1, <2>2, <2>3 DEF IInv, TypeOK, ControlInv, Ordered
  <2>6. RunInv'
    BY <1>1, <2>1, <2>2, <2>4 DEF IInv, RunInv
  <2>7. ThreadInv'
    BY <1>1, <2>2 DEF IInv, ThreadInv
  <2>8. TickInv'
    BY <1>1, <2>1, <2>2, <2>4 DEF IInv, TickInv, InFlight, LateInFlight, LateTickBound
  <2>9. QED
    BY <2>5, <2>6, <2>7, <2>8 DEF IInv
<1>4. CASE Executes("drop") /\ prof' = [prof EXCEPT !.own = 0, !.late = 0]
  <2>1. /\ prof' \in Prof /\ prof'.running = prof.running /\ prof'.own = 0 /\ prof'.late = 0
    <3>1. prof \in Prof /\ 0 \in 0 .. MaxPending
      BY DEF IInv, TypeOK
    <3>2. QED
      BY <1>4, <3>1, Counts, Zenon
  <2>2. /\ Ordered(todo') /\ "drop" \in Ahead /\ Ahead' = Ahead \ {"drop"}
        /\ \A y \in Ahead : y = "drop" \/ Rank("drop") < Rank(y)
    BY <1>1, <1>4, First DEF Instructions, Locking
  <2>3. "disarm" \notin Ahead
    BY <2>2 DEF Rank
  <2>4. TypeOK' /\ ControlInv'
    BY <1>1, <2>1, <2>2, <2>3 DEF IInv, TypeOK, ControlInv, Ordered
  <2>5. RunInv' /\ ThreadInv'
    BY <1>1, <2>1, <2>2 DEF IInv, RunInv, ThreadInv
  <2>6. TickInv'
    <3>1. /\ InFlight' = InFlight /\ InFlight \in 0 .. 1
          /\ LateInFlight' = LateInFlight /\ LateInFlight \in 0 .. 1
      BY <1>1 DEF InFlight, LateInFlight
    <3>2. ghost.booked \in Nat /\ prof.late \in Nat
      BY Fields DEF IInv
    <3>3. /\ timer.armed => ghost.booked + prof.late + LateInFlight <= 1
          /\ ghost.booked <= 1
      BY DEF IInv, TickInv, LateTickBound
    <3>4. timer.armed => ghost.booked + 0 + LateInFlight <= 1
      BY <3>1, <3>2, <3>3
    <3>5. 0 + 0 + InFlight <= 1
      BY <3>1
    <3>6. QED
      BY <1>1, <2>1, <3>1, <3>3, <3>4, <3>5 DEF TickInv, LateTickBound
  <2>7. QED
    BY <2>4, <2>5, <2>6 DEF IInv
<1>5. QED
  BY <1>2, <1>3, <1>4 DEF OnProf

-----------------------------------------------------------------------------
(* The theorems *)

LEMMA Initially ==
    ASSUME Init
    PROVE  IInv
<1> USE TimerThreadAssumption
<1>1. PICK created \in BOOLEAN :
        /\ lock = "free"
        /\ timer = [installed |-> created, started |-> created, stopping |-> FALSE,
                    armed |-> FALSE]
        /\ sampler = IF created THEN "lock" ELSE "none"
        /\ todo = <<>>
        /\ prof = [running |-> FALSE, own |-> 0, late |-> 0]
        /\ aware = TRUE
        /\ up = TRUE
        /\ ghost = [current |-> FALSE, ticked |-> FALSE, booked |-> 0]
  BY DEF Init
<1>2. Ordered(todo) /\ Ahead = {}
  BY <1>1, Parts, Nothing
<1>3. TypeOK
  BY <1>1, <1>2 DEF TypeOK, Timer, SamplerSteps, Prof, Ghost, Ordered
<1>4. ControlInv /\ RunInv
  BY <1>1, <1>2 DEF ControlInv, RunInv
<1>5. TickInv
  BY <1>1, <1>2 DEF TickInv, InFlight, LateTickBound
<1>6. ThreadInv
  BY <1>1, <1>2 DEF ThreadInv
<1>7. QED
  BY <1>3, <1>4, <1>5, <1>6 DEF IInv

LEMMA Inductive ==
    ASSUME IInv, [Next]_vars
    PROVE  IInv'
<1>1. CASE UNCHANGED vars
  BY <1>1, SamplerStep
<1>2. CASE SamplerLock \/ SamplerRuns \/ SpuriousWakeup
  BY <1>2, SamplerStep DEF SamplerRuns
<1>3. CASE Begin \/ Finish \/ RShutdown \/ MShutdown
  BY <1>3, CallSteps
<1>4. CASE \E capped \in BOOLEAN : SafePoint(capped)
  BY <1>4, SafePointStep
<1>5. CASE Fork
  BY <1>5, ForkStep
<1>6. CASE PhpLock
  BY <1>6, LockStep
<1>7. CASE PhpRuns
  <2>1. CASE Known \/ PhpUnlock
    BY <2>1, LockStep
  <2>2. CASE \E created \in BOOLEAN : AfterFork(created)
    BY <2>2, AfterForkStep
  <2>3. CASE CheckInstalled
    BY <2>3, InstalledStep
  <2>4. CASE Arm
    BY <2>4, ArmStep
  <2>5. CASE Disarm
    BY <2>5, DisarmStep
  <2>6. CASE StopThread
    BY <2>6, StopThreadStep
  <2>7. CASE Join \/ Clear
    BY <2>7, JoinStep
  <2>8. CASE OnProf
    BY <2>8, OnProfStep
  <2>9. QED
    BY <1>7, <2>1, <2>2, <2>3, <2>4, <2>5, <2>6, <2>7, <2>8 DEF PhpRuns
<1>8. QED
  BY <1>1, <1>2, <1>3, <1>4, <1>5, <1>6, <1>7 DEF Next

LEMMA Invariant == Spec => []IInv
<1>1. Init => IInv
  BY Initially
<1>2. IInv /\ [Next]_vars => IInv'
  BY Inductive
<1>3. QED
  BY <1>1, <1>2, PTL DEF Spec

(* However arming, disarming, ticks, safe points and forks interleave, a   *)
(* unit books at most one tick of an iteration of cbox_timer_main that     *)
(* began before cbox_timer_arm.                                            *)
THEOREM LateTicksAreBounded == Spec => []LateTickBound
<1>1. IInv => LateTickBound
  BY DEF IInv, TickInv
<1>2. QED
  BY <1>1, Invariant, PTL

(* When cbox_timer_shutdown has returned at module shutdown, no thread is  *)
(* left in cbox_timer_main, whatever forks came before.                    *)
THEOREM NoThreadOutlivesModule == Spec => []NoThreadAfterUnload
<1>1. IInv => NoThreadAfterUnload
  <2> SUFFICES ASSUME IInv, ~up, todo = <<>>
               PROVE  sampler \in {"none", "done"}
    BY DEF NoThreadAfterUnload
  <2>1. Ahead = {}
    BY Nothing
  <2>2. QED
    BY <2>1 DEF IInv, ThreadInv
<1>2. QED
  BY <1>1, Invariant, PTL

(* Every variable keeps its type: the PHP thread executes only             *)
(* instructions of the backend, and no counter passes its bound.           *)
THEOREM TypeCorrect == Spec => []TypeOK
<1>1. IInv => TypeOK
  BY DEF IInv
<1>2. QED
  BY <1>1, Invariant, PTL
=============================================================================
