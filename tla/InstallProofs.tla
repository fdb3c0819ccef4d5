----------------------------- MODULE InstallProofs -----------------------------
(***************************************************************************)
(* Theorems about Install, for any list of functions to hook, any of them  *)
(* in the build and any number of places, whichever calls of startup fail  *)
(* and in whatever order another extension wraps and unwraps our slots.    *)
(*                                                                         *)
(* The invariant says, for every slot, which of five chains its callers    *)
(* pass: nobody or the other extension, above what was there before us; or *)
(* us, alone, below it or above it.  Which one a shutdown in progress      *)
(* leaves depends on the step it has reached.                              *)
(***************************************************************************)
EXTENDS Install, SequenceTheorems, TLAPS

(* The step that is next. *)
At == IF todo = <<>> THEN "end" ELSE Head(todo)

Shutdowns ==
    {<<"hooks", "crash", "interrupt", "storage", "timer", "sigstack", "crumbs">>,
     <<"crash", "interrupt", "storage", "timer", "sigstack", "crumbs">>,
     <<"interrupt", "storage", "timer", "sigstack", "crumbs">>,
     <<"storage", "timer", "sigstack", "crumbs">>,
     <<"timer", "sigstack", "crumbs">>,
     <<"sigstack", "crumbs">>,
     <<"crumbs">>}

(* What can be left of a startup that has passed cbox_crumbs_init: without *)
(* the profiler, and with it.                                              *)
Finals == {<<>>, <<"active">>, <<"crash", "active">>}

Profiles ==
    {<<"storage", "timer", "backend", "interrupt", "active">>,
     <<"timer", "backend", "interrupt", "active">>,
     <<"backend", "interrupt", "active">>,
     <<"interrupt", "active">>,
     <<"storage", "timer", "backend", "interrupt", "crash", "active">>,
     <<"timer", "backend", "interrupt", "crash", "active">>,
     <<"backend", "interrupt", "crash", "active">>,
     <<"interrupt", "crash", "active">>}

WholeProfiles ==
    {<<"crumbs", "storage", "timer", "backend", "interrupt", "active">>,
     <<"crumbs", "storage", "timer", "backend", "interrupt", "crash", "active">>}

Wholes == {<<"crumbs", "active">>, <<"crumbs", "crash", "active">>}

-----------------------------------------------------------------------------
(* The inductive invariant *)

(* Where startup or shutdown is. *)
ProgramInv ==
    /\ phase = "starting" => \/ todo \in Finals
                             \/ (todo \in Profiles \cup WholeProfiles /\ config.profiler)
                             \/ (todo \in Wholes /\ ~config.profiler)
    /\ phase \in {"up", "down"} => todo = <<>>
    /\ phase = "stopping" => todo \in Shutdowns

(* The head of a slot before us. *)
Bottom(s) == IF s \in placed["early"] THEN "early" ELSE "base"

(* The chain of a slot does not pass us. *)
Without(s) ==
    \/ entry[s] = Bottom(s) /\ s \notin placed["later"]
    \/ entry[s] = "later" /\ s \in placed["later"] /\ next["later"][s] = Bottom(s)

(* The chain of a slot passes us, at its head or next to it. *)
With(s) ==
    \/ entry[s] = "us" /\ next["us"][s] = Bottom(s) /\ s \notin placed["later"]
    \/ /\ entry[s] = "later" /\ s \in placed["later"]
       /\ next["later"][s] = "us" /\ next["us"][s] = Bottom(s)
    \/ /\ entry[s] = "us" /\ next["us"][s] = "later" /\ next["later"][s] = Bottom(s)
       /\ s \in placed["later"] /\ s \in Present

Intact(s) == \/ s \in placed["us"] /\ With(s)
             \/ s \notin placed["us"] /\ Without(s)

(* Nobody comes to us through the slot any more. *)
Left(s) == \/ entry[s] = Bottom(s)
           \/ entry[s] = "later" /\ next["later"][s] = Bottom(s)

Early == phase \in {"starting", "up"}
Before(steps) == Early \/ (phase = "stopping" /\ At \in steps)

(* The step of shutdown that undoes it is still to come. *)
HooksIn == Before({"hooks"})
CrashIn == Before({"hooks", "crash"})
InterruptIn == Before({"hooks", "crash", "interrupt"})
TimerIn == Before({"hooks", "crash", "interrupt", "storage", "timer"})

ChainInv ==
    /\ \A s \in Slots : next["early"][s] = "base"
    /\ \A s \in Present :
          IF HooksIn THEN Intact(s)
          ELSE entry[s] # "us" /\ s \notin placed["us"] /\ (With(s) \/ Without(s))
    /\ IF CrashIn THEN Intact("crash")
       ELSE Left("crash") /\ "crash" \notin placed["us"]
    /\ IF InterruptIn THEN Intact("interrupt")
       ELSE entry["interrupt"] # "us"
    /\ IF TimerIn THEN Intact("timer")
       ELSE Left("timer") /\ "timer" \notin placed["us"]

(* A slot is taken once. *)
OnceInv ==
    /\ phase = "starting" => ~have.hooks_done /\ placed["later"] = {}
    /\ Early /\ ~have.hooks_done => placed["us"] \cap Present = {}
    /\ phase = "starting" /\ At \in {"crumbs", "storage", "timer"} => "timer" \notin placed["us"]
    /\ phase = "starting" /\ At \in {"crumbs", "storage", "timer", "backend", "interrupt"} =>
          "interrupt" \notin placed["us"]
    /\ phase = "starting" /\ At # "active" /\ At # "end" => "crash" \notin placed["us"]

(* A handler on the alternate stack has one. *)
StackInv ==
    /\ have.onstack # {} => have.stack # "none"
    /\ ~CrashIn => "crash" \notin have.onstack
    /\ ~TimerIn => "timer" \notin have.onstack

(* What the profiler has got so far, and what shutdown has left. *)
HoldInv ==
    /\ Early /\ config.profiler
          /\ (At \in {"timer", "backend", "interrupt", "crash", "active"} \/ have.active) =>
       have.storage
    /\ Early /\ config.profiler
          /\ (At \in {"backend", "interrupt", "crash", "active"} \/ have.active) =>
       have.thread \/ "timer" \in placed["us"]
    /\ Early /\ config.profiler /\ (At \in {"crash", "active"} \/ have.active) =>
       "interrupt" \in placed["us"]
    /\ phase = "starting" /\ have.active => todo = <<>>
    /\ (phase = "stopping" /\ At \in {"timer", "sigstack", "crumbs"}) \/ phase = "down" =>
       ~have.storage
    /\ (phase = "stopping" /\ At \in {"sigstack", "crumbs"}) \/ phase = "down" => ~have.thread
    /\ (phase = "stopping" /\ At = "crumbs") \/ phase = "down" => have.stack = "none"
    /\ phase = "down" => ~have.crumbs

IInv ==
    /\ TypeOK
    /\ ProgramInv
    /\ ChainInv
    /\ OnceInv
    /\ StackInv
    /\ HoldInv

-----------------------------------------------------------------------------
(* Lemmas about programs *)

(* A step of shutdown leads to the next one. *)
LEMMA ShutdownFlow ==
    ASSUME todo \in Shutdowns
    PROVE  /\ todo # <<>> /\ At = Head(todo)
           /\ At \in {"hooks", "crash", "interrupt", "storage", "timer", "sigstack", "crumbs"}
           /\ todo' = Tail(todo) =>
                /\ At = "hooks" => todo' \in Shutdowns /\ At' = "crash"
                /\ At = "crash" => todo' \in Shutdowns /\ At' = "interrupt"
                /\ At = "interrupt" => todo' \in Shutdowns /\ At' = "storage"
                /\ At = "storage" => todo' \in Shutdowns /\ At' = "timer"
                /\ At = "timer" => todo' \in Shutdowns /\ At' = "sigstack"
                /\ At = "sigstack" => todo' \in Shutdowns /\ At' = "crumbs"
                /\ At = "crumbs" => todo' = <<>>
<1>1. CASE todo = <<"hooks", "crash", "interrupt", "storage", "timer", "sigstack", "crumbs">>
  <2>1. todo' = Tail(todo) => todo' = <<"crash", "interrupt", "storage", "timer", "sigstack", "crumbs">>
    BY <1>1
  <2>2. QED
    BY <1>1, <2>1 DEF At, Shutdowns
<1>2. CASE todo = <<"crash", "interrupt", "storage", "timer", "sigstack", "crumbs">>
  <2>1. todo' = Tail(todo) => todo' = <<"interrupt", "storage", "timer", "sigstack", "crumbs">>
    BY <1>2
  <2>2. QED
    BY <1>2, <2>1 DEF At, Shutdowns
<1>3. CASE todo = <<"interrupt", "storage", "timer", "sigstack", "crumbs">>
  <2>1. todo' = Tail(todo) => todo' = <<"storage", "timer", "sigstack", "crumbs">>
    BY <1>3
  <2>2. QED
    BY <1>3, <2>1 DEF At, Shutdowns
<1>4. CASE todo = <<"storage", "timer", "sigstack", "crumbs">>
  <2>1. todo' = Tail(todo) => todo' = <<"timer", "sigstack", "crumbs">>
    BY <1>4
  <2>2. QED
    BY <1>4, <2>1 DEF At, Shutdowns
<1>5. CASE todo = <<"timer", "sigstack", "crumbs">>
  <2>1. todo' = Tail(todo) => todo' = <<"sigstack", "crumbs">>
    BY <1>5
  <2>2. QED
    BY <1>5, <2>1 DEF At, Shutdowns
<1>6. CASE todo = <<"sigstack", "crumbs">>
  <2>1. todo' = Tail(todo) => todo' = <<"crumbs">>
    BY <1>6
  <2>2. QED
    BY <1>6, <2>1 DEF At, Shutdowns
<1>7. CASE todo = <<"crumbs">>
  <2>1. todo' = Tail(todo) => todo' = <<>>
    BY <1>7
  <2>2. QED
    BY <1>7, <2>1 DEF At, Shutdowns
<1>8. QED
  BY <1>1, <1>2, <1>3, <1>4, <1>5, <1>6, <1>7 DEF Shutdowns

(* A step of startup leads to the next one. *)
LEMMA StartupFlow ==
    ASSUME ProgramInv, phase = "starting", todo # <<>>
    PROVE  /\ At = Head(todo)
           /\ At \in {"crumbs", "storage", "timer", "backend", "interrupt", "crash", "active"}
           /\ At \in {"storage", "timer", "backend", "interrupt"} => config.profiler
           /\ todo' = Tail(todo) =>
                /\ At = "crumbs" /\ config.profiler => todo' \in Profiles /\ At' = "storage"
                /\ At = "crumbs" /\ ~config.profiler =>
                      todo' \in Finals /\ At' \in {"crash", "active"}
                /\ At = "storage" => todo' \in Profiles /\ At' = "timer"
                /\ At = "timer" => todo' \in Profiles /\ At' = "backend"
                /\ At = "backend" => todo' \in Profiles /\ At' = "interrupt"
                /\ At = "interrupt" => todo' \in Finals /\ At' \in {"crash", "active"}
                /\ At = "crash" => todo' \in Finals /\ At' = "active"
                /\ At = "active" => todo' = <<>>
<1>1. CASE todo = <<"crumbs", "storage", "timer", "backend", "interrupt", "active">>
  <2>1. config.profiler
    BY <1>1 DEF ProgramInv, Finals, Wholes
  <2>2. todo' = Tail(todo) => todo' = <<"storage", "timer", "backend", "interrupt", "active">>
    BY <1>1
  <2>3. QED
    BY <1>1, <2>1, <2>2 DEF At, Profiles, Finals
<1>2. CASE todo = <<"storage", "timer", "backend", "interrupt", "active">>
  <2>1. config.profiler
    BY <1>2 DEF ProgramInv, Finals, Wholes
  <2>2. todo' = Tail(todo) => todo' = <<"timer", "backend", "interrupt", "active">>
    BY <1>2
  <2>3. QED
    BY <1>2, <2>1, <2>2 DEF At, Profiles, Finals
<1>3. CASE todo = <<"timer", "backend", "interrupt", "active">>
  <2>1. config.profiler
    BY <1>3 DEF ProgramInv, Finals, Wholes
  <2>2. todo' = Tail(todo) => todo' = <<"backend", "interrupt", "active">>
    BY <1>3
  <2>3. QED
    BY <1>3, <2>1, <2>2 DEF At, Profiles, Finals
<1>4. CASE todo = <<"backend", "interrupt", "active">>
  <2>1. config.profiler
    BY <1>4 DEF ProgramInv, Finals, Wholes
  <2>2. todo' = Tail(todo) => todo' = <<"interrupt", "active">>
    BY <1>4
  <2>3. QED
    BY <1>4, <2>1, <2>2 DEF At, Profiles, Finals
<1>5. CASE todo = <<"interrupt", "active">>
  <2>1. config.profiler
    BY <1>5 DEF ProgramInv, Finals, Wholes
  <2>2. todo' = Tail(todo) => todo' = <<"active">>
    BY <1>5
  <2>3. QED
    BY <1>5, <2>1, <2>2 DEF At, Profiles, Finals
<1>6. CASE todo = <<"crumbs", "storage", "timer", "backend", "interrupt", "crash", "active">>
  <2>1. config.profiler
    BY <1>6 DEF ProgramInv, Finals, Wholes
  <2>2. todo' = Tail(todo) => todo' = <<"storage", "timer", "backend", "interrupt", "crash", "active">>
    BY <1>6
  <2>3. QED
    BY <1>6, <2>1, <2>2 DEF At, Profiles, Finals
<1>7. CASE todo = <<"storage", "timer", "backend", "interrupt", "crash", "active">>
  <2>1. config.profiler
    BY <1>7 DEF ProgramInv, Finals, Wholes
  <2>2. todo' = Tail(todo) => todo' = <<"timer", "backend", "interrupt", "crash", "active">>
    BY <1>7
  <2>3. QED
    BY <1>7, <2>1, <2>2 DEF At, Profiles, Finals
<1>8. CASE todo = <<"timer", "backend", "interrupt", "crash", "active">>
  <2>1. config.profiler
    BY <1>8 DEF ProgramInv, Finals, Wholes
  <2>2. todo' = Tail(todo) => todo' = <<"backend", "interrupt", "crash", "active">>
    BY <1>8
  <2>3. QED
    BY <1>8, <2>1, <2>2 DEF At, Profiles, Finals
<1>9. CASE todo = <<"backend", "interrupt", "crash", "active">>
  <2>1. config.profiler
    BY <1>9 DEF ProgramInv, Finals, Wholes
  <2>2. todo' = Tail(todo) => todo' = <<"interrupt", "crash", "active">>
    BY <1>9
  <2>3. QED
    BY <1>9, <2>1, <2>2 DEF At, Profiles, Finals
<1>10. CASE todo = <<"interrupt", "crash", "active">>
  <2>1. config.profiler
    BY <1>10 DEF ProgramInv, Finals, Wholes
  <2>2. todo' = Tail(todo) => todo' = <<"crash", "active">>
    BY <1>10
  <2>3. QED
    BY <1>10, <2>1, <2>2 DEF At, Profiles, Finals
<1>11. CASE todo = <<"crumbs", "active">>
  <2>1. ~config.profiler
    BY <1>11 DEF ProgramInv, Finals, Profiles, WholeProfiles
  <2>2. todo' = Tail(todo) => todo' = <<"active">>
    BY <1>11
  <2>3. QED
    BY <1>11, <2>1, <2>2 DEF At, Profiles, Finals
<1>12. CASE todo = <<"crumbs", "crash", "active">>
  <2>1. ~config.profiler
    BY <1>12 DEF ProgramInv, Finals, Profiles, WholeProfiles
  <2>2. todo' = Tail(todo) => todo' = <<"crash", "active">>
    BY <1>12
  <2>3. QED
    BY <1>12, <2>1, <2>2 DEF At, Profiles, Finals
<1>13. CASE todo = <<"active">>
  <2>1. todo' = Tail(todo) => todo' = <<>>
    BY <1>13
  <2>2. QED
    BY <1>13, <2>1 DEF At, Profiles, Finals
<1>14. CASE todo = <<"crash", "active">>
  <2>1. todo' = Tail(todo) => todo' = <<"active">>
    BY <1>14
  <2>2. QED
    BY <1>14, <2>1 DEF At, Profiles, Finals
<1>15. QED
  BY <1>1, <1>2, <1>3, <1>4, <1>5, <1>6, <1>7, <1>8, <1>9, <1>10, <1>11, <1>12, <1>13, <1>14
  DEF ProgramInv, Finals, Profiles, WholeProfiles, Wholes

-----------------------------------------------------------------------------
(* Lemmas about chains *)

(* Whoever is called along a chain is reached. *)
LEMMA ReachedAlong ==
    ASSUME NEW s,
           NEW a, a = entry[s],
           NEW b, b = (IF a \in Actors THEN next[a][s] ELSE a),
           NEW c, c = (IF b \in Actors THEN next[b][s] ELSE b),
           NEW d, d = (IF c \in Actors THEN next[c][s] ELSE c)
    PROVE  {a, b, c, d} \subseteq Reached(s)
<1> DEFINE Called(S) == S \cup {next[x][s] : x \in S \cap Actors}
           R0 == {entry[s]}
           R1 == Called(R0)
           R2 == Called(R1)
           R3 == Called(R2)
<1>1. a \in R0
  OBVIOUS
<1>2. a \in R1 /\ b \in R1
  BY <1>1
<1>3. R1 \subseteq R2 /\ c \in R2
  <2>1. \A x \in R1 \cap Actors : next[x][s] \in R2
    OBVIOUS
  <2>2. R1 \subseteq R2
    OBVIOUS
  <2> HIDE DEF R1, R2
  <2>3. QED
    BY <1>2, <2>1, <2>2
<1>4. R2 \subseteq R3 /\ d \in R3
  <2>1. \A x \in R2 \cap Actors : next[x][s] \in R3
    OBVIOUS
  <2>2. R2 \subseteq R3
    OBVIOUS
  <2> HIDE DEF R1, R2, R3
  <2>3. QED
    BY <1>3, <2>1, <2>2
<1>5. Reached(s) = R3
  BY DEF Reached
<1> HIDE DEF R0, R1, R2, R3
<1>6. QED
  BY <1>2, <1>3, <1>4, <1>5

(* Nobody outside of a set that a chain enters and does not leave is       *)
(* reached.                                                                *)
LEMMA ReachedWithin ==
    ASSUME NEW s, NEW T, entry[s] \in T, \A a \in T \cap Actors : next[a][s] \in T
    PROVE  Reached(s) \subseteq T
<1> DEFINE Called(S) == S \cup {next[x][s] : x \in S \cap Actors}
<1>1. ASSUME NEW S, S \subseteq T
      PROVE  Called(S) \subseteq T
  BY <1>1
<1>2. {entry[s]} \subseteq T
  OBVIOUS
<1>3. Reached(s) = Called(Called(Called({entry[s]})))
  BY DEF Reached
<1> HIDE DEF Called
<1>4. QED
  BY <1>1, <1>2, <1>3

(* A chain passes everyone who is in it and ends at the original. *)
LEMMA ChainReaches ==
    ASSUME NEW s, next["early"][s] = "base", Without(s) \/ With(s)
    PROVE  /\ "base" \in Reached(s)
           /\ s \in placed["early"] => "early" \in Reached(s)
           /\ s \in placed["later"] => "later" \in Reached(s)
           /\ With(s) => "us" \in Reached(s)
<1> DEFINE a == entry[s]
           b == IF a \in Actors THEN next[a][s] ELSE a
           c == IF b \in Actors THEN next[b][s] ELSE b
           d == IF c \in Actors THEN next[c][s] ELSE c
<1>1. {a, b, c, d} \subseteq Reached(s)
  <2> HIDE DEF a, b, c, d
  <2>1. /\ a = entry[s]
        /\ b = IF a \in Actors THEN next[a][s] ELSE a
        /\ c = IF b \in Actors THEN next[b][s] ELSE b
        /\ d = IF c \in Actors THEN next[c][s] ELSE c
    BY DEF a, b, c, d
  <2>2. QED
    BY <2>1, ReachedAlong
<1>2. /\ "base" \in {a, b, c, d}
      /\ s \in placed["early"] => "early" \in {a, b, c, d}
      /\ s \in placed["later"] => "later" \in {a, b, c, d}
      /\ With(s) => "us" \in {a, b, c, d}
  BY DEF Without, With, Bottom, Actors
<1>3. QED
  BY <1>1, <1>2

(* A slot we have left does not reach us. *)
LEMMA LeftMisses ==
    ASSUME NEW s, next["early"][s] = "base", Left(s)
    PROVE  "us" \notin Reached(s)
<1> DEFINE T == {"early", "base"} \cup {x \in {"later"} : next[x][s] = Bottom(s)}
<1>1. entry[s] \in T
  BY DEF Left, Bottom
<1>2. \A a \in T \cap Actors : next[a][s] \in T
  BY DEF Bottom, Actors
<1>3. "us" \notin T
  OBVIOUS
<1> HIDE DEF T
<1>4. Reached(s) \subseteq T
  BY <1>1, <1>2, ReachedWithin
<1>5. QED
  BY <1>3, <1>4

(* Nothing happens to the slot s. *)
Same(s) ==
    /\ entry'[s] = entry[s]
    /\ \A a \in Actors : next'[a][s] = next[a][s] /\ (s \in placed'[a] <=> s \in placed[a])

LEMMA SameChain ==
    ASSUME NEW s, Same(s)
    PROVE  /\ With(s) => With(s)'
           /\ Without(s) => Without(s)'
           /\ Intact(s) => Intact(s)'
           /\ Left(s) => Left(s)'
<1>1. Bottom(s)' = Bottom(s)
  BY DEF Same, Actors, Bottom
<1>2. With(s)' <=> With(s)
  BY <1>1 DEF Same, Actors, With
<1>3. Without(s)' <=> Without(s)
  BY <1>1 DEF Same, Actors, Without
<1>4. s \in placed'["us"] <=> s \in placed["us"]
  BY DEF Same, Actors
<1>5. Left(s) => Left(s)'
  BY <1>1 DEF Same, Actors, Left
<1>6. QED
  BY <1>2, <1>3, <1>4, <1>5 DEF Intact

(* We take the slot s, which the other extension may hold only if it is a  *)
(* function.                                                               *)
Ours(s) ==
    /\ entry'[s] = "us" /\ next'["us"][s] = entry[s] /\ s \in placed'["us"]
    /\ next'["later"][s] = next["later"][s]
    /\ \A a \in {"early", "later"} : s \in placed'[a] <=> s \in placed[a]

LEMMA TakenChain ==
    ASSUME NEW s, Intact(s), s \notin placed["us"], Ours(s),
           s \in placed["later"] => s \in Present
    PROVE  Intact(s)'
<1>1. Bottom(s)' = Bottom(s) /\ Bottom(s) \in {"early", "base"}
  BY DEF Ours, Bottom
<1>2. Without(s)
  BY DEF Intact
<1>3. With(s)'
  BY <1>1, <1>2 DEF Ours, With, Without
<1>4. QED
  BY <1>3 DEF Intact, Ours

-----------------------------------------------------------------------------
(* Every step preserves the invariant *)

LEMMA Kinds ==
    /\ Slots = Present \cup {"interrupt", "timer", "crash"}
    /\ \A s \in Present : s # "interrupt" /\ s # "timer" /\ s # "crash"
    /\ Present \subseteq Slots /\ {"interrupt", "timer", "crash"} \subseteq Slots
  BY InstallAssumption DEF Slots, SignalSlots

(* A step that leaves every slot alone, and what is still in. *)
LEMMA ChainKept ==
    ASSUME ChainInv, \A s \in Slots : Same(s),
           HooksIn' <=> HooksIn, CrashIn' <=> CrashIn,
           InterruptIn' <=> InterruptIn, TimerIn' <=> TimerIn
    PROVE  ChainInv'
<1>1. \A s \in Slots : next'["early"][s] = "base"
  BY DEF ChainInv, Same, Actors
<1>2. ASSUME NEW s \in Present
      PROVE  IF HooksIn' THEN Intact(s)'
             ELSE entry'[s] # "us" /\ s \notin placed'["us"] /\ (With(s)' \/ Without(s)')
  <2>1. s \in Slots /\ Same(s)
    BY Kinds
  <2>2. entry'[s] = entry[s] /\ (s \in placed'["us"] <=> s \in placed["us"])
    BY <2>1 DEF Same, Actors
  <2>3. IF HooksIn THEN Intact(s)
        ELSE entry[s] # "us" /\ s \notin placed["us"] /\ (With(s) \/ Without(s))
    BY DEF ChainInv
  <2>4. QED
    BY <2>1, <2>2, <2>3, SameChain
<1>3. ASSUME NEW s \in {"interrupt", "timer", "crash"}
      PROVE  /\ Intact(s) => Intact(s)'
             /\ Left(s) => Left(s)'
             /\ entry'[s] = entry[s] /\ (s \in placed'["us"] <=> s \in placed["us"])
  <2>1. Same(s)
    BY <1>3, Kinds
  <2>2. entry'[s] = entry[s] /\ (s \in placed'["us"] <=> s \in placed["us"])
    BY <2>1 DEF Same, Actors
  <2>3. QED
    BY <2>1, <2>2, SameChain
<1>4. IF CrashIn' THEN Intact("crash")' ELSE Left("crash")' /\ "crash" \notin placed'["us"]
  BY <1>3 DEF ChainInv
<1>5. IF InterruptIn' THEN Intact("interrupt")' ELSE entry'["interrupt"] # "us"
  BY <1>3 DEF ChainInv
<1>6. IF TimerIn' THEN Intact("timer")' ELSE Left("timer")' /\ "timer" \notin placed'["us"]
  BY <1>3 DEF ChainInv
<1>7. QED
  BY <1>1, <1>2, <1>4, <1>5, <1>6 DEF ChainInv

(* Before shutdown every slot is intact. *)
LEMMA EarlyChains ==
    ASSUME Early
    PROVE  /\ HooksIn /\ CrashIn /\ InterruptIn /\ TimerIn
           /\ ChainInv <=> \A s \in Slots : next["early"][s] = "base" /\ Intact(s)
<1>1. HooksIn /\ CrashIn /\ InterruptIn /\ TimerIn
  BY DEF HooksIn, CrashIn, InterruptIn, TimerIn, Before
<1>2. ChainInv => \A s \in Slots : next["early"][s] = "base" /\ Intact(s)
  BY <1>1, Kinds DEF ChainInv
<1>3. (\A s \in Slots : next["early"][s] = "base" /\ Intact(s)) => ChainInv
  BY <1>1, Kinds DEF ChainInv
<1>4. QED
  BY <1>1, <1>2, <1>3

(* No slot is touched. *)
LEMMA KeepsSame ==
    ASSUME Keeps, NEW s
    PROVE  Same(s)
  BY DEF Keeps, Same

(* Nothing happens to the slots before shutdown. *)
LEMMA EarlyKept ==
    ASSUME Early, Early', ChainInv, Keeps
    PROVE  ChainInv'
<1>1. /\ HooksIn' <=> HooksIn
      /\ CrashIn' <=> CrashIn
      /\ InterruptIn' <=> InterruptIn
      /\ TimerIn' <=> TimerIn
  BY DEF HooksIn, CrashIn, InterruptIn, TimerIn, Before
<1>2. QED
  BY <1>1, KeepsSame, ChainKept

(* Startup: what does not touch a slot. *)
LEMMA InitCrumbsStep ==
    ASSUME IInv, NEW ok \in BOOLEAN, InitCrumbs(ok)
    PROVE  IInv'
<1>1. /\ phase = "starting" /\ phase' = phase /\ config' = config
      /\ have' = [have EXCEPT !.crumbs = ok] /\ todo # <<>> /\ At = "crumbs"
      /\ UNCHANGED <<entry, next, placed>>
      /\ ok => todo' = Tail(todo)
      /\ ~ok => todo' = <<>>
  BY DEF InitCrumbs, Does, At
<1>2. /\ have' \in Have /\ have'.storage = have.storage /\ have'.active = have.active
      /\ have'.hooks_done = have.hooks_done /\ have'.thread = have.thread
      /\ have'.stack = have.stack /\ have'.onstack = have.onstack
  BY <1>1 DEF IInv, TypeOK, Have
<1>3. TypeOK' /\ placed' = placed
  BY <1>1, <1>2 DEF IInv, TypeOK
<1>4. /\ ProgramInv'
      /\ At' # "crumbs"
      /\ At' \in {"crash", "active"} => ~config.profiler
      /\ At' \in {"storage", "crash", "active", "end"}
  <2>1. CASE ok
    BY <1>1, <2>1, StartupFlow DEF IInv, ProgramInv
  <2>2. CASE ~ok
    BY <1>1, <2>2 DEF ProgramInv, At, Finals
  <2>3. QED
    BY <2>1, <2>2
<1>5. ~have.active
  BY <1>1 DEF IInv, HoldInv
<1>6. ChainInv'
  BY <1>1, EarlyKept DEF IInv, Early, Keeps
<1>7. OnceInv'
  BY <1>1, <1>2, <1>4 DEF IInv, OnceInv, Early
<1>8. Early /\ Early'
  BY <1>1 DEF Early
<1>9. StackInv'
  BY <1>2, <1>8, EarlyChains DEF IInv, StackInv, CrashIn, TimerIn, Before
<1>10. HoldInv'
  BY <1>1, <1>2, <1>4, <1>5 DEF HoldInv
<1>11. QED
  BY <1>3, <1>4, <1>6, <1>7, <1>9, <1>10 DEF IInv

LEMMA WithoutProfilerIs == WithoutProfiler \in {<<"active">>, <<"crash", "active">>}
  BY DEF WithoutProfiler

(* What is left when the profiler is given up. *)
LEMMA GivenUp ==
    ASSUME phase' = "starting", todo' = WithoutProfiler
    PROVE  ProgramInv' /\ At' \in {"crash", "active"}
<1>1. todo' \in Finals
  BY WithoutProfilerIs DEF Finals
<1>2. At' \in {"crash", "active"}
  BY WithoutProfilerIs DEF At
<1>3. QED
  BY <1>1, <1>2 DEF ProgramInv

LEMMA InitStorageStep ==
    ASSUME IInv, NEW ok \in BOOLEAN, InitStorage(ok)
    PROVE  IInv'
<1>1. /\ phase = "starting" /\ phase' = phase /\ config' = [config EXCEPT !.profiler = ok]
      /\ have' = [have EXCEPT !.storage = ok] /\ todo # <<>> /\ At = "storage"
      /\ UNCHANGED <<entry, next, placed>>
      /\ ok => todo' = Tail(todo)
      /\ ~ok => todo' = WithoutProfiler
  BY DEF InitStorage, Does, At, Keeps
<1>2. /\ have' \in Have /\ have'.storage = ok /\ have'.active = have.active
      /\ have'.hooks_done = have.hooks_done /\ have'.thread = have.thread
      /\ have'.stack = have.stack /\ have'.onstack = have.onstack
  BY <1>1 DEF IInv, TypeOK, Have
<1>3. config' \in Config /\ config'.profiler = ok
  BY <1>1 DEF IInv, TypeOK, Config
<1>4. TypeOK' /\ placed' = placed
  BY <1>1, <1>2, <1>3 DEF IInv, TypeOK
<1>5. /\ ProgramInv'
      /\ At' \in {"timer", "crash", "active"}
      /\ At' \in {"crash", "active"} => ~ok
  <2>1. CASE ok
    BY <1>1, <1>3, <2>1, StartupFlow DEF IInv, ProgramInv
  <2>2. CASE ~ok
    BY <1>1, <2>2, GivenUp
  <2>3. QED
    BY <2>1, <2>2
<1>6. ~have.active
  BY <1>1 DEF IInv, HoldInv
<1>7. ChainInv'
  BY <1>1, EarlyKept DEF IInv, Early, Keeps
<1>8. OnceInv'
  BY <1>1, <1>2, <1>5 DEF IInv, OnceInv, Early
<1>9. Early /\ Early'
  BY <1>1 DEF Early
<1>10. StackInv'
  BY <1>2, <1>9, EarlyChains DEF IInv, StackInv, CrashIn, TimerIn, Before
<1>11. HoldInv'
  BY <1>1, <1>2, <1>3, <1>5, <1>6 DEF HoldInv
<1>12. QED
  BY <1>4, <1>5, <1>7, <1>8, <1>10, <1>11 DEF IInv

(* We take a slot that is not a function during startup. *)
LEMMA TakesStep ==
    ASSUME IInv, phase = "starting", phase' = "starting",
           NEW s \in {"interrupt", "timer", "crash"}, s \notin placed["us"], Takes("us", s)
    PROVE  /\ ChainInv'
           /\ entry' \in [Slots -> Actors \cup {"base"}]
           /\ next' \in [Actors -> [Slots -> Actors \cup {"base"}]]
           /\ placed' \in [Actors -> SUBSET Slots]
           /\ placed'["us"] = placed["us"] \cup {s}
           /\ placed'["later"] = placed["later"]
<1>1. /\ entry \in [Slots -> Actors \cup {"base"}]
      /\ next \in [Actors -> [Slots -> Actors \cup {"base"}]]
      /\ placed \in [Actors -> SUBSET Slots]
      /\ s \in Slots /\ "us" \in Actors /\ entry[s] \in Actors \cup {"base"}
  BY Kinds DEF IInv, TypeOK, Actors
<1>2. /\ next' = [next EXCEPT !["us"][s] = entry[s]]
      /\ entry' = [entry EXCEPT ![s] = "us"]
      /\ placed' = [placed EXCEPT !["us"] = @ \cup {s}]
  BY DEF Takes
<1>3. /\ entry' \in [Slots -> Actors \cup {"base"}]
      /\ entry'[s] = "us"
      /\ \A t \in Slots : t # s => entry'[t] = entry[t]
  BY <1>1, <1>2
<1>4. /\ next' \in [Actors -> [Slots -> Actors \cup {"base"}]]
      /\ next'["us"][s] = entry[s]
      /\ \A a \in Actors : \A t \in Slots : a # "us" \/ t # s => next'[a][t] = next[a][t]
  BY <1>1, <1>2
<1>5. /\ placed' \in [Actors -> SUBSET Slots]
      /\ placed'["us"] = placed["us"] \cup {s}
      /\ placed'["later"] = placed["later"] /\ placed'["early"] = placed["early"]
  BY <1>1, <1>2 DEF Actors
<1>6. Early /\ Early'
  BY DEF Early
<1>7. \A t \in Slots : next["early"][t] = "base" /\ Intact(t)
  BY <1>6, EarlyChains DEF IInv
<1>8. ASSUME NEW t \in Slots
      PROVE  next'["early"][t] = "base" /\ Intact(t)'
  <2>1. next'["early"][t] = "base"
    BY <1>4, <1>7 DEF Actors
  <2>2. CASE t = s
    <3>1. Ours(s)
      BY <1>1, <1>3, <1>4, <1>5 DEF Ours, Actors
    <3>2. s \notin placed["later"]
      BY DEF IInv, OnceInv
    <3>3. QED
      BY <1>1, <1>7, <2>1, <2>2, <3>1, <3>2, TakenChain
  <2>3. CASE t # s
    <3>1. Same(t)
      BY <1>3, <1>4, <1>5, <2>3 DEF Same, Actors
    <3>2. QED
      BY <1>7, <2>1, <3>1, SameChain
  <2>4. QED
    BY <2>2, <2>3
<1>9. ChainInv'
  <2>1. HooksIn' /\ CrashIn' /\ InterruptIn' /\ TimerIn'
    BY <1>6 DEF HooksIn, CrashIn, InterruptIn, TimerIn, Before
  <2>2. QED
    BY <1>8, <2>1, Kinds DEF ChainInv
<1>10. QED
  BY <1>3, <1>4, <1>5, <1>9

(* The alternate stack and what is on it. *)
LEMMA TakesSignalStep ==
    ASSUME IInv, phase = "starting", phase' = "starting",
           NEW s \in SignalSlots, s \notin placed["us"],
           NEW stacked \in BOOLEAN, NEW ok \in BOOLEAN, TakesSignal(s, stacked, ok)
    PROVE  /\ ChainInv' /\ StackInv'
           /\ entry' \in [Slots -> Actors \cup {"base"}]
           /\ next' \in [Actors -> [Slots -> Actors \cup {"base"}]]
           /\ placed' \in [Actors -> SUBSET Slots]
           /\ ok => placed'["us"] = placed["us"] \cup {s}
           /\ ~ok => placed'["us"] = placed["us"]
           /\ placed'["later"] = placed["later"]
           /\ have' \in Have /\ have'.storage = have.storage /\ have'.active = have.active
           /\ have'.hooks_done = have.hooks_done /\ have'.thread = have.thread
<1> DEFINE k == EnsuredStack(stacked)
           o == IF ok /\ k # "none" THEN have.onstack \cup {s} ELSE have.onstack
<1>1. have \in Have /\ have.stack \in {"none", "ours", "theirs"} /\ have.onstack \subseteq SignalSlots
  BY DEF IInv, TypeOK, Have
<1>2. k \in {"none", "ours", "theirs"} /\ (have.stack # "none" => k # "none")
  BY <1>1 DEF EnsuredStack
<1>3. have' = [have EXCEPT !.stack = k, !.onstack = o]
  BY DEF TakesSignal
<1> HIDE DEF k
<1>4. o \subseteq SignalSlots /\ (o # {} => k # "none")
  BY <1>1, <1>2 DEF IInv, StackInv
<1> HIDE DEF o
<1>5. /\ have' \in Have /\ have'.storage = have.storage /\ have'.active = have.active
      /\ have'.hooks_done = have.hooks_done /\ have'.thread = have.thread
      /\ have'.stack = k /\ have'.onstack = o
  BY <1>1, <1>2, <1>3, <1>4 DEF Have
<1>6. StackInv'
  BY <1>4, <1>5 DEF StackInv, CrashIn, TimerIn, Before, Early
<1>7. CASE ok
  <2>1. Takes("us", s) /\ s \in {"interrupt", "timer", "crash"}
    BY <1>7 DEF TakesSignal, SignalSlots
  <2>2. QED
    BY <1>5, <1>6, <1>7, <2>1, TakesStep
<1>8. CASE ~ok
  <2>1. UNCHANGED <<entry, next, placed>>
    BY <1>8 DEF TakesSignal, Keeps
  <2>2. ChainInv'
    BY <2>1, EarlyKept DEF IInv, Early, Keeps
  <2>3. QED
    BY <1>5, <1>6, <1>8, <2>1, <2>2 DEF IInv, TypeOK
<1>9. QED
  BY <1>7, <1>8

LEMMA InitTimerStep ==
    ASSUME IInv, NEW stacked \in BOOLEAN, NEW ok \in BOOLEAN, InitTimer(stacked, ok)
    PROVE  IInv'
<1>1. /\ phase = "starting" /\ phase' = "starting" /\ config' = [config EXCEPT !.profiler = ok]
      /\ todo # <<>> /\ At = "timer"
      /\ ok => todo' = Tail(todo)
      /\ ~ok => todo' = WithoutProfiler
  BY DEF InitTimer, Does, At, EnabledIf
<1>2. config' \in Config /\ config'.profiler = ok
  BY <1>1 DEF IInv, TypeOK, Config
<1>3. /\ ProgramInv'
      /\ At' \in {"backend", "crash", "active"}
      /\ At' \in {"crash", "active"} => ~ok
  <2>1. CASE ok
    BY <1>1, <1>2, <2>1, StartupFlow DEF IInv, ProgramInv
  <2>2. CASE ~ok
    BY <1>1, <2>2, GivenUp
  <2>3. QED
    BY <2>1, <2>2
<1>4. ~have.active /\ have.storage /\ "timer" \notin placed["us"] /\ "interrupt" \notin placed["us"]
      /\ "crash" \notin placed["us"]
  <2>1. config.profiler
    BY <1>1, StartupFlow DEF IInv
  <2>2. QED
    BY <1>1, <2>1 DEF IInv, HoldInv, OnceInv, Early
<1>5. /\ ChainInv' /\ StackInv'
      /\ entry' \in [Slots -> Actors \cup {"base"}]
      /\ next' \in [Actors -> [Slots -> Actors \cup {"base"}]]
      /\ placed' \in [Actors -> SUBSET Slots]
      /\ ok => have'.thread \/ "timer" \in placed'["us"]
      /\ placed'["us"] \in {placed["us"], placed["us"] \cup {"timer"}}
      /\ placed'["later"] = placed["later"]
      /\ have' \in Have /\ have'.storage = have.storage /\ have'.active = have.active
      /\ have'.hooks_done = have.hooks_done
  <2>1. CASE config.cpu_time
    <3>1. TakesSignal("timer", stacked, ok) /\ "timer" \in SignalSlots
      BY <2>1 DEF InitTimer, SignalSlots
    <3>2. QED
      BY <1>1, <1>4, <3>1, TakesSignalStep
  <2>2. CASE ~config.cpu_time
    <3>1. UNCHANGED <<entry, next, placed>> /\ have' = [have EXCEPT !.thread = ok]
      BY <2>2 DEF InitTimer, Keeps
    <3>2. /\ have' \in Have /\ have'.storage = have.storage /\ have'.active = have.active
          /\ have'.hooks_done = have.hooks_done /\ have'.thread = ok
          /\ have'.stack = have.stack /\ have'.onstack = have.onstack
      BY <3>1 DEF IInv, TypeOK, Have
    <3>3. ChainInv'
      BY <1>1, <3>1, EarlyKept DEF IInv, Early, Keeps
    <3>4. StackInv'
      BY <1>1, <3>2 DEF IInv, StackInv, CrashIn, TimerIn, Before, Early
    <3>5. QED
      BY <3>1, <3>2, <3>3, <3>4 DEF IInv, TypeOK
  <2>3. QED
    BY <2>1, <2>2
<1>6. TypeOK'
  BY <1>1, <1>2, <1>5 DEF TypeOK
<1>7. OnceInv'
  BY <1>1, <1>3, <1>4, <1>5, Kinds DEF IInv, OnceInv, Early
<1>8. HoldInv'
  BY <1>1, <1>2, <1>3, <1>4, <1>5 DEF HoldInv
<1>9. QED
  BY <1>3, <1>5, <1>6, <1>7, <1>8 DEF IInv

LEMMA CheckBackendStep ==
    ASSUME IInv, CheckBackend
    PROVE  IInv'
<1>1. /\ phase = "starting" /\ phase' = "starting" /\ todo # <<>> /\ At = "backend"
      /\ UNCHANGED <<entry, next, placed>>
      /\ \/ /\ todo' = Tail(todo) /\ UNCHANGED <<have, config>>
         \/ /\ todo' = WithoutProfiler
            /\ have' = [have EXCEPT !.thread = FALSE]
            /\ config' = [config EXCEPT !.profiler = FALSE]
  BY DEF CheckBackend, Does, At, Keeps
<1>2. /\ have' \in Have /\ have'.storage = have.storage /\ have'.active = have.active
      /\ have'.hooks_done = have.hooks_done
      /\ have'.stack = have.stack /\ have'.onstack = have.onstack
  BY <1>1 DEF IInv, TypeOK, Have
<1>3. /\ config' \in Config
      /\ \/ have' = have /\ config' = config /\ todo' = Tail(todo)
         \/ ~config'.profiler /\ todo' = WithoutProfiler
  BY <1>1 DEF IInv, TypeOK, Config
<1>4. TypeOK'
  BY <1>1, <1>2, <1>3 DEF IInv, TypeOK
<1>5. /\ ProgramInv'
      /\ \/ have' = have /\ config' = config /\ At' = "interrupt"
         \/ ~config'.profiler /\ At' \in {"crash", "active"}
  <2>1. CASE have' = have /\ config' = config /\ todo' = Tail(todo)
    BY <1>1, <2>1, StartupFlow DEF IInv, ProgramInv
  <2>2. CASE ~config'.profiler /\ todo' = WithoutProfiler
    BY <1>1, <2>2, GivenUp
  <2>3. QED
    BY <1>3, <2>1, <2>2
<1>6. ~have.active
  BY <1>1 DEF IInv, HoldInv
<1>7. ChainInv'
  BY <1>1, EarlyKept DEF IInv, Early, Keeps
<1>8. OnceInv'
  BY <1>1, <1>2, <1>5 DEF IInv, OnceInv, Early
<1>9. StackInv'
  BY <1>1, <1>2 DEF IInv, StackInv, CrashIn, TimerIn, Before, Early
<1>10. HoldInv'
  BY <1>1, <1>2, <1>5, <1>6 DEF IInv, HoldInv, Early
<1>11. QED
  BY <1>4, <1>5, <1>7, <1>8, <1>9, <1>10 DEF IInv

LEMMA InstallInterruptStep ==
    ASSUME IInv, InstallInterrupt
    PROVE  IInv'
<1>1. /\ phase = "starting" /\ phase' = "starting" /\ todo # <<>> /\ At = "interrupt"
      /\ Takes("us", "interrupt") /\ todo' = Tail(todo) /\ UNCHANGED <<have, config>>
  BY DEF InstallInterrupt, Does, At
<1>2. ~have.active /\ "interrupt" \notin placed["us"] /\ config.profiler
  BY <1>1, StartupFlow DEF IInv, HoldInv, OnceInv
<1>3. /\ ChainInv'
      /\ entry' \in [Slots -> Actors \cup {"base"}]
      /\ next' \in [Actors -> [Slots -> Actors \cup {"base"}]]
      /\ placed' \in [Actors -> SUBSET Slots]
      /\ placed'["us"] = placed["us"] \cup {"interrupt"}
      /\ placed'["later"] = placed["later"]
  BY <1>1, <1>2, TakesStep
<1>4. TypeOK'
  BY <1>1, <1>3 DEF IInv, TypeOK
<1>5. ProgramInv' /\ At' \in {"crash", "active"}
  BY <1>1, StartupFlow DEF IInv, ProgramInv
<1>6. OnceInv'
  BY <1>1, <1>3, <1>5, Kinds DEF IInv, OnceInv, Early
<1>7. StackInv'
  BY <1>1 DEF IInv, StackInv, CrashIn, TimerIn, Before, Early
<1>8. HoldInv'
  BY <1>1, <1>2, <1>3, <1>5 DEF IInv, HoldInv, Early
<1>9. QED
  BY <1>3, <1>4, <1>5, <1>6, <1>7, <1>8 DEF IInv

LEMMA InstallCrashStep ==
    ASSUME IInv, NEW stacked \in BOOLEAN, NEW ok \in BOOLEAN, InstallCrash(stacked, ok)
    PROVE  IInv'
<1>1. /\ phase = "starting" /\ phase' = "starting" /\ config' = config
      /\ todo # <<>> /\ At = "crash" /\ todo' = Tail(todo)
      /\ TakesSignal("crash", stacked, ok) \/ (Keeps /\ have' = have)
  BY DEF InstallCrash, Does, At
<1>2. ~have.active /\ "crash" \notin placed["us"]
  BY <1>1 DEF IInv, HoldInv, OnceInv
<1>3. /\ ChainInv' /\ StackInv'
      /\ entry' \in [Slots -> Actors \cup {"base"}]
      /\ next' \in [Actors -> [Slots -> Actors \cup {"base"}]]
      /\ placed' \in [Actors -> SUBSET Slots]
      /\ placed'["us"] \in {placed["us"], placed["us"] \cup {"crash"}}
      /\ placed'["later"] = placed["later"]
      /\ have' \in Have /\ have'.storage = have.storage /\ have'.active = have.active
      /\ have'.hooks_done = have.hooks_done /\ have'.thread = have.thread
  <2>1. CASE TakesSignal("crash", stacked, ok)
    <3>1. "crash" \in SignalSlots
      BY DEF SignalSlots
    <3>2. QED
      BY <1>1, <1>2, <2>1, <3>1, TakesSignalStep
  <2>2. CASE Keeps /\ have' = have
    <3>1. ChainInv'
      BY <1>1, <2>2, EarlyKept DEF IInv, Early
    <3>2. StackInv'
      BY <1>1, <2>2 DEF IInv, StackInv, CrashIn, TimerIn, Before, Early
    <3>3. QED
      BY <2>2, <3>1, <3>2 DEF IInv, TypeOK, Keeps
  <2>3. QED
    BY <1>1, <2>1, <2>2
<1>4. TypeOK'
  BY <1>1, <1>3 DEF IInv, TypeOK
<1>5. ProgramInv' /\ At' = "active"
  BY <1>1, StartupFlow DEF IInv, ProgramInv
<1>6. OnceInv'
  BY <1>1, <1>3, <1>5, Kinds DEF IInv, OnceInv, Early
<1>7. HoldInv'
  BY <1>1, <1>2, <1>3, <1>5 DEF IInv, HoldInv, Early
<1>8. QED
  BY <1>3, <1>4, <1>5, <1>6, <1>7 DEF IInv

LEMMA ActivateStep ==
    ASSUME IInv, Activate
    PROVE  IInv'
<1>1. /\ phase = "starting" /\ phase' = "starting" /\ todo # <<>> /\ At = "active"
      /\ have' = [have EXCEPT !.active = TRUE]
      /\ todo' = Tail(todo) /\ UNCHANGED <<entry, next, placed, config>>
  BY DEF Activate, Does, At
<1>2. /\ have' \in Have /\ have'.storage = have.storage /\ have'.active = TRUE
      /\ have'.hooks_done = have.hooks_done /\ have'.thread = have.thread
      /\ have'.stack = have.stack /\ have'.onstack = have.onstack
  BY <1>1 DEF IInv, TypeOK, Have
<1>3. TypeOK'
  BY <1>1, <1>2 DEF IInv, TypeOK
<1>4. todo' = <<>> /\ At' = "end"
  BY <1>1, StartupFlow DEF IInv, At
<1>5. ProgramInv'
  BY <1>1, <1>4 DEF ProgramInv, Finals
<1>6. ChainInv'
  BY <1>1, EarlyKept DEF IInv, Early, Keeps
<1>7. OnceInv'
  BY <1>1, <1>2, <1>4 DEF IInv, OnceInv, Early
<1>8. StackInv'
  BY <1>1, <1>2 DEF IInv, StackInv, CrashIn, TimerIn, Before, Early
<1>9. HoldInv'
  BY <1>1, <1>2, <1>4 DEF IInv, HoldInv, Early
<1>10. QED
  BY <1>3, <1>5, <1>6, <1>7, <1>8, <1>9 DEF IInv

(* Startup is over, or shutdown begins. *)
LEMMA StartedStep ==
    ASSUME IInv, Started
    PROVE  IInv'
<1>1. /\ phase = "starting" /\ phase' = "up" /\ todo = <<>>
      /\ UNCHANGED <<entry, next, placed, have, config, todo>>
  BY DEF Started
<1>2. At = "end" /\ At' = "end"
  BY <1>1 DEF At
<1>3. TypeOK' /\ ProgramInv'
  BY <1>1 DEF IInv, TypeOK, ProgramInv
<1>4. ChainInv'
  BY <1>1, EarlyKept DEF IInv, Early, Keeps
<1>5. OnceInv' /\ StackInv'
  BY <1>1, <1>2 DEF IInv, OnceInv, StackInv, CrashIn, TimerIn, Before, Early
<1>6. HoldInv'
  BY <1>1, <1>2 DEF IInv, HoldInv, Early
<1>7. QED
  BY <1>3, <1>4, <1>5, <1>6 DEF IInv

LEMMA MShutdownStep ==
    ASSUME IInv, MShutdown
    PROVE  IInv'
<1>1. /\ phase = "up" /\ phase' = "stopping" /\ todo' = ShutdownProgram
      /\ UNCHANGED <<entry, next, placed, have, config>>
  BY DEF MShutdown
<1>2. todo' \in Shutdowns /\ At' = "hooks"
  BY <1>1 DEF ShutdownProgram, Shutdowns, At
<1>3. TypeOK' /\ ProgramInv'
  BY <1>1, <1>2 DEF IInv, TypeOK, ProgramInv
<1>4. ChainInv'
  <2>1. /\ HooksIn' <=> HooksIn
        /\ CrashIn' <=> CrashIn
        /\ InterruptIn' <=> InterruptIn
        /\ TimerIn' <=> TimerIn
    BY <1>1, <1>2 DEF HooksIn, CrashIn, InterruptIn, TimerIn, Before, Early
  <2>2. \A s \in Slots : Same(s)
    BY <1>1 DEF Same
  <2>3. QED
    BY <2>1, <2>2, ChainKept DEF IInv
<1>5. OnceInv'
  BY <1>1, <1>2 DEF IInv, OnceInv, Early
<1>6. StackInv'
  BY <1>1, <1>2 DEF IInv, StackInv, CrashIn, TimerIn, Before, Early
<1>7. HoldInv'
  BY <1>1, <1>2 DEF HoldInv, Early
<1>8. QED
  BY <1>3, <1>4, <1>5, <1>6, <1>7 DEF IInv

(* While the extension is up, a step that changes slots keeps them intact. *)
LEMMA UpStep ==
    ASSUME IInv, phase = "up", UNCHANGED <<config, todo, phase>>,
           entry' \in [Slots -> Actors \cup {"base"}],
           next' \in [Actors -> [Slots -> Actors \cup {"base"}]],
           placed' \in [Actors -> SUBSET Slots],
           \A s \in Slots : next'["early"][s] = "base" /\ Intact(s)',
           placed["us"] \subseteq placed'["us"],
           have' \in Have, have'.storage = have.storage, have'.active = have.active,
           have'.thread = have.thread, have'.stack = have.stack, have'.onstack = have.onstack,
           ~have'.hooks_done => placed'["us"] \cap Present = {}
    PROVE  IInv'
<1>1. At' = At /\ Early'
  BY DEF At, Early
<1>2. TypeOK' /\ ProgramInv'
  BY DEF IInv, TypeOK, ProgramInv
<1>3. ChainInv'
  <2>1. HooksIn' /\ CrashIn' /\ InterruptIn' /\ TimerIn'
    BY <1>1 DEF HooksIn, CrashIn, InterruptIn, TimerIn, Before
  <2>2. QED
    BY <2>1, Kinds DEF ChainInv
<1>4. OnceInv'
  BY DEF OnceInv
<1>5. StackInv'
  BY DEF IInv, StackInv, CrashIn, TimerIn, Before, Early
<1>6. HoldInv'
  BY <1>1 DEF IInv, HoldInv, Early
<1>7. QED
  BY <1>2, <1>3, <1>4, <1>5, <1>6 DEF IInv

LEMMA LaterStep ==
    ASSUME IInv, NEW s \in Slots, LaterWraps(s) \/ LaterLeaves(s)
    PROVE  IInv'
<1>1. phase = "up" /\ UNCHANGED <<have, config, todo, phase>>
  BY DEF LaterWraps, LaterLeaves
<1>2. /\ entry \in [Slots -> Actors \cup {"base"}]
      /\ next \in [Actors -> [Slots -> Actors \cup {"base"}]]
      /\ placed \in [Actors -> SUBSET Slots]
      /\ Actors = {"early", "us", "later"}
      /\ have \in Have
  BY DEF IInv, TypeOK, Actors
<1>3. \A t \in Slots : next["early"][t] = "base" /\ Intact(t)
  BY <1>1, EarlyChains DEF IInv, Early
<1>4. ~have.hooks_done => placed["us"] \cap Present = {}
  BY <1>1 DEF IInv, OnceInv, Early
<1>5. CASE LaterWraps(s)
  <2>1. /\ next' = [next EXCEPT !["later"][s] = entry[s]]
        /\ entry' = [entry EXCEPT ![s] = "later"]
        /\ placed' = [placed EXCEPT !["later"] = @ \cup {s}]
        /\ s \notin placed["later"]
    BY <1>5 DEF LaterWraps, Takes
  <2>2. /\ entry' \in [Slots -> Actors \cup {"base"}]
        /\ entry'[s] = "later"
        /\ \A t \in Slots : t # s => entry'[t] = entry[t]
    BY <1>2, <2>1
  <2>3. /\ next' \in [Actors -> [Slots -> Actors \cup {"base"}]]
        /\ next'["later"][s] = entry[s]
        /\ \A a \in Actors : \A t \in Slots : a # "later" \/ t # s => next'[a][t] = next[a][t]
    BY <1>2, <2>1
  <2>4. /\ placed' \in [Actors -> SUBSET Slots]
        /\ placed'["later"] = placed["later"] \cup {s}
        /\ placed'["us"] = placed["us"] /\ placed'["early"] = placed["early"]
    BY <1>2, <2>1
  <2>5. ASSUME NEW t \in Slots
        PROVE  next'["early"][t] = "base" /\ Intact(t)'
    <3>1. next'["early"][t] = "base" /\ next'["us"][t] = next["us"][t]
      BY <1>2, <1>3, <2>3
    <3>2. CASE t = s
      <4>1. Bottom(s)' = Bottom(s)
        BY <2>4 DEF Bottom
      <4>2. With(s) => With(s)'
        BY <2>1, <2>2, <2>3, <2>4, <3>1, <3>2, <4>1 DEF With
      <4>3. Without(s) => Without(s)'
        BY <2>1, <2>2, <2>3, <2>4, <4>1 DEF Without
      <4>4. QED
        BY <1>3, <2>4, <3>1, <3>2, <4>2, <4>3 DEF Intact
    <3>3. CASE t # s
      <4>1. Same(t)
        BY <1>2, <2>2, <2>3, <2>4, <3>3 DEF Same
      <4>2. QED
        BY <1>3, <3>1, <4>1, SameChain
    <3>4. QED
      BY <3>2, <3>3
  <2>6. QED
    BY <1>1, <1>2, <1>4, <2>2, <2>3, <2>4, <2>5, UpStep
<1>6. CASE LaterLeaves(s)
  <2>1. /\ next' = next
        /\ entry' = [entry EXCEPT ![s] = next["later"][s]]
        /\ placed' = [placed EXCEPT !["later"] = @ \ {s}]
        /\ s \in placed["later"] /\ entry[s] = "later"
    BY <1>6 DEF LaterLeaves
  <2>2. /\ entry' \in [Slots -> Actors \cup {"base"}]
        /\ entry'[s] = next["later"][s]
        /\ \A t \in Slots : t # s => entry'[t] = entry[t]
    BY <1>2, <2>1
  <2>3. /\ placed' \in [Actors -> SUBSET Slots]
        /\ placed'["later"] = placed["later"] \ {s}
        /\ placed'["us"] = placed["us"] /\ placed'["early"] = placed["early"]
    BY <1>2, <2>1
  <2>4. ASSUME NEW t \in Slots
        PROVE  next'["early"][t] = "base" /\ Intact(t)'
    <3>1. next'["early"][t] = "base"
      BY <1>3, <2>1
    <3>2. CASE t = s
      <4>1. Bottom(s)' = Bottom(s) /\ s \notin placed'["later"]
        BY <2>3 DEF Bottom
      <4>2. With(s) => With(s)'
        BY <2>1, <2>2, <4>1 DEF With
      <4>3. Without(s) => Without(s)'
        BY <2>1, <2>2, <4>1 DEF Without
      <4>4. QED
        BY <1>3, <2>3, <3>1, <3>2, <4>2, <4>3 DEF Intact
    <3>3. CASE t # s
      <4>1. Same(t)
        BY <1>2, <2>1, <2>2, <2>3, <3>3 DEF Same
      <4>2. QED
        BY <1>3, <3>1, <4>1, SameChain
    <3>4. QED
      BY <3>2, <3>3
  <2>5. QED
    BY <1>1, <1>2, <1>4, <2>1, <2>2, <2>3, <2>4, UpStep
<1>7. QED
  BY <1>5, <1>6

(* The first request hooks the functions. *)
LEMMA RInitStep ==
    ASSUME IInv, RInit
    PROVE  IInv'
<1> DEFINE H == HookedNow
<1>1. /\ phase = "up" /\ UNCHANGED <<config, todo, phase>> /\ ~have.hooks_done
      /\ have' = [have EXCEPT !.hooks_done = TRUE]
      /\ next' = [next EXCEPT !["us"] = [s \in Slots |-> IF s \in H THEN entry[s] ELSE @[s]]]
      /\ entry' = [s \in Slots |-> IF s \in H THEN "us" ELSE entry[s]]
      /\ placed' = [placed EXCEPT !["us"] = @ \cup H]
  BY DEF RInit
<1>2. H \subseteq Present
  BY DEF HookedNow
<1> HIDE DEF H
<1>3. /\ entry \in [Slots -> Actors \cup {"base"}]
      /\ next \in [Actors -> [Slots -> Actors \cup {"base"}]]
      /\ placed \in [Actors -> SUBSET Slots]
      /\ Actors = {"early", "us", "later"}
      /\ H \subseteq Slots
  BY <1>2, Kinds DEF IInv, TypeOK, Actors
<1>4. \A t \in Slots : next["early"][t] = "base" /\ Intact(t)
  BY <1>1, EarlyChains DEF IInv, Early
<1>5. placed["us"] \cap Present = {}
  BY <1>1 DEF IInv, OnceInv, Early
<1>6. /\ entry' \in [Slots -> Actors \cup {"base"}]
      /\ \A t \in Slots : /\ t \in H => entry'[t] = "us"
                          /\ t \notin H => entry'[t] = entry[t]
  BY <1>1, <1>3
<1>7. /\ next' \in [Actors -> [Slots -> Actors \cup {"base"}]]
      /\ next'["early"] = next["early"] /\ next'["later"] = next["later"]
      /\ \A t \in Slots : /\ t \in H => next'["us"][t] = entry[t]
                          /\ t \notin H => next'["us"][t] = next["us"][t]
  BY <1>1, <1>3
<1>8. /\ placed' \in [Actors -> SUBSET Slots]
      /\ placed'["us"] = placed["us"] \cup H
      /\ placed'["early"] = placed["early"] /\ placed'["later"] = placed["later"]
  BY <1>1, <1>3
<1>9. ASSUME NEW t \in Slots
      PROVE  next'["early"][t] = "base" /\ Intact(t)'
  <2>1. next'["early"][t] = "base"
    BY <1>4, <1>7
  <2>2. CASE t \in H
    <3>1. t \in Present /\ t \notin placed["us"]
      BY <1>2, <1>5, <2>2
    <3>2. Ours(t)
      BY <1>6, <1>7, <1>8, <2>2 DEF Ours
    <3>3. QED
      BY <1>4, <2>1, <3>1, <3>2, TakenChain
  <2>3. CASE t \notin H
    <3>1. Same(t)
      BY <1>3, <1>6, <1>7, <1>8, <2>3 DEF Same
    <3>2. QED
      BY <1>4, <2>1, <3>1, SameChain
  <2>4. QED
    BY <2>2, <2>3
<1>10. /\ have' \in Have /\ have'.storage = have.storage /\ have'.active = have.active
       /\ have'.hooks_done /\ have'.thread = have.thread
       /\ have'.stack = have.stack /\ have'.onstack = have.onstack
  BY <1>1 DEF IInv, TypeOK, Have
<1>11. QED
  BY <1>1, <1>6, <1>7, <1>8, <1>9, <1>10, UpStep

(* Where a step of shutdown is. *)
LEMMA UndoAt ==
    ASSUME IInv, NEW x, Undo(x)
    PROVE  /\ phase = "stopping" /\ At = x /\ todo \in Shutdowns /\ todo' = Tail(todo)
           /\ x \in {"hooks", "crash", "interrupt", "storage", "timer", "sigstack", "crumbs"}
<1>1. /\ phase = "stopping" /\ todo \in Shutdowns /\ todo # <<>> /\ Head(todo) = x
      /\ todo' = Tail(todo)
  BY DEF IInv, ProgramInv, Undo, Does
<1>2. QED
  BY <1>1, ShutdownFlow

LEMMA UninstallHooksStep ==
    ASSUME IInv, UninstallHooks
    PROVE  IInv'
<1> DEFINE H == StillOurs
<1>1. /\ Undo("hooks") /\ UNCHANGED <<next, config, phase>>
      /\ entry' = [s \in Slots |-> IF s \in H THEN next["us"][s] ELSE entry[s]]
      /\ placed' = [placed EXCEPT !["us"] = @ \ Present]
      /\ have' = [have EXCEPT !.hooks_done = FALSE]
  BY DEF UninstallHooks
<1>2. /\ phase = "stopping" /\ phase' = "stopping" /\ At = "hooks"
      /\ todo' \in Shutdowns /\ At' = "crash"
  BY <1>1, UndoAt, ShutdownFlow
<1>3. H = {f \in placed["us"] \cap Present : entry[f] = "us"}
  BY DEF StillOurs
<1> HIDE DEF H
<1>4. /\ entry \in [Slots -> Actors \cup {"base"}]
      /\ next \in [Actors -> [Slots -> Actors \cup {"base"}]]
      /\ placed \in [Actors -> SUBSET Slots]
      /\ Actors = {"early", "us", "later"}
      /\ Present \subseteq Slots
  BY Kinds DEF IInv, TypeOK, Actors
<1>5. /\ entry' \in [Slots -> Actors \cup {"base"}]
      /\ \A t \in Slots : /\ t \in H => entry'[t] = next["us"][t]
                          /\ t \notin H => entry'[t] = entry[t]
  BY <1>1, <1>4
<1>6. /\ placed' \in [Actors -> SUBSET Slots]
      /\ placed'["us"] = placed["us"] \ Present
      /\ placed'["early"] = placed["early"] /\ placed'["later"] = placed["later"]
  BY <1>1, <1>4
<1>7. /\ have' \in Have /\ have'.storage = have.storage /\ have'.thread = have.thread
      /\ have'.stack = have.stack /\ have'.onstack = have.onstack
  BY <1>1 DEF IInv, TypeOK, Have
<1>8. TypeOK' /\ ProgramInv'
  BY <1>1, <1>2, <1>5, <1>6, <1>7 DEF IInv, TypeOK, ProgramInv
<1>9. /\ HooksIn /\ CrashIn /\ InterruptIn /\ TimerIn
      /\ ~HooksIn' /\ CrashIn' /\ InterruptIn' /\ TimerIn'
  BY <1>2 DEF HooksIn, CrashIn, InterruptIn, TimerIn, Before, Early
<1>10. ChainInv'
  <2>1. \A t \in Slots : next'["early"][t] = "base"
    BY <1>1 DEF IInv, ChainInv
  <2>2. ASSUME NEW t \in Present
        PROVE  entry'[t] # "us" /\ t \notin placed'["us"] /\ (With(t)' \/ Without(t)')
    <3>1. Intact(t) /\ t \in Slots
      BY <1>4, <1>9 DEF IInv, ChainInv
    <3>2. Bottom(t)' = Bottom(t) /\ Bottom(t) \in {"early", "base"}
      BY <1>6 DEF Bottom
    <3>3. CASE t \in placed["us"] /\ With(t)
      <4>1. entry[t] = "us" => entry'[t] = next["us"][t]
        BY <1>3, <1>5, <3>1, <3>3
      <4>2. entry[t] # "us" => entry'[t] = entry[t]
        BY <1>3, <1>5, <3>1
      <4>3. QED
        BY <1>1, <1>6, <3>2, <3>3, <4>1, <4>2 DEF With, Without
    <3>4. CASE t \notin placed["us"] /\ Without(t)
      <4>1. entry'[t] = entry[t]
        BY <1>3, <1>5, <3>1, <3>4
      <4>2. QED
        BY <1>1, <1>6, <3>2, <3>4, <4>1 DEF Without
    <3>5. QED
      BY <3>1, <3>3, <3>4 DEF Intact
  <2>3. ASSUME NEW t \in {"interrupt", "timer", "crash"}
        PROVE  Intact(t)'
    <3>1. t \in Slots /\ t \notin Present /\ Intact(t)
      BY <1>9, <2>3, Kinds DEF IInv, ChainInv
    <3>2. Same(t)
      BY <1>1, <1>3, <1>4, <1>5, <1>6, <3>1 DEF Same
    <3>3. QED
      BY <3>1, <3>2, SameChain
  <2>4. QED
    BY <1>9, <2>1, <2>2, <2>3 DEF ChainInv
<1>11. OnceInv'
  BY <1>2 DEF OnceInv, Early
<1>12. StackInv'
  BY <1>7, <1>9 DEF IInv, StackInv
<1>13. HoldInv'
  BY <1>2 DEF HoldInv, Early
<1>14. QED
  BY <1>8, <1>10, <1>11, <1>12, <1>13 DEF IInv

LEMMA UninstallSignalStep ==
    ASSUME IInv, NEW s \in SignalSlots, UninstallSignal(s)
    PROVE  IInv'
<1>1. /\ Undo(s) /\ UNCHANGED <<config, phase>>
      /\ \/ s \in placed["us"] /\ PutsBack(s)
         \/ s \notin placed["us"] /\ Keeps
      /\ have' = [have EXCEPT !.onstack = @ \ {s}, !.thread = @ /\ s # "timer"]
      /\ s \in {"timer", "crash"}
  BY DEF UninstallSignal, SignalSlots
<1>2. /\ phase = "stopping" /\ phase' = "stopping" /\ At = s /\ todo' \in Shutdowns
      /\ s = "crash" => At' = "interrupt"
      /\ s = "timer" => At' = "sigstack"
  <2>1. /\ phase = "stopping" /\ At = s /\ todo \in Shutdowns /\ todo' = Tail(todo)
    BY <1>1, UndoAt
  <2>2. QED
    BY <1>1, <2>1, ShutdownFlow
<1>3. /\ entry \in [Slots -> Actors \cup {"base"}]
      /\ next \in [Actors -> [Slots -> Actors \cup {"base"}]]
      /\ placed \in [Actors -> SUBSET Slots]
      /\ Actors = {"early", "us", "later"}
      /\ s \in Slots /\ next["us"][s] \in Actors \cup {"base"}
  BY <1>1, Kinds DEF IInv, TypeOK, Actors
<1>4. /\ s = "crash" => /\ ~HooksIn /\ ~HooksIn' /\ CrashIn /\ ~CrashIn'
                        /\ InterruptIn /\ InterruptIn' /\ TimerIn /\ TimerIn'
      /\ s = "timer" => /\ ~HooksIn /\ ~HooksIn' /\ ~CrashIn /\ ~CrashIn'
                        /\ ~InterruptIn /\ ~InterruptIn' /\ TimerIn /\ ~TimerIn'
  BY <1>2 DEF HooksIn, CrashIn, InterruptIn, TimerIn, Before, Early
<1>5. Intact(s)
  BY <1>1, <1>4 DEF IInv, ChainInv
<1>6. /\ entry' \in [Slots -> Actors \cup {"base"}]
      /\ placed' \in [Actors -> SUBSET Slots]
      /\ next' = next
      /\ placed'["us"] = placed["us"] \ {s}
      /\ placed'["early"] = placed["early"] /\ placed'["later"] = placed["later"]
      /\ \A t \in Slots : t # s => entry'[t] = entry[t]
      /\ s \in placed["us"] => entry'[s] = next["us"][s]
      /\ s \notin placed["us"] => entry'[s] = entry[s]
  <2>1. CASE s \in placed["us"] /\ PutsBack(s)
    <3>1. /\ entry' = [entry EXCEPT ![s] = next["us"][s]]
          /\ placed' = [placed EXCEPT !["us"] = @ \ {s}]
          /\ next' = next
      BY <2>1 DEF PutsBack
    <3>2. QED
      BY <1>3, <2>1, <3>1
  <2>2. CASE s \notin placed["us"] /\ Keeps
    BY <1>3, <2>2 DEF Keeps
  <2>3. QED
    BY <1>1, <2>1, <2>2
<1>7. Left(s)' /\ s \notin placed'["us"]
  <2>1. Bottom(s)' = Bottom(s) /\ s \notin Present
    BY <1>1, <1>6, Kinds DEF Bottom
  <2>2. QED
    BY <1>5, <1>6, <2>1 DEF Left, Intact, With, Without
<1>8. ASSUME NEW t \in Slots, t # s
      PROVE  Same(t)
  BY <1>3, <1>6, <1>8 DEF Same
<1>9. /\ have' \in Have /\ have'.storage = have.storage
      /\ have'.stack = have.stack /\ have'.onstack = have.onstack \ {s}
      /\ s = "timer" => ~have'.thread
  <2>1. have \in Have /\ have.onstack \ {s} \in SUBSET SignalSlots
        /\ (have.thread /\ s # "timer") \in BOOLEAN
    BY DEF IInv, TypeOK, Have
  <2>2. QED
    BY <1>1, <2>1 DEF Have
<1>10. TypeOK' /\ ProgramInv'
  BY <1>1, <1>2, <1>3, <1>6, <1>9 DEF IInv, TypeOK, ProgramInv
<1>11. ChainInv'
  <2>1. \A t \in Slots : next'["early"][t] = "base"
    BY <1>6 DEF IInv, ChainInv
  <2>2. ASSUME NEW t \in Present
        PROVE  entry'[t] # "us" /\ t \notin placed'["us"] /\ (With(t)' \/ Without(t)')
    <3>1. t \in Slots /\ t # s
      BY <1>1, Kinds
    <3>2. entry[t] # "us" /\ t \notin placed["us"] /\ (With(t) \/ Without(t))
      BY <1>1, <1>4 DEF IInv, ChainInv
    <3>3. QED
      BY <1>6, <1>8, <3>1, <3>2, SameChain
  <2>3. ASSUME NEW t \in {"interrupt", "timer", "crash"}, t # s
        PROVE  /\ Intact(t) => Intact(t)'
               /\ Left(t) => Left(t)'
               /\ entry'[t] = entry[t] /\ (t \in placed'["us"] <=> t \in placed["us"])
    <3>1. t \in Slots /\ Same(t)
      BY <1>8, <2>3, Kinds
    <3>2. entry'[t] = entry[t] /\ (t \in placed'["us"] <=> t \in placed["us"])
      BY <1>6, <2>3, <3>1
    <3>3. QED
      BY <3>1, <3>2, SameChain
  <2>4. CASE s = "crash"
    <3>1. Left("crash")' /\ "crash" \notin placed'["us"]
      BY <1>7, <2>4
    <3>2. Intact("interrupt")' /\ Intact("timer")'
      BY <1>4, <2>3, <2>4 DEF IInv, ChainInv
    <3>3. QED
      BY <1>4, <2>1, <2>2, <2>4, <3>1, <3>2 DEF ChainInv
  <2>5. CASE s = "timer"
    <3>1. Left("timer")' /\ "timer" \notin placed'["us"]
      BY <1>7, <2>5
    <3>2. Left("crash")' /\ "crash" \notin placed'["us"] /\ entry'["interrupt"] # "us"
      BY <1>4, <2>3, <2>5 DEF IInv, ChainInv
    <3>3. QED
      BY <1>4, <2>1, <2>2, <2>5, <3>1, <3>2 DEF ChainInv
  <2>6. QED
    BY <1>1, <2>4, <2>5
<1>12. OnceInv'
  BY <1>2 DEF OnceInv, Early
<1>13. StackInv'
  BY <1>1, <1>4, <1>9 DEF IInv, StackInv
<1>14. HoldInv'
  BY <1>1, <1>2, <1>9 DEF IInv, HoldInv, Early
<1>15. QED
  BY <1>10, <1>11, <1>12, <1>13, <1>14 DEF IInv

LEMMA UninstallInterruptStep ==
    ASSUME IInv, UninstallInterrupt
    PROVE  IInv'
<1>1. /\ Undo("interrupt") /\ UNCHANGED <<have, config, phase>>
  BY DEF UninstallInterrupt
<1>2. /\ phase = "stopping" /\ phase' = "stopping" /\ At = "interrupt"
      /\ todo' \in Shutdowns /\ At' = "storage"
  BY <1>1, UndoAt, ShutdownFlow
<1>3. /\ entry \in [Slots -> Actors \cup {"base"}]
      /\ next \in [Actors -> [Slots -> Actors \cup {"base"}]]
      /\ placed \in [Actors -> SUBSET Slots]
      /\ Actors = {"early", "us", "later"}
      /\ "interrupt" \in Slots /\ next["us"]["interrupt"] \in Actors \cup {"base"}
      /\ entry["interrupt"] \in Actors \cup {"base"}
  BY Kinds DEF IInv, TypeOK, Actors
<1>4. /\ ~HooksIn /\ ~CrashIn /\ InterruptIn /\ TimerIn
      /\ ~HooksIn' /\ ~CrashIn' /\ ~InterruptIn' /\ TimerIn'
  BY <1>2 DEF HooksIn, CrashIn, InterruptIn, TimerIn, Before, Early
<1>5. Intact("interrupt") /\ "interrupt" \notin Present
  BY <1>4, Kinds DEF IInv, ChainInv
<1>6. /\ entry' \in [Slots -> Actors \cup {"base"}]
      /\ next' \in [Actors -> [Slots -> Actors \cup {"base"}]]
      /\ placed' \in [Actors -> SUBSET Slots]
      /\ entry'["interrupt"] # "us"
      /\ next'["early"] = next["early"]
      /\ \A t \in Slots : t # "interrupt" => Same(t)
  <2>1. CASE "interrupt" \in placed["us"]
    <3>1. /\ entry' = [entry EXCEPT !["interrupt"] =
                          IF @ = "us" THEN next["us"]["interrupt"] ELSE @]
          /\ next' = [next EXCEPT !["us"]["interrupt"] = "base"]
          /\ placed' = [placed EXCEPT !["us"] = @ \ {"interrupt"}]
      BY <2>1 DEF UninstallInterrupt
    <3>2. /\ entry' \in [Slots -> Actors \cup {"base"}]
          /\ \A t \in Slots : t # "interrupt" => entry'[t] = entry[t]
          /\ entry["interrupt"] = "us" => entry'["interrupt"] = next["us"]["interrupt"]
          /\ entry["interrupt"] # "us" => entry'["interrupt"] = entry["interrupt"]
      BY <1>3, <3>1
    <3>3. /\ next' \in [Actors -> [Slots -> Actors \cup {"base"}]]
          /\ next'["early"] = next["early"] /\ next'["later"] = next["later"]
          /\ \A t \in Slots : t # "interrupt" => next'["us"][t] = next["us"][t]
      BY <1>3, <3>1
    <3>4. /\ placed' \in [Actors -> SUBSET Slots]
          /\ placed'["us"] = placed["us"] \ {"interrupt"}
          /\ placed'["early"] = placed["early"] /\ placed'["later"] = placed["later"]
      BY <1>3, <3>1
    <3>5. entry'["interrupt"] # "us"
      BY <1>5, <2>1, <3>2 DEF Intact, With, Bottom
    <3>6. ASSUME NEW t \in Slots, t # "interrupt"
          PROVE  Same(t)
      BY <1>3, <3>2, <3>3, <3>4, <3>6 DEF Same
    <3>7. QED
      BY <3>2, <3>3, <3>4, <3>5, <3>6
  <2>2. CASE "interrupt" \notin placed["us"]
    <3>1. UNCHANGED <<entry, next, placed>>
      BY <2>2 DEF UninstallInterrupt, Keeps
    <3>2. entry["interrupt"] # "us"
      BY <1>5, <2>2 DEF Intact, Without, Bottom
    <3>3. \A t \in Slots : Same(t)
      BY <3>1 DEF Same
    <3>4. QED
      BY <1>3, <3>1, <3>2, <3>3
  <2>3. QED
    BY <2>1, <2>2
<1>7. TypeOK' /\ ProgramInv'
  BY <1>1, <1>2, <1>6 DEF IInv, TypeOK, ProgramInv
<1>8. ChainInv'
  <2>1. \A t \in Slots : next'["early"][t] = "base"
    BY <1>6 DEF IInv, ChainInv
  <2>2. ASSUME NEW t \in Present
        PROVE  entry'[t] # "us" /\ t \notin placed'["us"] /\ (With(t)' \/ Without(t)')
    <3>1. Same(t)
      BY <1>6, Kinds
    <3>2. entry[t] # "us" /\ t \notin placed["us"] /\ (With(t) \/ Without(t))
      BY <1>4 DEF IInv, ChainInv
    <3>3. entry'[t] # "us" /\ t \notin placed'["us"]
      BY <1>3, <3>1, <3>2 DEF Same
    <3>4. QED
      BY <3>1, <3>2, <3>3, SameChain
  <2>3. Left("crash")' /\ "crash" \notin placed'["us"]
    <3>1. Same("crash")
      BY <1>6, Kinds
    <3>2. Left("crash") /\ "crash" \notin placed["us"]
      BY <1>4 DEF IInv, ChainInv
    <3>3. "crash" \notin placed'["us"]
      BY <1>3, <3>1, <3>2 DEF Same
    <3>4. QED
      BY <3>1, <3>2, <3>3, SameChain
  <2>4. Intact("timer")'
    <3>1. Same("timer")
      BY <1>6, Kinds
    <3>2. Intact("timer")
      BY <1>4 DEF IInv, ChainInv
    <3>3. QED
      BY <3>1, <3>2, SameChain
  <2>5. QED
    BY <1>4, <1>6, <2>1, <2>2, <2>3, <2>4 DEF ChainInv
<1>9. OnceInv'
  BY <1>2 DEF OnceInv, Early
<1>10. StackInv'
  BY <1>1, <1>4 DEF IInv, StackInv
<1>11. HoldInv'
  BY <1>2 DEF HoldInv, Early
<1>12. QED
  BY <1>7, <1>8, <1>9, <1>10, <1>11 DEF IInv

(* The rest of shutdown lets go of what the extension holds. *)
LEMMA ReleaseStep ==
    ASSUME IInv, FreeStorage \/ ReleaseStack \/ FreeCrumbs
    PROVE  IInv'
<1>1. UNCHANGED <<entry, next, placed, config>>
  BY DEF FreeStorage, ReleaseStack, FreeCrumbs
<1>2. CASE FreeStorage
  <2>1. Undo("storage") /\ phase' = phase /\ have' = [have EXCEPT !.storage = FALSE]
    BY <1>2 DEF FreeStorage
  <2>2. /\ phase = "stopping" /\ phase' = "stopping" /\ At = "storage"
        /\ todo' \in Shutdowns /\ At' = "timer"
    BY <2>1, UndoAt, ShutdownFlow
  <2>3. /\ have' \in Have /\ have'.storage = FALSE
        /\ have'.stack = have.stack /\ have'.onstack = have.onstack
    BY <2>1 DEF IInv, TypeOK, Have
  <2>4. TypeOK' /\ ProgramInv'
    BY <1>1, <2>2, <2>3 DEF IInv, TypeOK, ProgramInv
  <2>5. /\ HooksIn' <=> HooksIn
        /\ CrashIn' <=> CrashIn
        /\ InterruptIn' <=> InterruptIn
        /\ TimerIn' <=> TimerIn
    BY <2>2 DEF HooksIn, CrashIn, InterruptIn, TimerIn, Before, Early
  <2>6. ChainInv'
    BY <1>1, <2>5, KeepsSame, ChainKept DEF IInv, Keeps
  <2>7. OnceInv' /\ HoldInv'
    BY <2>2, <2>3 DEF OnceInv, HoldInv, Early
  <2>8. StackInv'
    BY <2>3, <2>5 DEF IInv, StackInv
  <2>9. QED
    BY <2>4, <2>6, <2>7, <2>8 DEF IInv
<1>3. CASE ReleaseStack
  <2>1. Undo("sigstack") /\ phase' = phase /\ have' = [have EXCEPT !.stack = "none"]
    BY <1>3 DEF ReleaseStack
  <2>2. /\ phase = "stopping" /\ phase' = "stopping" /\ At = "sigstack"
        /\ todo' \in Shutdowns /\ At' = "crumbs"
    BY <2>1, UndoAt, ShutdownFlow
  <2>3. /\ have' \in Have /\ have'.storage = have.storage /\ have'.thread = have.thread
        /\ have'.stack = "none" /\ have'.onstack = have.onstack
    BY <2>1 DEF IInv, TypeOK, Have
  <2>4. TypeOK' /\ ProgramInv'
    BY <1>1, <2>2, <2>3 DEF IInv, TypeOK, ProgramInv
  <2>5. /\ HooksIn' <=> HooksIn
        /\ CrashIn' <=> CrashIn
        /\ InterruptIn' <=> InterruptIn
        /\ TimerIn' <=> TimerIn
        /\ ~CrashIn /\ ~TimerIn
    BY <2>2 DEF HooksIn, CrashIn, InterruptIn, TimerIn, Before, Early
  <2>6. ChainInv'
    BY <1>1, <2>5, KeepsSame, ChainKept DEF IInv, Keeps
  <2>7. OnceInv' /\ HoldInv'
    BY <2>2, <2>3 DEF IInv, OnceInv, HoldInv, Early
  <2>8. have.onstack = {}
    BY <2>5 DEF IInv, TypeOK, Have, StackInv, SignalSlots
  <2>9. StackInv'
    BY <2>3, <2>8 DEF StackInv
  <2>10. QED
    BY <2>4, <2>6, <2>7, <2>9 DEF IInv
<1>4. CASE FreeCrumbs
  <2>1. /\ Undo("crumbs") /\ phase' = "down"
        /\ have' = [have EXCEPT !.crumbs = FALSE, !.active = FALSE]
    BY <1>4 DEF FreeCrumbs
  <2>2. phase = "stopping" /\ At = "crumbs" /\ todo' = <<>>
    BY <2>1, UndoAt, ShutdownFlow
  <2>3. /\ have' \in Have /\ have'.storage = have.storage /\ have'.thread = have.thread
        /\ have'.stack = have.stack /\ have'.onstack = have.onstack /\ have'.crumbs = FALSE
    BY <2>1 DEF IInv, TypeOK, Have
  <2>4. TypeOK' /\ ProgramInv'
    BY <1>1, <2>1, <2>2, <2>3 DEF IInv, TypeOK, ProgramInv
  <2>5. /\ HooksIn' <=> HooksIn
        /\ CrashIn' <=> CrashIn
        /\ InterruptIn' <=> InterruptIn
        /\ TimerIn' <=> TimerIn
    BY <2>1, <2>2 DEF HooksIn, CrashIn, InterruptIn, TimerIn, Before, Early
  <2>6. ChainInv'
    BY <1>1, <2>5, KeepsSame, ChainKept DEF IInv, Keeps
  <2>7. OnceInv' /\ HoldInv'
    BY <2>1, <2>2, <2>3 DEF IInv, OnceInv, HoldInv, Early
  <2>8. StackInv'
    BY <2>3, <2>5 DEF IInv, StackInv
  <2>9. QED
    BY <2>4, <2>6, <2>7, <2>8 DEF IInv
<1>5. QED
  BY <1>2, <1>3, <1>4

-----------------------------------------------------------------------------
(* The theorems *)

(* One program before another. *)
LEMMA Joined ==
    ASSUME NEW S, NEW s \in Seq(S), NEW t \in Seq(S), NEW u \in Seq(S),
           Len(u) = Len(s) + Len(t),
           \A k \in 1 .. Len(s) : u[k] = s[k],
           \A k \in 1 .. Len(t) : u[Len(s) + k] = t[k]
    PROVE  s \o t = u
<1>1. /\ s \o t \in Seq(S) /\ Len(s \o t) = Len(s) + Len(t)
      /\ \A k \in 1 .. Len(s) + Len(t) :
            (s \o t)[k] = IF k <= Len(s) THEN s[k] ELSE t[k - Len(s)]
  BY ConcatProperties
<1>2. ASSUME NEW k \in 1 .. Len(s \o t)
      PROVE  (s \o t)[k] = u[k]
  <2>1. CASE k <= Len(s)
    BY <1>1, <2>1
  <2>2. CASE k > Len(s)
    <3>1. k - Len(s) \in 1 .. Len(t) /\ Len(s) + (k - Len(s)) = k
      BY <1>1, <2>2
    <3>2. QED
      BY <1>1, <2>2, <3>1
  <2>3. QED
    BY <1>1, <2>1, <2>2
<1>3. QED
  BY <1>1, <1>2, SeqEqual

(* The whole of MINIT. *)
LEMMA StartupPrograms ==
    ASSUME config.enabled
    PROVE  /\ config.profiler => StartupProgram \in WholeProfiles
           /\ ~config.profiler => StartupProgram \in Wholes
<1> DEFINE S == {"crumbs", "storage", "timer", "backend", "interrupt", "crash", "active"}
           p == <<"crumbs", "storage", "timer", "backend", "interrupt">>
           c == <<"crumbs">>
           w == <<"crash", "active">>
           a == <<"active">>
           pw == <<"crumbs", "storage", "timer", "backend", "interrupt", "crash", "active">>
           pa == <<"crumbs", "storage", "timer", "backend", "interrupt", "active">>
           cw == <<"crumbs", "crash", "active">>
           ca == <<"crumbs", "active">>
<1>1. /\ p \in Seq(S) /\ c \in Seq(S) /\ w \in Seq(S) /\ a \in Seq(S)
      /\ pw \in Seq(S) /\ pa \in Seq(S) /\ cw \in Seq(S) /\ ca \in Seq(S)
  OBVIOUS
<1>2. /\ Len(p) = 5 /\ Len(c) = 1 /\ Len(w) = 2 /\ Len(a) = 1
      /\ Len(pw) = 7 /\ Len(pa) = 6 /\ Len(cw) = 3 /\ Len(ca) = 2
  OBVIOUS
<1>3. /\ \A k \in 1 .. 5 : pw[k] = p[k]
      /\ \A k \in 1 .. 2 : pw[5 + k] = w[k]
      /\ \A k \in 1 .. 5 : pa[k] = p[k]
      /\ \A k \in 1 .. 1 : pa[5 + k] = a[k]
  OBVIOUS
<1>4. /\ \A k \in 1 .. 1 : cw[k] = c[k]
      /\ \A k \in 1 .. 2 : cw[1 + k] = w[k]
      /\ \A k \in 1 .. 1 : ca[k] = c[k]
      /\ \A k \in 1 .. 1 : ca[1 + k] = a[k]
  OBVIOUS
<1>5. /\ WithoutProfiler = w \/ WithoutProfiler = a
      /\ config.profiler => StartupProgram = p \o WithoutProfiler
      /\ ~config.profiler => StartupProgram = c \o WithoutProfiler
  BY DEF WithoutProfiler, StartupProgram
<1>6. pw \in WholeProfiles /\ pa \in WholeProfiles /\ cw \in Wholes /\ ca \in Wholes
  BY DEF WholeProfiles, Wholes
<1> HIDE DEF S, p, c, w, a, pw, pa, cw, ca
<1>7. p \o w = pw
  <2>1. /\ Len(pw) = Len(p) + Len(w)
        /\ \A k \in 1 .. Len(p) : pw[k] = p[k]
        /\ \A k \in 1 .. Len(w) : pw[Len(p) + k] = w[k]
    BY <1>2, <1>3
  <2>2. QED
    BY <1>1, <2>1, Joined
<1>8. p \o a = pa
  <2>1. /\ Len(pa) = Len(p) + Len(a)
        /\ \A k \in 1 .. Len(p) : pa[k] = p[k]
        /\ \A k \in 1 .. Len(a) : pa[Len(p) + k] = a[k]
    BY <1>2, <1>3
  <2>2. QED
    BY <1>1, <2>1, Joined
<1>9. c \o w = cw
  <2>1. /\ Len(cw) = Len(c) + Len(w)
        /\ \A k \in 1 .. Len(c) : cw[k] = c[k]
        /\ \A k \in 1 .. Len(w) : cw[Len(c) + k] = w[k]
    BY <1>2, <1>4
  <2>2. QED
    BY <1>1, <2>1, Joined
<1>10. c \o a = ca
  <2>1. /\ Len(ca) = Len(c) + Len(a)
        /\ \A k \in 1 .. Len(c) : ca[k] = c[k]
        /\ \A k \in 1 .. Len(a) : ca[Len(c) + k] = a[k]
    BY <1>2, <1>4
  <2>2. QED
    BY <1>1, <2>1, Joined
<1>11. QED
  BY <1>5, <1>6, <1>7, <1>8, <1>9, <1>10

LEMMA Initially ==
    ASSUME Init
    PROVE  IInv
<1>1. PICK before \in {{}, Slots} :
        /\ entry = [s \in Slots |-> IF s \in before THEN "early" ELSE "base"]
        /\ placed = [a \in Actors |-> IF a = "early" THEN before ELSE {}]
  BY DEF Init
<1>2. /\ next = [a \in Actors |-> [s \in Slots |-> "base"]]
      /\ have = [crumbs |-> FALSE, storage |-> FALSE, active |-> FALSE, hooks_done |-> FALSE,
                 thread |-> FALSE, stack |-> "none", onstack |-> {}]
      /\ config \in Config
      /\ todo = StartupProgram
      /\ phase = "starting"
  BY DEF Init
<1>3. have \in Have /\ ~have.hooks_done /\ ~have.active /\ have.onstack = {}
  BY <1>2 DEF Have
<1>4. placed["early"] = before /\ placed["us"] = {} /\ placed["later"] = {}
  BY <1>1 DEF Actors
<1>5. TypeOK
  BY <1>1, <1>2, <1>3 DEF TypeOK, Actors
<1>6. ProgramInv /\ At \in {"crumbs", "end"}
  <2>1. config.profiler \in BOOLEAN /\ config.enabled \in BOOLEAN /\ config.crash \in BOOLEAN
    BY <1>2 DEF Config
  <2>2. CASE ~config.enabled
    <3>1. todo = <<>>
      BY <1>2, <2>2 DEF StartupProgram
    <3>2. QED
      BY <1>2, <3>1 DEF ProgramInv, Finals, At
  <2>3. CASE config.enabled /\ config.profiler
    <3>1. todo \in WholeProfiles
      BY <1>2, <2>3, StartupPrograms
    <3>2. QED
      BY <1>2, <2>3, <3>1 DEF ProgramInv, WholeProfiles, At
  <2>4. CASE config.enabled /\ ~config.profiler
    <3>1. todo \in Wholes
      BY <1>2, <2>4, StartupPrograms
    <3>2. QED
      BY <1>2, <2>4, <3>1 DEF ProgramInv, Wholes, At
  <2>5. QED
    BY <2>1, <2>2, <2>3, <2>4
<1>7. ChainInv
  <2>1. Early
    BY <1>2 DEF Early
  <2>2. ASSUME NEW s \in Slots
        PROVE  next["early"][s] = "base" /\ Intact(s)
    <3>1. entry[s] = Bottom(s)
      BY <1>1, <1>4 DEF Bottom
    <3>2. next["early"][s] = "base"
      BY <1>2 DEF Actors
    <3>3. QED
      BY <1>4, <3>1, <3>2 DEF Intact, Without
  <2>3. QED
    BY <2>1, <2>2, EarlyChains
<1>8. OnceInv /\ StackInv
  BY <1>2, <1>3, <1>4 DEF OnceInv, StackInv
<1>9. HoldInv
  BY <1>2, <1>3, <1>6 DEF HoldInv
<1>10. QED
  BY <1>5, <1>6, <1>7, <1>8, <1>9 DEF IInv

LEMMA Idle ==
    ASSUME IInv, UNCHANGED vars
    PROVE  IInv'
<1>1. /\ UNCHANGED <<entry, next, placed, have, config, todo, phase>> /\ At' = At
      /\ Early' <=> Early
  BY DEF vars, At, Early
<1>2. /\ HooksIn' <=> HooksIn
      /\ CrashIn' <=> CrashIn
      /\ InterruptIn' <=> InterruptIn
      /\ TimerIn' <=> TimerIn
  BY <1>1 DEF HooksIn, CrashIn, InterruptIn, TimerIn, Before
<1>3. ChainInv'
  BY <1>1, <1>2, KeepsSame, ChainKept DEF IInv, Keeps
<1>4. TypeOK' /\ ProgramInv'
  BY <1>1 DEF IInv, TypeOK, ProgramInv
<1>5. OnceInv' /\ StackInv' /\ HoldInv'
  BY <1>1, <1>2 DEF IInv, OnceInv, StackInv, HoldInv
<1>6. QED
  BY <1>3, <1>4, <1>5 DEF IInv

LEMMA Inductive ==
    ASSUME IInv, [Next]_vars
    PROVE  IInv'
<1>1. CASE UNCHANGED vars
  BY <1>1, Idle
<1>2. CASE \E s \in Slots : LaterWraps(s) \/ LaterLeaves(s)
  BY <1>2, LaterStep
<1>3. CASE \E ok \in BOOLEAN : InitCrumbs(ok) \/ InitStorage(ok)
  BY <1>3, InitCrumbsStep, InitStorageStep
<1>4. CASE \E stacked, ok \in BOOLEAN : InitTimer(stacked, ok) \/ InstallCrash(stacked, ok)
  BY <1>4, InitTimerStep, InstallCrashStep
<1>5. CASE CheckBackend \/ InstallInterrupt \/ Activate \/ Started
  BY <1>5, CheckBackendStep, InstallInterruptStep, ActivateStep, StartedStep
<1>6. CASE RInit \/ MShutdown
  BY <1>6, RInitStep, MShutdownStep
<1>7. CASE UninstallHooks \/ (\E s \in SignalSlots : UninstallSignal(s)) \/ UninstallInterrupt
  BY <1>7, UninstallHooksStep, UninstallSignalStep, UninstallInterruptStep
<1>8. CASE FreeStorage \/ ReleaseStack \/ FreeCrumbs
  BY <1>8, ReleaseStep
<1>9. QED
  BY <1>1, <1>2, <1>3, <1>4, <1>5, <1>6, <1>7, <1>8 DEF Next

LEMMA Invariant == Spec => []IInv
<1>1. Init => IInv
  BY Initially
<1>2. IInv /\ [Next]_vars => IInv'
  BY Inductive
<1>3. QED
  BY <1>1, <1>2, PTL DEF Spec

(* Every variable keeps its type through startup and shutdown. *)
THEOREM TypeCorrect == Spec => []TypeOK
<1>1. IInv => TypeOK
  BY DEF IInv
<1>2. QED
  BY <1>1, Invariant, PTL

(* In whatever order the other extension wraps and unwraps our slots, and  *)
(* whatever of startup failed, a call of a hooked function passes everyone *)
(* who hooked it and ends at the original, before and after                *)
(* cbox_hooks_uninstall; so does every interrupt and every signal until    *)
(* module shutdown begins.                                                 *)
THEOREM ChainsStayWhole == Spec => []NobodyIsCutOut
<1>1. IInv => NobodyIsCutOut
  <2> SUFFICES ASSUME IInv, NEW s \in Slots, s \in Present \/ phase \in {"starting", "up"}
               PROVE  /\ "base" \in Reached(s)
                      /\ \A a \in Actors : s \in placed[a] => a \in Reached(s)
    BY DEF NobodyIsCutOut
  <2>1. /\ With(s) \/ Without(s)
        /\ s \in placed["us"] => With(s)
        /\ next["early"][s] = "base"
    <3>1. CASE Early
      BY <3>1, EarlyChains DEF IInv, Intact
    <3>2. CASE ~Early
      <4>1. s \in Present
        BY <3>2 DEF Early
      <4>2. QED
        BY <4>1 DEF IInv, ChainInv, Intact
    <3>3. QED
      BY <3>1, <3>2
  <2>2. QED
    BY <2>1, ChainReaches DEF Actors
<1>2. QED
  BY <1>1, Invariant, PTL

(* cbox_sigstack_release comes after every handler that could run on the   *)
(* alternate stack was taken away, and no step of startup leaves a handler *)
(* on a stack that is not there.                                           *)
THEOREM HandlersHaveTheirStack == Spec => []StackOutlivesHandlers
<1>1. IInv => StackOutlivesHandlers
  BY DEF IInv, StackInv, StackOutlivesHandlers
<1>2. QED
  BY <1>1, Invariant, PTL

(* Whichever step of MINIT failed, an enabled profiler has its storage,    *)
(* its timer and its safe point, and after MSHUTDOWN no slot begins with   *)
(* us, no signal reaches us and nothing is held.                           *)
THEOREM ShutdownUndoesStartup == Spec => []UndoneWhateverFailed
<1>1. IInv => UndoneWhateverFailed
  <2>1. ASSUME IInv, phase = "up", have.active, config.profiler
        PROVE  /\ have.storage /\ "interrupt" \in placed["us"]
               /\ have.thread \/ "timer" \in placed["us"]
    BY <2>1 DEF IInv, HoldInv, Early
  <2>2. ASSUME IInv, phase = "down"
        PROVE  /\ \A s \in Slots : entry[s] # "us"
               /\ \A s \in SignalSlots : "us" \notin Reached(s)
               /\ have.stack = "none" /\ ~have.thread /\ ~have.storage /\ ~have.crumbs
    <3>1. ~HooksIn /\ ~CrashIn /\ ~InterruptIn /\ ~TimerIn
      BY <2>2 DEF HooksIn, CrashIn, InterruptIn, TimerIn, Before, Early
    <3>2. /\ \A s \in Present : entry[s] # "us"
          /\ Left("crash") /\ Left("timer") /\ entry["interrupt"] # "us"
          /\ \A s \in Slots : next["early"][s] = "base"
      BY <2>2, <3>1 DEF IInv, ChainInv
    <3>3. entry["crash"] # "us" /\ entry["timer"] # "us"
      BY <3>2 DEF Left, Bottom
    <3>4. \A s \in Slots : entry[s] # "us"
      BY <3>2, <3>3, Kinds
    <3>5. "us" \notin Reached("crash") /\ "us" \notin Reached("timer")
      BY <3>2, Kinds, LeftMisses
    <3>6. have.stack = "none" /\ ~have.thread /\ ~have.storage /\ ~have.crumbs
      BY <2>2 DEF IInv, HoldInv
    <3>7. QED
      BY <3>4, <3>5, <3>6 DEF SignalSlots
  <2>3. QED
    BY <2>1, <2>2 DEF UndoneWhateverFailed
<1>2. QED
  BY <1>1, Invariant, PTL
=============================================================================
