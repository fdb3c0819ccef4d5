------------------------------- MODULE CrashSink -------------------------------
(***************************************************************************)
(* Crash records between the process that dies and the one that collects   *)
(* them (src/src/crash.c).  Every process appends to a file of its own     *)
(* from its crash handler, without any lock; one collector at a time runs  *)
(* cbox_crash_drain over the directory.  The handler and the drain         *)
(* interleave system call by system call.                                  *)
(*                                                                         *)
(* A file is a sequence of records; a record is its identity and whether   *)
(* this build can decode it ("own"), whether it is one of another version  *)
(* ("foreign") or what a failed write left: less than a header ("torn") or *)
(* all but the last few bytes ("cut").  Files are known by the pid in      *)
(* their name; a pid comes back after its process has gone, so a file may  *)
(* hold the records of several.  The collector may die at any step of a    *)
(* drain, and the system calls that remove what it handed over may fail.   *)
(* Abstractions: the checks on ownership, file type and mode hold          *)
(* throughout, a pid is not given out again while the drain is working on  *)
(* the file of that name, and what a compaction moves fits into one chunk. *)
(***************************************************************************)
EXTENDS Integers, Sequences, FiniteSets

CONSTANTS
    Pids,         \* pids of processes other than the collector
    None,
    MaxSpawns,    \* bound: processes started
    MaxCrashes,   \* bound: crash records written
    MaxFaults,    \* bound: deaths of the collector and calls of its that fail
    Budgets,      \* values of max in cbox_crash_drain
    ReadMax,      \* CBOX_CRASH_DRAIN_MAX_BYTES, in records
    ForksInherit, \* TRUE: a process that has prepared its sink may fork
    Outcomes      \* kinds of record a crash may leave in the file

ASSUME CrashSinkAssumption ==
    /\ None \notin Pids
    /\ MaxSpawns \in Nat
    /\ MaxCrashes \in Nat
    /\ MaxFaults \in Nat
    /\ Budgets \subseteq Nat \ {0}
    /\ ReadMax \in Nat \ {0}
    /\ ForksInherit \in BOOLEAN
    /\ Outcomes \subseteq {"own", "foreign", "torn", "cut"}

VARIABLES
    alive,      \* processes that exist: kill(pid, 0) succeeds
    spawns,     \* processes started so far
    path,       \* cbox_crash_path of each process, by the pid in it
    fd,         \* the file its handler has open
    file,       \* contents of the files that have a name; None: no such file
    crashes,    \* records written so far; they number the records
    drain,      \* locals of cbox_crash_drain and cbox_crash_drain_file
    faults,     \* faults of the collector so far
    \* Ghosts:
    kept,       \* records that could not be removed with what was handed over
    saved,      \* identities of the records that reached the disk whole
    handed      \* how often each was handed to the caller of a drain

procVars == <<alive, spawns, path, fd>>
vars == <<procVars, file, crashes, drain, faults, kept, saved, handed>>

-----------------------------------------------------------------------------
Ids == 1 .. MaxCrashes
Kinds == {"own", "foreign", "torn", "cut"}
RecordType == [id : Ids, kind : Kinds]

(* Opened, then unlinked by a drain: writes reach a file without a name. *)
Nameless == "nameless"

(* None and Nameless are not what they stand in for. *)
ASSUME PlaceholderAssumption ==
    /\ None \notin Seq(RecordType)
    /\ Nameless \notin Pids \cup {None}

Idle == [at |-> "idle", todo |-> {}, budget |-> 0, target |-> None,
         buffer |-> <<>>, whole |-> FALSE, consumable |-> FALSE, consumed |-> 0]

Files == {p \in Pids : file[p] # None}
IdsIn(s) == {s[k].id : k \in 1 .. Len(s)}

-----------------------------------------------------------------------------
(* Processes *)

(* A process comes into being with the pid p. *)
Started(p) ==
    /\ p \notin alive
    /\ p # drain.target
    /\ spawns < MaxSpawns
    /\ alive' = alive \cup {p}
    /\ spawns' = spawns + 1
    /\ UNCHANGED <<fd, file, crashes, drain, faults, kept, saved, handed>>

(* A new program; its sink is not prepared yet. *)
Spawn(p) ==
    /\ Started(p)
    /\ path' = [path EXCEPT ![p] = None]

(* p forks: the child starts with p's memory. *)
ForkChild(p, q) ==
    /\ p \in alive /\ fd[p] = None
    /\ path[p] # None => ForksInherit
    /\ Started(q)
    /\ path' = [path EXCEPT ![q] = path[p]]

(* cbox_crash_open_sink: RINIT, or cbox_detect_fork in a child. *)
OpenSink(p) ==
    /\ p \in alive /\ fd[p] = None
    /\ path[p] # p
    /\ path' = [path EXCEPT ![p] = p]
    /\ UNCHANGED <<alive, spawns, fd, file, crashes, drain, faults, kept, saved, handed>>

(* cbox_crash_handler, first half: open with O_CREAT. *)
HandlerOpens(p) ==
    /\ p \in alive /\ fd[p] = None
    /\ path[p] # None
    /\ crashes < MaxCrashes
    /\ fd' = [fd EXCEPT ![p] = path[p]]
    /\ file' = [file EXCEPT ![path[p]] = IF @ = None THEN <<>> ELSE @]
    /\ UNCHANGED <<alive, spawns, path, crashes, drain, faults, kept, saved, handed>>

(* cbox_crash_handler, second half: one O_APPEND write, whole or not, then *)
(* the process dies of its signal.                                         *)
HandlerWrites(p, kind) ==
    LET id == crashes + 1
    IN  /\ p \in alive /\ fd[p] # None
        /\ crashes < MaxCrashes
        /\ crashes' = id
        /\ file' = IF fd[p] = Nameless THEN file
                   ELSE [file EXCEPT ![fd[p]] = Append(@, [id |-> id, kind |-> kind])]
        /\ saved' = IF kind \in {"own", "foreign"} THEN saved \cup {id} ELSE saved
        /\ alive' = alive \ {p}
        /\ fd' = [fd EXCEPT ![p] = None]
        /\ UNCHANGED <<spawns, path, drain, faults, kept, handed>>

(* The process exits, or is killed, in the handler or elsewhere. *)
Dies(p) ==
    /\ p \in alive
    /\ alive' = alive \ {p}
    /\ fd' = [fd EXCEPT ![p] = None]
    /\ UNCHANGED <<spawns, path, file, crashes, drain, faults, kept, saved, handed>>

-----------------------------------------------------------------------------
(* cbox_crash_drain *)

At(step) == drain.at = step
DrainStep == UNCHANGED <<procVars, crashes, faults, kept, saved>>

(* opendir; the entries come in any order. *)
DrainBegins(max) ==
    /\ At("idle")
    /\ Files # {}
    /\ drain' = [Idle EXCEPT !.at = "entry", !.todo = Files, !.budget = max]
    /\ DrainStep
    /\ UNCHANGED <<file, handed>>

(* Mutant: nobody asks whether the owner is still there. *)
NeverAlive(p) == FALSE

(* cbox_crash_process_alive *)
ProcessAlive(p) == p \in alive

(* readdir, and the test on the owner. *)
DrainEntry(p) ==
    /\ At("entry")
    /\ p \in drain.todo
    /\ drain.budget > 0
    /\ drain' = [drain EXCEPT !.todo = @ \ {p},
                              !.at = IF ProcessAlive(p) THEN "entry" ELSE "read",
                              !.target = IF ProcessAlive(p) THEN None ELSE p]
    /\ DrainStep
    /\ UNCHANGED <<file, handed>>

(* The first half of cbox_crash_drain_file: fstat and pread. *)
DrainReads ==
    LET f == file[drain.target]
    IN  /\ At("read")
        /\ drain' = [drain EXCEPT !.at = "visit",
                                  !.buffer = SubSeq(f, 1, IF Len(f) < ReadMax THEN Len(f) ELSE ReadMax),
                                  !.whole = Len(f) <= ReadMax]
        /\ DrainStep
        /\ UNCHANGED <<file, handed>>

(* The header of a cut record is valid, and cbox_crash_record_valid looks  *)
(* at nothing else: the bytes it lacks are taken from the record behind    *)
(* it, whose own header is then never seen.                                *)
Swallowed(b) ==
    LET swallowed[k \in 1 .. Len(b)] ==
            k > 1 /\ b[k - 1].kind = "cut" /\ ~swallowed[k - 1]
    IN  {k \in 1 .. Len(b) : swallowed[k]}

(* Positions at which the loop finds a record to hand over. *)
OwnIn(b) ==
    {k \in 1 .. Len(b) \ Swallowed(b) :
        b[k].kind = "own" \/ (b[k].kind = "cut" /\ k < Len(b))}

(* Positions at which it finds one of another version. *)
ForeignIn(b) == {k \in 1 .. Len(b) \ Swallowed(b) : b[k].kind = "foreign"}

(* How far the loop of cbox_crash_drain_file gets with a budget of n: to   *)
(* the record that exhausts it, or to the end.                             *)
Reached(b, n) ==
    IF Cardinality(OwnIn(b)) < n THEN Len(b)
    ELSE CHOOSE k \in OwnIn(b) : Cardinality({j \in OwnIn(b) : j <= k}) = n

(* Mutant: the budget ran out, but the file goes anyway. *)
BudgetIgnored(d, reached, foreignSeen) == ~foreignSeen /\ d.whole

(* Every byte was read and every record handed over. *)
Consumable(d, reached, foreignSeen) ==
    /\ ~foreignSeen
    /\ d.whole
    /\ reached = Len(d.buffer)

(* Mutant: what was handed over is not dropped from the file. *)
NothingConsumed(d, reached, foreignSeen) == 0

(* consumed_bytes, in records: through the last one handed over; nothing   *)
(* once a foreign record was stepped over.                                 *)
Consumed(d, reached, foreignSeen) ==
    LET own == {k \in OwnIn(d.buffer) : k <= reached}
    IN  IF foreignSeen \/ own = {} THEN 0
        ELSE CHOOSE k \in own : \A j \in own : j <= k

(* The ghost counts to two: once, and more than once. *)
Again(n) == IF n = 0 THEN 1 ELSE 2

(* The loop of cbox_crash_drain_file: hand over, and settle what may go. *)
DrainVisits ==
    LET b == drain.buffer
        reached == Reached(b, drain.budget)
        visited == {k \in OwnIn(b) : k <= reached}
        foreignSeen == \E k \in ForeignIn(b) : k <= reached
    IN  /\ At("visit")
        /\ handed' = [id \in Ids |-> IF \E k \in visited : b[k].id = id
                                     THEN Again(handed[id]) ELSE handed[id]]
        /\ drain' = [drain EXCEPT
              !.at = "settle",
              !.budget = @ - Cardinality(visited),
              !.consumable = Consumable(drain, reached, foreignSeen),
              !.consumed = Consumed(drain, reached, foreignSeen)]
        /\ kept' = IF foreignSeen THEN kept \cup IdsIn(b) ELSE kept
        /\ UNCHANGED <<procVars, file, crashes, faults, saved>>

DrainNext == [drain EXCEPT !.at = "entry", !.target = None, !.buffer = <<>>,
                           !.whole = FALSE, !.consumable = FALSE, !.consumed = 0]

(* unlink *)
DrainUnlinks ==
    /\ At("settle") /\ drain.consumable
    /\ file' = [file EXCEPT ![drain.target] = None]
    /\ fd' = [p \in Pids |-> IF fd[p] = drain.target THEN Nameless ELSE fd[p]]
    /\ drain' = DrainNext
    /\ UNCHANGED <<alive, spawns, path, crashes, faults, kept, saved, handed>>

(* What is left of file f behind its first n records; the one a cut record *)
(* took bytes from has lost its header.                                    *)
Rest(f, n) ==
    LET rest == SubSeq(f, n + 1, Len(f))
    IN  IF f[n].kind = "cut" THEN [rest EXCEPT ![1].kind = "torn"] ELSE rest

(* The size of records in bytes, as far as it matters: what is left of one *)
(* that was torn is shorter than any header.                               *)
Bytes(s) == Len(SelectSeq(s, LAMBDA r : r.kind # "torn")) * (MaxCrashes + 1)
            + Len(SelectSeq(s, LAMBDA r : r.kind = "torn"))

(* A file of which the front was overwritten with rest: what began behind  *)
(* it is still there.                                                      *)
Overwritten(f, rest) ==
    LET behind == {k \in 1 .. Len(f) : Bytes(SubSeq(f, 1, k - 1)) >= Bytes(rest)}
    IN  rest \o SubSeq(f, Len(f) - Cardinality(behind) + 1, Len(f))

(* cbox_crash_compact up to its last pread: the rest of the file is copied *)
(* to the front.                                                           *)
CompactCopies ==
    LET f == file[drain.target]
        rest == Rest(f, drain.consumed)
    IN  /\ At("settle") /\ ~drain.consumable /\ drain.consumed > 0
        /\ drain' = [drain EXCEPT !.at = "truncate", !.buffer = rest]
        /\ file' = [file EXCEPT ![drain.target] = Overwritten(f, rest)]
        /\ DrainStep
        /\ UNCHANGED handed

(* ftruncate to the length of what was copied *)
CompactTruncates ==
    /\ At("truncate")
    /\ file' = [file EXCEPT ![drain.target] = drain.buffer]
    /\ drain' = DrainNext
    /\ DrainStep
    /\ UNCHANGED handed

(* Records of this file were handed over and are to be removed. *)
Removing == At("truncate") \/ (At("settle") /\ (drain.consumable \/ drain.consumed > 0))

Fault ==
    /\ faults < MaxFaults
    /\ faults' = faults + 1
    /\ kept' = IF Removing THEN kept \cup IdsIn(file[drain.target]) ELSE kept
    /\ UNCHANGED <<procVars, file, crashes, saved, handed>>

(* unlink, open, pwrite or ftruncate fails: the file stays as it is, "long *)
(* only risks re-reporting", and the drain goes on.                        *)
RemovalFails ==
    /\ Removing
    /\ drain' = DrainNext
    /\ Fault

(* The process that drains is killed. *)
CollectorDies ==
    /\ ~At("idle")
    /\ drain' = Idle
    /\ Fault

(* Nothing to drop from this file. *)
DrainKeeps ==
    /\ At("settle") /\ ~drain.consumable /\ drain.consumed = 0
    /\ drain' = DrainNext
    /\ DrainStep
    /\ UNCHANGED <<file, handed>>

DrainEnds ==
    /\ At("entry")
    /\ drain.todo = {} \/ drain.budget = 0
    /\ drain' = Idle
    /\ DrainStep
    /\ UNCHANGED <<file, handed>>

-----------------------------------------------------------------------------
Init ==
    /\ alive = {}
    /\ spawns = 0
    /\ path = [p \in Pids |-> None]
    /\ fd = [p \in Pids |-> None]
    /\ file = [p \in Pids |-> None]
    /\ crashes = 0
    /\ drain = Idle
    /\ faults = 0
    /\ kept = {}
    /\ saved = {}
    /\ handed = [id \in Ids |-> 0]

Crash(p) ==
    \/ HandlerOpens(p)
    \/ \E kind \in Outcomes : HandlerWrites(p, kind)

Process(p) ==
    \/ Spawn(p)
    \/ \E q \in Pids : ForkChild(p, q)
    \/ OpenSink(p)
    \/ Crash(p)
    \/ Dies(p)

DrainRuns ==
    \/ \E p \in Pids : DrainEntry(p)
    \/ DrainReads
    \/ DrainVisits
    \/ DrainUnlinks
    \/ CompactCopies
    \/ CompactTruncates
    \/ DrainKeeps
    \/ DrainEnds

StartDrain == \E max \in Budgets : DrainBegins(max)

Next ==
    \/ \E p \in Pids : Process(p)
    \/ StartDrain
    \/ DrainRuns
    \/ RemovalFails
    \/ CollectorDies

Spec == Init /\ [][Next]_vars

(* The collector is run again and again and each drain comes to its end;   *)
(* every process ends some day.  Nothing else must happen.                 *)
FairSpec ==
    /\ Spec
    /\ WF_vars(StartDrain)
    /\ WF_vars(DrainRuns)
    /\ \A p \in Pids : WF_vars(Dies(p))

-----------------------------------------------------------------------------
(* Properties *)

OnDiskAs(id, kinds) ==
    \E p \in Files : \E k \in 1 .. Len(file[p]) :
        file[p][k].id = id /\ file[p][k].kind \in kinds

OnDisk == {id \in Ids : OnDiskAs(id, {"own", "foreign"})}

(* A record that was written whole is on disk until it is handed over: the *)
(* race of the append with the read, the unlink and the truncate loses     *)
(* nothing, nor do a budget, the read cap or a record of another version.  *)
NoRecordLost == \A id \in saved : id \in OnDisk \/ handed[id] > 0

(* What a drain hands over was written whole: "A torn record would be      *)
(* unparseable" (crash.c).                                                 *)
HandedWhole == \A id \in Ids : handed[id] > 0 => id \in saved

(* No record is handed over twice ("records handed over are removed",      *)
(* docs/core-concepts/crashes.md), unless the collector died or failed     *)
(* before it was removed, or its file holds a record of another version.   *)
HandedOnce == \A id \in Ids : handed[id] > 1 => id \in kept

(* Records that no drain will reach: every drain may spend its budget on   *)
(* the file of a foreign record, which stays, and a file of which one read *)
(* shows torn records alone is left as it is.                              *)
OutOfReach(id) ==
    \E p \in Files :
        \/ \E k \in 1 .. Len(file[p]) : file[p][k].kind = "foreign"
        \/ /\ id \in IdsIn(file[p]) /\ Len(file[p]) > ReadMax
           /\ \A k \in 1 .. ReadMax : file[p][k].kind = "torn"

(* Every record this build can decode is handed over in the end, if the    *)
(* collector keeps being run and fails only so often, whatever its budget: *)
(* the file of a pid that was given out again waits only as long as that   *)
(* process lives.                                                          *)
EventuallyHanded ==
    \A id \in Ids : OnDiskAs(id, {"own"}) ~> handed[id] > 0 \/ OutOfReach(id)

(* Files implement the promise of CrashLog: a record waits while it is on  *)
(* disk and has not been handed over.                                      *)
Log == INSTANCE CrashLog WITH
    waiting <- {id \in OnDisk : handed[id] = 0},
    delivered <- {id \in Ids : handed[id] > 0}

ImplementsCrashLog == Log!Spec
=============================================================================
