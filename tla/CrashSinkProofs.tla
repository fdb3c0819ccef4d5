--------------------------- MODULE CrashSinkProofs ---------------------------
(***************************************************************************)
(* Theorems about CrashSink, for any number of processes, crashes and      *)
(* faults, any budget and any read cap, as long as no process forks with a *)
(* sink prepared and no write is cut short behind its header: the two      *)
(* cases in which records do get lost, and which the runs crash_sink_fork  *)
(* and crash_sink_torn exhibit.                                            *)
(*                                                                         *)
(* Nothing is locked: the drain reads, unlinks and rewrites files that     *)
(* crash handlers append to.  It is safe because a file belongs to one pid *)
(* and the drain works on it only while no process has that pid, so that   *)
(* the file does not change between the read and the removal.              *)
(***************************************************************************)
EXTENDS CrashSink, SequenceTheorems, FiniteSetTheorems, TLAPS

Scope ==
    /\ ForksInherit = FALSE
    /\ "cut" \notin Outcomes

-----------------------------------------------------------------------------
(* The inductive invariant *)

DrainSteps == {"idle", "entry", "read", "visit", "settle", "truncate"}

(* The steps at which the drain works on a file. *)
Working == {"read", "visit", "settle", "truncate"}

DrainType ==
    [at : DrainSteps, todo : SUBSET Pids, budget : Nat, target : Pids \cup {None},
     buffer : Seq(RecordType), whole : BOOLEAN, consumable : BOOLEAN, consumed : Nat]

TypeOK ==
    /\ alive \subseteq Pids
    /\ spawns \in Nat
    /\ path \in [Pids -> Pids \cup {None}]
    /\ fd \in [Pids -> Pids \cup {None}]
    /\ file \in [Pids -> Seq(RecordType) \cup {None}]
    /\ crashes \in 0 .. MaxCrashes
    /\ drain \in DrainType
    /\ faults \in Nat
    /\ kept \subseteq Ids
    /\ saved \subseteq Ids
    /\ handed \in [Ids -> 0 .. 2]

(* A process writes to the file of its own pid, and only while it lives. *)
OwnFile ==
    \A p \in Pids : /\ path[p] \in {None, p}
                    /\ fd[p] \in {None, p}
                    /\ fd[p] # None => p \in alive /\ file[p] # None

(* What files hold was written, and not cut short. *)
Written ==
    \A p \in Files : \A k \in 1 .. Len(file[p]) :
        file[p][k].id <= crashes /\ file[p][k].kind # "cut"

(* The identities seen so far. *)
Numbered ==
    /\ \A id \in saved : id <= crashes
    /\ \A id \in Ids : handed[id] > 0 => id <= crashes

(* Nobody else touches the file the drain works on. *)
Undisturbed ==
    /\ drain.at \in Working => drain.target \in Files \ alive
    /\ drain.at \notin Working => drain.target = None
    /\ drain.todo \subseteq Files \ {drain.target}
    /\ drain.at \in {"read", "visit"} => drain.budget > 0

(* The buffer is the front of the file as it still is. *)
BufferIsFront ==
    drain.at \in {"visit", "settle"} =>
        LET f == file[drain.target]
        IN  /\ Len(drain.buffer) = IF Len(f) < ReadMax THEN Len(f) ELSE ReadMax
            /\ \A k \in 1 .. Len(drain.buffer) : drain.buffer[k] = f[k]
            /\ drain.whole <=> Len(f) <= ReadMax

(* A record that may be dropped from its file. *)
Spent(r) == r.kind \in {"own", "foreign"} => handed[r.id] > 0

(* The record at position k of p's file is about to be removed. *)
Going(p, k) ==
    /\ p = drain.target
    /\ \/ drain.at = "settle" /\ (drain.consumable \/ k <= drain.consumed)
       \/ drain.at = "truncate"

(* What is about to be removed has been handed over; what a compaction has *)
(* copied to the front is the rest of the file.                            *)
RemovalIsSafe ==
    LET f == file[drain.target]
        b == drain.buffer
    IN  /\ drain.at = "settle" =>
              /\ drain.consumed <= Len(b)
              /\ \A k \in 1 .. Len(f) : Going(drain.target, k) => Spent(f[k])
        /\ drain.at = "truncate" =>
              /\ \A k \in 1 .. Len(b) : \E j \in 1 .. Len(f) : b[k] = f[j]
              /\ \A j \in 1 .. Len(f) : Spent(f[j]) \/ \E k \in 1 .. Len(b) : b[k] = f[j]

SafeInv ==
    /\ TypeOK
    /\ OwnFile
    /\ Written
    /\ Numbered
    /\ Undisturbed
    /\ BufferIsFront
    /\ RemovalIsSafe
    /\ NoRecordLost

(* Two places on disk hold the same record only while a compaction runs or *)
(* after one was interrupted.                                              *)
OnePlace ==
    \A p, q \in Files : \A k \in 1 .. Len(file[p]), l \in 1 .. Len(file[q]) :
        file[p][k].id = file[q][l].id =>
            \/ p = q /\ k = l
            \/ file[p][k].id \in kept
            \/ p = q /\ p = drain.target /\ drain.at = "truncate"

(* A record that was handed over and is still on disk is about to go, or   *)
(* is one of those that may be reported again.                             *)
HandedGoes ==
    \A p \in Files : \A k \in 1 .. Len(file[p]) :
        handed[file[p][k].id] > 0 => file[p][k].id \in kept \/ Going(p, k)

(* What a compaction leaves has not been handed over. *)
RestIsNew ==
    drain.at = "truncate" =>
        /\ \A k \in 1 .. Len(drain.buffer) :
              handed[drain.buffer[k].id] > 0 => drain.buffer[k].id \in kept
        /\ \A k, l \in 1 .. Len(drain.buffer) :
              drain.buffer[k].id = drain.buffer[l].id =>
                  k = l \/ drain.buffer[k].id \in kept

OnceInv ==
    /\ OnePlace
    /\ HandedGoes
    /\ RestIsNew
    /\ HandedOnce

-----------------------------------------------------------------------------
(* Lemmas about the operators *)

(* A set of naturals has a least element. *)
LEMMA Least ==
    ASSUME NEW T, T \subseteq Nat, T # {}
    PROVE  \E x \in T : \A y \in T : x <= y
<1> DEFINE R == OpToRel(<, Nat)
<1>1. PICK x \in T : \A y \in T : ~(<<y, x>> \in R)
  BY NatLessThanWellFounded, WFMin, Zenon
<1>2. \A y \in T : ~(y < x)
  BY <1>1 DEF OpToRel
<1>3. QED
  BY <1>2

(* A bounded set of naturals has a greatest element. *)
LEMMA Greatest ==
    ASSUME NEW n \in Nat, NEW T, T \subseteq 1 .. n, T # {}
    PROVE  \E x \in T : \A y \in T : y <= x
<1> DEFINE D == {m \in Nat : \E y \in T : m = n - y}
<1>1. D \subseteq Nat /\ D # {}
  <2>1. PICK y : y \in T
    OBVIOUS
  <2>2. n - y \in D
    BY <2>1
  <2>3. QED
    BY <2>2
<1>2. PICK m \in D : \A z \in D : m <= z
  BY <1>1, Least
<1>3. PICK x \in T : m = n - x
  BY <1>2
<1>4. ASSUME NEW y \in T
      PROVE  y <= x
  <2>1. n - y \in D
    OBVIOUS
  <2>2. m <= n - y
    BY <1>2, <2>1
  <2>3. x \in 1 .. n /\ y \in 1 .. n
    OBVIOUS
  <2> HIDE DEF D
  <2>4. QED
    BY <1>3, <2>2, <2>3
<1>5. QED
  BY <1>4

(* A file without a cut record hides none. *)
LEMMA NothingSwallowed ==
    ASSUME NEW b \in Seq(RecordType), \A k \in 1 .. Len(b) : b[k].kind # "cut"
    PROVE  /\ OwnIn(b) = {k \in 1 .. Len(b) : b[k].kind = "own"}
           /\ ForeignIn(b) = {k \in 1 .. Len(b) : b[k].kind = "foreign"}
<1> DEFINE F(f) == f = [k \in 1 .. Len(b) |-> k > 1 /\ b[k - 1].kind = "cut" /\ ~f[k - 1]]
           none == [k \in 1 .. Len(b) |-> FALSE]
           sw == CHOOSE f : F(f)
<1>1. F(none)
  <2>1. \A k \in 1 .. Len(b) : ~(k > 1 /\ b[k - 1].kind = "cut" /\ ~none[k - 1])
    OBVIOUS
  <2>2. QED
    BY <2>1
<1>2. F(sw)
  BY <1>1
<1> HIDE DEF sw
<1>3. ASSUME NEW k \in 1 .. Len(b)
      PROVE  ~sw[k]
  <2>1. sw[k] = (k > 1 /\ b[k - 1].kind = "cut" /\ ~sw[k - 1])
    BY <1>2
  <2>2. k > 1 => k - 1 \in 1 .. Len(b)
    OBVIOUS
  <2>3. QED
    BY <2>1, <2>2
<1> USE DEF sw
<1>4. Swallowed(b) = {k \in 1 .. Len(b) : sw[k]}
  BY DEF Swallowed
<1>5. Swallowed(b) = {}
  BY <1>3, <1>4
<1>6. QED
  BY <1>5 DEF OwnIn, ForeignIn

(* The members of S up to k. *)
UpTo(S, k) == {j \in S : j <= k}

(* A set of numbers in 1 .. m, and its parts, can be counted. *)
LEMMA Countable ==
    ASSUME NEW m \in Nat, NEW S, S \subseteq 1 .. m, NEW R, R \subseteq S
    PROVE  /\ IsFiniteSet(R) /\ Cardinality(R) \in Nat
           /\ Cardinality(S) \in Nat
           /\ Cardinality(R) <= Cardinality(S)
           /\ Cardinality(S) <= m
<1>1. /\ IsFiniteSet(1 .. m)
      /\ Cardinality(1 .. m) = IF 1 > m THEN 0 ELSE m - 1 + 1
  <2>1. 1 \in Int /\ m \in Int
    OBVIOUS
  <2>2. QED
    BY <2>1, FS_Interval
<1>2. IsFiniteSet(S) /\ Cardinality(S) <= Cardinality(1 .. m)
  BY <1>1, FS_Subset
<1>3. IsFiniteSet(R) /\ Cardinality(R) <= Cardinality(S)
  BY <1>2, FS_Subset
<1>4. Cardinality(R) \in Nat /\ Cardinality(S) \in Nat
  BY <1>2, <1>3, FS_CardinalityType
<1>5. QED
  BY <1>1, <1>2, <1>3, <1>4

(* A set with n members or more has one up to which there are exactly n. *)
LEMMA NthMember ==
    ASSUME NEW m \in Nat, NEW S, S \subseteq 1 .. m,
           NEW n \in Nat \ {0}, Cardinality(S) >= n
    PROVE  \E x \in S : Cardinality(UpTo(S, x)) = n
<1> DEFINE T == {k \in S : Cardinality(UpTo(S, k)) >= n}
<1>1. S # {}
  BY FS_EmptySet
<1>2. PICK g \in S : \A y \in S : y <= g
  BY <1>1, Greatest
<1>3. UpTo(S, g) = S
  BY <1>2 DEF UpTo
<1>4. g \in T
  BY <1>3
<1>5. T \subseteq Nat /\ T # {}
  <2>1. T \subseteq S /\ S \subseteq Nat
    OBVIOUS
  <2>2. QED
    BY <1>4, <2>1, Zenon
<1>6. PICK x \in T : \A y \in T : x <= y
  BY <1>5, Least
<1>7. x \in S /\ x \in 1 .. m /\ Cardinality(UpTo(S, x)) >= n
  BY <1>6
<1> DEFINE P == {j \in S : j < x}
<1>8. UpTo(S, x) = P \cup {x} /\ x \notin P /\ P \subseteq S
  <2>1. \A j \in S : j <= x <=> j < x \/ j = x
    BY <1>7
  <2>2. ~(x < x)
    BY <1>7
  <2>3. QED
    BY <1>7, <2>1, <2>2, Zenon DEF UpTo
<1>9. Cardinality(UpTo(S, x)) = Cardinality(P) + 1 /\ Cardinality(P) \in Nat
  <2>1. IsFiniteSet(P) /\ Cardinality(P) \in Nat
    BY <1>8, Countable
  <2> HIDE DEF P
  <2>2. QED
    BY <1>8, <2>1, FS_AddElement
<1>10. Cardinality(P) < n
  <2>1. CASE P = {}
    BY <2>1, FS_EmptySet
  <2>2. CASE P # {}
    <3>1. PICK y \in P : \A z \in P : z <= y
      <4>1. P \subseteq 1 .. m
        OBVIOUS
      <4> HIDE DEF P
      <4>2. QED
        BY <2>2, <4>1, Greatest
    <3>2. y \in S /\ y \in 1 .. m /\ y < x
      OBVIOUS
    <3>3. UpTo(S, y) = P
      <4>1. \A j \in S : j <= y <=> j < x
        <5>1. \A j \in S : j \in Int
          OBVIOUS
        <5>2. ASSUME NEW j \in S, j <= y
              PROVE  j < x
          BY <1>7, <3>2, <5>1, <5>2
        <5>3. ASSUME NEW j \in S, j < x
              PROVE  j <= y
          BY <3>1, <5>3
        <5>4. QED
          BY <5>2, <5>3
      <4>2. QED
        BY <4>1, Zenon DEF UpTo
    <3>4. y \notin T
      BY <1>6, <1>7, <3>2
    <3>5. ~(Cardinality(UpTo(S, y)) >= n)
      BY <3>2, <3>4
    <3> HIDE DEF P
    <3>6. QED
      BY <1>9, <3>3, <3>5
  <2>3. QED
    BY <2>1, <2>2
<1> HIDE DEF P
<1>11. Cardinality(UpTo(S, x)) = n
  BY <1>7, <1>9, <1>10
<1>12. QED
  BY <1>7, <1>11

(* The loop of cbox_crash_drain_file stops inside the buffer and hands     *)
(* over no more than its budget.                                           *)
LEMMA ReachedBound ==
    ASSUME NEW b \in Seq(RecordType), NEW n \in Nat \ {0}
    PROVE  /\ Reached(b, n) \in 0 .. Len(b)
           /\ Cardinality(UpTo(OwnIn(b), Reached(b, n))) \in 0 .. n
<1>1. Len(b) \in Nat /\ OwnIn(b) \subseteq 1 .. Len(b)
  BY DEF OwnIn
<1>2. Cardinality(OwnIn(b)) \in Nat
  BY <1>1, Countable
<1>3. CASE Cardinality(OwnIn(b)) < n
  <2>1. Reached(b, n) = Len(b)
    BY <1>3 DEF Reached
  <2>2. UpTo(OwnIn(b), Len(b)) \subseteq OwnIn(b)
    BY DEF UpTo
  <2>3. /\ Cardinality(UpTo(OwnIn(b), Len(b))) \in Nat
        /\ Cardinality(UpTo(OwnIn(b), Len(b))) <= Cardinality(OwnIn(b))
    BY <1>1, <2>2, Countable
  <2>4. QED
    BY <1>1, <1>2, <1>3, <2>1, <2>3
<1>4. CASE ~(Cardinality(OwnIn(b)) < n)
  <2>1. \E k \in OwnIn(b) : Cardinality(UpTo(OwnIn(b), k)) = n
    <3>1. Cardinality(OwnIn(b)) >= n
      BY <1>2, <1>4
    <3>2. QED
      BY <1>1, <3>1, NthMember
  <2>2. Reached(b, n) = CHOOSE k \in OwnIn(b) : Cardinality(UpTo(OwnIn(b), k)) = n
    BY <1>4, Zenon DEF Reached, UpTo
  <2>3. Reached(b, n) \in OwnIn(b) /\ Cardinality(UpTo(OwnIn(b), Reached(b, n))) = n
    BY <2>1, <2>2
  <2>4. QED
    BY <1>1, <2>3
<1>5. QED
  BY <1>3, <1>4

(* What may be dropped from the front of the file: through the last record *)
(* that was handed over, and nothing behind a foreign one.                 *)
LEMMA ConsumedBound ==
    ASSUME NEW d \in DrainType, NEW r \in 0 .. Len(d.buffer), NEW foreignSeen \in BOOLEAN
    PROVE  LET own == {k \in OwnIn(d.buffer) : k <= r}
               c == Consumed(d, r, foreignSeen)
           IN  /\ c \in 0 .. r
               /\ c > 0 => ~foreignSeen /\ \A k \in own : k <= c
               /\ c = 0 => foreignSeen \/ own = {}
<1> DEFINE own == {k \in OwnIn(d.buffer) : k <= r}
           c == Consumed(d, r, foreignSeen)
<1>1. Len(d.buffer) \in Nat /\ own \subseteq 1 .. r /\ r \in Nat
  BY DEF OwnIn, DrainType
<1> HIDE DEF own
<1>2. CASE foreignSeen \/ own = {}
  <2>1. c = 0
    BY <1>2 DEF Consumed, own
  <2>2. QED
    BY <1>1, <1>2, <2>1 DEF own
<1>3. CASE ~(foreignSeen \/ own = {})
  <2>1. \E k \in own : \A j \in own : j <= k
    BY <1>1, <1>3, Greatest
  <2>2. c = CHOOSE k \in own : \A j \in own : j <= k
    BY <1>3 DEF Consumed, own
  <2>3. c \in own /\ \A j \in own : j <= c
    BY <2>1, <2>2
  <2>4. QED
    BY <1>1, <1>3, <2>3 DEF own
<1>4. QED
  BY <1>2, <1>3

(* Copying the rest of a file to its front adds no record and leaves the   *)
(* rest whole.                                                             *)
LEMMA OverwrittenHolds ==
    ASSUME NEW f \in Seq(RecordType), NEW rest \in Seq(RecordType)
    PROVE  LET o == Overwritten(f, rest)
           IN  /\ o \in Seq(RecordType)
               /\ Len(rest) <= Len(o)
               /\ \A k \in 1 .. Len(rest) : o[k] = rest[k]
               /\ \A k \in 1 .. Len(o) :
                     \/ \E j \in 1 .. Len(rest) : o[k] = rest[j]
                     \/ \E j \in 1 .. Len(f) : o[k] = f[j]
<1> DEFINE behind == {k \in 1 .. Len(f) : Bytes(SubSeq(f, 1, k - 1)) >= Bytes(rest)}
           c == Cardinality(behind)
           tail == SubSeq(f, Len(f) - c + 1, Len(f))
           o == rest \o tail
<1>1. Overwritten(f, rest) = o
  BY DEF Overwritten
<1>2. c \in 0 .. Len(f)
  <2>1. Len(f) \in Nat /\ behind \subseteq 1 .. Len(f)
    OBVIOUS
  <2> HIDE DEF behind
  <2>2. c \in Nat /\ c <= Len(f)
    BY <2>1, Countable
  <2>3. QED
    BY <2>1, <2>2
<1> HIDE DEF c
<1>3. /\ tail \in Seq(RecordType) /\ Len(tail) = c
      /\ \A k \in 1 .. c : tail[k] = f[Len(f) - c + k]
  BY <1>2
<1> HIDE DEF tail
<1>4. /\ o \in Seq(RecordType) /\ Len(o) = Len(rest) + Len(tail)
      /\ \A i \in 1 .. Len(rest) + Len(tail) :
            o[i] = IF i <= Len(rest) THEN rest[i] ELSE tail[i - Len(rest)]
  BY <1>3, ConcatProperties, Zenon
<1> HIDE DEF o
<1>5. Len(rest) \in Nat /\ Len(f) \in Nat
  OBVIOUS
<1>6. Len(rest) <= Len(o) /\ \A k \in 1 .. Len(rest) : o[k] = rest[k]
  BY <1>2, <1>3, <1>4, <1>5
<1>7. ASSUME NEW k \in 1 .. Len(o)
      PROVE  \/ \E j \in 1 .. Len(rest) : o[k] = rest[j]
             \/ \E j \in 1 .. Len(f) : o[k] = f[j]
  <2>1. CASE k <= Len(rest)
    BY <1>5, <1>6, <2>1
  <2>2. CASE k > Len(rest)
    <3>1. k - Len(rest) \in 1 .. c /\ o[k] = tail[k - Len(rest)]
      BY <1>2, <1>3, <1>4, <1>5, <2>2
    <3>2. o[k] = f[Len(f) - c + (k - Len(rest))]
      BY <1>3, <3>1
    <3>3. Len(f) - c + (k - Len(rest)) \in 1 .. Len(f)
      BY <1>2, <1>5, <3>1
    <3>4. QED
      BY <3>2, <3>3
  <2>3. QED
    BY <1>3, <1>4, <1>5, <2>1, <2>2
<1>8. QED
  BY <1>1, <1>4, <1>6, <1>7

-----------------------------------------------------------------------------
(* Every step preserves SafeInv *)

(* The locals of the drain. *)
LEMMA DrainFields ==
    ASSUME TypeOK
    PROVE  /\ drain.at \in DrainSteps /\ drain.todo \subseteq Pids
           /\ drain.budget \in Nat /\ drain.target \in Pids \cup {None}
           /\ drain.buffer \in Seq(RecordType) /\ Len(drain.buffer) \in Nat
           /\ drain.whole \in BOOLEAN /\ drain.consumable \in BOOLEAN
           /\ drain.consumed \in Nat
  BY DEF TypeOK, DrainType

(* A file with a name is a sequence of records. *)
LEMMA FileType ==
    ASSUME TypeOK, NEW p \in Files
    PROVE  /\ p \in Pids /\ file[p] \in Seq(RecordType) /\ Len(file[p]) \in Nat
           /\ \A k \in 1 .. Len(file[p]) : /\ file[p][k] \in RecordType
                                           /\ file[p][k].id \in Ids
                                           /\ file[p][k].kind \in Kinds
<1>1. p \in Pids /\ file[p] \in Seq(RecordType)
  BY DEF TypeOK, Files
<1>2. Len(file[p]) \in Nat /\ \A k \in 1 .. Len(file[p]) : file[p][k] \in RecordType
  BY <1>1
<1>3. QED
  BY <1>1, <1>2 DEF RecordType

(* A record that is on disk is in some file. *)
LEMMA OnDiskIn ==
    ASSUME NEW id \in Ids
    PROVE  id \in OnDisk <=> \E p \in Files : \E k \in 1 .. Len(file[p]) :
               file[p][k].id = id /\ file[p][k].kind \in {"own", "foreign"}
  BY Zenon DEF OnDisk, OnDiskAs

(* What a step keeps that only creates empty files. *)
DiskInv == Written /\ Numbered /\ BufferIsFront /\ RemovalIsSafe /\ NoRecordLost

LEMMA FilesStay ==
    ASSUME SafeInv,
           Files \subseteq Files',
           \A q \in Files : file'[q] = file[q],
           \A q \in Files' : q \in Files \/ file'[q] = <<>>,
           UNCHANGED <<crashes, drain, saved, handed>>
    PROVE  DiskInv'
<1> USE DEF SafeInv
<1>1. \A q \in Files' : \A k \in 1 .. Len(file'[q]) : q \in Files
  OBVIOUS
<1>2. Written'
  <2>1. ASSUME NEW q \in Files', NEW k \in 1 .. Len(file'[q])
        PROVE  file'[q][k].id <= crashes' /\ file'[q][k].kind # "cut"
    <3>1. q \in Files /\ file'[q] = file[q]
      BY <1>1
    <3>2. QED
      BY <3>1 DEF Written
  <2>2. QED
    BY <2>1, Zenon DEF Written
<1>3. Numbered'
  BY DEF Numbered
<1>4. drain.at \in Working => drain.target \in Files /\ file'[drain.target] = file[drain.target]
  BY DEF Undisturbed
<1>5. BufferIsFront'
  BY <1>4 DEF BufferIsFront, Working
<1>6. RemovalIsSafe'
  <2>1. drain.at = "settle" \/ drain.at = "truncate" => file'[drain.target] = file[drain.target]
    BY <1>4 DEF Working
  <2>2. drain' = drain /\ handed' = handed
    OBVIOUS
  <2>3. CASE drain.at = "settle" \/ drain.at = "truncate"
    <3>1. file'[drain.target] = file[drain.target]
      BY <2>1, <2>3
    <3>2. RemovalIsSafe
      OBVIOUS
    <3>3. QED
      BY <2>2, <3>1, <3>2 DEF RemovalIsSafe, Going, Spent
  <2>4. CASE ~(drain.at = "settle" \/ drain.at = "truncate")
    BY <2>2, <2>4 DEF RemovalIsSafe
  <2>5. QED
    BY <2>3, <2>4
<1>7. NoRecordLost'
  <2> SUFFICES ASSUME NEW id \in saved, ~(handed[id] > 0)
               PROVE  (id \in OnDisk)'
    BY DEF NoRecordLost
  <2>1. id \in Ids /\ id \in OnDisk
    BY DEF NoRecordLost, TypeOK
  <2>2. PICK p \in Files : \E k \in 1 .. Len(file[p]) :
            file[p][k].id = id /\ file[p][k].kind \in {"own", "foreign"}
    BY <2>1, OnDiskIn
  <2>3. p \in Files' /\ file'[p] = file[p]
    OBVIOUS
  <2>4. QED
    BY <2>1, <2>2, <2>3, Zenon DEF OnDisk, OnDiskAs
<1>8. QED
  BY <1>2, <1>3, <1>5, <1>6, <1>7 DEF DiskInv

(* A process starts, prepares its sink or ends. *)
LEMMA ProcessStep ==
    ASSUME Scope, SafeInv, NEW p \in Pids,
           \/ Spawn(p) \/ (\E q \in Pids : ForkChild(p, q))
           \/ OpenSink(p) \/ Dies(p)
    PROVE  SafeInv'
<1> USE CrashSinkAssumption DEF SafeInv
<1>1. UNCHANGED <<file, crashes, drain, faults, kept, saved, handed>>
  BY DEF Spawn, ForkChild, Started, OpenSink, Dies
<1>2. Files' = Files
  BY <1>1 DEF Files
<1>3. DiskInv'
  BY <1>1, <1>2, FilesStay
<1>4. ASSUME NEW q \in Pids, Started(q), path' = [path EXCEPT ![q] = None]
      PROVE  TypeOK' /\ OwnFile' /\ (drain.target \notin alive => drain.target \notin alive')
  <2>1. TypeOK'
    BY <1>1, <1>4 DEF TypeOK, Started
  <2>2. OwnFile'
    BY <1>1, <1>4 DEF OwnFile, TypeOK, Started
  <2>3. QED
    BY <1>4, <2>1, <2>2 DEF Started
<1>5. TypeOK' /\ OwnFile' /\ (drain.target \notin alive => drain.target \notin alive')
  <2>1. CASE Spawn(p)
    BY <2>1, <1>4 DEF Spawn
  <2>2. ASSUME NEW q \in Pids, ForkChild(p, q)
        PROVE  TypeOK' /\ OwnFile' /\ (drain.target \notin alive => drain.target \notin alive')
    <3>1. Started(q) /\ path' = [path EXCEPT ![q] = None]
      BY <2>2 DEF ForkChild, Scope
    <3>2. QED
      BY <3>1, <1>4
  <2>3. CASE OpenSink(p)
    BY <1>1, <2>3 DEF OpenSink, TypeOK, OwnFile
  <2>4. CASE Dies(p)
    BY <1>1, <2>4 DEF Dies, TypeOK, OwnFile
  <2>5. QED
    BY <2>1, <2>2, <2>3, <2>4
<1>6. Undisturbed'
  BY <1>1, <1>2, <1>5, Zenon DEF Undisturbed
<1>7. QED
  BY <1>3, <1>5, <1>6 DEF DiskInv

(* The handler opens its file. *)
LEMMA OpenStep ==
    ASSUME SafeInv, NEW p \in Pids, HandlerOpens(p)
    PROVE  SafeInv'
<1> USE CrashSinkAssumption DEF SafeInv
<1>1. /\ UNCHANGED <<alive, spawns, path, crashes, drain, faults, kept, saved, handed>>
      /\ p \in alive /\ path[p] = p
      /\ fd' = [fd EXCEPT ![p] = p]
      /\ file' = [file EXCEPT ![p] = IF @ = None THEN <<>> ELSE @]
  BY DEF HandlerOpens, OwnFile
<1>2. <<>> \in Seq(RecordType) /\ None \notin Seq(RecordType)
  BY PlaceholderAssumption
<1>3. TypeOK'
  BY <1>1, <1>2 DEF TypeOK
<1>4. /\ \A q \in Pids : q # p => file'[q] = file[q]
      /\ file[p] = None => file'[p] = <<>>
      /\ file[p] # None => file'[p] = file[p]
  BY <1>1 DEF TypeOK
<1>5. /\ Files \subseteq Files' /\ p \in Files'
      /\ \A q \in Files : file'[q] = file[q]
      /\ \A q \in Files' : q \in Files \/ file'[q] = <<>>
  BY <1>2, <1>4 DEF Files
<1>6. DiskInv'
  BY <1>1, <1>5, FilesStay
<1>7. OwnFile'
  BY <1>1, <1>3, <1>5 DEF OwnFile, TypeOK, Files
<1>8. Undisturbed'
  BY <1>1, <1>5 DEF Undisturbed
<1>9. QED
  BY <1>3, <1>6, <1>7, <1>8 DEF DiskInv

(* What the handler's write does to the files. *)
LEMMA WriteEffect ==
    ASSUME SafeInv, NEW p \in Pids, NEW kind \in Kinds, HandlerWrites(p, kind)
    PROVE  LET r == [id |-> crashes + 1, kind |-> kind]
               n == Len(file[p])
           IN  /\ p \in Files /\ p \in alive /\ p # drain.target
               /\ crashes' = crashes + 1 /\ crashes + 1 \in Ids
               /\ r \in RecordType
               /\ alive' = alive \ {p} /\ fd' = [fd EXCEPT ![p] = None]
               /\ file' = [file EXCEPT ![p] = Append(file[p], r)]
               /\ Files' = Files
               /\ \A q \in Pids : q # p => file'[q] = file[q]
               /\ file'[p] \in Seq(RecordType) /\ Len(file'[p]) = n + 1
               /\ \A k \in 1 .. n : file'[p][k] = file[p][k]
               /\ file'[p][n + 1] = r
               /\ UNCHANGED <<spawns, path, drain, faults, kept, handed>>
<1> USE CrashSinkAssumption DEF SafeInv
<1> DEFINE r == [id |-> crashes + 1, kind |-> kind]
<1>1. /\ p \in alive /\ fd[p] = p /\ file[p] # None /\ p \in Files
      /\ crashes < MaxCrashes
  BY DEF HandlerWrites, OwnFile, Files
<1>2. p # drain.target
  <2>1. CASE drain.at \in Working
    BY <1>1, <2>1 DEF Undisturbed
  <2>2. CASE drain.at \notin Working
    BY <2>2 DEF Undisturbed
  <2>3. QED
    BY <2>1, <2>2
<1>3. crashes + 1 \in Ids /\ r \in RecordType
  BY <1>1 DEF TypeOK, Ids, RecordType, Kinds
<1>4. file' = [file EXCEPT ![p] = Append(file[p], r)]
  <2>1. fd[p] # Nameless
    BY <1>1, PlaceholderAssumption
  <2>2. QED
    BY <1>1, <2>1 DEF HandlerWrites
<1>5. file[p] \in Seq(RecordType) /\ Len(file[p]) \in Nat
  BY <1>1, FileType
<1> HIDE DEF r
<1>6. /\ Append(file[p], r) \in Seq(RecordType)
      /\ Len(Append(file[p], r)) = Len(file[p]) + 1
      /\ \A k \in 1 .. Len(file[p]) : Append(file[p], r)[k] = file[p][k]
      /\ Append(file[p], r)[Len(file[p]) + 1] = r
  BY <1>3, <1>5
<1>7. /\ file'[p] = Append(file[p], r)
      /\ \A q \in Pids : q # p => file'[q] = file[q]
  BY <1>4 DEF TypeOK
<1>8. Files' = Files
  <2>1. file'[p] # None
    BY <1>6, <1>7, PlaceholderAssumption
  <2>2. QED
    BY <1>1, <1>7, <2>1 DEF Files
<1>9. /\ crashes' = crashes + 1 /\ alive' = alive \ {p} /\ fd' = [fd EXCEPT ![p] = None]
      /\ UNCHANGED <<spawns, path, drain, faults, kept, handed>>
  BY DEF HandlerWrites
<1>10. QED
  BY <1>1, <1>2, <1>3, <1>4, <1>6, <1>7, <1>8, <1>9 DEF r

(* The handler appends its record and the process dies. *)
LEMMA WriteStep ==
    ASSUME Scope, SafeInv, NEW p \in Pids, NEW kind \in Outcomes, HandlerWrites(p, kind)
    PROVE  SafeInv'
<1> USE CrashSinkAssumption DEF SafeInv
<1> DEFINE r == [id |-> crashes + 1, kind |-> kind]
           n == Len(file[p])
<1>1. kind \in Kinds /\ kind # "cut"
  BY DEF Scope, Kinds
<1>2. /\ p \in Files /\ p \in alive /\ p # drain.target
      /\ crashes' = crashes + 1 /\ crashes + 1 \in Ids
      /\ r \in RecordType
      /\ alive' = alive \ {p} /\ fd' = [fd EXCEPT ![p] = None]
      /\ file' = [file EXCEPT ![p] = Append(file[p], r)]
      /\ Files' = Files
      /\ \A q \in Pids : q # p => file'[q] = file[q]
      /\ file'[p] \in Seq(RecordType) /\ Len(file'[p]) = n + 1
      /\ \A k \in 1 .. n : file'[p][k] = file[p][k]
      /\ file'[p][n + 1] = r
      /\ UNCHANGED <<spawns, path, drain, faults, kept, handed>>
  BY <1>1, WriteEffect, Zenon
<1>3. n \in Nat /\ crashes \in Nat /\ r.id = crashes + 1 /\ r.kind = kind
  BY <1>2, FileType DEF TypeOK
<1>4. saved' = IF kind \in {"own", "foreign"} THEN saved \cup {crashes + 1} ELSE saved
  BY DEF HandlerWrites
<1> HIDE DEF r, n
<1>5. TypeOK'
  <2>1. crashes' \in 0 .. MaxCrashes
    BY <1>2 DEF Ids
  <2>2. file' \in [Pids -> Seq(RecordType) \cup {None}]
    BY <1>2 DEF TypeOK
  <2>3. saved' \subseteq Ids
    BY <1>2, <1>4 DEF TypeOK
  <2>4. QED
    BY <1>2, <2>1, <2>2, <2>3 DEF TypeOK
<1>6. OwnFile'
  BY <1>2 DEF OwnFile, TypeOK, Files
<1>7. Written'
  <2> SUFFICES ASSUME NEW q \in Files', NEW k \in 1 .. Len(file'[q])
               PROVE  file'[q][k].id <= crashes' /\ file'[q][k].kind # "cut"
    BY DEF Written
  <2>1. CASE q # p
    <3>1. q \in Files /\ file'[q] = file[q]
      BY <1>2, <2>1 DEF Files
    <3>2. file[q][k].id <= crashes /\ file[q][k].kind # "cut" /\ file[q][k].id \in Ids
      BY <3>1, FileType DEF Written
    <3>3. file[q][k].id <= crashes + 1
      BY <1>3, <3>2 DEF Ids
    <3>4. QED
      BY <1>2, <3>1, <3>2, <3>3
  <2>2. CASE q = p /\ k <= n
    <3>1. k \in 1 .. n /\ file'[q][k] = file[p][k]
      BY <1>2, <1>3, <2>2
    <3>2. file[p][k].id <= crashes /\ file[p][k].kind # "cut" /\ file[p][k].id \in Ids
      <4>1. p \in Files /\ k \in 1 .. Len(file[p])
        BY <1>2, <3>1 DEF n
      <4>2. QED
        BY <4>1, FileType DEF Written
    <3>3. QED
      BY <1>2, <1>3, <3>1, <3>2 DEF Ids
  <2>3. CASE q = p /\ k = n + 1
    BY <1>1, <1>2, <1>3, <2>3
  <2>4. QED
    BY <1>2, <1>3, <2>1, <2>2, <2>3
<1>8. Numbered'
  <2>1. \A id \in Ids : id <= crashes => id <= crashes'
    BY <1>2, <1>3 DEF Ids
  <2>2. \A id \in saved : id \in Ids
    BY DEF TypeOK
  <2>3. QED
    BY <1>2, <1>3, <1>4, <2>1, <2>2 DEF Numbered
<1>9. Undisturbed'
  BY <1>2 DEF Undisturbed
<1>10. drain.at \in Working => file'[drain.target] = file[drain.target]
  BY <1>2 DEF Undisturbed, Files
<1>11. BufferIsFront'
  BY <1>2, <1>10 DEF BufferIsFront, Working
<1>12. RemovalIsSafe'
  <2>1. drain' = drain /\ handed' = handed
    BY <1>2
  <2>2. CASE drain.at = "settle" \/ drain.at = "truncate"
    <3>1. file'[drain.target] = file[drain.target]
      BY <1>10, <2>2 DEF Working
    <3>2. RemovalIsSafe
      OBVIOUS
    <3>3. QED
      BY <2>1, <3>1, <3>2 DEF RemovalIsSafe, Going, Spent
  <2>3. CASE ~(drain.at = "settle" \/ drain.at = "truncate")
    BY <2>1, <2>3 DEF RemovalIsSafe
  <2>4. QED
    BY <2>2, <2>3
<1>13. NoRecordLost'
  <2> SUFFICES ASSUME NEW id \in saved', ~(handed[id] > 0)
               PROVE  (id \in OnDisk)'
    BY <1>2 DEF NoRecordLost
  <2>1. CASE id = crashes + 1 /\ kind \in {"own", "foreign"}
    <3>1. /\ p \in Files' /\ n + 1 \in 1 .. Len(file'[p])
          /\ file'[p][n + 1].id = id /\ file'[p][n + 1].kind \in {"own", "foreign"}
      BY <1>2, <1>3, <2>1
    <3>2. id \in Ids
      BY <1>2, <2>1
    <3>3. QED
      BY <3>1, <3>2, Zenon DEF OnDisk, OnDiskAs
  <2>2. CASE id \in saved
    <3>1. id \in Ids /\ id \in OnDisk
      BY <2>2 DEF NoRecordLost, TypeOK
    <3>2. PICK q \in Files : \E k \in 1 .. Len(file[q]) :
              file[q][k].id = id /\ file[q][k].kind \in {"own", "foreign"}
      BY <3>1, OnDiskIn
    <3>3. PICK k \in 1 .. Len(file[q]) :
              file[q][k].id = id /\ file[q][k].kind \in {"own", "foreign"}
      BY <3>2
    <3>4. q \in Files' /\ k \in 1 .. Len(file'[q]) /\ file'[q][k] = file[q][k]
      BY <1>2, <1>3, <3>2 DEF Files, n
    <3>5. QED
      BY <3>1, <3>3, <3>4, Zenon DEF OnDisk, OnDiskAs
  <2>3. QED
    BY <1>4, <2>1, <2>2
<1>14. QED
  BY <1>5, <1>6, <1>7, <1>8, <1>9, <1>11, <1>12, <1>13

(* Steps of the collector that read only. *)
LEMMA DiskSame ==
    ASSUME SafeInv, UNCHANGED <<procVars, file, crashes, saved, handed>>
    PROVE  /\ OwnFile' /\ Written' /\ Numbered' /\ NoRecordLost'
           /\ Files' = Files
           /\ \A p : file'[p] = file[p]
<1> USE DEF SafeInv
<1>1. /\ alive' = alive /\ path' = path /\ fd' = fd /\ file' = file
      /\ crashes' = crashes /\ saved' = saved /\ handed' = handed
  BY DEF procVars
<1>2. Files' = Files
  BY <1>1 DEF Files
<1>3. OwnFile' /\ Written' /\ Numbered'
  BY <1>1, <1>2, Zenon DEF OwnFile, Written, Numbered
<1>4. NoRecordLost'
  <2>1. OnDisk' = OnDisk
    BY <1>1, <1>2, Zenon DEF OnDisk, OnDiskAs
  <2>2. QED
    BY <1>1, <2>1, Zenon DEF NoRecordLost
<1>5. QED
  BY <1>1, <1>2, <1>3, <1>4

(* Between two files and between two drains. *)
LEMMA DrainRests ==
    ASSUME TypeOK
    PROVE  /\ Idle \in DrainType /\ Idle.at = "idle" /\ Idle.todo = {} /\ Idle.target = None
           /\ DrainNext \in DrainType /\ DrainNext.at = "entry"
           /\ DrainNext.todo = drain.todo /\ DrainNext.target = None
<1>1. <<>> \in Seq(RecordType)
  OBVIOUS
<1>2. Idle \in DrainType /\ Idle.at = "idle" /\ Idle.todo = {} /\ Idle.target = None
  BY <1>1 DEF Idle, DrainType, DrainSteps
<1>3. DrainNext \in DrainType
  BY <1>1 DEF TypeOK, DrainType, DrainNext, DrainSteps
<1>4. DrainNext.at = "entry" /\ DrainNext.todo = drain.todo /\ DrainNext.target = None
  BY DEF TypeOK, DrainType, DrainNext
<1>5. QED
  BY <1>2, <1>3, <1>4

(* A step of the collector that reads only and after which it works on no  *)
(* file, or has not read the one it works on.                              *)
LEMMA Detached ==
    ASSUME SafeInv, UNCHANGED <<procVars, file, crashes, saved, handed>>,
           faults' \in Nat, kept' \subseteq Ids,
           drain' \in DrainType, drain'.at \in {"idle", "entry", "read"},
           drain'.at = "read" => drain'.target \in Files \ alive /\ drain'.budget > 0,
           drain'.at # "read" => drain'.target = None,
           drain'.todo \subseteq Files \ {drain'.target}
    PROVE  SafeInv'
<1>1. /\ OwnFile' /\ Written' /\ Numbered' /\ NoRecordLost' /\ Files' = Files
  BY DiskSame
<1>2. TypeOK'
  BY DEF SafeInv, TypeOK, procVars
<1>3. Undisturbed'
  BY <1>1 DEF Undisturbed, Working, procVars
<1>4. BufferIsFront' /\ RemovalIsSafe'
  BY DEF BufferIsFront, RemovalIsSafe
<1>5. QED
  BY <1>1, <1>2, <1>3, <1>4 DEF SafeInv

(* A drain begins: the entries are the files there are. *)
LEMMA BeginStep ==
    ASSUME SafeInv, NEW max \in Budgets, DrainBegins(max)
    PROVE  SafeInv'
<1> USE CrashSinkAssumption
<1>1. /\ UNCHANGED <<procVars, file, crashes, saved, handed>>
      /\ faults' = faults /\ kept' = kept
      /\ drain' = [Idle EXCEPT !.at = "entry", !.todo = Files, !.budget = max]
  BY DEF DrainBegins, DrainStep
<1>2. Files \subseteq Pids /\ None \notin Files
  BY DEF Files
<1>3. /\ drain' \in DrainType /\ drain'.at = "entry" /\ drain'.target = None
      /\ drain'.todo = Files
  BY <1>1, <1>2, DrainRests DEF SafeInv, DrainType, Idle, DrainSteps
<1>4. faults' \in Nat /\ kept' \subseteq Ids
  BY <1>1 DEF SafeInv, TypeOK
<1>5. QED
  BY <1>1, <1>2, <1>3, <1>4, Detached

(* An entry of the directory: a file whose pid no process has is taken. *)
LEMMA EntryStep ==
    ASSUME SafeInv, NEW p \in Pids, DrainEntry(p)
    PROVE  SafeInv'
<1> USE CrashSinkAssumption
<1>1. /\ UNCHANGED <<procVars, file, crashes, saved, handed>>
      /\ faults' \in Nat /\ kept' \subseteq Ids
  BY DEF DrainEntry, DrainStep, SafeInv, TypeOK
<1>2. p \in drain.todo /\ drain.budget > 0 /\ drain.todo \subseteq Files
  BY DEF DrainEntry, SafeInv, Undisturbed
<1>3. /\ drain' \in DrainType
      /\ drain'.at = IF p \in alive THEN "entry" ELSE "read"
      /\ drain'.target = IF p \in alive THEN None ELSE p
      /\ drain'.todo = drain.todo \ {p} /\ drain'.budget = drain.budget
  BY DEF DrainEntry, ProcessAlive, SafeInv, TypeOK, DrainType, DrainSteps
<1>4. None \notin Files
  BY DEF Files
<1>5. drain'.todo \subseteq Files \ {drain'.target}
  BY <1>2, <1>3, <1>4
<1>6. QED
  BY <1>1, <1>2, <1>3, <1>5, Detached

(* The drain leaves a file as it is or ends, or the collector fails. *)
LEMMA LeaveStep ==
    ASSUME SafeInv, DrainKeeps \/ DrainEnds \/ RemovalFails \/ CollectorDies
    PROVE  SafeInv'
<1>1. /\ UNCHANGED <<procVars, file, crashes, saved, handed>>
      /\ drain' \in {Idle, DrainNext}
  BY DEF DrainKeeps, DrainEnds, DrainStep, RemovalFails, CollectorDies, Fault
<1>2. faults' \in Nat
  BY DEF DrainKeeps, DrainEnds, DrainStep, RemovalFails, CollectorDies, Fault, SafeInv, TypeOK
<1>3. kept' \subseteq Ids
  <2>1. Removing => IdsIn(file[drain.target]) \subseteq Ids
    <3>1. Removing => drain.target \in Files
      BY DEF Removing, At, SafeInv, Undisturbed, Working
    <3>2. drain.target \in Files => IdsIn(file[drain.target]) \subseteq Ids
      BY FileType DEF SafeInv, IdsIn
    <3>3. QED
      BY <3>1, <3>2
  <2>2. kept' = kept \/ (Removing /\ kept' = kept \cup IdsIn(file[drain.target]))
    BY DEF DrainKeeps, DrainEnds, DrainStep, RemovalFails, CollectorDies, Fault
  <2>3. kept \subseteq Ids
    BY DEF SafeInv, TypeOK
  <2>4. QED
    BY <2>1, <2>2, <2>3, Zenon
<1>4. /\ drain' \in DrainType /\ drain'.at \in {"idle", "entry"} /\ drain'.target = None
      /\ drain'.todo = {} \/ drain'.todo = drain.todo
  BY <1>1, DrainRests DEF SafeInv
<1>5. drain'.todo \subseteq Files \ {drain'.target}
  BY <1>4, CrashSinkAssumption DEF SafeInv, Undisturbed, Files
<1>6. QED
  BY <1>1, <1>2, <1>3, <1>4, <1>5, Detached

(* The front of the file is read. *)
LEMMA ReadStep ==
    ASSUME SafeInv, DrainReads
    PROVE  SafeInv'
<1> USE CrashSinkAssumption
<1> DEFINE f == file[drain.target]
           m == IF Len(f) < ReadMax THEN Len(f) ELSE ReadMax
<1>1. UNCHANGED <<procVars, file, crashes, saved, handed>>
  BY DEF DrainReads, DrainStep
<1>2. /\ OwnFile' /\ Written' /\ Numbered' /\ NoRecordLost' /\ Files' = Files
      /\ file'[drain.target] = f
  BY <1>1, DiskSame
<1>3. drain.at = "read" /\ drain.target \in Files \ alive
  BY DEF DrainReads, At, SafeInv, Undisturbed, Working
<1>4. f \in Seq(RecordType) /\ Len(f) \in Nat
  BY <1>3, FileType DEF SafeInv
<1>5. drain' = [drain EXCEPT !.at = "visit", !.buffer = SubSeq(f, 1, m),
                             !.whole = Len(f) <= ReadMax]
  BY DEF DrainReads
<1> HIDE DEF f
<1>6. /\ SubSeq(f, 1, m) \in Seq(RecordType) /\ Len(SubSeq(f, 1, m)) = m
      /\ \A k \in 1 .. m : SubSeq(f, 1, m)[k] = f[k]
  BY <1>4
<1>7. /\ drain' \in DrainType /\ drain'.at = "visit"
      /\ drain'.target = drain.target /\ drain'.todo = drain.todo
      /\ drain'.budget = drain.budget
      /\ drain'.buffer = SubSeq(f, 1, m) /\ drain'.whole = (Len(f) <= ReadMax)
  <2> DEFINE w == Len(f) <= ReadMax
             b == SubSeq(f, 1, m)
  <2>1. w \in BOOLEAN /\ b \in Seq(RecordType) /\ drain \in DrainType
    BY <1>6 DEF SafeInv, TypeOK
  <2>2. drain' = [drain EXCEPT !.at = "visit", !.buffer = b, !.whole = w]
    BY <1>5
  <2> HIDE DEF w, b
  <2>3. /\ drain' \in DrainType /\ drain'.at = "visit"
        /\ drain'.target = drain.target /\ drain'.todo = drain.todo
        /\ drain'.budget = drain.budget /\ drain'.buffer = b /\ drain'.whole = w
    BY <2>1, <2>2 DEF DrainType, DrainSteps
  <2>4. QED
    BY <2>3 DEF w, b
<1>8. TypeOK'
  BY <1>1, <1>7 DEF SafeInv, TypeOK, DrainReads, DrainStep, procVars
<1>9. Undisturbed'
  BY <1>1, <1>2, <1>3, <1>7 DEF SafeInv, Undisturbed, Working, procVars
<1>10. BufferIsFront'
  BY <1>2, <1>6, <1>7 DEF BufferIsFront
<1>11. RemovalIsSafe'
  BY <1>7 DEF RemovalIsSafe
<1>12. QED
  BY <1>2, <1>8, <1>9, <1>10, <1>11 DEF SafeInv

(* What the loop of cbox_crash_drain_file sees in the buffer. *)
Reach == Reached(drain.buffer, drain.budget)
Visited == {k \in 1 .. Len(drain.buffer) : drain.buffer[k].kind = "own" /\ k <= Reach}
ForeignSeen == \E k \in 1 .. Len(drain.buffer) :
                   drain.buffer[k].kind = "foreign" /\ k <= Reach
HandedNow(id) == \E k \in Visited : drain.buffer[k].id = id

(* The buffer is made of records of the file. *)
LEMMA BufferOfFile ==
    ASSUME SafeInv, drain.at \in {"visit", "settle"}
    PROVE  LET f == file[drain.target]
               b == drain.buffer
           IN  /\ drain.target \in Files /\ drain.target \notin alive
               /\ f \in Seq(RecordType) /\ Len(f) \in Nat
               /\ b \in Seq(RecordType) /\ Len(b) \in Nat /\ Len(b) <= Len(f)
               /\ drain.whole => Len(b) = Len(f)
               /\ \A k \in 1 .. Len(b) : b[k] = f[k] /\ k \in 1 .. Len(f)
               /\ \A k \in 1 .. Len(f) : /\ f[k].id \in Ids /\ f[k].id <= crashes
                                         /\ f[k].kind \in {"own", "foreign", "torn"}
<1> DEFINE f == file[drain.target]
           b == drain.buffer
<1>1. drain.target \in Files /\ drain.target \notin alive
  BY DEF SafeInv, Undisturbed, Working
<1>2. /\ f \in Seq(RecordType) /\ Len(f) \in Nat
      /\ \A k \in 1 .. Len(f) : f[k].id \in Ids /\ f[k].kind \in Kinds
  BY <1>1, FileType DEF SafeInv
<1>3. \A k \in 1 .. Len(f) : f[k].id <= crashes /\ f[k].kind # "cut"
  BY <1>1 DEF SafeInv, Written
<1>4. b \in Seq(RecordType) /\ Len(b) \in Nat
  BY DrainFields DEF SafeInv
<1>5. /\ Len(b) = IF Len(f) < ReadMax THEN Len(f) ELSE ReadMax
      /\ \A k \in 1 .. Len(b) : b[k] = f[k]
      /\ drain.whole <=> Len(f) <= ReadMax
  BY DEF SafeInv, BufferIsFront
<1> HIDE DEF f, b
<1>6. Len(b) <= Len(f) /\ (drain.whole => Len(b) = Len(f))
  BY <1>2, <1>4, <1>5, CrashSinkAssumption
<1>7. \A k \in 1 .. Len(b) : b[k] = f[k] /\ k \in 1 .. Len(f)
  BY <1>2, <1>4, <1>5, <1>6
<1>8. \A k \in 1 .. Len(f) : f[k].kind \in {"own", "foreign", "torn"}
  BY <1>2, <1>3 DEF Kinds
<1>9. QED
  BY <1>1, <1>2, <1>3, <1>4, <1>6, <1>7, <1>8 DEF f, b

(* The effect of the loop. *)
LEMMA VisitEffect ==
    ASSUME SafeInv, DrainVisits
    PROVE  /\ drain.at = "visit"
           /\ Reach \in 0 .. Len(drain.buffer)
           /\ \A id \in Ids : handed'[id] = IF HandedNow(id) THEN Again(handed[id])
                                                             ELSE handed[id]
           /\ handed' \in [Ids -> 0 .. 2]
           /\ drain' \in DrainType /\ drain'.at = "settle"
           /\ drain'.target = drain.target /\ drain'.todo = drain.todo
           /\ drain'.buffer = drain.buffer /\ drain'.whole = drain.whole
           /\ drain'.consumable => /\ ~ForeignSeen /\ drain.whole
                                   /\ Reach = Len(drain.buffer)
           /\ drain'.consumed \in 0 .. Reach
           /\ drain'.consumed > 0 => ~ForeignSeen /\ \A k \in Visited : k <= drain'.consumed
           /\ drain'.consumed = 0 => ForeignSeen \/ Visited = {}
           /\ kept' = IF ForeignSeen THEN kept \cup IdsIn(drain.buffer) ELSE kept
           /\ UNCHANGED <<procVars, file, crashes, faults, saved>>
<1> DEFINE b == drain.buffer
<1>1. drain.at = "visit" /\ drain.budget \in Nat \ {0}
  BY DrainFields DEF DrainVisits, At, SafeInv, Undisturbed
<1>2. /\ b \in Seq(RecordType) /\ Len(b) \in Nat
      /\ \A k \in 1 .. Len(b) : b[k].kind # "cut"
  BY <1>1, BufferOfFile
<1>3. /\ OwnIn(b) = {k \in 1 .. Len(b) : b[k].kind = "own"}
      /\ ForeignIn(b) = {k \in 1 .. Len(b) : b[k].kind = "foreign"}
  BY <1>2, NothingSwallowed
<1>4. Reach \in 0 .. Len(b) /\ Cardinality(UpTo(OwnIn(b), Reach)) \in 0 .. drain.budget
  BY <1>1, <1>2, ReachedBound DEF Reach
<1>5. /\ Visited = {k \in OwnIn(b) : k <= Reach}
      /\ UpTo(OwnIn(b), Reach) = Visited
  BY <1>3, Zenon DEF Visited, UpTo
<1>6. ForeignSeen <=> \E k \in ForeignIn(b) : k <= Reach
  BY <1>3, Zenon DEF ForeignSeen
<1>7. ForeignSeen \in BOOLEAN /\ ForeignSeen = (\E k \in ForeignIn(b) : k <= Reach)
  BY <1>6 DEF ForeignSeen
<1>8. /\ handed' = [id \in Ids |-> IF HandedNow(id) THEN Again(handed[id]) ELSE handed[id]]
      /\ drain' = [drain EXCEPT !.at = "settle", !.budget = @ - Cardinality(Visited),
                                !.consumable = Consumable(drain, Reach, ForeignSeen),
                                !.consumed = Consumed(drain, Reach, ForeignSeen)]
      /\ kept' = IF ForeignSeen THEN kept \cup IdsIn(b) ELSE kept
      /\ UNCHANGED <<procVars, file, crashes, faults, saved>>
  BY <1>5, <1>7, Zenon DEF DrainVisits, Reach, HandedNow
<1>9. /\ Consumed(drain, Reach, ForeignSeen) \in 0 .. Reach
      /\ Consumed(drain, Reach, ForeignSeen) > 0 =>
            /\ ~ForeignSeen
            /\ \A k \in Visited : k <= Consumed(drain, Reach, ForeignSeen)
      /\ Consumed(drain, Reach, ForeignSeen) = 0 => ForeignSeen \/ Visited = {}
  <2>1. drain \in DrainType
    BY DEF SafeInv, TypeOK
  <2>2. QED
    BY <1>4, <1>5, <1>7, <2>1, ConsumedBound, Zenon
<1>10. /\ Consumable(drain, Reach, ForeignSeen) \in BOOLEAN
       /\ Consumable(drain, Reach, ForeignSeen) =>
             ~ForeignSeen /\ drain.whole /\ Reach = Len(b)
  BY DEF Consumable
<1>11. drain.budget - Cardinality(Visited) \in Nat
  BY <1>1, <1>4, <1>5
<1>12. /\ drain' \in DrainType /\ drain'.at = "settle"
       /\ drain'.target = drain.target /\ drain'.todo = drain.todo
       /\ drain'.buffer = drain.buffer /\ drain'.whole = drain.whole
       /\ drain'.consumable = Consumable(drain, Reach, ForeignSeen)
       /\ drain'.consumed = Consumed(drain, Reach, ForeignSeen)
  <2>1. drain \in DrainType /\ Consumed(drain, Reach, ForeignSeen) \in Nat
    BY <1>9 DEF SafeInv, TypeOK
  <2>2. QED
    BY <1>8, <1>10, <1>11, <2>1 DEF DrainType, DrainSteps
<1>13. /\ \A id \in Ids : handed'[id] = IF HandedNow(id) THEN Again(handed[id]) ELSE handed[id]
       /\ handed' \in [Ids -> 0 .. 2]
  <2>1. \A id \in Ids : handed[id] \in 0 .. 2 /\ Again(handed[id]) \in 0 .. 2
    BY DEF SafeInv, TypeOK, Again
  <2>2. QED
    BY <1>8, <2>1
<1>14. QED
  BY <1>1, <1>4, <1>8, <1>9, <1>10, <1>12, <1>13

(* Records are handed over, and it is settled what may go. *)
LEMMA VisitStep ==
    ASSUME SafeInv, DrainVisits
    PROVE  SafeInv'
<1> DEFINE f == file[drain.target]
           b == drain.buffer
<1>1. /\ drain.at = "visit" /\ Reach \in 0 .. Len(b)
      /\ \A id \in Ids : handed'[id] = IF HandedNow(id) THEN Again(handed[id]) ELSE handed[id]
      /\ handed' \in [Ids -> 0 .. 2]
      /\ drain' \in DrainType /\ drain'.at = "settle"
      /\ drain'.target = drain.target /\ drain'.todo = drain.todo
      /\ drain'.buffer = b /\ drain'.whole = drain.whole
      /\ drain'.consumable => ~ForeignSeen /\ drain.whole /\ Reach = Len(b)
      /\ drain'.consumed \in 0 .. Reach
      /\ drain'.consumed > 0 => ~ForeignSeen
      /\ kept' = IF ForeignSeen THEN kept \cup IdsIn(b) ELSE kept
      /\ UNCHANGED <<procVars, file, crashes, faults, saved>>
  BY VisitEffect
<1>2. /\ drain.target \in Files /\ drain.target \notin alive
      /\ f \in Seq(RecordType) /\ Len(f) \in Nat
      /\ b \in Seq(RecordType) /\ Len(b) \in Nat /\ Len(b) <= Len(f)
      /\ drain.whole => Len(b) = Len(f)
      /\ \A k \in 1 .. Len(b) : b[k] = f[k] /\ k \in 1 .. Len(f)
      /\ \A k \in 1 .. Len(f) : /\ f[k].id \in Ids /\ f[k].id <= crashes
                                /\ f[k].kind \in {"own", "foreign", "torn"}
  BY <1>1, BufferOfFile
<1>3. /\ alive' = alive /\ path' = path /\ fd' = fd /\ file' = file /\ spawns' = spawns
      /\ crashes' = crashes /\ saved' = saved /\ faults' = faults /\ Files' = Files
  BY <1>1 DEF procVars, Files
<1>4. TypeOK'
  <2>1. IdsIn(b) \subseteq Ids
    BY <1>2 DEF IdsIn
  <2>2. kept' \subseteq Ids
    BY <1>1, <2>1 DEF SafeInv, TypeOK
  <2>3. QED
    BY <1>1, <1>3, <2>2 DEF SafeInv, TypeOK
<1>5. OwnFile' /\ Written'
  BY <1>3, Zenon DEF SafeInv, OwnFile, Written
<1>6. \A id \in Ids : /\ HandedNow(id) => handed'[id] > 0
                      /\ handed[id] > 0 => handed'[id] > 0
                      /\ handed'[id] > 0 => handed[id] > 0 \/ HandedNow(id)
  BY <1>1 DEF Again, SafeInv, TypeOK
<1>7. Numbered'
  <2>1. \A id \in Ids : HandedNow(id) => id <= crashes
    BY <1>2 DEF HandedNow, Visited
  <2>2. QED
    BY <1>3, <1>6, <2>1 DEF SafeInv, Numbered
<1>8. Undisturbed'
  BY <1>1, <1>2, <1>3 DEF SafeInv, Undisturbed, Working
<1>9. BufferIsFront'
  BY <1>1, <1>3 DEF SafeInv, BufferIsFront
<1>10. NoRecordLost'
  <2>1. OnDisk' = OnDisk
    BY <1>3, Zenon DEF OnDisk, OnDiskAs
  <2>2. \A id \in saved : id \in Ids
    BY DEF SafeInv, TypeOK
  <2>3. QED
    BY <1>3, <1>6, <2>1, <2>2 DEF SafeInv, NoRecordLost
<1>11. RemovalIsSafe'
  <2>1. ASSUME NEW k \in 1 .. Len(f), k <= Reach, k <= Len(b), ~ForeignSeen
        PROVE  Spent(f[k])'
    <3>1. k \in 1 .. Len(b) /\ b[k] = f[k] /\ f[k].id \in Ids
      BY <1>2, <2>1
    <3>2. f[k].kind # "foreign"
      BY <2>1, <3>1 DEF ForeignSeen
    <3>3. f[k].kind = "own" => HandedNow(f[k].id)
      BY <2>1, <3>1 DEF HandedNow, Visited
    <3>4. QED
      BY <1>1, <1>2, <1>3, <1>6, <3>1, <3>2, <3>3 DEF Spent
  <2>2. drain'.consumed <= Len(b)
    BY <1>1, <1>2
  <2>3. ASSUME NEW k \in 1 .. Len(f), Going(drain.target, k)'
        PROVE  Spent(f[k])'
    <3>1. drain'.consumable \/ k <= drain'.consumed
      BY <1>1, <2>3 DEF Going
    <3>2. CASE drain'.consumable
      BY <1>1, <1>2, <2>1, <3>2
    <3>3. CASE k <= drain'.consumed
      BY <1>1, <1>2, <2>1, <3>3
    <3>4. QED
      BY <3>1, <3>2, <3>3
  <2>4. QED
    BY <1>1, <1>3, <2>2, <2>3 DEF RemovalIsSafe
<1>12. QED
  BY <1>4, <1>5, <1>7, <1>8, <1>9, <1>10, <1>11 DEF SafeInv

(* A step that rewrites or removes the file the drain works on and keeps   *)
(* in it what has not been handed over.                                    *)
LEMMA Rewritten ==
    ASSUME SafeInv, drain.at \in Working,
           \A q \in Pids : q # drain.target => file'[q] = file[q],
           file' \in [Pids -> Seq(RecordType) \cup {None}],
           drain.target \in Files' =>
               \A k \in 1 .. Len(file'[drain.target]) :
                  \E j \in 1 .. Len(file[drain.target]) :
                     file'[drain.target][k] = file[drain.target][j],
           \A j \in 1 .. Len(file[drain.target]) :
               \/ Spent(file[drain.target][j])
               \/ /\ drain.target \in Files'
                  /\ \E k \in 1 .. Len(file'[drain.target]) :
                        file'[drain.target][k] = file[drain.target][j],
           UNCHANGED <<alive, path, fd, crashes, saved, handed>>
    PROVE  /\ OwnFile' /\ Written' /\ Numbered' /\ NoRecordLost'
           /\ \A q \in Pids : q # drain.target => (q \in Files' <=> q \in Files)
<1> USE DEF SafeInv
<1> DEFINE t == drain.target
<1>1. t \in Files \ alive
  BY DEF Undisturbed
<1>2. /\ alive' = alive /\ path' = path /\ fd' = fd
      /\ crashes' = crashes /\ saved' = saved /\ handed' = handed
  OBVIOUS
<1>3. \A q \in Pids : q # t => (q \in Files' <=> q \in Files)
  BY DEF Files
<1>4. OwnFile'
  BY <1>1, <1>2 DEF OwnFile
<1>5. Written'
  <2> SUFFICES ASSUME NEW q \in Files', NEW k \in 1 .. Len(file'[q])
               PROVE  file'[q][k].id <= crashes /\ file'[q][k].kind # "cut"
    BY <1>2 DEF Written
  <2>1. CASE q # t
    <3>1. q \in Files /\ file'[q] = file[q]
      BY <1>3, <2>1 DEF Files
    <3>2. QED
      BY <3>1 DEF Written
  <2>2. CASE q = t
    <3>1. PICK j \in 1 .. Len(file[t]) : file'[q][k] = file[t][j]
      BY <2>2
    <3>2. QED
      BY <1>1, <3>1 DEF Written
  <2>3. QED
    BY <2>1, <2>2
<1>6. Numbered'
  BY <1>2 DEF Numbered
<1>7. NoRecordLost'
  <2> SUFFICES ASSUME NEW id \in saved, ~(handed[id] > 0)
               PROVE  (id \in OnDisk)'
    BY <1>2 DEF NoRecordLost
  <2>1. id \in Ids /\ id \in OnDisk
    BY DEF NoRecordLost, TypeOK
  <2>2. PICK q \in Files : \E k \in 1 .. Len(file[q]) :
            file[q][k].id = id /\ file[q][k].kind \in {"own", "foreign"}
    BY <2>1, OnDiskIn
  <2>3. PICK j \in 1 .. Len(file[q]) :
            file[q][j].id = id /\ file[q][j].kind \in {"own", "foreign"}
    BY <2>2
  <2>4. q \in Files' /\ \E k \in 1 .. Len(file'[q]) : file'[q][k] = file[q][j]
    <3>1. CASE q # t
      <4>1. q \in Files' /\ file'[q] = file[q]
        BY <1>3, <3>1 DEF Files
      <4>2. QED
        BY <4>1
    <3>2. CASE q = t
      <4>1. ~Spent(file[t][j])
        BY <2>3, <3>2 DEF Spent
      <4>2. QED
        BY <2>3, <3>2, <4>1
    <3>3. QED
      BY <3>1, <3>2
  <2>5. PICK k \in 1 .. Len(file'[q]) : file'[q][k] = file[q][j]
    BY <2>4
  <2>6. QED
    BY <2>1, <2>3, <2>4, <2>5, Zenon DEF OnDisk, OnDiskAs
<1>8. QED
  BY <1>3, <1>4, <1>5, <1>6, <1>7

(* What unlink does: nobody has the file open. *)
LEMMA UnlinkEffect ==
    ASSUME SafeInv, DrainUnlinks
    PROVE  /\ drain.at = "settle" /\ drain.consumable
           /\ file' = [file EXCEPT ![drain.target] = None]
           /\ fd' = fd /\ drain' = DrainNext
           /\ UNCHANGED <<alive, spawns, path, crashes, faults, kept, saved, handed>>
<1>1. drain.target \in Pids /\ drain.target \notin alive
  BY DEF DrainUnlinks, At, SafeInv, Undisturbed, Working, Files
<1>2. \A p \in Pids : fd[p] # drain.target
  BY <1>1, CrashSinkAssumption DEF SafeInv, OwnFile
<1>3. fd' = fd
  <2>1. fd' = [p \in Pids |-> fd[p]]
    BY <1>2 DEF DrainUnlinks
  <2>2. QED
    BY <2>1 DEF SafeInv, TypeOK
<1>4. QED
  BY <1>3 DEF DrainUnlinks, At

(* A consumed file is unlinked. *)
LEMMA UnlinkStep ==
    ASSUME SafeInv, DrainUnlinks
    PROVE  SafeInv'
<1> USE CrashSinkAssumption
<1> DEFINE t == drain.target
<1>1. /\ drain.at = "settle" /\ drain.consumable
      /\ file' = [file EXCEPT ![t] = None]
      /\ fd' = fd /\ drain' = DrainNext
      /\ UNCHANGED <<alive, spawns, path, crashes, faults, kept, saved, handed>>
  BY UnlinkEffect
<1>2. t \in Files /\ t \in Pids
  BY <1>1 DEF SafeInv, Undisturbed, Working, Files
<1>3. /\ file' \in [Pids -> Seq(RecordType) \cup {None}]
      /\ \A q \in Pids : q # t => file'[q] = file[q]
      /\ t \notin Files'
  BY <1>1, <1>2 DEF SafeInv, TypeOK, Files
<1>4. \A j \in 1 .. Len(file[t]) : Spent(file[t][j])
  BY <1>1 DEF SafeInv, RemovalIsSafe, Going
<1>5. /\ OwnFile' /\ Written' /\ Numbered' /\ NoRecordLost'
      /\ \A q \in Pids : q # t => (q \in Files' <=> q \in Files)
  BY <1>1, <1>3, <1>4, Rewritten DEF Working
<1>6. /\ drain' \in DrainType /\ drain'.at = "entry"
      /\ drain'.todo = drain.todo /\ drain'.target = None
  BY <1>1, DrainRests DEF SafeInv
<1>7. TypeOK'
  BY <1>1, <1>3, <1>6 DEF SafeInv, TypeOK
<1>8. Undisturbed'
  <2>1. drain.todo \subseteq Files \ {t} /\ None \notin Files
    BY DEF SafeInv, Undisturbed, Files
  <2>2. drain.todo \subseteq Files'
    BY <1>5, <2>1 DEF Files
  <2>3. QED
    BY <1>6, <2>1, <2>2 DEF Undisturbed, Working
<1>9. BufferIsFront' /\ RemovalIsSafe'
  BY <1>6 DEF BufferIsFront, RemovalIsSafe
<1>10. QED
  BY <1>5, <1>7, <1>8, <1>9 DEF SafeInv

(* What the first half of a compaction does. *)
LEMMA CopyEffect ==
    ASSUME SafeInv, CompactCopies
    PROVE  LET f == file[drain.target]
               c == drain.consumed
               b == drain'.buffer
               g == file'[drain.target]
           IN  /\ drain.at = "settle" /\ ~drain.consumable
               /\ drain.target \in Files /\ drain.target \in Files'
               /\ f \in Seq(RecordType) /\ c \in 1 .. Len(f)
               /\ drain' \in DrainType /\ drain'.at = "truncate"
               /\ drain'.target = drain.target /\ drain'.todo = drain.todo
               /\ drain'.consumed = c
               /\ b \in Seq(RecordType) /\ Len(b) = Len(f) - c
               /\ \A k \in 1 .. Len(b) : c + k \in 1 .. Len(f) /\ b[k] = f[c + k]
               /\ g \in Seq(RecordType) /\ Len(b) <= Len(g)
               /\ \A k \in 1 .. Len(b) : g[k] = b[k]
               /\ \A k \in 1 .. Len(g) : \E j \in 1 .. Len(f) : g[k] = f[j]
               /\ \A q \in Pids : q # drain.target => file'[q] = file[q]
               /\ file' \in [Pids -> Seq(RecordType) \cup {None}]
               /\ UNCHANGED <<procVars, crashes, faults, kept, saved, handed>>
<1> DEFINE t == drain.target
           f == file[t]
           c == drain.consumed
           rest == SubSeq(f, c + 1, Len(f))
<1>1. drain.at = "settle" /\ ~drain.consumable /\ c \in Nat /\ c > 0
  BY DrainFields DEF CompactCopies, At, SafeInv
<1>2. /\ t \in Files /\ t \in Pids
      /\ f \in Seq(RecordType) /\ Len(f) \in Nat
      /\ Len(drain.buffer) \in Nat /\ Len(drain.buffer) <= Len(f)
      /\ \A k \in 1 .. Len(f) : f[k].kind \in {"own", "foreign", "torn"}
  BY <1>1, BufferOfFile DEF Files
<1>3. c \in 1 .. Len(f) /\ f[c].kind # "cut"
  <2>1. c <= Len(drain.buffer)
    BY <1>1 DEF SafeInv, RemovalIsSafe
  <2>2. QED
    BY <1>1, <1>2, <2>1
<1>4. Rest(f, c) = rest
  BY <1>3 DEF Rest
<1>5. /\ drain' = [drain EXCEPT !.at = "truncate", !.buffer = rest]
      /\ file' = [file EXCEPT ![t] = Overwritten(f, rest)]
      /\ UNCHANGED <<procVars, crashes, faults, kept, saved, handed>>
  BY <1>4 DEF CompactCopies, DrainStep
<1> HIDE DEF f, c
<1>6. /\ rest \in Seq(RecordType) /\ Len(rest) = Len(f) - c
      /\ \A k \in 1 .. Len(f) - c : c + k \in 1 .. Len(f) /\ rest[k] = f[c + k]
  BY <1>2, <1>3
<1> HIDE DEF rest
<1>7. LET o == Overwritten(f, rest)
      IN  /\ o \in Seq(RecordType)
          /\ Len(rest) <= Len(o)
          /\ \A k \in 1 .. Len(rest) : o[k] = rest[k]
          /\ \A k \in 1 .. Len(o) :
                \/ \E j \in 1 .. Len(rest) : o[k] = rest[j]
                \/ \E j \in 1 .. Len(f) : o[k] = f[j]
  BY <1>2, <1>6, OverwrittenHolds
<1> DEFINE o == Overwritten(f, rest)
<1>8. \A k \in 1 .. Len(o) : \E j \in 1 .. Len(f) : o[k] = f[j]
  BY <1>6, <1>7
<1>9. /\ file'[t] = o /\ \A q \in Pids : q # t => file'[q] = file[q]
      /\ file' \in [Pids -> Seq(RecordType) \cup {None}]
  BY <1>2, <1>5, <1>7 DEF SafeInv, TypeOK
<1>10. t \in Files'
  BY <1>2, <1>7, <1>9, PlaceholderAssumption DEF Files
<1>11. /\ drain' \in DrainType /\ drain'.at = "truncate" /\ drain'.target = t
       /\ drain'.todo = drain.todo /\ drain'.consumed = drain.consumed
       /\ drain'.buffer = rest
  BY <1>5, <1>6 DEF SafeInv, TypeOK, DrainType, DrainSteps
<1>12. QED
  BY <1>1, <1>2, <1>3, <1>5, <1>6, <1>7, <1>8, <1>9, <1>10, <1>11 DEF f, c

(* The rest of a file is copied to its front. *)
LEMMA CopyStep ==
    ASSUME SafeInv, CompactCopies
    PROVE  SafeInv'
<1> DEFINE t == drain.target
           f == file[t]
           c == drain.consumed
           b == drain'.buffer
           g == file'[t]
<1>1. /\ drain.at = "settle" /\ ~drain.consumable
      /\ t \in Files /\ t \in Files'
      /\ f \in Seq(RecordType) /\ c \in 1 .. Len(f)
      /\ drain' \in DrainType /\ drain'.at = "truncate"
      /\ drain'.target = t /\ drain'.todo = drain.todo
      /\ b \in Seq(RecordType) /\ Len(b) = Len(f) - c
      /\ \A k \in 1 .. Len(b) : c + k \in 1 .. Len(f) /\ b[k] = f[c + k]
      /\ g \in Seq(RecordType) /\ Len(b) <= Len(g)
      /\ \A k \in 1 .. Len(b) : g[k] = b[k]
      /\ \A k \in 1 .. Len(g) : \E j \in 1 .. Len(f) : g[k] = f[j]
      /\ \A q \in Pids : q # t => file'[q] = file[q]
      /\ file' \in [Pids -> Seq(RecordType) \cup {None}]
      /\ UNCHANGED <<procVars, crashes, faults, kept, saved, handed>>
  BY CopyEffect
<1>2. \A k \in 1 .. c : k \in 1 .. Len(f) /\ Spent(f[k])
  BY <1>1 DEF SafeInv, RemovalIsSafe, Going
<1> HIDE DEF f, c, b, g
<1>3. ASSUME NEW j \in 1 .. Len(f)
      PROVE  Spent(f[j]) \/ \E k \in 1 .. Len(b) : b[k] = f[j] /\ g[k] = f[j] /\ k \in 1 .. Len(g)
  <2>1. CASE j <= c
    BY <1>1, <1>2, <2>1
  <2>2. CASE j > c
    <3>1. j - c \in 1 .. Len(b) /\ f[c + (j - c)] = f[j] /\ j - c \in 1 .. Len(g)
      BY <1>1, <2>2
    <3>2. b[j - c] = f[j] /\ g[j - c] = f[j]
      BY <1>1, <3>1
    <3>3. QED
      BY <3>1, <3>2
  <2>3. QED
    BY <1>1, <2>1, <2>2
<1>4. /\ alive' = alive /\ path' = path /\ fd' = fd /\ spawns' = spawns
      /\ crashes' = crashes /\ saved' = saved /\ handed' = handed
      /\ faults' = faults /\ kept' = kept
  BY <1>1 DEF procVars
<1>5. /\ OwnFile' /\ Written' /\ Numbered' /\ NoRecordLost'
      /\ \A q \in Pids : q # t => (q \in Files' <=> q \in Files)
  <2>1. \A j \in 1 .. Len(file[t]) :
           Spent(file[t][j]) \/ \E k \in 1 .. Len(file'[t]) : file'[t][k] = file[t][j]
    BY <1>3 DEF f, g
  <2>2. \A k \in 1 .. Len(file'[t]) : \E j \in 1 .. Len(file[t]) : file'[t][k] = file[t][j]
    BY <1>1 DEF f, g
  <2>3. QED
    BY <1>1, <1>4, <2>1, <2>2, Rewritten DEF Working
<1>6. TypeOK'
  BY <1>1, <1>4 DEF SafeInv, TypeOK
<1>7. Undisturbed'
  <2>1. drain.todo \subseteq Files \ {t} /\ t \notin alive /\ drain.todo \subseteq Pids
    BY <1>1 DEF SafeInv, Undisturbed, Files, Working
  <2>2. drain.todo \subseteq Files'
    BY <1>5, <2>1
  <2>3. QED
    BY <1>1, <1>4, <2>1, <2>2 DEF Undisturbed, Working
<1>8. BufferIsFront'
  BY <1>1 DEF BufferIsFront
<1>9. RemovalIsSafe'
  <2>1. \A k \in 1 .. Len(b) : \E j \in 1 .. Len(g) : b[k] = g[j]
    BY <1>1
  <2>2. ASSUME NEW j \in 1 .. Len(g)
        PROVE  \/ g[j].kind \in {"own", "foreign"} => handed'[g[j].id] > 0
               \/ \E k \in 1 .. Len(b) : b[k] = g[j]
    <3>1. PICK i \in 1 .. Len(f) : g[j] = f[i]
      BY <1>1
    <3>2. Spent(f[i]) \/ \E k \in 1 .. Len(b) : b[k] = f[i]
      BY <1>3
    <3>3. Spent(f[i]) => (g[j].kind \in {"own", "foreign"} => handed'[g[j].id] > 0)
      BY <1>4, <3>1 DEF Spent
    <3>4. QED
      BY <3>1, <3>2, <3>3
  <2>3. file'[drain'.target] = g /\ drain'.at = "truncate"
    BY <1>1 DEF g
  <2>4. QED
    BY <2>1, <2>2, <2>3 DEF RemovalIsSafe, Spent, b
<1>10. QED
  BY <1>5, <1>6, <1>7, <1>8, <1>9 DEF SafeInv

(* What the second half of a compaction does. *)
LEMMA TruncateEffect ==
    ASSUME SafeInv, CompactTruncates
    PROVE  LET f == file[drain.target]
               b == drain.buffer
           IN  /\ drain.at = "truncate" /\ drain.target \in Files /\ drain.target \in Files'
               /\ f \in Seq(RecordType) /\ b \in Seq(RecordType)
               /\ file'[drain.target] = b
               /\ \A k \in 1 .. Len(b) : \E j \in 1 .. Len(f) : b[k] = f[j]
               /\ \A j \in 1 .. Len(f) : Spent(f[j]) \/ \E k \in 1 .. Len(b) : b[k] = f[j]
               /\ \A q \in Pids : q # drain.target => file'[q] = file[q]
               /\ file' \in [Pids -> Seq(RecordType) \cup {None}]
               /\ drain' = DrainNext
               /\ UNCHANGED <<procVars, crashes, faults, kept, saved, handed>>
<1>1. /\ drain.at = "truncate" /\ drain' = DrainNext
      /\ file' = [file EXCEPT ![drain.target] = drain.buffer]
      /\ UNCHANGED <<procVars, crashes, faults, kept, saved, handed>>
  BY DEF CompactTruncates, At, DrainStep
<1>2. drain.target \in Files /\ drain.target \in Pids /\ drain.buffer \in Seq(RecordType)
  BY <1>1, DrainFields DEF SafeInv, Undisturbed, Working, Files
<1>3. /\ file'[drain.target] = drain.buffer
      /\ \A q \in Pids : q # drain.target => file'[q] = file[q]
      /\ file' \in [Pids -> Seq(RecordType) \cup {None}]
  BY <1>1, <1>2 DEF SafeInv, TypeOK
<1>4. drain.target \in Files'
  BY <1>2, <1>3, PlaceholderAssumption DEF Files
<1>5. file[drain.target] \in Seq(RecordType)
  BY <1>2, FileType DEF SafeInv
<1>6. RemovalIsSafe
  BY DEF SafeInv
<1>7. QED
  BY <1>1, <1>2, <1>3, <1>4, <1>5, <1>6 DEF RemovalIsSafe

(* The file is cut to the rest. *)
LEMMA TruncateStep ==
    ASSUME SafeInv, CompactTruncates
    PROVE  SafeInv'
<1> DEFINE t == drain.target
<1>1. /\ drain.at = "truncate" /\ t \in Files /\ t \in Files'
      /\ file'[t] = drain.buffer
      /\ \A k \in 1 .. Len(file'[t]) : \E j \in 1 .. Len(file[t]) : file'[t][k] = file[t][j]
      /\ \A j \in 1 .. Len(file[t]) :
            Spent(file[t][j]) \/ \E k \in 1 .. Len(file'[t]) : file'[t][k] = file[t][j]
      /\ \A q \in Pids : q # t => file'[q] = file[q]
      /\ file' \in [Pids -> Seq(RecordType) \cup {None}]
      /\ drain' = DrainNext
      /\ UNCHANGED <<procVars, crashes, faults, kept, saved, handed>>
  BY TruncateEffect
<1>2. /\ alive' = alive /\ path' = path /\ fd' = fd /\ spawns' = spawns
      /\ crashes' = crashes /\ saved' = saved /\ handed' = handed
      /\ faults' = faults /\ kept' = kept
  BY <1>1 DEF procVars
<1>3. /\ OwnFile' /\ Written' /\ Numbered' /\ NoRecordLost'
      /\ \A q \in Pids : q # t => (q \in Files' <=> q \in Files)
  BY <1>1, <1>2, Rewritten DEF Working
<1>4. /\ drain' \in DrainType /\ drain'.at = "entry"
      /\ drain'.todo = drain.todo /\ drain'.target = None
  BY <1>1, DrainRests DEF SafeInv
<1>5. TypeOK'
  BY <1>1, <1>2, <1>4 DEF SafeInv, TypeOK
<1>6. Undisturbed'
  <2>1. drain.todo \subseteq Files \ {t} /\ None \notin Files /\ drain.todo \subseteq Pids
    BY CrashSinkAssumption DEF SafeInv, Undisturbed, Files
  <2>2. drain.todo \subseteq Files'
    BY <1>3, <2>1
  <2>3. QED
    BY <1>4, <2>1, <2>2 DEF Undisturbed, Working
<1>7. BufferIsFront' /\ RemovalIsSafe'
  BY <1>4 DEF BufferIsFront, RemovalIsSafe
<1>8. QED
  BY <1>3, <1>5, <1>6, <1>7 DEF SafeInv

-----------------------------------------------------------------------------
(* No record is lost *)

LEMMA SafeInitially ==
    Init => SafeInv
<1> SUFFICES ASSUME Init
             PROVE  SafeInv
  OBVIOUS
<1> USE CrashSinkAssumption DEF Init
<1>1. Idle \in DrainType /\ Idle.at = "idle" /\ Idle.todo = {} /\ Idle.target = None
  <2>1. <<>> \in Seq(RecordType)
    OBVIOUS
  <2>2. QED
    BY <2>1 DEF Idle, DrainType, DrainSteps
<1>2. Files = {}
  BY DEF Files
<1>3. TypeOK
  BY <1>1 DEF TypeOK
<1>4. OwnFile /\ Written /\ Numbered /\ NoRecordLost
  BY <1>2 DEF OwnFile, Written, Numbered, NoRecordLost
<1>5. Undisturbed /\ BufferIsFront /\ RemovalIsSafe
  BY <1>1, <1>2 DEF Undisturbed, BufferIsFront, RemovalIsSafe, Working
<1>6. QED
  BY <1>3, <1>4, <1>5 DEF SafeInv

LEMMA SafeInductive ==
    ASSUME Scope, SafeInv, [Next]_vars
    PROVE  SafeInv'
<1>1. ASSUME NEW p \in Pids, Process(p)
      PROVE  SafeInv'
  BY <1>1, ProcessStep, OpenStep, WriteStep DEF Process, Crash
<1>2. CASE StartDrain
  BY <1>2, BeginStep DEF StartDrain
<1>3. CASE DrainRuns
  BY <1>3, EntryStep, ReadStep, VisitStep, UnlinkStep, CopyStep, TruncateStep, LeaveStep
     DEF DrainRuns
<1>4. CASE RemovalFails \/ CollectorDies
  BY <1>4, LeaveStep
<1>5. CASE UNCHANGED vars
  <2>1. /\ UNCHANGED <<procVars, file, crashes, saved, handed>>
        /\ drain' = drain /\ faults' = faults /\ kept' = kept
    BY <1>5 DEF vars
  <2>2. /\ OwnFile' /\ Written' /\ Numbered' /\ NoRecordLost' /\ Files' = Files
        /\ \A p : file'[p] = file[p]
    BY <2>1, DiskSame
  <2>3. TypeOK' /\ Undisturbed' /\ BufferIsFront' /\ RemovalIsSafe'
    BY <2>1, <2>2 DEF SafeInv, TypeOK, Undisturbed, BufferIsFront, RemovalIsSafe, procVars,
                      Spent, Going
  <2>4. QED
    BY <2>2, <2>3 DEF SafeInv
<1>6. QED
  BY <1>1, <1>2, <1>3, <1>4, <1>5 DEF Next

LEMMA Safe ==
    ASSUME Scope
    PROVE  Spec => []SafeInv
<1>1. SafeInv /\ [Next]_vars => SafeInv'
  BY SafeInductive
<1>2. QED
  BY <1>1, SafeInitially, PTL DEF Spec

(* A record that was written whole stays on disk until it is handed over,  *)
(* however the appends of crash handlers interleave with the read, the     *)
(* unlink and the compaction of cbox_crash_drain, whatever its budget, the *)
(* read cap and the records of other versions, and wherever the collector  *)
(* dies or a system call fails.                                            *)
THEOREM RecordsAreNotLost ==
    ASSUME ForksInherit = FALSE, "cut" \notin Outcomes
    PROVE  Spec => []NoRecordLost
<1>1. SafeInv => NoRecordLost
  BY DEF SafeInv
<1>2. Scope
  BY DEF Scope
<1>3. QED
  BY <1>1, <1>2, Safe, PTL

-----------------------------------------------------------------------------
(* No record is handed over twice *)

(* Nothing is about to go unless its file was settled. *)
LEMMA NotGoing ==
    ASSUME drain.at \notin {"settle", "truncate"}, NEW p, NEW k
    PROVE  ~Going(p, k)
  BY DEF Going

(* A step of the collector after which nothing is about to go: what was    *)
(* has been recorded in kept.                                              *)
LEMMA Released ==
    ASSUME OnceInv, file' = file, handed' = handed, kept \subseteq kept',
           drain'.at \notin {"settle", "truncate"},
           \A p \in Files : \A k \in 1 .. Len(file[p]) :
               Going(p, k) => file[p][k].id \in kept'
    PROVE  OnceInv'
<1>1. Files' = Files
  BY DEF Files
<1>2. OnePlace'
  <2> SUFFICES ASSUME NEW p \in Files, NEW q \in Files,
                      NEW k \in 1 .. Len(file[p]), NEW l \in 1 .. Len(file[q]),
                      file[p][k].id = file[q][l].id
               PROVE  (p = q /\ k = l) \/ file[p][k].id \in kept'
    BY <1>1 DEF OnePlace
  <2>1. \/ (p = q /\ k = l) \/ file[p][k].id \in kept
        \/ p = q /\ p = drain.target /\ drain.at = "truncate"
    BY DEF OnceInv, OnePlace
  <2>2. CASE p = q /\ p = drain.target /\ drain.at = "truncate"
    BY <2>2 DEF Going
  <2>3. QED
    BY <2>1, <2>2
<1>3. HandedGoes'
  BY <1>1 DEF OnceInv, HandedGoes
<1>4. RestIsNew'
  BY DEF RestIsNew
<1>5. HandedOnce'
  BY DEF OnceInv, HandedOnce
<1>6. QED
  BY <1>2, <1>3, <1>4, <1>5 DEF OnceInv

(* A step that creates at most an empty file. *)
LEMMA OnceStays ==
    ASSUME OnceInv,
           \A q \in Files : file'[q] = file[q],
           \A q \in Files' : q \in Files \/ file'[q] = <<>>,
           drain' = drain, kept' = kept, handed' = handed
    PROVE  OnceInv'
<1>1. \A q \in Files' : \A k \in 1 .. Len(file'[q]) : q \in Files /\ file'[q] = file[q]
  OBVIOUS
<1>2. OnePlace'
  <2> SUFFICES ASSUME NEW p \in Files', NEW q \in Files',
                      NEW k \in 1 .. Len(file'[p]), NEW l \in 1 .. Len(file'[q]),
                      file'[p][k].id = file'[q][l].id
               PROVE  \/ (p = q /\ k = l) \/ file'[p][k].id \in kept
                      \/ p = q /\ p = drain.target /\ drain.at = "truncate"
    BY DEF OnePlace
  <2>1. p \in Files /\ q \in Files /\ file'[p] = file[p] /\ file'[q] = file[q]
    BY <1>1
  <2>2. QED
    BY <2>1 DEF OnceInv, OnePlace
<1>3. HandedGoes'
  <2> SUFFICES ASSUME NEW p \in Files', NEW k \in 1 .. Len(file'[p]),
                      handed[file'[p][k].id] > 0
               PROVE  file'[p][k].id \in kept \/ Going(p, k)'
    BY DEF HandedGoes
  <2>1. p \in Files /\ file'[p] = file[p]
    BY <1>1
  <2>2. Going(p, k)' <=> Going(p, k)
    BY DEF Going
  <2>3. QED
    BY <2>1, <2>2 DEF OnceInv, HandedGoes
<1>4. RestIsNew' /\ HandedOnce'
  BY Zenon DEF OnceInv, RestIsNew, HandedOnce
<1>5. QED
  BY <1>2, <1>3, <1>4 DEF OnceInv

(* A new record has a new identity. *)
LEMMA OnceWrite ==
    ASSUME SafeInv, OnceInv, NEW p \in Pids, NEW kind \in Kinds, HandlerWrites(p, kind)
    PROVE  OnceInv'
<1> DEFINE new == crashes + 1
           n == Len(file[p])
<1>1. /\ p \in Files /\ p # drain.target /\ new \in Ids
      /\ Files' = Files
      /\ \A q \in Pids : q # p => file'[q] = file[q]
      /\ Len(file'[p]) = n + 1
      /\ \A k \in 1 .. n : file'[p][k] = file[p][k]
      /\ file'[p][n + 1].id = new
      /\ drain' = drain /\ kept' = kept /\ handed' = handed
  <2>1. /\ p \in Files /\ p # drain.target /\ new \in Ids
        /\ Files' = Files
        /\ \A q \in Pids : q # p => file'[q] = file[q]
        /\ Len(file'[p]) = n + 1
        /\ \A k \in 1 .. n : file'[p][k] = file[p][k]
        /\ file'[p][n + 1] = [id |-> new, kind |-> kind]
        /\ UNCHANGED <<spawns, path, drain, faults, kept, handed>>
    BY WriteEffect, Zenon
  <2>2. QED
    BY <2>1
<1>2. n \in Nat
  BY <1>1, FileType DEF SafeInv
<1> HIDE DEF n
<1>3. ASSUME NEW q \in Files, NEW k \in 1 .. Len(file'[q])
      PROVE  \/ q = p /\ k = n + 1
             \/ k \in 1 .. Len(file[q]) /\ file'[q][k] = file[q][k]
  <2>1. CASE q # p
    BY <1>1, <2>1 DEF Files
  <2>2. CASE q = p
    BY <1>1, <1>2, <2>2 DEF n
  <2>3. QED
    BY <2>1, <2>2
<1>4. ASSUME NEW q \in Files, NEW k \in 1 .. Len(file[q])
      PROVE  file[q][k].id # new
  <2>1. file[q][k].id \in Ids /\ file[q][k].id <= crashes
    BY FileType DEF SafeInv, Written
  <2>2. crashes \in Nat
    BY DEF SafeInv, TypeOK
  <2>3. QED
    BY <2>1, <2>2 DEF Ids
<1>5. ~(handed[new] > 0)
  BY <1>1 DEF SafeInv, Numbered, TypeOK, Ids
<1> HIDE DEF new
<1>6. OnePlace'
  <2> SUFFICES ASSUME NEW q \in Files, NEW r \in Files,
                      NEW k \in 1 .. Len(file'[q]), NEW l \in 1 .. Len(file'[r]),
                      file'[q][k].id = file'[r][l].id
               PROVE  \/ (q = r /\ k = l) \/ file'[q][k].id \in kept
                      \/ q = r /\ q = drain.target /\ drain.at = "truncate"
    BY <1>1 DEF OnePlace
  <2>1. CASE q = p /\ k = n + 1
    BY <1>1, <1>3, <1>4, <2>1
  <2>2. CASE r = p /\ l = n + 1
    BY <1>1, <1>3, <1>4, <2>2
  <2>3. CASE /\ k \in 1 .. Len(file[q]) /\ file'[q][k] = file[q][k]
             /\ l \in 1 .. Len(file[r]) /\ file'[r][l] = file[r][l]
    BY <2>3 DEF OnceInv, OnePlace
  <2>4. QED
    BY <1>3, <2>1, <2>2, <2>3
<1>7. HandedGoes'
  <2> SUFFICES ASSUME NEW q \in Files, NEW k \in 1 .. Len(file'[q]),
                      handed[file'[q][k].id] > 0
               PROVE  file'[q][k].id \in kept \/ Going(q, k)'
    BY <1>1 DEF HandedGoes
  <2>1. ~(q = p /\ k = n + 1)
    BY <1>1, <1>5
  <2>2. k \in 1 .. Len(file[q]) /\ file'[q][k] = file[q][k]
    BY <1>3, <2>1
  <2>3. Going(q, k)' <=> Going(q, k)
    BY <1>1 DEF Going
  <2>4. QED
    BY <2>2, <2>3 DEF OnceInv, HandedGoes
<1>8. RestIsNew' /\ HandedOnce'
  BY <1>1, Zenon DEF OnceInv, RestIsNew, HandedOnce
<1>9. QED
  BY <1>6, <1>7, <1>8 DEF OnceInv

(* What is handed over now is about to go, or may be reported again. *)
LEMMA OnceVisit ==
    ASSUME SafeInv, OnceInv, DrainVisits
    PROVE  OnceInv'
<1> DEFINE t == drain.target
           b == drain.buffer
<1>1. /\ drain.at = "visit" /\ drain'.at = "settle" /\ drain'.target = t
      /\ \A id \in Ids : handed'[id] = IF HandedNow(id) THEN Again(handed[id]) ELSE handed[id]
      /\ drain'.consumed > 0 => ~ForeignSeen /\ \A k \in Visited : k <= drain'.consumed
      /\ drain'.consumed = 0 => ForeignSeen \/ Visited = {}
      /\ drain'.consumed \in 0 .. Reach /\ Reach \in Nat
      /\ kept' = IF ForeignSeen THEN kept \cup IdsIn(b) ELSE kept
      /\ file' = file
  BY VisitEffect
<1>2. /\ t \in Files /\ Len(b) \in Nat
      /\ \A k \in 1 .. Len(b) : b[k] = file[t][k] /\ k \in 1 .. Len(file[t])
  BY <1>1, BufferOfFile
<1>3. Files' = Files /\ kept \subseteq kept'
  BY <1>1 DEF Files
<1>4. ASSUME NEW p \in Files, NEW k \in 1 .. Len(file[p])
      PROVE  ~Going(p, k) /\ file[p][k].id \in Ids
  BY <1>1, <1>4, NotGoing, FileType DEF SafeInv
<1>5. ASSUME NEW id \in Ids, HandedNow(id)
      PROVE  \E j \in Visited : j \in 1 .. Len(file[t]) /\ file[t][j].id = id /\ j \in 1 .. Len(b)
                                /\ b[j].id = id
  BY <1>2, <1>5 DEF HandedNow, Visited
<1>6. \A id \in Ids : handed[id] \in 0 .. 2
  BY DEF SafeInv, TypeOK
<1>7. OnePlace'
  <2> SUFFICES ASSUME NEW p \in Files, NEW q \in Files,
                      NEW k \in 1 .. Len(file[p]), NEW l \in 1 .. Len(file[q]),
                      file[p][k].id = file[q][l].id
               PROVE  (p = q /\ k = l) \/ file[p][k].id \in kept'
    BY <1>1, <1>3 DEF OnePlace
  <2>1. QED
    BY <1>1, <1>3 DEF OnceInv, OnePlace
<1>8. HandedGoes'
  <2> SUFFICES ASSUME NEW p \in Files, NEW k \in 1 .. Len(file[p]),
                      handed'[file[p][k].id] > 0
               PROVE  file[p][k].id \in kept' \/ Going(p, k)'
    BY <1>1, <1>3 DEF HandedGoes
  <2> DEFINE id == file[p][k].id
  <2>1. id \in Ids
    BY <1>4
  <2>2. CASE handed[id] > 0
    BY <1>3, <1>4, <2>2 DEF OnceInv, HandedGoes
  <2>3. CASE HandedNow(id)
    <3>1. PICK j \in Visited : j \in 1 .. Len(file[t]) /\ file[t][j].id = id
                              /\ j \in 1 .. Len(b) /\ b[j].id = id
      BY <1>5, <2>1, <2>3
    <3>2. id \in kept \/ (p = t /\ k = j)
      BY <1>1, <1>2, <3>1 DEF OnceInv, OnePlace
    <3>3. CASE ForeignSeen
      BY <1>1, <3>1, <3>3 DEF IdsIn
    <3>4. CASE ~ForeignSeen /\ p = t /\ k = j
      <4>1. drain'.consumed > 0
        BY <1>1, <3>1, <3>4
      <4>2. k <= drain'.consumed
        BY <1>1, <3>1, <3>4, <4>1
      <4>3. QED
        BY <1>1, <3>4, <4>2 DEF Going
    <3>5. QED
      BY <1>3, <3>2, <3>3, <3>4
  <2>4. QED
    BY <1>1, <2>1, <2>2, <2>3
<1>9. RestIsNew'
  BY <1>1 DEF RestIsNew
<1>10. HandedOnce'
  <2> SUFFICES ASSUME NEW id \in Ids, handed'[id] > 1
               PROVE  id \in kept'
    BY DEF HandedOnce
  <2>1. CASE handed[id] > 1
    BY <1>3, <2>1 DEF OnceInv, HandedOnce
  <2>2. CASE HandedNow(id) /\ handed[id] > 0
    <3>1. PICK j \in Visited : j \in 1 .. Len(file[t]) /\ file[t][j].id = id
      BY <1>5, <2>2
    <3>2. QED
      BY <1>2, <1>3, <1>4, <2>2, <3>1 DEF OnceInv, HandedGoes
  <2>3. QED
    BY <1>1, <1>6, <2>1, <2>2 DEF Again
<1>11. QED
  BY <1>7, <1>8, <1>9, <1>10 DEF OnceInv

(* The removed records are gone from the disk. *)
LEMMA OnceUnlink ==
    ASSUME SafeInv, OnceInv, DrainUnlinks
    PROVE  OnceInv'
<1>1. /\ drain.at = "settle" /\ drain.target \in Pids
      /\ file' = [file EXCEPT ![drain.target] = None]
      /\ drain'.at = "entry" /\ kept' = kept /\ handed' = handed
  BY UnlinkEffect, DrainRests DEF SafeInv, Undisturbed, Working, Files
<1>2. \A q \in Files' : q \in Files /\ q # drain.target /\ file'[q] = file[q]
  BY <1>1 DEF Files, SafeInv, TypeOK
<1>3. OnePlace'
  <2> SUFFICES ASSUME NEW p \in Files', NEW q \in Files',
                      NEW k \in 1 .. Len(file'[p]), NEW l \in 1 .. Len(file'[q]),
                      file'[p][k].id = file'[q][l].id
               PROVE  (p = q /\ k = l) \/ file'[p][k].id \in kept
    BY <1>1 DEF OnePlace
  <2>1. p \in Files /\ q \in Files /\ file'[p] = file[p] /\ file'[q] = file[q]
    BY <1>2
  <2>2. QED
    BY <1>1, <2>1 DEF OnceInv, OnePlace
<1>4. HandedGoes'
  <2> SUFFICES ASSUME NEW p \in Files', NEW k \in 1 .. Len(file'[p]),
                      handed[file'[p][k].id] > 0
               PROVE  file'[p][k].id \in kept
    BY <1>1 DEF HandedGoes
  <2>1. p \in Files /\ file'[p] = file[p] /\ ~Going(p, k)
    BY <1>2 DEF Going
  <2>2. QED
    BY <2>1 DEF OnceInv, HandedGoes
<1>5. RestIsNew' /\ HandedOnce'
  BY <1>1 DEF OnceInv, RestIsNew, HandedOnce
<1>6. QED
  BY <1>3, <1>4, <1>5 DEF OnceInv

(* A compaction copies what was not handed over. *)
LEMMA OnceCopy ==
    ASSUME SafeInv, OnceInv, CompactCopies
    PROVE  OnceInv'
<1> DEFINE t == drain.target
           f == file[t]
           c == drain.consumed
           b == drain'.buffer
           g == file'[t]
<1>1. /\ drain.at = "settle" /\ ~drain.consumable
      /\ t \in Files /\ t \in Files'
      /\ f \in Seq(RecordType) /\ c \in 1 .. Len(f)
      /\ drain'.at = "truncate" /\ drain'.target = t
      /\ Len(b) \in Nat
      /\ \A k \in 1 .. Len(b) : c + k \in 1 .. Len(f) /\ b[k] = f[c + k]
      /\ \A k \in 1 .. Len(g) : \E j \in 1 .. Len(f) : g[k] = f[j]
      /\ \A q \in Pids : q # t => file'[q] = file[q]
      /\ kept' = kept /\ handed' = handed
  BY CopyEffect
<1>2. \A q \in Files' : q # t => q \in Files /\ file'[q] = file[q]
  BY <1>1 DEF Files
<1>3. OnePlace'
  <2> SUFFICES ASSUME NEW p \in Files', NEW q \in Files',
                      NEW k \in 1 .. Len(file'[p]), NEW l \in 1 .. Len(file'[q]),
                      file'[p][k].id = file'[q][l].id
               PROVE  \/ (p = q /\ k = l) \/ file'[p][k].id \in kept
                      \/ p = q /\ p = t
    BY <1>1 DEF OnePlace
  <2>1. CASE p # t /\ q # t
    <3>1. p \in Files /\ q \in Files /\ file'[p] = file[p] /\ file'[q] = file[q]
      BY <1>2, <2>1
    <3>2. QED
      BY <1>1, <3>1 DEF OnceInv, OnePlace
  <2>2. CASE p = t /\ q # t
    <3>1. PICK j \in 1 .. Len(f) : file'[p][k] = f[j]
      BY <1>1, <2>2
    <3>2. q \in Files /\ file'[q] = file[q]
      BY <1>2, <2>2
    <3>3. QED
      BY <1>1, <2>2, <3>1, <3>2 DEF OnceInv, OnePlace
  <2>3. CASE p # t /\ q = t
    <3>1. PICK j \in 1 .. Len(f) : file'[q][l] = f[j]
      BY <1>1, <2>3
    <3>2. p \in Files /\ file'[p] = file[p]
      BY <1>2, <2>3
    <3>3. QED
      BY <1>1, <2>3, <3>1, <3>2 DEF OnceInv, OnePlace
  <2>4. QED
    BY <2>1, <2>2, <2>3
<1>4. HandedGoes'
  <2> SUFFICES ASSUME NEW p \in Files', NEW k \in 1 .. Len(file'[p]),
                      handed[file'[p][k].id] > 0, p # t
               PROVE  file'[p][k].id \in kept
    BY <1>1 DEF HandedGoes, Going
  <2>1. p \in Files /\ file'[p] = file[p] /\ ~Going(p, k)
    BY <1>2 DEF Going
  <2>2. QED
    BY <2>1 DEF OnceInv, HandedGoes
<1>5. ASSUME NEW k \in 1 .. Len(b), handed[b[k].id] > 0
      PROVE  b[k].id \in kept
  <2>1. c + k \in 1 .. Len(f) /\ b[k] = f[c + k] /\ ~(c + k <= c)
    BY <1>1
  <2>2. ~Going(t, c + k)
    BY <1>1, <2>1 DEF Going
  <2>3. QED
    BY <1>1, <1>5, <2>1, <2>2 DEF OnceInv, HandedGoes
<1>6. ASSUME NEW k \in 1 .. Len(b), NEW l \in 1 .. Len(b), b[k].id = b[l].id
      PROVE  k = l \/ b[k].id \in kept
  <2>1. c + k = c + l \/ f[c + k].id \in kept
    BY <1>1, <1>6 DEF OnceInv, OnePlace
  <2>2. QED
    BY <1>1, <2>1
<1>7. RestIsNew' /\ HandedOnce'
  BY <1>1, <1>5, <1>6 DEF OnceInv, RestIsNew, HandedOnce
<1>8. QED
  BY <1>3, <1>4, <1>7 DEF OnceInv

(* The truncated file holds what was not handed over. *)
LEMMA OnceTruncate ==
    ASSUME SafeInv, OnceInv, CompactTruncates
    PROVE  OnceInv'
<1> DEFINE t == drain.target
           f == file[t]
           b == drain.buffer
<1>1. /\ drain.at = "truncate" /\ t \in Files
      /\ file'[t] = b
      /\ \A k \in 1 .. Len(b) : \E j \in 1 .. Len(f) : b[k] = f[j]
      /\ \A q \in Pids : q # t => file'[q] = file[q]
      /\ drain'.at = "entry" /\ kept' = kept /\ handed' = handed
  BY TruncateEffect, DrainRests DEF SafeInv
<1>2. \A q \in Files' : q # t => q \in Files /\ file'[q] = file[q]
  BY <1>1 DEF Files
<1>3. OnePlace'
  <2> SUFFICES ASSUME NEW p \in Files', NEW q \in Files',
                      NEW k \in 1 .. Len(file'[p]), NEW l \in 1 .. Len(file'[q]),
                      file'[p][k].id = file'[q][l].id
               PROVE  (p = q /\ k = l) \/ file'[p][k].id \in kept
    BY <1>1 DEF OnePlace
  <2>1. CASE p # t /\ q # t
    <3>1. p \in Files /\ q \in Files /\ file'[p] = file[p] /\ file'[q] = file[q]
      BY <1>2, <2>1
    <3>2. QED
      BY <2>1, <3>1 DEF OnceInv, OnePlace
  <2>2. CASE p = t /\ q # t
    <3>1. PICK j \in 1 .. Len(f) : file'[p][k] = f[j]
      BY <1>1, <2>2
    <3>2. q \in Files /\ file'[q] = file[q]
      BY <1>2, <2>2
    <3>3. QED
      BY <1>1, <2>2, <3>1, <3>2 DEF OnceInv, OnePlace
  <2>3. CASE p # t /\ q = t
    <3>1. PICK j \in 1 .. Len(f) : file'[q][l] = f[j]
      BY <1>1, <2>3
    <3>2. p \in Files /\ file'[p] = file[p]
      BY <1>2, <2>3
    <3>3. QED
      BY <1>1, <2>3, <3>1, <3>2 DEF OnceInv, OnePlace
  <2>4. CASE p = t /\ q = t
    BY <1>1, <2>4 DEF OnceInv, RestIsNew
  <2>5. QED
    BY <2>1, <2>2, <2>3, <2>4
<1>4. HandedGoes'
  <2> SUFFICES ASSUME NEW p \in Files', NEW k \in 1 .. Len(file'[p]),
                      handed[file'[p][k].id] > 0
               PROVE  file'[p][k].id \in kept
    BY <1>1 DEF HandedGoes
  <2>1. CASE p = t
    BY <1>1, <2>1 DEF OnceInv, RestIsNew
  <2>2. CASE p # t
    <3>1. p \in Files /\ file'[p] = file[p] /\ ~Going(p, k)
      BY <1>2, <2>2 DEF Going
    <3>2. QED
      BY <3>1 DEF OnceInv, HandedGoes
  <2>3. QED
    BY <2>1, <2>2
<1>5. RestIsNew' /\ HandedOnce'
  BY <1>1 DEF OnceInv, RestIsNew, HandedOnce
<1>6. QED
  BY <1>3, <1>4, <1>5 DEF OnceInv

(* The steps of processes and of the collector together. *)
LEMMA OnceInductive ==
    ASSUME Scope, SafeInv, OnceInv, [Next]_vars
    PROVE  OnceInv'
<1>1. ASSUME NEW p \in Pids, Process(p)
      PROVE  OnceInv'
  <2>1. CASE Spawn(p) \/ (\E q \in Pids : ForkChild(p, q)) \/ OpenSink(p) \/ Dies(p)
    <3>1. file' = file /\ drain' = drain /\ kept' = kept /\ handed' = handed
      BY <2>1 DEF Spawn, ForkChild, Started, OpenSink, Dies
    <3>2. Files' = Files
      BY <3>1 DEF Files
    <3>3. QED
      BY <3>1, <3>2, OnceStays
  <2>2. CASE HandlerOpens(p)
    <3>1. /\ file' = [file EXCEPT ![p] = IF @ = None THEN <<>> ELSE @]
          /\ drain' = drain /\ kept' = kept /\ handed' = handed
      BY <2>2 DEF HandlerOpens, SafeInv, OwnFile
    <3>2. \A q \in Pids : file'[q] = file[q] \/ (file[q] = None /\ file'[q] = <<>>)
      BY <3>1 DEF SafeInv, TypeOK
    <3>3. QED
      BY <3>1, <3>2, OnceStays DEF Files
  <2>3. ASSUME NEW kind \in Outcomes, HandlerWrites(p, kind)
        PROVE  OnceInv'
    BY <2>3, OnceWrite, CrashSinkAssumption DEF Kinds
  <2>4. QED
    BY <1>1, <2>1, <2>2, <2>3 DEF Process, Crash
<1>2. CASE StartDrain
  <2>1. /\ file' = file /\ handed' = handed /\ kept' = kept
        /\ drain.at = "idle" /\ drain'.at = "entry"
    BY <1>2 DEF StartDrain, DrainBegins, DrainStep, At, Idle
  <2>2. QED
    BY <2>1, NotGoing, Released
<1>3. CASE DrainRuns
  <2>1. ASSUME NEW p \in Pids, DrainEntry(p)
        PROVE  OnceInv'
    <3>1. /\ file' = file /\ handed' = handed /\ kept' = kept
          /\ drain.at = "entry" /\ drain'.at \in {"entry", "read"}
      BY <2>1 DEF DrainEntry, DrainStep, At, SafeInv, TypeOK, DrainType
    <3>2. QED
      BY <3>1, NotGoing, Released
  <2>2. CASE DrainReads
    <3>1. /\ file' = file /\ handed' = handed /\ kept' = kept
          /\ drain.at = "read" /\ drain'.at = "visit"
      BY <2>2 DEF DrainReads, DrainStep, At, SafeInv, TypeOK, DrainType
    <3>2. QED
      BY <3>1, NotGoing, Released
  <2>3. CASE DrainKeeps
    <3>1. /\ file' = file /\ handed' = handed /\ kept' = kept /\ drain'.at = "entry"
          /\ drain.at = "settle" /\ ~drain.consumable /\ drain.consumed = 0
      BY <2>3, DrainRests DEF DrainKeeps, DrainStep, At, SafeInv
    <3>2. \A p \in Files : \A k \in 1 .. Len(file[p]) : ~Going(p, k)
      BY <3>1 DEF Going
    <3>3. QED
      BY <3>1, <3>2, Released
  <2>4. CASE DrainEnds
    <3>1. /\ file' = file /\ handed' = handed /\ kept' = kept
          /\ drain.at = "entry" /\ drain'.at = "idle"
      BY <2>4, DrainRests DEF DrainEnds, DrainStep, At, SafeInv
    <3>2. QED
      BY <3>1, NotGoing, Released
  <2>5. QED
    BY <1>3, <2>1, <2>2, <2>3, <2>4, OnceVisit, OnceUnlink, OnceCopy, OnceTruncate DEF DrainRuns
<1>4. CASE RemovalFails \/ CollectorDies
  <2>1. /\ file' = file /\ handed' = handed /\ drain'.at \in {"idle", "entry"}
        /\ kept' = IF Removing THEN kept \cup IdsIn(file[drain.target]) ELSE kept
    BY <1>4, DrainRests DEF RemovalFails, CollectorDies, Fault, SafeInv
  <2>2. ASSUME NEW p \in Files, NEW k \in 1 .. Len(file[p]), Going(p, k)
        PROVE  file[p][k].id \in kept'
    <3>1. Removing
      BY <2>2, DrainFields DEF Going, Removing, At, SafeInv
    <3>2. file[p][k].id \in IdsIn(file[drain.target])
      BY <2>2 DEF Going, IdsIn
    <3>3. QED
      BY <2>1, <3>1, <3>2
  <2>3. QED
    BY <2>1, <2>2, Released
<1>5. CASE UNCHANGED vars
  <2>1. file' = file /\ drain' = drain /\ kept' = kept /\ handed' = handed
    BY <1>5 DEF vars
  <2>2. Files' = Files
    BY <2>1 DEF Files
  <2>3. QED
    BY <2>1, <2>2, OnceStays
<1>6. QED
  BY <1>1, <1>2, <1>3, <1>4, <1>5 DEF Next

LEMMA OnceInitially ==
    Init => OnceInv
<1> SUFFICES ASSUME Init
             PROVE  OnceInv
  OBVIOUS
<1>1. Files = {} /\ drain.at = "idle" /\ \A id \in Ids : handed[id] = 0
  BY DEF Init, Files, Idle
<1>2. QED
  BY <1>1 DEF OnceInv, OnePlace, HandedGoes, RestIsNew, HandedOnce

(* A record is handed over once, unless the collector died or a system     *)
(* call failed before the record was removed, or a record of another       *)
(* version kept its file.                                                  *)
THEOREM RecordsAreHandedOnce ==
    ASSUME ForksInherit = FALSE, "cut" \notin Outcomes
    PROVE  Spec => []HandedOnce
<1>1. Scope
  BY DEF Scope
<1>2. SafeInv /\ OnceInv /\ [Next]_vars => OnceInv'
  BY <1>1, OnceInductive
<1>3. OnceInv => HandedOnce
  BY DEF OnceInv
<1>4. Spec => []SafeInv
  BY <1>1, Safe
<1>5. QED
  BY <1>2, <1>3, <1>4, OnceInitially, PTL DEF Spec

-----------------------------------------------------------------------------
(* CrashSink implements CrashLog *)

(* The abstract state. *)
Waiting == {id \in OnDisk : handed[id] = 0}
Delivered == {id \in Ids : handed[id] > 0}

(* A step that neither writes nor hands over a record is none of CrashLog. *)
LEMMA Stutters ==
    ASSUME Waiting' = Waiting, Delivered' = Delivered
    PROVE  [Log!Next]_(Log!vars)
  BY Zenon DEF Waiting, Delivered, Log!vars

(* A step after which the disk holds the same records, but for some that   *)
(* were handed over.                                                       *)
LEMMA SameWaiting ==
    ASSUME TypeOK, handed' = handed,
           \A p \in Files' : \A k \in 1 .. Len(file'[p]) :
               file'[p][k].kind \in {"own", "foreign"} =>
                   \E q \in Files : \E j \in 1 .. Len(file[q]) : file'[p][k] = file[q][j],
           \A p \in Files : \A k \in 1 .. Len(file[p]) :
               \/ Spent(file[p][k])
               \/ \E q \in Files' : \E j \in 1 .. Len(file'[q]) : file'[q][j] = file[p][k]
    PROVE  [Log!Next]_(Log!vars)
<1>1. ASSUME NEW id \in OnDisk'
      PROVE  id \in OnDisk
  <2>1. id \in Ids
    BY Zenon DEF OnDisk
  <2>2. PICK p \in Files' : \E k \in 1 .. Len(file'[p]) :
            file'[p][k].id = id /\ file'[p][k].kind \in {"own", "foreign"}
    BY Zenon DEF OnDisk, OnDiskAs
  <2>3. PICK k \in 1 .. Len(file'[p]) :
            file'[p][k].id = id /\ file'[p][k].kind \in {"own", "foreign"}
    BY <2>2
  <2>4. PICK q \in Files : \E j \in 1 .. Len(file[q]) : file'[p][k] = file[q][j]
    BY <2>3
  <2>5. QED
    BY <2>1, <2>3, <2>4, OnDiskIn
<1>2. ASSUME NEW id \in OnDisk, handed[id] = 0
      PROVE  id \in OnDisk'
  <2>1. id \in Ids
    BY Zenon DEF OnDisk
  <2>2. PICK p \in Files : \E k \in 1 .. Len(file[p]) :
            file[p][k].id = id /\ file[p][k].kind \in {"own", "foreign"}
    BY <2>1, OnDiskIn
  <2>3. PICK k \in 1 .. Len(file[p]) :
            file[p][k].id = id /\ file[p][k].kind \in {"own", "foreign"}
    BY <2>2
  <2>4. ~Spent(file[p][k])
    BY <1>2, <2>3 DEF Spent
  <2>5. PICK q \in Files' : \E j \in 1 .. Len(file'[q]) : file'[q][j] = file[p][k]
    BY <2>4
  <2>6. \E j \in 1 .. Len(file'[q]) :
            file'[q][j].id = id /\ file'[q][j].kind \in {"own", "foreign"}
    BY <2>3, <2>5
  <2>7. QED
    BY <2>1, <2>6, Zenon DEF OnDisk, OnDiskAs
<1>3. Waiting' = Waiting /\ Delivered' = Delivered
  BY <1>1, <1>2, Zenon DEF Waiting, Delivered
<1>4. QED
  BY <1>3, Stutters

(* The write of a whole record is a Record of CrashLog. *)
LEMMA WriteRecords ==
    ASSUME SafeInv, NEW p \in Pids, NEW kind \in Kinds, HandlerWrites(p, kind)
    PROVE  [Log!Next]_(Log!vars)
<1> DEFINE new == crashes + 1
           n == Len(file[p])
<1>1. /\ p \in Files /\ new \in Ids
      /\ Files' = Files
      /\ \A q \in Pids : q # p => file'[q] = file[q]
      /\ Len(file'[p]) = n + 1
      /\ \A k \in 1 .. n : file'[p][k] = file[p][k]
      /\ file'[p][n + 1] = [id |-> new, kind |-> kind]
      /\ UNCHANGED <<spawns, path, drain, faults, kept, handed>>
  BY WriteEffect, Zenon
<1>2. n \in Nat /\ handed' = handed
      /\ file'[p][n + 1].id = new /\ file'[p][n + 1].kind = kind
  BY <1>1, FileType DEF SafeInv
<1>3. ASSUME NEW q \in Files, NEW k \in 1 .. Len(file[q])
      PROVE  /\ q \in Files' /\ k \in 1 .. Len(file'[q]) /\ file'[q][k] = file[q][k]
             /\ file[q][k].id # new
  <2>1. file[q][k].id \in Ids /\ file[q][k].id <= crashes
    BY FileType DEF SafeInv, Written
  <2>2. crashes \in Nat
    BY DEF SafeInv, TypeOK
  <2>3. file[q][k].id # new
    BY <2>1, <2>2 DEF Ids
  <2>4. q \in Files' /\ k \in 1 .. Len(file'[q]) /\ file'[q][k] = file[q][k]
    BY <1>1, <1>2 DEF Files
  <2>5. QED
    BY <2>3, <2>4
<1>4. ASSUME NEW q \in Files', NEW k \in 1 .. Len(file'[q])
      PROVE  \/ q = p /\ k = n + 1
             \/ q \in Files /\ k \in 1 .. Len(file[q]) /\ file'[q][k] = file[q][k]
  <2>1. CASE q # p
    BY <1>1, <2>1 DEF Files
  <2>2. CASE q = p
    BY <1>1, <1>2, <2>2
  <2>3. QED
    BY <2>1, <2>2
<1>5. handed[new] = 0
  BY <1>1 DEF SafeInv, Numbered, TypeOK, Ids
<1> HIDE DEF new, n
<1>6. CASE kind \in {"own", "foreign"}
  <2>1. new \in OnDisk' /\ new \notin OnDisk
    <3>1. p \in Files' /\ n + 1 \in 1 .. Len(file'[p])
          /\ file'[p][n + 1].id = new /\ file'[p][n + 1].kind \in {"own", "foreign"}
      BY <1>1, <1>2, <1>6
    <3>2. new \in OnDisk'
      BY <1>1, <3>1, Zenon DEF OnDisk, OnDiskAs
    <3>3. new \notin OnDisk
      BY <1>1, <1>3, OnDiskIn
    <3>4. QED
      BY <3>2, <3>3
  <2>2. OnDisk \subseteq OnDisk'
    <3> SUFFICES ASSUME NEW id \in OnDisk
                 PROVE  id \in OnDisk'
      OBVIOUS
    <3>1. id \in Ids
      BY Zenon DEF OnDisk
    <3>2. PICK q \in Files : \E k \in 1 .. Len(file[q]) :
              file[q][k].id = id /\ file[q][k].kind \in {"own", "foreign"}
      BY <3>1, OnDiskIn
    <3>3. q \in Files' /\ \E k \in 1 .. Len(file'[q]) :
              file'[q][k].id = id /\ file'[q][k].kind \in {"own", "foreign"}
      BY <1>3, <3>2
    <3>4. QED
      BY <3>1, <3>3, Zenon DEF OnDisk, OnDiskAs
  <2>3. ASSUME NEW id \in OnDisk', id # new
        PROVE  id \in OnDisk
    <3>1. id \in Ids
      BY Zenon DEF OnDisk
    <3>2. PICK q \in Files' : \E k \in 1 .. Len(file'[q]) :
              file'[q][k].id = id /\ file'[q][k].kind \in {"own", "foreign"}
      BY Zenon DEF OnDisk, OnDiskAs
    <3>3. q \in Files /\ \E k \in 1 .. Len(file[q]) :
              file[q][k].id = id /\ file[q][k].kind \in {"own", "foreign"}
      BY <1>1, <1>2, <1>4, <2>3, <3>2
    <3>4. QED
      BY <3>1, <3>3, OnDiskIn
  <2>4. /\ new \notin Waiting \cup Delivered
        /\ Waiting' = Waiting \cup {new} /\ Delivered' = Delivered
    <3>1. ~(handed[new] > 0)
      BY <1>5
    <3>2. QED
      BY <1>2, <1>5, <2>1, <2>2, <2>3, <3>1, Zenon DEF Waiting, Delivered
  <2>5. new \in Ids
    BY <1>1
  <2>6. \E id \in Ids : Log!Record(id)
    BY <2>4, <2>5, Zenon DEF Log!Record, Waiting, Delivered
  <2>7. Log!Next
    BY <2>6, Zenon DEF Log!Next
  <2>8. QED
    BY <2>7, Zenon
<1>7. CASE kind \notin {"own", "foreign"}
  <2>1. ASSUME NEW q \in Files', NEW k \in 1 .. Len(file'[q]),
               file'[q][k].kind \in {"own", "foreign"}
        PROVE  \E r \in Files : \E j \in 1 .. Len(file[r]) : file'[q][k] = file[r][j]
    BY <1>2, <1>4, <1>7, <2>1
  <2>2. \A q \in Files : \A k \in 1 .. Len(file[q]) :
            \E r \in Files' : \E j \in 1 .. Len(file'[r]) : file'[r][j] = file[q][k]
    BY <1>3
  <2>3. QED
    BY <1>2, <2>1, <2>2, SameWaiting DEF SafeInv
<1>8. QED
  BY <1>6, <1>7

(* A drain that finds records is a HandOver of CrashLog. *)
LEMMA VisitHandsOver ==
    ASSUME SafeInv, DrainVisits
    PROVE  [Log!Next]_(Log!vars)
<1> DEFINE t == drain.target
           b == drain.buffer
           ids == {id \in Waiting : HandedNow(id)}
<1>1. /\ drain.at = "visit" /\ file' = file
      /\ \A id \in Ids : handed'[id] = IF HandedNow(id) THEN Again(handed[id]) ELSE handed[id]
  BY VisitEffect
<1>2. /\ t \in Files
      /\ \A k \in 1 .. Len(b) : b[k] = file[t][k] /\ k \in 1 .. Len(file[t])
  BY <1>1, BufferOfFile
<1>3. OnDisk' = OnDisk
  <2>1. Files' = Files
    BY <1>1 DEF Files
  <2>2. QED
    BY <1>1, <2>1, Zenon DEF OnDisk, OnDiskAs
<1>4. \A id \in Ids : HandedNow(id) => id \in OnDisk
  <2> SUFFICES ASSUME NEW id \in Ids, HandedNow(id)
               PROVE  id \in OnDisk
    OBVIOUS
  <2>1. PICK k \in 1 .. Len(b) : b[k].id = id /\ b[k].kind = "own"
    BY DEF HandedNow, Visited
  <2>2. QED
    BY <1>2, <2>1, OnDiskIn
<1>5. \A id \in Ids : /\ handed'[id] = 0 <=> handed[id] = 0 /\ ~HandedNow(id)
                      /\ handed'[id] > 0 <=> handed[id] > 0 \/ HandedNow(id)
                      /\ handed[id] = 0 \/ handed[id] > 0
  BY <1>1 DEF Again, SafeInv, TypeOK
<1>6. OnDisk \subseteq Ids
  BY Zenon DEF OnDisk
<1>7. Waiting' = Waiting \ ids
  BY <1>3, <1>5, <1>6, Zenon DEF Waiting
<1>8. Delivered' = Delivered \cup ids
  <2>1. \A id \in Ids : id \in Delivered' <=> id \in Delivered \/ id \in ids
    BY <1>4, <1>5, Zenon DEF Waiting, Delivered
  <2>2. Delivered' \subseteq Ids /\ Delivered \subseteq Ids /\ ids \subseteq Ids
    BY <1>6, Zenon DEF Waiting, Delivered
  <2> HIDE DEF ids
  <2>3. QED
    BY <2>1, <2>2
<1> HIDE DEF ids
<1>9. CASE ids = {}
  BY <1>7, <1>8, <1>9, Stutters
<1>10. CASE ids # {}
  <2>1. ids \in SUBSET Waiting
    BY Zenon DEF ids
  <2>2. \E s \in SUBSET Waiting : Log!HandOver(s)
    BY <1>7, <1>8, <1>10, <2>1, Zenon DEF Log!HandOver, Waiting, Delivered
  <2>3. Log!Next
    BY <2>2, Zenon DEF Log!Next, Waiting
  <2>4. QED
    BY <2>3, Zenon
<1>11. QED
  BY <1>9, <1>10

(* The files are the same, but for empty ones. *)
LEMMA FilesWait ==
    ASSUME SafeInv, handed' = handed,
           \A p \in Pids : file'[p] = file[p] \/ (file[p] = None /\ file'[p] = <<>>)
    PROVE  [Log!Next]_(Log!vars)
<1>1. \A p \in Files : p \in Files' /\ file'[p] = file[p]
  BY DEF Files
<1>2. ASSUME NEW p \in Files', NEW k \in 1 .. Len(file'[p])
      PROVE  p \in Files /\ file'[p] = file[p]
  BY <1>2 DEF Files
<1>3. \A p \in Files' : \A k \in 1 .. Len(file'[p]) :
          \E q \in Files : \E j \in 1 .. Len(file[q]) : file'[p][k] = file[q][j]
  BY <1>2
<1>4. \A p \in Files : \A k \in 1 .. Len(file[p]) :
          \E q \in Files' : \E j \in 1 .. Len(file'[q]) : file'[q][j] = file[p][k]
  BY <1>1
<1>5. QED
  BY <1>3, <1>4, SameWaiting DEF SafeInv

(* One file is rewritten or unlinked; what it loses was handed over. *)
LEMMA OneFileWaits ==
    ASSUME SafeInv, handed' = handed, NEW t \in Files,
           \A q \in Pids : q # t => file'[q] = file[q],
           t \in Files' => \A k \in 1 .. Len(file'[t]) :
               \E j \in 1 .. Len(file[t]) : file'[t][k] = file[t][j],
           \A j \in 1 .. Len(file[t]) :
               \/ Spent(file[t][j])
               \/ t \in Files' /\ \E k \in 1 .. Len(file'[t]) : file'[t][k] = file[t][j]
    PROVE  [Log!Next]_(Log!vars)
<1>1. \A q \in Pids : q # t => (q \in Files' <=> q \in Files) /\ file'[q] = file[q]
  BY DEF Files
<1>2. Files' \subseteq Pids /\ Files \subseteq Pids
  BY DEF Files
<1>3. \A p \in Files' : \A k \in 1 .. Len(file'[p]) :
          \E q \in Files : \E j \in 1 .. Len(file[q]) : file'[p][k] = file[q][j]
  BY <1>1, <1>2
<1>4. \A p \in Files : \A k \in 1 .. Len(file[p]) :
          \/ Spent(file[p][k])
          \/ \E q \in Files' : \E j \in 1 .. Len(file'[q]) : file'[q][j] = file[p][k]
  BY <1>1, <1>2
<1>5. QED
  BY <1>3, <1>4, SameWaiting DEF SafeInv

(* The removal of what was handed over is invisible. *)
LEMMA RemovalWaits ==
    ASSUME SafeInv, DrainUnlinks \/ CompactCopies \/ CompactTruncates
    PROVE  [Log!Next]_(Log!vars)
<1> DEFINE t == drain.target
<1>1. CASE DrainUnlinks
  <2>1. /\ drain.at = "settle" /\ drain.consumable /\ handed' = handed
        /\ file' = [file EXCEPT ![t] = None]
    BY <1>1, UnlinkEffect
  <2>2. t \in Files /\ t \in Pids
    BY <2>1 DEF SafeInv, Undisturbed, Working, Files
  <2>3. \A j \in 1 .. Len(file[t]) : Spent(file[t][j])
    BY <2>1 DEF SafeInv, RemovalIsSafe, Going
  <2>4. t \notin Files' /\ \A q \in Pids : q # t => file'[q] = file[q]
    BY <2>1, <2>2 DEF SafeInv, TypeOK, Files
  <2> HIDE DEF t
  <2>5. QED
    BY <2>1, <2>2, <2>3, <2>4, OneFileWaits
<1>2. CASE CompactCopies
  <2> DEFINE f == file[t]
             c == drain.consumed
             b == drain'.buffer
             g == file'[t]
  <2>1. /\ drain.at = "settle" /\ t \in Files /\ t \in Files' /\ handed' = handed
        /\ f \in Seq(RecordType) /\ c \in 1 .. Len(f)
        /\ b \in Seq(RecordType) /\ Len(b) = Len(f) - c
        /\ \A k \in 1 .. Len(b) : c + k \in 1 .. Len(f) /\ b[k] = f[c + k]
        /\ g \in Seq(RecordType) /\ Len(b) <= Len(g)
        /\ \A k \in 1 .. Len(b) : g[k] = b[k]
        /\ \A k \in 1 .. Len(g) : \E j \in 1 .. Len(f) : g[k] = f[j]
        /\ \A q \in Pids : q # t => file'[q] = file[q]
    BY <1>2, CopyEffect
  <2>2. \A k \in 1 .. c : k \in 1 .. Len(f) /\ Spent(f[k])
    BY <2>1 DEF SafeInv, RemovalIsSafe, Going
  <2> HIDE DEF f, c, b, g
  <2>3. ASSUME NEW j \in 1 .. Len(f)
        PROVE  Spent(f[j]) \/ \E k \in 1 .. Len(g) : g[k] = f[j]
    <3>1. CASE j <= c
      BY <2>1, <2>2, <3>1
    <3>2. CASE j > c
      <4>1. j - c \in 1 .. Len(b) /\ f[c + (j - c)] = f[j] /\ j - c \in 1 .. Len(g)
        BY <2>1, <3>2
      <4>2. QED
        BY <2>1, <4>1
    <3>3. QED
      BY <2>1, <3>1, <3>2
  <2> HIDE DEF t
  <2>4. QED
    BY <2>1, <2>3, OneFileWaits DEF f, g
<1>3. CASE CompactTruncates
  <2> DEFINE b == drain.buffer
  <2>1. /\ t \in Files /\ t \in Files' /\ file'[t] = b
        /\ \A k \in 1 .. Len(b) : \E j \in 1 .. Len(file[t]) : b[k] = file[t][j]
        /\ \A j \in 1 .. Len(file[t]) :
              Spent(file[t][j]) \/ \E k \in 1 .. Len(b) : b[k] = file[t][j]
        /\ \A q \in Pids : q # t => file'[q] = file[q]
        /\ UNCHANGED <<procVars, crashes, faults, kept, saved, handed>>
    BY <1>3, TruncateEffect, Zenon
  <2>2. handed' = handed
    BY <2>1
  <2> HIDE DEF t, b
  <2>3. QED
    BY <2>1, <2>2, OneFileWaits
<1>4. QED
  BY <1>1, <1>2, <1>3

(* Every step of CrashSink is one of CrashLog or none. *)
LEMMA StepsOfLog ==
    ASSUME Scope, SafeInv, [Next]_vars
    PROVE  [Log!Next]_(Log!vars)
<1>1. ASSUME NEW p \in Pids, Process(p)
      PROVE  [Log!Next]_(Log!vars)
  <2>1. CASE Spawn(p) \/ (\E q \in Pids : ForkChild(p, q)) \/ OpenSink(p) \/ Dies(p)
    <3>1. file' = file /\ handed' = handed
      BY <2>1 DEF Spawn, ForkChild, Started, OpenSink, Dies
    <3>2. QED
      BY <3>1, FilesWait
  <2>2. CASE HandlerOpens(p)
    <3>1. /\ file' = [file EXCEPT ![p] = IF @ = None THEN <<>> ELSE @]
          /\ handed' = handed
      BY <2>2 DEF HandlerOpens, SafeInv, OwnFile
    <3>2. \A q \in Pids : file'[q] = file[q] \/ (file[q] = None /\ file'[q] = <<>>)
      BY <3>1 DEF SafeInv, TypeOK
    <3>3. QED
      BY <3>1, <3>2, FilesWait
  <2>3. ASSUME NEW kind \in Outcomes, HandlerWrites(p, kind)
        PROVE  [Log!Next]_(Log!vars)
    BY <2>3, WriteRecords, CrashSinkAssumption DEF Kinds
  <2>4. QED
    BY <1>1, <2>1, <2>2, <2>3 DEF Process, Crash
<1>2. CASE \/ StartDrain
           \/ (\E p \in Pids : DrainEntry(p))
           \/ DrainReads \/ DrainKeeps \/ DrainEnds
           \/ RemovalFails \/ CollectorDies
           \/ UNCHANGED vars
  <2>1. file' = file /\ handed' = handed
    BY <1>2 DEF StartDrain, DrainBegins, DrainEntry, DrainReads, DrainKeeps, DrainEnds,
                RemovalFails, CollectorDies, Fault, vars
  <2>2. QED
    BY <2>1, FilesWait
<1>3. CASE DrainVisits
  BY <1>3, VisitHandsOver
<1>4. CASE DrainUnlinks \/ CompactCopies \/ CompactTruncates
  BY <1>4, RemovalWaits
<1>5. QED
  BY <1>1, <1>2, <1>3, <1>4 DEF Next, DrainRuns

LEMMA StartOfLog ==
    Init => Log!Init
<1> SUFFICES ASSUME Init
             PROVE  Log!Init
  OBVIOUS
<1>1. Files = {} /\ \A id \in Ids : handed[id] = 0
  BY DEF Init, Files
<1>2. Waiting = {}
  BY <1>1, Zenon DEF Waiting, OnDisk, OnDiskAs
<1>3. Delivered = {}
  BY <1>1 DEF Delivered
<1>4. QED
  BY <1>2, <1>3, Zenon DEF Log!Init, Waiting, Delivered

(* The files, the unlocked appends, the reads, unlinks and compactions     *)
(* implement the promise of CrashLog: a record that reached the disk       *)
(* waits, and only a hand-over by a drain takes it away.                   *)
THEOREM FilesImplementLog ==
    ASSUME ForksInherit = FALSE, "cut" \notin Outcomes
    PROVE  Spec => ImplementsCrashLog
<1>1. Scope
  BY DEF Scope
<1>2. SafeInv /\ [Next]_vars => [Log!Next]_(Log!vars)
  BY <1>1, StepsOfLog
<1>3. Spec => []SafeInv
  BY <1>1, Safe
<1>4. QED
  BY <1>2, <1>3, StartOfLog, PTL DEF Spec, ImplementsCrashLog, Log!Spec
=============================================================================
