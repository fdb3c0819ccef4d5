----------------------------- MODULE Breadcrumbs -----------------------------
(***************************************************************************)
(* The breadcrumb ring (src/src/breadcrumbs.c): one writer, the PHP        *)
(* thread, in cbox_crumbs_push, and one reader, the crash handler, in      *)
(* cbox_crumbs_snapshot.  Each store and each load is a step of its own in *)
(* program order, because the handler may start between any two of them.   *)
(*                                                                         *)
(* Normally the handler runs on the thread it interrupted and the writer   *)
(* never moves again; a fault raised on another thread of the process lets *)
(* the writer run on while the handler reads.                              *)
(*                                                                         *)
(* A breadcrumb's contents are abstracted to the number of the push that   *)
(* wrote them: the timestamp, type and flags in ts, the label in label, so *)
(* an entry is a mixture of two pushes exactly when the two differ.        *)
(***************************************************************************)
EXTENDS Integers, Sequences

CONSTANTS
    Capacity,     \* ring->capacity, a power of two
    CrashCrumbs,  \* CBOX_CRASH_CRUMBS, the snapshot's max
    SeqModulus,   \* 2^32: ring->seq is a uint32_t and wraps
    MaxPushes     \* bound: breadcrumbs pushed before the crash is over

ASSUME BreadcrumbsAssumption ==
    /\ Capacity \in Nat \ {0}
    /\ CrashCrumbs \in Nat \ {0}
    /\ SeqModulus \in Nat \ {0, 1}
    /\ MaxPushes \in Nat

VARIABLES
    entries,    \* ring->entries: seq, ts and label of every slot
    head,       \* ring->head
    seq,        \* ring->seq
    written,    \* ring->written
    wpc,        \* next store of cbox_crumbs_push
    rpc,        \* next load of cbox_crumbs_snapshot
    concurrent, \* the handler runs on another thread than the writer
    rhead,      \* its local head
    count,      \* its local count
    i,          \* its local i
    before,     \* its local before
    entry,      \* dst[copied], not yet kept
    dst         \* dst[0 .. copied - 1]

ring == <<entries, head, seq, written, wpc>>
reader == <<rpc, concurrent, rhead, count, i, before, entry, dst>>
vars == <<ring, reader>>

-----------------------------------------------------------------------------
Slots == 0 .. Capacity - 1
Pushes == 0 .. MaxPushes
Seqs == 0 .. SeqModulus - 1
Entry == [seq : Seqs, ts : Pushes, label : Pushes]
Blank == [seq |-> 0, ts |-> 0, label |-> 0]

WriterSteps == {"retract", "stamp", "label", "publish", "advance", "account"}
ReaderSteps == {"idle", "count", "before", "ts", "label", "after", "done"}

(* The sequence number of push p, by uint32_t increments from 0. *)
SeqOf(p) == p % SeqModulus

(* x & ring->mask, for the x < 2 * capacity that occur. *)
Masked(x) == IF x >= Capacity THEN x - Capacity ELSE x

-----------------------------------------------------------------------------
(* cbox_crumbs_push, store by store *)

WriterRuns == concurrent \/ rpc = "idle"

WriterStep(from, to) ==
    /\ WriterRuns
    /\ wpc = from
    /\ wpc' = to
    /\ UNCHANGED reader

Retract ==
    /\ written < MaxPushes
    /\ WriterStep("retract", "stamp")
    /\ entries' = [entries EXCEPT ![head].seq = 0]
    /\ UNCHANGED <<head, seq, written>>

FillStamp ==
    /\ WriterStep("stamp", "label")
    /\ entries' = [entries EXCEPT ![head].ts = written + 1]
    /\ UNCHANGED <<head, seq, written>>

FillLabel ==
    /\ WriterStep("label", "publish")
    /\ entries' = [entries EXCEPT ![head].label = written + 1]
    /\ UNCHANGED <<head, seq, written>>

NextSeq == IF seq + 1 = SeqModulus THEN 0 ELSE seq + 1

Publish ==
    /\ WriterStep("publish", "advance")
    /\ seq' = NextSeq
    /\ entries' = [entries EXCEPT ![head].seq = NextSeq]
    /\ UNCHANGED <<head, written>>

(* Mutant: the increment is not masked. *)
Unmasked(h) == h + 1

(* ring->head after a push. *)
Advanced(h) == Masked(h + 1)

AdvanceHead ==
    /\ WriterStep("advance", "account")
    /\ head' = Advanced(head)
    /\ UNCHANGED <<entries, seq, written>>

CountWritten ==
    /\ WriterStep("account", "retract")
    /\ written' = written + 1
    /\ UNCHANGED <<entries, head, seq>>

-----------------------------------------------------------------------------
(* cbox_crumbs_snapshot, load by load, from cbox_crash_handler *)

Smaller(a, b) == IF a < b THEN a ELSE b

(* The fault: on this thread or another. *)
LoadHead ==
    /\ rpc = "idle"
    /\ concurrent' \in BOOLEAN
    /\ rpc' = "count"
    /\ rhead' = head
    /\ UNCHANGED <<ring, count, i, before, entry, dst>>

(* available, count and the loop's first test. *)
LoadWritten ==
    /\ rpc = "count"
    /\ count' = Smaller(Smaller(written, Capacity), CrashCrumbs)
    /\ i' = 0
    /\ rpc' = IF count' = 0 THEN "done" ELSE "before"
    /\ UNCHANGED <<ring, concurrent, rhead, before, entry, dst>>

(* Mutant: the window is walked from the newest entry back. *)
IndexBackwards == Masked(rhead + Capacity - 1 - i)

(* Mutant: the window starts one slot too early. *)
IndexTooEarly == Masked(rhead + Capacity - count - 1 + i)

Index == Masked(rhead + Capacity - count + i)

(* Mutant: a retracted slot is read again until it is published. *)
SameAgain(k) == k

(* What "continue" does to the loop variable. *)
Skipped(k) == k + 1

(* The end of one iteration: the loop variable becomes k. *)
Iterate(k) ==
    /\ i' = k
    /\ rpc' = IF k < count THEN "before" ELSE "done"

LoadBefore ==
    /\ rpc = "before"
    /\ before' = entries[Index].seq
    /\ IF before' = 0
       THEN Iterate(Skipped(i))
       ELSE rpc' = "ts" /\ i' = i
    /\ UNCHANGED <<ring, concurrent, rhead, count, entry, dst>>

(* dst[copied] = *entry is a plain structure copy, which may tear. *)
CopyStamp ==
    /\ rpc = "ts"
    /\ rpc' = "label"
    /\ entry' = [entry EXCEPT !.ts = entries[Index].ts]
    /\ UNCHANGED <<ring, concurrent, rhead, count, i, before, dst>>

CopyLabel ==
    /\ rpc = "label"
    /\ rpc' = "after"
    /\ entry' = [entry EXCEPT !.label = entries[Index].label,
                              !.seq = entries[Index].seq]
    /\ UNCHANGED <<ring, concurrent, rhead, count, i, before, dst>>

(* Mutant: the copy is kept without looking at the sequence again. *)
AlwaysUnchanged(after) == TRUE

(* The sequence number is the one loaded before the copy. *)
SeqUnchanged(after) == after = before

LoadAfter ==
    /\ rpc = "after"
    /\ dst' = IF SeqUnchanged(entries[Index].seq) THEN Append(dst, entry) ELSE dst
    /\ Iterate(i + 1)
    /\ UNCHANGED <<ring, concurrent, rhead, count, before, entry>>

-----------------------------------------------------------------------------
Init ==
    /\ entries = [k \in Slots |-> Blank]
    /\ head = 0
    /\ seq = 0
    /\ written = 0
    /\ wpc = "retract"
    /\ rpc = "idle"
    /\ concurrent = FALSE
    /\ rhead = 0
    /\ count = 0
    /\ i = 0
    /\ before = 0
    /\ entry = Blank
    /\ dst = <<>>

Push == Retract \/ FillStamp \/ FillLabel \/ Publish \/ AdvanceHead \/ CountWritten
Read == LoadWritten \/ LoadBefore \/ CopyStamp \/ CopyLabel \/ LoadAfter

Next == Push \/ LoadHead \/ Read

Spec == Init /\ [][Next]_vars

(* A handler that has started runs on; nothing obliges the program to      *)
(* crash or to push.                                                       *)
FairSpec == Spec /\ WF_vars(Read)

-----------------------------------------------------------------------------
(* Properties *)

(* Every variable stays in its type: no index leaves the ring. *)
TypeOK ==
    /\ entries \in [Slots -> Entry]
    /\ head \in Slots
    /\ seq \in Seqs
    /\ written \in Pushes
    /\ wpc \in WriterSteps
    /\ rpc \in ReaderSteps
    /\ concurrent \in BOOLEAN
    /\ rhead \in Slots
    /\ count \in 0 .. Smaller(Capacity, CrashCrumbs)
    /\ i \in 0 .. count
    /\ before \in Seqs
    /\ entry \in Entry
    /\ dst \in Seq(Entry)

(* An entry whose parts come from one push. *)
Whole(e) == e.ts > 0 /\ e.label = e.ts /\ e.seq = SeqOf(e.ts)

(* The crash record holds only entries that were complete (breadcrumbs.h), *)
(* wherever in a push the crash lands and whatever the writer does while   *)
(* the handler copies.                                                     *)
SnapshotComplete == \A k \in 1 .. Len(dst) : Whole(dst[k])

(* The record of a crash on the PHP thread is oldest first (breadcrumbs.h, *)
(* cbox_crumbs_snapshot).                                                  *)
SnapshotOrdered ==
    ~concurrent => \A k \in 1 .. Len(dst) - 1 : dst[k].ts < dst[k + 1].ts

(* A crash on the PHP thread records the most recent entries: of the       *)
(* window of count pushes that were over when it landed only the oldest    *)
(* may be missing.                                                         *)
SnapshotRecent ==
    rpc = "done" /\ ~concurrent =>
        \A p \in written - count + 2 .. written :
            \E k \in 1 .. Len(dst) : dst[k].ts = p

(* The snapshot ends although the interrupted push never will: the handler *)
(* does not wait for a slot to be published (breadcrumbs.c, "No retry").   *)
SnapshotTerminates == rpc # "idle" ~> rpc = "done"
=============================================================================
