--------------------------- MODULE BreadcrumbsProofs ---------------------------
(***************************************************************************)
(* Theorems about Breadcrumbs, for every capacity and snapshot size and    *)
(* with the handler on either thread.  That a record holds only complete   *)
(* entries rests on the sequence number alone: it is zero while a slot is  *)
(* refilled and never repeats, so a copy between two loads that agree was  *)
(* not disturbed.  It never repeats as long as fewer breadcrumbs are       *)
(* pushed than sequence numbers exist.  That it holds recent entries, and  *)
(* these in order, rests on the ring: going back from head, every slot was *)
(* filled one push earlier, the one in the writer's hand excepted.         *)
(***************************************************************************)
EXTENDS Breadcrumbs, TLAPS

-----------------------------------------------------------------------------
(* Type correctness *)

(* The handler is in the middle of an entry of its window. *)
Reading == {"before", "ts", "label", "after"}

TypeInv ==
    /\ TypeOK
    /\ wpc # "retract" => written < MaxPushes
    /\ rpc \in Reading => i < count

(* The handler's index lies in the ring. *)
LEMMA IndexInRing ==
    ASSUME TypeInv, rpc \in Reading
    PROVE  Index \in Slots
  BY BreadcrumbsAssumption DEF TypeInv, TypeOK, Index, Masked, Slots, Smaller

(* Every step of the writer or the handler keeps the types. *)
LEMMA TypeStep ==
    TypeInv /\ [Next]_vars => TypeInv'
<1> SUFFICES ASSUME TypeInv, [Next]_vars
             PROVE  TypeInv'
  OBVIOUS
<1> USE BreadcrumbsAssumption
<1>1. ASSUME Retract
      PROVE  TypeInv'
  <2>1. 0 \in Seqs
    BY DEF Seqs
  <2>2. entries' \in [Slots -> Entry]
    BY <1>1, <2>1 DEF Retract, TypeInv, TypeOK, Entry
  <2>3. QED
    BY <1>1, <2>2 DEF Retract, WriterStep, reader, TypeInv, TypeOK, WriterSteps
<1>2. ASSUME FillStamp
      PROVE  TypeInv'
  <2>1. written + 1 \in Pushes
    BY <1>2 DEF FillStamp, WriterStep, TypeInv, TypeOK, Pushes
  <2>2. entries' \in [Slots -> Entry]
    BY <1>2, <2>1 DEF FillStamp, TypeInv, TypeOK, Entry
  <2>3. QED
    BY <1>2, <2>2 DEF FillStamp, WriterStep, reader, TypeInv, TypeOK, WriterSteps
<1>3. ASSUME FillLabel
      PROVE  TypeInv'
  <2>1. written + 1 \in Pushes
    BY <1>3 DEF FillLabel, WriterStep, TypeInv, TypeOK, Pushes
  <2>2. entries' \in [Slots -> Entry]
    BY <1>3, <2>1 DEF FillLabel, TypeInv, TypeOK, Entry
  <2>3. QED
    BY <1>3, <2>2 DEF FillLabel, WriterStep, reader, TypeInv, TypeOK, WriterSteps
<1>4. ASSUME Publish
      PROVE  TypeInv'
  <2>1. NextSeq \in Seqs
    BY DEF NextSeq, TypeInv, TypeOK, Seqs
  <2>2. entries' \in [Slots -> Entry]
    BY <1>4, <2>1 DEF Publish, TypeInv, TypeOK, Entry
  <2>3. QED
    BY <1>4, <2>1, <2>2 DEF Publish, WriterStep, reader, TypeInv, TypeOK, WriterSteps
<1>5. ASSUME AdvanceHead
      PROVE  TypeInv'
  <2>1. head' \in Slots
    BY <1>5 DEF AdvanceHead, Advanced, Masked, TypeInv, TypeOK, Slots
  <2>2. QED
    BY <1>5, <2>1 DEF AdvanceHead, WriterStep, reader, TypeInv, TypeOK, WriterSteps
<1>6. ASSUME CountWritten
      PROVE  TypeInv'
  <2>1. written' \in Pushes
    BY <1>6 DEF CountWritten, WriterStep, TypeInv, TypeOK, Pushes
  <2>2. QED
    BY <1>6, <2>1 DEF CountWritten, WriterStep, reader, TypeInv, TypeOK, WriterSteps
<1>7. ASSUME LoadHead
      PROVE  TypeInv'
  BY <1>7 DEF LoadHead, ring, TypeInv, TypeOK, ReaderSteps, Reading
<1>8. ASSUME LoadWritten
      PROVE  TypeInv'
  <2>1. count' \in 0 .. Smaller(Capacity, CrashCrumbs) /\ count' \in Nat
    BY <1>8 DEF LoadWritten, Smaller, TypeInv, TypeOK, Pushes
  <2>2. i' \in 0 .. count' /\ (rpc' \in Reading => i' < count')
    BY <1>8, <2>1 DEF LoadWritten, Reading
  <2>3. QED
    BY <1>8, <2>1, <2>2 DEF LoadWritten, ring, TypeInv, TypeOK, ReaderSteps
<1>9. ASSUME LoadBefore
      PROVE  TypeInv'
  <2>1. Index \in Slots
    BY <1>9, IndexInRing DEF LoadBefore, Reading
  <2>2. before' \in Seqs
    BY <1>9, <2>1 DEF LoadBefore, TypeInv, TypeOK, Entry
  <2>3. i' \in 0 .. count /\ (rpc' \in Reading => i' < count) /\ rpc' \in ReaderSteps
    BY <1>9 DEF LoadBefore, Iterate, Skipped, TypeInv, TypeOK, Reading, ReaderSteps, Smaller
  <2>4. QED
    BY <1>9, <2>2, <2>3 DEF LoadBefore, ring, TypeInv, TypeOK
<1>10. ASSUME CopyStamp
       PROVE  TypeInv'
  <2>1. Index \in Slots
    BY <1>10, IndexInRing DEF CopyStamp, Reading
  <2>2. entry' \in Entry
    BY <1>10, <2>1 DEF CopyStamp, TypeInv, TypeOK, Entry
  <2>3. QED
    BY <1>10, <2>2 DEF CopyStamp, ring, TypeInv, TypeOK, ReaderSteps, Reading
<1>11. ASSUME CopyLabel
       PROVE  TypeInv'
  <2>1. Index \in Slots
    BY <1>11, IndexInRing DEF CopyLabel, Reading
  <2>2. entry' \in Entry
    BY <1>11, <2>1 DEF CopyLabel, TypeInv, TypeOK, Entry
  <2>3. QED
    BY <1>11, <2>2 DEF CopyLabel, ring, TypeInv, TypeOK, ReaderSteps, Reading
<1>12. ASSUME LoadAfter
       PROVE  TypeInv'
  <2>1. dst' \in Seq(Entry)
    BY <1>12 DEF LoadAfter, TypeInv, TypeOK
  <2>2. i' \in 0 .. count /\ (rpc' \in Reading => i' < count) /\ rpc' \in ReaderSteps
    BY <1>12 DEF LoadAfter, Iterate, TypeInv, TypeOK, Reading, ReaderSteps, Smaller
  <2>3. QED
    BY <1>12, <2>1, <2>2 DEF LoadAfter, ring, TypeInv, TypeOK
<1>13. ASSUME UNCHANGED vars
       PROVE  TypeInv'
  BY <1>13 DEF vars, ring, reader, TypeInv, TypeOK
<1>14. QED
  BY <1>1, <1>2, <1>3, <1>4, <1>5, <1>6, <1>7, <1>8, <1>9, <1>10, <1>11, <1>12, <1>13
  DEF Next, Push, Read

(* The initial state is in its type. *)
LEMMA TypeInit ==
    Init => TypeInv
  BY BreadcrumbsAssumption
  DEF Init, TypeInv, TypeOK, Blank, Entry, Slots, Seqs, Pushes, WriterSteps, ReaderSteps,
      Reading, Smaller

(* No index of the writer or of the crash handler leaves the ring, for any *)
(* capacity, wherever the crash lands and whichever thread it hits.        *)
THEOREM TypeCorrect ==
    Spec => []TypeOK
<1>1. TypeInv => TypeOK
  BY DEF TypeInv
<1>2. QED
  BY TypeInit, TypeStep, <1>1, PTL DEF Spec

-----------------------------------------------------------------------------
(* Completeness *)

(* Below the width of ring->seq the number of a push is its sequence. *)
LEMMA SeqOfPush ==
    ASSUME MaxPushes < SeqModulus, NEW p \in Pushes
    PROVE  SeqOf(p) = p
  BY BreadcrumbsAssumption DEF SeqOf, Pushes

(* ring->seq counts the breadcrumbs published. *)
SeqCounts ==
    seq = IF wpc \in {"advance", "account"} THEN written + 1 ELSE written

(* The slot being refilled is retracted, and filled so far with this push. *)
SlotInHand ==
    /\ wpc \in {"stamp", "label", "publish"} => entries[head].seq = 0
    /\ wpc \in {"label", "publish"} => entries[head].ts = written + 1
    /\ wpc = "publish" => entries[head].label = written + 1

(* A slot with a sequence number is whole and its number was given out. *)
PublishedIsWhole ==
    \A k \in Slots :
        entries[k].seq # 0 => Whole(entries[k]) /\ entries[k].seq <= seq

(* As long as the slot has the number the handler saw, the copy made so    *)
(* far is a copy of what is still there.                                   *)
CopyIsCurrent ==
    rpc \in {"ts", "label", "after"} =>
        /\ before # 0
        /\ before <= seq
        /\ entries[Index].seq = before =>
              /\ rpc \in {"label", "after"} => entry.ts = entries[Index].ts
              /\ rpc = "after" => /\ entry.label = entries[Index].label
                                  /\ entry.seq = entries[Index].seq

IInv ==
    /\ TypeInv
    /\ SeqCounts
    /\ SlotInHand
    /\ PublishedIsWhole
    /\ CopyIsCurrent
    /\ SnapshotComplete

(* A store of the writer that leaves every published slot as it was, or    *)
(* retracts it, or gives it a new number, does not disturb the handler.    *)
LEMMA CopyUndisturbed ==
    ASSUME TypeInv, CopyIsCurrent, seq' \in Nat, seq <= seq', UNCHANGED reader,
           \A k \in Slots : entries'[k] = entries[k]
                           \/ entries'[k].seq = 0
                           \/ entries'[k].seq > seq
    PROVE  CopyIsCurrent'
<1> SUFFICES ASSUME rpc \in {"ts", "label", "after"}
             PROVE  CopyIsCurrent'
  BY DEF CopyIsCurrent, reader
<1>1. Index \in Slots /\ Index' = Index
  BY IndexInRing DEF Reading, Index, reader
<1>2. before # 0 /\ before <= seq /\ before \in Nat /\ seq \in Nat
  BY BreadcrumbsAssumption DEF CopyIsCurrent, TypeInv, TypeOK, Seqs
<1>3. rpc' = rpc /\ before' = before /\ entry' = entry
  BY DEF reader
<1>4. entries'[Index].seq = before => entries'[Index] = entries[Index]
  BY <1>1, <1>2
<1>5. before <= seq'
  BY <1>2
<1>6. QED
  BY <1>1, <1>2, <1>3, <1>4, <1>5 DEF CopyIsCurrent

(* The invariant is inductive: the steps of cbox_crumbs_push. *)
LEMMA PushStep ==
    ASSUME MaxPushes < SeqModulus, IInv, TypeInv', Push
    PROVE  IInv'
<1> USE BreadcrumbsAssumption
<1>1. /\ entries \in [Slots -> Entry] /\ head \in Slots
      /\ seq \in Nat /\ seq < SeqModulus
      /\ written \in Nat /\ written <= MaxPushes
      /\ wpc # "retract" => written < MaxPushes
      /\ \A k \in Slots : entries[k].seq \in Nat
  <2>1. /\ entries \in [Slots -> Entry] /\ head \in Slots
        /\ wpc # "retract" => written < MaxPushes
    BY DEF IInv, TypeInv, TypeOK
  <2>2. seq \in Nat /\ seq < SeqModulus /\ written \in Nat /\ written <= MaxPushes
    BY DEF IInv, TypeInv, TypeOK, Seqs, Pushes
  <2>3. \A k \in Slots : entries[k].seq \in Nat
    BY <2>1 DEF Entry, Seqs
  <2>4. QED
    BY <2>1, <2>2, <2>3
<1>2. SnapshotComplete'
  BY DEF IInv, SnapshotComplete, Push, Retract, FillStamp, FillLabel, Publish, AdvanceHead,
         CountWritten, WriterStep, reader
<1>3. UNCHANGED reader
  BY DEF Push, Retract, FillStamp, FillLabel, Publish, AdvanceHead, CountWritten, WriterStep
<1>4. CASE Retract
  <2>1. /\ wpc = "retract" /\ wpc' = "stamp"
        /\ entries' = [entries EXCEPT ![head].seq = 0]
        /\ head' = head /\ seq' = seq /\ written' = written
    BY <1>4 DEF Retract, WriterStep
  <2>2. /\ entries'[head].seq = 0
        /\ \A k \in Slots : k # head => entries'[k] = entries[k]
    BY <1>1, <2>1 DEF Entry
  <2>3. SeqCounts' /\ SlotInHand'
    BY <2>1, <2>2 DEF IInv, SeqCounts, SlotInHand
  <2>4. PublishedIsWhole'
    BY <2>1, <2>2 DEF IInv, PublishedIsWhole
  <2>5. CopyIsCurrent'
    BY <1>1, <1>3, <2>1, <2>2, CopyUndisturbed DEF IInv
  <2>6. QED
    BY <1>2, <2>3, <2>4, <2>5 DEF IInv
<1>5. CASE FillStamp
  <2>1. /\ wpc = "stamp" /\ wpc' = "label"
        /\ entries' = [entries EXCEPT ![head].ts = written + 1]
        /\ head' = head /\ seq' = seq /\ written' = written
    BY <1>5 DEF FillStamp, WriterStep
  <2>2. /\ entries'[head].seq = 0 /\ entries'[head].ts = written + 1
        /\ \A k \in Slots : k # head => entries'[k] = entries[k]
    BY <1>1, <2>1 DEF IInv, SlotInHand, Entry
  <2>3. SeqCounts' /\ SlotInHand'
    BY <2>1, <2>2 DEF IInv, SeqCounts, SlotInHand
  <2>4. PublishedIsWhole'
    BY <2>1, <2>2 DEF IInv, PublishedIsWhole
  <2>5. CopyIsCurrent'
    BY <1>1, <1>3, <2>1, <2>2, CopyUndisturbed DEF IInv
  <2>6. QED
    BY <1>2, <2>3, <2>4, <2>5 DEF IInv
<1>6. CASE FillLabel
  <2>1. /\ wpc = "label" /\ wpc' = "publish"
        /\ entries' = [entries EXCEPT ![head].label = written + 1]
        /\ head' = head /\ seq' = seq /\ written' = written
    BY <1>6 DEF FillLabel, WriterStep
  <2>2. /\ entries'[head].seq = 0 /\ entries'[head].ts = written + 1
        /\ entries'[head].label = written + 1
        /\ \A k \in Slots : k # head => entries'[k] = entries[k]
    BY <1>1, <2>1 DEF IInv, SlotInHand, Entry
  <2>3. SeqCounts' /\ SlotInHand'
    BY <2>1, <2>2 DEF IInv, SeqCounts, SlotInHand
  <2>4. PublishedIsWhole'
    BY <2>1, <2>2 DEF IInv, PublishedIsWhole
  <2>5. CopyIsCurrent'
    BY <1>1, <1>3, <2>1, <2>2, CopyUndisturbed DEF IInv
  <2>6. QED
    BY <1>2, <2>3, <2>4, <2>5 DEF IInv
<1>7. CASE Publish
  <2>1. /\ wpc = "publish" /\ wpc' = "advance"
        /\ seq' = NextSeq /\ entries' = [entries EXCEPT ![head].seq = NextSeq]
        /\ head' = head /\ written' = written
    BY <1>7 DEF Publish, WriterStep
  <2>2. seq = written /\ NextSeq = written + 1
    BY <1>1, <2>1 DEF IInv, SeqCounts, NextSeq
  <2>3. /\ entries'[head].seq = written + 1 /\ entries'[head].ts = written + 1
        /\ entries'[head].label = written + 1
        /\ \A k \in Slots : k # head => entries'[k] = entries[k]
    BY <1>1, <2>1, <2>2 DEF IInv, SlotInHand, Entry
  <2>4. SeqOf(written + 1) = written + 1
    BY <1>1, <2>1, SeqOfPush DEF Pushes
  <2>5. SeqCounts' /\ SlotInHand'
    BY <2>1, <2>2 DEF IInv, SeqCounts, SlotInHand
  <2>6. PublishedIsWhole'
    <3> SUFFICES ASSUME NEW k \in Slots, entries'[k].seq # 0
                 PROVE  Whole(entries'[k]) /\ entries'[k].seq <= seq'
      BY DEF PublishedIsWhole, Whole, SeqOf
    <3>1. CASE k = head
      BY <1>1, <2>1, <2>2, <2>3, <2>4, <3>1 DEF Whole
    <3>2. CASE k # head
      BY <1>1, <2>1, <2>2, <2>3, <3>2 DEF IInv, PublishedIsWhole
    <3>3. QED
      BY <3>1, <3>2
  <2>7. CopyIsCurrent'
    BY <1>1, <1>3, <2>1, <2>2, <2>3, CopyUndisturbed DEF IInv
  <2>8. QED
    BY <1>2, <2>5, <2>6, <2>7 DEF IInv
<1>8. CASE AdvanceHead \/ CountWritten
  <2>1. /\ entries' = entries /\ seq' = seq
        /\ wpc' \in {"account", "retract"}
        /\ SeqCounts'
    BY <1>8 DEF AdvanceHead, CountWritten, WriterStep, IInv, SeqCounts
  <2>2. SlotInHand'
    BY <2>1 DEF SlotInHand
  <2>3. PublishedIsWhole'
    BY <2>1 DEF IInv, PublishedIsWhole
  <2>4. CopyIsCurrent'
    BY <1>1, <1>3, <2>1, CopyUndisturbed DEF IInv
  <2>5. QED
    BY <1>2, <2>1, <2>2, <2>3, <2>4 DEF IInv
<1>9. QED
  BY <1>4, <1>5, <1>6, <1>7, <1>8 DEF Push

(* The invariant is inductive: the steps of cbox_crumbs_snapshot. *)
LEMMA SnapshotStep ==
    ASSUME IInv, TypeInv', LoadHead \/ Read
    PROVE  IInv'
<1>1. /\ entries' = entries /\ head' = head /\ seq' = seq /\ written' = written
      /\ wpc' = wpc
  BY DEF LoadHead, Read, LoadWritten, LoadBefore, CopyStamp, CopyLabel, LoadAfter, ring
<1>2. SeqCounts' /\ SlotInHand' /\ PublishedIsWhole'
  BY <1>1 DEF IInv, SeqCounts, SlotInHand, PublishedIsWhole
<1>3. entries \in [Slots -> Entry] /\ entry \in Entry /\ dst \in Seq(Entry)
  BY DEF IInv, TypeInv, TypeOK
<1>4. CASE LoadHead \/ LoadWritten
  <2>1. rpc' \notin {"ts", "label", "after"} /\ dst' = dst
    BY <1>4 DEF LoadHead, LoadWritten
  <2>2. QED
    BY <1>2, <2>1 DEF IInv, CopyIsCurrent, SnapshotComplete
<1>5. CASE LoadBefore
  <2>1. /\ Index \in Slots
        /\ before' = entries[Index].seq /\ dst' = dst
        /\ before' = 0 => rpc' \notin {"ts", "label", "after"}
        /\ before' # 0 => rpc' = "ts" /\ Index' = Index
    BY <1>5, IndexInRing DEF IInv, LoadBefore, Iterate, Reading, Index
  <2>2. CopyIsCurrent'
    BY <1>1, <2>1 DEF IInv, PublishedIsWhole, CopyIsCurrent
  <2>3. QED
    BY <1>2, <2>1, <2>2 DEF IInv, SnapshotComplete
<1>6. CASE CopyStamp
  <2>1. /\ rpc = "ts" /\ rpc' = "label" /\ before' = before /\ dst' = dst
        /\ Index' = Index /\ entry'.ts = entries[Index].ts
    BY <1>3, <1>6 DEF CopyStamp, Index, Entry
  <2>2. CopyIsCurrent'
    BY <1>1, <2>1 DEF IInv, CopyIsCurrent
  <2>3. QED
    BY <1>2, <2>1, <2>2 DEF IInv, SnapshotComplete
<1>7. CASE CopyLabel
  <2>1. /\ rpc = "label" /\ rpc' = "after" /\ before' = before /\ dst' = dst
        /\ Index' = Index /\ entry'.ts = entry.ts
        /\ entry'.label = entries[Index].label /\ entry'.seq = entries[Index].seq
    BY <1>3, <1>7 DEF CopyLabel, Index, Entry
  <2>2. CopyIsCurrent'
    BY <1>1, <2>1 DEF IInv, CopyIsCurrent
  <2>3. QED
    BY <1>2, <2>1, <2>2 DEF IInv, SnapshotComplete
<1>8. CASE LoadAfter
  <2>1. rpc = "after" /\ Index \in Slots
    BY <1>8, IndexInRing DEF LoadAfter, Reading, IInv
  <2>2. rpc' \notin {"ts", "label", "after"}
    BY <1>8 DEF LoadAfter, Iterate
  <2>3. entries[Index].seq = before => Whole(entry)
    <3> SUFFICES ASSUME entries[Index].seq = before
                 PROVE  Whole(entry)
      OBVIOUS
    <3>1. /\ before # 0 /\ entry.ts = entries[Index].ts
          /\ entry.label = entries[Index].label /\ entry.seq = entries[Index].seq
      BY <2>1 DEF IInv, CopyIsCurrent
    <3>2. Whole(entries[Index])
      BY <2>1, <3>1 DEF IInv, PublishedIsWhole
    <3>3. QED
      BY <3>1, <3>2 DEF Whole
  <2>4. dst' = IF entries[Index].seq = before THEN Append(dst, entry) ELSE dst
    BY <1>8 DEF LoadAfter, SeqUnchanged
  <2>5. SnapshotComplete'
    <3>1. CASE entries[Index].seq = before
      <4>1. dst' = Append(dst, entry) /\ Whole(entry)
        BY <2>3, <2>4, <3>1
      <4>2. ASSUME NEW k \in 1 .. Len(dst')
            PROVE  Whole(dst'[k])
        <5>1. Len(dst') = Len(dst) + 1 /\ Len(dst) \in Nat
          BY <1>3, <4>1
        <5>2. CASE k = Len(dst) + 1
          <6>1. dst'[k] = entry
            BY <1>3, <4>1, <5>2
          <6>2. QED
            BY <4>1, <6>1
        <5>3. CASE k \in 1 .. Len(dst)
          <6>1. dst'[k] = dst[k]
            BY <1>3, <4>1, <5>3
          <6>2. QED
            BY <5>3, <6>1 DEF IInv, SnapshotComplete
        <5>4. QED
          BY <5>1, <5>2, <5>3
      <4>3. QED
        BY <4>2 DEF SnapshotComplete, Whole, SeqOf
    <3>2. CASE entries[Index].seq # before
      BY <2>4, <3>2 DEF IInv, SnapshotComplete
    <3>3. QED
      BY <3>1, <3>2
  <2>6. QED
    BY <1>2, <2>2, <2>5 DEF IInv, CopyIsCurrent
<1>9. QED
  BY <1>4, <1>5, <1>6, <1>7, <1>8 DEF Read

(* The invariant holds in the initial state. *)
LEMMA InvariantInit ==
    Init => IInv
<1> SUFFICES ASSUME Init
             PROVE  IInv
  OBVIOUS
<1>1. TypeInv
  BY TypeInit
<1>2. QED
  BY <1>1 DEF Init, IInv, SeqCounts, SlotInHand, PublishedIsWhole, CopyIsCurrent,
              SnapshotComplete, Blank

(* The invariant is inductive. *)
LEMMA InvariantStep ==
    ASSUME MaxPushes < SeqModulus, IInv, [Next]_vars
    PROVE  IInv'
<1>1. TypeInv'
  BY TypeStep DEF IInv
<1>2. CASE Push
  BY <1>1, <1>2, PushStep
<1>3. CASE LoadHead \/ Read
  BY <1>1, <1>3, SnapshotStep
<1>4. CASE UNCHANGED vars
  BY <1>1, <1>4 DEF vars, ring, reader, IInv, SeqCounts, SlotInHand, PublishedIsWhole,
                    CopyIsCurrent, SnapshotComplete, Index
<1>5. QED
  BY <1>2, <1>3, <1>4 DEF Next

(* A crash record holds only complete breadcrumbs, for every capacity and  *)
(* snapshot size, wherever in a push the crash lands, and even when the    *)
(* writer runs on while the handler copies: the handler either skips a     *)
(* slot or keeps the parts of one push.                                    *)
THEOREM RecordsAreComplete ==
    ASSUME MaxPushes < SeqModulus
    PROVE  Spec => []SnapshotComplete
<1>1. IInv /\ [Next]_vars => IInv'
  BY InvariantStep
<1>2. IInv => SnapshotComplete
  BY DEF IInv
<1>3. QED
  BY InvariantInit, <1>1, <1>2, PTL DEF Spec

-----------------------------------------------------------------------------
(* Order and recency of a crash on the PHP thread *)

(* Pushes that head has left behind; written follows one store later. *)
Over == IF wpc = "account" THEN written + 1 ELSE written

(* The slot d pushes before head. *)
Back(d) == Masked(head + Capacity - d)

(* Going back from head the pushes are found in order; the slot at head    *)
(* itself, a whole ring back, may be in the writer's hand.                 *)
RingInv ==
    /\ \A d \in 1 .. Capacity :
          d <= Over /\ (d < Capacity \/ wpc \in {"retract", "account"}) =>
              entries[Back(d)].seq = Over - d + 1 /\ entries[Back(d)].ts = Over - d + 1
    /\ wpc = "advance" => entries[head].seq = written + 1 /\ entries[head].ts = written + 1

(* The handler interrupted the writer for good. *)
Alone == ~concurrent /\ rpc # "idle"
Looping == Reading \cup {"done"}

(* What the handler reads is the ring it interrupted. *)
WindowInv ==
    /\ Alone => rhead = head
    /\ Alone /\ rpc \in Looping => count <= written
    /\ Alone /\ rpc \in {"ts", "label", "after"} => before = entries[Index].seq
    /\ rpc \in {"idle", "count"} => dst = <<>>
    /\ rpc = "done" => i = count

(* The push found in iteration j. *)
PushAt(j) == Over - count + j + 1

(* The slot of iteration j is not the one in the writer's hand. *)
Sure(j) == count - j < Capacity \/ wpc \in {"retract", "account"}

(* Every slot passed is in the record, unless it was in the writer's hand. *)
PresentInv ==
    Alone /\ rpc \in Looping =>
        \A j \in 0 .. i - 1 :
            Sure(j) => \E k \in 1 .. Len(dst) : dst[k].ts = PushAt(j)

(* The record is sorted and not ahead of the loop. *)
SortedInv ==
    Alone /\ rpc \in Looping =>
        /\ \A k \in 1 .. Len(dst) : dst[k].ts < PushAt(i)
        /\ \A k \in 1 .. Len(dst) - 1 : dst[k].ts < dst[k + 1].ts

LEMMA BackInRing ==
    ASSUME TypeInv
    PROVE  /\ \A d \in 1 .. Capacity : Back(d) \in Slots /\ (Back(d) = head <=> d = Capacity)
           /\ Capacity \in Nat \ {0} /\ head \in Slots /\ written \in Nat /\ Over \in Nat
<1>1. /\ Capacity \in Nat \ {0} /\ head \in 0 .. Capacity - 1 /\ head \in Slots
      /\ written \in Nat /\ Over \in Nat
  BY BreadcrumbsAssumption DEF TypeInv, TypeOK, Slots, Pushes, Over
<1>2. QED
  BY <1>1 DEF Back, Masked, Slots

(* The stores of cbox_crumbs_push keep the order of the ring. *)
LEMMA RingStep ==
    ASSUME MaxPushes < SeqModulus, IInv, RingInv, Push
    PROVE  RingInv'
<1>1. /\ \A d \in 1 .. Capacity : Back(d) \in Slots /\ (Back(d) = head <=> d = Capacity)
      /\ Capacity \in Nat \ {0} /\ head \in Slots /\ written \in Nat /\ Over \in Nat
      /\ entries \in [Slots -> Entry]
  BY BackInRing DEF IInv, TypeInv, TypeOK
<1>2. ASSUME head' = head, Over' = Over, written' = written,
             wpc' \in {"stamp", "label", "publish", "advance"},
             wpc' = "advance" => entries'[head].seq = written + 1 /\ entries'[head].ts = written + 1,
             \A k \in Slots : k # head => entries'[k] = entries[k]
      PROVE  RingInv'
  <2>1. ASSUME NEW d \in 1 .. Capacity, d <= Over, d < Capacity
        PROVE  entries'[Back(d)].seq = Over - d + 1 /\ entries'[Back(d)].ts = Over - d + 1
    <3>1. Back(d) # head /\ Back(d) \in Slots
      BY <1>1, <2>1
    <3>2. entries'[Back(d)] = entries[Back(d)]
      BY <1>2, <3>1
    <3>3. QED
      BY <2>1, <3>2 DEF RingInv
  <2>2. \A d : Back(d)' = Back(d)
    BY <1>2 DEF Back
  <2>3. QED
    BY <1>2, <2>1, <2>2 DEF RingInv
<1>3. CASE Retract
  <2>1. /\ wpc = "retract" /\ wpc' = "stamp" /\ head' = head /\ written' = written
        /\ entries' = [entries EXCEPT ![head].seq = 0]
    BY <1>3 DEF Retract, WriterStep
  <2>2. Over' = Over /\ \A k \in Slots : k # head => entries'[k] = entries[k]
    BY <1>1, <2>1 DEF Over
  <2>3. QED
    BY <1>2, <2>1, <2>2
<1>4. CASE FillStamp
  <2>1. /\ wpc = "stamp" /\ wpc' = "label" /\ head' = head /\ written' = written
        /\ entries' = [entries EXCEPT ![head].ts = written + 1]
    BY <1>4 DEF FillStamp, WriterStep
  <2>2. Over' = Over /\ \A k \in Slots : k # head => entries'[k] = entries[k]
    BY <1>1, <2>1 DEF Over
  <2>3. QED
    BY <1>2, <2>1, <2>2
<1>5. CASE FillLabel
  <2>1. /\ wpc = "label" /\ wpc' = "publish" /\ head' = head /\ written' = written
        /\ entries' = [entries EXCEPT ![head].label = written + 1]
    BY <1>5 DEF FillLabel, WriterStep
  <2>2. Over' = Over /\ \A k \in Slots : k # head => entries'[k] = entries[k]
    BY <1>1, <2>1 DEF Over
  <2>3. QED
    BY <1>2, <2>1, <2>2
<1>6. CASE Publish
  <2>1. /\ wpc = "publish" /\ wpc' = "advance" /\ head' = head /\ written' = written
        /\ entries' = [entries EXCEPT ![head].seq = NextSeq]
    BY <1>6 DEF Publish, WriterStep
  <2>2. NextSeq = written + 1 /\ entries[head].ts = written + 1
    BY <1>1, <2>1, BreadcrumbsAssumption
    DEF IInv, TypeInv, TypeOK, Pushes, SeqCounts, NextSeq, SlotInHand
  <2>3. /\ Over' = Over /\ entries'[head].seq = written + 1 /\ entries'[head].ts = written + 1
        /\ \A k \in Slots : k # head => entries'[k] = entries[k]
    BY <1>1, <2>1, <2>2 DEF Over, Entry
  <2>4. QED
    BY <1>2, <2>1, <2>3
<1>7. CASE AdvanceHead
  <2>1. /\ wpc = "advance" /\ wpc' = "account" /\ head' = Masked(head + 1) /\ written' = written
        /\ entries' = entries
    BY <1>7 DEF AdvanceHead, WriterStep, Advanced
  <2>2. Over = written /\ Over' = written + 1
    BY <2>1 DEF Over
  <2>3. /\ Back(1)' = head
        /\ \A d \in 1 .. Capacity : d > 1 => Back(d)' = Back(d - 1) /\ d - 1 \in 1 .. Capacity /\ d - 1 < Capacity
    BY <1>1, <2>1 DEF Back, Masked, Slots
  <2>4. ASSUME NEW d \in 1 .. Capacity, d <= written + 1
        PROVE  entries[Back(d)'].seq = written + 1 - d + 1 /\ entries[Back(d)'].ts = written + 1 - d + 1
    <3>1. CASE d = 1
      BY <1>1, <2>1, <2>3, <3>1 DEF RingInv
    <3>2. CASE d > 1
      <4>1. Back(d)' = Back(d - 1) /\ d - 1 \in 1 .. Capacity /\ d - 1 < Capacity /\ d - 1 <= Over
        BY <1>1, <2>2, <2>3, <2>4, <3>2
      <4>2. entries[Back(d - 1)].seq = written - (d - 1) + 1 /\ entries[Back(d - 1)].ts = written - (d - 1) + 1
        BY <2>2, <4>1 DEF RingInv
      <4>3. written - (d - 1) + 1 = written + 1 - d + 1
        BY <1>1
      <4>4. QED
        BY <4>1, <4>2, <4>3
    <3>3. QED
      BY <3>1, <3>2
  <2>5. ASSUME NEW d \in 1 .. Capacity, d <= Over'
        PROVE  (entries[Back(d)].seq = Over - d + 1 /\ entries[Back(d)].ts = Over - d + 1)'
    <3>1. d <= written + 1
      BY <2>2, <2>5
    <3>2. /\ entries[Back(d)'].seq = written + 1 - d + 1
          /\ entries[Back(d)'].ts = written + 1 - d + 1
      BY <2>4, <3>1
    <3>3. /\ entries'[Back(d)'].seq = Over' - d + 1
          /\ entries'[Back(d)'].ts = Over' - d + 1
      BY <1>1, <2>1, <2>2, <3>2
    <3>4. QED
      BY <3>3 DEF Back
  <2>6. QED
    BY <2>1, <2>5 DEF RingInv
<1>8. CASE CountWritten
  <2>1. /\ wpc = "account" /\ wpc' = "retract" /\ head' = head /\ written' = written + 1
        /\ entries' = entries
    BY <1>8 DEF CountWritten, WriterStep
  <2>2. Over' = Over /\ \A d : Back(d)' = Back(d)
    BY <2>1 DEF Over, Back
  <2>3. QED
    BY <2>1, <2>2 DEF RingInv
<1>9. QED
  BY <1>3, <1>4, <1>5, <1>6, <1>7, <1>8 DEF Push

(* The slot the handler looks at holds the push of its iteration. *)
LEMMA AtWindow ==
    ASSUME TypeInv, RingInv, WindowInv, Alone, rpc \in Reading
    PROVE  /\ Index \in Slots /\ i \in Nat /\ count \in Nat /\ i < count /\ count <= Capacity
           /\ PushAt(i) \in Nat \ {0} /\ Over \in Nat /\ Capacity \in Nat
           /\ Sure(i) =>
                 entries[Index].seq = PushAt(i) /\ entries[Index].ts = PushAt(i)
<1>1. /\ i \in Nat /\ count \in Nat /\ i < count /\ count <= Capacity /\ count <= written
      /\ rhead = head /\ Capacity \in Nat \ {0} /\ written \in Nat /\ head \in Slots
      /\ Over \in Nat /\ Over >= written
  <2>1. count \in 0 .. Smaller(Capacity, CrashCrumbs) /\ i \in 0 .. count /\ i < count
    BY DEF TypeInv, TypeOK
  <2>2. count \in Nat /\ i \in Nat /\ count <= Capacity
    BY <2>1, BreadcrumbsAssumption DEF Smaller
  <2>3. count <= written /\ rhead = head
    BY DEF WindowInv, Looping
  <2>4. Capacity \in Nat \ {0} /\ written \in Nat /\ head \in Slots /\ Over \in Nat /\ Over >= written
    BY BackInRing DEF Over
  <2>5. QED
    BY <2>1, <2>2, <2>3, <2>4
<1>2. Index = Back(count - i) /\ count - i \in 1 .. Capacity /\ count - i <= Over
  BY <1>1 DEF Index, Back, Masked, Slots
<1>3. Index \in Slots
  BY IndexInRing
<1>4. PushAt(i) = Over - (count - i) + 1 /\ PushAt(i) \in Nat \ {0}
  BY <1>1 DEF PushAt
<1>5. Sure(i) => entries[Index].seq = PushAt(i) /\ entries[Index].ts = PushAt(i)
  BY <1>2, <1>4 DEF RingInv, Sure
<1>6. QED
  BY <1>1, <1>3, <1>4, <1>5

(* The ring stands still under a handler that interrupted its writer. *)
LEMMA WindowStep ==
    ASSUME IInv, RingInv, WindowInv, [Next]_vars
    PROVE  WindowInv'
<1>1. CASE Push
  <2>1. UNCHANGED reader /\ (concurrent \/ rpc = "idle")
    BY <1>1 DEF Push, Retract, FillStamp, FillLabel, Publish, AdvanceHead, CountWritten,
                WriterStep, WriterRuns
  <2>2. ~Alone'
    BY <2>1 DEF Alone, reader
  <2>3. QED
    BY <2>1, <2>2 DEF WindowInv, reader
<1>2. CASE LoadHead
  BY <1>2 DEF LoadHead, ring, WindowInv, Looping, Reading
<1>3. CASE LoadWritten
  <2>1. written \in Nat /\ Capacity \in Nat /\ CrashCrumbs \in Nat
    BY BreadcrumbsAssumption DEF IInv, TypeInv, TypeOK, Pushes
  <2>2. /\ rpc = "count" /\ rpc' \in {"before", "done"} /\ i' = 0 /\ dst' = dst
        /\ rpc' = "done" => count' = 0
        /\ count' = Smaller(Smaller(written, Capacity), CrashCrumbs)
        /\ concurrent' = concurrent /\ rhead' = rhead /\ head' = head /\ written' = written
    BY <1>3 DEF LoadWritten, ring
  <2>3. count' <= written
    BY <2>1, <2>2 DEF Smaller
  <2>4. QED
    BY <2>2, <2>3 DEF WindowInv, Alone
<1>4. CASE LoadBefore
  <2>1. /\ rpc = "before" /\ count' = count /\ concurrent' = concurrent /\ rhead' = rhead
        /\ head' = head /\ written' = written /\ entries' = entries
        /\ \/ rpc' = "ts" /\ i' = i /\ before' = entries[Index].seq
           \/ rpc' = "before" /\ i' = i + 1
           \/ rpc' = "done" /\ i' = i + 1 /\ ~(i + 1 < count)
    BY <1>4 DEF LoadBefore, ring, Iterate, Skipped
  <2>2. rpc' = "done" => i' = count
    <3>1. i \in Nat /\ count \in Nat /\ i < count
      BY <2>1, BreadcrumbsAssumption DEF IInv, TypeInv, TypeOK, Reading, Smaller
    <3>2. QED
      BY <2>1, <3>1
  <2>3. rpc' = "ts" => Index' = Index
    BY <2>1 DEF Index
  <2>4. QED
    BY <2>1, <2>2, <2>3 DEF WindowInv, Alone, Looping, Reading
<1>5. CASE CopyStamp \/ CopyLabel
  <2>1. /\ rpc \in {"ts", "label"} /\ rpc' \in {"label", "after"} /\ i' = i /\ count' = count
        /\ concurrent' = concurrent /\ rhead' = rhead /\ before' = before
        /\ head' = head /\ written' = written /\ entries' = entries
    BY <1>5 DEF CopyStamp, CopyLabel, ring
  <2>2. Index' = Index
    BY <2>1 DEF Index
  <2>3. QED
    BY <2>1, <2>2 DEF WindowInv, Alone, Looping, Reading
<1>6. CASE LoadAfter
  <2>1. /\ rpc = "after" /\ count' = count /\ concurrent' = concurrent /\ rhead' = rhead
        /\ head' = head /\ written' = written
        /\ i' = i + 1 /\ rpc' \in {"before", "done"}
        /\ rpc' = "done" => ~(i + 1 < count)
    BY <1>6 DEF LoadAfter, ring, Iterate
  <2>2. rpc' = "done" => i' = count
    <3>1. i \in Nat /\ count \in Nat /\ i < count
      BY <2>1, BreadcrumbsAssumption DEF IInv, TypeInv, TypeOK, Reading, Smaller
    <3>2. QED
      BY <2>1, <3>1
  <2>3. QED
    BY <2>1, <2>2 DEF WindowInv, Alone, Looping, Reading
<1>7. CASE UNCHANGED vars
  BY <1>7 DEF vars, ring, reader, WindowInv, Alone, Index
<1>8. QED
  BY <1>1, <1>2, <1>3, <1>4, <1>5, <1>6, <1>7 DEF Next, Read

(* Steps that leave the loop variable and the record alone. *)
LEMMA Waiting ==
    ASSUME UNCHANGED <<i, count, dst, concurrent>>,
           Alone' => wpc' = wpc /\ written' = written /\ rpc \in Looping /\ rpc # "idle"
    PROVE  (PresentInv => PresentInv') /\ (SortedInv => SortedInv')
<1>1. CASE ~Alone'
  BY <1>1 DEF PresentInv, SortedInv
<1>2. CASE Alone'
  <2>1. Over' = Over /\ Alone /\ rpc \in Looping
    BY <1>2 DEF Over, Alone
  <2>2. PresentInv => PresentInv'
    BY <2>1 DEF PresentInv, PushAt, Sure
  <2>3. SortedInv => SortedInv'
    BY <2>1 DEF SortedInv, PushAt
  <2>4. QED
    BY <2>2, <2>3
<1>3. QED
  BY <1>1, <1>2

(* The steps that neither start the loop nor end an iteration. *)
LEMMA QuietSteps ==
    ASSUME \/ Push \/ LoadHead \/ CopyStamp \/ CopyLabel \/ UNCHANGED vars
           \/ LoadBefore /\ before' # 0
    PROVE  (PresentInv => PresentInv') /\ (SortedInv => SortedInv')
<1>1. CASE Push
  <2>1. UNCHANGED reader /\ (concurrent \/ rpc = "idle")
    BY <1>1 DEF Push, Retract, FillStamp, FillLabel, Publish, AdvanceHead, CountWritten,
                WriterStep, WriterRuns
  <2>2. UNCHANGED <<i, count, dst, concurrent>> /\ ~Alone'
    BY <2>1 DEF Alone, reader
  <2>3. QED
    BY <2>2, Waiting
<1>2. CASE LoadHead
  <2>1. rpc' \notin Looping
    BY <1>2 DEF LoadHead, Looping, Reading
  <2>2. QED
    BY <2>1 DEF PresentInv, SortedInv
<1>3. CASE CopyStamp \/ CopyLabel \/ (LoadBefore /\ before' # 0)
  <2>1. /\ UNCHANGED <<i, count, dst, concurrent>> /\ wpc' = wpc /\ written' = written
        /\ rpc \in Looping /\ rpc # "idle"
    BY <1>3 DEF CopyStamp, CopyLabel, LoadBefore, ring, Looping, Reading
  <2>2. QED
    BY <2>1, Waiting
<1>4. CASE UNCHANGED vars
  <2>1. UNCHANGED <<i, count, dst, concurrent, wpc, written, rpc>>
    BY <1>4 DEF vars, ring, reader
  <2>2. Over' = Over /\ (Alone' <=> Alone)
    BY <2>1 DEF Over, Alone
  <2>3. PresentInv => PresentInv'
    BY <2>1, <2>2 DEF PresentInv, PushAt, Sure
  <2>4. SortedInv => SortedInv'
    BY <2>1, <2>2 DEF SortedInv, PushAt
  <2>5. QED
    BY <2>3, <2>4
<1>5. QED
  BY <1>1, <1>2, <1>3, <1>4

(* The loop starts with an empty record. *)
LEMMA LoopStarts ==
    ASSUME WindowInv, LoadWritten
    PROVE  PresentInv' /\ SortedInv'
<1>1. rpc = "count" /\ i' = 0 /\ dst' = dst /\ dst = <<>>
  BY DEF LoadWritten, WindowInv
<1>2. dst' = <<>> /\ Len(dst') = 0 /\ 0 .. i' - 1 = {}
  BY <1>1
<1>3. QED
  BY <1>2 DEF PresentInv, SortedInv

(* A slot is skipped only if it was in the writer's hand. *)
LEMMA SlotSkipped ==
    ASSUME IInv, RingInv, WindowInv, LoadBefore, before' = 0
    PROVE  (PresentInv => PresentInv') /\ (CrashCrumbs < Capacity /\ SortedInv => SortedInv')
<1>1. /\ rpc = "before" /\ before' = entries[Index].seq /\ i' = i + 1
      /\ UNCHANGED <<count, dst, concurrent, wpc, written>>
  BY DEF LoadBefore, ring, Iterate, Skipped
<1>2. CASE ~Alone'
  BY <1>2 DEF PresentInv, SortedInv
<1>3. CASE Alone'
  <2>1. Alone /\ rpc \in Reading /\ rpc \in Looping /\ Over' = Over
    BY <1>1, <1>3 DEF Alone, Reading, Looping, Over
  <2>2. /\ i \in Nat /\ count \in Nat /\ i < count /\ count <= Capacity /\ Capacity \in Nat
        /\ ~Sure(i)
    BY <1>1, <2>1, AtWindow DEF IInv
  <2>3. PresentInv => PresentInv'
    <3>1. SUFFICES ASSUME PresentInv, NEW j \in 0 .. i' - 1, Sure(j)
                   PROVE  \E k \in 1 .. Len(dst) : dst[k].ts = PushAt(j)
      BY <1>1, <2>1 DEF PresentInv, PushAt, Sure
    <3>2. j \in 0 .. i - 1
      BY <1>1, <2>2, <3>1
    <3>3. QED
      BY <2>1, <3>1, <3>2 DEF PresentInv
  <2>4. ~(CrashCrumbs < Capacity)
    <3>1. count <= CrashCrumbs /\ CrashCrumbs \in Nat
      <4>1. count \in 0 .. Smaller(Capacity, CrashCrumbs)
        BY DEF IInv, TypeInv, TypeOK
      <4>2. QED
        BY <4>1, BreadcrumbsAssumption DEF Smaller
    <3>2. QED
      BY <2>2, <3>1 DEF Sure
  <2>5. QED
    BY <2>3, <2>4
<1>4. QED
  BY <1>2, <1>3

(* A copy is kept: it is the push of this iteration. *)
LEMMA CopyKept ==
    ASSUME IInv, RingInv, WindowInv, LoadAfter
    PROVE  (PresentInv => PresentInv') /\ (CrashCrumbs < Capacity /\ SortedInv => SortedInv')
<1>1. /\ rpc = "after" /\ i' = i + 1 /\ UNCHANGED <<count, concurrent, wpc, written>>
      /\ dst' = IF entries[Index].seq = before THEN Append(dst, entry) ELSE dst
  BY DEF LoadAfter, ring, Iterate, SeqUnchanged
<1>2. CASE ~Alone'
  BY <1>2 DEF PresentInv, SortedInv
<1>3. CASE Alone'
  <2>1. Alone /\ rpc \in Reading /\ rpc \in Looping /\ Over' = Over
    BY <1>1, <1>3 DEF Alone, Reading, Looping, Over
  <2>2. /\ i \in Nat /\ count \in Nat /\ i < count /\ count <= Capacity /\ Capacity \in Nat
        /\ Over \in Nat
        /\ Sure(i) => entries[Index].ts = PushAt(i)
    BY <2>1, AtWindow DEF IInv
  <2>3. entries[Index].seq = before
    BY <1>1, <2>1 DEF WindowInv
  <2>4. entry.ts = entries[Index].ts
    BY <1>1, <2>3 DEF IInv, CopyIsCurrent
  <2>5. dst \in Seq(Entry) /\ entry \in Entry
    BY DEF IInv, TypeInv, TypeOK
  <2>6. /\ Len(dst) \in Nat /\ Len(dst') = Len(dst) + 1 /\ dst'[Len(dst) + 1] = entry
        /\ \A k \in 1 .. Len(dst) : dst'[k] = dst[k]
    BY <1>1, <2>3, <2>5
  <2>7. PresentInv => PresentInv'
    <3>1. SUFFICES ASSUME PresentInv, NEW j \in 0 .. i' - 1, Sure(j)
                   PROVE  \E k \in 1 .. Len(dst') : dst'[k].ts = PushAt(j)
      BY <1>1, <2>1 DEF PresentInv, PushAt, Sure
    <3>2. CASE j = i
      <4>1. entry.ts = PushAt(j) /\ Len(dst) + 1 \in 1 .. Len(dst')
        BY <2>2, <2>4, <2>6, <3>1, <3>2
      <4>2. QED
        BY <2>6, <4>1
    <3>3. CASE j # i
      <4>1. j \in 0 .. i - 1
        BY <1>1, <2>2, <3>3
      <4>2. PICK k \in 1 .. Len(dst) : dst[k].ts = PushAt(j)
        BY <2>1, <3>1, <4>1 DEF PresentInv
      <4>3. k \in 1 .. Len(dst') /\ dst'[k].ts = PushAt(j)
        BY <2>6, <4>2
      <4>4. QED
        BY <4>3
    <3>4. QED
      BY <3>2, <3>3
  <2>8. ASSUME CrashCrumbs < Capacity, SortedInv
        PROVE  SortedInv'
    <3>1. count - i < Capacity
      <4>1. count \in 0 .. Smaller(Capacity, CrashCrumbs)
        BY DEF IInv, TypeInv, TypeOK
      <4>2. count <= CrashCrumbs /\ CrashCrumbs \in Nat
        BY <4>1, BreadcrumbsAssumption DEF Smaller
      <4>3. QED
        BY <2>2, <2>8, <4>2
    <3>2. entry.ts = PushAt(i) /\ PushAt(i) \in Int /\ PushAt(i) < PushAt(i + 1) /\ PushAt(i + 1) \in Int
      BY <2>2, <2>4, <3>1 DEF PushAt, Sure
    <3>3. \A k \in 1 .. Len(dst) : dst[k].ts < PushAt(i) /\ dst[k].ts \in Int
      <4>1. \A k \in 1 .. Len(dst) : dst[k] \in Entry
        BY <2>5
      <4>2. \A k \in 1 .. Len(dst) : dst[k].ts \in Int
        BY <4>1, BreadcrumbsAssumption DEF Entry, Pushes
      <4>3. QED
        BY <2>1, <2>8, <4>2 DEF SortedInv
    <3>4. ASSUME NEW k \in 1 .. Len(dst')
          PROVE  dst'[k].ts < PushAt(i + 1)
      <4>1. CASE k = Len(dst) + 1
        BY <2>6, <3>2, <4>1
      <4>2. CASE k # Len(dst) + 1
        <5>1. k \in 1 .. Len(dst) /\ dst'[k] = dst[k]
          BY <2>6, <4>2
        <5>2. QED
          BY <3>2, <3>3, <5>1
      <4>3. QED
        BY <4>1, <4>2
    <3>5. ASSUME NEW k \in 1 .. Len(dst') - 1
          PROVE  dst'[k].ts < dst'[k + 1].ts
      <4>1. k \in 1 .. Len(dst) /\ dst'[k] = dst[k]
        BY <2>6
      <4>2. CASE k = Len(dst)
        <5>1. dst'[k + 1] = entry
          BY <2>6, <4>2
        <5>2. QED
          BY <3>2, <3>3, <4>1, <5>1
      <4>3. CASE k # Len(dst)
        <5>1. k \in 1 .. Len(dst) - 1 /\ k + 1 \in 1 .. Len(dst)
          BY <2>6, <4>1, <4>3
        <5>2. dst'[k + 1] = dst[k + 1] /\ dst[k].ts < dst[k + 1].ts
          BY <2>1, <2>6, <2>8, <5>1 DEF SortedInv
        <5>3. QED
          BY <4>1, <5>2
      <4>4. QED
        BY <4>2, <4>3
    <3>6. PushAt(i)' = PushAt(i + 1)
      BY <1>1, <2>1 DEF PushAt
    <3>7. QED
      BY <3>4, <3>5, <3>6 DEF SortedInv
  <2>9. QED
    BY <2>7, <2>8
<1>4. QED
  BY <1>2, <1>3

(* The record and the loop over the window, along every step. *)
LEMMA RecordStep ==
    ASSUME IInv, RingInv, WindowInv, [Next]_vars
    PROVE  (PresentInv => PresentInv') /\ (CrashCrumbs < Capacity /\ SortedInv => SortedInv')
<1>1. CASE \/ Push \/ LoadHead \/ CopyStamp \/ CopyLabel \/ UNCHANGED vars
           \/ LoadBefore /\ before' # 0
  BY <1>1, QuietSteps
<1>2. CASE LoadWritten
  BY <1>2, LoopStarts
<1>3. CASE LoadBefore /\ before' = 0
  BY <1>3, SlotSkipped
<1>4. CASE LoadAfter
  BY <1>4, CopyKept
<1>5. QED
  BY <1>1, <1>2, <1>3, <1>4 DEF Next, Read

(* The steps of the handler and stuttering leave the ring as it is. *)
LEMMA RingStands ==
    ASSUME RingInv, UNCHANGED ring
    PROVE  RingInv'
<1>1. UNCHANGED <<entries, head, written, wpc>>
  BY DEF ring
<1>2. Over' = Over
  BY <1>1 DEF Over
<1>3. QED
  BY <1>1, <1>2 DEF RingInv, Back

(* The invariant behind recency, and with a window smaller than the ring   *)
(* behind order as well.                                                   *)
RecentInv == IInv /\ RingInv /\ WindowInv /\ PresentInv

LEMMA RecentStep ==
    ASSUME MaxPushes < SeqModulus, RecentInv, [Next]_vars
    PROVE  RecentInv'
<1>1. IInv'
  BY InvariantStep DEF RecentInv
<1>2. RingInv'
  <2>1. CASE Push
    BY <2>1, RingStep DEF RecentInv
  <2>2. CASE ~Push
    <3>1. UNCHANGED ring
      BY <2>2 DEF Next, LoadHead, Read, LoadWritten, LoadBefore, CopyStamp, CopyLabel, LoadAfter, vars
    <3>2. QED
      BY <3>1, RingStands DEF RecentInv
  <2>3. QED
    BY <2>1, <2>2
<1>3. WindowInv' /\ PresentInv'
  BY WindowStep, RecordStep DEF RecentInv
<1>4. QED
  BY <1>1, <1>2, <1>3 DEF RecentInv

LEMMA RecentInit ==
    ASSUME Init
    PROVE  RecentInv /\ SortedInv
<1>1. IInv
  BY InvariantInit
<1>2. wpc = "retract" /\ written = 0 /\ rpc = "idle" /\ dst = <<>> /\ Over = 0
  BY DEF Init, Over
<1>3. RingInv
  BY <1>2 DEF RingInv
<1>4. WindowInv /\ PresentInv /\ SortedInv
  BY <1>2 DEF WindowInv, PresentInv, SortedInv, Alone
<1>5. QED
  BY <1>1, <1>3, <1>4 DEF RecentInv

(* A crash on the PHP thread records the most recent breadcrumbs, for      *)
(* every capacity and snapshot size: of the window cbox_crumbs_snapshot    *)
(* computes from head and written only the oldest slot may be missing,     *)
(* wherever in a push the crash lands.                                     *)
THEOREM RecordsAreRecent ==
    ASSUME MaxPushes < SeqModulus
    PROVE  Spec => []SnapshotRecent
<1>1. RecentInv /\ [Next]_vars => RecentInv'
  BY RecentStep
<1>2. RecentInv => SnapshotRecent
  <2> SUFFICES ASSUME RecentInv, rpc = "done", ~concurrent, NEW p \in written - count + 2 .. written
               PROVE  \E k \in 1 .. Len(dst) : dst[k].ts = p
    BY DEF SnapshotRecent
  <2>1. Alone /\ rpc \in Looping /\ i = count /\ count <= written
    BY DEF Alone, Looping, RecentInv, WindowInv
  <2>2. /\ count \in Nat /\ count <= Capacity /\ written \in Nat /\ Capacity \in Nat
        /\ Over \in {written, written + 1}
    <3>1. count \in 0 .. Smaller(Capacity, CrashCrumbs)
      BY DEF RecentInv, IInv, TypeInv, TypeOK
    <3>2. count \in Nat /\ count <= Capacity
      BY <3>1, BreadcrumbsAssumption DEF Smaller
    <3>3. QED
      BY <3>2, BreadcrumbsAssumption DEF RecentInv, IInv, TypeInv, TypeOK, Pushes, Over
  <2> DEFINE j == p - 1 - Over + count
  <2>3. j \in 0 .. i - 1 /\ Sure(j) /\ PushAt(j) = p
    <3>1. CASE Over = written
      BY <2>1, <2>2, <3>1 DEF PushAt, Sure
    <3>2. CASE Over = written + 1
      <4>1. wpc = "account"
        BY <2>2, <3>2 DEF Over
      <4>2. QED
        BY <2>1, <2>2, <3>2, <4>1 DEF PushAt, Sure
    <3>3. QED
      BY <2>2, <3>1, <3>2
  <2>4. QED
    BY <2>1, <2>3 DEF RecentInv, PresentInv
<1>3. Init => RecentInv
  BY RecentInit
<1>4. QED
  BY <1>1, <1>2, <1>3, PTL DEF Spec

(* The record of a crash on the PHP thread is oldest first, when the       *)
(* snapshot is smaller than the ring: then no slot of the window can be    *)
(* the one cbox_crumbs_push has in hand, which between publish and the     *)
(* store to head already holds the newest breadcrumb.                      *)
THEOREM RecordsAreOrdered ==
    ASSUME MaxPushes < SeqModulus, CrashCrumbs < Capacity
    PROVE  Spec => []SnapshotOrdered
<1>1. (RecentInv /\ SortedInv) /\ [Next]_vars => (RecentInv /\ SortedInv)'
  BY RecentStep, RecordStep DEF RecentInv
<1>2. RecentInv /\ SortedInv => SnapshotOrdered
  <2> SUFFICES ASSUME RecentInv, SortedInv, ~concurrent
               PROVE  \A k \in 1 .. Len(dst) - 1 : dst[k].ts < dst[k + 1].ts
    BY DEF SnapshotOrdered
  <2>1. CASE rpc \in {"idle", "count"}
    <3>1. dst = <<>> /\ Len(dst) = 0
      BY <2>1 DEF RecentInv, WindowInv
    <3>2. QED
      BY <3>1
  <2>2. CASE rpc \notin {"idle", "count"}
    <3>1. rpc \in ReaderSteps
      BY DEF RecentInv, IInv, TypeInv, TypeOK
    <3>2. Alone /\ rpc \in Looping
      BY <2>2, <3>1 DEF ReaderSteps, Alone, Looping, Reading
    <3>3. QED
      BY <3>2 DEF SortedInv
  <2>3. QED
    BY <2>1, <2>2
<1>3. Init => RecentInv /\ SortedInv
  BY RecentInit
<1>4. QED
  BY <1>1, <1>2, <1>3, PTL DEF Spec
=============================================================================
