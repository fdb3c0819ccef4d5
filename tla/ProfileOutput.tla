---------------------------- MODULE ProfileOutput ----------------------------
(***************************************************************************)
(* cbox_profile_into (src/cbox_telemetry.c): the arrays finish() makes of  *)
(* the stored samples.  It runs on the PHP thread between two collections  *)
(* and changes nothing, so it is a set of definitions over the state of    *)
(* Samples, in the ids of the code (from 0) that PHP sees.                 *)
(***************************************************************************)
EXTENDS Samples, SequencesExt

CONSTANT TopMax  \* CBOX_TOP_FUNCTIONS_MAX

ASSUME ProfileOutputAssumption == TopMax \in Nat \ {0}

FrameList == prof.frames

SelfSamples == [n \in 2 .. Len(prof.tree) |-> prof.tree[n].samples]

(* Self samples per function, over every node but the root. *)
Totals ==
    [id \in 0 .. Len(prof.frames) - 1 |->
        SumFunctionOnSet(SelfSamples, {n \in DOMAIN SelfSamples : prof.tree[n].frame = id + 1})]

(* cbox_function_total_cmp: most samples first, then by id. *)
Before(a, b) == \/ a.samples > b.samples
                \/ a.samples = b.samples /\ a.frame_id < b.frame_id

(* qsort: the entries one after another, in the order of Before. *)
Sorted(entries) ==
    CHOOSE s \in SetToSeqs(entries) : \A i, j \in DOMAIN s : i < j => Before(s[i], s[j])

(* The functions that have samples. *)
Sampled ==
    {e \in {[frame_id |-> id, samples |-> Totals[id]] : id \in DOMAIN Totals} : e.samples > 0}

(* Mutant: the list is cut before it is sorted. *)
CutThenSorted == Sorted({e \in Sampled : e.frame_id < TopMax})

(* The sorted totals up to the first zero or the limit of the list. *)
TopFunctions ==
    LET count == Cardinality(Sampled)
    IN  SubSeq(Sorted(Sampled), 1, IF count < TopMax THEN count ELSE TopMax)

(* One triple <<parent_node, frame_id, samples>> per node; the id of a     *)
(* node is its place in the list.                                          *)
Stacks ==
    [i \in 1 .. Len(prof.tree) - 1 |->
        <<prof.tree[i + 1].parent - 1, prof.tree[i + 1].frame - 1, prof.tree[i + 1].samples>>]

-----------------------------------------------------------------------------
(* Reading a profile back, as profiler.md tells a consumer to do *)

(* The path of every node: that of its parent and its own frame. *)
ReadBack(stacks, frames) ==
    LET path[i \in 0 .. Len(stacks)] ==
            IF i = 0 THEN <<>> ELSE Append(path[stacks[i][1]], frames[stacks[i][2] + 1])
    IN  path

StackPath == ReadBack(Stacks, FrameList)

(* Samples the profile shows for a path. *)
Shown(path) ==
    SumFunctionOnSet([i \in DOMAIN Stacks |-> Stacks[i][3]],
                     {i \in DOMAIN Stacks : StackPath[i] = path})

Taken(path) == IF path \in DOMAIN taken THEN taken[path] ELSE 0

Paths == DOMAIN taken \cup {StackPath[i] : i \in 1 .. Len(Stacks)}

Listed == {TopFunctions[i].frame_id : i \in 1 .. Len(TopFunctions)}

-----------------------------------------------------------------------------
(* Properties *)

(* The call tree that finish() returns is the multiset of the samples that *)
(* were taken, stack by stack, with only the <truncated> marker possibly   *)
(* missing; and every tick handed to the collection is in sample_count or  *)
(* in dropped, however the collection failed.                              *)
ProfileIsExact ==
    pc = "idle" =>
        /\ prof.samples + prof.dropped = given
        /\ \A path \in Paths :
              Head(path) # TruncatedFrame =>
                  Shown(path) + Shown(<<TruncatedFrame>> \o path)
                    = Taken(path) + Taken(<<TruncatedFrame>> \o path)
        /\ SumFunction([path \in Paths |-> Shown(path)]) = prof.samples

(* A profile in which cut stacks look like complete ones always says so:   *)
(* its frame_capacity_hits is not 0 (profiler.md promises "a truncated     *)
(* profile looks truncated instead of looking like a shallow one").        *)
TruncationShows ==
    pc = "idle" /\ prof.frameHits = 0 => \A path \in Paths : Shown(path) = Taken(path)

(* "sample_count is the sum of top_functions samples", up to the limit of  *)
(* the list; beyond it the functions left out are those with the fewest    *)
(* samples.                                                                *)
TopListAddsUp ==
    pc = "idle" =>
        LET sum == SumFunctionOnSet(Totals, Listed)
        IN  /\ Cardinality(Listed) < TopMax => sum = prof.samples
            /\ \A out \in DOMAIN Totals \ Listed, in \in Listed : Totals[out] <= Totals[in]
            /\ sum <= prof.samples
=============================================================================
