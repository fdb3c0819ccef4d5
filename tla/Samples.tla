------------------------------- MODULE Samples -------------------------------
(***************************************************************************)
(* Storage of samples: cbox_profiler_collect (src/src/profiler.c) on the   *)
(* frame table (frames.c), the call trie (stacktree.c) and the arena       *)
(* (arena.c).  One sample is a walk over the engine's frames that interns  *)
(* every function and then descends the trie; it may run out of frames,    *)
(* arena or nodes at any of its steps, and what it stored up to there      *)
(* stays.                                                                  *)
(*                                                                         *)
(* Ids are the code's plus one: 0 is CBOX_FRAME_NONE, CBOX_NODE_NONE and   *)
(* the empty bucket, and an id is the position of its entry in frames or   *)
(* tree.  Node 1 is the root.                                              *)
(*                                                                         *)
(* Abstractions: a function is its identity (name, file and declaration    *)
(* line after cutting names at CBOX_FRAME_NAME_MAX) with the arena cells   *)
(* of 8 bytes that its name and file take; hashes are any functions, so    *)
(* that collisions are chosen by the instance; peak and exhausted of the   *)
(* arena are left out, nothing but a report reads them.                    *)
(***************************************************************************)
EXTENDS Integers, Sequences, FiniteSets

CONSTANTS
    Functions,     \* identities of PHP functions
    Chains,        \* stacks a safe point may find, innermost first
    NameCells,     \* arena cells of the name of a function or marker
    FileCells,     \* and of its file, 0 when it has none
    FrameHash,     \* hash of an identity
    EdgeHash,      \* hash of <<parent node, frame id>>
    MaxFrames,     \* capacity of the frame table
    MaxNodes,      \* capacity of the trie, the root included
    ArenaCells,    \* size of the arena
    FrameBuckets,  \* cbox_bucket_count(MaxFrames)
    NodeBuckets,   \* cbox_bucket_count(MaxNodes)
    MaxDepth,      \* frames walked per sample
    Weights,       \* ticks one sample may stand for
    MaxSamples     \* bound: samples between two resets

EngineFrame == "<engine>"
TruncatedFrame == "<truncated>"
NoFunction == "func == NULL"
Identities == Functions \cup {EngineFrame, TruncatedFrame}

ASSUME SamplesAssumption ==
    /\ {EngineFrame, TruncatedFrame, NoFunction} \cap Functions = {}
    /\ Chains \subseteq Seq(Functions \cup {NoFunction})
    /\ NameCells \in [Identities -> Nat \ {0}]
    /\ FileCells \in [Identities -> Nat]
    /\ FrameHash \in [Identities -> Nat]
    /\ MaxFrames \in Nat \ {0}
    /\ MaxNodes \in Nat \ {0, 1}
    /\ EdgeHash \in [(1 .. MaxNodes) \X (1 .. MaxFrames) -> Nat]
    /\ ArenaCells \in Nat \ {0}
    /\ FrameBuckets \in Nat /\ FrameBuckets >= 2 * MaxFrames
    /\ NodeBuckets \in Nat /\ NodeBuckets >= 2 * MaxNodes
    /\ MaxDepth \in Nat \ {0}
    /\ Weights \subseteq Nat \ {0}
    /\ MaxSamples \in Nat

VARIABLES
    prof,   \* the storage half of the struct cbox_profiler
    pc,     \* where the collection is
    walk,   \* its locals: frames still to visit, ids, node and weight
    \* Ghosts, of the samples since the last reset:
    given,  \* weight handed to the collection
    taken   \* path a sample stands for -> weight recorded for it

vars == <<prof, pc, walk, given, taken>>

-----------------------------------------------------------------------------
(* Hash tables *)

(* Mutant: the entries met on the way are not compared. *)
ProbeForRoom(buckets, size, hash, wanted) ==
    LET bucket(d) == (hash + d) % size
        stops == {d \in 0 .. size - 1 : buckets[bucket(d)] = 0}
    IN  bucket(CHOOSE d \in stops : \A e \in stops : d <= e)

(* Linear probing: the first bucket from hash on that is empty or holds    *)
(* one of the wanted ids.                                                  *)
Probe(buckets, size, hash, wanted) ==
    LET bucket(d) == (hash + d) % size
        stops == {d \in 0 .. size - 1 : buckets[bucket(d)] \in wanted \cup {0}}
    IN  bucket(CHOOSE d \in stops : \A e \in stops : d <= e)

EmptyBuckets(size) == [b \in 0 .. size - 1 |-> 0]

FrameSlot(p, f) ==
    Probe(p.frameBuckets, FrameBuckets, FrameHash[f],
          {id \in 1 .. Len(p.frames) : p.frames[id] = f})

(* Mutant: a frame refused for want of room is not counted. *)
InternedQuietly(p, f) ==
    LET slot == FrameSlot(p, f)
        cells == p.used + NameCells[f] + FileCells[f]
    IN  IF p.frameBuckets[slot] # 0 \/ Len(p.frames) >= MaxFrames \/ cells > ArenaCells
        THEN p
        ELSE [p EXCEPT !.frames = Append(@, f), !.used = cells,
                       !.frameBuckets[slot] = Len(p.frames) + 1]

(* cbox_frames_intern: the function is there, or is added, or is refused   *)
(* by a full table or a full arena; a name whose file does not fit keeps   *)
(* its cells.                                                              *)
Interned(p, f) ==
    LET slot == FrameSlot(p, f)
        named == p.used + NameCells[f]
        filed == named + FileCells[f]
        full == Len(p.frames) >= MaxFrames \/ named > ArenaCells
    IN  CASE p.frameBuckets[slot] # 0 -> p
          [] p.frameBuckets[slot] = 0 /\ full -> [p EXCEPT !.frameHits = @ + 1]
          [] p.frameBuckets[slot] = 0 /\ ~full /\ filed > ArenaCells ->
                [p EXCEPT !.frameHits = @ + 1, !.used = named]
          [] OTHER ->
                [p EXCEPT !.frames = Append(@, f), !.used = filed,
                          !.frameBuckets[slot] = Len(p.frames) + 1]

(* What the call returns: the id, or 0. *)
FrameId(p, f) == Interned(p, f).frameBuckets[FrameSlot(p, f)]

NodeSlot(p, parent, frame) ==
    Probe(p.nodeBuckets, NodeBuckets, EdgeHash[<<parent, frame>>],
          {id \in 2 .. Len(p.tree) : p.tree[id].parent = parent /\ p.tree[id].frame = frame})

(* cbox_stacktree_child: the child, new or not, or none in a full trie. *)
Child(p, parent, frame) ==
    LET slot == NodeSlot(p, parent, frame)
    IN  CASE p.nodeBuckets[slot] # 0 -> p
          [] p.nodeBuckets[slot] = 0 /\ Len(p.tree) >= MaxNodes ->
                [p EXCEPT !.nodeHits = @ + 1]
          [] OTHER ->
                [p EXCEPT !.tree = Append(@, [parent |-> parent, frame |-> frame, samples |-> 0]),
                          !.nodeBuckets[slot] = Len(p.tree) + 1]

ChildId(p, parent, frame) ==
    Child(p, parent, frame).nodeBuckets[NodeSlot(p, parent, frame)]

-----------------------------------------------------------------------------
(* The struct *)

Node == [parent : 0 .. MaxNodes, frame : 0 .. MaxFrames, samples : Nat]
Root == [parent |-> 0, frame |-> 0, samples |-> 0]

Prof == [frames : Seq(Identities), frameBuckets : [0 .. FrameBuckets - 1 -> 0 .. MaxFrames],
         used : 0 .. ArenaCells, frameHits : Nat,
         tree : Seq(Node), nodeBuckets : [0 .. NodeBuckets - 1 -> 0 .. MaxNodes],
         nodeHits : Nat, samples : Nat, dropped : Nat,
         truncated_frame : 0 .. MaxFrames, engine_frame : 0 .. MaxFrames]

(* cbox_profiler_init *)
Fresh == [frames |-> <<>>, frameBuckets |-> EmptyBuckets(FrameBuckets), used |-> 0,
          frameHits |-> 0, tree |-> <<Root>>, nodeBuckets |-> EmptyBuckets(NodeBuckets),
          nodeHits |-> 0, samples |-> 0, dropped |-> 0,
          truncated_frame |-> 0, engine_frame |-> 0]

(* Mutant: the ids of the two markers survive the table they are ids of. *)
MarkersKept(p) ==
    [Fresh EXCEPT !.truncated_frame = p.truncated_frame, !.engine_frame = p.engine_frame]

(* cbox_profiler_reset: the buckets are cleared only if an entry was made. *)
Cleared(p) ==
    [Fresh EXCEPT !.frameBuckets = IF p.frames # <<>> THEN @ ELSE p.frameBuckets,
                  !.nodeBuckets = IF Len(p.tree) > 1 THEN @ ELSE p.nodeBuckets]

-----------------------------------------------------------------------------
(* Collection *)

Walk == [left : Seq(Functions \cup {NoFunction}), ids : Seq(1 .. MaxFrames),
         truncated : BOOLEAN, node : 1 .. MaxNodes, weight : Weights \cup {0},
         chain : Chains \cup {<<>>}]
NoWalk == [left |-> <<>>, ids |-> <<>>, truncated |-> FALSE, node |-> 1, weight |-> 0,
           chain |-> <<>>]

(* The functions called in the first frames of a stack, innermost first. *)
CalledIn(chain) ==
    LET called[i \in 0 .. Len(chain)] ==
            IF i = 0 THEN <<>>
            ELSE IF chain[i] = NoFunction THEN called[i - 1]
            ELSE Append(called[i - 1], chain[i])
    IN  called

(* The path a stack stands for, outermost first: what a profile that lost  *)
(* nothing would show.                                                     *)
PathOf(chain) ==
    LET called == CalledIn(chain)[Len(chain)]
        depth == IF Len(called) < MaxDepth THEN Len(called) ELSE MaxDepth
        path == [i \in 1 .. depth |-> called[depth + 1 - i]]
    IN  IF called = <<>> THEN <<EngineFrame>>
        ELSE IF Len(called) > MaxDepth THEN <<TruncatedFrame>> \o path ELSE path

(* The safe point calls cbox_profiler_collect. *)
Collect(chain, weight) ==
    /\ pc = "idle"
    /\ prof.samples + prof.dropped < MaxSamples
    /\ pc' = "walk"
    /\ walk' = [NoWalk EXCEPT !.left = chain, !.weight = weight, !.chain = chain]
    /\ given' = given + weight
    /\ UNCHANGED <<prof, taken>>

(* Mutant: the sample is dropped as one tick. *)
DroppedOnce(p) == [p EXCEPT !.dropped = @ + 1]

(* A step found no room: the whole weight is dropped. *)
Dropped(p) == [p EXCEPT !.dropped = @ + walk.weight]

Drop(p) ==
    /\ prof' = Dropped(p)
    /\ pc' = "idle"
    /\ walk' = NoWalk
    /\ UNCHANGED <<given, taken>>

SkipFrame ==
    /\ pc = "walk"
    /\ walk.left # <<>> /\ Head(walk.left) = NoFunction
    /\ walk' = [walk EXCEPT !.left = Tail(@)]
    /\ UNCHANGED <<prof, pc, given, taken>>

(* cbox_profiler_frame_for the next frame. *)
WalkFrame ==
    LET f == Head(walk.left)
    IN  /\ pc = "walk"
        /\ walk.left # <<>> /\ Head(walk.left) # NoFunction
        /\ Len(walk.ids) < MaxDepth
        /\ \/ /\ FrameId(prof, f) # 0
              /\ prof' = Interned(prof, f)
              /\ walk' = [walk EXCEPT !.left = Tail(@), !.ids = Append(@, FrameId(prof, f))]
              /\ UNCHANGED <<pc, given, taken>>
           \/ /\ FrameId(prof, f) = 0
              /\ Drop(Interned(prof, f))

WalkEnds ==
    /\ pc = "walk"
    /\ \/ walk.left = <<>> /\ walk' = walk
       \/ /\ walk.left # <<>> /\ Head(walk.left) # NoFunction
          /\ Len(walk.ids) >= MaxDepth
          /\ walk' = [walk EXCEPT !.truncated = TRUE]
    /\ pc' = "mark"
    /\ UNCHANGED <<prof, given, taken>>

(* cbox_profiler_truncation_frame and cbox_profiler_engine_frame: the      *)
(* cached id, or the marker interned now.                                  *)
WithTruncation(p) ==
    IF p.truncated_frame # 0 THEN p
    ELSE [Interned(p, TruncatedFrame) EXCEPT !.truncated_frame = FrameId(p, TruncatedFrame)]

WithEngine(p) ==
    IF p.engine_frame # 0 THEN p
    ELSE [Interned(p, EngineFrame) EXCEPT !.engine_frame = FrameId(p, EngineFrame)]

(* One cbox_stacktree_child of the descent, and where the walk goes on. *)
Descend(p, frame, next) ==
    \/ /\ ChildId(p, walk.node, frame) # 0
       /\ prof' = Child(p, walk.node, frame)
       /\ walk' = [next EXCEPT !.node = ChildId(p, walk.node, frame)]
       /\ UNCHANGED <<given, taken>>
       /\ pc' = "descend"
    \/ /\ ChildId(p, walk.node, frame) = 0
       /\ Drop(Child(p, walk.node, frame))

(* The marker of a truncated stack; without room for it the stack goes on  *)
(* without one.                                                            *)
Mark ==
    LET p == WithTruncation(prof)
    IN  /\ pc = "mark"
        /\ \/ /\ walk.truncated /\ p.truncated_frame # 0
              /\ Descend(p, p.truncated_frame, walk)
           \/ /\ ~(walk.truncated /\ p.truncated_frame # 0)
              /\ prof' = IF walk.truncated THEN p ELSE prof
              /\ pc' = "descend"
              /\ UNCHANGED <<walk, given, taken>>

DescendFrame ==
    /\ pc = "descend"
    /\ walk.ids # <<>>
    /\ Descend(prof, walk.ids[Len(walk.ids)],
               [walk EXCEPT !.ids = SubSeq(@, 1, Len(@) - 1)])

(* The walk found no frame at all. *)
NeedsEngineFrame == walk.node = 1 /\ ~walk.truncated

EngineSample ==
    LET p == WithEngine(prof)
    IN  /\ pc = "descend"
        /\ walk.ids = <<>> /\ NeedsEngineFrame
        /\ \/ p.engine_frame # 0 /\ Descend(p, p.engine_frame, walk)
           \/ p.engine_frame = 0 /\ Drop(p)

(* cbox_stacktree_record and the sample count. *)
Record ==
    LET path == PathOf(walk.chain)
    IN  /\ pc = "descend"
        /\ walk.ids = <<>> /\ ~NeedsEngineFrame
        /\ prof' = [prof EXCEPT !.tree[walk.node].samples = @ + walk.weight,
                                !.samples = @ + walk.weight]
        /\ taken' = [q \in DOMAIN taken \cup {path} |->
                        (IF q \in DOMAIN taken THEN taken[q] ELSE 0)
                        + (IF q = path THEN walk.weight ELSE 0)]
        /\ pc' = "idle"
        /\ walk' = NoWalk
        /\ UNCHANGED given

(* A unit starts or ends. *)
ProfilerReset ==
    /\ pc = "idle"
    /\ prof' = Cleared(prof)
    /\ given' = 0
    /\ taken' = [q \in {} |-> 0]
    /\ UNCHANGED <<pc, walk>>

-----------------------------------------------------------------------------
Init ==
    /\ prof = Fresh
    /\ pc = "idle"
    /\ walk = NoWalk
    /\ given = 0
    /\ taken = [q \in {} |-> 0]

Next ==
    \/ \E chain \in Chains, weight \in Weights : Collect(chain, weight)
    \/ SkipFrame
    \/ WalkFrame
    \/ WalkEnds
    \/ Mark
    \/ DescendFrame
    \/ EngineSample
    \/ Record
    \/ ProfilerReset

Spec == Init /\ [][Next]_vars

-----------------------------------------------------------------------------
(* Properties *)

(* Every index stays inside its table: frames, buckets, nodes and arena,   *)
(* including the ids a walk and the cached markers hold.                   *)
TypeOK ==
    /\ prof \in Prof
    /\ Len(prof.frames) <= MaxFrames
    /\ Len(prof.tree) <= MaxNodes
    /\ {prof.truncated_frame, prof.engine_frame} \subseteq 0 .. Len(prof.frames)
    /\ pc \in {"idle", "walk", "mark", "descend"}
    /\ walk \in Walk
    /\ walk.node <= Len(prof.tree)
    /\ given \in Nat
    /\ DOMAIN taken \subseteq Seq(Identities)
    /\ \A q \in DOMAIN taken : taken[q] \in Nat

(* No function is stored twice in the frame table, no edge twice in the    *)
(* trie, whatever the collisions of the hashes, and every entry is found   *)
(* again by its own probing: profiler.md's "no string is ever repeated".   *)
EntriesAreUnique ==
    /\ \A i, j \in 1 .. Len(prof.frames) : prof.frames[i] = prof.frames[j] => i = j
    /\ \A i, j \in 2 .. Len(prof.tree) :
          /\ prof.tree[i].parent = prof.tree[j].parent
          /\ prof.tree[i].frame = prof.tree[j].frame
          => i = j
    /\ \A i \in 1 .. Len(prof.frames) :
          prof.frameBuckets[FrameSlot(prof, prof.frames[i])] = i
    /\ \A i \in 2 .. Len(prof.tree) :
          /\ prof.tree[i].parent < i
          /\ prof.nodeBuckets[NodeSlot(prof, prof.tree[i].parent, prof.tree[i].frame)] = i
=============================================================================
