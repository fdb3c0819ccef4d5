--------------------------------- MODULE Ops ---------------------------------
(***************************************************************************)
(* Timing of hooked operations (src/src/ops.c) as the rest of the          *)
(* extension drives it: a hook wrapper (src/src/hooks.c) opens a token     *)
(* before it calls the original function and closes it afterwards, while   *)
(* the PHP code that runs inside the original function (a cURL callback, a *)
(* second Fiber, a fork) opens, closes and abandons units of work.         *)
(*                                                                         *)
(* A call in flight is a C stack frame that holds a token.  Frames of      *)
(* different Fibers end in any order; a zend_bailout drops every frame     *)
(* without running its end.  Everything runs on one thread, so each        *)
(* function is one atomic action; the interleaving is that of the frames   *)
(* with the unit boundaries.                                               *)
(***************************************************************************)
EXTENDS Integers

CONSTANTS
    Callers,      \* C frames of hook wrappers that can be live at once
    OpTypes,      \* the real operation types (enum cbox_op_type, 1..MAX-1)
    None,         \* CBOX_OP_NONE
    StackMax,     \* CBOX_OP_STACK_MAX
    GenModulus,   \* 2^32: the generation is a uint32_t and wraps
    MaxAge,       \* bound: resets one call in flight may live through
    MaxBegins,    \* bound: operations begun in one unit
    MaxTime       \* bound: values of the monotonic clock

ASSUME OpsAssumption ==
    /\ None \notin OpTypes
    /\ StackMax \in Nat \ {0}
    /\ GenModulus \in Nat
    /\ MaxAge \in Nat
    /\ MaxAge < GenModulus
    /\ MaxBegins \in Nat
    /\ MaxTime \in Nat

VARIABLES
    ops,       \* CBOX_G(ops): the cbox_op_state
    open,      \* CBOX_G(unit).handle # 0
    forked,    \* CBOX_G(owner_pid) # getpid(): a fork nobody noticed yet
    now,       \* cbox_now_ns()
    calls,     \* the token in each C frame, or NoCall
    \* Ghosts, read by no action of the program:
    mine,      \* frames whose operation began in the unit that is open
    age,       \* resets since the frame's operation began
    orphans,   \* slots whose frame a bailout dropped
    begins,    \* operations begun since the last reset
    measured   \* what an ideal observer booked for the open unit

vars == <<ops, open, forked, now, calls, mine, age, orphans, begins, measured>>

-----------------------------------------------------------------------------
(* Types *)

NoCall == [type |-> None]
NoSlot == StackMax       \* stands for UINT32_MAX: no index of the stack

Slots == 0 .. StackMax - 1
Times == 0 .. MaxTime
Generations == 0 .. GenModulus - 1

Frame == [type : OpTypes \cup {None}, start_ns : Times]
Token == [type : OpTypes, start_ns : Times,
          slot : Slots \cup {NoSlot}, generation : Generations]
Agg == [count : Nat, total_ns : Nat, max_ns : Times]
OpState == [agg : [OpTypes -> Agg], stack : [Slots -> Frame],
            depth : 0 .. StackMax, overflow : Nat, generation : Generations]

ZeroAgg == [t \in OpTypes |-> [count |-> 0, total_ns |-> 0, max_ns |-> 0]]
ZeroStack == [i \in Slots |-> [type |-> None, start_ns |-> 0]]

-----------------------------------------------------------------------------
(* ops.c *)

(* uint32_t increment. *)
NextGeneration(g) == IF g + 1 = GenModulus THEN 0 ELSE g + 1

(* Mutant: the reset clears the generation with everything else. *)
GenerationCleared(g) == 0

(* The value cbox_ops_reset puts back after its memset. *)
ResetGeneration(g) == NextGeneration(g)

(* cbox_ops_reset *)
OpsReset(s) == [agg |-> ZeroAgg, stack |-> ZeroStack, depth |-> 0,
                overflow |-> 0, generation |-> ResetGeneration(s.generation)]

(* Mutant: off by one, a slot is taken past the end of the stack. *)
RoomPastEnd(s) == s.depth <= StackMax

(* The test before a slot is taken. *)
HasRoom(s) == s.depth < StackMax

(* Mutant: a begin fills the lowest hole that an out-of-order end left. *)
LowestHole(s) ==
    CHOOSE i \in 0 .. s.depth :
        /\ i < s.depth => s.stack[i].type = None
        /\ \A j \in 0 .. i - 1 : s.stack[j].type # None

(* The slot a begin takes when there is room. *)
FreeSlot(s) == s.depth

(* cbox_ops_begin: the token and the new state. *)
BeginToken(s, t, ns) ==
    [type |-> t, start_ns |-> ns, generation |-> s.generation,
     slot |-> IF HasRoom(s) THEN FreeSlot(s) ELSE NoSlot]

BeginState(s, t, ns) ==
    IF HasRoom(s)
    THEN [s EXCEPT !.stack = [@ EXCEPT ![FreeSlot(s)] = [type |-> t, start_ns |-> ns]],
                   !.depth = @ + 1]
    ELSE [s EXCEPT !.overflow = @ + 1]

(* cbox_ops_top, and the trimming loop of cbox_ops_end: one more than the  *)
(* highest occupied index below depth, 0 when there is none.               *)
Top(stack, depth) ==
    CHOOSE i \in 0 .. depth :
        /\ i > 0 => stack[i - 1].type # None
        /\ \A j \in i .. depth - 1 : stack[j].type = None

(* Mutant: ending the operation pops one frame instead of trimming holes.  *)
PopOne(stack, depth) == depth - 1

(* The depth cbox_ops_end leaves behind. *)
Trimmed(stack, depth) == Top(stack, depth)

(* The token belongs to the unit whose aggregates s holds. *)
SameGeneration(s, tok) == tok.generation = s.generation

(* Mutant: an end frees the top of the stack, whoever put it there. *)
FreesTop(s, tok) == s.depth - 1

(* The slot cbox_ops_end releases. *)
FreedSlot(s, tok) == tok.slot

Elapsed(tok, ns) == IF ns > tok.start_ns THEN ns - tok.start_ns ELSE 0

Booked(agg, tok, ns) ==
    LET e == Elapsed(tok, ns)
        a == agg[tok.type]
    IN  [agg EXCEPT ![tok.type] =
            [count |-> a.count + 1, total_ns |-> a.total_ns + e,
             max_ns |-> IF e > a.max_ns THEN e ELSE a.max_ns]]

(* The slot release of cbox_ops_end. *)
Released(s, tok) ==
    LET stack == [s.stack EXCEPT ![FreedSlot(s, tok)].type = None]
    IN  [s EXCEPT !.stack = stack, !.depth = Trimmed(stack, s.depth)]

(* cbox_ops_end *)
EndState(s, tok, ns) ==
    IF ~SameGeneration(s, tok) THEN s
    ELSE LET r == IF tok.slot # NoSlot THEN Released(s, tok) ELSE s
         IN  [r EXCEPT !.agg = Booked(s.agg, tok, ns)]

(* cbox_ops_current *)
Current(s) == LET top == Top(s.stack, s.depth)
              IN  IF top = 0 THEN None ELSE s.stack[top - 1].type

-----------------------------------------------------------------------------
(* The callers *)

InFlight == {c \in Callers : calls[c] # NoCall}

(* cbox_telemetry_note_op_begin, from the hook wrapper. *)
NoteOpBegin(c, t) ==
    /\ calls[c] = NoCall
    /\ begins < MaxBegins
    /\ IF open
       THEN /\ calls' = [calls EXCEPT ![c] = BeginToken(ops, t, now)]
            /\ ops' = BeginState(ops, t, now)
       ELSE /\ calls' = [calls EXCEPT ![c] =
                  [type |-> t, start_ns |-> now, slot |-> NoSlot,
                   generation |-> ops.generation]]
            /\ UNCHANGED ops
    /\ mine' = IF open THEN mine \cup {c} ELSE mine
    /\ age' = [age EXCEPT ![c] = 0]
    /\ begins' = begins + 1
    /\ UNCHANGED <<open, forked, now, orphans, measured>>

(* cbox_telemetry_note_op_end, when the original function returns. *)
NoteOpEnd(c) ==
    /\ calls[c] # NoCall
    /\ ops' = IF open THEN EndState(ops, calls[c], now) ELSE ops
    /\ calls' = [calls EXCEPT ![c] = NoCall]
    /\ mine' = mine \ {c}
    /\ age' = [age EXCEPT ![c] = 0]
    /\ measured' = IF c \in mine THEN Booked(measured, calls[c], now) ELSE measured
    /\ UNCHANGED <<open, forked, now, orphans, begins>>

(* n consecutive calls of cbox_ops_reset (n is 1 or 2), with the ghosts;   *)
(* the guard is the bound on how long one frame lives.                     *)
Resets(n) ==
    /\ \A c \in InFlight : age[c] + n <= MaxAge
    /\ ops' = IF n = 2 THEN OpsReset(OpsReset(ops)) ELSE OpsReset(ops)
    /\ mine' = {}
    /\ age' = [c \in Callers |-> IF calls[c] # NoCall THEN age[c] + n ELSE age[c]]
    /\ orphans' = {}
    /\ begins' = 0
    /\ measured' = ZeroAgg

(* cbox_telemetry_begin or an automatic start at RINIT: cbox_detect_fork,  *)
(* then cbox_unit_open, each with a reset of its own.  The adoption of an  *)
(* automatic unit touches none of this state and is a stuttering step.     *)
UnitOpen ==
    /\ Resets(IF forked THEN 2 ELSE 1)
    /\ open' = TRUE
    /\ forked' = FALSE
    /\ UNCHANGED <<now, calls>>

(* cbox_telemetry_finish with a handle that matches. *)
Finish ==
    /\ open /\ ~forked
    /\ Resets(1)
    /\ open' = FALSE
    /\ UNCHANGED <<forked, now, calls>>

(* cbox_telemetry_status or cbox_telemetry_finish in a forked child:       *)
(* cbox_detect_fork resets the inherited unit and operations.              *)
DetectFork ==
    /\ forked
    /\ Resets(1)
    /\ open' = FALSE
    /\ forked' = FALSE
    /\ UNCHANGED <<now, calls>>

(* PHP code running inside the original functions forks; we follow the     *)
(* child, whose memory and C stack are copies.                             *)
Fork ==
    /\ ~forked
    /\ forked' = TRUE
    /\ UNCHANGED <<ops, open, now, calls, mine, age, orphans, begins, measured>>

(* A zend_bailout longjmps past the end of every wrapper. *)
Bailout ==
    /\ InFlight # {}
    /\ orphans' = orphans \cup {calls[c].slot : c \in {d \in mine : calls[d].slot # NoSlot}}
    /\ calls' = [c \in Callers |-> NoCall]
    /\ mine' = {}
    /\ age' = [c \in Callers |-> 0]
    /\ UNCHANGED <<ops, open, forked, now, begins, measured>>

(* PHP_RSHUTDOWN of an open unit, once the request's C stack has unwound.  *)
RShutdown ==
    /\ open
    /\ InFlight = {}
    /\ Resets(1)
    /\ open' = FALSE
    /\ UNCHANGED <<forked, now, calls>>

Tick ==
    /\ now < MaxTime
    /\ now' = now + 1
    /\ UNCHANGED <<ops, open, forked, calls, mine, age, orphans, begins, measured>>

-----------------------------------------------------------------------------
Init ==
    /\ ops = [agg |-> ZeroAgg, stack |-> ZeroStack, depth |-> 0,
              overflow |-> 0, generation |-> 0]
    /\ open = FALSE
    /\ forked = FALSE
    /\ now = 0
    /\ calls = [c \in Callers |-> NoCall]
    /\ mine = {}
    /\ age = [c \in Callers |-> 0]
    /\ orphans = {}
    /\ begins = 0
    /\ measured = ZeroAgg

Next ==
    \/ \E c \in Callers, t \in OpTypes : NoteOpBegin(c, t)
    \/ \E c \in Callers : NoteOpEnd(c)
    \/ UnitOpen
    \/ Finish
    \/ DetectFork
    \/ Fork
    \/ Bailout
    \/ RShutdown
    \/ Tick

Spec == Init /\ [][Next]_vars

-----------------------------------------------------------------------------
(* Properties *)

(* Every variable stays in its type; in particular the depth stays within  *)
(* the stack and a token's slot is an index or CBOX_OP_NO_SLOT.            *)
TypeOK ==
    /\ ops \in OpState
    /\ open \in BOOLEAN
    /\ forked \in BOOLEAN
    /\ now \in Times
    /\ calls \in [Callers -> Token \cup {NoCall}]
    /\ mine \subseteq Callers
    /\ age \in [Callers -> 0 .. MaxAge]
    /\ orphans \subseteq Slots
    /\ begins \in Nat
    /\ measured \in [OpTypes -> Agg]

Slotted == {c \in mine : calls[c].slot # NoSlot}
Occupied(i) == i < ops.depth /\ ops.stack[i].type # None

(* A call of the open unit that got a slot still owns it: the frame it     *)
(* stored is there untouched, below the depth, and no other call has it.   *)
(* This is what releasing "exactly this slot" (ops.c) relies on while      *)
(* Fibers end out of order and units change underneath.                    *)
SlotOwnership ==
    /\ \A c \in Slotted :
          /\ calls[c].slot < ops.depth
          /\ ops.stack[calls[c].slot].type = calls[c].type
          /\ ops.stack[calls[c].slot].start_ns = calls[c].start_ns
    /\ \A c, d \in Slotted : c # d => calls[c].slot # calls[d].slot

(* The occupied slots are those of the calls in flight and those a bailout *)
(* left behind, and nothing else: no end leaks a slot, and a leak lasts at *)
(* most until the next unit boundary (hooks.c, comment on zend_bailout).   *)
SlotAccounting ==
    \A i \in Slots :
        Occupied(i) <=> \/ i \in orphans
                        \/ \E c \in Slotted : calls[c].slot = i

(* Occupied slots are in the order in which their operations began. *)
StackInBeginOrder ==
    \A i, j \in Slots :
        i < j /\ Occupied(i) /\ Occupied(j)
            => ops.stack[i].start_ns <= ops.stack[j].start_ns

(* What a crash record names as the operation in flight is the innermost   *)
(* one: of the unit's calls that have a slot none began later, and nothing *)
(* is named when there is none (ops.h on cbox_ops_current), as long as no  *)
(* bailout has left a slot behind.                                         *)
CurrentIsInnermost ==
    orphans = {} =>
        IF Slotted = {} THEN Current(ops) = None
        ELSE \E c \in Slotted :
                /\ calls[c].type = Current(ops)
                /\ \A d \in Slotted : calls[d].start_ns <= calls[c].start_ns

(* The aggregates hold exactly the calls that began and ended in the unit  *)
(* that is open, with their real durations: a call begun before the unit,  *)
(* in the previous unit, in the parent process or while idle is not booked *)
(* against it, and a call that got no slot is (ops.c, note_op_end).        *)
AggregatesAreThisUnitsCalls == ops.agg = measured
=============================================================================
