------------------------------- MODULE OpsProofs -------------------------------
(***************************************************************************)
(* Theorems about Ops, for every number of frames, operation types, stack  *)
(* slots and generations.  The invariants of Ops are not inductive as they *)
(* stand: cbox_ops_end decides by the generation in the token, so IInv     *)
(* relates a token's generation to the resets it has seen, which the wrap  *)
(* of the counter makes a statement modulo GenModulus.                     *)
(***************************************************************************)
EXTENDS Ops, TLAPS, WellFoundedInduction

-----------------------------------------------------------------------------
(* The operators of ops.c *)

(* A non-empty set of natural numbers has a smallest element. *)
LEMMA LeastNatural ==
    ASSUME NEW T \in SUBSET Nat, T # {}
    PROVE  \E x \in T : \A y \in T : ~(y < x)
<1>1. \E x \in T : \A y \in T : ~(<<y, x>> \in OpToRel(<, Nat))
  BY WFMin, NatLessThanWellFounded, Zenon
<1>2. QED
  BY <1>1 DEF OpToRel

(* The loops of cbox_ops_top and cbox_ops_end stop above the highest       *)
(* occupied slot below the depth.                                          *)
LEMMA TopLemma ==
    ASSUME NEW stack, NEW depth \in Nat
    PROVE  /\ Top(stack, depth) \in 0 .. depth
           /\ Top(stack, depth) > 0 => stack[Top(stack, depth) - 1].type # None
           /\ \A j \in Top(stack, depth) .. depth - 1 : stack[j].type = None
<1> DEFINE Empty(i) == \A j \in i .. depth - 1 : stack[j].type = None
<1> DEFINE P(i) == (i > 0 => stack[i - 1].type # None) /\ Empty(i)
<1> DEFINE T == {i \in 0 .. depth : Empty(i)}
<1>1. depth \in T
  OBVIOUS
<1>2. T \in SUBSET Nat
  <2>1. 0 .. depth \subseteq Nat
    OBVIOUS
  <2>2. QED
    BY <2>1
<1>3. PICK x \in T : \A y \in T : ~(y < x)
  <2> HIDE DEF T
  <2>1. QED
    BY <1>1, <1>2, LeastNatural, Zenon
<1>4. x \in 0 .. depth /\ Empty(x)
  BY <1>3
<1>5. ASSUME x > 0, stack[x - 1].type = None
      PROVE  FALSE
  <2>1. x - 1 \in 0 .. depth
    BY <1>4, <1>5
  <2>2. ASSUME NEW j \in (x - 1) .. depth - 1
        PROVE  stack[j].type = None
    <3>1. j = x - 1 \/ j \in x .. depth - 1
      BY <1>4
    <3>2. QED
      BY <3>1, <1>4, <1>5
  <2>3. x - 1 \in T
    BY <2>1, <2>2
  <2>4. QED
    BY <2>3, <1>3, <1>4
<1>6. P(x)
  BY <1>4, <1>5
<1>7. \E i \in 0 .. depth : P(i)
  BY <1>4, <1>6
<1>8. Top(stack, depth) = CHOOSE i \in 0 .. depth : P(i)
  BY DEF Top
<1> HIDE DEF P
<1>9. Top(stack, depth) \in 0 .. depth /\ P(Top(stack, depth))
  BY <1>7, <1>8, Zenon
<1>10. QED
  BY <1>9 DEF P

(* cbox_ops_reset leaves a state, with the next generation. *)
LEMMA ResetTyped ==
    ASSUME NEW s \in OpState
    PROVE  OpsReset(s) \in OpState
<1>1. ZeroAgg \in [OpTypes -> Agg]
  BY OpsAssumption DEF ZeroAgg, Agg, Times
<1>2. ZeroStack \in [Slots -> Frame]
  BY OpsAssumption DEF ZeroStack, Frame, Times
<1>3. NextGeneration(s.generation) \in Generations
  BY OpsAssumption DEF NextGeneration, Generations, OpState
<1>4. QED
  BY <1>1, <1>2, <1>3, OpsAssumption DEF OpsReset, ResetGeneration, OpState

(* cbox_ops_begin leaves a state and returns a token. *)
LEMMA BeginTyped ==
    ASSUME NEW s \in OpState, NEW t \in OpTypes, NEW ns \in Times
    PROVE  /\ BeginState(s, t, ns) \in OpState
           /\ BeginToken(s, t, ns) \in Token
<1>1. BeginToken(s, t, ns) \in Token
  BY OpsAssumption DEF BeginToken, HasRoom, FreeSlot, Token, NoSlot, Slots, OpState
<1>2. CASE HasRoom(s)
  <2>1. s.depth \in Slots /\ s.depth + 1 \in 0 .. StackMax
    BY <1>2, OpsAssumption DEF HasRoom, Slots, OpState
  <2>2. [type |-> t, start_ns |-> ns] \in Frame
    BY DEF Frame
  <2>3. [s.stack EXCEPT ![s.depth] = [type |-> t, start_ns |-> ns]] \in [Slots -> Frame]
    BY <2>2 DEF OpState
  <2>4. QED
    BY <1>1, <1>2, <2>1, <2>3 DEF BeginState, FreeSlot, OpState
<1>3. CASE ~HasRoom(s)
  BY <1>1, <1>3 DEF BeginState, OpState
<1>4. QED
  BY <1>2, <1>3

(* Booking a call keeps the aggregates in their type. *)
LEMMA BookedTyped ==
    ASSUME NEW agg \in [OpTypes -> Agg], NEW tok \in Token, NEW ns \in Times
    PROVE  Booked(agg, tok, ns) \in [OpTypes -> Agg]
<1>1. Elapsed(tok, ns) \in Times
  BY OpsAssumption DEF Elapsed, Token, Times
<1>2. tok.type \in OpTypes
  BY DEF Token
<1>3. agg[tok.type] \in Agg
  BY <1>2
<1>4. [count |-> agg[tok.type].count + 1,
       total_ns |-> agg[tok.type].total_ns + Elapsed(tok, ns),
       max_ns |-> IF Elapsed(tok, ns) > agg[tok.type].max_ns
                  THEN Elapsed(tok, ns) ELSE agg[tok.type].max_ns] \in Agg
  BY <1>1, <1>3 DEF Agg, Times
<1>5. QED
  BY <1>2, <1>4 DEF Booked

(* Releasing a slot keeps the state in its type. *)
LEMMA ReleasedTyped ==
    ASSUME NEW s \in OpState, NEW tok \in Token, tok.slot # NoSlot
    PROVE  Released(s, tok) \in OpState
<1> DEFINE stack == [s.stack EXCEPT ![tok.slot].type = None]
<1>1. stack \in [Slots -> Frame]
  BY DEF OpState, Frame, Token
<1>2. s.depth \in Nat /\ s.depth <= StackMax
  BY OpsAssumption DEF OpState
<1>3. Top(stack, s.depth) \in 0 .. StackMax
  BY <1>2, TopLemma, OpsAssumption
<1>4. Released(s, tok) = [s EXCEPT !.stack = stack, !.depth = Top(stack, s.depth)]
  BY DEF Released, FreedSlot, Trimmed
<1> HIDE DEF stack
<1>5. QED
  BY <1>1, <1>3, <1>4 DEF OpState

(* cbox_ops_end leaves a state. *)
LEMMA EndTyped ==
    ASSUME NEW s \in OpState, NEW tok \in Token, NEW ns \in Times
    PROVE  EndState(s, tok, ns) \in OpState
<1>1. Booked(s.agg, tok, ns) \in [OpTypes -> Agg]
  BY BookedTyped DEF OpState
<1>2. \A r \in OpState : [r EXCEPT !.agg = Booked(s.agg, tok, ns)] \in OpState
  BY <1>1 DEF OpState
<1>3. QED
  BY <1>2, ReleasedTyped DEF EndState

-----------------------------------------------------------------------------
(* Type correctness *)

(* A frame counted as the open unit's own holds a token. *)
TypeInv == TypeOK /\ mine \subseteq InFlight

(* A token is not the mark of an empty frame. *)
LEMMA TokenIsNoNoCall ==
    ASSUME NEW tok \in Token
    PROVE  tok # NoCall
<1>1. tok.type \in OpTypes /\ NoCall.type = None
  BY DEF Token, NoCall
<1>2. QED
  BY <1>1, OpsAssumption

(* One or two resets keep every variable in its type. *)
LEMMA ResetsTyped ==
    ASSUME TypeInv, NEW n \in {1, 2}, Resets(n)
    PROVE  /\ ops' \in OpState
           /\ mine' = {}
           /\ age' \in [Callers -> 0 .. MaxAge]
           /\ orphans' = {}
           /\ begins' \in Nat
           /\ measured' \in [OpTypes -> Agg]
<1>1. ops' \in OpState
  BY ResetTyped DEF TypeInv, TypeOK, Resets
<1>2. age' \in [Callers -> 0 .. MaxAge]
  BY OpsAssumption DEF TypeInv, TypeOK, Resets, InFlight
<1>3. measured' \in [OpTypes -> Agg]
  BY OpsAssumption DEF Resets, ZeroAgg, Agg, Times
<1>4. QED
  BY <1>1, <1>2, <1>3 DEF Resets

(* Every step keeps the variables in their types. *)
LEMMA TypeStep ==
    TypeInv /\ [Next]_vars => TypeInv'
<1> SUFFICES ASSUME TypeInv, [Next]_vars
             PROVE  TypeInv'
  OBVIOUS
<1>1. ASSUME NEW c \in Callers, NEW t \in OpTypes, NoteOpBegin(c, t)
      PROVE  TypeInv'
  <2>1. ops' \in OpState
    BY <1>1, BeginTyped DEF NoteOpBegin, TypeInv, TypeOK
  <2>2. calls' \in [Callers -> Token \cup {NoCall}] /\ calls'[c] \in Token
    <3>1. CASE open
      BY <1>1, <3>1, BeginTyped DEF NoteOpBegin, TypeInv, TypeOK
    <3>2. CASE ~open
      <4>1. [type |-> t, start_ns |-> now, slot |-> NoSlot,
             generation |-> ops.generation] \in Token
        BY DEF Token, TypeInv, TypeOK, OpState
      <4>2. QED
        BY <1>1, <3>2, <4>1 DEF NoteOpBegin, TypeInv, TypeOK
    <3>3. QED
      BY <3>1, <3>2
  <2>3. calls'[c] # NoCall /\ \A d \in Callers \ {c} : calls'[d] = calls[d]
    BY <1>1, <2>2, TokenIsNoNoCall DEF NoteOpBegin, TypeInv, TypeOK
  <2>4. mine' \subseteq Callers /\ (mine \subseteq InFlight => (mine \subseteq InFlight)')
    BY <1>1, <2>3 DEF NoteOpBegin, InFlight, TypeInv, TypeOK
  <2>5. age' \in [Callers -> 0 .. MaxAge]
    BY <1>1, OpsAssumption DEF NoteOpBegin, TypeInv, TypeOK
  <2>6. QED
    BY <1>1, <2>1, <2>2, <2>4, <2>5 DEF NoteOpBegin, TypeInv, TypeOK
<1>2. ASSUME NEW c \in Callers, NoteOpEnd(c)
      PROVE  TypeInv'
  <2>1. calls[c] \in Token
    BY <1>2 DEF NoteOpEnd, TypeInv, TypeOK
  <2>2. ops' \in OpState
    BY <1>2, <2>1, EndTyped DEF NoteOpEnd, TypeInv, TypeOK
  <2>3. measured' \in [OpTypes -> Agg]
    BY <1>2, <2>1, BookedTyped DEF NoteOpEnd, TypeInv, TypeOK
  <2>4. calls' \in [Callers -> Token \cup {NoCall}]
    BY <1>2 DEF NoteOpEnd, TypeInv, TypeOK
  <2>5. mine' \subseteq Callers /\ (mine \subseteq InFlight)'
    BY <1>2 DEF NoteOpEnd, InFlight, TypeInv, TypeOK
  <2>6. age' \in [Callers -> 0 .. MaxAge]
    BY <1>2, OpsAssumption DEF NoteOpEnd, TypeInv, TypeOK
  <2>7. QED
    BY <1>2, <2>2, <2>3, <2>4, <2>5, <2>6 DEF NoteOpEnd, TypeInv, TypeOK
<1>3. ASSUME UnitOpen
      PROVE  TypeInv'
  BY <1>3, ResetsTyped DEF UnitOpen, TypeInv, TypeOK
<1>4. ASSUME Finish
      PROVE  TypeInv'
  BY <1>4, ResetsTyped DEF Finish, TypeInv, TypeOK
<1>5. ASSUME DetectFork
      PROVE  TypeInv'
  BY <1>5, ResetsTyped DEF DetectFork, TypeInv, TypeOK
<1>6. ASSUME Fork
      PROVE  TypeInv'
  BY <1>6 DEF Fork, TypeInv, TypeOK, InFlight
<1>7. ASSUME Bailout
      PROVE  TypeInv'
  <2>1. \A c \in mine : calls[c] \in Token
    BY DEF TypeInv, TypeOK, InFlight
  <2>2. orphans' \subseteq Slots
    BY <1>7, <2>1 DEF Bailout, TypeInv, TypeOK, Token
  <2>3. age' \in [Callers -> 0 .. MaxAge]
    BY <1>7, OpsAssumption DEF Bailout
  <2>4. QED
    BY <1>7, <2>2, <2>3 DEF Bailout, TypeInv, TypeOK
<1>8. ASSUME RShutdown
      PROVE  TypeInv'
  BY <1>8, ResetsTyped DEF RShutdown, TypeInv, TypeOK
<1>9. ASSUME Tick
      PROVE  TypeInv'
  BY <1>9, OpsAssumption DEF Tick, TypeInv, TypeOK, InFlight, Times
<1>10. ASSUME UNCHANGED vars
       PROVE  TypeInv'
  BY <1>10 DEF vars, TypeInv, TypeOK, InFlight
<1>11. QED
  BY <1>1, <1>2, <1>3, <1>4, <1>5, <1>6, <1>7, <1>8, <1>9, <1>10 DEF Next

(* The initial state is in its type. *)
LEMMA TypeInit ==
    Init => TypeInv
<1> SUFFICES ASSUME Init
             PROVE  TypeInv
  OBVIOUS
<1>1. ZeroAgg \in [OpTypes -> Agg]
  BY OpsAssumption DEF ZeroAgg, Agg, Times
<1>2. ZeroStack \in [Slots -> Frame]
  BY OpsAssumption DEF ZeroStack, Frame, Times
<1>3. 0 \in Generations /\ 0 \in 0 .. StackMax
  BY OpsAssumption DEF Generations
<1>4. ops \in OpState
  BY <1>1, <1>2, <1>3 DEF Init, OpState
<1>5. now \in Times /\ age \in [Callers -> 0 .. MaxAge]
  BY OpsAssumption DEF Init, Times
<1>6. QED
  BY <1>1, <1>4, <1>5 DEF Init, TypeInv, TypeOK

(* The state of the operation timer stays in its type under every sequence *)
(* of begins, ends, resets, forks and bailouts: the depth stays within the *)
(* stack and every slot written or released is a slot of the stack.        *)
THEOREM TypeCorrect ==
    Spec => []TypeOK
<1>1. TypeInv => TypeOK
  BY DEF TypeInv
<1>2. QED
  BY TypeInit, TypeStep, <1>1, PTL DEF Spec

-----------------------------------------------------------------------------
(* The inductive invariant *)

(* Only an open unit has calls of its own. *)
MineNeedsUnit == ~open => mine = {}

(* A token is as many generations behind as resets have passed, modulo the *)
(* width of the generation.                                                *)
TokenAge ==
    \A c \in InFlight :
        LET g == calls[c].generation + age[c]
        IN  g = ops.generation \/ g = ops.generation + GenModulus

(* While a unit is open, its own calls are those that saw no reset. *)
MineAreFresh ==
    open => \A c \in InFlight : c \in mine <=> age[c] = 0

(* A call in flight does not share its slot with a leaked one. *)
OrphansApart == \A c \in Slotted : calls[c].slot \notin orphans

(* No frame begins in the future. *)
ClockAhead == \A i \in Slots : ops.stack[i].start_ns <= now

(* The conjuncts about tokens and units. *)
TokenInv == MineNeedsUnit /\ TokenAge /\ MineAreFresh

(* The conjuncts about slots. *)
SlotInv ==
    /\ SlotOwnership
    /\ SlotAccounting
    /\ OrphansApart
    /\ StackInBeginOrder
    /\ ClockAhead

IInv == TypeInv /\ TokenInv /\ SlotInv /\ AggregatesAreThisUnitsCalls

-----------------------------------------------------------------------------
(* What the operators of ops.c do to the slots *)

(* cbox_ops_end releases exactly the token's slot, however far it trims.   *)
LEMMA ReleasedEffect ==
    ASSUME NEW s \in OpState, NEW tok \in Token, tok.slot # NoSlot
    PROVE  LET r == Released(s, tok)
           IN  /\ r.agg = s.agg /\ r.generation = s.generation
               /\ \A i \in Slots : i # tok.slot => r.stack[i] = s.stack[i]
               /\ \A i \in Slots : r.stack[i].start_ns = s.stack[i].start_ns
               /\ \A i \in Slots :
                     (i < r.depth /\ r.stack[i].type # None)
                     <=> (i # tok.slot /\ i < s.depth /\ s.stack[i].type # None)
<1> DEFINE stack == [s.stack EXCEPT ![tok.slot].type = None]
<1> DEFINE r == Released(s, tok)
<1>1. r = [s EXCEPT !.stack = stack, !.depth = Top(stack, s.depth)]
  BY DEF Released, FreedSlot, Trimmed
<1>2. r.agg = s.agg /\ r.generation = s.generation /\ r.stack = stack
      /\ r.depth = Top(stack, s.depth)
  BY <1>1 DEF OpState
<1>3. /\ tok.slot \in Slots
      /\ stack[tok.slot].type = None
      /\ \A i \in Slots : i # tok.slot => stack[i] = s.stack[i]
      /\ \A i \in Slots : stack[i].start_ns = s.stack[i].start_ns
  BY DEF OpState, Frame, Token
<1>4. s.depth \in Nat /\ s.depth <= StackMax
  BY OpsAssumption DEF OpState
<1> HIDE DEF stack
<1>5. /\ Top(stack, s.depth) \in 0 .. s.depth
      /\ \A j \in Top(stack, s.depth) .. s.depth - 1 : stack[j].type = None
  BY <1>4, TopLemma
<1>6. \A i \in Slots : i < s.depth /\ stack[i].type # None => i < Top(stack, s.depth)
  BY <1>4, <1>5 DEF Slots
<1>7. ASSUME NEW i \in Slots
      PROVE  (i < r.depth /\ r.stack[i].type # None)
             <=> (i # tok.slot /\ i < s.depth /\ s.stack[i].type # None)
  <2>1. i < Top(stack, s.depth) => i < s.depth
    BY <1>4, <1>5, OpsAssumption DEF Slots
  <2>2. QED
    BY <1>2, <1>3, <1>6, <2>1
<1> HIDE DEF r
<1>8. QED
  BY <1>2, <1>3, <1>7 DEF r

(* cbox_ops_begin books nothing and marks the token with the generation. *)
LEMMA BeginKeeps ==
    ASSUME NEW s, NEW t, NEW ns, s \in OpState
    PROVE  /\ BeginState(s, t, ns).agg = s.agg
           /\ BeginState(s, t, ns).generation = s.generation
           /\ BeginToken(s, t, ns).type = t
           /\ BeginToken(s, t, ns).start_ns = ns
           /\ BeginToken(s, t, ns).generation = s.generation
  BY DEF BeginState, BeginToken, OpState

(* cbox_ops_begin takes the slot at the depth, or none. *)
LEMMA BeginEffect ==
    ASSUME NEW s, NEW t, NEW ns, s \in OpState
    PROVE  /\ HasRoom(s) =>
                 /\ s.depth \in Slots
                 /\ BeginToken(s, t, ns).slot = s.depth
                 /\ BeginState(s, t, ns).depth = s.depth + 1
                 /\ BeginState(s, t, ns).stack =
                       [s.stack EXCEPT ![s.depth] = [type |-> t, start_ns |-> ns]]
           /\ ~HasRoom(s) =>
                 /\ BeginToken(s, t, ns).slot = NoSlot
                 /\ BeginState(s, t, ns).depth = s.depth
                 /\ BeginState(s, t, ns).stack = s.stack
<1>1. s.depth \in 0 .. StackMax /\ s.stack \in [Slots -> Frame]
  BY DEF OpState
<1>2. HasRoom(s) => s.depth \in Slots
  BY <1>1, OpsAssumption DEF HasRoom, Slots
<1>3. QED
  BY <1>1, <1>2 DEF BeginState, BeginToken, FreeSlot, OpState

(* A reset leaves no slot occupied and nothing booked. *)
LEMMA ResetsEffect ==
    ASSUME TypeInv, NEW n \in {1, 2}, Resets(n)
    PROVE  /\ ops'.depth = 0 /\ ops'.agg = ZeroAgg /\ ops'.stack = ZeroStack
           /\ ops'.generation = IF n = 2 THEN NextGeneration(NextGeneration(ops.generation))
                                ELSE NextGeneration(ops.generation)
  BY DEF Resets, OpsReset, ResetGeneration

(* A token carries the current generation exactly when no reset has passed *)
(* since: the wrap of the generation brings no old token back to life.     *)
LEMMA SameGenerationIsFresh ==
    ASSUME TypeInv, TokenAge, NEW c \in InFlight
    PROVE  SameGeneration(ops, calls[c]) <=> age[c] = 0
<1>1. calls[c] \in Token
  BY DEF TypeInv, TypeOK, InFlight
<1>2. calls[c].generation \in 0 .. GenModulus - 1 /\ ops.generation \in 0 .. GenModulus - 1
  BY <1>1 DEF Token, TypeInv, TypeOK, OpState, Generations
<1>3. age[c] \in 0 .. MaxAge
  BY DEF TypeInv, TypeOK, InFlight
<1>4. QED
  BY <1>2, <1>3, OpsAssumption DEF TokenAge, SameGeneration

-----------------------------------------------------------------------------
(* The steps *)

(* Resets age every token in flight by as much as they move the generation. *)
LEMMA ResetsAgeTokens ==
    ASSUME TypeInv, TokenAge, NEW n \in {1, 2}, Resets(n), calls' = calls
    PROVE  /\ TokenAge'
           /\ \A c \in InFlight' : age'[c] # 0
<1> SUFFICES ASSUME NEW c \in InFlight'
             PROVE  /\ \/ calls'[c].generation + age'[c] = ops'.generation
                       \/ calls'[c].generation + age'[c] = ops'.generation + GenModulus
                    /\ age'[c] # 0
  BY DEF TokenAge
<1>1. c \in InFlight /\ c \in Callers /\ calls[c] # NoCall /\ calls[c] \in Token
  BY DEF InFlight, TypeInv, TypeOK
<1>2. /\ calls[c].generation \in 0 .. GenModulus - 1
      /\ ops.generation \in 0 .. GenModulus - 1
  BY <1>1 DEF Token, TypeInv, TypeOK, OpState, Generations
<1>3. age[c] \in 0 .. MaxAge /\ age[c] + n <= MaxAge /\ age'[c] = age[c] + n
  BY <1>1 DEF TypeInv, TypeOK, Resets
<1>4. \/ calls[c].generation + age[c] = ops.generation
      \/ calls[c].generation + age[c] = ops.generation + GenModulus
  BY <1>1 DEF TokenAge
<1>5. ops'.generation = IF n = 2 THEN NextGeneration(NextGeneration(ops.generation))
                        ELSE NextGeneration(ops.generation)
  BY ResetsEffect
<1>6. QED
  BY <1>2, <1>3, <1>4, <1>5, OpsAssumption DEF NextGeneration

(* Every step keeps the tokens and the units apart. *)
LEMMA TokenStep ==
    TypeInv /\ TypeInv' /\ TokenInv /\ [Next]_vars => TokenInv'
<1> SUFFICES ASSUME TypeInv, TypeInv', TokenInv, [Next]_vars
             PROVE  TokenInv'
  OBVIOUS
<1>1. ASSUME NEW c \in Callers, NEW t \in OpTypes, NoteOpBegin(c, t)
      PROVE  TokenInv'
  <2>1. /\ \A d \in Callers \ {c} : calls'[d] = calls[d] /\ age'[d] = age[d]
        /\ age'[c] = 0
        /\ InFlight' \subseteq InFlight \cup {c}
    BY <1>1 DEF NoteOpBegin, TypeInv, TypeOK, InFlight
  <2>2. ops \in OpState /\ now \in Times
    BY DEF TypeInv, TypeOK
  <2>3. /\ BeginState(ops, t, now).generation = ops.generation
        /\ BeginToken(ops, t, now).generation = ops.generation
    BY <2>2, BeginKeeps
  <2>4. ops'.generation = ops.generation /\ calls'[c].generation = ops.generation
    BY <1>1, <2>3 DEF NoteOpBegin, TypeInv, TypeOK
  <2>5. ops.generation \in Nat
    BY DEF TypeInv, TypeOK, OpState, Generations
  <2>6. TokenAge'
    <3> SUFFICES ASSUME NEW d \in InFlight'
                 PROVE  \/ calls'[d].generation + age'[d] = ops'.generation
                        \/ calls'[d].generation + age'[d] = ops'.generation + GenModulus
      BY DEF TokenAge
    <3>1. CASE d = c
      BY <3>1, <2>1, <2>4, <2>5
    <3>2. CASE d # c
      <4>1. d \in InFlight /\ d \in Callers \ {c}
        BY <3>2, <2>1 DEF InFlight
      <4>2. QED
        BY <4>1, <2>1, <2>4 DEF TokenInv, TokenAge
    <3>3. QED
      BY <3>1, <3>2
  <2>7. MineNeedsUnit'
    BY <1>1 DEF NoteOpBegin, TokenInv, MineNeedsUnit
  <2>8. MineAreFresh'
    <3> SUFFICES ASSUME open', NEW d \in InFlight'
                 PROVE  d \in mine' <=> age'[d] = 0
      BY DEF MineAreFresh
    <3>1. open /\ mine' = mine \cup {c}
      BY <1>1 DEF NoteOpBegin
    <3>2. CASE d = c
      BY <3>1, <3>2, <2>1
    <3>3. CASE d # c
      BY <3>1, <3>3, <2>1 DEF TokenInv, MineAreFresh, InFlight
    <3>4. QED
      BY <3>2, <3>3
  <2>9. QED
    BY <2>6, <2>7, <2>8 DEF TokenInv
<1>2. ASSUME NEW c \in Callers, NoteOpEnd(c)
      PROVE  TokenInv'
  <2>1. /\ \A d \in Callers \ {c} : calls'[d] = calls[d] /\ age'[d] = age[d]
        /\ InFlight' = InFlight \ {c}
    BY <1>2 DEF NoteOpEnd, TypeInv, TypeOK, InFlight
  <2>2. ops'.generation = ops.generation
    <3>1. ops \in OpState /\ calls[c] \in Token
      BY <1>2 DEF NoteOpEnd, TypeInv, TypeOK
    <3>2. EndState(ops, calls[c], now).generation = ops.generation
      BY <3>1, ReleasedEffect, ReleasedTyped DEF EndState, OpState
    <3>3. QED
      BY <1>2, <3>2 DEF NoteOpEnd
  <2>3. TokenAge'
    BY <2>1, <2>2 DEF TokenInv, TokenAge, InFlight
  <2>4. MineNeedsUnit' /\ MineAreFresh'
    BY <1>2, <2>1 DEF NoteOpEnd, TokenInv, MineNeedsUnit, MineAreFresh, InFlight
  <2>5. QED
    BY <2>3, <2>4 DEF TokenInv
<1>3. ASSUME NEW n \in {1, 2}, Resets(n), calls' = calls
      PROVE  TokenInv'
  <2>1. mine' = {}
    BY <1>3 DEF Resets
  <2>2. TokenAge' /\ \A c \in InFlight' : age'[c] # 0
    BY <1>3, ResetsAgeTokens DEF TokenInv
  <2>3. QED
    BY <2>1, <2>2 DEF TokenInv, MineNeedsUnit, MineAreFresh
<1>4. ASSUME UnitOpen \/ Finish \/ DetectFork \/ RShutdown
      PROVE  TokenInv'
  BY <1>3, <1>4 DEF UnitOpen, Finish, DetectFork, RShutdown
<1>5. ASSUME Fork \/ Tick \/ UNCHANGED vars
      PROVE  TokenInv'
  BY <1>5 DEF Fork, Tick, vars, TokenInv, MineNeedsUnit, TokenAge, MineAreFresh, InFlight
<1>6. ASSUME Bailout
      PROVE  TokenInv'
  <2>1. InFlight' = {} /\ mine' = {}
    BY <1>6 DEF Bailout, InFlight
  <2>2. QED
    BY <2>1 DEF TokenInv, MineNeedsUnit, TokenAge, MineAreFresh
<1>7. QED
  BY <1>1, <1>2, <1>4, <1>5, <1>6 DEF Next

(* A begin that finds room: the new call owns the topmost slot. *)
LEMMA BeginWithSlot ==
    ASSUME TypeInv, TypeInv', SlotInv,
           NEW c \in Callers, NEW t \in OpTypes, NoteOpBegin(c, t), open, HasRoom(ops)
    PROVE  SlotInv'
<1> DEFINE k == ops.depth
<1>1. /\ ops \in OpState /\ now \in Times /\ calls \in [Callers -> Token \cup {NoCall}]
      /\ mine \subseteq InFlight /\ mine \subseteq Callers /\ orphans \subseteq Slots
  BY DEF TypeInv, TypeOK
<1>2. /\ k \in Slots
      /\ ops'.depth = k + 1
      /\ ops'.stack = [ops.stack EXCEPT ![k] = [type |-> t, start_ns |-> now]]
      /\ calls'[c].slot = k
  BY <1>1, BeginEffect DEF NoteOpBegin
<1>3. calls'[c].type = t /\ calls'[c].start_ns = now
  BY <1>1, BeginKeeps DEF NoteOpBegin
<1>4. /\ c \notin mine /\ mine' = mine \cup {c}
      /\ \A d \in Callers \ {c} : calls'[d] = calls[d]
      /\ orphans' = orphans /\ now' = now
  BY <1>1 DEF NoteOpBegin, InFlight
<1>5. /\ Slotted' = Slotted \cup {c} /\ c \notin Slotted
      /\ \A d \in Slotted : d \in Callers \ {c} /\ calls'[d] = calls[d]
  BY <1>1, <1>2, <1>4, OpsAssumption DEF Slotted, NoSlot, Slots
<1>6. /\ ops'.stack[k] = [type |-> t, start_ns |-> now]
      /\ \A i \in Slots : i # k => ops'.stack[i] = ops.stack[i]
      /\ ops.stack \in [Slots -> Frame] /\ k \in Nat
  BY <1>1, <1>2, OpsAssumption DEF OpState, Slots
<1>7. \A i \in Slots : i < k + 1 <=> i < k \/ i = k
  BY <1>6 DEF Slots
<1>8. \A i \in Slots : Occupied(i)' <=> Occupied(i) \/ i = k
  BY <1>2, <1>6, <1>7, OpsAssumption DEF Occupied
<1>9. \A d \in Slotted : calls[d].slot \in Slots /\ calls[d].slot < k
  BY <1>1 DEF SlotInv, SlotOwnership, Slotted, InFlight, Token
<1>10. k \notin orphans
  <2>1. ~Occupied(k)
    BY <1>6 DEF Occupied
  <2>2. QED
    BY <1>2, <2>1 DEF SlotInv, SlotAccounting
<1> HIDE DEF k
<1>11. SlotOwnership'
  <2>1. ASSUME NEW d \in Slotted'
        PROVE  /\ calls'[d].slot < ops'.depth
               /\ ops'.stack[calls'[d].slot].type = calls'[d].type
               /\ ops'.stack[calls'[d].slot].start_ns = calls'[d].start_ns
    <3>1. CASE d = c
      BY <3>1, <1>2, <1>3, <1>6
    <3>2. CASE d \in Slotted
      <4>1. calls'[d] = calls[d] /\ calls[d].slot \in Slots /\ calls[d].slot < k
        BY <3>2, <1>5, <1>9
      <4>2. calls[d].slot # k /\ calls[d].slot < k + 1
        BY <4>1, <1>6 DEF Slots
      <4>3. QED
        BY <3>2, <4>1, <4>2, <1>2, <1>6 DEF SlotInv, SlotOwnership
    <3>3. QED
      BY <3>1, <3>2, <1>5
  <2>2. ASSUME NEW d \in Slotted', NEW e \in Slotted', d # e
        PROVE  calls'[d].slot # calls'[e].slot
    <3>1. \A x \in Slotted : calls'[x].slot # k
      BY <1>5, <1>6, <1>9 DEF Slots
    <3>2. CASE d = c \/ e = c
      BY <2>2, <3>1, <3>2, <1>2, <1>5
    <3>3. CASE d \in Slotted /\ e \in Slotted
      BY <2>2, <3>3, <1>5 DEF SlotInv, SlotOwnership
    <3>4. QED
      BY <3>2, <3>3, <1>5
  <2>3. QED
    BY <2>1, <2>2 DEF SlotOwnership
<1>12. SlotAccounting'
  <2> SUFFICES ASSUME NEW i \in Slots
               PROVE  Occupied(i)' <=> \/ i \in orphans'
                                      \/ \E d \in Slotted' : calls'[d].slot = i
    BY DEF SlotAccounting
  <2>1. (\E d \in Slotted' : calls'[d].slot = i)
        <=> i = k \/ \E d \in Slotted : calls[d].slot = i
    BY <1>2, <1>5
  <2>2. QED
    BY <1>4, <1>8, <2>1 DEF SlotInv, SlotAccounting
<1>13. OrphansApart'
  BY <1>2, <1>4, <1>5, <1>10 DEF SlotInv, OrphansApart
<1>14. ClockAhead'
  BY <1>1, <1>4, <1>6 DEF SlotInv, ClockAhead, Times
<1>15. StackInBeginOrder'
  <2> SUFFICES ASSUME NEW i \in Slots, NEW j \in Slots, i < j, Occupied(i)', Occupied(j)'
               PROVE  ops'.stack[i].start_ns <= ops'.stack[j].start_ns
    BY DEF StackInBeginOrder
  <2>1. i # k /\ Occupied(i)
    <3>1. j < k + 1
      BY <1>2 DEF Occupied
    <3>2. i < k
      BY <3>1, <1>6 DEF Slots
    <3>3. QED
      BY <3>2, <1>6, <1>8 DEF Slots
  <2>2. CASE j = k
    BY <2>1, <2>2, <1>6 DEF SlotInv, ClockAhead
  <2>3. CASE j # k
    BY <2>1, <2>3, <1>6, <1>8 DEF SlotInv, StackInBeginOrder
  <2>4. QED
    BY <2>2, <2>3
<1>16. QED
  BY <1>11, <1>12, <1>13, <1>14, <1>15 DEF SlotInv

(* A step that touches neither a slot nor a call that has one. *)
LEMMA SlotsUntouched ==
    ASSUME TypeInv, SlotInv, now \in Int, now' \in Int, now <= now',
           ops'.stack = ops.stack, ops'.depth = ops.depth, orphans' = orphans,
           Slotted' = Slotted, \A d \in Slotted : calls'[d] = calls[d]
    PROVE  SlotInv'
<1>1. \A i \in Slots : Occupied(i)' <=> Occupied(i)
  BY DEF Occupied
<1>2. SlotOwnership'
  BY DEF SlotInv, SlotOwnership
<1>3. SlotAccounting'
  BY <1>1 DEF SlotInv, SlotAccounting
<1>4. OrphansApart'
  BY DEF SlotInv, OrphansApart
<1>5. StackInBeginOrder'
  BY <1>1 DEF SlotInv, StackInBeginOrder
<1>6. ClockAhead'
  <2>1. \A i \in Slots : ops.stack[i].start_ns \in Int
    BY DEF TypeInv, TypeOK, OpState, Frame, Times
  <2>2. QED
    BY <2>1 DEF SlotInv, ClockAhead
<1>7. QED
  BY <1>2, <1>3, <1>4, <1>5, <1>6 DEF SlotInv

(* An end of a call that has a slot: exactly that slot is released. *)
LEMMA EndWithSlot ==
    ASSUME TypeInv, TypeInv', SlotInv,
           NEW c \in Slotted, NoteOpEnd(c), open, SameGeneration(ops, calls[c])
    PROVE  SlotInv'
<1> DEFINE k == calls[c].slot
<1> DEFINE r == Released(ops, calls[c])
<1>1. /\ ops \in OpState /\ now \in Times /\ calls \in [Callers -> Token \cup {NoCall}]
      /\ mine \subseteq InFlight /\ mine \subseteq Callers
  BY DEF TypeInv, TypeOK
<1>2. c \in mine /\ c \in Callers /\ calls[c] \in Token /\ k # NoSlot /\ k \in Slots
  BY <1>1 DEF Slotted, InFlight, Token
<1>3. r \in OpState
  BY <1>1, <1>2, ReleasedTyped
<1>4. ops'.stack = r.stack /\ ops'.depth = r.depth
  BY <1>2, <1>3 DEF NoteOpEnd, EndState, OpState
<1>5. /\ \A i \in Slots : i # k => r.stack[i] = ops.stack[i]
      /\ \A i \in Slots : r.stack[i].start_ns = ops.stack[i].start_ns
      /\ \A i \in Slots : (i < r.depth /\ r.stack[i].type # None)
                           <=> (i # k /\ i < ops.depth /\ ops.stack[i].type # None)
  BY <1>1, <1>2, ReleasedEffect
<1>6. /\ Slotted' = Slotted \ {c}
      /\ \A d \in Slotted \ {c} : calls'[d] = calls[d]
      /\ orphans' = orphans /\ now' = now
  BY <1>1, <1>2 DEF NoteOpEnd, Slotted
<1>7. \A i \in Slots : Occupied(i)' <=> Occupied(i) /\ i # k
  BY <1>4, <1>5 DEF Occupied
<1>8. \A d \in Slotted \ {c} : calls[d].slot \in Slots /\ calls[d].slot # k
  BY <1>1 DEF SlotInv, SlotOwnership, Slotted, InFlight, Token
<1>9. \A d \in Slotted : Occupied(calls[d].slot)
  <2> SUFFICES ASSUME NEW d \in Slotted
               PROVE  Occupied(calls[d].slot)
    OBVIOUS
  <2>1. calls[d] \in Token
    BY <1>1 DEF Slotted, InFlight
  <2>2. calls[d].type # None
    BY <2>1, OpsAssumption DEF Token
  <2>3. QED
    BY <2>2 DEF SlotInv, SlotOwnership, Occupied
<1> HIDE DEF k, r
<1>10. SlotOwnership'
  <2>1. ASSUME NEW d \in Slotted \ {c}
        PROVE  /\ calls'[d].slot < ops'.depth
               /\ ops'.stack[calls'[d].slot] = ops.stack[calls[d].slot]
    <3>1. calls'[d] = calls[d] /\ Occupied(calls[d].slot)'
      BY <1>6, <1>7, <1>8, <1>9
    <3>2. QED
      BY <3>1, <1>4, <1>5, <1>8 DEF Occupied
  <2>2. QED
    BY <2>1, <1>6 DEF SlotInv, SlotOwnership
<1>11. SlotAccounting'
  <2> SUFFICES ASSUME NEW i \in Slots
               PROVE  Occupied(i)' <=> \/ i \in orphans'
                                      \/ \E d \in Slotted' : calls'[d].slot = i
    BY DEF SlotAccounting
  <2>1. (\E d \in Slotted' : calls'[d].slot = i)
        <=> \E d \in Slotted \ {c} : calls[d].slot = i
    BY <1>6
  <2>2. (\E d \in Slotted \ {c} : calls[d].slot = i)
        <=> i # k /\ \E d \in Slotted : calls[d].slot = i
    BY <1>8 DEF k
  <2>3. k \notin orphans
    BY DEF SlotInv, OrphansApart, k
  <2>4. QED
    BY <2>1, <2>2, <2>3, <1>6, <1>7 DEF SlotInv, SlotAccounting
<1>12. OrphansApart'
  BY <1>6 DEF SlotInv, OrphansApart
<1>13. StackInBeginOrder'
  BY <1>4, <1>5, <1>7 DEF SlotInv, StackInBeginOrder
<1>14. ClockAhead'
  BY <1>4, <1>5, <1>6 DEF SlotInv, ClockAhead
<1>15. QED
  BY <1>10, <1>11, <1>12, <1>13, <1>14 DEF SlotInv

(* cbox_telemetry_note_op_end sees the current generation exactly for the  *)
(* calls of the open unit.                                                 *)
LEMMA EndOfMine ==
    ASSUME TypeInv, TokenInv, NEW c \in Callers, NoteOpEnd(c)
    PROVE  /\ c \in mine <=> open /\ SameGeneration(ops, calls[c])
           /\ c \notin mine => ops' = ops
           /\ c \in mine => /\ ops' = EndState(ops, calls[c], now)
                            /\ SameGeneration(ops, calls[c])
<1>1. c \in InFlight
  BY DEF NoteOpEnd, InFlight
<1>2. SameGeneration(ops, calls[c]) <=> age[c] = 0
  BY <1>1, SameGenerationIsFresh DEF TokenInv
<1>3. c \in mine <=> open /\ SameGeneration(ops, calls[c])
  BY <1>1, <1>2 DEF TokenInv, MineAreFresh, MineNeedsUnit
<1>4. QED
  BY <1>3 DEF NoteOpEnd, EndState

(* Every step keeps the slots in order. *)
LEMMA SlotStep ==
    TypeInv /\ TypeInv' /\ TokenInv /\ SlotInv /\ [Next]_vars => SlotInv'
<1> SUFFICES ASSUME TypeInv, TypeInv', TokenInv, SlotInv, [Next]_vars
             PROVE  SlotInv'
  OBVIOUS
<1>1. /\ ops \in OpState /\ now \in Times /\ calls \in [Callers -> Token \cup {NoCall}]
      /\ mine \subseteq InFlight /\ mine \subseteq Callers /\ orphans \subseteq Slots
      /\ now \in Int /\ now' \in Int
  BY DEF TypeInv, TypeOK, Times
<1>2. ASSUME NEW c \in Callers, NEW t \in OpTypes, NoteOpBegin(c, t)
      PROVE  SlotInv'
  <2>1. CASE open /\ HasRoom(ops)
    BY <1>2, <2>1, BeginWithSlot
  <2>2. CASE ~(open /\ HasRoom(ops))
    <3>1. /\ ops'.stack = ops.stack /\ ops'.depth = ops.depth
          /\ open => calls'[c].slot = NoSlot
      <4>1. CASE open
        <5>1. /\ ops' = BeginState(ops, t, now)
              /\ calls'[c] = BeginToken(ops, t, now)
          BY <1>1, <1>2, <4>1 DEF NoteOpBegin
        <5>2. ~HasRoom(ops) /\ ops \in OpState
          BY <1>1, <2>2, <4>1
        <5>3. /\ BeginToken(ops, t, now).slot = NoSlot
              /\ BeginState(ops, t, now).depth = ops.depth
              /\ BeginState(ops, t, now).stack = ops.stack
          BY <5>2 DEF BeginToken, BeginState, OpState
        <5>4. QED
          BY <5>1, <5>3
      <4>2. CASE ~open
        BY <1>2, <4>2 DEF NoteOpBegin
      <4>3. QED
        BY <4>1, <4>2
    <3>2. /\ c \notin mine
          /\ \A d \in mine : calls'[d] = calls[d]
          /\ mine' = IF open THEN mine \cup {c} ELSE mine
      BY <1>1, <1>2 DEF NoteOpBegin, InFlight
    <3>3. Slotted' = Slotted /\ \A d \in Slotted : calls'[d] = calls[d]
      BY <3>1, <3>2 DEF Slotted
    <3>4. now' = now /\ orphans' = orphans
      BY <1>2 DEF NoteOpBegin
    <3>5. QED
      BY <1>1, <3>1, <3>3, <3>4, SlotsUntouched
  <2>3. QED
    BY <2>1, <2>2
<1>3. ASSUME NEW c \in Callers, NoteOpEnd(c)
      PROVE  SlotInv'
  <2>1. CASE c \in Slotted
    BY <1>3, <2>1, EndOfMine, EndWithSlot DEF Slotted
  <2>2. CASE c \notin Slotted
    <3>1. calls[c] \in Token
      BY <1>1, <1>3 DEF NoteOpEnd
    <3>2. ops'.stack = ops.stack /\ ops'.depth = ops.depth
      <4>1. CASE c \notin mine
        BY <1>3, <4>1, EndOfMine
      <4>2. CASE c \in mine
        <5>1. calls[c].slot = NoSlot
          BY <2>2, <4>2 DEF Slotted
        <5>2. QED
          BY <1>1, <1>3, <4>2, <5>1, EndOfMine DEF EndState, OpState
      <4>3. QED
        BY <4>1, <4>2
    <3>3. Slotted' = Slotted /\ \A d \in Slotted : calls'[d] = calls[d]
      BY <1>1, <1>3, <2>2 DEF NoteOpEnd, Slotted
    <3>4. now' = now /\ orphans' = orphans
      BY <1>3 DEF NoteOpEnd
    <3>5. QED
      BY <1>1, <3>2, <3>3, <3>4, SlotsUntouched
  <2>3. QED
    BY <2>1, <2>2
<1>4. ASSUME NEW n \in {1, 2}, Resets(n)
      PROVE  SlotInv'
  <2>1. ops'.depth = 0 /\ ops'.stack = ZeroStack
    BY <1>4, ResetsEffect
  <2>2. Slotted' = {} /\ orphans' = {}
    BY <1>4 DEF Resets, Slotted
  <2>3. \A i \in Slots : ~Occupied(i)'
    BY <2>1, OpsAssumption DEF Occupied, Slots
  <2>4. ClockAhead'
    <3>1. now' \in Times
      BY DEF TypeInv, TypeOK
    <3>2. QED
      BY <2>1, <3>1 DEF ClockAhead, ZeroStack, Times
  <2>5. QED
    BY <2>2, <2>3, <2>4
    DEF SlotInv, SlotOwnership, SlotAccounting, OrphansApart, StackInBeginOrder
<1>5. ASSUME UnitOpen \/ Finish \/ DetectFork \/ RShutdown
      PROVE  SlotInv'
  BY <1>4, <1>5 DEF UnitOpen, Finish, DetectFork, RShutdown
<1>6. ASSUME Fork \/ Tick \/ UNCHANGED vars
      PROVE  SlotInv'
  <2>1. /\ ops' = ops /\ orphans' = orphans /\ calls' = calls /\ mine' = mine
        /\ now' = now \/ now' = now + 1
    BY <1>6 DEF Fork, Tick, vars
  <2>2. Slotted' = Slotted
    BY <2>1 DEF Slotted
  <2>3. QED
    BY <1>1, <2>1, <2>2, SlotsUntouched
<1>7. ASSUME Bailout
      PROVE  SlotInv'
  <2>1. /\ ops' = ops /\ now' = now /\ Slotted' = {}
        /\ orphans' = orphans \cup {calls[d].slot : d \in Slotted}
    BY <1>7 DEF Bailout, Slotted
  <2>2. \A i \in Slots : Occupied(i)' <=> Occupied(i)
    BY <2>1 DEF Occupied
  <2>3. SlotAccounting'
    BY <2>1, <2>2 DEF SlotInv, SlotAccounting
  <2>4. StackInBeginOrder' /\ ClockAhead'
    BY <2>1, <2>2 DEF SlotInv, StackInBeginOrder, ClockAhead
  <2>5. QED
    BY <2>1, <2>3, <2>4 DEF SlotInv, SlotOwnership, OrphansApart
<1>8. QED
  BY <1>2, <1>3, <1>5, <1>6, <1>7 DEF Next

(* Every step books what the ideal observer books. *)
LEMMA AggregateStep ==
    TypeInv /\ TokenInv /\ AggregatesAreThisUnitsCalls /\ [Next]_vars
        => AggregatesAreThisUnitsCalls'
<1> SUFFICES ASSUME TypeInv, TokenInv, AggregatesAreThisUnitsCalls, [Next]_vars
             PROVE  AggregatesAreThisUnitsCalls'
  OBVIOUS
<1> USE DEF AggregatesAreThisUnitsCalls
<1>1. ASSUME NEW c \in Callers, NEW t \in OpTypes, NoteOpBegin(c, t)
      PROVE  ops'.agg = measured'
  BY <1>1, BeginKeeps DEF NoteOpBegin, TypeInv, TypeOK
<1>2. ASSUME NEW c \in Callers, NoteOpEnd(c)
      PROVE  ops'.agg = measured'
  <2>1. CASE c \notin mine
    BY <1>2, <2>1, EndOfMine DEF NoteOpEnd
  <2>2. CASE c \in mine
    <3>1. calls[c] \in Token /\ ops \in OpState
      BY <1>2 DEF NoteOpEnd, TypeInv, TypeOK
    <3>2. EndState(ops, calls[c], now).agg = Booked(ops.agg, calls[c], now)
      BY <1>2, <2>2, <3>1, EndOfMine, ReleasedTyped DEF EndState, OpState
    <3>3. QED
      BY <1>2, <2>2, <3>2, EndOfMine DEF NoteOpEnd
  <2>3. QED
    BY <2>1, <2>2
<1>3. ASSUME NEW n \in {1, 2}, Resets(n)
      PROVE  ops'.agg = measured'
  BY <1>3, ResetsEffect DEF Resets
<1>4. ASSUME UnitOpen \/ Finish \/ DetectFork \/ RShutdown
      PROVE  ops'.agg = measured'
  BY <1>3, <1>4 DEF UnitOpen, Finish, DetectFork, RShutdown
<1>5. ASSUME Fork \/ Tick \/ Bailout \/ UNCHANGED vars
      PROVE  ops'.agg = measured'
  BY <1>5 DEF Fork, Tick, Bailout, vars
<1>6. QED
  BY <1>1, <1>2, <1>4, <1>5 DEF Next

-----------------------------------------------------------------------------
(* The results *)

(* The inductive invariant holds in the initial state. *)
LEMMA InvariantInit ==
    Init => IInv
<1> SUFFICES ASSUME Init
             PROVE  IInv
  OBVIOUS
<1>1. TypeInv
  BY TypeInit
<1>2. InFlight = {} /\ Slotted = {}
  BY DEF Init, InFlight, Slotted
<1>3. TokenInv
  BY <1>2 DEF Init, TokenInv, MineNeedsUnit, TokenAge, MineAreFresh
<1>4. \A i \in Slots : ~Occupied(i)
  BY OpsAssumption DEF Init, Occupied, Slots
<1>5. ClockAhead
  BY DEF Init, ClockAhead, ZeroStack
<1>6. SlotInv
  BY <1>2, <1>4, <1>5
  DEF Init, SlotInv, SlotOwnership, SlotAccounting, OrphansApart, StackInBeginOrder
<1>7. AggregatesAreThisUnitsCalls
  BY DEF Init, AggregatesAreThisUnitsCalls
<1>8. QED
  BY <1>1, <1>3, <1>6, <1>7 DEF IInv

(* The invariant is inductive and holds throughout. *)
LEMMA InvariantHolds ==
    Spec => []IInv
<1>1. IInv /\ [Next]_vars => IInv'
  BY TypeStep, TokenStep, SlotStep, AggregateStep DEF IInv
<1>2. QED
  BY InvariantInit, <1>1, PTL DEF Spec

(* A call that got a slot owns it until it ends or its unit does, for any  *)
(* number of Fibers and any stack size: cbox_ops_end never frees a slot    *)
(* that now belongs to somebody else.                                      *)
THEOREM SlotsAreOwned ==
    Spec => []SlotOwnership
<1>1. IInv => SlotOwnership
  BY DEF IInv, SlotInv
<1>2. QED
  BY InvariantHolds, <1>1, PTL

(* No slot leaks: what occupies the stack is in flight, or was left behind *)
(* by a bailout of the same unit.                                          *)
THEOREM SlotsAreAccountedFor ==
    Spec => []SlotAccounting
<1>1. IInv => SlotAccounting
  BY DEF IInv, SlotInv
<1>2. QED
  BY InvariantHolds, <1>1, PTL

(* The aggregates are those of the open unit, for every width of the       *)
(* generation counter that exceeds the resets one call lives through: the  *)
(* wrap of the counter books no stale call.                                *)
THEOREM AggregatesAreExact ==
    Spec => []AggregatesAreThisUnitsCalls
<1>1. IInv => AggregatesAreThisUnitsCalls
  BY DEF IInv
<1>2. QED
  BY InvariantHolds, <1>1, PTL

(* Without a bailout the crash record names the innermost call in flight.  *)
LEMMA CurrentFromInvariant ==
    IInv => CurrentIsInnermost
<1> SUFFICES ASSUME IInv, orphans = {}
             PROVE  IF Slotted = {} THEN Current(ops) = None
                    ELSE \E c \in Slotted :
                            /\ calls[c].type = Current(ops)
                            /\ \A d \in Slotted : calls[d].start_ns <= calls[c].start_ns
  BY DEF CurrentIsInnermost
<1> DEFINE top == Top(ops.stack, ops.depth)
<1>1. /\ ops.depth \in Nat /\ ops.depth <= StackMax
      /\ \A d \in Slotted : calls[d] \in Token /\ calls[d].slot \in Slots
  BY OpsAssumption DEF IInv, TypeInv, TypeOK, OpState, Slotted, InFlight, Token
<1>2. /\ top \in 0 .. ops.depth
      /\ top > 0 => ops.stack[top - 1].type # None
      /\ \A j \in top .. ops.depth - 1 : ops.stack[j].type = None
  BY <1>1, TopLemma
<1>3. Current(ops) = IF top = 0 THEN None ELSE ops.stack[top - 1].type
  BY DEF Current
<1> HIDE DEF top
<1>4. ASSUME top # 0
      PROVE  \E c \in Slotted : calls[c].slot = top - 1
  <2>1. top - 1 \in Slots /\ Occupied(top - 1)
    BY <1>1, <1>2, <1>4, OpsAssumption DEF Slots, Occupied
  <2>2. QED
    BY <2>1 DEF IInv, SlotInv, SlotAccounting
<1>5. ASSUME NEW d \in Slotted
      PROVE  calls[d].slot < top /\ Occupied(calls[d].slot)
  <2>1. /\ calls[d].slot < ops.depth
        /\ ops.stack[calls[d].slot].type = calls[d].type
    BY <1>5 DEF IInv, SlotInv, SlotOwnership
  <2>2. calls[d].type # None /\ calls[d].slot \in Nat
    BY <1>1, <1>5, OpsAssumption DEF Token, Slots
  <2>3. QED
    BY <1>1, <1>2, <2>1, <2>2 DEF Occupied
<1>6. CASE Slotted = {}
  BY <1>3, <1>4, <1>6
<1>7. CASE Slotted # {}
  <2>1. top # 0
    BY <1>1, <1>5, <1>7 DEF Slots
  <2>2. PICK c \in Slotted : calls[c].slot = top - 1
    BY <1>4, <2>1
  <2>3. /\ calls[c].type = Current(ops)
        /\ calls[c].start_ns = ops.stack[top - 1].start_ns
    BY <1>3, <2>1, <2>2 DEF IInv, SlotInv, SlotOwnership
  <2>4. ASSUME NEW d \in Slotted
        PROVE  calls[d].start_ns <= calls[c].start_ns
    <3>1. CASE d = c
      BY <1>1, <3>1 DEF Token, Times
    <3>2. CASE d # c
      <4>1. calls[d].slot # calls[c].slot
        BY <3>2 DEF IInv, SlotInv, SlotOwnership
      <4>2. calls[d].slot < calls[c].slot
        BY <1>1, <1>2, <1>5, <2>2, <2>4, <4>1 DEF Slots
      <4>3. ops.stack[calls[d].slot].start_ns <= ops.stack[calls[c].slot].start_ns
        BY <1>1, <1>5, <4>2 DEF IInv, SlotInv, StackInBeginOrder
      <4>4. QED
        BY <4>3 DEF IInv, SlotInv, SlotOwnership
    <3>3. QED
      BY <3>1, <3>2
  <2>5. QED
    BY <1>7, <2>3, <2>4
<1>8. QED
  BY <1>6, <1>7

(* The operation a crash record names is the innermost one of the unit, in *)
(* whatever order Fibers have begun and ended theirs.                      *)
THEOREM CurrentOperation ==
    Spec => []CurrentIsInnermost
  BY InvariantHolds, CurrentFromInvariant, PTL
=============================================================================
