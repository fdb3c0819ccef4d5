---------------------------- MODULE SamplesProofs ----------------------------
(***************************************************************************)
(* Theorems about Samples and ProfileOutput, for every set of functions    *)
(* and stacks, all hash functions, and every capacity of the frame table,  *)
(* the trie, the arena, the walk and the list of top functions.            *)
(*                                                                         *)
(* The inductive invariant SamplesInv has four parts.  Tables: probing     *)
(* finds every entry (Hashed), which needs that an id is never preceded,   *)
(* from its hash on, by an empty bucket.  WalkInv: the node a collection   *)
(* has reached and the ids it still holds make up the path of its stack,   *)
(* or the engine frame or the marker is missing and it is known why.       *)
(* Conserved: recorded, dropped and pending weight is the weight given.    *)
(* ProfileOK: path by path the profile shows the samples taken.            *)
(*                                                                         *)
(* What follows first is not about the profiler: hash tables with linear   *)
(* probing, recursive functions over an initial segment of the naturals,   *)
(* and sums over finite sets, each with its induction as an argument about *)
(* a smallest counterexample.                                              *)
(***************************************************************************)
EXTENDS ProfileOutput, SequenceTheorems, FiniteSetTheorems, WellFoundedInduction, TLAPS

(* A non-empty set of natural numbers has a smallest element. *)
LEMMA LeastNatural ==
    ASSUME NEW T \in SUBSET Nat, T # {}
    PROVE  \E x \in T : \A y \in T : x <= y
<1>1. \E x \in T : \A y \in T : ~(<<y, x>> \in OpToRel(<, Nat))
  BY WFMin, NatLessThanWellFounded, Zenon
<1>2. PICK x \in T : \A y \in T : ~(<<y, x>> \in OpToRel(<, Nat))
  BY <1>1
<1>3. ASSUME NEW y \in T
      PROVE  x <= y
  <2>1. x \in Nat /\ y \in Nat
    OBVIOUS
  <2>2. ~(<<y, x>> \in OpToRel(<, Nat))
    BY <1>2
  <2>3. QED
    BY <2>1, <2>2 DEF OpToRel
<1>4. QED
  BY <1>3

-----------------------------------------------------------------------------
(* Hash tables with linear probing *)

(* A natural number, its quotient and its rest. *)
LEMMA DivisionWithRest ==
    ASSUME NEW a \in Nat, NEW n \in Nat, n > 0
    PROVE  a \div n \in Int /\ a % n \in 0 .. n - 1 /\ a = n * (a \div n) + (a % n)
  OBVIOUS

(* A multiple of n strictly between -n and n is 0. *)
LEMMA Gap ==
    ASSUME NEW n \in Nat, n > 0, NEW q \in Int, NEW r \in Int, n * (q - r) < n, n * (q - r) > - n
    PROVE  q = r
<1>1. CASE q - r >= 1
  BY <1>1
<1>2. CASE q - r <= -1
  BY <1>2
<1>3. QED
  BY <1>1, <1>2

(* Two numbers less than n apart with the same rest are equal. *)
LEMMA SameRest ==
    ASSUME NEW a \in Nat, NEW b \in Nat, NEW n \in Nat, n > 0, a % n = b % n, a - b < n, b - a < n
    PROVE  a = b
<1>1. PICK q \in Int : a = n * q + (a % n)
  BY DivisionWithRest
<1>2. PICK r \in Int : b = n * r + (b % n)
  BY DivisionWithRest
<1>3. PICK t \in Int : t = a % n
  OBVIOUS
<1>4. a = n * q + t /\ b = n * r + t
  BY <1>1, <1>2, <1>3
<1>5. a - b = n * (q - r)
  BY <1>4
<1>6. q = r
  BY <1>5, Gap
<1>7. QED
  BY <1>4, <1>6

(* Probing meets no bucket twice before it has met them all. *)
LEMMA ProbeInjective ==
    ASSUME NEW h \in Nat, NEW size \in Nat, size > 0,
           NEW d \in 0 .. size - 1, NEW e \in 0 .. size - 1,
           (h + d) % size = (h + e) % size
    PROVE  d = e
<1>1. PICK a \in Nat, b \in Nat : a = h + d /\ b = h + e
  OBVIOUS
<1>2. a % size = b % size /\ a - b < size /\ b - a < size
  BY <1>1
<1>3. a = b
  BY <1>2, SameRest
<1>4. QED
  BY <1>1, <1>3

(* The bucket at a distance from a hash. *)
At(size, hash, d) == (hash + d) % size

(* The buckets that probing meets are buckets of the table, each one once. *)
LEMMA AtType ==
    ASSUME NEW size \in Nat, size > 0, NEW hash \in Nat
    PROVE  /\ \A d \in Nat : At(size, hash, d) \in 0 .. size - 1
           /\ \A d, e \in 0 .. size - 1 : At(size, hash, d) = At(size, hash, e) => d = e
<1>1. \A d \in Nat : At(size, hash, d) \in 0 .. size - 1
  BY DEF At
<1>2. ASSUME NEW d \in 0 .. size - 1, NEW e \in 0 .. size - 1,
             At(size, hash, d) = At(size, hash, e)
      PROVE  d = e
  <2>1. (hash + d) % size = (hash + e) % size
    BY <1>2 DEF At
  <2>2. QED
    BY <2>1, ProbeInjective
<1>3. QED
  BY <1>1, <1>2

(* A table in which probing works: an id is in one bucket only, and no     *)
(* bucket between its hash and that one is empty.                          *)
Hashed(buckets, size, ids, hashes) ==
    /\ buckets \in [0 .. size - 1 -> ids \cup {0}]
    /\ \A a, b \in 0 .. size - 1 : buckets[a] # 0 /\ buckets[a] = buckets[b] => a = b
    /\ \A i \in ids : \E d \in 0 .. size - 1 :
          /\ buckets[At(size, hashes[i], d)] = i
          /\ \A e \in 0 .. d - 1 : buckets[At(size, hashes[i], e)] # 0

(* Probing stops at a distance d: at an empty bucket or a wanted id, and   *)
(* at none before it.                                                      *)
StopsAt(buckets, size, hash, wanted, d) ==
    /\ Probe(buckets, size, hash, wanted) = At(size, hash, d)
    /\ buckets[At(size, hash, d)] \in wanted \cup {0}
    /\ \A e \in 0 .. d - 1 : buckets[At(size, hash, e)] \notin wanted \cup {0}

(* A table has more buckets than ids, so probing ends. *)
LEMMA ProbeStops ==
    ASSUME NEW size \in Nat, size > 0, NEW ids \in SUBSET (1 .. size - 1),
           NEW buckets, NEW hashes, Hashed(buckets, size, ids, hashes),
           NEW hash \in Nat, NEW wanted
    PROVE  \E d \in 0 .. size - 1 : StopsAt(buckets, size, hash, wanted, d)
<1> DEFINE stops == {d \in 0 .. size - 1 : buckets[At(size, hash, d)] \in wanted \cup {0}}
<1>1. /\ size > 0
      /\ \A d \in 0 .. size - 1 : At(size, hash, d) \in 0 .. size - 1
      /\ \A d, e \in 0 .. size - 1 : At(size, hash, d) = At(size, hash, e) => d = e
  <2>1. size > 0
    OBVIOUS
  <2>2. QED
    BY <2>1, AtType, \A d \in 0 .. size - 1 : d \in Nat
<1>2. \E d \in 0 .. size - 1 : buckets[At(size, hash, d)] = 0
  <2>1. SUFFICES ASSUME \A d \in 0 .. size - 1 : buckets[At(size, hash, d)] # 0
                 PROVE  FALSE
    OBVIOUS
  <2> DEFINE f == [d \in 0 .. size - 1 |-> buckets[At(size, hash, d)]]
  <2>2. f \in [0 .. size - 1 -> ids]
    BY <2>1, <1>1 DEF Hashed
  <2>3. IsFiniteSet(0 .. size - 1) /\ Cardinality(0 .. size - 1) = size
    BY FS_Interval
  <2>4. IsFiniteSet(1 .. size - 1) /\ Cardinality(1 .. size - 1) = size - 1
    BY FS_Interval
  <2>5. IsFiniteSet(ids) /\ Cardinality(ids) <= size - 1 /\ Cardinality(ids) \in Nat
    BY <2>4, FS_Subset, FS_CardinalityType
  <2>6. Cardinality(ids) < Cardinality(0 .. size - 1)
    BY <2>3, <2>5
  <2>7. \E d, e \in 0 .. size - 1 : d # e /\ f[d] = f[e]
    <3> HIDE DEF f
    <3>1. QED
      BY <2>2, <2>3, <2>5, <2>6, FS_PigeonHole
  <2>8. PICK d \in 0 .. size - 1, e \in 0 .. size - 1 : d # e /\ f[d] = f[e]
    BY <2>7
  <2>9. At(size, hash, d) = At(size, hash, e)
    BY <2>8, <2>1, <1>1 DEF Hashed
  <2>10. QED
    BY <2>8, <2>9, <1>1
<1>3. stops \in SUBSET Nat /\ stops # {}
  <2>1. 0 .. size - 1 \subseteq Nat
    OBVIOUS
  <2>2. QED
    BY <1>2, <2>1, Zenon
<1>4. \E d \in stops : \A e \in stops : d <= e
  <2> HIDE DEF stops
  <2>1. QED
    BY <1>3, LeastNatural
<1> DEFINE d == CHOOSE d \in stops : \A e \in stops : d <= e
<1>5. d \in stops /\ \A e \in stops : d <= e
  <2> HIDE DEF stops
  <2>1. QED
    BY <1>4
<1>6. Probe(buckets, size, hash, wanted) = At(size, hash, d)
  BY DEF Probe, At
<1> HIDE DEF d
<1>7. d \in 0 .. size - 1 /\ buckets[At(size, hash, d)] \in wanted \cup {0}
  BY <1>5
<1>8. ASSUME NEW e \in 0 .. d - 1, buckets[At(size, hash, e)] \in wanted \cup {0}
      PROVE  FALSE
  <2>1. e \in 0 .. size - 1
    BY <1>7
  <2>2. e \in stops
    BY <2>1, <1>8
  <2>3. d <= e
    BY <1>5, <2>2
  <2>4. QED
    BY <2>3, <1>7
<1>9. QED
  BY <1>6, <1>7, <1>8 DEF StopsAt

(* Probing for ids of one hash finds one of them, if there is any. *)
LEMMA ProbeFinds ==
    ASSUME NEW size \in Nat, size > 0, NEW ids \in SUBSET (1 .. size - 1),
           NEW buckets, NEW hashes, Hashed(buckets, size, ids, hashes),
           NEW hash \in Nat, NEW wanted \in SUBSET ids, \A i \in wanted : hashes[i] = hash
    PROVE  /\ Probe(buckets, size, hash, wanted) \in 0 .. size - 1
           /\ wanted # {} => buckets[Probe(buckets, size, hash, wanted)] \in wanted
           /\ wanted = {} => buckets[Probe(buckets, size, hash, wanted)] = 0
<1>0. PICK d \in 0 .. size - 1 : StopsAt(buckets, size, hash, wanted, d)
  BY ProbeStops
<1>1. /\ Probe(buckets, size, hash, wanted) = At(size, hash, d)
      /\ buckets[At(size, hash, d)] \in wanted \cup {0}
      /\ \A e \in 0 .. d - 1 : buckets[At(size, hash, e)] \notin wanted \cup {0}
  BY <1>0 DEF StopsAt
<1>2. ASSUME NEW i \in wanted, buckets[At(size, hash, d)] = 0
      PROVE  FALSE
  <2>1. i \in ids /\ hashes[i] = hash /\ i # 0
    OBVIOUS
  <2>2. PICK c \in 0 .. size - 1 :
          /\ buckets[At(size, hash, c)] = i
          /\ \A e \in 0 .. c - 1 : buckets[At(size, hash, e)] # 0
    BY <2>1 DEF Hashed
  <2>3. CASE c < d
    BY <2>3, c \in 0 .. d - 1, <2>2, <1>1
  <2>4. CASE c = d
    BY <2>4, <2>1, <2>2, <1>2
  <2>5. CASE c > d
    BY <2>5, d \in 0 .. c - 1, <2>2, <1>2
  <2>6. QED
    BY <2>3, <2>4, <2>5
<1>3. At(size, hash, d) \in 0 .. size - 1
  BY AtType, size > 0, d \in Nat
<1>4. QED
  BY <1>1, <1>2, <1>3

(* An id put into the bucket that ended a vain search leaves a table in    *)
(* which probing works.                                                    *)
LEMMA ProbeInserts ==
    ASSUME NEW size \in Nat, size > 0, NEW ids \in SUBSET (1 .. size - 1),
           NEW buckets, NEW hashes \in [ids -> Nat], Hashed(buckets, size, ids, hashes),
           NEW hash \in Nat,
           NEW id \in Nat \ {0}, id \notin ids,
           NEW hashes2, hashes2[id] = hash, \A i \in ids : hashes2[i] = hashes[i]
    PROVE  Hashed([buckets EXCEPT ![Probe(buckets, size, hash, {})] = id], size,
                  ids \cup {id}, hashes2)
<1>0. PICK d \in 0 .. size - 1 : StopsAt(buckets, size, hash, {}, d)
  BY ProbeStops
<1>1. /\ Probe(buckets, size, hash, {}) = At(size, hash, d)
      /\ buckets[At(size, hash, d)] \in {} \cup {0}
      /\ \A e \in 0 .. d - 1 : buckets[At(size, hash, e)] \notin {} \cup {0}
  BY <1>0 DEF StopsAt
<1>2. size > 0 /\ \A e \in 0 .. d - 1 : buckets[At(size, hash, e)] # 0
  BY <1>1
<1> DEFINE slot == At(size, hash, d)
<1> DEFINE new == [buckets EXCEPT ![slot] = id]
<1>3. slot \in 0 .. size - 1 /\ buckets[slot] = 0
  BY <1>1, <1>2, AtType, d \in Nat
<1>4. buckets \in [0 .. size - 1 -> ids \cup {0}]
  BY DEF Hashed
<1> HIDE DEF slot
<1>5. /\ new \in [0 .. size - 1 -> (ids \cup {id}) \cup {0}]
      /\ new[slot] = id
      /\ \A b \in 0 .. size - 1 : b # slot => new[b] = buckets[b]
  BY <1>3, <1>4
<1>6. \A b \in 0 .. size - 1 : buckets[b] # 0 => new[b] = buckets[b]
  BY <1>3, <1>5
<1> HIDE DEF new
<1>7. \A a, b \in 0 .. size - 1 : new[a] # 0 /\ new[a] = new[b] => a = b
  BY <1>3, <1>4, <1>5, <1>6 DEF Hashed
<1>8. ASSUME NEW i \in ids
      PROVE  \E c \in 0 .. size - 1 :
          /\ new[At(size, hashes2[i], c)] = i
          /\ \A e \in 0 .. c - 1 : new[At(size, hashes2[i], e)] # 0
  <2>1. PICK c \in 0 .. size - 1 :
          /\ buckets[At(size, hashes[i], c)] = i
          /\ \A e \in 0 .. c - 1 : buckets[At(size, hashes[i], e)] # 0
    BY DEF Hashed
  <2>2. i # 0 /\ hashes2[i] = hashes[i] /\ hashes[i] \in Nat
    OBVIOUS
  <2>3. \A e \in 0 .. c : At(size, hashes[i], e) \in 0 .. size - 1
    BY <2>2, <1>2, AtType, \A e \in 0 .. c : e \in Nat
  <2>4. \A e \in 0 .. c - 1 : new[At(size, hashes[i], e)] # 0
    BY <2>1, <2>3, <1>6
  <2>5. new[At(size, hashes[i], c)] = i
    BY <2>1, <2>2, <2>3, <1>6
  <2>6. QED
    BY <2>2, <2>4, <2>5
<1>9. \E c \in 0 .. size - 1 :
          /\ new[At(size, hashes2[id], c)] = id
          /\ \A e \in 0 .. c - 1 : new[At(size, hashes2[id], e)] # 0
  <2>1. \A e \in 0 .. d - 1 : At(size, hash, e) \in 0 .. size - 1
    BY <1>2, AtType, \A e \in 0 .. d - 1 : e \in Nat
  <2>2. \A e \in 0 .. d - 1 : new[At(size, hash, e)] # 0
    BY <2>1, <1>2, <1>6
  <2>3. new[At(size, hash, d)] = id
    BY <1>5 DEF slot
  <2>4. QED
    BY <2>2, <2>3
<1>10. Hashed(new, size, ids \cup {id}, hashes2)
  BY <1>5, <1>7, <1>8, <1>9 DEF Hashed
<1>11. QED
  BY <1>10, <1>1 DEF new, slot

-----------------------------------------------------------------------------
(* Recursive functions over an initial segment of the naturals *)

(* f is defined from 0 to n by the steps that lead from an argument below  *)
(* to each argument.                                                       *)
Recursive(f, n, D, base, up, step) ==
    /\ f \in [0 .. n -> D]
    /\ f[0] = base
    /\ \A i \in 1 .. n : f[i] = step[i][f[up[i]]]

(* There is such a function. *)
LEMMA RecursionExists ==
    ASSUME NEW n \in Nat, NEW D, NEW base \in D,
           NEW up \in [1 .. n -> Nat], \A i \in 1 .. n : up[i] < i,
           NEW step \in [1 .. n -> [D -> D]]
    PROVE  \E f : Recursive(f, n, D, base, up, step)
<1> DEFINE Good(m) == \E f : Recursive(f, m, D, base, up, step)
<1> DEFINE Bad == {m \in 0 .. n : ~Good(m)}
<1>1. SUFFICES ASSUME Bad # {}
               PROVE  FALSE
  <2>1. n \in 0 .. n
    OBVIOUS
  <2>2. QED
    BY <2>1
<1>2. Bad \in SUBSET Nat
  <2>1. 0 .. n \subseteq Nat
    OBVIOUS
  <2>2. QED
    BY <2>1, Zenon
<1>3. PICK m \in Bad : \A k \in Bad : m <= k
  <2> HIDE DEF Bad
  <2>1. QED
    BY <1>1, <1>2, LeastNatural
<1>4. m \in 0 .. n /\ ~Good(m)
  BY <1>3
<1>5. Good(0)
  <2>1. Recursive([i \in 0 .. 0 |-> base], 0, D, base, up, step)
    BY DEF Recursive
  <2>2. QED
    BY <2>1
<1>6. m # 0
  BY <1>4, <1>5
<1>7. m - 1 \in 0 .. n /\ m - 1 < m
  BY <1>4, <1>6
<1>8. Good(m - 1)
  <2>1. m - 1 \notin Bad
    <3>1. ~(m <= m - 1)
      BY <1>4
    <3> HIDE DEF Bad
    <3>2. QED
      BY <1>3, <3>1
  <2>2. QED
    BY <2>1, <1>7
<1>9. PICK f : Recursive(f, m - 1, D, base, up, step)
  BY <1>8
<1> DEFINE g == [i \in 0 .. m |-> IF i = m THEN step[m][f[up[m]]] ELSE f[i]]
<1>10. m \in 1 .. n /\ up[m] \in 0 .. m - 1
  BY <1>4, <1>6
<1>11. f[up[m]] \in D /\ step[m][f[up[m]]] \in D
  BY <1>9, <1>10 DEF Recursive
<1>12. g \in [0 .. m -> D]
  BY <1>9, <1>11, <1>4 DEF Recursive
<1>13. g[0] = base
  BY <1>9, <1>10 DEF Recursive
<1>14. ASSUME NEW i \in 1 .. m
       PROVE  g[i] = step[i][g[up[i]]]
  <2>1. up[i] \in 0 .. m - 1 /\ i \in 0 .. m
    BY <1>10
  <2>2. g[up[i]] = f[up[i]]
    BY <2>1, <1>10
  <2>3. CASE i = m
    BY <2>1, <2>2, <2>3
  <2>4. CASE i # m
    <3>1. i \in 1 .. m - 1 /\ g[i] = f[i]
      BY <2>4, <1>10
    <3>2. QED
      BY <3>1, <2>2, <1>9 DEF Recursive
  <2>5. QED
    BY <2>3, <2>4
<1> HIDE DEF g
<1>15. Recursive(g, m, D, base, up, step)
  BY <1>12, <1>13, <1>14 DEF Recursive
<1>16. QED
  BY <1>15, <1>4

-----------------------------------------------------------------------------
(* Sums over finite sets *)

(* Among finite sets one is smallest. *)
LEMMA SmallestSet ==
    ASSUME NEW Sets, Sets # {}, \A s \in Sets : IsFiniteSet(s)
    PROVE  \E s \in Sets : \A t \in Sets : Cardinality(s) <= Cardinality(t)
<1> DEFINE Sizes == {Cardinality(s) : s \in Sets}
<1>1. Sizes \in SUBSET Nat /\ Sizes # {}
  BY FS_CardinalityType
<1>2. PICK n \in Sizes : \A m \in Sizes : n <= m
  <2> HIDE DEF Sizes
  <2>1. QED
    BY <1>1, LeastNatural
<1>3. QED
  BY <1>2

Some(s) == CHOOSE x \in s : TRUE

(* The element the fold takes is an element. *)
LEMMA SomeIn == \A s : s # {} => Some(s) \in s
  BY DEF Some

(* h sums f over the subsets of S, as the fold does. *)
Sums(h, f, S) ==
    h = [s \in SUBSET S |-> IF s = {} THEN 0 ELSE f[Some(s)] + h[s \ {Some(s)}]]

(* The sum of the community modules in these terms. *)
LEMMA SumDef ==
    ASSUME NEW f, NEW S
    PROVE  SumFunctionOnSet(f, S) = (CHOOSE h : Sums(h, f, S))[S]
  BY DEF SumFunctionOnSet, FoldFunctionOnSet, MapThenFoldSet, Sums, Some

(* The recursion over the subsets of a finite set has a solution. *)
LEMMA SumsExist ==
    ASSUME NEW S, IsFiniteSet(S), NEW f, \A x \in S : f[x] \in Nat
    PROVE  \E h \in [SUBSET S -> Nat] : Sums(h, f, S)
<1> DEFINE Upto(k) == {s \in SUBSET S : Cardinality(s) <= k}
<1> DEFINE Value(h, s) == IF s = {} THEN 0 ELSE f[Some(s)] + h[s \ {Some(s)}]
<1> DEFINE Good(k) == \E h \in [Upto(k) -> Nat] : \A s \in Upto(k) : h[s] = Value(h, s)
<1> DEFINE n == Cardinality(S)
<1> DEFINE Bad == {k \in 0 .. n : ~Good(k)}
<1>1. \A s \in SUBSET S : /\ IsFiniteSet(s) /\ Cardinality(s) \in Nat /\ Cardinality(s) <= n
                          /\ (Cardinality(s) = 0 <=> s = {})
  BY FS_Subset, FS_CardinalityType, FS_EmptySet
<1>2. n \in Nat
  BY FS_CardinalityType
<1>3. ASSUME NEW s \in SUBSET S, s # {}
      PROVE  /\ Some(s) \in s /\ s \ {Some(s)} \in SUBSET S
             /\ Cardinality(s \ {Some(s)}) = Cardinality(s) - 1
  BY <1>1, <1>3, SomeIn, FS_RemoveElement
<1>4. Bad = {}
  <2>1. SUFFICES ASSUME Bad # {}
                 PROVE  FALSE
    OBVIOUS
  <2>2. Bad \in SUBSET Nat
    <3>1. 0 .. n \subseteq Nat
      BY <1>2
    <3>2. QED
      BY <3>1, Zenon
  <2>3. PICK k \in Bad : \A j \in Bad : k <= j
    <3> HIDE DEF Bad
    <3>1. QED
      BY <2>1, <2>2, LeastNatural
  <2>4. k \in 0 .. n /\ ~Good(k)
    BY <2>3
  <2>5. Good(0)
    <3> DEFINE h == [s \in Upto(0) |-> 0]
    <3>1. \A s \in Upto(0) : s = {}
      BY <1>1
    <3>2. h \in [Upto(0) -> Nat] /\ \A s \in Upto(0) : h[s] = Value(h, s)
      BY <3>1
    <3>3. QED
      BY <3>2
  <2>6. k # 0 /\ k - 1 \in 0 .. n /\ ~(k <= k - 1)
    <3>1. k # 0
      BY <2>4, <2>5
    <3>2. QED
      BY <3>1, <2>4, <1>2
  <2>7. Good(k - 1)
    <3>1. k - 1 \notin Bad
      <4> HIDE DEF Bad
      <4>1. QED
        BY <2>3, <2>6
    <3>2. QED
      BY <3>1, <2>6
  <2>8. PICK h \in [Upto(k - 1) -> Nat] : \A s \in Upto(k - 1) : h[s] = Value(h, s)
    BY <2>7
  <2> DEFINE g == [s \in Upto(k) |-> IF s \in Upto(k - 1) THEN h[s] ELSE Value(h, s)]
  <2>9. ASSUME NEW s \in Upto(k), s # {}
        PROVE  /\ Some(s) \in S /\ s \ {Some(s)} \in Upto(k - 1) /\ s \ {Some(s)} \in Upto(k)
               /\ g[s \ {Some(s)}] = h[s \ {Some(s)}]
    <3>1. s \in SUBSET S /\ Cardinality(s) <= k /\ Cardinality(s) \in Nat
      BY <1>1
    <3>2. s \ {Some(s)} \in Upto(k - 1) /\ s \ {Some(s)} \in Upto(k)
      BY <1>3, <2>4, <2>9, <3>1
    <3>3. QED
      BY <3>1, <3>2, <1>3, <2>9
  <2>10. \A s \in Upto(k) : Value(h, s) \in Nat
    <3>1. SUFFICES ASSUME NEW s \in Upto(k), s # {}
                   PROVE  f[Some(s)] + h[s \ {Some(s)}] \in Nat
      BY Zenon
    <3>2. f[Some(s)] \in Nat /\ h[s \ {Some(s)}] \in Nat
      <4> HIDE DEF g, Upto
      <4>1. QED
        BY <2>8, <2>9, <3>1
    <3>3. QED
      BY <3>2
  <2>11. g \in [Upto(k) -> Nat]
    BY <2>10
  <2>12. ASSUME NEW s \in Upto(k)
         PROVE  g[s] = Value(g, s)
    <3>1. g[s] = Value(h, s)
      BY <2>8
    <3>2. Value(g, s) = Value(h, s)
      <4> HIDE DEF g
      <4>1. QED
        BY <2>9
    <3>3. QED
      BY <3>1, <3>2
  <2>13. Good(k)
    <3> HIDE DEF g, Value, Upto
    <3>1. QED
      BY <2>11, <2>12
  <2>14. QED
    BY <2>4, <2>13
<1>5. Good(n)
  <2>1. n \in 0 .. n
    BY <1>2
  <2>2. QED
    BY <2>1, <1>4
<1>6. Upto(n) = SUBSET S
  BY <1>1
<1>7. PICK h \in [SUBSET S -> Nat] : \A s \in SUBSET S : h[s] = Value(h, s)
  <2> HIDE DEF Upto, Value
  <2>1. QED
    BY <1>5, <1>6
<1>8. Sums(h, f, S)
  BY <1>7 DEF Sums
<1>9. QED
  BY <1>8

(* Two solutions agree on a set on which their functions agree. *)
LEMMA SumsAgree ==
    ASSUME NEW S, NEW T, NEW f, NEW g, NEW h, NEW k, Sums(h, f, S), Sums(k, g, T),
           NEW R, IsFiniteSet(R), R \subseteq S, R \subseteq T, \A x \in R : f[x] = g[x]
    PROVE  h[R] = k[R]
<1> DEFINE Bad == {s \in SUBSET R : h[s] # k[s]}
<1>1. SUFFICES ASSUME Bad # {}
               PROVE  FALSE
  OBVIOUS
<1>2. \A s \in Bad : IsFiniteSet(s)
  BY FS_Subset
<1>3. PICK s \in Bad : \A t \in Bad : Cardinality(s) <= Cardinality(t)
  <2> HIDE DEF Bad
  <2>1. QED
    BY <1>1, <1>2, SmallestSet
<1>4. s \in SUBSET R /\ h[s] # k[s] /\ s \in SUBSET S /\ s \in SUBSET T
  BY <1>3
<1>5. /\ h[s] = IF s = {} THEN 0 ELSE f[Some(s)] + h[s \ {Some(s)}]
      /\ k[s] = IF s = {} THEN 0 ELSE g[Some(s)] + k[s \ {Some(s)}]
  BY <1>4 DEF Sums
<1>6. s # {}
  BY <1>4, <1>5
<1> DEFINE t == s \ {Some(s)}
<1>7. Some(s) \in s /\ t \in SUBSET R
  BY <1>4, <1>6, SomeIn
<1>8. Cardinality(t) = Cardinality(s) - 1 /\ Cardinality(s) \in Nat
  BY <1>2, <1>3, <1>7, FS_RemoveElement, FS_CardinalityType
<1>9. t \notin Bad
  <2> HIDE DEF Bad, t
  <2>1. QED
    BY <1>3, <1>8
<1>10. h[t] = k[t]
  BY <1>7, <1>9
<1>11. QED
  BY <1>4, <1>5, <1>6, <1>7, <1>10

(* One step of the sum. *)
LEMMA SumUnfolds ==
    ASSUME NEW S, IsFiniteSet(S), NEW f, \A x \in S : f[x] \in Nat
    PROVE  /\ SumFunctionOnSet(f, S) \in Nat
           /\ S = {} => SumFunctionOnSet(f, S) = 0
           /\ S # {} => SumFunctionOnSet(f, S)
                          = f[Some(S)] + SumFunctionOnSet(f, S \ {Some(S)})
<1> DEFINE Fold(T) == CHOOSE h : Sums(h, f, T)
<1>1. ASSUME NEW T \in SUBSET S
      PROVE  Sums(Fold(T), f, T) /\ IsFiniteSet(T)
  <2>1. IsFiniteSet(T)
    BY FS_Subset
  <2>2. \A x \in T : f[x] \in Nat
    OBVIOUS
  <2>3. \E h : Sums(h, f, T)
    BY <2>1, <2>2, SumsExist
  <2>4. QED
    BY <2>1, <2>3
<1>2. PICK h \in [SUBSET S -> Nat] : Sums(h, f, S)
  BY SumsExist
<1>3. \A T : SumFunctionOnSet(f, T) = Fold(T)[T]
  BY SumDef
<1> HIDE DEF Fold
<1>4. ASSUME NEW T \in SUBSET S
      PROVE  SumFunctionOnSet(f, T) = h[T]
  <2>1. Sums(Fold(T), f, T) /\ IsFiniteSet(T)
    BY <1>1
  <2>2. Fold(T)[T] = h[T]
    BY <1>2, <2>1, SumsAgree
  <2>3. QED
    BY <1>3, <2>2
<1>5. h[S] = IF S = {} THEN 0 ELSE f[Some(S)] + h[S \ {Some(S)}]
  BY <1>2 DEF Sums
<1>6. S \in SUBSET S /\ S \ {Some(S)} \in SUBSET S
  OBVIOUS
<1>7. SumFunctionOnSet(f, S) = h[S] /\ SumFunctionOnSet(f, S \ {Some(S)}) = h[S \ {Some(S)}]
  BY <1>4, <1>6
<1>8. h[S] \in Nat
  BY <1>6
<1>9. QED
  BY <1>5, <1>7, <1>8

(* The sum depends on the values only. *)
LEMMA SumSame ==
    ASSUME NEW S, IsFiniteSet(S), NEW f, \A x \in S : f[x] \in Nat,
           NEW g, \A x \in S : g[x] = f[x]
    PROVE  SumFunctionOnSet(g, S) = SumFunctionOnSet(f, S)
<1>1. PICK h : Sums(h, f, S)
  BY SumsExist
<1>2. \A x \in S : g[x] \in Nat
  OBVIOUS
<1>3. PICK k : Sums(k, g, S)
  BY <1>2, SumsExist
<1> DEFINE H == CHOOSE i : Sums(i, f, S)
<1> DEFINE K == CHOOSE i : Sums(i, g, S)
<1>4. Sums(H, f, S)
  BY <1>1
<1>5. Sums(K, g, S)
  BY <1>3
<1>6. SumFunctionOnSet(f, S) = H[S] /\ SumFunctionOnSet(g, S) = K[S]
  BY SumDef
<1> HIDE DEF H, K
<1>7. H[S] = K[S]
  BY <1>4, <1>5, SumsAgree
<1>8. QED
  BY <1>6, <1>7

(* Any element may be taken out of a sum first. *)
LEMMA SumRemove ==
    ASSUME NEW S, IsFiniteSet(S), NEW f, \A x \in S : f[x] \in Nat, NEW x \in S
    PROVE  SumFunctionOnSet(f, S) = f[x] + SumFunctionOnSet(f, S \ {x})
<1> DEFINE Sum(s) == SumFunctionOnSet(f, s)
<1> DEFINE Bad == {s \in SUBSET S : \E y \in s : Sum(s) # f[y] + Sum(s \ {y})}
<1>1. SUFFICES ASSUME Bad # {}
               PROVE  FALSE
  <2>1. S \in SUBSET S
    OBVIOUS
  <2>2. QED
    BY <2>1
<1>2. \A s \in SUBSET S : IsFiniteSet(s)
  BY FS_Subset
<1>3. PICK s \in Bad : \A t \in Bad : Cardinality(s) <= Cardinality(t)
  <2>1. \A s \in Bad : IsFiniteSet(s)
    BY <1>2
  <2> HIDE DEF Bad
  <2>2. QED
    BY <1>1, <2>1, SmallestSet
<1>4. PICK y \in s : Sum(s) # f[y] + Sum(s \ {y})
  BY <1>3
<1> DEFINE c == Some(s)
<1>5. s \in SUBSET S /\ IsFiniteSet(s) /\ s # {} /\ c \in s
  BY <1>2, <1>3, <1>4, SomeIn
<1>6. ASSUME NEW t \in SUBSET S
      PROVE  /\ Sum(t) \in Nat
             /\ t # {} => Sum(t) = f[Some(t)] + Sum(t \ {Some(t)})
  <2>1. IsFiniteSet(t) /\ \A z \in t : f[z] \in Nat
    BY <1>2
  <2>2. QED
    BY <2>1, SumUnfolds
<1>7. Sum(s) = f[c] + Sum(s \ {c})
  BY <1>5, <1>6
<1>8. c # y
  BY <1>4, <1>7
<1> HIDE DEF c
<1>9. ASSUME NEW t \in SUBSET s, t # s, NEW z \in t
      PROVE  Sum(t) = f[z] + Sum(t \ {z})
  <2>1. Cardinality(t) < Cardinality(s)
    <3>1. Cardinality(t) <= Cardinality(s) /\ Cardinality(s) # Cardinality(t)
      BY <1>5, <1>9, FS_Subset
    <3>2. Cardinality(t) \in Nat /\ Cardinality(s) \in Nat
      BY <1>2, <1>5, FS_CardinalityType
    <3>3. QED
      BY <3>1, <3>2
  <2>2. t \in SUBSET S /\ Cardinality(t) \in Nat /\ Cardinality(s) \in Nat
    BY <1>2, <1>5, FS_CardinalityType
  <2>3. t \notin Bad
    <3> HIDE DEF Bad
    <3>1. QED
      BY <1>3, <2>1, <2>2
  <2>4. QED
    BY <2>2, <2>3
<1>10. Sum(s \ {c}) = f[y] + Sum((s \ {c}) \ {y})
  BY <1>5, <1>8, <1>9
<1>11. Sum(s \ {y}) = f[c] + Sum((s \ {y}) \ {c})
  BY <1>5, <1>8, <1>9
<1>12. (s \ {c}) \ {y} = (s \ {y}) \ {c} /\ (s \ {c}) \ {y} \in SUBSET S
  BY <1>5
<1>13. Sum((s \ {c}) \ {y}) \in Nat /\ f[c] \in Nat /\ f[y] \in Nat
  BY <1>5, <1>6, <1>12
<1> HIDE DEF Sum
<1>14. QED
  BY <1>4, <1>7, <1>10, <1>11, <1>12, <1>13

(* A part of a sum of naturals is no larger; it is the whole if what is    *)
(* left out is zero.                                                       *)
LEMMA SumSubset ==
    ASSUME NEW S, IsFiniteSet(S), NEW f, \A x \in S : f[x] \in Nat, NEW T \in SUBSET S
    PROVE  /\ SumFunctionOnSet(f, T) <= SumFunctionOnSet(f, S)
           /\ (\A x \in S \ T : f[x] = 0) => SumFunctionOnSet(f, T) = SumFunctionOnSet(f, S)
<1> DEFINE Sum(s) == SumFunctionOnSet(f, s)
<1> DEFINE Fine(s) == /\ Sum(T) <= Sum(s)
                      /\ (\A x \in s \ T : f[x] = 0) => Sum(T) = Sum(s)
<1> DEFINE Bad == {s \in SUBSET S : T \subseteq s /\ ~Fine(s)}
<1>1. SUFFICES ASSUME Bad # {}
               PROVE  FALSE
  <2>1. S \in SUBSET S /\ T \subseteq S
    OBVIOUS
  <2>2. Fine(S)
    BY <2>1
  <2>3. QED
    BY <2>2
<1>2. \A s \in SUBSET S : IsFiniteSet(s)
  BY FS_Subset
<1>3. PICK s \in Bad : \A t \in Bad : Cardinality(s) <= Cardinality(t)
  <2>1. \A s \in Bad : IsFiniteSet(s)
    BY <1>2
  <2> HIDE DEF Bad
  <2>2. QED
    BY <1>1, <2>1, SmallestSet
<1>4. s \in SUBSET S /\ T \subseteq s /\ ~Fine(s) /\ IsFiniteSet(s)
  BY <1>2, <1>3
<1>5. ASSUME NEW t \in SUBSET S
      PROVE  Sum(t) \in Nat
  <2>1. IsFiniteSet(t) /\ \A z \in t : f[z] \in Nat
    BY <1>2
  <2>2. QED
    BY <2>1, SumUnfolds
<1> HIDE DEF Sum
<1>6. s # T
  BY <1>4, <1>5
<1>7. PICK x \in s : x \notin T
  BY <1>4, <1>6
<1> DEFINE t == s \ {x}
<1>8. Sum(s) = f[x] + Sum(t)
  <2>1. \A z \in s : f[z] \in Nat
    BY <1>4
  <2>2. QED
    BY <1>4, <2>1, SumRemove DEF Sum
<1>9. t \in SUBSET S /\ T \subseteq t /\ f[x] \in Nat
  BY <1>4, <1>7
<1>10. Cardinality(t) = Cardinality(s) - 1 /\ Cardinality(s) \in Nat
  BY <1>4, FS_RemoveElement, FS_CardinalityType
<1>11. t \notin Bad
  <2> HIDE DEF Bad, t
  <2>1. QED
    BY <1>3, <1>10
<1>12. Fine(t)
  BY <1>9, <1>11
<1>13. Fine(s)
  <2>1. Sum(t) \in Nat /\ Sum(T) \in Nat
    BY <1>5, <1>9
  <2>2. Sum(T) <= Sum(s)
    BY <2>1, <1>8, <1>9, <1>12
  <2>3. ASSUME \A z \in s \ T : f[z] = 0
        PROVE  Sum(T) = Sum(s)
    <3>1. f[x] = 0 /\ \A z \in t \ T : f[z] = 0
      BY <2>3, <1>7
    <3>2. QED
      BY <3>1, <2>1, <1>8, <1>12
  <2>4. QED
    BY <2>2, <2>3
<1>14. QED
  BY <1>4, <1>13

(* One term grows. *)
LEMMA SumBump ==
    ASSUME NEW S, IsFiniteSet(S), NEW f, \A x \in S : f[x] \in Nat,
           NEW w \in Nat, NEW x \in S,
           NEW g, g[x] = f[x] + w, \A y \in S \ {x} : g[y] = f[y]
    PROVE  SumFunctionOnSet(g, S) = SumFunctionOnSet(f, S) + w
<1>1. \A y \in S : g[y] \in Nat
  OBVIOUS
<1>2. SumFunctionOnSet(f, S) = f[x] + SumFunctionOnSet(f, S \ {x})
  BY SumRemove
<1>3. SumFunctionOnSet(g, S) = g[x] + SumFunctionOnSet(g, S \ {x})
  BY <1>1, SumRemove
<1>4. IsFiniteSet(S \ {x}) /\ \A y \in S \ {x} : f[y] \in Nat
  BY FS_RemoveElement
<1>5. SumFunctionOnSet(g, S \ {x}) = SumFunctionOnSet(f, S \ {x})
  BY <1>4, SumSame
<1>6. SumFunctionOnSet(f, S \ {x}) \in Nat /\ f[x] \in Nat
  BY <1>4, SumUnfolds
<1>7. QED
  BY <1>2, <1>3, <1>5, <1>6

(* The sum over one element, and over none. *)
LEMMA SumOne ==
    ASSUME NEW x, NEW f, f[x] \in Nat
    PROVE  SumFunctionOnSet(f, {x}) = f[x]
<1>1. IsFiniteSet({x}) /\ IsFiniteSet({})
  BY FS_Singleton, FS_EmptySet
<1>2. SumFunctionOnSet(f, {x}) = f[x] + SumFunctionOnSet(f, {x} \ {x})
  BY <1>1, SumRemove
<1>3. SumFunctionOnSet(f, {}) = 0
  BY <1>1, SumUnfolds
<1>4. QED
  BY <1>2, <1>3, {x} \ {x} = {}

(* An empty sum. *)
LEMMA SumNone ==
    ASSUME NEW f
    PROVE  SumFunctionOnSet(f, {}) = 0
  BY FS_EmptySet, SumUnfolds

(* The same function on a larger set, zero where it is new. *)
LEMMA SumWider ==
    ASSUME NEW S, NEW T, IsFiniteSet(T), S \subseteq T,
           NEW f, \A x \in S : f[x] \in Nat,
           NEW g, \A x \in S : g[x] = f[x], \A x \in T \ S : g[x] = 0
    PROVE  SumFunctionOnSet(g, T) = SumFunctionOnSet(f, S)
<1>1. IsFiniteSet(S) /\ S \in SUBSET T
  BY FS_Subset
<1>2. \A x \in T : g[x] \in Nat
  OBVIOUS
<1>3. SumFunctionOnSet(g, S) = SumFunctionOnSet(g, T)
  BY <1>1, <1>2, SumSubset
<1>4. SumFunctionOnSet(g, S) = SumFunctionOnSet(f, S)
  BY <1>1, SumSame
<1>5. QED
  BY <1>3, <1>4

-----------------------------------------------------------------------------
(* The inductive invariant *)

(* Every function is in the frame table once, at a place its hash finds. *)
FramesOK(frames, buckets) ==
    /\ frames \in Seq(Identities)
    /\ Len(frames) <= MaxFrames
    /\ \A i, j \in 1 .. Len(frames) : frames[i] = frames[j] => i = j
    /\ Hashed(buckets, FrameBuckets, 1 .. Len(frames),
              [i \in 1 .. Len(frames) |-> FrameHash[frames[i]]])

(* The trie: a parent comes before its children, every node but the root   *)
(* names a stored frame, and every edge is there once, at a place its hash *)
(* finds.  The root has no samples.                                        *)
TreeOK(tree, buckets, frameCount) ==
    /\ tree \in Seq(Node)
    /\ Len(tree) \in 1 .. MaxNodes
    /\ tree[1].samples = 0
    /\ \A i \in 2 .. Len(tree) :
          tree[i].parent \in 1 .. i - 1 /\ tree[i].frame \in 1 .. frameCount
    /\ \A i, j \in 2 .. Len(tree) :
          tree[i].parent = tree[j].parent /\ tree[i].frame = tree[j].frame => i = j
    /\ Hashed(buckets, NodeBuckets, 2 .. Len(tree),
              [i \in 2 .. Len(tree) |-> EdgeHash[<<tree[i].parent, tree[i].frame>>]])

(* A cached id of a marker is 0 or the id of the marker. *)
Caches(frames, id, marker) ==
    id \in 0 .. Len(frames) /\ (id # 0 => frames[id] = marker)

Tables(p) ==
    /\ p \in Prof
    /\ FramesOK(p.frames, p.frameBuckets)
    /\ TreeOK(p.tree, p.nodeBuckets, Len(p.frames))
    /\ Caches(p.frames, p.truncated_frame, TruncatedFrame)
    /\ Caches(p.frames, p.engine_frame, EngineFrame)

(* The paths of the nodes of p, and the samples it shows for a path: what  *)
(* StackPath and Shown are for prof.                                       *)
StacksOf(p) ==
    [i \in 1 .. Len(p.tree) - 1 |->
        <<p.tree[i + 1].parent - 1, p.tree[i + 1].frame - 1, p.tree[i + 1].samples>>]
PathsOf(p) == ReadBack(StacksOf(p), p.frames)
ShownBy(p, path) ==
    SumFunctionOnSet([i \in DOMAIN StacksOf(p) |-> StacksOf(p)[i][3]],
                     {i \in DOMAIN StacksOf(p) : PathsOf(p)[i] = path})

(* The functions of the ids collected, innermost first, and what is left   *)
(* of the path to descend, outermost first.                                *)
Names(frames, ids) == [k \in 1 .. Len(ids) |-> frames[ids[k]]]
Rest(frames, ids) == [k \in 1 .. Len(ids) |-> frames[ids[Len(ids) + 1 - k]]]

-----------------------------------------------------------------------------
(* cbox_frames_intern *)

(* The probe for a function ends at its id, or at an empty bucket if the   *)
(* function is not in the table.                                           *)
LEMMA FrameFind ==
    ASSUME NEW p, FramesOK(p.frames, p.frameBuckets), NEW f \in Identities
    PROVE  /\ FrameSlot(p, f) \in 0 .. FrameBuckets - 1
           /\ p.frameBuckets[FrameSlot(p, f)] # 0 =>
                /\ p.frameBuckets[FrameSlot(p, f)] \in 1 .. Len(p.frames)
                /\ p.frames[p.frameBuckets[FrameSlot(p, f)]] = f
           /\ p.frameBuckets[FrameSlot(p, f)] = 0 =>
                /\ \A i \in 1 .. Len(p.frames) : p.frames[i] # f
                /\ FrameSlot(p, f) = Probe(p.frameBuckets, FrameBuckets, FrameHash[f], {})
<1> DEFINE ids == 1 .. Len(p.frames)
<1> DEFINE hashes == [i \in ids |-> FrameHash[p.frames[i]]]
<1> DEFINE wanted == {i \in ids : p.frames[i] = f}
<1>1. FrameBuckets \in Nat /\ FrameBuckets > 0 /\ Len(p.frames) \in Nat /\ Len(p.frames) < FrameBuckets
  BY SamplesAssumption DEF FramesOK
<1>2. ids \in SUBSET (1 .. FrameBuckets - 1)
  BY <1>1
<1>3. Hashed(p.frameBuckets, FrameBuckets, ids, hashes)
  BY DEF FramesOK
<1>4. FrameHash[f] \in Nat
  BY SamplesAssumption
<1>5. wanted \in SUBSET ids /\ \A i \in wanted : hashes[i] = FrameHash[f]
  OBVIOUS
<1>6. FrameSlot(p, f) = Probe(p.frameBuckets, FrameBuckets, FrameHash[f], wanted)
  BY DEF FrameSlot
<1>7. \A i \in wanted : i \in ids /\ p.frames[i] = f /\ i # 0
  BY <1>1
<1>8. wanted = {} => \A i \in ids : p.frames[i] # f
  OBVIOUS
<1> HIDE DEF ids, hashes, wanted
<1>9. /\ Probe(p.frameBuckets, FrameBuckets, FrameHash[f], wanted) \in 0 .. FrameBuckets - 1
      /\ wanted # {} => p.frameBuckets[Probe(p.frameBuckets, FrameBuckets, FrameHash[f], wanted)] \in wanted
      /\ wanted = {} => p.frameBuckets[Probe(p.frameBuckets, FrameBuckets, FrameHash[f], wanted)] = 0
  BY <1>1, <1>2, <1>3, <1>4, <1>5, ProbeFinds
<1>10. QED
  BY <1>6, <1>7, <1>8, <1>9 DEF ids

(* A function that is added at the end of the probe is found from then on. *)
LEMMA FrameAdd ==
    ASSUME NEW p, FramesOK(p.frames, p.frameBuckets), NEW f \in Identities,
           p.frameBuckets[FrameSlot(p, f)] = 0, Len(p.frames) < MaxFrames
    PROVE  FramesOK(Append(p.frames, f),
                    [p.frameBuckets EXCEPT ![FrameSlot(p, f)] = Len(p.frames) + 1])
<1> DEFINE frames == Append(p.frames, f)
<1> DEFINE ids == 1 .. Len(p.frames)
<1> DEFINE hashes == [i \in ids |-> FrameHash[p.frames[i]]]
<1> DEFINE hashes2 == [i \in 1 .. Len(frames) |-> FrameHash[frames[i]]]
<1> DEFINE id == Len(p.frames) + 1
<1>1. FrameBuckets \in Nat /\ FrameBuckets > 0 /\ Len(p.frames) \in Nat /\ Len(p.frames) < FrameBuckets
  BY SamplesAssumption DEF FramesOK
<1>2. ids \in SUBSET (1 .. FrameBuckets - 1)
  BY <1>1
<1>3. Hashed(p.frameBuckets, FrameBuckets, ids, hashes)
  BY DEF FramesOK
<1>4. FrameHash[f] \in Nat /\ MaxFrames \in Nat /\ FrameHash \in [Identities -> Nat]
  BY SamplesAssumption
<1>5. p.frames \in Seq(Identities)
  BY DEF FramesOK
<1>6. hashes \in [ids -> Nat]
  BY <1>4, <1>5
<1>7. /\ frames \in Seq(Identities) /\ Len(frames) = id
      /\ \A i \in ids : frames[i] = p.frames[i]
      /\ frames[id] = f
  BY <1>5
<1>8. 1 .. Len(frames) = ids \cup {id} /\ id \in Nat \ {0} /\ id \notin ids
  BY <1>1, <1>7
<1>9. hashes2[id] = FrameHash[f] /\ \A i \in ids : hashes2[i] = hashes[i]
  BY <1>7, <1>8
<1>10. \A i \in ids : p.frames[i] # f
  BY FrameFind
<1>11. FrameSlot(p, f) = Probe(p.frameBuckets, FrameBuckets, FrameHash[f], {})
  BY FrameFind
<1>12. \A i, j \in ids : p.frames[i] = p.frames[j] => i = j
  BY DEF FramesOK
<1> HIDE DEF frames, ids, hashes, hashes2, id
<1>13. Hashed([p.frameBuckets EXCEPT ![Probe(p.frameBuckets, FrameBuckets, FrameHash[f], {})] = id],
              FrameBuckets, ids \cup {id}, hashes2)
  BY <1>1, <1>2, <1>3, <1>4, <1>6, <1>8, <1>9, ProbeInserts
<1>14. \A i, j \in 1 .. Len(frames) : frames[i] = frames[j] => i = j
  BY <1>7, <1>8, <1>10, <1>12
<1>15. Len(frames) <= MaxFrames
  BY <1>1, <1>4, <1>7 DEF id
<1>16. FramesOK(frames, [p.frameBuckets EXCEPT ![FrameSlot(p, f)] = id])
  BY <1>7, <1>8, <1>11, <1>13, <1>14, <1>15 DEF FramesOK, hashes2
<1>17. QED
  BY <1>16 DEF frames, id

-----------------------------------------------------------------------------
(* cbox_stacktree_child *)

HasEdge(tree, parent, frame) ==
    \E i \in 2 .. Len(tree) : tree[i].parent = parent /\ tree[i].frame = frame

(* The probe for an edge ends at its node, or at an empty bucket if there  *)
(* is no such edge.                                                        *)
LEMMA NodeFind ==
    ASSUME NEW p, TreeOK(p.tree, p.nodeBuckets, Len(p.frames)), Len(p.frames) \in 0 .. MaxFrames,
           NEW parent \in 1 .. Len(p.tree), NEW frame \in 1 .. Len(p.frames)
    PROVE  /\ NodeSlot(p, parent, frame) \in 0 .. NodeBuckets - 1
           /\ p.nodeBuckets[NodeSlot(p, parent, frame)] # 0 =>
                /\ p.nodeBuckets[NodeSlot(p, parent, frame)] \in 2 .. Len(p.tree)
                /\ p.tree[p.nodeBuckets[NodeSlot(p, parent, frame)]].parent = parent
                /\ p.tree[p.nodeBuckets[NodeSlot(p, parent, frame)]].frame = frame
           /\ p.nodeBuckets[NodeSlot(p, parent, frame)] = 0 =>
                /\ ~HasEdge(p.tree, parent, frame)
                /\ NodeSlot(p, parent, frame)
                     = Probe(p.nodeBuckets, NodeBuckets, EdgeHash[<<parent, frame>>], {})
<1> DEFINE ids == 2 .. Len(p.tree)
<1> DEFINE hashes == [i \in ids |-> EdgeHash[<<p.tree[i].parent, p.tree[i].frame>>]]
<1> DEFINE wanted == {i \in ids : p.tree[i].parent = parent /\ p.tree[i].frame = frame}
<1> DEFINE hash == EdgeHash[<<parent, frame>>]
<1> DEFINE slot == Probe(p.nodeBuckets, NodeBuckets, hash, wanted)
<1>1. NodeBuckets \in Nat /\ NodeBuckets > 0 /\ Len(p.tree) \in Nat /\ Len(p.tree) < NodeBuckets
  BY SamplesAssumption DEF TreeOK
<1>2. ids \in SUBSET (1 .. NodeBuckets - 1)
  BY <1>1
<1>3. Hashed(p.nodeBuckets, NodeBuckets, ids, hashes)
  BY DEF TreeOK
<1>4. hash \in Nat
  <2>1. Len(p.tree) <= MaxNodes /\ MaxNodes \in Nat /\ MaxFrames \in Nat
    BY SamplesAssumption DEF TreeOK
  <2>2. parent \in 1 .. MaxNodes /\ frame \in 1 .. MaxFrames
    BY <2>1, <1>1
  <2>3. QED
    BY <2>2, SamplesAssumption
<1>5. wanted \in SUBSET ids /\ \A i \in wanted : hashes[i] = hash
  OBVIOUS
<1>6. NodeSlot(p, parent, frame) = slot
  BY DEF NodeSlot
<1>7. \A i \in wanted : i \in ids /\ p.tree[i].parent = parent /\ p.tree[i].frame = frame /\ i # 0
  BY <1>1
<1>8. wanted = {} => ~HasEdge(p.tree, parent, frame)
  BY DEF HasEdge
<1> HIDE DEF ids, hashes, wanted, hash
<1>9. /\ slot \in 0 .. NodeBuckets - 1
      /\ wanted # {} => p.nodeBuckets[slot] \in wanted
      /\ wanted = {} => p.nodeBuckets[slot] = 0
  BY <1>1, <1>2, <1>3, <1>4, <1>5, ProbeFinds
<1>10. wanted = {} => slot = Probe(p.nodeBuckets, NodeBuckets, hash, {})
  OBVIOUS
<1> HIDE DEF slot
<1>11. QED
  BY <1>6, <1>7, <1>8, <1>9, <1>10 DEF ids, hash

(* An edge that is added at the end of the probe is found from then on. *)
LEMMA NodeAdd ==
    ASSUME NEW p, TreeOK(p.tree, p.nodeBuckets, Len(p.frames)), Len(p.frames) \in 0 .. MaxFrames,
           NEW parent \in 1 .. Len(p.tree), NEW frame \in 1 .. Len(p.frames),
           p.nodeBuckets[NodeSlot(p, parent, frame)] = 0, Len(p.tree) < MaxNodes
    PROVE  TreeOK(Append(p.tree, [parent |-> parent, frame |-> frame, samples |-> 0]),
                  [p.nodeBuckets EXCEPT ![NodeSlot(p, parent, frame)] = Len(p.tree) + 1],
                  Len(p.frames))
<1> DEFINE node == [parent |-> parent, frame |-> frame, samples |-> 0]
<1> DEFINE tree == Append(p.tree, node)
<1> DEFINE ids == 2 .. Len(p.tree)
<1> DEFINE hashes == [i \in ids |-> EdgeHash[<<p.tree[i].parent, p.tree[i].frame>>]]
<1> DEFINE hashes2 == [i \in 2 .. Len(tree) |-> EdgeHash[<<tree[i].parent, tree[i].frame>>]]
<1> DEFINE id == Len(p.tree) + 1
<1> DEFINE hash == EdgeHash[<<parent, frame>>]
<1>1. /\ NodeBuckets \in Nat /\ NodeBuckets > 0 /\ Len(p.tree) \in Nat /\ Len(p.tree) < NodeBuckets
      /\ Len(p.tree) >= 1 /\ MaxNodes \in Nat /\ MaxFrames \in Nat /\ Len(p.frames) <= MaxFrames
  BY SamplesAssumption DEF TreeOK
<1>2. ids \in SUBSET (1 .. NodeBuckets - 1)
  BY <1>1
<1>3. Hashed(p.nodeBuckets, NodeBuckets, ids, hashes)
  BY DEF TreeOK
<1>4. EdgeHash \in [(1 .. MaxNodes) \X (1 .. MaxFrames) -> Nat]
  BY SamplesAssumption
<1>5. parent \in 1 .. MaxNodes /\ frame \in 1 .. MaxFrames
  BY <1>1
<1>6. hash \in Nat /\ node \in Node
  <2>1. hash \in Nat
    BY <1>4, <1>5
  <2>2. node \in Node
    BY <1>5, <1>1 DEF Node
  <2>3. QED
    BY <2>1, <2>2
<1>7. /\ p.tree \in Seq(Node) /\ p.tree[1].samples = 0
      /\ \A i \in ids : p.tree[i].parent \in 1 .. i - 1 /\ p.tree[i].frame \in 1 .. Len(p.frames)
      /\ \A i, j \in ids :
          p.tree[i].parent = p.tree[j].parent /\ p.tree[i].frame = p.tree[j].frame => i = j
  BY DEF TreeOK
<1>8. hashes \in [ids -> Nat]
  <2>1. ASSUME NEW i \in ids
        PROVE  EdgeHash[<<p.tree[i].parent, p.tree[i].frame>>] \in Nat
    <3>1. p.tree[i].parent \in 1 .. MaxNodes /\ p.tree[i].frame \in 1 .. MaxFrames
      BY <1>1, <1>7
    <3>2. QED
      BY <3>1, <1>4
  <2>2. QED
    BY <2>1
<1>9. /\ tree \in Seq(Node) /\ Len(tree) = id
      /\ \A i \in 1 .. Len(p.tree) : tree[i] = p.tree[i]
      /\ tree[id] = node
  <2> HIDE DEF node
  <2>1. QED
    BY <1>6, <1>7
<1>10. 2 .. Len(tree) = ids \cup {id} /\ id \in Nat \ {0} /\ id \notin ids
  BY <1>1, <1>9
<1>11. \A i \in ids : i \in 1 .. Len(p.tree) /\ tree[i] = p.tree[i]
  BY <1>1, <1>9
<1>12. tree[id].parent = parent /\ tree[id].frame = frame
  BY <1>9
<1>13. hashes2[id] = hash /\ \A i \in ids : hashes2[i] = hashes[i]
  <2> HIDE DEF tree, id, ids
  <2>1. QED
    BY <1>10, <1>11, <1>12
<1>14. \A i \in ids : ~(p.tree[i].parent = parent /\ p.tree[i].frame = frame)
  <2>1. ~HasEdge(p.tree, parent, frame)
    BY NodeFind
  <2>2. QED
    BY <2>1 DEF HasEdge
<1>15. NodeSlot(p, parent, frame) = Probe(p.nodeBuckets, NodeBuckets, hash, {})
  <2>1. NodeSlot(p, parent, frame)
          = Probe(p.nodeBuckets, NodeBuckets, EdgeHash[<<parent, frame>>], {})
    BY NodeFind
  <2>2. QED
    BY <2>1
<1> HIDE DEF node, tree, ids, hashes, hashes2, id, hash
<1>16. Hashed([p.nodeBuckets EXCEPT ![Probe(p.nodeBuckets, NodeBuckets, hash, {})] = id],
              NodeBuckets, ids \cup {id}, hashes2)
  BY <1>1, <1>2, <1>3, <1>6, <1>8, <1>10, <1>13, ProbeInserts
<1>17. \A i, j \in 2 .. Len(tree) :
          tree[i].parent = tree[j].parent /\ tree[i].frame = tree[j].frame => i = j
  <2>1. ASSUME NEW i \in ids, NEW j \in ids,
               tree[i].parent = tree[j].parent, tree[i].frame = tree[j].frame
        PROVE  i = j
    BY <2>1, <1>7, <1>11
  <2>2. ASSUME NEW i \in ids
        PROVE  ~(tree[i].parent = parent /\ tree[i].frame = frame)
    BY <1>11, <1>14
  <2>3. QED
    BY <2>1, <2>2, <1>10, <1>12
<1>18. Len(tree) \in 1 .. MaxNodes /\ tree[1].samples = 0
  BY <1>1, <1>7, <1>9 DEF id
<1>19. \A i \in 2 .. Len(tree) :
          tree[i].parent \in 1 .. i - 1 /\ tree[i].frame \in 1 .. Len(p.frames)
  <2>1. parent \in 1 .. id - 1
    BY <1>1 DEF id
  <2>2. QED
    BY <2>1, <1>7, <1>10, <1>11, <1>12
<1>20. TreeOK(tree, [p.nodeBuckets EXCEPT ![NodeSlot(p, parent, frame)] = id], Len(p.frames))
  BY <1>9, <1>10, <1>15, <1>16, <1>17, <1>18, <1>19 DEF TreeOK, hashes2
<1>21. QED
  BY <1>20 DEF tree, id, node

-----------------------------------------------------------------------------
(* Growing tables *)

(* What interning and descending may do to the tables: entries are added   *)
(* behind the ones there, new nodes without samples.                       *)
Grow(p, q) ==
    /\ Len(p.frames) <= Len(q.frames)
    /\ \A i \in 1 .. Len(p.frames) : q.frames[i] = p.frames[i]
    /\ Len(p.tree) <= Len(q.tree)
    /\ \A i \in 1 .. Len(p.tree) : q.tree[i] = p.tree[i]
    /\ \A i \in Len(p.tree) + 1 .. Len(q.tree) : q.tree[i].samples = 0
    /\ q.samples = p.samples
    /\ q.frameHits >= p.frameHits

(* The types of the fields. *)
LEMMA ProfFields ==
    ASSUME NEW p \in Prof
    PROVE  /\ p.frames \in Seq(Identities) /\ Len(p.frames) \in Nat
           /\ p.frameBuckets \in [0 .. FrameBuckets - 1 -> 0 .. MaxFrames]
           /\ p.used \in 0 .. ArenaCells /\ p.frameHits \in Nat
           /\ p.tree \in Seq(Node) /\ Len(p.tree) \in Nat
           /\ p.nodeBuckets \in [0 .. NodeBuckets - 1 -> 0 .. MaxNodes]
           /\ p.nodeHits \in Nat /\ p.samples \in Nat /\ p.dropped \in Nat
           /\ p.truncated_frame \in 0 .. MaxFrames /\ p.engine_frame \in 0 .. MaxFrames
<1>1. p.frames \in Seq(Identities) /\ p.tree \in Seq(Node)
  BY DEF Prof
<1>2. Len(p.frames) \in Nat /\ Len(p.tree) \in Nat
  BY <1>1
<1>3. QED
  BY <1>1, <1>2 DEF Prof

(* Growth includes no growth ... *)
LEMMA GrowSame == \A p : p \in Prof => Grow(p, p)
  BY ProfFields DEF Grow

(* ... and is transitive. *)
LEMMA GrowTrans ==
    ASSUME NEW p \in Prof, NEW q \in Prof, NEW r \in Prof, Grow(p, q), Grow(q, r)
    PROVE  Grow(p, r)
<1>1. /\ Len(p.frames) \in Nat /\ Len(q.frames) \in Nat /\ Len(r.frames) \in Nat
      /\ Len(p.tree) \in Nat /\ Len(q.tree) \in Nat /\ Len(r.tree) \in Nat
      /\ p.frameHits \in Nat /\ q.frameHits \in Nat /\ r.frameHits \in Nat
  BY ProfFields
<1>2. Len(p.frames) <= Len(r.frames) /\ Len(p.tree) <= Len(r.tree) /\ r.frameHits >= p.frameHits
  BY <1>1 DEF Grow
<1>3. \A i \in 1 .. Len(p.frames) : r.frames[i] = p.frames[i]
  BY <1>1 DEF Grow
<1>4. \A i \in 1 .. Len(p.tree) : r.tree[i] = p.tree[i]
  BY <1>1 DEF Grow
<1>5. ASSUME NEW i \in Len(p.tree) + 1 .. Len(r.tree)
      PROVE  r.tree[i].samples = 0
  <2>1. CASE i \in Len(q.tree) + 1 .. Len(r.tree)
    BY <2>1 DEF Grow
  <2>2. CASE i \in Len(p.tree) + 1 .. Len(q.tree)
    BY <2>2, <1>1, i \in 1 .. Len(q.tree) DEF Grow
  <2>3. QED
    BY <2>1, <2>2, <1>1
<1>6. QED
  BY <1>2, <1>3, <1>4, <1>5 DEF Grow


(* cbox_frames_intern keeps the tables in order, and its id is the id of   *)
(* the function; only a refusal returns none, and it is counted.           *)
InternKeeps(p, q, f, id) ==
    /\ Tables(q)
    /\ Grow(p, q)
    /\ q.tree = p.tree /\ q.dropped = p.dropped
    /\ q.truncated_frame = p.truncated_frame /\ q.engine_frame = p.engine_frame
    /\ id \in 0 .. Len(q.frames)
    /\ id # 0 => q.frames[id] = f
    /\ id = 0 => q.frameHits > 0

(* What InternKeeps says holds of cbox_frames_intern. *)
LEMMA InternedLemma ==
    ASSUME NEW p, Tables(p), NEW f \in Identities
    PROVE  InternKeeps(p, Interned(p, f), f, FrameId(p, f))
<1> DEFINE q == Interned(p, f)
<1> DEFINE id == FrameId(p, f)
<1> DEFINE slot == FrameSlot(p, f)
<1> DEFINE named == p.used + NameCells[f]
<1> DEFINE filed == named + FileCells[f]
<1>1. p \in Prof /\ FramesOK(p.frames, p.frameBuckets)
  BY DEF Tables
<1>2. /\ slot \in 0 .. FrameBuckets - 1
      /\ p.frameBuckets[slot] # 0 =>
            p.frameBuckets[slot] \in 1 .. Len(p.frames) /\ p.frames[p.frameBuckets[slot]] = f
  BY <1>1, FrameFind
<1>3. named \in Nat /\ filed \in Nat /\ named <= filed /\ ArenaCells \in Nat
  <2>1. NameCells[f] \in Nat /\ FileCells[f] \in Nat /\ ArenaCells \in Nat
    BY SamplesAssumption
  <2>2. p.used \in Nat
    BY <1>1, <2>1, ProfFields
  <2>3. QED
    BY <2>1, <2>2
<1>4. Len(p.frames) \in Nat /\ MaxFrames \in Nat /\ p.frameHits \in Nat
  BY <1>1, SamplesAssumption, ProfFields
<1> DEFINE full == Len(p.frames) >= MaxFrames \/ named > ArenaCells
<1>5. ASSUME p.frameBuckets[slot] # 0
      PROVE  InternKeeps(p, q, f, id)
  <2>1. q = p
    BY <1>5 DEF Interned
  <2>2. id = p.frameBuckets[slot]
    BY <2>1 DEF FrameId
  <2>3. id \in 1 .. Len(p.frames) /\ p.frames[id] = f
    BY <1>5, <1>2, <2>2
  <2>4. Grow(p, p)
    BY <1>1, GrowSame
  <2> HIDE DEF q, id
  <2>5. QED
    BY <2>1, <2>3, <2>4 DEF InternKeeps
<1>6. ASSUME p.frameBuckets[slot] = 0, full \/ filed > ArenaCells
      PROVE  InternKeeps(p, q, f, id)
  <2>1. PICK used \in 0 .. ArenaCells : q = [p EXCEPT !.frameHits = @ + 1, !.used = used]
    <3>1. CASE full
      <4>1. q = [p EXCEPT !.frameHits = @ + 1]
        BY <1>6, <3>1 DEF Interned
      <4>2. q = [p EXCEPT !.frameHits = @ + 1, !.used = p.used]
        BY <4>1, <1>1 DEF Prof
      <4>3. p.used \in 0 .. ArenaCells
        BY <1>1 DEF Prof
      <4>4. QED
        BY <4>2, <4>3
    <3>2. CASE ~full
      <4>1. q = [p EXCEPT !.frameHits = @ + 1, !.used = named]
        BY <1>6, <3>2 DEF Interned
      <4>2. named \in 0 .. ArenaCells
        BY <3>2, <1>3, <1>4
      <4>3. QED
        BY <4>1, <4>2
    <3>3. QED
      BY <3>1, <3>2
  <2>2. q \in Prof
    <3>1. p.frameHits + 1 \in Nat
      BY <1>4
    <3> HIDE DEF q
    <3>2. QED
      BY <2>1, <3>1, <1>1 DEF Prof
  <2>3. /\ q.frames = p.frames /\ q.frameBuckets = p.frameBuckets /\ q.tree = p.tree
        /\ q.nodeBuckets = p.nodeBuckets /\ q.samples = p.samples /\ q.dropped = p.dropped
        /\ q.truncated_frame = p.truncated_frame /\ q.engine_frame = p.engine_frame
        /\ q.frameHits = p.frameHits + 1
    BY <2>1, <1>1 DEF Prof
  <2>4. Len(p.tree) \in Nat
    BY <1>1 DEF Prof
  <2>5. id = 0
    BY <2>3, <1>6 DEF FrameId
  <2> HIDE DEF q, id
  <2>6. Grow(p, q)
    BY <2>3, <2>4, <1>4 DEF Grow
  <2>7. Tables(q)
    BY <2>2, <2>3 DEF Tables
  <2>8. QED
    BY <2>3, <2>5, <2>6, <2>7, <1>4 DEF InternKeeps
<1>7. ASSUME p.frameBuckets[slot] = 0, ~full, ~(filed > ArenaCells)
      PROVE  InternKeeps(p, q, f, id)
  <2> DEFINE frames == Append(p.frames, f)
  <2> DEFINE buckets == [p.frameBuckets EXCEPT ![slot] = Len(p.frames) + 1]
  <2>1. q = [p EXCEPT !.frames = frames, !.used = filed, !.frameBuckets = buckets]
    BY <1>7, <1>1 DEF Interned, Prof
  <2>2. FramesOK(frames, buckets)
    <3>1. Len(p.frames) < MaxFrames
      BY <1>4, <1>7
    <3>2. QED
      BY <1>1, <1>7, <3>1, FrameAdd
  <2>3. frames \in Seq(Identities) /\ filed \in 0 .. ArenaCells
    BY <1>1, <1>3, <1>7, ProfFields
  <2>4. buckets \in [0 .. FrameBuckets - 1 -> 0 .. MaxFrames] /\ buckets[slot] = Len(p.frames) + 1
    <3>1. Len(p.frames) + 1 \in 0 .. MaxFrames
      BY <1>4, <1>7
    <3>2. p.frameBuckets \in [0 .. FrameBuckets - 1 -> 0 .. MaxFrames]
      BY <1>1, ProfFields
    <3>3. QED
      BY <3>1, <3>2, <1>2
  <2>5. /\ Len(frames) = Len(p.frames) + 1 /\ frames[Len(p.frames) + 1] = f
        /\ \A i \in 1 .. Len(p.frames) : frames[i] = p.frames[i]
    BY <1>1, ProfFields
  <2> HIDE DEF frames, buckets, named, filed
  <2>6. q \in Prof
    BY <2>1, <2>3, <2>4, <1>1 DEF Prof
  <2>7. /\ q.frames = frames /\ q.frameBuckets = buckets /\ q.tree = p.tree
        /\ q.nodeBuckets = p.nodeBuckets /\ q.samples = p.samples /\ q.dropped = p.dropped
        /\ q.truncated_frame = p.truncated_frame /\ q.engine_frame = p.engine_frame
        /\ q.frameHits = p.frameHits
    BY <2>1, <1>1 DEF Prof
  <2>8. id = Len(p.frames) + 1
    BY <2>4, <2>7 DEF FrameId
  <2>9. Len(p.tree) \in Nat
    BY <1>1 DEF Prof
  <2> HIDE DEF q, id
  <2>10. Grow(p, q)
    BY <2>5, <2>7, <2>9, <1>4 DEF Grow
  <2>11. TreeOK(q.tree, q.nodeBuckets, Len(q.frames))
    <3>1. \A i \in 2 .. Len(p.tree) : p.tree[i].frame \in 1 .. Len(frames)
      BY <2>5, <1>4 DEF Tables, TreeOK
    <3>2. QED
      BY <3>1, <2>7 DEF Tables, TreeOK
  <2>12. /\ Caches(q.frames, q.truncated_frame, TruncatedFrame)
         /\ Caches(q.frames, q.engine_frame, EngineFrame)
    BY <2>5, <2>7, <1>4 DEF Tables, Caches
  <2>13. Tables(q)
    BY <2>2, <2>6, <2>7, <2>11, <2>12 DEF Tables
  <2>14. QED
    BY <2>5, <2>7, <2>8, <2>10, <2>13, <1>4 DEF InternKeeps
<1>8. QED
  BY <1>5, <1>6, <1>7

(* cbox_profiler_truncation_frame and cbox_profiler_engine_frame *)
LEMMA TruncationLemma ==
    ASSUME NEW p, Tables(p)
    PROVE  /\ Tables(WithTruncation(p)) /\ Grow(p, WithTruncation(p))
           /\ WithTruncation(p).tree = p.tree /\ WithTruncation(p).dropped = p.dropped
           /\ WithTruncation(p).truncated_frame = 0 => WithTruncation(p).frameHits > 0
<1>1. CASE p.truncated_frame # 0
  BY <1>1, GrowSame DEF WithTruncation, Tables
<1>2. CASE p.truncated_frame = 0
  <2> DEFINE r == Interned(p, TruncatedFrame)
  <2> DEFINE id == FrameId(p, TruncatedFrame)
  <2> DEFINE q == WithTruncation(p)
  <2>1. InternKeeps(p, r, TruncatedFrame, id)
    BY InternedLemma DEF Identities
  <2>2. q = [r EXCEPT !.truncated_frame = id]
    BY <1>2 DEF WithTruncation
  <2> HIDE DEF r, id, q
  <2>3. Tables(r) /\ r \in Prof /\ id \in 0 .. Len(r.frames) /\ (id # 0 => r.frames[id] = TruncatedFrame)
    BY <2>1 DEF InternKeeps, Tables
  <2>4. id \in 0 .. MaxFrames
    BY <2>3, ProfFields, SamplesAssumption DEF Tables, FramesOK
  <2>5. q \in Prof
    BY <2>2, <2>3, <2>4 DEF Prof
  <2>6. /\ q.frames = r.frames /\ q.frameBuckets = r.frameBuckets /\ q.tree = r.tree
        /\ q.nodeBuckets = r.nodeBuckets /\ q.samples = r.samples /\ q.dropped = r.dropped
        /\ q.truncated_frame = id /\ q.engine_frame = r.engine_frame /\ q.frameHits = r.frameHits
    BY <2>2, <2>3 DEF Prof
  <2>7. Tables(q)
    BY <2>3, <2>5, <2>6 DEF Tables, Caches
  <2>8. Grow(p, q)
    BY <2>1, <2>6 DEF InternKeeps, Grow
  <2>9. q.truncated_frame = 0 => q.frameHits > 0
    BY <2>1, <2>6 DEF InternKeeps
  <2>10. QED
    BY <2>1, <2>6, <2>7, <2>8, <2>9 DEF q, InternKeeps
<1>3. QED
  BY <1>1, <1>2

(* The marker of a sample outside every function. *)
LEMMA EngineLemma ==
    ASSUME NEW p, Tables(p)
    PROVE  /\ Tables(WithEngine(p)) /\ Grow(p, WithEngine(p))
           /\ WithEngine(p).tree = p.tree /\ WithEngine(p).dropped = p.dropped
<1>1. CASE p.engine_frame # 0
  BY <1>1, GrowSame DEF WithEngine, Tables
<1>2. CASE p.engine_frame = 0
  <2> DEFINE r == Interned(p, EngineFrame)
  <2> DEFINE id == FrameId(p, EngineFrame)
  <2> DEFINE q == WithEngine(p)
  <2>1. InternKeeps(p, r, EngineFrame, id)
    BY InternedLemma DEF Identities
  <2>2. q = [r EXCEPT !.engine_frame = id]
    BY <1>2 DEF WithEngine
  <2> HIDE DEF r, id, q
  <2>3. Tables(r) /\ r \in Prof /\ id \in 0 .. Len(r.frames) /\ (id # 0 => r.frames[id] = EngineFrame)
    BY <2>1 DEF InternKeeps, Tables
  <2>4. id \in 0 .. MaxFrames
    BY <2>3, ProfFields, SamplesAssumption DEF Tables, FramesOK
  <2>5. q \in Prof
    BY <2>2, <2>3, <2>4 DEF Prof
  <2>6. /\ q.frames = r.frames /\ q.frameBuckets = r.frameBuckets /\ q.tree = r.tree
        /\ q.nodeBuckets = r.nodeBuckets /\ q.samples = r.samples /\ q.dropped = r.dropped
        /\ q.engine_frame = id /\ q.truncated_frame = r.truncated_frame /\ q.frameHits = r.frameHits
    BY <2>2, <2>3 DEF Prof
  <2>7. Tables(q)
    BY <2>3, <2>5, <2>6 DEF Tables, Caches
  <2>8. Grow(p, q)
    BY <2>1, <2>6 DEF InternKeeps, Grow
  <2>9. QED
    BY <2>1, <2>6, <2>7, <2>8 DEF q, InternKeeps
<1>3. QED
  BY <1>1, <1>2

(* cbox_stacktree_child keeps the tables in order, and its id is that of   *)
(* the child asked for.                                                    *)
ChildKeeps(p, q, parent, frame, id) ==
    /\ Tables(q)
    /\ Grow(p, q)
    /\ q.frames = p.frames /\ q.dropped = p.dropped
    /\ id = 0 \/ /\ id \in 2 .. Len(q.tree)
                 /\ q.tree[id].parent = parent
                 /\ q.tree[id].frame = frame

(* What ChildKeeps says holds of cbox_stacktree_child. *)
LEMMA ChildLemma ==
    ASSUME NEW p, Tables(p), NEW parent \in 1 .. Len(p.tree), NEW frame \in 1 .. Len(p.frames)
    PROVE  ChildKeeps(p, Child(p, parent, frame), parent, frame, ChildId(p, parent, frame))
<1> DEFINE q == Child(p, parent, frame)
<1> DEFINE id == ChildId(p, parent, frame)
<1> DEFINE slot == NodeSlot(p, parent, frame)
<1>1. /\ p \in Prof /\ TreeOK(p.tree, p.nodeBuckets, Len(p.frames))
      /\ Len(p.frames) \in Nat /\ Len(p.tree) \in Nat
      /\ MaxFrames \in Nat /\ MaxNodes \in Nat
      /\ Len(p.frames) \in 0 .. MaxFrames
  BY ProfFields, SamplesAssumption DEF Tables, FramesOK
<1>2. /\ slot \in 0 .. NodeBuckets - 1
      /\ p.nodeBuckets[slot] # 0 =>
            /\ p.nodeBuckets[slot] \in 2 .. Len(p.tree)
            /\ p.tree[p.nodeBuckets[slot]].parent = parent
            /\ p.tree[p.nodeBuckets[slot]].frame = frame
  BY <1>1, NodeFind
<1>3. CASE p.nodeBuckets[slot] # 0
  <2>1. q = p
    BY <1>3 DEF Child
  <2>2. id = p.nodeBuckets[slot]
    BY <2>1 DEF ChildId
  <2>3. Grow(p, p)
    BY <1>1, GrowSame
  <2>4. QED
    BY <1>2, <1>3, <2>1, <2>2, <2>3 DEF ChildKeeps
<1>4. CASE p.nodeBuckets[slot] = 0 /\ Len(p.tree) >= MaxNodes
  <2>1. q = [p EXCEPT !.nodeHits = @ + 1]
    BY <1>4 DEF Child
  <2>2. p.nodeHits + 1 \in Nat
    BY <1>1, ProfFields
  <2>3. q \in Prof
    <3> HIDE DEF q
    <3>1. QED
      BY <2>1, <2>2, <1>1 DEF Prof
  <2>4. /\ q.frames = p.frames /\ q.frameBuckets = p.frameBuckets /\ q.tree = p.tree
        /\ q.nodeBuckets = p.nodeBuckets /\ q.samples = p.samples /\ q.dropped = p.dropped
        /\ q.truncated_frame = p.truncated_frame /\ q.engine_frame = p.engine_frame
        /\ q.frameHits = p.frameHits
    BY <2>1, <1>1 DEF Prof
  <2>5. id = 0
    BY <2>4, <1>4 DEF ChildId
  <2> HIDE DEF q, id
  <2>6. Grow(p, q)
    BY <2>4, <1>1, ProfFields DEF Grow
  <2>7. Tables(q)
    BY <2>3, <2>4 DEF Tables
  <2>8. ChildKeeps(p, q, parent, frame, id)
    BY <2>4, <2>5, <2>6, <2>7 DEF ChildKeeps
  <2>9. QED
    BY <2>8 DEF q, id
<1>5. CASE p.nodeBuckets[slot] = 0 /\ ~(Len(p.tree) >= MaxNodes)
  <2> DEFINE node == [parent |-> parent, frame |-> frame, samples |-> 0]
  <2> DEFINE tree == Append(p.tree, node)
  <2> DEFINE buckets == [p.nodeBuckets EXCEPT ![slot] = Len(p.tree) + 1]
  <2>1. q = [p EXCEPT !.tree = tree, !.nodeBuckets = buckets]
    BY <1>5, <1>1 DEF Child, Prof
  <2>2. TreeOK(tree, buckets, Len(p.frames))
    <3>1. Len(p.tree) < MaxNodes
      BY <1>1, <1>5
    <3>2. QED
      BY <1>1, <1>5, <3>1, NodeAdd
  <2>3. buckets \in [0 .. NodeBuckets - 1 -> 0 .. MaxNodes] /\ buckets[slot] = Len(p.tree) + 1
    <3>1. Len(p.tree) + 1 \in 0 .. MaxNodes
      BY <1>1, <1>5
    <3>2. p.nodeBuckets \in [0 .. NodeBuckets - 1 -> 0 .. MaxNodes]
      BY <1>1, ProfFields
    <3>3. QED
      BY <3>1, <3>2, <1>2
  <2>4. node \in Node /\ p.tree \in Seq(Node)
    <3>1. Len(p.tree) <= MaxNodes
      BY <1>1, <1>5
    <3>2. parent \in 0 .. MaxNodes /\ frame \in 0 .. MaxFrames
      BY <1>1, <3>1
    <3>3. node \in Node
      BY <3>2 DEF Node
    <3>4. QED
      BY <3>3, <1>1, ProfFields
  <2>5. node.parent = parent /\ node.frame = frame /\ node.samples = 0
    OBVIOUS
  <2> HIDE DEF node
  <2>6. /\ tree \in Seq(Node) /\ Len(tree) = Len(p.tree) + 1 /\ tree[Len(p.tree) + 1] = node
        /\ \A i \in 1 .. Len(p.tree) : tree[i] = p.tree[i]
    BY <2>4
  <2> HIDE DEF tree, buckets
  <2>7. q \in Prof
    BY <2>1, <2>3, <2>6, <1>1 DEF Prof
  <2>8. /\ q.frames = p.frames /\ q.frameBuckets = p.frameBuckets /\ q.tree = tree
        /\ q.nodeBuckets = buckets /\ q.samples = p.samples /\ q.dropped = p.dropped
        /\ q.truncated_frame = p.truncated_frame /\ q.engine_frame = p.engine_frame
        /\ q.frameHits = p.frameHits
    BY <2>1, <1>1 DEF Prof
  <2>9. id = Len(p.tree) + 1
    BY <2>3, <2>8 DEF ChildId
  <2> HIDE DEF q, id
  <2>10. Grow(p, q)
    <3>1. \A i \in Len(p.tree) + 1 .. Len(tree) : tree[i].samples = 0
      BY <2>5, <2>6, <1>1
    <3>2. QED
      BY <2>6, <2>8, <3>1, <1>1, ProfFields DEF Grow
  <2>11. Tables(q)
    BY <2>2, <2>7, <2>8 DEF Tables
  <2>12. id \in 2 .. Len(tree) /\ tree[id] = node
    BY <2>6, <2>9, <1>1
  <2>13. ChildKeeps(p, q, parent, frame, id)
    BY <2>5, <2>8, <2>10, <2>11, <2>12 DEF ChildKeeps
  <2>14. QED
    BY <2>13 DEF q, id
<1>6. QED
  BY <1>3, <1>4, <1>5

(* A dropped sample changes nothing but the count. *)
LEMMA DropLemma ==
    ASSUME NEW p, Tables(p), NEW w \in Nat
    PROVE  /\ Tables([p EXCEPT !.dropped = @ + w])
           /\ Grow(p, [p EXCEPT !.dropped = @ + w])
           /\ [p EXCEPT !.dropped = @ + w].dropped = p.dropped + w
<1> DEFINE q == [p EXCEPT !.dropped = @ + w]
<1>1. p \in Prof /\ p.dropped + w \in Nat
  BY ProfFields DEF Tables
<1>2. q \in Prof
  BY <1>1 DEF Prof
<1>3. /\ q.frames = p.frames /\ q.frameBuckets = p.frameBuckets /\ q.tree = p.tree
      /\ q.nodeBuckets = p.nodeBuckets /\ q.samples = p.samples /\ q.dropped = p.dropped + w
      /\ q.truncated_frame = p.truncated_frame /\ q.engine_frame = p.engine_frame
      /\ q.frameHits = p.frameHits
  BY <1>1 DEF Prof
<1> HIDE DEF q
<1>4. Grow(p, q)
  BY <1>1, <1>3, ProfFields DEF Grow
<1>5. Tables(q)
  BY <1>2, <1>3 DEF Tables
<1>6. QED
  BY <1>3, <1>4, <1>5 DEF q

-----------------------------------------------------------------------------
(* Paths of the nodes *)

(* The parent of each stack entry and the frame it adds to its path. *)
UpOf(p) == [i \in 1 .. Len(p.tree) - 1 |-> p.tree[i + 1].parent - 1]
StepOf(p) == [i \in 1 .. Len(p.tree) - 1 |->
                [q \in Seq(Identities) |-> Append(q, p.frames[p.tree[i + 1].frame])]]

(* The parent of an entry comes before it, and its frame is a stored one. *)
LEMMA UpStepTypes ==
    ASSUME NEW p, Tables(p)
    PROVE  /\ Len(p.tree) \in Nat /\ Len(p.tree) - 1 \in Nat
           /\ UpOf(p) \in [1 .. Len(p.tree) - 1 -> Nat]
           /\ \A i \in 1 .. Len(p.tree) - 1 : UpOf(p)[i] \in 0 .. i - 1
           /\ StepOf(p) \in [1 .. Len(p.tree) - 1 -> [Seq(Identities) -> Seq(Identities)]]
<1>1. Len(p.tree) \in Nat /\ Len(p.tree) >= 1 /\ p.frames \in Seq(Identities)
  BY ProfFields, SamplesAssumption DEF Tables, TreeOK
<1>2. ASSUME NEW i \in 1 .. Len(p.tree) - 1
      PROVE  /\ p.tree[i + 1].parent \in 1 .. i
             /\ p.frames[p.tree[i + 1].frame] \in Identities
  <2>1. i + 1 \in 2 .. Len(p.tree) /\ (i + 1) - 1 = i
    BY <1>1
  <2>2. p.tree[i + 1].parent \in 1 .. i /\ p.tree[i + 1].frame \in 1 .. Len(p.frames)
    BY <2>1 DEF Tables, TreeOK
  <2>3. QED
    BY <2>2, <1>1
<1>3. \A i \in 1 .. Len(p.tree) - 1 : UpOf(p)[i] \in 0 .. i - 1
  BY <1>2 DEF UpOf
<1>4. UpOf(p) \in [1 .. Len(p.tree) - 1 -> Nat]
  BY <1>2 DEF UpOf
<1>5. ASSUME NEW i \in 1 .. Len(p.tree) - 1, NEW q \in Seq(Identities)
      PROVE  Append(q, p.frames[p.tree[i + 1].frame]) \in Seq(Identities)
  <2> DEFINE e == p.frames[p.tree[i + 1].frame]
  <2>1. e \in Identities
    BY <1>2
  <2> HIDE DEF e
  <2>2. Append(q, e) \in Seq(Identities)
    BY <2>1
  <2>3. QED
    BY <2>2 DEF e
<1>6. StepOf(p) \in [1 .. Len(p.tree) - 1 -> [Seq(Identities) -> Seq(Identities)]]
  BY <1>5 DEF StepOf
<1>7. QED
  BY <1>1, <1>3, <1>4, <1>6

(* ReadBack is a recursion of this form. *)
LEMMA PathsRecursive ==
    ASSUME NEW p, Tables(p)
    PROVE  Recursive(PathsOf(p), Len(p.tree) - 1, Seq(Identities), <<>>, UpOf(p), StepOf(p))
<1> DEFINE n == Len(p.tree) - 1
<1> DEFINE s == StacksOf(p)
<1> DEFINE Eqn(f) == f = [i \in 0 .. Len(s) |-> IF i = 0 THEN <<>>
                              ELSE Append(f[s[i][1]], p.frames[s[i][2] + 1])]
<1>1. n \in Nat /\ UpOf(p) \in [1 .. n -> Nat] /\ (\A i \in 1 .. n : UpOf(p)[i] \in 0 .. i - 1)
      /\ StepOf(p) \in [1 .. n -> [Seq(Identities) -> Seq(Identities)]]
  BY UpStepTypes
<1>2. Len(s) = n
  BY <1>1 DEF StacksOf
<1>3. PICK f : Recursive(f, n, Seq(Identities), <<>>, UpOf(p), StepOf(p))
  <2>1. <<>> \in Seq(Identities)
    OBVIOUS
  <2>2. \A i \in 1 .. n : UpOf(p)[i] < i
    BY <1>1
  <2> HIDE DEF n
  <2>3. QED
    BY <1>1, <2>1, <2>2, RecursionExists
<1>4. ASSUME NEW i \in 1 .. n
      PROVE  s[i][1] = UpOf(p)[i] /\ s[i][2] + 1 = p.tree[i + 1].frame
  <2>1. i + 1 \in 2 .. Len(p.tree)
    BY UpStepTypes
  <2>2. p.tree[i + 1].frame \in Int
    BY <2>1, ProfFields DEF Tables, TreeOK
  <2>3. QED
    BY <2>2 DEF UpOf, StacksOf
<1>5. ASSUME NEW g \in [0 .. n -> Seq(Identities)], NEW i \in 1 .. n
      PROVE  Append(g[s[i][1]], p.frames[s[i][2] + 1]) = StepOf(p)[i][g[UpOf(p)[i]]]
  <2>1. UpOf(p)[i] \in 0 .. n
    BY <1>1
  <2>2. g[UpOf(p)[i]] \in Seq(Identities)
    BY <2>1
  <2>3. QED
    BY <2>2, <1>4 DEF StepOf
<1> HIDE DEF s
<1>6. Eqn(f)
  <2>1. f \in [0 .. n -> Seq(Identities)] /\ f[0] = <<>>
    BY <1>3 DEF Recursive
  <2>2. \A i \in 1 .. n : f[i] = Append(f[s[i][1]], p.frames[s[i][2] + 1])
    BY <2>1, <1>3, <1>5 DEF Recursive
  <2> HIDE DEF n
  <2>3. f = [i \in 0 .. n |-> IF i = 0 THEN <<>> ELSE Append(f[s[i][1]], p.frames[s[i][2] + 1])]
    BY <2>1, <2>2, <1>1
  <2>4. QED
    BY <2>3, <1>2
<1>7. PathsOf(p) = CHOOSE g : Eqn(g)
  BY DEF PathsOf, ReadBack, s
<1>8. Eqn(PathsOf(p))
  <2> HIDE DEF Eqn
  <2>1. QED
    BY <1>6, <1>7
<1> DEFINE P == PathsOf(p)
<1> HIDE DEF P
<1>9. P = [i \in 0 .. n |-> IF i = 0 THEN <<>> ELSE Append(P[s[i][1]], p.frames[s[i][2] + 1])]
  BY <1>8, <1>2 DEF P
<1> HIDE DEF n
<1>10. P[0] = <<>> /\ \A i \in 1 .. n : P[i] = Append(P[s[i][1]], p.frames[s[i][2] + 1])
  <2>1. 0 \in 0 .. n /\ \A i \in 1 .. n : i \in 0 .. n /\ i # 0
    BY <1>1
  <2>2. QED
    BY <1>9, <2>1
<1>11. \A i \in 0 .. n : P[i] \in Seq(Identities)
  <2> DEFINE Bad == {i \in 0 .. n : P[i] # f[i]}
  <2>1. f \in [0 .. n -> Seq(Identities)] /\ f[0] = <<>>
    BY <1>3 DEF Recursive
  <2>2. SUFFICES ASSUME Bad # {}
                 PROVE  FALSE
    BY <2>1
  <2>3. Bad \in SUBSET Nat
    <3>1. 0 .. n \subseteq Nat
      BY <1>1
    <3>2. QED
      BY <3>1, Zenon
  <2>4. PICK i \in Bad : \A k \in Bad : i <= k
    <3> HIDE DEF Bad
    <3>1. QED
      BY <2>2, <2>3, LeastNatural
  <2>5. i \in 1 .. n /\ P[i] # f[i]
    BY <2>1, <2>4, <1>1, <1>10
  <2>6. UpOf(p)[i] \in 0 .. n /\ ~(i <= UpOf(p)[i])
    BY <2>5, <1>1
  <2>7. P[UpOf(p)[i]] = f[UpOf(p)[i]]
    BY <2>4, <2>6
  <2>8. f[i] = Append(f[s[i][1]], p.frames[s[i][2] + 1])
    BY <2>1, <2>5, <1>3, <1>5 DEF Recursive
  <2>9. P[i] = Append(P[s[i][1]], p.frames[s[i][2] + 1])
    BY <2>5, <1>10
  <2>10. s[i][1] = UpOf(p)[i]
    BY <2>5, <1>4
  <2>11. QED
    BY <2>5, <2>7, <2>8, <2>9, <2>10
<1>12. P \in [0 .. n -> Seq(Identities)]
  BY <1>9, <1>11
<1>13. Recursive(P, n, Seq(Identities), <<>>, UpOf(p), StepOf(p))
  BY <1>5, <1>10, <1>12 DEF Recursive
<1>14. QED
  BY <1>13 DEF P, n

NodePath(p, n) == PathsOf(p)[n - 1]

(* The path of a node is the path of its parent and its own function. *)
LEMMA NodePathFacts ==
    ASSUME NEW p, Tables(p)
    PROVE  /\ NodePath(p, 1) = <<>>
           /\ \A n \in 1 .. Len(p.tree) : NodePath(p, n) \in Seq(Identities)
           /\ \A n \in 2 .. Len(p.tree) :
                NodePath(p, n) = Append(NodePath(p, p.tree[n].parent), p.frames[p.tree[n].frame])
<1> DEFINE P == PathsOf(p)
<1> DEFINE m == Len(p.tree) - 1
<1>1. Recursive(P, m, Seq(Identities), <<>>, UpOf(p), StepOf(p))
  BY PathsRecursive
<1>2. Len(p.tree) \in Nat /\ m \in Nat /\ \A i \in 1 .. m : UpOf(p)[i] \in 0 .. i - 1
  BY UpStepTypes
<1> HIDE DEF P
<1>3. P \in [0 .. m -> Seq(Identities)] /\ P[0] = <<>>
  BY <1>1 DEF Recursive
<1>4. ASSUME NEW n \in 2 .. Len(p.tree)
      PROVE  P[n - 1] = Append(P[p.tree[n].parent - 1], p.frames[p.tree[n].frame])
  <2>1. n - 1 \in 1 .. m /\ (n - 1) + 1 = n
    BY <1>2
  <2>2. P[n - 1] = StepOf(p)[n - 1][P[UpOf(p)[n - 1]]]
    BY <1>1, <2>1 DEF Recursive
  <2>3. UpOf(p)[n - 1] = p.tree[n].parent - 1
    BY <2>1 DEF UpOf
  <2>4. P[UpOf(p)[n - 1]] \in Seq(Identities)
    BY <1>2, <1>3, <2>1
  <2> DEFINE e == p.frames[p.tree[n].frame]
  <2>5. StepOf(p)[n - 1] = [q \in Seq(Identities) |-> Append(q, e)]
    BY <2>1 DEF StepOf
  <2> HIDE DEF e, m
  <2>6. P[n - 1] = Append(P[UpOf(p)[n - 1]], e)
    BY <2>2, <2>4, <2>5
  <2>7. QED
    BY <2>3, <2>6 DEF e
<1>5. \A n \in 1 .. Len(p.tree) : P[n - 1] \in Seq(Identities)
  BY <1>2, <1>3
<1>6. QED
  BY <1>3, <1>4, <1>5 DEF NodePath, P

(* The nodes of p are nodes of q, with the same edges. *)
SameEdges(p, q) ==
    /\ \A i \in 1 .. Len(p.frames) : q.frames[i] = p.frames[i]
    /\ Len(p.tree) <= Len(q.tree)
    /\ \A i \in 1 .. Len(p.tree) :
          q.tree[i].parent = p.tree[i].parent /\ q.tree[i].frame = p.tree[i].frame

(* Growth keeps the edges ... *)
LEMMA GrowSameEdges == \A p, q : Grow(p, q) => SameEdges(p, q)
  BY DEF Grow, SameEdges

(* ... and edges that stay keep the paths. *)
LEMMA NodePathStable ==
    ASSUME NEW p, Tables(p), NEW q, Tables(q), SameEdges(p, q)
    PROVE  \A n \in 1 .. Len(p.tree) : NodePath(q, n) = NodePath(p, n)
<1> DEFINE Bad == {n \in 1 .. Len(p.tree) : NodePath(q, n) # NodePath(p, n)}
<1>1. SUFFICES ASSUME Bad # {}
               PROVE  FALSE
  OBVIOUS
<1>2. Bad \in SUBSET Nat
  <2>1. 1 .. Len(p.tree) \subseteq Nat
    OBVIOUS
  <2>2. QED
    BY <2>1, Zenon
<1>3. PICK n \in Bad : \A k \in Bad : n <= k
  <2> HIDE DEF Bad
  <2>1. QED
    BY <1>1, <1>2, LeastNatural
<1>4. n \in 1 .. Len(p.tree) /\ NodePath(q, n) # NodePath(p, n)
  BY <1>3
<1>5. Len(p.tree) \in Nat /\ Len(q.tree) \in Nat
  BY ProfFields DEF Tables
<1>6. n # 1
  BY <1>4, NodePathFacts
<1>7. n \in 2 .. Len(p.tree) /\ n \in 2 .. Len(q.tree)
  BY <1>4, <1>5, <1>6 DEF SameEdges
<1>8. p.tree[n].parent \in 1 .. n - 1 /\ p.tree[n].frame \in 1 .. Len(p.frames)
  BY <1>7 DEF Tables, TreeOK
<1>9. NodePath(q, p.tree[n].parent) = NodePath(p, p.tree[n].parent)
  <2>1. p.tree[n].parent \in 1 .. Len(p.tree) /\ ~(n <= p.tree[n].parent)
    BY <1>7, <1>8
  <2>2. QED
    BY <2>1, <1>3
<1>10. q.tree[n].parent = p.tree[n].parent /\ q.tree[n].frame = p.tree[n].frame
  BY <1>4 DEF SameEdges
<1>11. q.frames[p.tree[n].frame] = p.frames[p.tree[n].frame]
  BY <1>8 DEF SameEdges
<1>12. NodePath(q, n) = Append(NodePath(q, q.tree[n].parent), q.frames[q.tree[n].frame])
  BY <1>7, NodePathFacts
<1>13. NodePath(p, n) = Append(NodePath(p, p.tree[n].parent), p.frames[p.tree[n].frame])
  BY <1>7, NodePathFacts
<1>14. QED
  BY <1>4, <1>9, <1>10, <1>11, <1>12, <1>13

(* No two nodes stand for the same path. *)
LEMMA NodePathDistinct ==
    ASSUME NEW p, Tables(p)
    PROVE  \A m, n \in 1 .. Len(p.tree) : NodePath(p, m) = NodePath(p, n) => m = n
<1> DEFINE Bad == {m \in 1 .. Len(p.tree) :
                     \E n \in 1 .. Len(p.tree) : NodePath(p, m) = NodePath(p, n) /\ m # n}
<1>1. SUFFICES ASSUME Bad # {}
               PROVE  FALSE
  OBVIOUS
<1>2. Bad \in SUBSET Nat
  <2>1. 1 .. Len(p.tree) \subseteq Nat
    OBVIOUS
  <2>2. QED
    BY <2>1, Zenon
<1>3. PICK m \in Bad : \A k \in Bad : m <= k
  <2> HIDE DEF Bad
  <2>1. QED
    BY <1>1, <1>2, LeastNatural
<1>4. PICK n \in 1 .. Len(p.tree) : NodePath(p, m) = NodePath(p, n) /\ m # n
  BY <1>3
<1>5. m \in 1 .. Len(p.tree) /\ Len(p.tree) \in Nat /\ p.frames \in Seq(Identities)
  BY <1>3, ProfFields DEF Tables
<1> DEFINE Full(k) == Append(NodePath(p, p.tree[k].parent), p.frames[p.tree[k].frame])
<1>6. ASSUME NEW k \in 2 .. Len(p.tree)
      PROVE  /\ p.tree[k].parent \in 1 .. k - 1 /\ p.tree[k].frame \in 1 .. Len(p.frames)
             /\ p.tree[k].parent \in 1 .. Len(p.tree)
             /\ p.frames[p.tree[k].frame] \in Identities
             /\ NodePath(p, p.tree[k].parent) \in Seq(Identities)
             /\ NodePath(p, k) = Full(k)
             /\ NodePath(p, k) # <<>>
  <2>1. p.tree[k].parent \in 1 .. k - 1 /\ p.tree[k].frame \in 1 .. Len(p.frames)
    BY DEF Tables, TreeOK
  <2>2. p.tree[k].parent \in 1 .. Len(p.tree)
    BY <2>1, <1>5
  <2>3. p.frames[p.tree[k].frame] \in Identities
    BY <2>1, <1>5
  <2>4. NodePath(p, p.tree[k].parent) \in Seq(Identities) /\ NodePath(p, k) = Full(k)
    BY <2>2, NodePathFacts
  <2>5. Full(k) # <<>>
    <3> DEFINE s == NodePath(p, p.tree[k].parent)
    <3> DEFINE e == p.frames[p.tree[k].frame]
    <3>1. s \in Seq(Identities) /\ e \in Identities
      BY <2>3, <2>4
    <3> HIDE DEF s, e
    <3>2. Append(s, e) # <<>>
      BY <3>1, AppendProperties
    <3>3. QED
      BY <3>2 DEF s, e
  <2>6. QED
    BY <2>1, <2>2, <2>3, <2>4, <2>5
<1>7. m # 1 /\ n # 1
  <2>1. NodePath(p, 1) = <<>>
    BY NodePathFacts
  <2>2. m = 1 => n \in 2 .. Len(p.tree)
    BY <1>4, <1>5
  <2>3. n = 1 => m \in 2 .. Len(p.tree)
    BY <1>4, <1>5
  <2>4. QED
    BY <2>1, <2>2, <2>3, <1>4, <1>6
<1>8. m \in 2 .. Len(p.tree) /\ n \in 2 .. Len(p.tree)
  BY <1>4, <1>5, <1>7
<1> HIDE DEF Full
<1>9. /\ NodePath(p, p.tree[m].parent) = NodePath(p, p.tree[n].parent)
      /\ p.frames[p.tree[m].frame] = p.frames[p.tree[n].frame]
  <2>1. Full(m) = Full(n)
    BY <1>4, <1>6, <1>8
  <2> DEFINE s == NodePath(p, p.tree[m].parent)
  <2> DEFINE t == NodePath(p, p.tree[n].parent)
  <2> DEFINE a == p.frames[p.tree[m].frame]
  <2> DEFINE b == p.frames[p.tree[n].frame]
  <2>2. s \in Seq(Identities) /\ t \in Seq(Identities) /\ a \in Identities /\ b \in Identities
    BY <1>6, <1>8
  <2>3. Append(s, a) = Append(t, b)
    BY <2>1 DEF Full
  <2> HIDE DEF s, t, a, b
  <2>4. s = t /\ a = b
    BY <2>2, <2>3, AppendInjective
  <2>5. QED
    BY <2>4 DEF s, t, a, b
<1>10. p.tree[m].frame = p.tree[n].frame
  BY <1>6, <1>8, <1>9 DEF Tables, FramesOK
<1>11. p.tree[m].parent = p.tree[n].parent
  <2>1. p.tree[m].parent \in 1 .. Len(p.tree) /\ ~(m <= p.tree[m].parent)
    BY <1>6, <1>8
  <2>2. p.tree[m].parent \notin Bad
    BY <1>3, <2>1
  <2>3. QED
    BY <2>1, <2>2, <1>6, <1>8, <1>9
<1>12. m = n
  BY <1>8, <1>10, <1>11 DEF Tables, TreeOK
<1>13. QED
  BY <1>4, <1>12

(* The path of a node but the root is not empty. *)
LEMMA NodePathNonempty ==
    ASSUME NEW p, Tables(p), NEW n \in 2 .. Len(p.tree)
    PROVE  NodePath(p, n) # <<>>
<1>1. 1 \in 1 .. Len(p.tree) /\ n \in 1 .. Len(p.tree) /\ n # 1
  BY ProfFields DEF Tables
<1>2. QED
  BY <1>1, NodePathFacts, NodePathDistinct

-----------------------------------------------------------------------------
(* What a profile shows for a path *)

(* A profile shows for a path the samples of the one node that stands for  *)
(* it.                                                                     *)
LEMMA ShownValue ==
    ASSUME NEW p, Tables(p)
    PROVE  /\ \A n \in 2 .. Len(p.tree) : ShownBy(p, NodePath(p, n)) = p.tree[n].samples
           /\ \A path : (\A n \in 2 .. Len(p.tree) : NodePath(p, n) # path) => ShownBy(p, path) = 0
<1> DEFINE D == DOMAIN StacksOf(p)
<1> DEFINE f == [i \in D |-> StacksOf(p)[i][3]]
<1> DEFINE Where(path) == {i \in D : PathsOf(p)[i] = path}
<1>1. Len(p.tree) \in Nat /\ p.tree \in Seq(Node)
  BY ProfFields DEF Tables
<1>2. D = 1 .. Len(p.tree) - 1
  BY DEF StacksOf
<1>3. \A i \in D : f[i] = p.tree[i + 1].samples
  BY <1>2 DEF StacksOf
<1>4. \A path : ShownBy(p, path) = SumFunctionOnSet(f, Where(path))
  BY DEF ShownBy
<1>5. ASSUME NEW i \in 1 .. Len(p.tree) - 1
      PROVE  i + 1 \in 2 .. Len(p.tree) /\ NodePath(p, i + 1) = PathsOf(p)[i]
  <2>1. (i + 1) - 1 = i /\ i + 1 \in 2 .. Len(p.tree)
    BY <1>1
  <2>2. QED
    BY <2>1 DEF NodePath
<1> HIDE DEF f, D
<1>6. ASSUME NEW n \in 2 .. Len(p.tree)
      PROVE  ShownBy(p, NodePath(p, n)) = p.tree[n].samples
  <2>1. n - 1 \in D /\ (n - 1) + 1 = n
    BY <1>1, <1>2
  <2>2. Where(NodePath(p, n)) = {n - 1}
    <3>1. n - 1 \in Where(NodePath(p, n))
      BY <2>1 DEF NodePath
    <3>2. ASSUME NEW i \in Where(NodePath(p, n))
          PROVE  i = n - 1
      <4>1. i \in 1 .. Len(p.tree) - 1 /\ NodePath(p, i + 1) = NodePath(p, n)
        BY <1>2, <1>5
      <4>2. i + 1 \in 1 .. Len(p.tree) /\ n \in 1 .. Len(p.tree)
        BY <4>1, <1>1
      <4>3. i + 1 = n
        BY <4>1, <4>2, NodePathDistinct
      <4>4. QED
        BY <4>1, <4>3
    <3>3. QED
      BY <3>1, <3>2
  <2>3. f[n - 1] = p.tree[n].samples
    BY <2>1, <1>3
  <2>4. p.tree[n].samples \in Nat
    <3>1. p.tree[n] \in Node
      BY <1>1
    <3>2. QED
      BY <3>1 DEF Node
  <2>5. SumFunctionOnSet(f, {n - 1}) = f[n - 1]
    BY <2>3, <2>4, SumOne
  <2>6. QED
    BY <2>2, <2>3, <2>5, <1>4
<1>7. ASSUME NEW path, \A n \in 2 .. Len(p.tree) : NodePath(p, n) # path
      PROVE  ShownBy(p, path) = 0
  <2>1. Where(path) = {}
    BY <1>2, <1>5, <1>7
  <2>2. QED
    BY <2>1, <1>4, SumNone
<1>8. QED
  BY <1>6, <1>7

(* That is a number of samples. *)
LEMMA ShownType ==
    ASSUME NEW p, Tables(p), NEW path
    PROVE  ShownBy(p, path) \in Nat
<1>1. CASE \E n \in 2 .. Len(p.tree) : NodePath(p, n) = path
  <2>1. PICK n \in 2 .. Len(p.tree) : NodePath(p, n) = path
    BY <1>1
  <2>2. p.tree \in Seq(Node) /\ Len(p.tree) \in Nat
    BY ProfFields DEF Tables
  <2>3. p.tree[n] \in Node
    BY <2>2
  <2>4. p.tree[n].samples \in Nat
    BY <2>3 DEF Node
  <2>5. QED
    BY <2>1, <2>4, ShownValue
<1>2. CASE ~\E n \in 2 .. Len(p.tree) : NodePath(p, n) = path
  BY <1>2, ShownValue
<1>3. QED
  BY <1>1, <1>2

(* New nodes have no samples and show none. *)
LEMMA ShownGrow ==
    ASSUME NEW p, Tables(p), NEW q, Tables(q), Grow(p, q), NEW path
    PROVE  ShownBy(q, path) = ShownBy(p, path)
<1>1. Len(p.tree) \in Nat /\ Len(q.tree) \in Nat /\ Len(p.tree) <= Len(q.tree) /\ Len(p.tree) >= 1
  <2>1. Len(p.tree) \in Nat /\ Len(q.tree) \in Nat
    BY ProfFields DEF Tables
  <2>2. Len(p.tree) \in 1 .. MaxNodes /\ MaxNodes \in Nat
    BY SamplesAssumption DEF Tables, TreeOK
  <2>3. QED
    BY <2>1, <2>2 DEF Grow
<1>2. \A n \in 1 .. Len(p.tree) : NodePath(q, n) = NodePath(p, n)
  BY NodePathStable, GrowSameEdges
<1>3. CASE \E n \in 2 .. Len(p.tree) : NodePath(p, n) = path
  <2>1. PICK n \in 2 .. Len(p.tree) : NodePath(p, n) = path
    BY <1>3
  <2>2. n \in 2 .. Len(q.tree) /\ n \in 1 .. Len(p.tree)
    BY <1>1
  <2>3. NodePath(q, n) = path /\ q.tree[n] = p.tree[n]
    BY <2>1, <2>2, <1>2 DEF Grow
  <2>4. ShownBy(q, path) = q.tree[n].samples
    BY <2>2, <2>3, ShownValue
  <2>5. ShownBy(p, path) = p.tree[n].samples
    BY <2>1, ShownValue
  <2>6. QED
    BY <2>3, <2>4, <2>5
<1>4. CASE ~\E n \in 2 .. Len(p.tree) : NodePath(p, n) = path
  <2>1. ShownBy(p, path) = 0
    BY <1>4, ShownValue
  <2>2. CASE \E n \in 2 .. Len(q.tree) : NodePath(q, n) = path
    <3>1. PICK n \in 2 .. Len(q.tree) : NodePath(q, n) = path
      BY <2>2
    <3>2. ~(n <= Len(p.tree))
      <4>1. n <= Len(p.tree) => n \in 2 .. Len(p.tree) /\ n \in 1 .. Len(p.tree)
        BY <1>1
      <4>2. QED
        BY <4>1, <3>1, <1>2, <1>4
    <3>3. n \in Len(p.tree) + 1 .. Len(q.tree)
      BY <3>2, <1>1
    <3>4. q.tree[n].samples = 0
      BY <3>3 DEF Grow
    <3>5. QED
      BY <2>1, <3>1, <3>4, ShownValue
  <2>3. CASE ~\E n \in 2 .. Len(q.tree) : NodePath(q, n) = path
    BY <2>1, <2>3, ShownValue
  <2>4. QED
    BY <2>2, <2>3
<1>5. QED
  BY <1>3, <1>4

(* cbox_stacktree_record *)
Recorded(p, q, n, w) ==
    /\ q.frames = p.frames
    /\ Len(q.tree) = Len(p.tree)
    /\ \A i \in 1 .. Len(p.tree) :
          /\ q.tree[i].parent = p.tree[i].parent
          /\ q.tree[i].frame = p.tree[i].frame
          /\ q.tree[i].samples = p.tree[i].samples + IF i = n THEN w ELSE 0

(* A recorded sample shows on the path of its node and nowhere else. *)
LEMMA ShownRecord ==
    ASSUME NEW p, Tables(p), NEW q, Tables(q), NEW n \in 2 .. Len(p.tree), NEW w \in Nat,
           Recorded(p, q, n, w), NEW path
    PROVE  ShownBy(q, path) = ShownBy(p, path) + IF path = NodePath(p, n) THEN w ELSE 0
<1>1. Len(p.tree) \in Nat /\ Len(q.tree) = Len(p.tree)
  BY ProfFields DEF Tables, Recorded
<1>2. \A m \in 1 .. Len(p.tree) : NodePath(q, m) = NodePath(p, m)
  <2>1. SameEdges(p, q)
    BY <1>1 DEF Recorded, SameEdges
  <2>2. QED
    BY <2>1, NodePathStable
<1>3. CASE \E m \in 2 .. Len(p.tree) : NodePath(p, m) = path
  <2>1. PICK m \in 2 .. Len(p.tree) : NodePath(p, m) = path
    BY <1>3
  <2>2. m \in 2 .. Len(q.tree) /\ m \in 1 .. Len(p.tree) /\ n \in 1 .. Len(p.tree)
    BY <1>1
  <2>3. NodePath(q, m) = path
    BY <2>1, <2>2, <1>2
  <2>4. ShownBy(q, path) = q.tree[m].samples
    BY <2>2, <2>3, ShownValue
  <2>5. ShownBy(p, path) = p.tree[m].samples
    BY <2>1, ShownValue
  <2>6. q.tree[m].samples = p.tree[m].samples + IF m = n THEN w ELSE 0
    BY <2>2 DEF Recorded
  <2>7. m = n <=> path = NodePath(p, n)
    BY <2>1, <2>2, NodePathDistinct
  <2>8. QED
    BY <2>4, <2>5, <2>6, <2>7
<1>4. CASE ~\E m \in 2 .. Len(p.tree) : NodePath(p, m) = path
  <2>1. ShownBy(p, path) = 0
    BY <1>4, ShownValue
  <2>2. \A m \in 2 .. Len(q.tree) : NodePath(q, m) # path
    <3>1. \A m \in 2 .. Len(q.tree) : m \in 2 .. Len(p.tree) /\ m \in 1 .. Len(p.tree)
      BY <1>1
    <3>2. QED
      BY <3>1, <1>2, <1>4
  <2>3. ShownBy(q, path) = 0
    BY <2>2, ShownValue
  <2>4. path # NodePath(p, n)
    BY <1>4
  <2>5. QED
    BY <2>1, <2>3, <2>4
<1>5. QED
  BY <1>3, <1>4

-----------------------------------------------------------------------------
(* The functions of a stack *)

Stack == Seq(Functions \cup {NoFunction})

(* The functions called in the first frames, frame by frame. *)
LEMMA CalledFacts ==
    ASSUME NEW chain \in Stack
    PROVE  /\ CalledIn(chain)[0] = <<>>
           /\ \A i \in 1 .. Len(chain) :
                CalledIn(chain)[i] = IF chain[i] = NoFunction THEN CalledIn(chain)[i - 1]
                                     ELSE Append(CalledIn(chain)[i - 1], chain[i])
           /\ \A i \in 0 .. Len(chain) : CalledIn(chain)[i] \in Seq(Functions)
<1> DEFINE n == Len(chain)
<1> DEFINE D == Seq(Functions)
<1> DEFINE up == [i \in 1 .. n |-> i - 1]
<1> DEFINE step == [i \in 1 .. n |-> [q \in D |-> IF chain[i] = NoFunction THEN q
                                                  ELSE Append(q, chain[i])]]
<1> DEFINE Eqn(f) == f = [i \in 0 .. n |-> IF i = 0 THEN <<>>
                             ELSE IF chain[i] = NoFunction THEN f[i - 1]
                             ELSE Append(f[i - 1], chain[i])]
<1>1. n \in Nat /\ \A i \in 1 .. n : chain[i] \in Functions \cup {NoFunction}
  BY DEF Stack
<1>2. ASSUME NEW i \in 1 .. n, NEW q \in D, chain[i] # NoFunction
      PROVE  Append(q, chain[i]) \in D
  <2>1. chain[i] \in Functions
    BY <1>1, <1>2
  <2> DEFINE e == chain[i]
  <2> HIDE DEF e
  <2>2. Append(q, e) \in D
    BY <2>1 DEF e
  <2>3. QED
    BY <2>2 DEF e
<1>3. step \in [1 .. n -> [D -> D]]
  <2>1. \A i \in 1 .. n : \A q \in D : (IF chain[i] = NoFunction THEN q ELSE Append(q, chain[i])) \in D
    BY <1>2
  <2> HIDE DEF D, n
  <2>2. QED
    BY <2>1
<1>4. up \in [1 .. n -> Nat] /\ \A i \in 1 .. n : up[i] < i
  BY <1>1
<1>5. <<>> \in D
  OBVIOUS
<1>6. PICK f : Recursive(f, n, D, <<>>, up, step)
  <2> HIDE DEF D, n, up, step
  <2>1. QED
    BY <1>1, <1>3, <1>4, <1>5, RecursionExists
<1>7. Eqn(f)
  <2>1. f \in [0 .. n -> D] /\ f[0] = <<>>
    BY <1>6 DEF Recursive
  <2>2. ASSUME NEW i \in 1 .. n
        PROVE  f[i] = IF chain[i] = NoFunction THEN f[i - 1] ELSE Append(f[i - 1], chain[i])
    <3>1. f[i] = step[i][f[up[i]]] /\ up[i] = i - 1
      BY <1>6 DEF Recursive
    <3>2. f[i - 1] \in D
      BY <2>1, <1>1
    <3> HIDE DEF D
    <3>3. QED
      BY <3>1, <3>2
  <2>3. ASSUME NEW i \in 0 .. n
        PROVE  f[i] = IF i = 0 THEN <<>>
                      ELSE IF chain[i] = NoFunction THEN f[i - 1]
                      ELSE Append(f[i - 1], chain[i])
    <3>1. i = 0 \/ i \in 1 .. n
      BY <1>1
    <3>2. CASE i = 0
      BY <3>2, <2>1
    <3>3. CASE i \in 1 .. n /\ i # 0
      BY <3>3, <2>2, Zenon
    <3>4. QED
      BY <3>1, <3>2, <3>3
  <2>4. DOMAIN f = 0 .. n /\ f = [i \in DOMAIN f |-> f[i]]
    BY <2>1
  <2> HIDE DEF n, D
  <2>5. QED
    BY <2>3, <2>4, Zenon
<1>8. CalledIn(chain) = CHOOSE g : Eqn(g)
  BY DEF CalledIn
<1> DEFINE C == CalledIn(chain)
<1>9. Eqn(C)
  <2> HIDE DEF Eqn
  <2>1. QED
    BY <1>7, <1>8
<1> HIDE DEF C, n
<1>10. /\ C[0] = <<>>
       /\ \A i \in 1 .. n : C[i] = IF chain[i] = NoFunction THEN C[i - 1] ELSE Append(C[i - 1], chain[i])
  <2>1. 0 \in 0 .. n /\ \A i \in 1 .. n : i \in 0 .. n /\ i # 0
    BY <1>1
  <2>2. QED
    BY <1>9, <2>1
<1>11. \A i \in 0 .. n : C[i] \in D
  <2> DEFINE Bad == {i \in 0 .. n : C[i] \notin D}
  <2>1. SUFFICES ASSUME Bad # {}
                 PROVE  FALSE
    OBVIOUS
  <2>2. Bad \in SUBSET Nat
    <3>1. 0 .. n \subseteq Nat
      BY <1>1
    <3>2. QED
      BY <3>1, Zenon
  <2>3. PICK i \in Bad : \A k \in Bad : i <= k
    <3> HIDE DEF Bad
    <3>1. QED
      BY <2>1, <2>2, LeastNatural
  <2>4. i \in 1 .. n /\ C[i] \notin D
    <3>1. i \in 0 .. n /\ C[i] \notin D
      BY <2>3
    <3> HIDE DEF D
    <3>2. i # 0
      BY <3>1, <1>5, <1>10
    <3>3. QED
      BY <3>1, <3>2, <1>1
  <2>5. i - 1 \in 0 .. n /\ ~(i <= i - 1)
    BY <2>4, <1>1
  <2>6. C[i - 1] \in D
    BY <2>3, <2>5
  <2> HIDE DEF D
  <2>7. QED
    BY <2>4, <2>6, <1>2, <1>10
<1>12. QED
  BY <1>10, <1>11 DEF C, n

(* The functions of fewer frames are the first of those of more frames. *)
LEMMA CalledPrefix ==
    ASSUME NEW chain \in Stack, NEW c \in 0 .. Len(chain)
    PROVE  \A j \in c .. Len(chain) :
              /\ Len(CalledIn(chain)[c]) <= Len(CalledIn(chain)[j])
              /\ \A k \in 1 .. Len(CalledIn(chain)[c]) : CalledIn(chain)[j][k] = CalledIn(chain)[c][k]
<1> DEFINE n == Len(chain)
<1> DEFINE C == CalledIn(chain)
<1> DEFINE Fine(j) == Len(C[c]) <= Len(C[j]) /\ \A k \in 1 .. Len(C[c]) : C[j][k] = C[c][k]
<1> DEFINE Bad == {j \in c .. n : ~Fine(j)}
<1>1. n \in Nat
  BY DEF Stack
<1>2. /\ \A i \in 1 .. n : C[i] = IF chain[i] = NoFunction THEN C[i - 1] ELSE Append(C[i - 1], chain[i])
      /\ \A i \in 0 .. n : C[i] \in Seq(Functions)
  BY CalledFacts
<1> HIDE DEF C
<1>3. \A i \in 0 .. n : Len(C[i]) \in Nat
  BY <1>2
<1>4. SUFFICES ASSUME Bad # {}
               PROVE  FALSE
  <2>1. \A j \in c .. n : Fine(j)
    BY <1>4
  <2>2. QED
    BY <2>1 DEF C
<1> HIDE DEF n
<1>5. Bad \in SUBSET Nat
  <2>1. c .. n \subseteq Nat
    BY <1>1 DEF n
  <2>2. QED
    BY <2>1, Zenon
<1>6. PICK j \in Bad : \A k \in Bad : j <= k
  <2> HIDE DEF Bad
  <2>1. QED
    BY <1>4, <1>5, LeastNatural
<1>7. c \in 0 .. n
  BY DEF n
<1>8. Fine(c)
  BY <1>3, <1>7
<1>9. j \in c .. n /\ j # c /\ ~Fine(j)
  BY <1>6, <1>8
<1>10. j - 1 \in c .. n /\ ~(j <= j - 1) /\ j \in 1 .. n /\ j - 1 \in 0 .. n
  BY <1>1, <1>7, <1>9
<1>11. Fine(j - 1)
  <2>1. j - 1 \notin Bad
    <3> HIDE DEF Bad
    <3>1. QED
      BY <1>6, <1>10
  <2>2. QED
    BY <2>1, <1>10
<1>12. CASE C[j] = C[j - 1]
  BY <1>9, <1>11, <1>12
<1>13. CASE C[j] = Append(C[j - 1], chain[j])
  <2> DEFINE s == C[j - 1]
  <2>1. s \in Seq(Functions) /\ Len(s) \in Nat /\ Len(C[c]) \in Nat
    BY <1>2, <1>3, <1>7, <1>10
  <2>2. chain[j] \in Functions \cup {NoFunction}
    BY <1>10 DEF Stack, n
  <2>3. /\ Len(Append(s, chain[j])) = Len(s) + 1
        /\ \A k \in 1 .. Len(s) : Append(s, chain[j])[k] = s[k]
    <3> DEFINE e == chain[j]
    <3>1. s \in Seq(Functions \cup {NoFunction}) /\ e \in Functions \cup {NoFunction}
      BY <2>1, <2>2
    <3> HIDE DEF s, e
    <3>2. /\ Len(Append(s, e)) = Len(s) + 1
          /\ \A k \in 1 .. Len(s) : Append(s, e)[k] = s[k]
      BY <3>1, AppendProperties
    <3>3. QED
      BY <3>2 DEF e
  <2> HIDE DEF s
  <2>4. C[j] = Append(s, chain[j]) /\ Len(C[c]) <= Len(s) /\ \A k \in 1 .. Len(C[c]) : s[k] = C[c][k]
    BY <1>11, <1>13 DEF s
  <2>5. \A k \in 1 .. Len(C[c]) : k \in 1 .. Len(s)
    BY <2>1, <2>4
  <2>6. Fine(j)
    BY <2>1, <2>3, <2>4, <2>5
  <2>7. QED
    BY <2>6, <1>9
<1>14. QED
  BY <1>2, <1>10, <1>12, <1>13

-----------------------------------------------------------------------------
(* The walk and the path *)

(* A walk that reached the end of the stack. *)
LEMMA WholeWalk ==
    ASSUME NEW chain \in Stack, NEW frames, NEW ids, Len(ids) \in Nat, Len(ids) <= MaxDepth,
           Names(frames, ids) = CalledIn(chain)[Len(chain)]
    PROVE  /\ Rest(frames, ids) \in Seq(Functions)
           /\ Rest(frames, ids) = <<>> => PathOf(chain) = <<EngineFrame>>
           /\ Rest(frames, ids) # <<>> => PathOf(chain) = Rest(frames, ids)
<1> DEFINE called == CalledIn(chain)[Len(chain)]
<1> DEFINE rest == Rest(frames, ids)
<1> DEFINE m == Len(ids)
<1>1. called \in Seq(Functions)
  <2>1. Len(chain) \in 0 .. Len(chain)
    BY DEF Stack
  <2>2. QED
    BY <2>1, CalledFacts
<1>2. called = [k \in 1 .. m |-> frames[ids[k]]]
  BY DEF Names
<1>3. rest = [k \in 1 .. m |-> frames[ids[m + 1 - k]]]
  BY DEF Rest
<1>4. MaxDepth \in Nat
  BY SamplesAssumption
<1> DEFINE path == [i \in 1 .. m |-> called[m + 1 - i]]
<1>5. PathOf(chain) = LET depth == IF Len(called) < MaxDepth THEN Len(called) ELSE MaxDepth
                          p == [i \in 1 .. depth |-> called[depth + 1 - i]]
                      IN  IF called = <<>> THEN <<EngineFrame>>
                          ELSE IF Len(called) > MaxDepth THEN <<TruncatedFrame>> \o p ELSE p
  BY DEF PathOf
<1> HIDE DEF called, rest, m
<1>6. Len(called) = m /\ m \in Nat
  BY <1>2 DEF m
<1>7. PathOf(chain) = IF called = <<>> THEN <<EngineFrame>> ELSE path
  <2>1. (IF Len(called) < MaxDepth THEN Len(called) ELSE MaxDepth) = m /\ ~(Len(called) > MaxDepth)
    BY <1>4, <1>6 DEF m
  <2>2. QED
    BY <1>5, <2>1
<1>8. path = rest
  <2>1. ASSUME NEW i \in 1 .. m
        PROVE  called[m + 1 - i] = frames[ids[m + 1 - i]]
    <3>1. m + 1 - i \in 1 .. m
      BY <1>6
    <3>2. QED
      BY <3>1, <1>2
  <2>2. QED
    BY <2>1, <1>3
<1>9. rest \in Seq(Functions) /\ Len(rest) = m
  <2>1. ASSUME NEW i \in 1 .. m
        PROVE  called[m + 1 - i] \in Functions
    <3>1. m + 1 - i \in 1 .. Len(called)
      BY <1>6
    <3>2. QED
      BY <3>1, <1>1
  <2>2. path \in [1 .. m -> Functions]
    BY <2>1
  <2>3. rest \in [1 .. m -> Functions]
    BY <2>2, <1>8
  <2> HIDE DEF path
  <2>4. QED
    BY <2>3, <1>6
<1>10. called = <<>> <=> rest = <<>>
  BY <1>1, <1>6, <1>9
<1> HIDE DEF path
<1>11. QED
  BY <1>7, <1>8, <1>9, <1>10 DEF rest

(* A walk that was cut at MaxDepth. *)
LEMMA CutWalk ==
    ASSUME NEW chain \in Stack, NEW frames, NEW ids, Len(ids) \in Nat, Len(ids) = MaxDepth,
           NEW c \in 0 .. Len(chain) - 1, chain[c + 1] # NoFunction,
           Names(frames, ids) = CalledIn(chain)[c]
    PROVE  /\ Rest(frames, ids) \in Seq(Functions)
           /\ Rest(frames, ids) # <<>>
           /\ PathOf(chain) = <<TruncatedFrame>> \o Rest(frames, ids)
<1> DEFINE called == CalledIn(chain)[Len(chain)]
<1> DEFINE seen == CalledIn(chain)[c]
<1> DEFINE rest == Rest(frames, ids)
<1> DEFINE m == MaxDepth
<1>1. Len(chain) \in Nat /\ Len(chain) \in 0 .. Len(chain) /\ c \in 0 .. Len(chain)
      /\ c + 1 \in 1 .. Len(chain) /\ c + 1 \in 0 .. Len(chain) /\ (c + 1) - 1 = c
      /\ Len(chain) \in c + 1 .. Len(chain)
  BY DEF Stack
<1>2. called \in Seq(Functions) /\ seen \in Seq(Functions)
  BY <1>1, CalledFacts
<1>3. seen = [k \in 1 .. m |-> frames[ids[k]]]
  BY DEF Names
<1>4. rest = [k \in 1 .. m |-> frames[ids[m + 1 - k]]]
  BY DEF Rest
<1>5. m \in Nat /\ m > 0
  BY SamplesAssumption
<1>6. CalledIn(chain)[c + 1] = Append(seen, chain[c + 1])
  BY <1>1, CalledFacts
<1> DEFINE next == Append(seen, chain[c + 1])
<1>7. chain[c + 1] \in Functions
  BY <1>1 DEF Stack
<1>8. PathOf(chain) = LET depth == IF Len(called) < MaxDepth THEN Len(called) ELSE MaxDepth
                          p == [i \in 1 .. depth |-> called[depth + 1 - i]]
                      IN  IF called = <<>> THEN <<EngineFrame>>
                          ELSE IF Len(called) > MaxDepth THEN <<TruncatedFrame>> \o p ELSE p
  BY DEF PathOf
<1>9. /\ Len(next) <= Len(called)
      /\ \A k \in 1 .. Len(next) : called[k] = next[k]
  <2>1. \A j \in c + 1 .. Len(chain) :
              /\ Len(CalledIn(chain)[c + 1]) <= Len(CalledIn(chain)[j])
              /\ \A k \in 1 .. Len(CalledIn(chain)[c + 1]) :
                    CalledIn(chain)[j][k] = CalledIn(chain)[c + 1][k]
    BY <1>1, CalledPrefix
  <2>2. QED
    BY <2>1, <1>1, <1>6
<1> HIDE DEF called, seen, rest, m
<1>10. Len(seen) = m
  BY <1>3, <1>5
<1>11. Len(next) = m + 1 /\ \A k \in 1 .. m : next[k] = seen[k]
  <2> DEFINE e == chain[c + 1]
  <2>1. e \in Functions
    BY <1>7
  <2> HIDE DEF e
  <2>2. Len(Append(seen, e)) = m + 1 /\ \A k \in 1 .. m : Append(seen, e)[k] = seen[k]
    BY <2>1, <1>2, <1>10
  <2>3. QED
    BY <2>2 DEF e
<1> HIDE DEF next
<1>12. Len(called) > m /\ Len(called) \in Nat /\ \A k \in 1 .. m : called[k] = seen[k]
  <2>1. Len(called) \in Nat
    BY <1>2
  <2>2. \A k \in 1 .. m : k \in 1 .. Len(next)
    BY <1>5, <1>11
  <2>3. QED
    BY <2>1, <2>2, <1>5, <1>9, <1>11
<1> DEFINE path == [i \in 1 .. m |-> called[m + 1 - i]]
<1>13. PathOf(chain) = <<TruncatedFrame>> \o path
  <2>1. (IF Len(called) < MaxDepth THEN Len(called) ELSE MaxDepth) = m /\ Len(called) > MaxDepth
        /\ called # <<>>
    BY <1>5, <1>12 DEF m
  <2>2. QED
    BY <1>8, <2>1
<1>14. path = rest
  <2>1. ASSUME NEW i \in 1 .. m
        PROVE  called[m + 1 - i] = frames[ids[m + 1 - i]]
    <3>1. m + 1 - i \in 1 .. m
      BY <1>5
    <3>2. QED
      BY <3>1, <1>3, <1>12
  <2>2. QED
    BY <2>1, <1>4
<1>15. rest \in Seq(Functions) /\ Len(rest) = m
  <2>1. ASSUME NEW i \in 1 .. m
        PROVE  called[m + 1 - i] \in Functions
    <3>1. m + 1 - i \in 1 .. Len(called)
      BY <1>5, <1>12
    <3>2. QED
      BY <3>1, <1>2
  <2>2. path \in [1 .. m -> Functions]
    BY <2>1
  <2>3. rest \in [1 .. m -> Functions]
    BY <2>2, <1>14
  <2> HIDE DEF path
  <2>4. QED
    BY <2>3, <1>5
<1>16. rest # <<>>
  BY <1>5, <1>15
<1> HIDE DEF path
<1>17. QED
  BY <1>13, <1>14, <1>15, <1>16 DEF rest

-----------------------------------------------------------------------------
(* The profile of the samples taken *)

Marked(path) == <<TruncatedFrame>> \o path
SomePaths == Seq(Identities) \ {<<>>}
TakenBy(tk, path) == IF path \in DOMAIN tk THEN tk[path] ELSE 0
PathSet(p, tk) == DOMAIN tk \cup {NodePath(p, n) : n \in 2 .. Len(p.tree)}
SelfOf(p) == [n \in 2 .. Len(p.tree) |-> p.tree[n].samples]
NodesOf(p, id) == {n \in 2 .. Len(p.tree) : p.tree[n].frame = id + 1}
TotalsOf(p) == [id \in 0 .. Len(p.frames) - 1 |-> SumFunctionOnSet(SelfOf(p), NodesOf(p, id))]

(* Stack by stack, but for the marker; ... *)
StackByStack(p, tk) ==
    \A path \in SomePaths :
        Head(path) # TruncatedFrame =>
            ShownBy(p, path) + ShownBy(p, Marked(path)) = TakenBy(tk, path) + TakenBy(tk, Marked(path))
(* ... with the marker, if no frame was refused; ... *)
MarkerByMarker(p, tk) ==
    p.frameHits = 0 => \A path \in SomePaths : ShownBy(p, path) = TakenBy(tk, path)
(* ... and nothing else: over the paths, and over the functions. *)
PathsAddUp(p, tk) ==
    SumFunctionOnSet([path \in PathSet(p, tk) |-> ShownBy(p, path)], PathSet(p, tk)) = p.samples
TotalsAddUp(p) == SumFunctionOnSet(TotalsOf(p), 0 .. Len(p.frames) - 1) = p.samples

TakenOK(tk) ==
    /\ DOMAIN tk \subseteq SomePaths
    /\ IsFiniteSet(DOMAIN tk)
    /\ \A q \in DOMAIN tk : tk[q] \in Nat

ProfileOK(p, tk) ==
    StackByStack(p, tk) /\ MarkerByMarker(p, tk) /\ PathsAddUp(p, tk) /\ TotalsAddUp(p)

(* A path with the marker is a path. *)
LEMMA MarkedIsPath == \A path \in SomePaths : Marked(path) \in SomePaths
<1>1. SUFFICES ASSUME NEW path \in Seq(Identities)
               PROVE  Marked(path) \in Seq(Identities) /\ Marked(path) # <<>>
  BY DEF SomePaths
<1>2. <<TruncatedFrame>> \in Seq(Identities) /\ Len(<<TruncatedFrame>>) = 1
  BY DEF Identities
<1>3. Marked(path) \in Seq(Identities) /\ Len(Marked(path)) = 1 + Len(path) /\ Len(path) \in Nat
  BY <1>2, ConcatProperties DEF Marked
<1>4. QED
  BY <1>3

(* A profile and its ghost have finitely many paths, and none is empty. *)
LEMMA PathSetFinite ==
    ASSUME NEW p, Tables(p), NEW tk, TakenOK(tk)
    PROVE  IsFiniteSet(PathSet(p, tk)) /\ PathSet(p, tk) \subseteq SomePaths
<1> DEFINE N == 2 .. Len(p.tree)
<1> DEFINE Nodes == {NodePath(p, n) : n \in N}
<1>1. Len(p.tree) \in Nat
  BY ProfFields DEF Tables
<1>2. IsFiniteSet(N)
  BY <1>1, FS_Interval
<1>3. IsFiniteSet(Nodes)
  <2> DEFINE f == [n \in N |-> NodePath(p, n)]
  <2>1. f \in Surjection(N, Nodes)
    BY DEF Surjection
  <2> HIDE DEF f, N, Nodes
  <2>2. QED
    BY <2>1, <1>2, FS_Surjection
<1>4. Nodes \subseteq SomePaths
  <2>1. \A n \in N : n \in 1 .. Len(p.tree)
    BY <1>1
  <2>2. QED
    BY <2>1, NodePathFacts, NodePathNonempty DEF SomePaths
<1>5. PathSet(p, tk) = DOMAIN tk \cup Nodes
  BY DEF PathSet
<1> HIDE DEF Nodes, N
<1>6. IsFiniteSet(DOMAIN tk \cup Nodes)
  BY <1>3, FS_Union DEF TakenOK
<1>7. QED
  BY <1>4, <1>5, <1>6 DEF TakenOK

(* The types of what the totals add up. *)
LEMMA SelfTypes ==
    ASSUME NEW p, Tables(p)
    PROVE  /\ \A n \in 2 .. Len(p.tree) : SelfOf(p)[n] = p.tree[n].samples /\ SelfOf(p)[n] \in Nat
           /\ \A id : IsFiniteSet(NodesOf(p, id))
           /\ \A id \in 0 .. Len(p.frames) - 1 : TotalsOf(p)[id] \in Nat
           /\ IsFiniteSet(0 .. Len(p.frames) - 1)
<1>1. Len(p.tree) \in Nat /\ p.tree \in Seq(Node) /\ Len(p.frames) \in Nat
  BY ProfFields DEF Tables
<1>2. ASSUME NEW n \in 2 .. Len(p.tree)
      PROVE  SelfOf(p)[n] = p.tree[n].samples /\ SelfOf(p)[n] \in Nat
  <2>1. p.tree[n] \in Node
    BY <1>1
  <2>2. p.tree[n].samples \in Nat
    BY <2>1 DEF Node
  <2>3. QED
    BY <2>2 DEF SelfOf
<1>3. \A id : IsFiniteSet(NodesOf(p, id))
  <2>1. IsFiniteSet(2 .. Len(p.tree))
    BY <1>1, FS_Interval
  <2>2. QED
    BY <2>1, FS_Subset DEF NodesOf
<1>4. ASSUME NEW id \in 0 .. Len(p.frames) - 1
      PROVE  TotalsOf(p)[id] \in Nat
  <2>1. \A n \in NodesOf(p, id) : SelfOf(p)[n] \in Nat
    BY <1>2 DEF NodesOf
  <2>2. SumFunctionOnSet(SelfOf(p), NodesOf(p, id)) \in Nat
    BY <2>1, <1>3, SumUnfolds
  <2>3. QED
    BY <2>2 DEF TotalsOf
<1>5. IsFiniteSet(0 .. Len(p.frames) - 1)
  BY <1>1, FS_Interval
<1>6. QED
  BY <1>2, <1>3, <1>4, <1>5

(* New entries change no total ... *)
LEMMA GrowKeepsTotals ==
    ASSUME NEW p, Tables(p), NEW q, Tables(q), Grow(p, q), TotalsAddUp(p)
    PROVE  TotalsAddUp(q)
<1>1. /\ Len(p.tree) \in Nat /\ Len(q.tree) \in Nat /\ Len(p.frames) \in Nat /\ Len(q.frames) \in Nat
      /\ Len(p.tree) <= Len(q.tree) /\ Len(p.frames) <= Len(q.frames)
  BY ProfFields DEF Tables, Grow
<1> DEFINE P == 0 .. Len(p.frames) - 1
<1> DEFINE Q == 0 .. Len(q.frames) - 1
<1>2. P \subseteq Q /\ IsFiniteSet(Q) /\ \A id \in P : TotalsOf(p)[id] \in Nat
  BY <1>1, SelfTypes
<1>3. ASSUME NEW n \in 2 .. Len(q.tree)
      PROVE  \/ n \in 2 .. Len(p.tree) /\ q.tree[n] = p.tree[n]
             \/ ~(n \in 2 .. Len(p.tree)) /\ q.tree[n].samples = 0
  <2>1. CASE n \in 2 .. Len(p.tree)
    BY <2>1, <1>1, n \in 1 .. Len(p.tree) DEF Grow
  <2>2. CASE ~(n \in 2 .. Len(p.tree))
    BY <2>2, <1>1, n \in Len(p.tree) + 1 .. Len(q.tree) DEF Grow
  <2>3. QED
    BY <2>1, <2>2
<1>4. ASSUME NEW n \in 2 .. Len(p.tree)
      PROVE  n \in 2 .. Len(q.tree) /\ q.tree[n] = p.tree[n]
  BY <1>1, <1>3
<1>5. ASSUME NEW id \in P
      PROVE  TotalsOf(q)[id] = TotalsOf(p)[id]
  <2>1. NodesOf(p, id) \subseteq NodesOf(q, id) /\ IsFiniteSet(NodesOf(q, id))
    BY <1>4, SelfTypes DEF NodesOf
  <2>2. \A n \in NodesOf(p, id) : SelfOf(p)[n] \in Nat /\ SelfOf(q)[n] = SelfOf(p)[n]
    BY <1>4, SelfTypes DEF NodesOf
  <2>3. \A n \in NodesOf(q, id) \ NodesOf(p, id) : SelfOf(q)[n] = 0
    BY <1>3, SelfTypes DEF NodesOf
  <2>4. SumFunctionOnSet(SelfOf(q), NodesOf(q, id)) = SumFunctionOnSet(SelfOf(p), NodesOf(p, id))
    BY <2>1, <2>2, <2>3, SumWider
  <2>5. QED
    BY <2>4, <1>2 DEF TotalsOf
<1>6. ASSUME NEW id \in Q \ P
      PROVE  TotalsOf(q)[id] = 0
  <2>1. \A n \in NodesOf(q, id) \ {} : SelfOf(q)[n] = 0
    <3>1. SUFFICES ASSUME NEW n \in 2 .. Len(q.tree), q.tree[n].frame = id + 1
                   PROVE  SelfOf(q)[n] = 0
      BY DEF NodesOf
    <3>2. id + 1 > Len(p.frames)
      BY <1>1
    <3>3. ~(n \in 2 .. Len(p.tree))
      <4>1. SUFFICES ASSUME n \in 2 .. Len(p.tree)
                     PROVE  FALSE
        OBVIOUS
      <4>2. p.tree[n].frame \in 1 .. Len(p.frames) /\ p.tree[n].frame = id + 1
        BY <1>4, <3>1, <4>1 DEF Tables, TreeOK
      <4>3. QED
        BY <3>2, <4>2, <1>1
    <3>4. q.tree[n].samples = 0
      BY <1>3, <3>3
    <3>5. QED
      BY <3>4, SelfTypes
  <2>2. IsFiniteSet(NodesOf(q, id)) /\ {} \subseteq NodesOf(q, id)
    BY SelfTypes
  <2>3. SumFunctionOnSet(SelfOf(q), NodesOf(q, id)) = SumFunctionOnSet(SelfOf(q), {})
    BY <2>1, <2>2, SumWider
  <2>4. QED
    BY <2>3, SumNone DEF TotalsOf
<1> HIDE DEF P, Q
<1>7. SumFunctionOnSet(TotalsOf(q), Q) = SumFunctionOnSet(TotalsOf(p), P)
  BY <1>2, <1>5, <1>6, SumWider
<1>8. QED
  BY <1>7 DEF TotalsAddUp, Grow, P, Q

(* ... and no sum over the paths ... *)
LEMMA GrowKeepsPaths ==
    ASSUME NEW p, Tables(p), NEW q, Tables(q), Grow(p, q), NEW tk, TakenOK(tk), PathsAddUp(p, tk)
    PROVE  PathsAddUp(q, tk)
<1> DEFINE S == PathSet(p, tk)
<1> DEFINE T == PathSet(q, tk)
<1> DEFINE f == [path \in S |-> ShownBy(p, path)]
<1> DEFINE g == [path \in T |-> ShownBy(q, path)]
<1>1. Len(p.tree) \in Nat /\ Len(q.tree) \in Nat /\ Len(p.tree) <= Len(q.tree)
  BY ProfFields DEF Tables, Grow
<1>2. ASSUME NEW n \in 2 .. Len(p.tree)
      PROVE  n \in 2 .. Len(q.tree) /\ NodePath(q, n) = NodePath(p, n)
  <2>1. n \in 2 .. Len(q.tree) /\ n \in 1 .. Len(p.tree)
    BY <1>1
  <2>2. QED
    BY <2>1, GrowSameEdges, NodePathStable
<1>3. S \subseteq T
  BY <1>2 DEF PathSet
<1>4. IsFiniteSet(T)
  BY PathSetFinite
<1>5. \A path : ShownBy(q, path) = ShownBy(p, path) /\ ShownBy(p, path) \in Nat
  BY ShownGrow, ShownType
<1>6. ASSUME NEW path \in T \ S
      PROVE  ShownBy(p, path) = 0
  <2>1. \A n \in 2 .. Len(p.tree) : NodePath(p, n) # path
    BY DEF PathSet
  <2>2. QED
    BY <2>1, ShownValue
<1> HIDE DEF S, T
<1>7. \A path \in S : f[path] \in Nat /\ g[path] = f[path]
  BY <1>3, <1>5
<1>8. \A path \in T \ S : g[path] = 0
  BY <1>5, <1>6
<1> HIDE DEF f, g
<1>9. SumFunctionOnSet(g, T) = SumFunctionOnSet(f, S)
  BY <1>3, <1>4, <1>7, <1>8, SumWider
<1>10. QED
  BY <1>9 DEF PathsAddUp, Grow, S, T, f, g

(* ... so that what was right about a profile stays right. *)
LEMMA GrowKeepsProfile ==
    ASSUME NEW p, Tables(p), NEW q, Tables(q), Grow(p, q), NEW tk, TakenOK(tk), ProfileOK(p, tk)
    PROVE  ProfileOK(q, tk)
<1>1. \A path : ShownBy(q, path) = ShownBy(p, path)
  BY ShownGrow
<1>2. q.frameHits = 0 => p.frameHits = 0
  BY ProfFields DEF Tables, Grow
<1>3. StackByStack(q, tk)
  BY <1>1 DEF ProfileOK, StackByStack
<1>4. MarkerByMarker(q, tk)
  BY <1>1, <1>2 DEF ProfileOK, MarkerByMarker
<1>5. QED
  BY <1>3, <1>4, GrowKeepsPaths, GrowKeepsTotals DEF ProfileOK

(* The marker is recognised, and no path is lost behind it. *)
LEMMA MarkedFacts ==
    ASSUME NEW s \in SomePaths, NEW t \in SomePaths
    PROVE  /\ Head(Marked(s)) = TruncatedFrame
           /\ Marked(s) = Marked(t) => s = t
<1> DEFINE one == <<TruncatedFrame>>
<1>1. /\ one \in Seq(Identities) /\ Len(one) = 1 /\ one[1] = TruncatedFrame
      /\ s \in Seq(Identities) /\ t \in Seq(Identities) /\ Len(s) \in Nat
  BY DEF Identities, SomePaths
<1> HIDE DEF one
<1>2. /\ one \o s \in Seq(Identities) /\ Len(one \o s) = Len(one) + Len(s)
      /\ \A i \in 1 .. Len(one) + Len(s) :
            (one \o s)[i] = IF i <= Len(one) THEN one[i] ELSE s[i - Len(one)]
  BY <1>1, ConcatProperties, Zenon
<1>3. Head(one \o s) = TruncatedFrame
  <2>1. 1 \in 1 .. Len(one) + Len(s) /\ 1 <= Len(one)
    BY <1>1
  <2>2. (one \o s)[1] = TruncatedFrame /\ one \o s # <<>>
    BY <1>1, <1>2, <2>1
  <2> DEFINE u == one \o s
  <2>3. u \in Seq(Identities) /\ u[1] = TruncatedFrame
    BY <1>2, <2>2
  <2> HIDE DEF u
  <2>4. Head(u) = TruncatedFrame
    BY <2>3
  <2>5. QED
    BY <2>4 DEF u
<1>4. one \o s = one \o t => s = t
  BY <1>1, ConcatSimplifications
<1>5. QED
  BY <1>3, <1>4 DEF Marked, one

(* The ghost after a sample. *)
Plus(tk, path, w) ==
    [q \in DOMAIN tk \cup {path} |->
        (IF q \in DOMAIN tk THEN tk[q] ELSE 0) + (IF q = path THEN w ELSE 0)]

(* The ghost counts the sample for its path and for no other. *)
LEMMA PlusTaken ==
    ASSUME NEW tk, TakenOK(tk), NEW path \in SomePaths, NEW w \in Nat
    PROVE  /\ TakenOK(Plus(tk, path, w))
           /\ \A q : TakenBy(tk, q) \in Nat
           /\ \A q : TakenBy(Plus(tk, path, w), q) = TakenBy(tk, q) + IF q = path THEN w ELSE 0
<1>1. \A q : TakenBy(tk, q) \in Nat
  BY DEF TakenOK, TakenBy
<1>2. DOMAIN Plus(tk, path, w) = DOMAIN tk \cup {path}
  BY DEF Plus
<1>3. \A q \in DOMAIN tk \cup {path} :
        Plus(tk, path, w)[q] = TakenBy(tk, q) + IF q = path THEN w ELSE 0
  BY DEF Plus, TakenBy
<1>4. ASSUME NEW q
      PROVE  TakenBy(Plus(tk, path, w), q) = TakenBy(tk, q) + IF q = path THEN w ELSE 0
  <2>1. CASE q \in DOMAIN tk \cup {path}
    BY <2>1, <1>2, <1>3 DEF TakenBy
  <2>2. CASE q \notin DOMAIN tk \cup {path}
    BY <2>2, <1>2 DEF TakenBy
  <2>3. QED
    BY <2>1, <2>2
<1>5. IsFiniteSet(DOMAIN tk \cup {path})
  BY FS_AddElement DEF TakenOK
<1>6. \A q \in DOMAIN tk \cup {path} : Plus(tk, path, w)[q] \in Nat
  BY <1>1, <1>3
<1>7. TakenOK(Plus(tk, path, w))
  BY <1>2, <1>5, <1>6 DEF TakenOK
<1>8. QED
  BY <1>1, <1>4, <1>7

(* A sample adds its weight to the total of one function ... *)
LEMMA RecordKeepsTotals ==
    ASSUME NEW p, Tables(p), NEW q, Tables(q), NEW n \in 2 .. Len(p.tree), NEW w \in Nat,
           Recorded(p, q, n, w), q.samples = p.samples + w, TotalsAddUp(p)
    PROVE  TotalsAddUp(q)
<1> DEFINE D == 0 .. Len(p.frames) - 1
<1> DEFINE home == p.tree[n].frame - 1
<1>1. /\ Len(p.tree) \in Nat /\ Len(q.tree) = Len(p.tree) /\ Len(p.frames) \in Nat
      /\ q.frames = p.frames
  BY ProfFields DEF Tables, Recorded
<1>2. p.tree[n].frame \in 1 .. Len(p.frames)
  BY DEF Tables, TreeOK
<1>3. home \in D /\ home + 1 = p.tree[n].frame
  BY <1>1, <1>2
<1>4. ASSUME NEW m \in 2 .. Len(p.tree)
      PROVE  /\ q.tree[m].frame = p.tree[m].frame
             /\ SelfOf(p)[m] \in Nat
             /\ SelfOf(q)[m] = SelfOf(p)[m] + IF m = n THEN w ELSE 0
  <2>1. m \in 1 .. Len(p.tree) /\ m \in 2 .. Len(q.tree)
    BY <1>1
  <2>2. SelfOf(p)[m] = p.tree[m].samples /\ SelfOf(p)[m] \in Nat /\ SelfOf(q)[m] = q.tree[m].samples
    BY <2>1, SelfTypes
  <2>3. QED
    BY <2>1, <2>2 DEF Recorded
<1>5. \A id : NodesOf(q, id) = NodesOf(p, id)
  BY <1>1, <1>4 DEF NodesOf
<1>6. ASSUME NEW id
      PROVE  IsFiniteSet(NodesOf(p, id)) /\ \A m \in NodesOf(p, id) : SelfOf(p)[m] \in Nat
  BY <1>4, SelfTypes DEF NodesOf
<1>7. TotalsOf(q)[home] = TotalsOf(p)[home] + w
  <2>1. n \in NodesOf(p, home)
    BY <1>3 DEF NodesOf
  <2>2. SelfOf(q)[n] = SelfOf(p)[n] + w
    BY <1>4
  <2>3. \A m \in NodesOf(p, home) \ {n} : SelfOf(q)[m] = SelfOf(p)[m]
    BY <1>4 DEF NodesOf
  <2> HIDE DEF home
  <2>4. SumFunctionOnSet(SelfOf(q), NodesOf(p, home)) = SumFunctionOnSet(SelfOf(p), NodesOf(p, home)) + w
    BY <1>6, <2>1, <2>2, <2>3, SumBump
  <2>5. QED
    BY <1>1, <1>3, <1>5, <2>4 DEF TotalsOf
<1>8. ASSUME NEW id \in D \ {home}
      PROVE  TotalsOf(q)[id] = TotalsOf(p)[id]
  <2>1. n \notin NodesOf(p, id)
    BY <1>1, <1>2 DEF NodesOf
  <2>2. \A m \in NodesOf(p, id) : SelfOf(q)[m] = SelfOf(p)[m]
    BY <1>4, <2>1 DEF NodesOf
  <2>3. SumFunctionOnSet(SelfOf(q), NodesOf(p, id)) = SumFunctionOnSet(SelfOf(p), NodesOf(p, id))
    BY <1>6, <2>2, SumSame
  <2>4. QED
    BY <1>1, <1>5, <2>3 DEF TotalsOf
<1>9. IsFiniteSet(D) /\ \A id \in D : TotalsOf(p)[id] \in Nat
  BY SelfTypes
<1> HIDE DEF D, home
<1>10. SumFunctionOnSet(TotalsOf(q), D) = SumFunctionOnSet(TotalsOf(p), D) + w
  BY <1>3, <1>7, <1>8, <1>9, SumBump
<1>11. QED
  BY <1>1, <1>10 DEF TotalsAddUp, D

(* ... and to one path. *)
LEMMA RecordKeepsPaths ==
    ASSUME NEW p, Tables(p), NEW q, Tables(q), NEW n \in 2 .. Len(p.tree), NEW w \in Nat,
           Recorded(p, q, n, w), q.samples = p.samples + w,
           NEW tk, TakenOK(tk), PathsAddUp(p, tk), NEW path \in SomePaths
    PROVE  PathsAddUp(q, Plus(tk, path, w))
<1> DEFINE tk2 == Plus(tk, path, w)
<1> DEFINE S == PathSet(p, tk)
<1> DEFINE T == PathSet(q, tk2)
<1> DEFINE f == [x \in S |-> ShownBy(p, x)]
<1> DEFINE e == [x \in T |-> ShownBy(p, x)]
<1> DEFINE g == [x \in T |-> ShownBy(q, x)]
<1>1. Len(p.tree) \in Nat /\ Len(q.tree) = Len(p.tree)
  BY ProfFields DEF Tables, Recorded
<1>2. ASSUME NEW m \in 2 .. Len(p.tree)
      PROVE  NodePath(q, m) = NodePath(p, m)
  <2>1. SameEdges(p, q)
    BY <1>1 DEF Recorded, SameEdges
  <2>2. m \in 1 .. Len(p.tree)
    BY <1>1
  <2>3. QED
    BY <2>1, <2>2, NodePathStable
<1>3. T = S \cup {path}
  <2>1. DOMAIN tk2 = DOMAIN tk \cup {path}
    BY DEF Plus
  <2> HIDE DEF tk2
  <2>2. QED
    BY <2>1, <1>1, <1>2 DEF PathSet
<1>4. TakenOK(tk2)
  BY PlusTaken
<1>5. IsFiniteSet(T)
  <2> HIDE DEF tk2
  <2>1. QED
    BY <1>4, PathSetFinite
<1>6. \A x : ShownBy(p, x) \in Nat /\ ShownBy(q, x) = ShownBy(p, x) + IF x = NodePath(p, n) THEN w ELSE 0
  BY ShownRecord, ShownType
<1>7. ASSUME NEW x \in T \ S
      PROVE  ShownBy(p, x) = 0
  <2>1. \A m \in 2 .. Len(p.tree) : NodePath(p, m) # x
    BY DEF PathSet
  <2>2. QED
    BY <2>1, ShownValue
<1>8. NodePath(p, n) \in T
  BY <1>3 DEF PathSet
<1> HIDE DEF S, T
<1>9. SumFunctionOnSet(e, T) = SumFunctionOnSet(f, S)
  <2>1. \A x \in S : f[x] \in Nat /\ e[x] = f[x]
    BY <1>3, <1>6
  <2>2. \A x \in T \ S : e[x] = 0
    BY <1>7
  <2> HIDE DEF e, f
  <2>3. QED
    BY <2>1, <2>2, <1>3, <1>5, SumWider
<1>10. SumFunctionOnSet(g, T) = SumFunctionOnSet(e, T) + w
  <2> DEFINE x == NodePath(p, n)
  <2>1. \A y \in T : e[y] \in Nat
    BY <1>6
  <2>2. g[x] = e[x] + w
    BY <1>6, <1>8
  <2>3. \A y \in T \ {x} : g[y] = e[y]
    BY <1>6
  <2> HIDE DEF x, e, g
  <2>4. x \in T
    BY <1>8 DEF x
  <2>5. QED
    BY <2>1, <2>2, <2>3, <2>4, <1>5, SumBump
<1>11. QED
  BY <1>9, <1>10 DEF PathsAddUp, S, T, f, g

(* A sample recorded on its path, or without its marker once a frame has   *)
(* been refused, keeps the profile right.                                  *)
LEMMA RecordKeepsProfile ==
    ASSUME NEW p, Tables(p), NEW q, Tables(q), NEW n \in 2 .. Len(p.tree), NEW w \in Nat,
           Recorded(p, q, n, w), q.samples = p.samples + w, q.frameHits = p.frameHits,
           NEW tk, TakenOK(tk), ProfileOK(p, tk), NEW path,
           \/ path = NodePath(p, n)
           \/ /\ path = Marked(NodePath(p, n))
              /\ Head(NodePath(p, n)) # TruncatedFrame
              /\ p.frameHits > 0
    PROVE  ProfileOK(q, Plus(tk, path, w)) /\ TakenOK(Plus(tk, path, w))
<1> DEFINE tk2 == Plus(tk, path, w)
<1> DEFINE np == NodePath(p, n)
<1>1. np \in SomePaths
  <2>1. n \in 1 .. Len(p.tree)
    BY ProfFields DEF Tables
  <2>2. QED
    BY <2>1, NodePathFacts, NodePathNonempty DEF SomePaths
<1>2. path \in SomePaths
  BY <1>1, MarkedIsPath
<1>3. \A x : ShownBy(p, x) \in Nat /\ ShownBy(q, x) = ShownBy(p, x) + IF x = np THEN w ELSE 0
  BY ShownRecord, ShownType
<1>4. /\ TakenOK(tk2) /\ \A x : TakenBy(tk, x) \in Nat
      /\ \A x : TakenBy(tk2, x) = TakenBy(tk, x) + IF x = path THEN w ELSE 0
  BY <1>2, PlusTaken
<1>5. \/ path = np
      \/ path = Marked(np) /\ Head(np) # TruncatedFrame /\ p.frameHits > 0
  OBVIOUS
<1>6. ASSUME NEW x \in SomePaths, Head(x) # TruncatedFrame
      PROVE  ShownBy(q, x) + ShownBy(q, Marked(x)) = TakenBy(tk2, x) + TakenBy(tk2, Marked(x))
  <2>1. ShownBy(p, x) + ShownBy(p, Marked(x)) = TakenBy(tk, x) + TakenBy(tk, Marked(x))
    BY <1>6 DEF ProfileOK, StackByStack
  <2>2. CASE path = np
    <3> HIDE DEF tk2, np
    <3>1. QED
      BY <2>1, <2>2, <1>3, <1>4
  <2>3. CASE path = Marked(np) /\ Head(np) # TruncatedFrame
    <3>1. Marked(x) # np
      BY <2>3, <1>1, MarkedFacts
    <3>2. x # path
      BY <2>3, <1>1, <1>6, MarkedFacts
    <3>3. Marked(x) = path <=> x = np
      BY <2>3, <1>1, MarkedFacts
    <3> HIDE DEF tk2, np
    <3>4. ShownBy(q, x) = ShownBy(p, x) + (IF x = np THEN w ELSE 0) /\ ShownBy(q, Marked(x)) = ShownBy(p, Marked(x))
      BY <3>1, <1>3
    <3>5. TakenBy(tk2, x) = TakenBy(tk, x) /\ TakenBy(tk2, Marked(x)) = TakenBy(tk, Marked(x)) + IF x = np THEN w ELSE 0
      BY <3>2, <3>3, <1>4
    <3>6. QED
      BY <2>1, <3>4, <3>5, <1>3, <1>4
  <2>4. QED
    BY <2>2, <2>3, <1>5
<1>7. StackByStack(q, tk2)
  BY <1>6 DEF StackByStack
<1>8. MarkerByMarker(q, tk2)
  <2>1. SUFFICES ASSUME q.frameHits = 0, NEW x \in SomePaths
                 PROVE  ShownBy(q, x) = TakenBy(tk2, x)
    BY DEF MarkerByMarker
  <2>2. path = np
    BY <2>1, <1>5
  <2>3. ShownBy(p, x) = TakenBy(tk, x)
    BY <2>1 DEF ProfileOK, MarkerByMarker
  <2> HIDE DEF tk2, np
  <2>4. QED
    BY <2>2, <2>3, <1>3, <1>4
<1>9. PathsAddUp(q, tk2) /\ TotalsAddUp(q)
  BY <1>2, RecordKeepsPaths, RecordKeepsTotals DEF ProfileOK
<1>10. QED
  BY <1>4, <1>7, <1>8, <1>9 DEF ProfileOK

-----------------------------------------------------------------------------
(* The collection *)

(* The walk w has visited the first c frames of its stack. *)
Visited(p, w, c) ==
    /\ Len(w.left) = Len(w.chain) - c
    /\ \A k \in 1 .. Len(w.left) : w.left[k] = w.chain[c + k]
    /\ Names(p.frames, w.ids) = CalledIn(w.chain)[c]

(* What the node and the ids still to descend amount to. *)
Destination(p, w) == NodePath(p, w.node) \o Rest(p.frames, w.ids)

(* The sample goes where its stack says; or nothing was called, and the    *)
(* engine frame is still to be added; or the stack was cut and there was   *)
(* no room for the marker.                                                 *)
OnPath(p, w) == Destination(p, w) = PathOf(w.chain) /\ Destination(p, w) # <<>>
OnEngine(w) ==
    /\ w.node = 1 /\ ~w.truncated /\ w.ids = <<>>
    /\ PathOf(w.chain) = <<EngineFrame>>
OffMarker(p, w) ==
    /\ p.frameHits > 0
    /\ Destination(p, w) \in Seq(Functions) /\ Destination(p, w) # <<>>
    /\ PathOf(w.chain) = Marked(Destination(p, w))

Within(p, w) ==
    /\ w \in Walk
    /\ w.node \in 1 .. Len(p.tree)
    /\ \A k \in 1 .. Len(w.ids) : w.ids[k] \in 1 .. Len(p.frames)
Walking(p, w) ==
    /\ w.node = 1 /\ ~w.truncated /\ Len(w.ids) <= MaxDepth
    /\ \E c \in 0 .. Len(w.chain) : Visited(p, w, c)
Marking(p, w) ==
    LET rest == Rest(p.frames, w.ids)
    IN  /\ w.node = 1
        /\ rest \in Seq(Functions)
        /\ rest = <<>> => ~w.truncated /\ PathOf(w.chain) = <<EngineFrame>>
        /\ rest # <<>> => PathOf(w.chain) = IF w.truncated THEN Marked(rest) ELSE rest
Descending(p, w) == OnPath(p, w) \/ OnEngine(w) \/ OffMarker(p, w)

WalkInv ==
    /\ pc \in {"idle", "walk", "mark", "descend"}
    /\ Within(prof, walk)
    /\ pc = "idle" => walk = NoWalk
    /\ pc # "idle" => walk.chain \in Chains /\ walk.weight \in Weights
    /\ pc = "walk" => Walking(prof, walk)
    /\ pc = "mark" => Marking(prof, walk)
    /\ pc = "descend" => Descending(prof, walk)

(* Every tick is recorded, dropped or on its way. *)
Conserved ==
    /\ given \in Nat
    /\ prof.samples + prof.dropped + walk.weight = given

(* The inductive invariant. *)
SamplesInv ==
    /\ Tables(prof)
    /\ WalkInv
    /\ Conserved
    /\ TakenOK(taken)
    /\ ProfileOK(prof, taken)

-----------------------------------------------------------------------------

(* The types of the locals of a collection. *)
LEMMA WalkFields ==
    ASSUME NEW w \in Walk
    PROVE  /\ w.left \in Stack /\ Len(w.left) \in Nat
           /\ w.ids \in Seq(1 .. MaxFrames) /\ Len(w.ids) \in Nat
           /\ w.truncated \in BOOLEAN /\ w.node \in 1 .. MaxNodes
           /\ w.weight \in Nat /\ w.weight \in Weights \cup {0}
           /\ w.chain \in Stack /\ Len(w.chain) \in Nat
           /\ w.chain \in Chains \cup {<<>>}
<1>1. w.left \in Stack /\ w.ids \in Seq(1 .. MaxFrames) /\ w.chain \in Chains \cup {<<>>}
      /\ w.truncated \in BOOLEAN /\ w.node \in 1 .. MaxNodes /\ w.weight \in Weights \cup {0}
  BY DEF Walk, Stack
<1>2. Weights \subseteq Nat /\ Chains \subseteq Stack
  BY SamplesAssumption DEF Stack
<1>3. w.weight \in Nat /\ w.chain \in Stack
  <2>1. w.weight \in Nat
    <3>1. w.weight \in Weights \/ w.weight = 0
      BY <1>1, Zenon
    <3>2. 0 \in Nat
      OBVIOUS
    <3>3. QED
      BY <3>1, <3>2, <1>2, Zenon
  <2>2. <<>> \in Stack
    BY DEF Stack
  <2>3. w.chain \in Stack
    <3>1. CASE w.chain \in Chains
      BY <3>1, <1>2
    <3>2. CASE w.chain = <<>>
      BY <3>2, <2>2
    <3>3. QED
      BY <1>1, <3>1, <3>2
  <2>4. QED
    BY <2>1, <2>3
<1>4. QED
  BY <1>1, <1>3 DEF Stack

(* There is nothing to say between two collections. *)
LEMMA NoWalkWithin ==
    ASSUME NEW p, Tables(p)
    PROVE  Within(p, NoWalk) /\ NoWalk.weight = 0
<1>1. MaxNodes \in Nat /\ MaxNodes >= 1
  BY SamplesAssumption
<1>2. NoWalk \in Walk
  BY <1>1 DEF NoWalk, Walk
<1>3. 1 \in 1 .. Len(p.tree)
  BY <1>1 DEF Tables, TreeOK
<1>4. QED
  BY <1>2, <1>3 DEF Within, NoWalk

(* The ids a walk holds mean the same after the tables have grown. *)
LEMMA GrowWithin ==
    ASSUME NEW p, Tables(p), NEW q, Tables(q), Grow(p, q), NEW w, Within(p, w)
    PROVE  /\ Within(q, w)
           /\ Names(q.frames, w.ids) = Names(p.frames, w.ids)
           /\ Rest(q.frames, w.ids) = Rest(p.frames, w.ids)
           /\ NodePath(q, w.node) = NodePath(p, w.node)
<1>1. /\ Len(p.frames) \in Nat /\ Len(q.frames) \in Nat /\ Len(p.tree) \in Nat /\ Len(q.tree) \in Nat
      /\ Len(p.frames) <= Len(q.frames) /\ Len(p.tree) <= Len(q.tree)
      /\ \A i \in 1 .. Len(p.frames) : q.frames[i] = p.frames[i]
  BY ProfFields DEF Tables, Grow
<1>2. w \in Walk /\ Len(w.ids) \in Nat /\ w.node \in 1 .. Len(p.tree)
      /\ \A k \in 1 .. Len(w.ids) : w.ids[k] \in 1 .. Len(p.frames)
  BY WalkFields DEF Within
<1>3. Within(q, w)
  BY <1>1, <1>2 DEF Within
<1>4. Names(q.frames, w.ids) = Names(p.frames, w.ids)
  BY <1>1, <1>2 DEF Names
<1>5. Rest(q.frames, w.ids) = Rest(p.frames, w.ids)
  <2>1. ASSUME NEW k \in 1 .. Len(w.ids)
        PROVE  q.frames[w.ids[Len(w.ids) + 1 - k]] = p.frames[w.ids[Len(w.ids) + 1 - k]]
    <3>1. Len(w.ids) + 1 - k \in 1 .. Len(w.ids)
      BY <1>2
    <3>2. QED
      BY <3>1, <1>1, <1>2
  <2>2. QED
    BY <2>1 DEF Rest
<1>6. NodePath(q, w.node) = NodePath(p, w.node)
  BY <1>2, GrowSameEdges, NodePathStable
<1>7. QED
  BY <1>3, <1>4, <1>5, <1>6

(* The types of the two parts of a destination. *)
LEMMA RestType ==
    ASSUME NEW p, Tables(p), NEW w, Within(p, w)
    PROVE  /\ Rest(p.frames, w.ids) \in Seq(Identities)
           /\ Len(Rest(p.frames, w.ids)) = Len(w.ids)
           /\ NodePath(p, w.node) \in Seq(Identities)
<1>1. Len(w.ids) \in Nat /\ p.frames \in Seq(Identities)
      /\ \A k \in 1 .. Len(w.ids) : w.ids[k] \in 1 .. Len(p.frames)
  BY WalkFields, ProfFields DEF Within, Tables
<1>2. ASSUME NEW k \in 1 .. Len(w.ids)
      PROVE  p.frames[w.ids[Len(w.ids) + 1 - k]] \in Identities
  <2>1. Len(w.ids) + 1 - k \in 1 .. Len(w.ids)
    BY <1>1
  <2>2. QED
    BY <2>1, <1>1
<1>3. Rest(p.frames, w.ids) \in [1 .. Len(w.ids) -> Identities]
  BY <1>2 DEF Rest
<1> DEFINE r == Rest(p.frames, w.ids)
<1> HIDE DEF r
<1>4. r \in Seq(Identities) /\ Len(r) = Len(w.ids)
  BY <1>1, <1>3 DEF r
<1>5. QED
  BY <1>4, NodePathFacts DEF r, Within

(* One step of the descent takes the first function off the rest. *)
LEMMA RestStep ==
    ASSUME NEW frames \in Seq(Identities), NEW ids \in Seq(1 .. MaxFrames), ids # <<>>,
           \A k \in 1 .. Len(ids) : ids[k] \in 1 .. Len(frames), NEW s \in Seq(Identities)
    PROVE  LET front == SubSeq(ids, 1, Len(ids) - 1)
           IN  /\ front \in Seq(1 .. MaxFrames)
               /\ \A k \in 1 .. Len(front) : front[k] \in 1 .. Len(frames)
               /\ Append(s, frames[ids[Len(ids)]]) \o Rest(frames, front) = s \o Rest(frames, ids)
<1> DEFINE n == Len(ids)
<1> DEFINE front == SubSeq(ids, 1, n - 1)
<1> DEFINE e == frames[ids[n]]
<1> DEFINE r == Rest(frames, front)
<1> DEFINE t == Rest(frames, ids)
<1>1. n \in Nat /\ n >= 1
  BY EmptySeq
<1>2. /\ front \in Seq(1 .. MaxFrames) /\ Len(front) = n - 1
      /\ \A k \in 1 .. n - 1 : front[k] = ids[k]
  <2>0. \A k \in 1 .. n : ids[k] \in 1 .. MaxFrames
    BY ElementOfSeq
  <2>1. n - 1 \in Int /\ 1 \in Int /\ (n - 1) - 1 + 1 = n - 1
        /\ \A k \in 1 .. n - 1 : k \in 1 .. n
    BY <1>1
  <2> DEFINE m == n - 1
  <2>2. m \in Int /\ m >= 0 /\ m - 1 + 1 = m /\ \A k \in 1 .. m : ids[k] \in 1 .. MaxFrames
    BY <2>0, <2>1, <1>1
  <2> HIDE DEF m
  <2>3. /\ SubSeq(ids, 1, m) \in Seq(1 .. MaxFrames)
        /\ Len(SubSeq(ids, 1, m)) = IF 1 <= m THEN m - 1 + 1 ELSE 0
        /\ \A i \in 1 .. m - 1 + 1 : SubSeq(ids, 1, m)[i] = ids[1 + i - 1]
    BY <2>1, <2>2, SubSeqProperties
  <2>4. \A i \in 1 .. m : 1 + i - 1 = i
    BY <2>2
  <2>5. Len(SubSeq(ids, 1, m)) = m /\ \A i \in 1 .. m : SubSeq(ids, 1, m)[i] = ids[i]
    BY <2>2, <2>3, <2>4
  <2>6. QED
    BY <2>3, <2>5 DEF m
<1>3. \A k \in 1 .. n : frames[ids[k]] \in Identities
  OBVIOUS
<1> HIDE DEF front
<1>4. e \in Identities
  BY <1>1, <1>3
<1>5. r = [k \in 1 .. n - 1 |-> frames[ids[n - k]]]
  <2>1. ASSUME NEW k \in 1 .. n - 1
        PROVE  frames[front[Len(front) + 1 - k]] = frames[ids[n - k]]
    <3>1. Len(front) + 1 - k = n - k /\ n - k \in 1 .. n - 1
      BY <1>1, <1>2
    <3>2. QED
      BY <3>1, <1>2
  <2>2. QED
    BY <2>1, <1>2 DEF Rest
<1>6. t = [k \in 1 .. n |-> frames[ids[n + 1 - k]]]
  BY DEF Rest
<1>7. r \in Seq(Identities) /\ Len(r) = n - 1
  <2>1. \A k \in 1 .. n - 1 : n - k \in 1 .. n
    BY <1>1
  <2>2. r \in [1 .. n - 1 -> Identities]
    BY <1>3, <1>5, <2>1
  <2> HIDE DEF r
  <2>3. n - 1 \in Nat
    BY <1>1
  <2> DEFINE m == n - 1
  <2> HIDE DEF m
  <2>4. m \in Nat /\ r \in [1 .. m -> Identities]
    BY <2>2, <2>3 DEF m
  <2>5. r \in Seq(Identities) /\ Len(r) = m
    BY <2>4
  <2>6. QED
    BY <2>5 DEF m
<1>8. t \in Seq(Identities) /\ Len(t) = n
  <2>1. \A k \in 1 .. n : n + 1 - k \in 1 .. n
    BY <1>1
  <2>2. t \in [1 .. n -> Identities]
    BY <1>3, <1>6, <2>1
  <2> HIDE DEF t
  <2>3. n \in Nat
    BY <1>1
  <2> DEFINE m == n
  <2> HIDE DEF m
  <2>4. m \in Nat /\ t \in [1 .. m -> Identities]
    BY <2>2, <2>3 DEF m
  <2>5. t \in Seq(Identities) /\ Len(t) = m
    BY <2>4
  <2>6. QED
    BY <2>5 DEF m
<1> HIDE DEF r, t, e
<1>9. t = <<e>> \o r
  <2> DEFINE u == <<e>>
  <2>1. u \in Seq(Identities) /\ Len(u) = 1 /\ u[1] = e
    BY <1>4
  <2> HIDE DEF u
  <2>2. /\ u \o r \in Seq(Identities) /\ Len(u \o r) = Len(u) + Len(r)
        /\ \A i \in 1 .. Len(u) + Len(r) : (u \o r)[i] = IF i <= Len(u) THEN u[i] ELSE r[i - Len(u)]
    BY <2>1, <1>7, ConcatProperties, Zenon
  <2>3. Len(u \o r) = n /\ Len(u) + Len(r) = n
    BY <2>1, <2>2, <1>1, <1>7
  <2>4. ASSUME NEW i \in 1 .. n
        PROVE  t[i] = (u \o r)[i]
    <3>1. CASE i = 1
      <4>1. t[1] = frames[ids[n]]
        BY <1>1, <1>6
      <4>2. QED
        BY <3>1, <4>1, <2>1, <2>2, <2>3 DEF e
    <3>2. CASE i # 1
      <4>1. i - 1 \in 1 .. n - 1 /\ ~(i <= 1) /\ n - (i - 1) = n + 1 - i
        BY <3>2, <1>1
      <4>2. r[i - 1] = frames[ids[n + 1 - i]]
        BY <4>1, <1>5
      <4>3. QED
        BY <4>1, <4>2, <1>6, <2>1, <2>2, <2>3
    <3>3. QED
      BY <3>1, <3>2
  <2>5. t = u \o r
    BY <2>2, <2>3, <2>4, <1>8, SeqEqual
  <2>6. QED
    BY <2>5 DEF u
<1>10. Append(s, e) \o r = s \o t
  <2>1. Append(s, e) = s \o <<e>>
    BY <1>4, AppendIsConcat
  <2>2. <<e>> \in Seq(Identities)
    BY <1>4
  <2>3. (s \o <<e>>) \o r = s \o (<<e>> \o r)
    BY <2>2, <1>7, ConcatAssociative
  <2>4. QED
    BY <2>1, <2>3, <1>9
<1>11. \A k \in 1 .. Len(front) : front[k] \in 1 .. Len(frames)
  BY <1>1, <1>2
<1>12. QED
  BY <1>2, <1>10, <1>11 DEF front, e, r, t

-----------------------------------------------------------------------------
(* What the steps of a collection have in common *)

(* A step that only adds entries keeps the counts and the profile. *)
LEMMA StepKeeps ==
    ASSUME SamplesInv, Tables(prof'), Grow(prof, prof'), prof'.dropped = prof.dropped,
           walk'.weight = walk.weight, taken' = taken, given' = given
    PROVE  Conserved' /\ TakenOK(taken)' /\ ProfileOK(prof, taken)'
<1>1. ProfileOK(prof', taken)
  BY GrowKeepsProfile DEF SamplesInv
<1>2. QED
  BY <1>1 DEF SamplesInv, Conserved, Grow

(* A sample that is dropped halfway leaves its entries and adds its weight *)
(* to dropped.                                                             *)
LEMMA DropKeeps ==
    ASSUME SamplesInv, NEW q, Tables(q), Grow(prof, q), q.dropped = prof.dropped, Drop(q)
    PROVE  SamplesInv'
<1>1. walk.weight \in Nat
  BY WalkFields DEF SamplesInv, WalkInv, Within
<1>2. prof' = [q EXCEPT !.dropped = @ + walk.weight]
  BY DEF Drop, Dropped
<1>3. Tables(prof') /\ Grow(q, prof') /\ prof'.dropped = prof.dropped + walk.weight
  BY <1>1, <1>2, DropLemma
<1>4. prof \in Prof /\ q \in Prof /\ prof' \in Prof
  BY <1>3 DEF Tables, SamplesInv
<1>5. Grow(prof, prof')
  BY <1>3, <1>4, GrowTrans
<1>6. ProfileOK(prof', taken)
  BY <1>3, <1>5, GrowKeepsProfile DEF SamplesInv
<1>7. walk' = NoWalk /\ pc' = "idle" /\ given' = given /\ taken' = taken
  BY DEF Drop
<1>8. Within(prof', NoWalk) /\ NoWalk.weight = 0
  BY <1>3, NoWalkWithin
<1>9. WalkInv'
  BY <1>7, <1>8 DEF WalkInv
<1>10. Conserved'
  <2>1. prof.samples \in Nat /\ prof.dropped \in Nat /\ prof'.samples = prof.samples
    BY <1>4, <1>5, ProfFields DEF Grow
  <2>2. QED
    BY <1>1, <1>3, <1>7, <1>8, <2>1 DEF Conserved, SamplesInv
<1>11. QED
  BY <1>3, <1>6, <1>7, <1>9, <1>10 DEF SamplesInv

(* A child of the descent: the sample still goes where it should. *)
Reaches(hits, d, chain) ==
    \/ d = PathOf(chain)
    \/ hits > 0 /\ d \in Seq(Functions) /\ PathOf(chain) = Marked(d)

(* One call of cbox_stacktree_child during the descent. *)
LEMMA DescendStep ==
    ASSUME SamplesInv, NEW p, Tables(p), Grow(prof, p), p.dropped = prof.dropped,
           NEW frame \in 1 .. Len(p.frames), NEW next, Within(p, next),
           next.weight = walk.weight, next.chain = walk.chain,
           walk.chain \in Chains, walk.weight \in Weights,
           Reaches(p.frameHits,
                   Append(NodePath(prof, walk.node), p.frames[frame]) \o Rest(p.frames, next.ids),
                   walk.chain),
           Descend(p, frame, next)
    PROVE  SamplesInv'
<1> DEFINE q == Child(p, walk.node, frame)
<1> DEFINE id == ChildId(p, walk.node, frame)
<1>1. Within(p, walk) /\ NodePath(p, walk.node) = NodePath(prof, walk.node)
  BY GrowWithin DEF SamplesInv, WalkInv
<1>2. walk.node \in 1 .. Len(p.tree)
  BY <1>1 DEF Within
<1>3. ChildKeeps(p, q, walk.node, frame, id)
  BY <1>2, ChildLemma
<1> HIDE DEF q, id
<1>4. Tables(q) /\ Grow(p, q) /\ q.dropped = p.dropped /\ q.frames = p.frames
  BY <1>3 DEF ChildKeeps
<1>5. prof \in Prof /\ p \in Prof /\ q \in Prof
  BY <1>4 DEF SamplesInv, Tables
<1>6. Grow(prof, q) /\ q.dropped = prof.dropped
  BY <1>4, <1>5, GrowTrans
<1>7. CASE id = 0
  <2>1. Drop(q)
    BY <1>7 DEF Descend, q, id
  <2>2. QED
    BY <2>1, <1>4, <1>6, DropKeeps
<1>8. CASE id # 0
  <2>1. /\ prof' = q /\ walk' = [next EXCEPT !.node = id] /\ pc' = "descend"
        /\ given' = given /\ taken' = taken
    BY <1>8 DEF Descend, q, id
  <2>2. id \in 2 .. Len(q.tree) /\ q.tree[id].parent = walk.node /\ q.tree[id].frame = frame
    BY <1>3, <1>8 DEF ChildKeeps
  <2>3. /\ next \in Walk /\ Within(q, next) /\ Rest(q.frames, next.ids) = Rest(p.frames, next.ids)
        /\ NodePath(q, walk.node) = NodePath(p, walk.node)
    BY <1>1, <1>4, GrowWithin DEF Within
  <2>4. Len(q.tree) \in Nat /\ Len(q.tree) <= MaxNodes /\ MaxNodes \in Nat /\ q.frameHits >= p.frameHits
        /\ q.frameHits \in Nat /\ p.frameHits \in Nat
    BY <1>4, <1>5, ProfFields, SamplesAssumption DEF Tables, TreeOK, Grow
  <2>5. id \in 1 .. MaxNodes /\ id \in 1 .. Len(q.tree)
    BY <2>2, <2>4
  <2>6. /\ walk' \in Walk /\ walk'.node = id /\ walk'.ids = next.ids
        /\ walk'.weight = walk.weight /\ walk'.chain = walk.chain
    BY <2>1, <2>3, <2>5 DEF Walk
  <2>7. Within(q, walk')
    BY <2>3, <2>5, <2>6 DEF Within
  <2> DEFINE d == Append(NodePath(prof, walk.node), p.frames[frame]) \o Rest(p.frames, next.ids)
  <2>8. NodePath(q, id) = Append(NodePath(prof, walk.node), p.frames[frame])
    BY <2>2, <2>3, <1>1, <1>4, NodePathFacts
  <2>9. Destination(q, walk') = d
    BY <2>3, <2>6, <2>8 DEF Destination
  <2>10. d # <<>>
    <3>1. NodePath(q, id) \in Seq(Identities) /\ NodePath(q, id) # <<>>
      BY <2>2, <2>5, <1>4, NodePathFacts, NodePathNonempty
    <3>2. Rest(q.frames, walk'.ids) \in Seq(Identities)
      BY <2>7, <1>4, RestType
    <3>3. Destination(q, walk') # <<>>
      BY <3>1, <3>2, <2>6, ConcatEmptySeq DEF Destination
    <3>4. QED
      BY <3>3, <2>9
  <2>11. Reaches(p.frameHits, d, walk.chain)
    OBVIOUS
  <2> HIDE DEF d
  <2>12. Descending(q, walk')
    BY <2>4, <2>6, <2>9, <2>10, <2>11 DEF Descending, OnPath, OffMarker, Reaches
  <2>13. WalkInv'
    BY <2>1, <2>6, <2>7, <2>12 DEF WalkInv
  <2>14. Conserved' /\ TakenOK(taken)' /\ ProfileOK(prof, taken)'
    BY <2>1, <2>6, <1>4, <1>6, StepKeeps
  <2>15. QED
    BY <2>1, <2>13, <2>14, <1>4 DEF SamplesInv
<1>9. QED
  BY <1>7, <1>8

(* The root and an empty rest. *)
LEMMA AtRoot ==
    ASSUME NEW p, Tables(p), NEW w, Within(p, w), NEW e \in Identities
    PROVE  /\ w.ids = <<>> => Destination(p, w) = NodePath(p, w.node) /\ Rest(p.frames, w.ids) = <<>>
           /\ w.node = 1 => /\ Destination(p, w) = Rest(p.frames, w.ids)
                            /\ Append(NodePath(p, w.node), e) = <<e>>
           /\ Rest(p.frames, w.ids) = <<>> => w.ids = <<>>
<1> DEFINE r == Rest(p.frames, w.ids)
<1> DEFINE t == NodePath(p, w.node)
<1>1. r \in Seq(Identities) /\ Len(r) = Len(w.ids) /\ t \in Seq(Identities)
  BY RestType
<1>2. w.ids \in Seq(1 .. MaxFrames)
  BY WalkFields DEF Within
<1>3. (w.ids = <<>>) <=> (r = <<>>)
  <2> HIDE DEF r
  <2>1. QED
    BY <1>1, <1>2, EmptySeq
<1>4. w.node = 1 => t = <<>>
  BY NodePathFacts
<1>5. Destination(p, w) = t \o r
  BY DEF Destination
<1> HIDE DEF r, t
<1>6. r = <<>> => t \o r = t
  BY <1>1, ConcatEmptySeq
<1>7. t = <<>> => t \o r = r
  BY <1>1, ConcatEmptySeq
<1>8. t = <<>> => Append(t, e) = <<e>>
  OBVIOUS
<1>9. QED
  BY <1>3, <1>4, <1>5, <1>6, <1>7, <1>8 DEF r, t

-----------------------------------------------------------------------------
(* The actions *)

(* A collection starts. *)
LEMMA CollectKeeps ==
    ASSUME SamplesInv, NEW chain \in Chains, NEW weight \in Weights, Collect(chain, weight)
    PROVE  SamplesInv'
<1>1. /\ prof' = prof /\ taken' = taken /\ given' = given + weight /\ pc' = "walk"
      /\ walk' = [NoWalk EXCEPT !.left = chain, !.weight = weight, !.chain = chain]
      /\ walk.weight = 0
  BY NoWalkWithin DEF Collect, SamplesInv, WalkInv
<1>2. weight \in Nat /\ chain \in Stack /\ Len(chain) \in Nat
  BY SamplesAssumption DEF Stack
<1>3. /\ walk' \in Walk /\ walk'.left = chain /\ walk'.weight = weight /\ walk'.chain = chain
      /\ walk'.ids = <<>> /\ ~walk'.truncated /\ walk'.node = 1
  <2>1. MaxNodes \in Nat /\ MaxNodes >= 1
    BY SamplesAssumption
  <2>2. <<>> \in Seq(1 .. MaxFrames)
    OBVIOUS
  <2>3. walk' = [left |-> chain, ids |-> <<>>, truncated |-> FALSE, node |-> 1,
                 weight |-> weight, chain |-> chain]
    BY <1>1 DEF NoWalk
  <2>4. chain \in Seq(Functions \cup {NoFunction}) /\ 1 \in 1 .. MaxNodes
        /\ weight \in Weights \cup {0} /\ chain \in Chains \cup {<<>>} /\ FALSE \in BOOLEAN
    BY <1>2, <2>1 DEF Stack
  <2>5. walk' \in Walk
    BY <2>2, <2>3, <2>4, Zenon DEF Walk
  <2>6. QED
    BY <2>3, <2>5
<1>4. Within(prof, walk')
  <2>1. 1 \in 1 .. Len(prof.tree)
    BY DEF SamplesInv, Tables, TreeOK
  <2>2. QED
    BY <1>3, <2>1 DEF Within
<1>5. Walking(prof, walk')
  <2>1. MaxDepth \in Nat
    BY SamplesAssumption
  <2>2. Names(prof.frames, walk'.ids) = <<>>
    BY <1>3 DEF Names
  <2>3. CalledIn(chain)[0] = <<>>
    BY <1>2, CalledFacts
  <2>4. Visited(prof, walk', 0)
    BY <1>2, <1>3, <2>2, <2>3 DEF Visited
  <2>5. 0 \in 0 .. Len(walk'.chain)
    BY <1>2, <1>3
  <2>6. QED
    BY <1>3, <2>1, <2>4, <2>5 DEF Walking
<1>6. WalkInv'
  BY <1>1, <1>3, <1>4, <1>5 DEF WalkInv
<1>7. Conserved'
  <2>1. prof.samples \in Nat /\ prof.dropped \in Nat
    BY ProfFields DEF SamplesInv, Tables
  <2>2. QED
    BY <1>1, <1>2, <1>3, <2>1 DEF Conserved, SamplesInv
<1>8. QED
  BY <1>1, <1>6, <1>7 DEF SamplesInv

(* The next frame of the stack is the head of what is left of it. *)
LEMMA NextFrame ==
    ASSUME NEW p, Tables(p), NEW w, Within(p, w), NEW c \in 0 .. Len(w.chain), Visited(p, w, c),
           w.left # <<>>
    PROVE  /\ c + 1 \in 1 .. Len(w.chain) /\ c \in 0 .. Len(w.chain) - 1
           /\ Head(w.left) = w.chain[c + 1]
           /\ Head(w.left) # NoFunction => Head(w.left) \in Functions
           /\ Tail(w.left) \in Stack
           /\ Len(Tail(w.left)) = Len(w.chain) - (c + 1)
           /\ \A k \in 1 .. Len(Tail(w.left)) : Tail(w.left)[k] = w.chain[(c + 1) + k]
<1>1. w.left \in Stack /\ Len(w.left) \in Nat /\ Len(w.chain) \in Nat
  BY WalkFields DEF Within
<1> DEFINE s == w.left
<1>2. s \in Seq(Functions \cup {NoFunction}) /\ s # <<>>
  BY <1>1 DEF Stack
<1> HIDE DEF s
<1>3. Len(s) \in Nat /\ Len(s) >= 1
  BY <1>2, EmptySeq
<1>4. /\ Head(s) = s[1] /\ s[1] \in Functions \cup {NoFunction}
      /\ Tail(s) \in Seq(Functions \cup {NoFunction}) /\ Len(Tail(s)) = Len(s) - 1
      /\ \A k \in 1 .. Len(Tail(s)) : Tail(s)[k] = s[k + 1]
  BY <1>2, <1>3, HeadTailProperties
<1>5. Len(s) = Len(w.chain) - c /\ \A k \in 1 .. Len(s) : s[k] = w.chain[c + k]
  BY DEF Visited, s
<1>6. c + 1 \in 1 .. Len(w.chain) /\ c \in 0 .. Len(w.chain) - 1
  BY <1>1, <1>3, <1>5
<1>7. Head(s) = w.chain[c + 1]
  BY <1>3, <1>4, <1>5
<1>8. ASSUME NEW k \in 1 .. Len(Tail(s))
      PROVE  Tail(s)[k] = w.chain[(c + 1) + k]
  <2>1. k + 1 \in 1 .. Len(s) /\ c + (k + 1) = (c + 1) + k
    BY <1>3, <1>4
  <2>2. QED
    BY <2>1, <1>4, <1>5
<1>9. Len(Tail(s)) = Len(w.chain) - (c + 1)
  BY <1>1, <1>4, <1>5
<1>10. Head(s) # NoFunction => Head(s) \in Functions
  BY <1>4, Zenon
<1>11. QED
  BY <1>4, <1>6, <1>7, <1>8, <1>9, <1>10 DEF s, Stack

(* A frame without a function is passed over. *)
LEMMA SkipFrameKeeps == SamplesInv /\ SkipFrame => SamplesInv'
<1> SUFFICES ASSUME SamplesInv, SkipFrame PROVE SamplesInv'
  OBVIOUS
<1>1. /\ prof' = prof /\ taken' = taken /\ given' = given /\ pc = "walk" /\ pc' = "walk"
      /\ walk' = [walk EXCEPT !.left = Tail(walk.left)]
      /\ walk.left # <<>> /\ Head(walk.left) = NoFunction
  BY DEF SkipFrame
<1>2. Tables(prof) /\ Within(prof, walk) /\ walk \in Walk /\ Walking(prof, walk)
      /\ walk.chain \in Chains /\ walk.weight \in Weights
  BY <1>1 DEF SamplesInv, WalkInv, Within
<1>3. PICK c \in 0 .. Len(walk.chain) : Visited(prof, walk, c)
  BY <1>2 DEF Walking
<1>4. /\ c + 1 \in 1 .. Len(walk.chain) /\ walk.chain[c + 1] = NoFunction
      /\ Tail(walk.left) \in Stack
      /\ Len(Tail(walk.left)) = Len(walk.chain) - (c + 1)
      /\ \A k \in 1 .. Len(Tail(walk.left)) : Tail(walk.left)[k] = walk.chain[(c + 1) + k]
  BY <1>1, <1>2, <1>3, NextFrame
<1>5. /\ walk' \in Walk /\ walk'.left = Tail(walk.left) /\ walk'.weight = walk.weight
      /\ walk'.chain = walk.chain /\ walk'.ids = walk.ids /\ walk'.truncated = walk.truncated
      /\ walk'.node = walk.node
  BY <1>1, <1>2, <1>4 DEF Walk, Stack
<1>6. Within(prof, walk')
  BY <1>2, <1>5 DEF Within
<1>7. Walking(prof, walk')
  <2>1. walk.chain \in Stack /\ Len(walk.chain) \in Nat
    BY <1>2, WalkFields
  <2>2. c + 1 \in 0 .. Len(walk.chain) /\ (c + 1) - 1 = c
    BY <1>4, <2>1
  <2>3. CalledIn(walk.chain)[c + 1] = CalledIn(walk.chain)[c]
    BY <1>4, <2>1, <2>2, CalledFacts
  <2>4. Visited(prof, walk', c + 1)
    BY <1>3, <1>4, <1>5, <2>3 DEF Visited
  <2>5. QED
    BY <1>2, <1>5, <2>2, <2>4 DEF Walking
<1>8. WalkInv'
  BY <1>1, <1>2, <1>5, <1>6, <1>7 DEF WalkInv
<1>9. Conserved'
  BY <1>1, <1>5 DEF Conserved, SamplesInv
<1>10. QED
  BY <1>1, <1>8, <1>9 DEF SamplesInv

(* A function is interned, or the sample is dropped. *)
LEMMA WalkFrameKeeps == SamplesInv /\ WalkFrame => SamplesInv'
<1> SUFFICES ASSUME SamplesInv, WalkFrame PROVE SamplesInv'
  OBVIOUS
<1> DEFINE f == Head(walk.left)
<1> DEFINE q == Interned(prof, f)
<1> DEFINE id == FrameId(prof, f)
<1>1. pc = "walk" /\ walk.left # <<>> /\ f # NoFunction /\ Len(walk.ids) < MaxDepth
  BY DEF WalkFrame
<1>2. Tables(prof) /\ Within(prof, walk) /\ walk \in Walk /\ Walking(prof, walk)
      /\ walk.chain \in Chains /\ walk.weight \in Weights
  BY <1>1 DEF SamplesInv, WalkInv, Within
<1>3. PICK c \in 0 .. Len(walk.chain) : Visited(prof, walk, c)
  BY <1>2 DEF Walking
<1>4. /\ c + 1 \in 1 .. Len(walk.chain) /\ walk.chain[c + 1] = f
      /\ f \in Functions
      /\ Tail(walk.left) \in Stack
      /\ Len(Tail(walk.left)) = Len(walk.chain) - (c + 1)
      /\ \A k \in 1 .. Len(Tail(walk.left)) : Tail(walk.left)[k] = walk.chain[(c + 1) + k]
  BY <1>1, <1>2, <1>3, NextFrame
<1>5. InternKeeps(prof, q, f, id)
  BY <1>2, <1>4, InternedLemma DEF Identities
<1>6. \/ /\ id # 0 /\ prof' = q /\ pc' = pc /\ given' = given /\ taken' = taken
         /\ walk' = [walk EXCEPT !.left = Tail(walk.left), !.ids = Append(walk.ids, id)]
      \/ Drop(q)
  BY DEF WalkFrame
<1> HIDE DEF f, q, id
<1>7. Tables(q) /\ Grow(prof, q) /\ q.dropped = prof.dropped
      /\ id \in 0 .. Len(q.frames) /\ (id # 0 => q.frames[id] = f)
  BY <1>5 DEF InternKeeps
<1>8. CASE Drop(q)
  BY <1>7, <1>8, DropKeeps
<1>9. CASE ~Drop(q)
  <2>1. /\ id # 0 /\ prof' = q /\ pc' = "walk" /\ given' = given /\ taken' = taken
        /\ walk' = [walk EXCEPT !.left = Tail(walk.left), !.ids = Append(walk.ids, id)]
    BY <1>1, <1>6, <1>9
  <2>2. Len(q.frames) \in Nat /\ Len(q.frames) <= MaxFrames /\ MaxFrames \in Nat
    BY <1>7, ProfFields, SamplesAssumption DEF Tables, FramesOK
  <2>3. id \in 1 .. Len(q.frames) /\ id \in 1 .. MaxFrames
    BY <1>7, <2>1, <2>2
  <2>4. /\ walk.ids \in Seq(1 .. MaxFrames) /\ Len(walk.ids) \in Nat
        /\ walk.chain \in Stack /\ Len(walk.chain) \in Nat
    BY <1>2, WalkFields
  <2> DEFINE m == Len(walk.ids)
  <2> DEFINE new == Append(walk.ids, id)
  <2>5. /\ new \in Seq(1 .. MaxFrames) /\ Len(new) = m + 1 /\ new[m + 1] = id
        /\ \A k \in 1 .. m : new[k] = walk.ids[k]
    BY <2>3, <2>4, AppendProperties
  <2>6. /\ walk' \in Walk /\ walk'.left = Tail(walk.left) /\ walk'.weight = walk.weight
        /\ walk'.chain = walk.chain /\ walk'.ids = new /\ walk'.truncated = walk.truncated
        /\ walk'.node = walk.node
    BY <2>1, <2>5, <1>2, <1>4 DEF Walk, Stack
  <2> HIDE DEF new
  <2>7. Within(q, walk) /\ Names(q.frames, walk.ids) = Names(prof.frames, walk.ids)
    BY <1>2, <1>7, GrowWithin
  <2>8. Within(q, walk')
    <3>1. ASSUME NEW k \in 1 .. Len(new) PROVE new[k] \in 1 .. Len(q.frames)
      <4>1. k \in 1 .. m \/ k = m + 1
        BY <2>4, <2>5
      <4>2. QED
        BY <4>1, <2>3, <2>5, <2>7 DEF Within
    <3>2. QED
      BY <3>1, <2>6, <2>7 DEF Within
  <2>9. Names(q.frames, new) = Append(Names(q.frames, walk.ids), f)
    <3> DEFINE a == Names(q.frames, new)
    <3> DEFINE b == Names(q.frames, walk.ids)
    <3>1. a = [k \in 1 .. m + 1 |-> q.frames[new[k]]] /\ b = [k \in 1 .. m |-> q.frames[walk.ids[k]]]
      BY <2>5 DEF Names
    <3>2. q.frames \in Seq(Identities) /\ f \in Identities
      BY <1>4, <1>7, ProfFields DEF Tables, Identities
    <3>3. (\A k \in 1 .. m + 1 : q.frames[new[k]] \in Identities)
          /\ (\A k \in 1 .. m : q.frames[walk.ids[k]] \in Identities)
      <4>1. \A k \in 1 .. m + 1 : new[k] \in 1 .. Len(q.frames)
        BY <2>5, <2>6, <2>8 DEF Within
      <4>2. \A k \in 1 .. m : walk.ids[k] \in 1 .. Len(q.frames)
        BY <2>7 DEF Within
      <4>3. QED
        BY <4>1, <4>2, <3>2
    <3>4. a \in [1 .. m + 1 -> Identities] /\ b \in [1 .. m -> Identities]
      BY <3>1, <3>3
    <3> HIDE DEF a, b
    <3>5. m + 1 \in Nat /\ m \in Nat
      BY <2>4
    <3> HIDE DEF m
    <3>6. b \in Seq(Identities) /\ Len(b) = m
      BY <3>4, <3>5
    <3>7. a \in Seq(Identities) /\ Len(a) = m + 1
      <4> DEFINE n == m + 1
      <4> HIDE DEF n
      <4>1. n \in Nat /\ a \in [1 .. n -> Identities]
        BY <3>4, <3>5 DEF n
      <4>2. a \in Seq(Identities) /\ Len(a) = n
        BY <4>1
      <4>3. QED
        BY <4>2 DEF n
    <3>8. /\ Append(b, f) \in Seq(Identities) /\ Len(Append(b, f)) = m + 1
          /\ Append(b, f)[m + 1] = f /\ \A k \in 1 .. m : Append(b, f)[k] = b[k]
      BY <3>2, <3>6, AppendProperties
    <3>9. ASSUME NEW k \in 1 .. m + 1 PROVE a[k] = Append(b, f)[k]
      <4>1. CASE k = m + 1
        <5>1. a[k] = q.frames[id]
          BY <4>1, <3>1, <3>5, <2>5 DEF m
        <5>2. QED
          BY <5>1, <4>1, <3>8, <1>7, <2>1
      <4>2. CASE k # m + 1
        <5>1. k \in 1 .. m
          BY <4>2, <3>5
        <5>2. a[k] = q.frames[walk.ids[k]] /\ b[k] = q.frames[walk.ids[k]]
          BY <5>1, <3>1, <2>5 DEF m
        <5>3. QED
          BY <5>1, <5>2, <3>8
      <4>3. QED
        BY <4>1, <4>2
    <3>10. a = Append(b, f)
      BY <3>7, <3>8, <3>9, SeqEqual
    <3>11. QED
      BY <3>10 DEF a, b
  <2>10. Walking(q, walk')
    <3>1. c + 1 \in 0 .. Len(walk.chain) /\ (c + 1) - 1 = c
      BY <1>4, <2>4
    <3>2. CalledIn(walk.chain)[c + 1] = Append(CalledIn(walk.chain)[c], f)
      BY <1>1, <1>4, <2>4, <3>1, CalledFacts DEF f
    <3>3. Visited(q, walk', c + 1)
      BY <1>3, <1>4, <2>6, <2>7, <2>9, <3>2 DEF Visited
    <3>4. Len(new) <= MaxDepth
      <4>1. MaxDepth \in Nat
        BY SamplesAssumption
      <4>2. QED
        BY <4>1, <1>1, <2>4, <2>5
    <3>5. QED
      BY <1>2, <2>6, <3>1, <3>3, <3>4 DEF Walking
  <2>11. WalkInv'
    BY <2>1, <2>6, <2>8, <2>10, <1>2 DEF WalkInv
  <2>12. Conserved' /\ TakenOK(taken)' /\ ProfileOK(prof, taken)'
    BY <2>1, <2>6, <1>7, StepKeeps
  <2>13. QED
    BY <2>1, <2>11, <2>12, <1>7 DEF SamplesInv
<1>10. QED
  BY <1>8, <1>9

(* The walk ends at the end of the stack or at its limit. *)
LEMMA WalkEndsKeeps == SamplesInv /\ WalkEnds => SamplesInv'
<1> SUFFICES ASSUME SamplesInv, WalkEnds PROVE SamplesInv'
  OBVIOUS
<1>1. prof' = prof /\ taken' = taken /\ given' = given /\ pc = "walk" /\ pc' = "mark"
  BY DEF WalkEnds
<1>2. Tables(prof) /\ Within(prof, walk) /\ walk \in Walk /\ Walking(prof, walk)
      /\ walk.chain \in Chains /\ walk.weight \in Weights
  BY <1>1 DEF SamplesInv, WalkInv, Within
<1>3. PICK c \in 0 .. Len(walk.chain) : Visited(prof, walk, c)
  BY <1>2 DEF Walking
<1>4. /\ walk.ids \in Seq(1 .. MaxFrames) /\ Len(walk.ids) \in Nat /\ Len(walk.ids) <= MaxDepth
      /\ walk.chain \in Stack /\ Len(walk.chain) \in Nat /\ walk.node = 1 /\ ~walk.truncated
  BY <1>2, WalkFields DEF Walking
<1> DEFINE rest == Rest(prof.frames, walk.ids)
<1>5. CASE walk.left = <<>>
  <2>1. walk' = walk
    BY <1>5 DEF WalkEnds
  <2>2. c = Len(walk.chain)
    <3>1. Len(walk.left) = 0
      BY <1>5
    <3>2. QED
      BY <3>1, <1>3, <1>4 DEF Visited
  <2>3. /\ rest \in Seq(Functions)
        /\ rest = <<>> => PathOf(walk.chain) = <<EngineFrame>>
        /\ rest # <<>> => PathOf(walk.chain) = rest
    BY <1>3, <1>4, <2>2, WholeWalk DEF Visited
  <2>4. Marking(prof, walk)
    BY <1>4, <2>3 DEF Marking
  <2>5. QED
    BY <1>1, <1>2, <2>1, <2>4 DEF SamplesInv, WalkInv, Conserved
<1>6. CASE walk.left # <<>>
  <2>1. /\ walk' = [walk EXCEPT !.truncated = TRUE]
        /\ Head(walk.left) # NoFunction /\ Len(walk.ids) >= MaxDepth
    BY <1>6 DEF WalkEnds
  <2>2. c \in 0 .. Len(walk.chain) - 1 /\ walk.chain[c + 1] # NoFunction
    BY <1>2, <1>3, <1>6, <2>1, NextFrame
  <2>3. Len(walk.ids) = MaxDepth
    BY <1>4, <2>1, SamplesAssumption
  <2>4. rest \in Seq(Functions) /\ rest # <<>> /\ PathOf(walk.chain) = Marked(rest)
    BY <1>3, <1>4, <2>2, <2>3, CutWalk DEF Visited, Marked
  <2>5. /\ walk' \in Walk /\ walk'.truncated /\ walk'.ids = walk.ids /\ walk'.node = walk.node
        /\ walk'.chain = walk.chain /\ walk'.weight = walk.weight
    BY <2>1, <1>2 DEF Walk
  <2>6. Marking(prof, walk')
    BY <1>4, <2>4, <2>5 DEF Marking
  <2>7. Within(prof, walk')
    BY <1>2, <2>5 DEF Within
  <2>8. WalkInv'
    BY <1>1, <1>2, <2>5, <2>6, <2>7 DEF WalkInv
  <2>9. QED
    BY <1>1, <2>5, <2>8 DEF SamplesInv, Conserved
<1>7. QED
  BY <1>5, <1>6

(* The marker of a cut stack, if there is room for it. *)
LEMMA MarkKeeps == SamplesInv /\ Mark => SamplesInv'
<1> SUFFICES ASSUME SamplesInv, Mark PROVE SamplesInv'
  OBVIOUS
<1> DEFINE p == WithTruncation(prof)
<1> DEFINE rest == Rest(prof.frames, walk.ids)
<1>1. /\ pc = "mark"
      /\ \/ walk.truncated /\ p.truncated_frame # 0 /\ Descend(p, p.truncated_frame, walk)
         \/ /\ ~(walk.truncated /\ p.truncated_frame # 0)
            /\ prof' = (IF walk.truncated THEN p ELSE prof)
            /\ pc' = "descend" /\ walk' = walk /\ given' = given /\ taken' = taken
  BY DEF Mark
<1>2. Tables(prof) /\ Within(prof, walk) /\ walk \in Walk /\ Marking(prof, walk)
      /\ walk.chain \in Chains /\ walk.weight \in Weights
  BY <1>1 DEF SamplesInv, WalkInv, Within
<1>3. /\ Tables(p) /\ Grow(prof, p) /\ p.dropped = prof.dropped
      /\ p.truncated_frame = 0 => p.frameHits > 0
  BY <1>2, TruncationLemma
<1> HIDE DEF p
<1>4. /\ walk.node = 1 /\ rest \in Seq(Functions)
      /\ rest = <<>> => ~walk.truncated /\ PathOf(walk.chain) = <<EngineFrame>>
      /\ rest # <<>> => PathOf(walk.chain) = IF walk.truncated THEN Marked(rest) ELSE rest
  BY <1>2 DEF Marking
<1>5. Within(p, walk) /\ Rest(p.frames, walk.ids) = rest
  BY <1>2, <1>3, GrowWithin
<1>6. TruncatedFrame \in Identities
  BY DEF Identities
<1>7. CASE walk.truncated /\ p.truncated_frame # 0
  <2>1. p.truncated_frame \in 1 .. Len(p.frames) /\ p.frames[p.truncated_frame] = TruncatedFrame
    <3>1. Caches(p.frames, p.truncated_frame, TruncatedFrame) /\ Len(p.frames) \in Nat
      BY <1>3, ProfFields DEF Tables
    <3>2. QED
      BY <3>1, <1>7 DEF Caches
  <2>2. Append(NodePath(prof, walk.node), TruncatedFrame) = <<TruncatedFrame>>
    BY <1>2, <1>4, <1>6, AtRoot
  <2>3. PathOf(walk.chain) = Marked(rest)
    BY <1>4, <1>7
  <2>4. Reaches(p.frameHits,
                Append(NodePath(prof, walk.node), p.frames[p.truncated_frame])
                    \o Rest(p.frames, walk.ids),
                walk.chain)
    BY <1>5, <2>1, <2>2, <2>3 DEF Reaches, Marked
  <2>5. Descend(p, p.truncated_frame, walk)
    BY <1>1, <1>7
  <2>6. QED
    BY <1>2, <1>3, <1>5, <2>1, <2>4, <2>5, DescendStep
<1>8. CASE ~(walk.truncated /\ p.truncated_frame # 0)
  <2>1. /\ prof' = (IF walk.truncated THEN p ELSE prof)
        /\ pc' = "descend" /\ walk' = walk /\ given' = given /\ taken' = taken
    BY <1>1, <1>8
  <2>2. CASE walk.truncated
    <3>1. prof' = p /\ p.frameHits > 0
      BY <2>1, <2>2, <1>3, <1>8
    <3>2. Destination(p, walk) = rest /\ rest # <<>> /\ PathOf(walk.chain) = Marked(rest)
      BY <2>2, <1>3, <1>4, <1>5, <1>6, AtRoot
    <3>3. Descending(p, walk)
      BY <3>1, <3>2, <1>4 DEF Descending, OffMarker
    <3>4. WalkInv'
      BY <3>1, <3>3, <2>1, <1>2, <1>5 DEF WalkInv
    <3>5. Conserved' /\ TakenOK(taken)' /\ ProfileOK(prof, taken)'
      BY <3>1, <2>1, <1>3, StepKeeps
    <3>6. QED
      BY <3>1, <3>4, <3>5, <1>3 DEF SamplesInv
  <2>3. CASE ~walk.truncated
    <3>1. prof' = prof
      BY <2>1, <2>3
    <3>2. Destination(prof, walk) = rest /\ (rest = <<>> => walk.ids = <<>>)
      BY <1>2, <1>4, <1>6, AtRoot
    <3>3. Descending(prof, walk)
      BY <3>2, <2>3, <1>4 DEF Descending, OnPath, OnEngine
    <3>4. QED
      BY <3>1, <3>3, <2>1, <1>2 DEF SamplesInv, WalkInv, Conserved
  <2>4. QED
    BY <2>2, <2>3
<1>9. QED
  BY <1>7, <1>8

(* The next function of the path, outermost first. *)
LEMMA DescendFrameKeeps == SamplesInv /\ DescendFrame => SamplesInv'
<1> SUFFICES ASSUME SamplesInv, DescendFrame PROVE SamplesInv'
  OBVIOUS
<1> DEFINE n == Len(walk.ids)
<1> DEFINE front == SubSeq(walk.ids, 1, n - 1)
<1> DEFINE next == [walk EXCEPT !.ids = front]
<1>1. pc = "descend" /\ walk.ids # <<>> /\ Descend(prof, walk.ids[n], next)
  BY DEF DescendFrame
<1>2. Tables(prof) /\ Within(prof, walk) /\ walk \in Walk /\ Descending(prof, walk)
      /\ walk.chain \in Chains /\ walk.weight \in Weights
  BY <1>1 DEF SamplesInv, WalkInv, Within
<1>3. walk.ids \in Seq(1 .. MaxFrames) /\ prof.frames \in Seq(Identities)
      /\ (\A k \in 1 .. n : walk.ids[k] \in 1 .. Len(prof.frames))
      /\ NodePath(prof, walk.node) \in Seq(Identities)
  BY <1>2, WalkFields, ProfFields, RestType DEF Within, Tables
<1>4. /\ front \in Seq(1 .. MaxFrames)
      /\ \A k \in 1 .. Len(front) : front[k] \in 1 .. Len(prof.frames)
      /\ Append(NodePath(prof, walk.node), prof.frames[walk.ids[n]]) \o Rest(prof.frames, front)
            = NodePath(prof, walk.node) \o Rest(prof.frames, walk.ids)
  BY <1>1, <1>3, RestStep
<1>5. n \in 1 .. n /\ walk.ids[n] \in 1 .. Len(prof.frames)
  <2>1. n \in Nat /\ n >= 1
    BY <1>1, <1>3, EmptySeq
  <2>2. QED
    BY <2>1, <1>3
<1> HIDE DEF front
<1>6. /\ next \in Walk /\ next.ids = front /\ next.node = walk.node
      /\ next.weight = walk.weight /\ next.chain = walk.chain
  BY <1>2, <1>4 DEF Walk
<1> HIDE DEF next
<1>7. Within(prof, next)
  BY <1>2, <1>4, <1>6 DEF Within
<1>8. Reaches(prof.frameHits, Destination(prof, walk), walk.chain)
  BY <1>1, <1>2 DEF Descending, OnPath, OnEngine, OffMarker, Reaches
<1>9. Reaches(prof.frameHits,
              Append(NodePath(prof, walk.node), prof.frames[walk.ids[n]]) \o Rest(prof.frames, next.ids),
              walk.chain)
  BY <1>4, <1>6, <1>8 DEF Destination
<1>10. Grow(prof, prof)
  BY <1>2, GrowSame DEF Tables
<1>11. QED
  BY <1>1, <1>2, <1>5, <1>6, <1>7, <1>9, <1>10, DescendStep

(* A stack without functions. *)
LEMMA EngineSampleKeeps == SamplesInv /\ EngineSample => SamplesInv'
<1> SUFFICES ASSUME SamplesInv, EngineSample PROVE SamplesInv'
  OBVIOUS
<1> DEFINE p == WithEngine(prof)
<1>1. /\ pc = "descend" /\ walk.ids = <<>> /\ walk.node = 1
      /\ \/ p.engine_frame # 0 /\ Descend(p, p.engine_frame, walk)
         \/ p.engine_frame = 0 /\ Drop(p)
  BY DEF EngineSample, NeedsEngineFrame
<1>2. Tables(prof) /\ Within(prof, walk) /\ walk \in Walk /\ Descending(prof, walk)
      /\ walk.chain \in Chains /\ walk.weight \in Weights
  BY <1>1 DEF SamplesInv, WalkInv, Within
<1>3. Tables(p) /\ Grow(prof, p) /\ p.dropped = prof.dropped
  BY <1>2, EngineLemma
<1> HIDE DEF p
<1>4. EngineFrame \in Identities
  BY DEF Identities
<1>5. /\ Destination(prof, walk) = <<>> /\ Rest(prof.frames, walk.ids) = <<>>
      /\ Append(NodePath(prof, walk.node), EngineFrame) = <<EngineFrame>>
  BY <1>1, <1>2, <1>4, AtRoot
<1>6. PathOf(walk.chain) = <<EngineFrame>>
  BY <1>2, <1>5 DEF Descending, OnPath, OnEngine, OffMarker
<1>7. Within(p, walk) /\ Rest(p.frames, walk.ids) = <<>>
  BY <1>2, <1>3, <1>5, GrowWithin
<1>8. CASE p.engine_frame = 0
  BY <1>1, <1>3, <1>8, DropKeeps
<1>9. CASE p.engine_frame # 0
  <2>1. p.engine_frame \in 1 .. Len(p.frames) /\ p.frames[p.engine_frame] = EngineFrame
    <3>1. Caches(p.frames, p.engine_frame, EngineFrame) /\ Len(p.frames) \in Nat
      BY <1>3, ProfFields DEF Tables
    <3>2. QED
      BY <3>1, <1>9 DEF Caches
  <2>2. <<EngineFrame>> \o <<>> = <<EngineFrame>>
    <3>1. <<EngineFrame>> \in Seq(Identities)
      BY <1>4
    <3>2. QED
      BY <3>1, ConcatEmptySeq
  <2>3. Reaches(p.frameHits,
                Append(NodePath(prof, walk.node), p.frames[p.engine_frame]) \o Rest(p.frames, walk.ids),
                walk.chain)
    BY <1>5, <1>6, <1>7, <2>1, <2>2 DEF Reaches
  <2>4. QED
    BY <1>1, <1>2, <1>3, <1>7, <1>9, <2>1, <2>3, DescendStep
<1>10. QED
  BY <1>8, <1>9

(* cbox_stacktree_record keeps the tables in order. *)
RecordAt(p, n, w) == [p EXCEPT !.tree[n].samples = @ + w, !.samples = @ + w]

(* Recording a sample changes no edge. *)
LEMMA RecordTables ==
    ASSUME NEW p, Tables(p), NEW n \in 2 .. Len(p.tree), NEW w \in Nat, NEW q,
           q = RecordAt(p, n, w)
    PROVE  /\ Tables(q) /\ Recorded(p, q, n, w)
           /\ q.samples = p.samples + w /\ q.frameHits = p.frameHits /\ q.dropped = p.dropped
<1>1. /\ p \in Prof /\ p.samples \in Nat /\ p.tree \in Seq(Node) /\ Len(p.tree) \in Nat
      /\ TreeOK(p.tree, p.nodeBuckets, Len(p.frames))
  BY ProfFields DEF Tables
<1> DEFINE node == [p.tree[n] EXCEPT !.samples = @ + w]
<1> DEFINE tree == [p.tree EXCEPT ![n] = node]
<1>2. n \in 1 .. Len(p.tree)
  BY <1>1
<1>3. p.tree[n] \in Node
  BY <1>1, <1>2
<1>4. node \in Node /\ node.parent = p.tree[n].parent /\ node.frame = p.tree[n].frame
      /\ node.samples = p.tree[n].samples + w
  <2>1. p.tree[n].samples + w \in Nat
    BY <1>3 DEF Node
  <2>2. QED
    BY <1>3, <2>1 DEF Node
<1> HIDE DEF node
<1>5. tree \in Seq(Node) /\ Len(tree) = Len(p.tree)
      /\ \A i \in 1 .. Len(p.tree) : tree[i] = IF i = n THEN node ELSE p.tree[i]
  BY <1>1, <1>2, <1>4, ExceptSeq
<1>6. q = [p EXCEPT !.tree = tree, !.samples = p.samples + w]
  BY <1>1 DEF node, Prof, RecordAt
<1> HIDE DEF tree
<1>7. /\ q \in Prof /\ q.tree = tree /\ q.frames = p.frames /\ q.frameBuckets = p.frameBuckets
      /\ q.nodeBuckets = p.nodeBuckets /\ q.truncated_frame = p.truncated_frame
      /\ q.engine_frame = p.engine_frame /\ q.samples = p.samples + w
      /\ q.frameHits = p.frameHits /\ q.dropped = p.dropped
  <2>1. p.samples + w \in Nat
    BY <1>1
  <2>2. QED
    BY <1>1, <1>5, <1>6, <2>1 DEF Prof
<1>8. ASSUME NEW i \in 1 .. Len(p.tree)
      PROVE  /\ tree[i].parent = p.tree[i].parent /\ tree[i].frame = p.tree[i].frame
             /\ tree[i].samples = p.tree[i].samples + IF i = n THEN w ELSE 0
  <2>1. p.tree[i] \in Node
    BY <1>1
  <2>2. p.tree[i].samples \in Nat
    BY <2>1 DEF Node
  <2>3. QED
    BY <2>2, <1>4, <1>5
<1>9. TreeOK(tree, q.nodeBuckets, Len(q.frames))
  <2>1. [i \in 2 .. Len(tree) |-> EdgeHash[<<tree[i].parent, tree[i].frame>>]]
          = [i \in 2 .. Len(p.tree) |-> EdgeHash[<<p.tree[i].parent, p.tree[i].frame>>]]
    <3>1. \A i \in 2 .. Len(p.tree) : i \in 1 .. Len(p.tree)
      BY <1>1
    <3>2. QED
      BY <3>1, <1>5, <1>8
  <2>2. tree[1].samples = 0
    <3>1. 1 \in 1 .. Len(p.tree) /\ 1 # n
      BY <1>1
    <3>2. QED
      BY <3>1, <1>1, <1>5 DEF TreeOK
  <2>3. \A i \in 2 .. Len(tree) : i \in 1 .. Len(p.tree)
    BY <1>1, <1>5
  <2>4. Hashed(q.nodeBuckets, NodeBuckets, 2 .. Len(tree),
               [i \in 2 .. Len(tree) |-> EdgeHash[<<tree[i].parent, tree[i].frame>>]])
    BY <1>1, <1>5, <1>7, <2>1 DEF TreeOK
  <2>5. \A i \in 2 .. Len(tree) :
            tree[i].parent \in 1 .. i - 1 /\ tree[i].frame \in 1 .. Len(q.frames)
    BY <1>1, <1>5, <1>7, <1>8, <2>3 DEF TreeOK
  <2>6. \A i, j \in 2 .. Len(tree) :
            tree[i].parent = tree[j].parent /\ tree[i].frame = tree[j].frame => i = j
    BY <1>1, <1>5, <1>8, <2>3 DEF TreeOK
  <2>7. Len(tree) \in 1 .. MaxNodes
    BY <1>1, <1>5 DEF TreeOK
  <2>8. QED
    BY <1>5, <2>2, <2>4, <2>5, <2>6, <2>7 DEF TreeOK
<1>10. Tables(q)
  BY <1>7, <1>9 DEF Tables
<1>11. Recorded(p, q, n, w)
  BY <1>5, <1>7, <1>8 DEF Recorded
<1>12. QED
  BY <1>7, <1>10, <1>11

(* The sample is recorded at the node it has reached. *)
LEMMA RecordKeeps == SamplesInv /\ Record => SamplesInv'
<1> SUFFICES ASSUME SamplesInv, Record PROVE SamplesInv'
  OBVIOUS
<1> DEFINE w == walk.weight
<1> DEFINE n == walk.node
<1> DEFINE path == PathOf(walk.chain)
<1>1. /\ pc = "descend" /\ walk.ids = <<>> /\ ~(n = 1 /\ ~walk.truncated)
      /\ prof' = RecordAt(prof, n, w)
      /\ taken' = Plus(taken, path, w)
      /\ pc' = "idle" /\ walk' = NoWalk /\ given' = given
  BY DEF Record, NeedsEngineFrame, Plus, RecordAt
<1>2. Tables(prof) /\ Within(prof, walk) /\ walk \in Walk /\ Descending(prof, walk)
      /\ TakenOK(taken) /\ ProfileOK(prof, taken)
  BY <1>1 DEF SamplesInv, WalkInv, Within
<1>3. w \in Nat /\ n \in 1 .. Len(prof.tree) /\ Len(prof.tree) \in Nat
  BY <1>2, WalkFields, ProfFields DEF Within, Tables
<1>4. Destination(prof, walk) = NodePath(prof, n)
  <2>1. EngineFrame \in Identities
    BY DEF Identities
  <2>2. QED
    BY <1>1, <1>2, <2>1, AtRoot
<1> DEFINE d == NodePath(prof, n)
<1>5. d # <<>> /\ (path = d \/ (path = Marked(d) /\ prof.frameHits > 0 /\ d \in Seq(Functions)))
  BY <1>1, <1>2, <1>4 DEF Descending, OnPath, OnEngine, OffMarker
<1>6. n \in 2 .. Len(prof.tree)
  <2>1. n # 1
    BY <1>2, <1>5, NodePathFacts
  <2>2. QED
    BY <2>1, <1>3
<1>7. d \in Seq(Functions) => Head(d) # TruncatedFrame
  <2> HIDE DEF d
  <2>1. SUFFICES ASSUME d \in Seq(Functions) PROVE Head(d) # TruncatedFrame
    OBVIOUS
  <2>2. Head(d) \in Functions
    BY <2>1, <1>5, HeadTailProperties
  <2>3. QED
    BY <2>2, SamplesAssumption
<1>8. /\ Tables(prof') /\ Recorded(prof, prof', n, w)
      /\ prof'.samples = prof.samples + w /\ prof'.frameHits = prof.frameHits
      /\ prof'.dropped = prof.dropped
  BY <1>1, <1>2, <1>3, <1>6, RecordTables
<1> HIDE DEF w, n, path, d
<1>9. ProfileOK(prof', taken') /\ TakenOK(taken')
  <2>1. \/ path = NodePath(prof, n)
        \/ path = Marked(NodePath(prof, n)) /\ Head(NodePath(prof, n)) # TruncatedFrame
           /\ prof.frameHits > 0
    BY <1>5, <1>7 DEF d
  <2>2. QED
    BY <2>1, <1>1, <1>2, <1>3, <1>6, <1>8, RecordKeepsProfile
<1>10. Within(prof', NoWalk) /\ NoWalk.weight = 0
  BY <1>8, NoWalkWithin
<1>11. WalkInv'
  BY <1>1, <1>10 DEF WalkInv
<1>12. Conserved'
  <2>1. prof.samples \in Nat /\ prof.dropped \in Nat
    BY <1>2, ProfFields DEF Tables
  <2>2. QED
    BY <1>1, <1>3, <1>8, <1>10, <2>1 DEF Conserved, SamplesInv, w
<1>13. QED
  BY <1>8, <1>9, <1>11, <1>12 DEF SamplesInv

-----------------------------------------------------------------------------
(* The beginning, and the theorems *)

(* A struct without entries. *)
Bare(q) ==
    /\ q \in Prof
    /\ q.frames = <<>> /\ q.tree = <<Root>>
    /\ \A b \in 0 .. FrameBuckets - 1 : q.frameBuckets[b] = 0
    /\ \A b \in 0 .. NodeBuckets - 1 : q.nodeBuckets[b] = 0
    /\ q.truncated_frame = 0 /\ q.engine_frame = 0
    /\ q.samples = 0 /\ q.dropped = 0
Nothing == [q \in {} |-> 0]

(* Empty tables are in order ... *)
LEMMA BareTables ==
    ASSUME NEW q, Bare(q)
    PROVE  Tables(q)
<1>1. /\ q.frameBuckets \in [0 .. FrameBuckets - 1 -> 0 .. MaxFrames]
      /\ q.nodeBuckets \in [0 .. NodeBuckets - 1 -> 0 .. MaxNodes]
      /\ q.tree \in Seq(Node)
      /\ MaxFrames \in Nat /\ MaxNodes \in Nat /\ MaxNodes >= 1
  <2>1. q \in Prof
    BY DEF Bare
  <2>2. MaxFrames \in Nat /\ MaxNodes \in Nat /\ MaxNodes >= 1
    BY SamplesAssumption
  <2>3. QED
    BY <2>1, <2>2, ProfFields
<1>2. q.frames = <<>> /\ q.tree = <<Root>> /\ q \in Prof
  BY DEF Bare
<1>3. FramesOK(q.frames, q.frameBuckets)
  <2>1. 1 .. Len(q.frames) = {} /\ q.frames \in Seq(Identities) /\ Len(q.frames) <= MaxFrames
    BY <1>1, <1>2
  <2>2. q.frameBuckets \in [0 .. FrameBuckets - 1 -> {} \cup {0}]
    BY <1>1 DEF Bare
  <2>3. \A hashes : Hashed(q.frameBuckets, FrameBuckets, {}, hashes)
    BY <2>2 DEF Hashed, Bare
  <2>4. QED
    BY <2>1, <2>3 DEF FramesOK
<1>4. TreeOK(q.tree, q.nodeBuckets, Len(q.frames))
  <2>1. Len(q.tree) = 1 /\ q.tree[1].samples = 0
    BY <1>2 DEF Root
  <2>2. 2 .. Len(q.tree) = {} /\ Len(q.tree) \in 1 .. MaxNodes
    BY <1>1, <2>1
  <2>3. q.nodeBuckets \in [0 .. NodeBuckets - 1 -> {} \cup {0}]
    BY <1>1 DEF Bare
  <2>4. \A hashes : Hashed(q.nodeBuckets, NodeBuckets, {}, hashes)
    BY <2>3 DEF Hashed, Bare
  <2>5. QED
    BY <1>1, <2>1, <2>2, <2>4 DEF TreeOK
<1>5. Caches(q.frames, q.truncated_frame, TruncatedFrame) /\ Caches(q.frames, q.engine_frame, EngineFrame)
  BY <1>2 DEF Caches, Bare
<1>6. QED
  BY <1>2, <1>3, <1>4, <1>5 DEF Tables

(* ... and are the profile of no sample. *)
LEMMA BareProfile ==
    ASSUME NEW q, Bare(q)
    PROVE  TakenOK(Nothing) /\ ProfileOK(q, Nothing)
<1>1. Tables(q)
  BY BareTables
<1>2. DOMAIN Nothing = {} /\ IsFiniteSet({})
  BY FS_EmptySet DEF Nothing
<1>3. TakenOK(Nothing)
  BY <1>2 DEF TakenOK
<1>4. 2 .. Len(q.tree) = {} /\ 0 .. Len(q.frames) - 1 = {} /\ q.samples = 0
  <2>1. Len(q.tree) = 1 /\ Len(q.frames) = 0
    BY DEF Bare
  <2>2. QED
    BY <2>1 DEF Bare
<1>5. \A path : ShownBy(q, path) = 0 /\ TakenBy(Nothing, path) = 0
  BY <1>1, <1>2, <1>4, ShownValue DEF TakenBy
<1>6. StackByStack(q, Nothing) /\ MarkerByMarker(q, Nothing)
  BY <1>5 DEF StackByStack, MarkerByMarker
<1>7. PathSet(q, Nothing) = {}
  BY <1>2, <1>4 DEF PathSet
<1>8. PathsAddUp(q, Nothing)
  BY <1>4, <1>7, SumNone DEF PathsAddUp
<1>9. TotalsAddUp(q)
  BY <1>4, SumNone DEF TotalsAddUp
<1>10. QED
  BY <1>3, <1>6, <1>8, <1>9 DEF ProfileOK

(* Both, with no collection going on. *)
LEMMA BareInv ==
    ASSUME NEW q, Bare(q)
    PROVE  /\ Tables(q) /\ TakenOK(Nothing) /\ ProfileOK(q, Nothing)
           /\ Within(q, NoWalk) /\ q.samples + q.dropped + NoWalk.weight = 0
<1>1. Tables(q) /\ TakenOK(Nothing) /\ ProfileOK(q, Nothing)
  BY BareTables, BareProfile
<1>2. Within(q, NoWalk) /\ NoWalk.weight = 0
  BY <1>1, NoWalkWithin
<1>3. QED
  BY <1>1, <1>2 DEF Bare

(* cbox_profiler_init leaves no entries. *)
LEMMA FreshBare ==
    /\ Bare(Fresh)
    /\ Fresh.frameBuckets = EmptyBuckets(FrameBuckets)
    /\ Fresh.nodeBuckets = EmptyBuckets(NodeBuckets)
<1>1. MaxFrames \in Nat /\ MaxNodes \in Nat /\ ArenaCells \in Nat
  BY SamplesAssumption
<1>2. /\ EmptyBuckets(FrameBuckets) \in [0 .. FrameBuckets - 1 -> 0 .. MaxFrames]
      /\ EmptyBuckets(NodeBuckets) \in [0 .. NodeBuckets - 1 -> 0 .. MaxNodes]
  BY <1>1 DEF EmptyBuckets
<1>3. Root \in Node
  BY <1>1 DEF Root, Node
<1>4. <<Root>> \in Seq(Node) /\ <<>> \in Seq(Identities)
  BY <1>3
<1>5. Fresh \in Prof
  BY <1>1, <1>2, <1>4 DEF Fresh, Prof
<1>6. QED
  BY <1>5 DEF Bare, Fresh, EmptyBuckets

(* The invariant holds at the start. *)
LEMMA InitInv == Init => SamplesInv
<1> SUFFICES ASSUME Init PROVE SamplesInv
  OBVIOUS
<1>1. prof = Fresh /\ pc = "idle" /\ walk = NoWalk /\ given = 0 /\ taken = Nothing
  BY DEF Init, Nothing
<1>2. /\ Tables(prof) /\ TakenOK(taken) /\ ProfileOK(prof, taken)
      /\ Within(prof, walk) /\ prof.samples + prof.dropped + walk.weight = 0
  BY <1>1, FreshBare, BareInv
<1>3. WalkInv
  BY <1>1, <1>2 DEF WalkInv
<1>4. QED
  BY <1>1, <1>2, <1>3 DEF SamplesInv, Conserved

(* The buckets a reset leaves alone are empty: they never had an entry. *)
LEMMA ClearedBare ==
    ASSUME NEW p, Tables(p)
    PROVE  Bare(Cleared(p))
<1>1. /\ FramesOK(p.frames, p.frameBuckets) /\ TreeOK(p.tree, p.nodeBuckets, Len(p.frames))
      /\ p.frameBuckets \in [0 .. FrameBuckets - 1 -> 0 .. MaxFrames]
      /\ p.nodeBuckets \in [0 .. NodeBuckets - 1 -> 0 .. MaxNodes]
      /\ Len(p.tree) \in Nat
  BY ProfFields DEF Tables
<1>2. ASSUME p.frames = <<>>, NEW b \in 0 .. FrameBuckets - 1
      PROVE  p.frameBuckets[b] = 0
  <2>1. 1 .. Len(p.frames) = {}
    BY <1>2
  <2>2. p.frameBuckets \in [0 .. FrameBuckets - 1 -> {} \cup {0}]
    BY <1>1, <2>1 DEF FramesOK, Hashed
  <2>3. QED
    BY <2>2
<1>3. ASSUME ~(Len(p.tree) > 1), NEW b \in 0 .. NodeBuckets - 1
      PROVE  p.nodeBuckets[b] = 0
  <2>1. 2 .. Len(p.tree) = {}
    BY <1>1, <1>3
  <2>2. p.nodeBuckets \in [0 .. NodeBuckets - 1 -> {} \cup {0}]
    BY <1>1, <2>1 DEF TreeOK, Hashed
  <2>3. QED
    BY <2>2
<1> DEFINE fb == IF p.frames # <<>> THEN Fresh.frameBuckets ELSE p.frameBuckets
<1> DEFINE nb == IF Len(p.tree) > 1 THEN Fresh.nodeBuckets ELSE p.nodeBuckets
<1>4. Cleared(p) = [Fresh EXCEPT !.frameBuckets = fb, !.nodeBuckets = nb]
  BY DEF Cleared
<1>5. /\ fb \in [0 .. FrameBuckets - 1 -> 0 .. MaxFrames]
      /\ \A b \in 0 .. FrameBuckets - 1 : fb[b] = 0
  BY <1>1, <1>2, FreshBare, ProfFields DEF Bare
<1>6. /\ nb \in [0 .. NodeBuckets - 1 -> 0 .. MaxNodes]
      /\ \A b \in 0 .. NodeBuckets - 1 : nb[b] = 0
  BY <1>1, <1>3, FreshBare, ProfFields DEF Bare
<1> HIDE DEF fb, nb
<1>7. Fresh \in Prof
  BY FreshBare DEF Bare
<1>8. Cleared(p) \in Prof
  BY <1>4, <1>5, <1>6, <1>7 DEF Prof
<1>9. Cleared(p).frameBuckets = fb /\ Cleared(p).nodeBuckets = nb
  BY <1>4 DEF Fresh
<1>10. QED
  BY <1>4, <1>5, <1>6, <1>8, <1>9, FreshBare DEF Bare, Fresh

(* cbox_profiler_reset keeps the invariant. *)
LEMMA ResetKeeps == SamplesInv /\ ProfilerReset => SamplesInv'
<1> SUFFICES ASSUME SamplesInv, ProfilerReset PROVE SamplesInv'
  OBVIOUS
<1>1. prof' = Cleared(prof) /\ pc' = "idle" /\ walk' = NoWalk /\ given' = 0 /\ taken' = Nothing
  BY DEF ProfilerReset, Nothing, SamplesInv, WalkInv
<1>2. /\ Tables(prof') /\ TakenOK(taken') /\ ProfileOK(prof', taken')
      /\ Within(prof', NoWalk) /\ prof'.samples + prof'.dropped + NoWalk.weight = 0
  BY <1>1, ClearedBare, BareInv DEF SamplesInv
<1>3. WalkInv'
  BY <1>1, <1>2 DEF WalkInv
<1>4. Conserved'
  BY <1>1, <1>2 DEF Conserved
<1>5. QED
  BY <1>2, <1>3, <1>4 DEF SamplesInv

(* Whatever the hashes, the capacities and the stacks, every step of a     *)
(* collection leaves tables in which every entry is found, a walk that is  *)
(* on the way to the path of its stack, counts that add up to the ticks    *)
(* given, and a profile of exactly the samples taken.                      *)
THEOREM SamplesInvariant == Spec => []SamplesInv
<1>1. SamplesInv /\ [Next]_vars => SamplesInv'
  <2>1. SamplesInv /\ Next => SamplesInv'
    <3> SUFFICES ASSUME SamplesInv, Next PROVE SamplesInv'
      OBVIOUS
    <3>1. CASE \E chain \in Chains, weight \in Weights : Collect(chain, weight)
      BY <3>1, CollectKeeps
    <3>2. CASE SkipFrame
      BY <3>2, SkipFrameKeeps
    <3>3. CASE WalkFrame
      BY <3>3, WalkFrameKeeps
    <3>4. CASE WalkEnds
      BY <3>4, WalkEndsKeeps
    <3>5. CASE Mark
      BY <3>5, MarkKeeps
    <3>6. CASE DescendFrame
      BY <3>6, DescendFrameKeeps
    <3>7. CASE EngineSample
      BY <3>7, EngineSampleKeeps
    <3>8. CASE Record
      BY <3>8, RecordKeeps
    <3>9. CASE ProfilerReset
      BY <3>9, ResetKeeps
    <3>10. QED
      BY <3>1, <3>2, <3>3, <3>4, <3>5, <3>6, <3>7, <3>8, <3>9 DEF Next
  <2>2. SamplesInv /\ UNCHANGED vars => SamplesInv'
    BY DEF vars, SamplesInv, WalkInv, Conserved
  <2>3. QED
    BY <2>1, <2>2
<1>2. QED
  BY <1>1, InitInv, PTL DEF Spec

(* No index leaves its table: frames, buckets, nodes and arena, and the    *)
(* ids that a walk or a cached marker holds, including after a reset.      *)
THEOREM SamplesTypeCorrect == Spec => []TypeOK
<1>1. SamplesInv => TypeOK
  <2> SUFFICES ASSUME SamplesInv PROVE TypeOK
    OBVIOUS
  <2>1. prof \in Prof /\ Len(prof.frames) <= MaxFrames /\ Len(prof.frames) \in Nat
        /\ Len(prof.tree) \in 1 .. MaxNodes
        /\ prof.truncated_frame \in 0 .. Len(prof.frames)
        /\ prof.engine_frame \in 0 .. Len(prof.frames)
    BY ProfFields DEF SamplesInv, Tables, FramesOK, TreeOK, Caches
  <2>2. walk \in Walk /\ walk.node \in 1 .. Len(prof.tree)
        /\ pc \in {"idle", "walk", "mark", "descend"}
    BY DEF SamplesInv, WalkInv, Within
  <2>3. given \in Nat /\ DOMAIN taken \subseteq Seq(Identities) /\ \A q \in DOMAIN taken : taken[q] \in Nat
    BY DEF SamplesInv, Conserved, TakenOK, SomePaths
  <2>4. Len(prof.tree) <= MaxNodes /\ walk.node <= Len(prof.tree)
    BY <2>1, <2>2, SamplesAssumption
  <2>5. QED
    BY <2>1, <2>2, <2>3, <2>4 DEF TypeOK
<1>2. QED
  BY <1>1, SamplesInvariant, PTL

(* No function and no edge is ever stored twice, and the probe of          *)
(* cbox_frames_intern and cbox_stacktree_child finds each one again,       *)
(* whatever collides with it.                                              *)
THEOREM EntriesUnique == Spec => []EntriesAreUnique
<1>1. SamplesInv => EntriesAreUnique
  <2> SUFFICES ASSUME SamplesInv PROVE EntriesAreUnique
    OBVIOUS
  <2>1. /\ FramesOK(prof.frames, prof.frameBuckets)
        /\ TreeOK(prof.tree, prof.nodeBuckets, Len(prof.frames))
        /\ Len(prof.frames) \in Nat /\ Len(prof.tree) \in Nat /\ prof.frames \in Seq(Identities)
    BY ProfFields DEF SamplesInv, Tables
  <2>2. ASSUME NEW i \in 1 .. Len(prof.frames)
        PROVE  prof.frameBuckets[FrameSlot(prof, prof.frames[i])] = i
    <3>1. prof.frames[i] \in Identities
      BY <2>1
    <3>2. QED
      BY <2>1, <3>1, FrameFind DEF FramesOK
  <2>3. ASSUME NEW i \in 2 .. Len(prof.tree)
        PROVE  /\ prof.tree[i].parent < i
               /\ prof.nodeBuckets[NodeSlot(prof, prof.tree[i].parent, prof.tree[i].frame)] = i
    <3> DEFINE a == prof.tree[i].parent
    <3> DEFINE f == prof.tree[i].frame
    <3>1. a \in 1 .. i - 1 /\ f \in 1 .. Len(prof.frames)
      BY <2>1 DEF TreeOK
    <3>2. a \in 1 .. Len(prof.tree) /\ a < i
      BY <2>1, <3>1
    <3>3. Len(prof.frames) \in 0 .. MaxFrames
      BY <2>1, SamplesAssumption DEF FramesOK
    <3>0. HasEdge(prof.tree, a, f)
      BY DEF HasEdge
    <3> DEFINE b == prof.nodeBuckets[NodeSlot(prof, a, f)]
    <3> HIDE DEF a, f
    <3>4. /\ b # 0 => b \in 2 .. Len(prof.tree) /\ prof.tree[b].parent = a /\ prof.tree[b].frame = f
          /\ b = 0 => ~HasEdge(prof.tree, a, f)
      <4>1. /\ TreeOK(prof.tree, prof.nodeBuckets, Len(prof.frames))
            /\ a \in 1 .. Len(prof.tree) /\ f \in 1 .. Len(prof.frames)
        BY <2>1, <3>1, <3>2
      <4> DEFINE slot == NodeSlot(prof, a, f)
      <4>2. /\ prof.nodeBuckets[slot] # 0 =>
                  /\ prof.nodeBuckets[slot] \in 2 .. Len(prof.tree)
                  /\ prof.tree[prof.nodeBuckets[slot]].parent = a
                  /\ prof.tree[prof.nodeBuckets[slot]].frame = f
            /\ prof.nodeBuckets[slot] = 0 => ~HasEdge(prof.tree, a, f)
        BY <4>1, <3>3, NodeFind
      <4>3. QED
        BY <4>2
    <3> HIDE DEF b
    <3>5. b = i
      BY <2>1, <3>0, <3>4 DEF TreeOK, a, f
    <3>6. QED
      BY <3>2, <3>5 DEF a, b, f
  <2>4. QED
    BY <2>1, <2>2, <2>3 DEF EntriesAreUnique, FramesOK, TreeOK
<1>2. QED
  BY <1>1, SamplesInvariant, PTL

(* The definitions over prof of ProfileOutput, in the terms of the proof. *)
LEMMA OutputTerms ==
    ASSUME Tables(prof)
    PROVE  /\ \A path : Shown(path) = ShownBy(prof, path)
           /\ \A path : Taken(path) = TakenBy(taken, path)
           /\ Paths = PathSet(prof, taken)
<1>1. StackPath = PathsOf(prof) /\ Stacks = StacksOf(prof)
  BY DEF StackPath, PathsOf, Stacks, StacksOf, FrameList
<1>2. \A path : Shown(path) = ShownBy(prof, path)
  BY <1>1 DEF Shown, ShownBy
<1>3. \A path : Taken(path) = TakenBy(taken, path)
  BY DEF Taken, TakenBy
<1>4. Len(prof.tree) \in Nat /\ Len(prof.tree) >= 1
  BY DEF Tables, TreeOK
<1>5. Len(Stacks) = Len(prof.tree) - 1
  <2>1. Len(prof.tree) - 1 \in Nat
    BY <1>4
  <2>2. DOMAIN Stacks = 1 .. Len(prof.tree) - 1
    BY DEF Stacks
  <2>3. QED
    BY <2>1, <2>2
<1>6. {StackPath[i] : i \in 1 .. Len(Stacks)} = {NodePath(prof, n) : n \in 2 .. Len(prof.tree)}
  <2>1. ASSUME NEW i \in 1 .. Len(Stacks)
        PROVE  i + 1 \in 2 .. Len(prof.tree) /\ StackPath[i] = NodePath(prof, i + 1)
    <3>1. i + 1 \in 2 .. Len(prof.tree) /\ (i + 1) - 1 = i
      BY <1>4, <1>5
    <3>2. QED
      BY <1>1, <3>1 DEF NodePath
  <2>2. ASSUME NEW n \in 2 .. Len(prof.tree)
        PROVE  n - 1 \in 1 .. Len(Stacks) /\ NodePath(prof, n) = StackPath[n - 1]
    <3>1. n - 1 \in 1 .. Len(Stacks)
      BY <1>4, <1>5
    <3>2. QED
      BY <1>1, <3>1 DEF NodePath
  <2>3. QED
    BY <2>1, <2>2
<1>7. QED
  BY <1>2, <1>3, <1>6 DEF Paths, PathSet

(* The call tree that cbox_profile_into returns is the multiset of the     *)
(* samples taken, stack by stack, but for the marker of a cut stack; and   *)
(* every tick is in sample_count or in dropped, at whichever step a sample *)
(* failed.                                                                 *)
THEOREM ProfileExact == Spec => []ProfileIsExact
<1>1. SamplesInv => ProfileIsExact
  <2> SUFFICES ASSUME SamplesInv, pc = "idle"
               PROVE  /\ prof.samples + prof.dropped = given
                      /\ \A path \in Paths :
                            Head(path) # TruncatedFrame =>
                                Shown(path) + Shown(<<TruncatedFrame>> \o path)
                                  = Taken(path) + Taken(<<TruncatedFrame>> \o path)
                      /\ SumFunction([path \in Paths |-> Shown(path)]) = prof.samples
    BY DEF ProfileIsExact
  <2>1. Tables(prof) /\ TakenOK(taken) /\ ProfileOK(prof, taken) /\ walk.weight = 0
    BY NoWalkWithin DEF SamplesInv, WalkInv
  <2>2. /\ \A path : Shown(path) = ShownBy(prof, path)
        /\ \A path : Taken(path) = TakenBy(taken, path)
        /\ Paths = PathSet(prof, taken)
    BY <2>1, OutputTerms
  <2>3. PathSet(prof, taken) \subseteq SomePaths
    BY <2>1, PathSetFinite
  <2>4. prof.samples + prof.dropped = given
    <3>1. prof.samples \in Nat /\ prof.dropped \in Nat
      BY <2>1, ProfFields DEF Tables
    <3>2. QED
      BY <2>1, <3>1 DEF SamplesInv, Conserved
  <2>5. ASSUME NEW path \in Paths, Head(path) # TruncatedFrame
        PROVE  Shown(path) + Shown(<<TruncatedFrame>> \o path)
                 = Taken(path) + Taken(<<TruncatedFrame>> \o path)
    <3>1. path \in SomePaths
      BY <2>2, <2>3
    <3>2. QED
      BY <3>1, <2>1, <2>2, <2>5 DEF ProfileOK, StackByStack, Marked
  <2>6. SumFunction([path \in Paths |-> Shown(path)]) = prof.samples
    <3>1. [path \in Paths |-> Shown(path)] = [path \in PathSet(prof, taken) |-> ShownBy(prof, path)]
      BY <2>2
    <3>2. SumFunctionOnSet([path \in PathSet(prof, taken) |-> ShownBy(prof, path)], PathSet(prof, taken))
            = prof.samples
      BY <2>1 DEF ProfileOK, PathsAddUp
    <3>3. DOMAIN [path \in Paths |-> Shown(path)] = PathSet(prof, taken)
      BY <2>2
    <3>4. QED
      BY <3>1, <3>2, <3>3 DEF SumFunction
  <2>7. QED
    BY <2>4, <2>5, <2>6
<1>2. QED
  BY <1>1, SamplesInvariant, PTL

(* As long as frame_capacity_hits is 0 the markers are there as well: no   *)
(* cut stack looks like a complete one.                                    *)
THEOREM TruncationIsShown == Spec => []TruncationShows
<1>1. SamplesInv => TruncationShows
  <2> SUFFICES ASSUME SamplesInv, prof.frameHits = 0, NEW path \in Paths
               PROVE  Shown(path) = Taken(path)
    BY DEF TruncationShows
  <2>1. Tables(prof) /\ TakenOK(taken) /\ ProfileOK(prof, taken)
    BY DEF SamplesInv
  <2>2. /\ Shown(path) = ShownBy(prof, path) /\ Taken(path) = TakenBy(taken, path)
        /\ Paths = PathSet(prof, taken)
    BY <2>1, OutputTerms
  <2>3. path \in SomePaths
    BY <2>1, <2>2, PathSetFinite
  <2>4. QED
    BY <2>1, <2>2, <2>3 DEF ProfileOK, MarkerByMarker
<1>2. QED
  BY <1>1, SamplesInvariant, PTL

-----------------------------------------------------------------------------
(* The sorted list *)

(* A finite set of entries, one per function. *)
Entries(E) ==
    /\ IsFiniteSet(E)
    /\ \A a \in E : a.frame_id \in Nat /\ a.samples \in Nat
    /\ \A a, b \in E : a.frame_id = b.frame_id => a = b

InOrder(s) == \A i, j \in DOMAIN s : i < j => Before(s[i], s[j])

(* cbox_function_total_cmp is a total order on entries of different        *)
(* functions.                                                              *)
LEMMA BeforeIsOrder ==
    ASSUME NEW E, Entries(E)
    PROVE  /\ \A a \in E : ~Before(a, a)
           /\ \A a, b \in E : a # b => Before(a, b) \/ Before(b, a)
           /\ \A a, b, c \in E : Before(a, b) /\ Before(b, c) => Before(a, c)
<1>1. \A a \in E : a.frame_id \in Nat /\ a.samples \in Nat
  BY DEF Entries
<1>2. \A a, b \in E : a # b => a.frame_id # b.frame_id
  BY DEF Entries
<1>3. \A a \in E : ~Before(a, a)
  BY <1>1 DEF Before
<1>4. \A a, b \in E : a # b => Before(a, b) \/ Before(b, a)
  BY <1>1, <1>2 DEF Before
<1>5. \A a, b, c \in E : Before(a, b) /\ Before(b, c) => Before(a, c)
  BY <1>1 DEF Before
<1>6. QED
  BY <1>3, <1>4, <1>5

(* The entry behind which the fewest come has none behind it. *)
LEMMA LastEntry ==
    ASSUME NEW E, Entries(E), E # {}
    PROVE  \E m \in E : \A a \in E \ {m} : Before(a, m)
<1> DEFINE After(x) == {y \in E : Before(x, y)}
<1>1. \A x \in E : IsFiniteSet(After(x))
  BY FS_Subset DEF Entries
<1>2. PICK m \in E : \A x \in E : Cardinality(After(m)) <= Cardinality(After(x))
  <2> DEFINE Sets == {After(x) : x \in E}
  <2>1. Sets # {} /\ \A s \in Sets : IsFiniteSet(s)
    BY <1>1
  <2>2. PICK s \in Sets : \A t \in Sets : Cardinality(s) <= Cardinality(t)
    BY <2>1, SmallestSet, Zenon
  <2>3. QED
    BY <2>2
<1>3. After(m) = {}
  <2>1. SUFFICES ASSUME NEW y \in After(m) PROVE FALSE
    OBVIOUS
  <2>2. y \in E /\ Before(m, y)
    OBVIOUS
  <2>3. After(y) \subseteq After(m) /\ y \notin After(y)
    BY <2>2, BeforeIsOrder
  <2>4. After(y) \subseteq After(m) \ {y}
    BY <2>3
  <2> HIDE DEF After
  <2>5. /\ IsFiniteSet(After(m) \ {y}) /\ Cardinality(After(m) \ {y}) = Cardinality(After(m)) - 1
        /\ Cardinality(After(m)) \in Nat
    BY <1>1, FS_RemoveElement, FS_CardinalityType
  <2>6. Cardinality(After(y)) <= Cardinality(After(m) \ {y}) /\ Cardinality(After(y)) \in Nat
    BY <2>2, <2>4, <2>5, <1>1, FS_Subset, FS_CardinalityType
  <2>7. Cardinality(After(m)) <= Cardinality(After(y))
    BY <1>2, <2>2
  <2>8. QED
    BY <2>5, <2>6, <2>7
<1>4. ASSUME NEW a \in E \ {m} PROVE Before(a, m)
  <2>1. ~Before(m, a)
    BY <1>3
  <2>2. QED
    BY <2>1, BeforeIsOrder
<1>5. QED
  BY <1>4

(* A sorted list stays one when the last entry is put behind it. *)
LEMMA SortedWithLast ==
    ASSUME NEW E, Entries(E), NEW m \in E, \A a \in E \ {m} : Before(a, m),
           NEW t \in SetToSeqs(E \ {m}), InOrder(t)
    PROVE  \E s \in SetToSeqs(E) : InOrder(s)
<1> DEFINE n == Cardinality(E)
<1>1. IsFiniteSet(E) /\ n \in Nat /\ n > 0
  BY FS_CardinalityType, FS_EmptySet DEF Entries
<1>2. Cardinality(E \ {m}) = n - 1
  BY <1>1, FS_RemoveElement
<1>3. t \in [1 .. n - 1 -> E \ {m}] /\ \A i, j \in 1 .. n - 1 : i # j => t[i] # t[j]
  BY <1>2 DEF SetToSeqs
<1> DEFINE s == [i \in 1 .. n |-> IF i = n THEN m ELSE t[i]]
<1> HIDE DEF n
<1>4. \A i \in 1 .. n : i # n => i \in 1 .. n - 1
  BY <1>1
<1>5. s \in [1 .. n -> E]
  BY <1>3, <1>4
<1>6. ASSUME NEW i \in 1 .. n, NEW j \in 1 .. n
      PROVE  (i # j => s[i] # s[j]) /\ (i < j => Before(s[i], s[j]))
  <2>1. CASE j = n
    <3>1. i # n => s[i] = t[i] /\ t[i] \in E \ {m} /\ s[j] = m
      BY <2>1, <1>3, <1>4
    <3>2. i = n => ~(i < j) /\ i = j
      BY <2>1, <1>1
    <3>3. QED
      BY <3>1, <3>2
  <2>2. CASE i = n /\ j # n
    <3>1. s[i] = m /\ s[j] = t[j] /\ t[j] \in E \ {m}
      BY <2>2, <1>3, <1>4
    <3>2. ~(i < j)
      BY <2>2, <1>1
    <3>3. QED
      BY <3>1, <3>2
  <2>3. CASE i # n /\ j # n
    <3>1. i \in 1 .. n - 1 /\ j \in 1 .. n - 1 /\ s[i] = t[i] /\ s[j] = t[j]
      BY <2>3, <1>4
    <3>2. DOMAIN t = 1 .. n - 1
      BY <1>3
    <3>3. QED
      BY <3>1, <3>2, <1>3 DEF InOrder
  <2>4. QED
    BY <2>1, <2>2, <2>3
<1>7. DOMAIN s = 1 .. n
  OBVIOUS
<1> HIDE DEF s
<1>8. s \in SetToSeqs(E)
  BY <1>5, <1>6 DEF SetToSeqs, n
<1>9. InOrder(s)
  BY <1>6, <1>7 DEF InOrder
<1>10. QED
  BY <1>8, <1>9

(* Every finite set of entries can be sorted. *)
LEMMA SortedExists ==
    ASSUME NEW E, Entries(E)
    PROVE  \E s \in SetToSeqs(E) : InOrder(s)
<1> DEFINE Bad == {S \in SUBSET E : \A s \in SetToSeqs(S) : ~InOrder(s)}
<1>1. SUFFICES ASSUME Bad # {} PROVE FALSE
  OBVIOUS
<1>2. \A S \in SUBSET E : Entries(S)
  BY FS_Subset DEF Entries
<1>3. \A S \in Bad : IsFiniteSet(S)
  BY <1>2 DEF Entries
<1>4. PICK S \in Bad : \A T \in Bad : Cardinality(S) <= Cardinality(T)
  <2> HIDE DEF Bad
  <2>1. QED
    BY <1>1, <1>3, SmallestSet
<1>5. Entries(S) /\ S \subseteq E /\ \A s \in SetToSeqs(S) : ~InOrder(s)
  BY <1>2
<1>6. S # {}
  <2>1. SUFFICES ASSUME S = {} PROVE FALSE
    OBVIOUS
  <2>2. 1 .. Cardinality({}) = {}
    BY FS_EmptySet
  <2> DEFINE e == [x \in {} |-> 0]
  <2>3. e \in [{} -> {}] /\ DOMAIN e = {}
    OBVIOUS
  <2>4. e \in SetToSeqs(S) /\ InOrder(e)
    BY <2>1, <2>2, <2>3 DEF SetToSeqs, InOrder
  <2>5. QED
    BY <2>4, <1>5
<1>7. PICK m \in S : \A a \in S \ {m} : Before(a, m)
  BY <1>5, <1>6, LastEntry
<1>8. S \ {m} \notin Bad
  <2>1. Cardinality(S \ {m}) = Cardinality(S) - 1 /\ Cardinality(S) \in Nat
    BY <1>5, FS_RemoveElement, FS_CardinalityType DEF Entries
  <2>2. ~(Cardinality(S) <= Cardinality(S \ {m}))
    BY <2>1
  <2>3. QED
    BY <2>2, <1>4
<1>9. PICK t \in SetToSeqs(S \ {m}) : InOrder(t)
  BY <1>5, <1>8
<1>10. QED
  BY <1>5, <1>7, <1>9, SortedWithLast

(* The list qsort makes is in order and has every entry once. *)
LEMMA SortedFacts ==
    ASSUME NEW E, Entries(E)
    PROVE  /\ Cardinality(E) \in Nat
           /\ Sorted(E) \in [1 .. Cardinality(E) -> E]
           /\ \A i, j \in 1 .. Cardinality(E) : i < j => Before(Sorted(E)[i], Sorted(E)[j])
           /\ \A i, j \in 1 .. Cardinality(E) : Sorted(E)[i] = Sorted(E)[j] => i = j
           /\ \A e \in E : \E i \in 1 .. Cardinality(E) : Sorted(E)[i] = e
<1> DEFINE n == Cardinality(E)
<1>1. IsFiniteSet(E) /\ n \in Nat
  BY FS_CardinalityType DEF Entries
<1>2. \E s \in SetToSeqs(E) : \A i, j \in DOMAIN s : i < j => Before(s[i], s[j])
  BY SortedExists DEF InOrder
<1> DEFINE s == Sorted(E)
<1>3. s \in SetToSeqs(E) /\ \A i, j \in DOMAIN s : i < j => Before(s[i], s[j])
  BY <1>2 DEF Sorted
<1> HIDE DEF s
<1>4. s \in [1 .. n -> E] /\ \A i, j \in 1 .. n : i # j => s[i] # s[j]
  BY <1>3 DEF SetToSeqs
<1>5. s \in Injection(1 .. n, E)
  BY <1>4 DEF Injection, IsInjective
<1>6. Cardinality(1 .. n) = n
  BY <1>1, FS_Interval
<1>7. s \in Surjection(1 .. n, E)
  BY <1>1, <1>5, <1>6, FS_Injection
<1>8. \A e \in E : \E i \in 1 .. n : s[i] = e
  BY <1>7 DEF Surjection
<1>9. QED
  BY <1>1, <1>3, <1>4, <1>8 DEF s

(* The entries of the functions with samples. *)
LEMMA SampledEntries ==
    ASSUME Tables(prof)
    PROVE  /\ Entries(Sampled) /\ DOMAIN Totals = 0 .. Len(prof.frames) - 1
           /\ Totals = TotalsOf(prof)
           /\ \A e \in Sampled : /\ e.frame_id \in DOMAIN Totals /\ e.samples = Totals[e.frame_id]
                                 /\ Totals[e.frame_id] > 0
           /\ \A id \in DOMAIN Totals : Totals[id] > 0 =>
                 \E e \in Sampled : e.frame_id = id
           /\ \A id \in DOMAIN Totals : Totals[id] \in Nat
<1>1. Totals = TotalsOf(prof)
  BY DEF Totals, TotalsOf, SelfSamples, SelfOf, NodesOf
<1>2. DOMAIN Totals = 0 .. Len(prof.frames) - 1
  BY DEF Totals
<1>3. (\A id \in DOMAIN Totals : Totals[id] \in Nat) /\ IsFiniteSet(DOMAIN Totals)
  BY <1>1, <1>2, SelfTypes
<1>4. DOMAIN Totals \subseteq Nat
  BY <1>2
<1> DEFINE entry == [id \in DOMAIN Totals |-> [frame_id |-> id, samples |-> Totals[id]]]
<1>5. Sampled = {e \in {entry[id] : id \in DOMAIN Totals} : e.samples > 0}
  BY DEF Sampled
<1>6. \A id \in DOMAIN Totals : entry[id].frame_id = id /\ entry[id].samples = Totals[id]
  OBVIOUS
<1> HIDE DEF entry
<1>7. \A e \in Sampled : \E id \in DOMAIN Totals : e = entry[id] /\ Totals[id] > 0
  BY <1>5, <1>6
<1>8. IsFiniteSet(Sampled)
  <2> DEFINE D == DOMAIN Totals
  <2> DEFINE R == {entry[id] : id \in D}
  <2>1. entry \in Surjection(D, R)
    BY DEF Surjection, entry
  <2> HIDE DEF R, D
  <2>2. IsFiniteSet(R)
    BY <2>1, <1>3, FS_Surjection DEF D
  <2>3. Sampled \in SUBSET R
    BY <1>5 DEF R, D
  <2>4. QED
    BY <2>2, <2>3, FS_Subset
<1>9. Entries(Sampled)
  BY <1>3, <1>4, <1>6, <1>7, <1>8 DEF Entries
<1>10. \A id \in DOMAIN Totals : Totals[id] > 0 => entry[id] \in Sampled
  BY <1>5, <1>6
<1>11. QED
  BY <1>1, <1>2, <1>3, <1>6, <1>7, <1>9, <1>10

(* top_functions holds the first of the sorted list, each function once. *)
LEMMA ListedFacts ==
    ASSUME Tables(prof)
    PROVE  \E k \in 0 .. Cardinality(Sampled) :
              /\ Cardinality(Sampled) \in Nat
              /\ k = IF Cardinality(Sampled) < TopMax THEN Cardinality(Sampled) ELSE TopMax
              /\ Listed = {Sorted(Sampled)[i].frame_id : i \in 1 .. k}
              /\ Cardinality(Listed) = k
<1> DEFINE n == Cardinality(Sampled)
<1> DEFINE s == Sorted(Sampled)
<1> DEFINE k == IF n < TopMax THEN n ELSE TopMax
<1>1. Entries(Sampled)
  BY SampledEntries
<1>2. /\ n \in Nat /\ s \in [1 .. n -> Sampled]
      /\ \A i, j \in 1 .. n : s[i] = s[j] => i = j
  BY <1>1, SortedFacts
<1>3. TopFunctions = SubSeq(s, 1, k)
  BY DEF TopFunctions
<1> HIDE DEF s, n
<1>4. k \in 0 .. n /\ k \in Nat
  BY <1>2, ProfileOutputAssumption
<1> DEFINE top == SubSeq(s, 1, k)
<1> HIDE DEF k
<1>5. Len(top) = k /\ \A i \in 1 .. k : top[i] = s[i]
  <2>1. \A i \in 1 .. k : i \in 1 .. n /\ 1 + i - 1 = i
    BY <1>2, <1>4
  <2>2. \A i \in 1 .. k : s[i] \in Sampled
    BY <2>1, <1>2
  <2>3. 1 \in Int /\ k \in Int /\ k - 1 + 1 = k
    BY <1>4
  <2>4. /\ Len(top) = IF 1 <= k THEN k - 1 + 1 ELSE 0
        /\ \A i \in 1 .. k - 1 + 1 : top[i] = s[1 + i - 1]
    BY <2>2, <2>3, SubSeqProperties
  <2>5. QED
    BY <2>1, <2>3, <2>4, <1>4
<1>6. Listed = {s[i].frame_id : i \in 1 .. k}
  BY <1>3, <1>5 DEF Listed
<1> DEFINE g == [i \in 1 .. k |-> s[i].frame_id]
<1>7. g \in Surjection(1 .. k, Listed)
  BY <1>6 DEF Surjection
<1>8. g \in Injection(1 .. k, Listed)
  <2>1. g \in [1 .. k -> Listed]
    BY <1>6
  <2>2. ASSUME NEW i \in 1 .. k, NEW j \in 1 .. k, g[i] = g[j]
        PROVE  i = j
    <3>1. i \in 1 .. n /\ j \in 1 .. n
      BY <1>2, <1>4
    <3>2. s[i] \in Sampled /\ s[j] \in Sampled /\ s[i].frame_id = s[j].frame_id
      BY <3>1, <2>2, <1>2
    <3>3. s[i] = s[j]
      BY <3>2, <1>1 DEF Entries
    <3>4. QED
      BY <3>1, <3>3, <1>2
  <2>3. DOMAIN g = 1 .. k
    OBVIOUS
  <2> HIDE DEF g
  <2>4. QED
    BY <2>1, <2>2, <2>3 DEF Injection, IsInjective
<1> HIDE DEF g
<1>9. Cardinality(Listed) = k
  <2>1. IsFiniteSet(1 .. k) /\ Cardinality(1 .. k) = k
    BY <1>4, FS_Interval
  <2>2. QED
    BY <2>1, <1>7, <1>8, FS_Surjection
<1>10. QED
  BY <1>2, <1>4, <1>6, <1>9 DEF k, n, s

(* top_functions of cbox_profile_into adds up to sample_count unless it is *)
(* full, and a full list leaves out no function with more samples than one *)
(* it has.                                                                 *)
THEOREM TopListComplete == Spec => []TopListAddsUp
<1>1. SamplesInv => TopListAddsUp
  <2> SUFFICES ASSUME SamplesInv
               PROVE  /\ Cardinality(Listed) < TopMax =>
                            SumFunctionOnSet(Totals, Listed) = prof.samples
                      /\ \A out \in DOMAIN Totals \ Listed, in \in Listed : Totals[out] <= Totals[in]
                      /\ SumFunctionOnSet(Totals, Listed) <= prof.samples
    BY DEF TopListAddsUp
  <2>1. Tables(prof) /\ TotalsAddUp(prof)
    BY DEF SamplesInv, ProfileOK
  <2> DEFINE n == Cardinality(Sampled)
  <2> DEFINE s == Sorted(Sampled)
  <2>2. /\ Entries(Sampled) /\ DOMAIN Totals = 0 .. Len(prof.frames) - 1
        /\ Totals = TotalsOf(prof)
        /\ \A e \in Sampled : /\ e.frame_id \in DOMAIN Totals /\ e.samples = Totals[e.frame_id]
                              /\ Totals[e.frame_id] > 0
        /\ \A id \in DOMAIN Totals : Totals[id] > 0 => \E e \in Sampled : e.frame_id = id
        /\ \A id \in DOMAIN Totals : Totals[id] \in Nat
    BY <2>1, SampledEntries
  <2>3. /\ n \in Nat /\ s \in [1 .. n -> Sampled]
        /\ \A i, j \in 1 .. n : i < j => Before(s[i], s[j])
        /\ \A e \in Sampled : \E i \in 1 .. n : s[i] = e
    BY <2>2, SortedFacts
  <2>4. PICK k \in 0 .. n :
              /\ k = IF n < TopMax THEN n ELSE TopMax
              /\ Listed = {s[i].frame_id : i \in 1 .. k}
              /\ Cardinality(Listed) = k
    BY <2>1, ListedFacts
  <2> HIDE DEF n, s
  <2>5. \A i \in 1 .. k : i \in 1 .. n
    BY <2>3, <2>4
  <2>6. Listed \subseteq DOMAIN Totals
    BY <2>2, <2>3, <2>4, <2>5
  <2>7. ASSUME NEW id \in DOMAIN Totals \ Listed, Totals[id] # 0
        PROVE  \E j \in k + 1 .. n : s[j].frame_id = id
    <3>1. Totals[id] > 0
      BY <2>2, <2>7
    <3>2. PICK e \in Sampled : e.frame_id = id
      BY <2>2, <3>1
    <3>3. PICK j \in 1 .. n : s[j] = e
      BY <2>3
    <3>4. j \notin 1 .. k
      BY <2>4, <2>7, <3>2, <3>3
    <3>5. j \in k + 1 .. n
      BY <3>4, <2>3, <2>4
    <3>6. QED
      BY <3>2, <3>3, <3>5
  <2>8. /\ SumFunctionOnSet(Totals, Listed) <= SumFunctionOnSet(Totals, DOMAIN Totals)
        /\ (\A id \in DOMAIN Totals \ Listed : Totals[id] = 0) =>
              SumFunctionOnSet(Totals, Listed) = SumFunctionOnSet(Totals, DOMAIN Totals)
    <3>1. IsFiniteSet(DOMAIN Totals)
      BY <2>1, <2>2, SelfTypes
    <3>2. QED
      BY <3>1, <2>2, <2>6, SumSubset
  <2>9. SumFunctionOnSet(Totals, DOMAIN Totals) = prof.samples
    BY <2>1, <2>2 DEF TotalsAddUp
  <2>10. ASSUME Cardinality(Listed) < TopMax
         PROVE  SumFunctionOnSet(Totals, Listed) = prof.samples
    <3>1. k = n
      BY <2>3, <2>4, <2>10, ProfileOutputAssumption
    <3>2. k + 1 .. n = {}
      BY <3>1, <2>3
    <3>3. QED
      BY <3>2, <2>7, <2>8, <2>9
  <2>11. ASSUME NEW out \in DOMAIN Totals \ Listed, NEW in \in Listed
         PROVE  Totals[out] <= Totals[in]
    <3>1. Totals[out] \in Nat /\ Totals[in] \in Nat
      BY <2>2, <2>6
    <3>2. CASE Totals[out] = 0
      BY <3>1, <3>2
    <3>3. CASE Totals[out] # 0
      <4>1. PICK j \in k + 1 .. n : s[j].frame_id = out
        BY <2>7, <3>3
      <4>2. PICK i \in 1 .. k : s[i].frame_id = in
        BY <2>4
      <4>3. i \in 1 .. n /\ j \in 1 .. n /\ i < j
        BY <2>3, <2>4
      <4>4. Before(s[i], s[j]) /\ s[i] \in Sampled /\ s[j] \in Sampled
        BY <2>3, <4>3
      <4>5. s[i].samples = Totals[in] /\ s[j].samples = Totals[out]
        BY <2>2, <4>1, <4>2, <4>4
      <4>6. QED
        BY <3>1, <4>4, <4>5 DEF Before
    <3>4. QED
      BY <3>2, <3>3
  <2>12. QED
    BY <2>8, <2>9, <2>10, <2>11
<1>2. QED
  BY <1>1, SamplesInvariant, PTL
=============================================================================
