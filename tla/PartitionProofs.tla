-------------------------- MODULE PartitionProofs --------------------------
(***************************************************************************)
(* Proofs about module Partition, for every choice of its constants: the   *)
(* types, that a slot has one owner, that each segment gets exactly its    *)
(* identifiers, and that the status is the one to act on, for any number   *)
(* of readers, segments and heads and in any interleaving.                 *)
(***************************************************************************)
EXTENDS Partition, FiniteSetTheorems, WellFoundedInduction, TLAPS

----------------------------------------------------------------------------
(* The inductive invariant: what holds in each phase.                      *)

(* Where the part of a segment starts.                                     *)
First(s) == Cardinality(Before(s))

(* The keys reader r delivers, and those of segment s it has read.         *)
Share(r) == input.cut[r] .. input.cut[r + 1] - 1
ReadOf(r, s) == {i \in OfSegment(s) : i \in input.cut[r] .. next[r] - 1}

(* The identifiers of s in the counts that have been added.                *)
AddedOf(s) ==
  {i \in OfSegment(s) : \E r \in Readers : added[r] > s /\ i \in Share(r)}

(* Nothing is stored yet.                                                  *)
Fresh ==
  phase \in {"start", "whole", "read", "check", "layout"} =>
    /\ hand = Empty
    /\ \A x \in Items : shadow[x] = Empty

WholePath ==
  /\ phase = "start" => loop = 0
  /\ phase = "whole" =>
       /\ Whole /\ Total <= MaxPiece
       /\ loop \in 0 .. Total
       /\ \A i \in 0 .. loop - 1 : input.keys[i] # Bad
  /\ phase \notin {"start", "whole", "done"} => ~ Whole

(* What each thread has read it has counted, and what it has not added is  *)
(* not in the shared counts; a thread that stopped has met a bad key.      *)
Reading ==
  phase \in {"start", "read"} =>
    /\ \A r \in Readers :
         /\ next[r] \in input.cut[r] .. input.cut[r + 1]
         /\ \A i \in input.cut[r] .. next[r] - 1 :
              input.keys[i] # Bad /\ ids[i] = input.keys[i]
         /\ \A s \in Segments : temp[r][s] = Cardinality(ReadOf(r, s))
         /\ added[r] > 0 => next[r] = input.cut[r + 1]
    /\ \A s \in Segments : shuffle[s] = Cardinality(AddedOf(s))
    /\ \A r \in stopped : /\ next[r] < input.cut[r + 1]
                          /\ input.keys[next[r]] = Bad
    /\ fail <=> stopped # {}

Known ==
  phase \notin {"start", "whole", "read", "done"} =>
    \A i \in Items : input.keys[i] # Bad /\ ids[i] = input.keys[i]

Sized ==
  /\ phase = "check" =>
       \A s \in Segments : shuffle[s] = Cardinality(OfSegment(s))
  /\ phase \notin {"start", "whole", "read", "check", "done"} =>
       \A s \in Segments : /\ size[s] = Cardinality(OfSegment(s))
                           /\ size[s] \in 1 .. MaxPiece

LaidOut ==
  phase = "layout" =>
    /\ loop \in 0 .. N /\ offset = First(loop)
    /\ \A s \in 0 .. loop - 1 :
         /\ shuffle[s] = First(s)
         /\ ~ input.extra => border[s] = First(s) + size[s]

(* The shuffle by one thread: each cursor has passed the slots it filled.  *)
StoredOf(s) == {i \in OfSegment(s) : i < loop}

OneThread ==
  phase = "single" =>
    /\ loop \in 0 .. Total
    /\ \A s \in Segments :
         /\ shuffle[s] = First(s) + Cardinality(StoredOf(s))
         /\ \A x \in First(s) .. shuffle[s] - 1 : shadow[x] \in StoredOf(s)
         /\ \A i \in StoredOf(s) :
              \E x \in First(s) .. shuffle[s] - 1 : shadow[x] = i

(* The in-place shuffle: with the identifier in hand put back where its    *)
(* cycle began, the array is a permutation; below its cursor a segment is  *)
(* settled.                                                                *)
Held(x) == IF hand # Empty /\ x = shuffle[loop] THEN hand ELSE shadow[x]

InPlace ==
  phase = "inplace" =>
    /\ loop \in 0 .. N
    /\ \A s \in Segments :
         /\ border[s] = First(s) + size[s]
         /\ shuffle[s] \in First(s) .. border[s]
         /\ s < loop => shuffle[s] = border[s]
         /\ \A x \in First(s) .. shuffle[s] - 1 : SegmentAt(x) = s
    /\ \A x \in Items : shadow[x] # Empty
    /\ hand # Empty => loop < N /\ shuffle[loop] < border[loop]
    /\ \A x, y \in Items : Held(x) = Held(y) => x = y

(* Several heads: where the range of head h in segment s begins, and where *)
(* its run of the array begins; what its thread has stored; which slots    *)
(* are claimed; how many heads k is after g, in the order they are probed. *)
From(h, s) == First(s) + Cut(size[s], heads, h)
RunStart(h) == Cut(Total, heads, h)
Stored(i) == \E h \in Heads : RunStart(h) <= i /\ i < pos[h]
Claimed(x) == shadow[x] # Empty \/ \E h \in Heads : slot[h] = x
After(k, g) == IF g < k THEN k - g ELSE k + heads - g
Full(g, s) == ctx[g][s].off >= ctx[g][s].end

Ranges ==
  \A h \in Heads :
    /\ pos[h] \in RunStart(h) .. RunEnd(h)
    /\ \A s \in Segments :
         /\ ctx[h][s].end = From(h + 1, s)
         /\ ctx[h][s].off >= From(h, s)
         /\ \A x \in From(h, s) .. From(h + 1, s) - 1 :
              x < ctx[h][s].off <=> Claimed(x)

Pending ==
  \A h \in Heads : slot[h] # Empty =>
    /\ pos[h] < RunEnd(h)
    /\ slot[h] \in SlotsOf(ids[pos[h]])
    /\ shadow[slot[h]] = Empty
    /\ \A g \in Heads \ {h} : slot[g] # slot[h]

StoredOnce ==
  /\ \A x \in Items : shadow[x] # Empty =>
       x \in SlotsOf(input.keys[shadow[x]]) /\ Stored(shadow[x])
  /\ \A x, y \in Items : shadow[x] = shadow[y] /\ shadow[x] # Empty => x = y
  /\ \A i \in Items :
       Stored(i) => \E x \in SlotsOf(input.keys[i]) : shadow[x] = i

(* The heads that were probed for the identifier at hand are full.         *)
Probing ==
  \A h \in Heads : pos[h] < RunEnd(h) =>
    \A g \in Heads :
      After(idx[h][ids[pos[h]]], g) <= probed[h] => Full(g, ids[pos[h]])

Scattering ==
  phase = "scatter" => Ranges /\ Pending /\ StoredOnce /\ Probing

(* The worst of the pieces merged so far.                                  *)
Merging ==
  /\ phase \notin {"merge", "done"} => status = "running"
  /\ phase = "merge" =>
       /\ loop \in 0 .. N
       /\ status \in PieceStatus
       /\ \A s \in Segments : part[s] # "running"
       /\ status = "CONFLICT" <=>
            \E s \in 0 .. loop - 1 : part[s] = "CONFLICT"
       /\ status = "OK" <=> \A s \in 0 .. loop - 1 : part[s] = "OK"

IInv ==
  /\ TypeOK /\ Fresh /\ WholePath /\ Reading /\ Known /\ Sized /\ LaidOut
  /\ OneThread /\ InPlace /\ Scattering /\ Partitioned
  /\ Merging /\ StatusExact

----------------------------------------------------------------------------
(* Numbers and finite sets.                                                *)

(* A set of natural numbers that is not empty has a least element.         *)
LEMMA Least ==
  ASSUME NEW T \in SUBSET Nat, T # {}
  PROVE  \E m \in T : \A k \in T : m <= k
<1> DEFINE R == OpToRel(<, Nat)
<1>1. IsWellFoundedOn(R, Nat)
  BY NatLessThanWellFounded
<1>2. \A k, m \in Nat : <<k, m>> \in R <=> k < m
  BY DEF OpToRel
<1> HIDE DEF R
<1>3. PICK m \in T : \A k \in T : ~ (<<k, m>> \in R)
  BY <1>1, WFMin
<1>4. ASSUME NEW k \in T
      PROVE  m <= k
  <2>1. k \in Nat /\ m \in Nat /\ ~ (<<k, m>> \in R)
    BY <1>3, <1>4
  <2>2. ~ (k < m)
    BY <1>2, <2>1
  <2> QED BY <2>1, <2>2
<1> QED BY <1>4

(* Borders that begin at or below x and end above it have x between two    *)
(* that follow each other.                                                 *)
LEMMA Between ==
  ASSUME NEW n \in Nat, NEW f, \A r \in 0 .. n : f[r] \in Nat,
         NEW x \in Nat, f[0] <= x, x < f[n]
  PROVE  \E r \in 0 .. n - 1 : f[r] <= x /\ x < f[r + 1]
<1> DEFINE T == {r \in 0 .. n : x < f[r]}
<1>1. n \in T /\ T \in SUBSET Nat
  OBVIOUS
<1>2. PICK m \in T : \A k \in T : m <= k
  BY <1>1, Least
<1>3. m \in 0 .. n /\ m # 0 /\ x < f[m]
  BY <1>2
<1>4. m - 1 \in 0 .. n - 1 /\ m - 1 \in 0 .. n /\ (m - 1) + 1 = m
  BY <1>3
<1>5. ~ (m - 1 \in T)
  BY <1>2, <1>3
<1>6. f[m - 1] <= x
  BY <1>4, <1>5
<1> QED BY <1>3, <1>4, <1>6

(* Things cut between heads: all of them, in order.                        *)
LEMMA CutTypes ==
  ASSUME NEW sz \in Nat, NEW h \in Nat \ {0}
  PROVE  /\ Cut(sz, h, 0) = 0 /\ Cut(sz, h, h) = sz
         /\ \A i \in 0 .. h : Cut(sz, h, i) \in 0 .. sz
         /\ \A i, j \in 0 .. h : i <= j => Cut(sz, h, i) <= Cut(sz, h, j)
<1> DEFINE q == sz \div h
           m == sz % h
<1>1. /\ q \in Nat /\ m \in 0 .. h - 1
      /\ sz = (h * q) + m
  BY SMT
<1> HIDE DEF q, m
<1>2. \A i \in 0 .. h : Cut(sz, h, i) = i * q + (IF i < m THEN i ELSE m)
  BY DEF Cut, q, m
<1>3. ASSUME NEW i \in 0 .. h, NEW j \in 0 .. h, i <= j
      PROVE  i * q <= j * q /\ i * q \in Nat /\ j * q \in Nat
  BY <1>1, <1>3
<1>4. 0 * q = 0
  BY <1>1
<1>5. Cut(sz, h, 0) = 0
  BY <1>1, <1>2, <1>4
<1>6. Cut(sz, h, h) = sz
  BY <1>1, <1>2
<1>7. ASSUME NEW i \in 0 .. h, NEW j \in 0 .. h, i <= j
      PROVE  Cut(sz, h, i) <= Cut(sz, h, j) /\ Cut(sz, h, i) \in Nat
  BY <1>1, <1>2, <1>3, <1>7
<1>8. ASSUME NEW i \in 0 .. h
      PROVE  Cut(sz, h, i) \in 0 .. sz
  BY <1>6, <1>7
<1> QED BY <1>5, <1>6, <1>7, <1>8

(* Things that fit one to one in as many places leave no place free.       *)
LEMMA NoPlaceFree ==
  ASSUME NEW S, NEW T, IsFiniteSet(T), Cardinality(S) = Cardinality(T),
         NEW f, \A x \in S : f[x] \in T,
         \A x, y \in S : f[x] = f[y] => x = y
  PROVE  \A y \in T : \E x \in S : f[x] = y
<1> DEFINE g == [x \in S |-> f[x]]
<1>1. g \in [S -> T] /\ \A x \in S : g[x] = f[x]
  OBVIOUS
<1> HIDE DEF g
<1>2. g \in Injection(S, T)
  BY <1>1 DEF Injection, IsInjective
<1>3. g \in Surjection(S, T)
  BY <1>2, FS_Injection
<1> QED BY <1>1, <1>3 DEF Surjection

(* Borders that only grow leave nothing in two parts.                      *)
LEMMA Apart ==
  ASSUME NEW n \in Nat, NEW f, \A r \in 0 .. n : f[r] \in Nat,
         \A r, q \in 0 .. n : r <= q => f[r] <= f[q],
         NEW x \in Int, NEW r \in 0 .. n - 1, NEW q \in 0 .. n - 1,
         f[r] <= x, x < f[r + 1], f[q] <= x, x < f[q + 1]
  PROVE  r = q
<1>1. ASSUME NEW a \in 0 .. n - 1, NEW b \in 0 .. n - 1, a < b
      PROVE  f[a + 1] <= f[b]
  <2>1. a + 1 \in 0 .. n /\ b \in 0 .. n /\ a + 1 <= b
    BY <1>1
  <2> QED BY <2>1
<1>2. /\ f[r] \in Int /\ f[r + 1] \in Int /\ f[q] \in Int /\ f[q + 1] \in Int
  <2>1. r \in 0 .. n /\ r + 1 \in 0 .. n /\ q \in 0 .. n /\ q + 1 \in 0 .. n
    OBVIOUS
  <2>2. f[r] \in Nat /\ f[r + 1] \in Nat /\ f[q] \in Nat /\ f[q + 1] \in Nat
    BY <2>1
  <2> QED BY <2>2
<1>3. CASE r < q
  <2>1. f[r + 1] <= f[q]
    BY <1>1, <1>3
  <2> QED BY <1>2, <2>1
<1>4. CASE q < r
  <2>1. f[q + 1] <= f[r]
    BY <1>1, <1>4
  <2> QED BY <1>2, <2>1
<1> QED BY <1>3, <1>4

----------------------------------------------------------------------------
(* The layout of the array.                                                *)

LEMMA InputTypes ==
  ASSUME IsInput(input)
  PROVE  /\ N \in Nat \ {0} /\ Total \in Nat \ {0}
         /\ Items = 0 .. Total - 1 /\ IsFiniteSet(Items)
         /\ Cardinality(Items) = Total
         /\ \A S \in SUBSET Items :
              IsFiniteSet(S) /\ Cardinality(S) \in 0 .. Total
         /\ \A i \in Items : input.keys[i] \in {Bad} \union Segments
         /\ \A r \in 0 .. N : input.cut[r] \in 0 .. Total
         /\ input.cut[0] = 0 /\ input.cut[N] = Total
         /\ \A r, q \in 0 .. N : r <= q => input.cut[r] <= input.cut[q]
<1>1. N \in Nat \ {0} /\ Total \in Nat \ {0} /\ Items = 0 .. Total - 1
  BY DEF IsInput, N, Total, Items
<1>2. IsFiniteSet(Items) /\ Cardinality(Items) = Total
  BY <1>1, FS_Interval
<1>3. ASSUME NEW S \in SUBSET Items
      PROVE  IsFiniteSet(S) /\ Cardinality(S) \in 0 .. Total
  <2>1. IsFiniteSet(S) /\ Cardinality(S) <= Total
    BY <1>2, FS_Subset
  <2>2. Cardinality(S) \in Nat
    BY <2>1, FS_CardinalityType
  <2> QED BY <1>1, <2>1, <2>2
<1> QED BY <1>1, <1>2, <1>3 DEF IsInput, N, Total, Items, Segments

(* The segments lie side by side in the array.                             *)
LEMMA Layout ==
  ASSUME IsInput(input)
  PROVE  /\ \A s \in 0 .. N : First(s) \in 0 .. Total
         /\ First(0) = 0
         /\ \A s \in Segments :
              /\ IsFiniteSet(OfSegment(s))
              /\ Cardinality(OfSegment(s)) \in Nat
              /\ First(s + 1) = First(s) + Cardinality(OfSegment(s))
              /\ SlotsOf(s) = First(s) .. First(s + 1) - 1
              /\ SlotsOf(s) \subseteq Items
              /\ IsFiniteSet(SlotsOf(s))
              /\ Cardinality(SlotsOf(s)) = Cardinality(OfSegment(s))
         /\ \A s, t \in 0 .. N : s <= t => First(s) <= First(t)
         /\ \A s, t \in Segments : \A x \in SlotsOf(s) :
              x \in SlotsOf(t) => s = t
<1>1. /\ N \in Nat \ {0} /\ Total \in Nat \ {0}
      /\ Segments = 0 .. N - 1
      /\ \A S \in SUBSET Items :
           IsFiniteSet(S) /\ Cardinality(S) \in 0 .. Total
  BY InputTypes DEF Segments
<1>2. ASSUME NEW s \in 0 .. N
      PROVE  Before(s) \in SUBSET Items /\ First(s) \in 0 .. Total
  BY <1>1 DEF Before, First
<1>3. First(0) = 0
  <2>1. Before(0) = {}
    BY DEF Before
  <2> QED BY <2>1, FS_EmptySet DEF First
<1>4. ASSUME NEW s \in Segments
      PROVE  /\ OfSegment(s) \in SUBSET Items
             /\ IsFiniteSet(OfSegment(s))
             /\ Cardinality(OfSegment(s)) \in Nat
  BY <1>1 DEF OfSegment
<1>5. ASSUME NEW s \in Segments
      PROVE  First(s + 1) = First(s) + Cardinality(OfSegment(s))
  <2>1. Before(s + 1) = Before(s) \union OfSegment(s)
    BY <1>1 DEF Before, OfSegment
  <2>2. Before(s) \cap OfSegment(s) = {}
    BY <1>1 DEF Before, OfSegment
  <2>3. IsFiniteSet(Before(s)) /\ Cardinality(Before(s)) \in Nat
    BY <1>1, <1>2
  <2>4. Cardinality(Before(s) \union OfSegment(s)) =
          Cardinality(Before(s)) + Cardinality(OfSegment(s)) - 0
    BY <1>4, <2>2, <2>3, FS_Union, FS_EmptySet
  <2>5. Cardinality(Before(s + 1)) =
          Cardinality(Before(s)) + Cardinality(OfSegment(s))
    <3>1. Cardinality(Before(s + 1)) = Cardinality(Before(s) \union OfSegment(s))
      BY <2>1
    <3> QED BY <1>4, <2>3, <2>4, <3>1
  <2> QED BY <2>5 DEF First
<1>6. ASSUME NEW s \in 0 .. N, NEW t \in 0 .. N, s <= t
      PROVE  First(s) <= First(t)
  <2>1. Before(s) \in SUBSET Before(t)
    BY <1>1, <1>6 DEF Before
  <2> QED BY <1>1, <1>2, <2>1, FS_Subset DEF First
<1>7. ASSUME NEW s \in Segments
      PROVE  /\ SlotsOf(s) = First(s) .. First(s + 1) - 1
             /\ SlotsOf(s) \subseteq Items
             /\ IsFiniteSet(SlotsOf(s))
             /\ Cardinality(SlotsOf(s)) = Cardinality(OfSegment(s))
  <2>1. s \in 0 .. N /\ s + 1 \in 0 .. N
    BY <1>1
  <2>2. First(s) \in 0 .. Total /\ First(s + 1) \in 0 .. Total
    BY <1>2, <2>1
  <2>3. SlotsOf(s) = First(s) .. First(s + 1) - 1
    BY <1>4, <1>5, <2>2 DEF SlotsOf, First
  <2>4. SlotsOf(s) \subseteq Items
    BY <1>1, <2>2, <2>3 DEF Items
  <2>5. /\ IsFiniteSet(SlotsOf(s))
        /\ Cardinality(SlotsOf(s)) = IF First(s) > First(s + 1) - 1 THEN 0
                                     ELSE First(s + 1) - 1 - First(s) + 1
    <3>1. First(s) \in Int /\ First(s + 1) - 1 \in Int
      BY <2>2
    <3> QED BY <2>3, <3>1, FS_Interval
  <2> QED BY <1>4, <1>5, <2>2, <2>3, <2>4, <2>5
<1>8. ASSUME NEW s \in Segments, NEW t \in Segments, NEW x \in SlotsOf(s),
             x \in SlotsOf(t)
      PROVE  s = t
  <2> DEFINE f == [r \in 0 .. N |-> First(r)]
  <2>1. /\ \A r \in 0 .. N : f[r] \in Nat
        /\ \A r, q \in 0 .. N : r <= q => f[r] <= f[q]
    BY <1>2, <1>6
  <2>2. /\ s \in 0 .. N - 1 /\ t \in 0 .. N - 1 /\ N \in Nat
        /\ s \in 0 .. N /\ s + 1 \in 0 .. N /\ t \in 0 .. N /\ t + 1 \in 0 .. N
    BY <1>1
  <2>3. /\ x \in First(s) .. First(s + 1) - 1
        /\ x \in First(t) .. First(t + 1) - 1
    BY <1>7, <1>8
  <2>4. /\ First(s) \in Nat /\ First(s + 1) \in Nat
        /\ First(t) \in Nat /\ First(t + 1) \in Nat
    BY <1>2, <2>2
  <2>5. /\ x \in Int
        /\ f[s] <= x /\ x < f[s + 1] /\ f[t] <= x /\ x < f[t + 1]
    BY <2>2, <2>3, <2>4
  <2> HIDE DEF f
  <2> QED BY <2>1, <2>2, <2>5, Apart
<1> QED BY <1>2, <1>3, <1>4, <1>5, <1>6, <1>7, <1>8

(* A step does not change the input, and so not the layout.                *)
LEMMA SameInput ==
  ASSUME input' = input
  PROVE  /\ N' = N /\ Total' = Total /\ Items' = Items
         /\ Segments' = Segments /\ Readers' = Readers
         /\ IsInput(input)' <=> IsInput(input)
         /\ Whole' <=> Whole
         /\ \A s : /\ First(s)' = First(s)
                   /\ OfSegment(s)' = OfSegment(s)
                   /\ SlotsOf(s)' = SlotsOf(s)
                   /\ Share(s)' = Share(s)
<1>1. /\ N' = N /\ Total' = Total /\ Items' = Items
      /\ Segments' = Segments /\ Readers' = Readers
      /\ IsInput(input)' <=> IsInput(input)
      /\ Whole' <=> Whole
  BY DEF N, Total, Items, Segments, Readers, IsInput, Whole
<1>2. \A s : OfSegment(s)' = OfSegment(s) /\ Before(s)' = Before(s)
  BY <1>1 DEF OfSegment, Before
<1>3. \A s : First(s)' = First(s) /\ SlotsOf(s)' = SlotsOf(s)
  BY <1>2 DEF First, SlotsOf
<1>4. \A s : Share(s)' = Share(s)
  BY DEF Share
<1> QED BY <1>1, <1>2, <1>3, <1>4

----------------------------------------------------------------------------
(* The start, and the path without threads.                                *)

LEMMA InitInv == Init => IInv
<1> SUFFICES ASSUME Init
             PROVE  IInv
  OBVIOUS
<1>1. IsInput(input)
  BY InputAssumption DEF Init
<1>2. /\ N \in Nat \ {0} /\ Total \in Nat \ {0}
      /\ \A r \in 0 .. N : input.cut[r] \in 0 .. Total
  BY <1>1, InputTypes
<1>3. TypeOK
  <2>1. /\ phase = "start" /\ status = "running" /\ fail \in BOOLEAN
        /\ phase # "scatter"
    BY DEF Init
  <2>2. /\ ids \in [Items -> Segments \union {Empty}]
        /\ shadow \in [Items -> Items \union {Empty}]
        /\ hand \in Items \union {Empty}
    BY DEF Init, Items, Total
  <2>3. /\ next \in [Readers -> 0 .. Total]
        /\ added \in [Readers -> 0 .. N]
        /\ stopped \subseteq Readers
    BY <1>2 DEF Init, Readers
  <2>4. temp \in [Readers -> [Segments -> Nat]]
    BY DEF Init
  <2>5. /\ shuffle \in [Segments -> Nat] /\ size \in [Segments -> Nat]
        /\ border \in [Segments -> Nat]
        /\ part \in [Segments -> PieceStatus \union {"running"}]
        /\ loop \in Nat /\ offset \in Nat /\ heads \in 0 .. N
    BY <1>2 DEF Init
  <2> QED BY <1>1, <2>1, <2>2, <2>3, <2>4, <2>5 DEF TypeOK
<1>4. Fresh /\ WholePath /\ Merging
  BY DEF Init, Fresh, WholePath, Merging, Items, Total
<1>5. Reading
  <2>1. ASSUME NEW r \in Readers
        PROVE  /\ next[r] \in input.cut[r] .. input.cut[r + 1]
               /\ \A i \in input.cut[r] .. next[r] - 1 :
                    input.keys[i] # Bad /\ ids[i] = input.keys[i]
               /\ \A s \in Segments : temp[r][s] = Cardinality(ReadOf(r, s))
               /\ added[r] = 0
    <3>1. r \in 0 .. N /\ r + 1 \in 0 .. N /\ r <= r + 1
      BY <1>2 DEF Readers
    <3>2. /\ input.cut[r] \in Nat /\ input.cut[r + 1] \in Nat
          /\ input.cut[r] <= input.cut[r + 1]
      BY <1>1, <1>2, <3>1, InputTypes
    <3>3. next[r] = input.cut[r] /\ added[r] = 0
      BY DEF Init
    <3>4. ASSUME NEW s \in Segments
          PROVE  temp[r][s] = Cardinality(ReadOf(r, s))
      <4>1. ReadOf(r, s) = {}
        BY <3>2, <3>3 DEF ReadOf
      <4>2. temp[r][s] = 0
        BY DEF Init
      <4> QED BY <4>1, <4>2, FS_EmptySet
    <3> QED BY <3>2, <3>3, <3>4
  <2>2. ASSUME NEW s \in Segments
        PROVE  shuffle[s] = Cardinality(AddedOf(s))
    <3>1. s \in Nat
      BY <1>2 DEF Segments
    <3>2. AddedOf(s) = {}
      BY <2>1, <3>1 DEF AddedOf
    <3>3. shuffle[s] = 0
      BY DEF Init
    <3> QED BY <3>2, <3>3, FS_EmptySet
  <2>3. stopped = {} /\ ~ fail
    BY DEF Init
  <2> QED BY <2>1, <2>2, <2>3 DEF Reading
<1>6. /\ Known /\ Sized /\ LaidOut /\ OneThread /\ InPlace
      /\ Scattering /\ Partitioned /\ StatusExact
  BY DEF Init, Known, Sized, LaidOut, OneThread, InPlace, Scattering,
         Partitioned, StatusExact
<1> QED BY <1>3, <1>4, <1>5, <1>6 DEF IInv

(* The reader threads have read nothing when they start.                   *)
LEMMA StartStep == IInv /\ Start => IInv'
<1> SUFFICES ASSUME IInv, Start
             PROVE  IInv'
  OBVIOUS
<1> USE DEF readVars, layVars, scatterVars, arrayVars
<1>1. input' = input /\ IsInput(input) /\ phase = "start"
  BY DEF IInv, TypeOK, Start
<1>2. N \in Nat \ {0} /\ Total \in Nat \ {0}
  BY <1>1, InputTypes
<1>3. TypeOK'
  BY <1>1, SameInput DEF IInv, TypeOK, Start
<1>4. Fresh'
  BY <1>1, <1>2, SameInput DEF IInv, Fresh, Start
<1>5. WholePath'
  BY <1>1, <1>2, SameInput, ParamAssumption DEF IInv, WholePath, Start
<1>6. Reading'
  BY <1>1, SameInput
  DEF IInv, Start, Reading, ReadOf, AddedOf, Readers, Segments, N
<1>7. /\ Known' /\ Sized' /\ LaidOut' /\ OneThread' /\ InPlace'
      /\ Scattering' /\ Partitioned' /\ Merging'
  BY <1>1 DEF IInv, Start, Known, Sized, LaidOut, OneThread, InPlace,
              Scattering, Partitioned, Merging
<1>8. StatusExact'
  <2> SUFFICES ASSUME phase' = "done"
               PROVE  StatusExact'
    BY DEF StatusExact
  <2>1. status' = "BAD_INPUT" /\ Whole /\ Total > MaxPiece
    BY DEF Start
  <2>2. ~ ({Total} \subseteq 1 .. MaxPiece)
    BY <1>2, <2>1, ParamAssumption
  <2> QED BY <1>1, <2>1, <2>2, SameInput DEF StatusExact
<1> QED BY <1>3, <1>4, <1>5, <1>6, <1>7, <1>8 DEF IInv

LEMMA ReadWholeStep == IInv /\ ReadWhole => IInv'
<1> SUFFICES ASSUME IInv, ReadWhole
             PROVE  IInv'
  OBVIOUS
<1> USE DEF readVars, layVars, scatterVars, arrayVars
<1>1. /\ input' = input /\ IsInput(input)
      /\ phase = "whole" /\ phase' \in {"whole", "done"}
      /\ loop \in 0 .. Total /\ loop < Total
  BY DEF IInv, TypeOK, ReadWhole, WholePath
<1>2. /\ N \in Nat \ {0} /\ Total \in Nat \ {0}
      /\ loop \in Items
      /\ input.keys[loop] \in {Bad} \union Segments
  BY <1>1, InputTypes
<1>3. TypeOK'
  <2>1. ids \in [Items -> Segments \union {Empty}]
    BY DEF IInv, TypeOK
  <2>2. ids' \in [Items -> Segments \union {Empty}] /\ loop' \in Nat
    BY <1>1, <1>2, <2>1 DEF ReadWhole
  <2> QED BY <1>1, <2>2, SameInput DEF IInv, TypeOK, ReadWhole
<1>4. Fresh'
  BY <1>1, SameInput DEF IInv, Fresh, ReadWhole
<1>5. WholePath'
  <2>1. CASE input.keys[loop] = Bad
    BY <1>1, <2>1, SameInput DEF ReadWhole, WholePath
  <2>2. CASE input.keys[loop] # Bad
    <3>1. loop' = loop + 1 /\ phase' = "whole"
      BY <2>2 DEF ReadWhole
    <3>2. \A i \in 0 .. loop' - 1 : input.keys[i] # Bad
      BY <1>1, <2>2, <3>1 DEF IInv, WholePath
    <3>3. loop' \in 0 .. Total /\ Whole /\ Total <= MaxPiece
      BY <1>1, <1>2, <3>1 DEF IInv, WholePath
    <3> QED BY <1>1, <3>1, <3>2, <3>3, SameInput DEF WholePath
  <2> QED BY <2>1, <2>2
<1>6. /\ Reading' /\ Known' /\ Sized' /\ LaidOut' /\ OneThread' /\ InPlace'
      /\ Scattering' /\ Partitioned' /\ Merging'
  BY <1>1 DEF IInv, ReadWhole, Reading, Known, Sized, LaidOut, OneThread,
              InPlace, Scattering, Partitioned, Merging
<1>7. StatusExact'
  <2> SUFFICES ASSUME phase' = "done"
               PROVE  StatusExact'
    BY DEF StatusExact
  <2>1. status' = "BAD_INPUT" /\ input.keys[loop] = Bad
    BY <1>1 DEF ReadWhole
  <2> QED BY <1>1, <1>2, <2>1, SameInput DEF StatusExact
<1> QED BY <1>3, <1>4, <1>5, <1>6, <1>7 DEF IInv

LEMMA BuildWholeStep == IInv /\ BuildWhole => IInv'
<1> SUFFICES ASSUME IInv, BuildWhole
             PROVE  IInv'
  OBVIOUS
<1> USE DEF readVars, layVars, scatterVars, arrayVars
<1>1. /\ input' = input /\ IsInput(input)
      /\ phase = "whole" /\ phase' = "done" /\ loop = Total
      /\ Whole /\ Total <= MaxPiece
      /\ \A i \in 0 .. loop - 1 : input.keys[i] # Bad
  BY DEF IInv, TypeOK, BuildWhole, WholePath
<1>2. N \in Nat \ {0} /\ Total \in Nat \ {0} /\ 0 \in Segments
  BY <1>1, InputTypes DEF Segments
<1>3. PICK result \in PieceStatus : /\ part' = [part EXCEPT ![0] = result]
                                    /\ status' = result
  BY DEF BuildWhole
<1>4. TypeOK'
  BY <1>1, <1>2, <1>3, SameInput DEF IInv, TypeOK, BuildWhole
<1>5. /\ Fresh' /\ WholePath' /\ Reading' /\ Known' /\ Sized' /\ LaidOut'
      /\ OneThread' /\ InPlace' /\ Scattering' /\ Partitioned' /\ Merging'
  BY <1>1 DEF Fresh, WholePath, Reading, Known, Sized, LaidOut, OneThread,
              InPlace, Scattering, Partitioned, Merging
<1>6. StatusExact'
  <2>1. part'[0] = result /\ result \in {"OK", "CONFLICT", "OUT_OF_CHANCE"}
    BY <1>2, <1>3 DEF IInv, TypeOK, PieceStatus
  <2>2. \A i \in Items : input.keys[i] # Bad
    BY <1>1 DEF Items
  <2>3. {Total} \subseteq 1 .. MaxPiece
    BY <1>1, <1>2, ParamAssumption
  <2> QED BY <1>1, <1>3, <2>1, <2>2, <2>3, SameInput DEF StatusExact
<1> QED BY <1>4, <1>5, <1>6 DEF IInv

----------------------------------------------------------------------------
(* The reader threads.                                                     *)

(* The shares of the readers do not overlap, and cover the array.          *)
LEMMA Shares ==
  ASSUME IsInput(input)
  PROVE  /\ \A r \in Readers :
              /\ r \in 0 .. N /\ r + 1 \in 0 .. N
              /\ input.cut[r] \in Nat /\ input.cut[r + 1] \in 0 .. Total
              /\ input.cut[r] <= input.cut[r + 1]
              /\ Share(r) \subseteq Items
         /\ \A i \in Items : \E r \in Readers : i \in Share(r)
         /\ \A r, q \in Readers : \A i \in Share(r) : i \in Share(q) => r = q
<1>1. /\ N \in Nat \ {0} /\ Total \in Nat \ {0} /\ Items = 0 .. Total - 1
      /\ \A r \in 0 .. N : input.cut[r] \in 0 .. Total
      /\ input.cut[0] = 0 /\ input.cut[N] = Total
      /\ \A r, q \in 0 .. N : r <= q => input.cut[r] <= input.cut[q]
      /\ Readers = 0 .. N - 1
  BY InputTypes DEF Readers
<1>2. ASSUME NEW r \in Readers
      PROVE  /\ r \in 0 .. N /\ r + 1 \in 0 .. N
             /\ input.cut[r] \in 0 .. Total /\ input.cut[r + 1] \in 0 .. Total
             /\ input.cut[r] <= input.cut[r + 1]
             /\ Share(r) \subseteq Items
  <2>1. r \in 0 .. N /\ r + 1 \in 0 .. N /\ r <= r + 1
    BY <1>1
  <2>2. /\ input.cut[r] \in 0 .. Total /\ input.cut[r + 1] \in 0 .. Total
        /\ input.cut[r] <= input.cut[r + 1]
    BY <1>1, <2>1, Zenon
  <2>3. Total \in Nat /\ Items = 0 .. Total - 1
    BY <1>1
  <2>4. Share(r) \subseteq Items
    BY <2>2, <2>3 DEF Share
  <2> QED BY <2>1, <2>2, <2>4, Zenon
<1>3. ASSUME NEW i \in Items
      PROVE  \E r \in Readers : i \in Share(r)
  <2>1. \A r \in 0 .. N : input.cut[r] \in Nat
    BY <1>1
  <2>2. i \in Nat /\ input.cut[0] <= i /\ i < input.cut[N]
    BY <1>1
  <2>3. PICK r \in 0 .. N - 1 : input.cut[r] <= i /\ i < input.cut[r + 1]
    BY <1>1, <2>1, <2>2, Between
  <2> QED BY <1>1, <1>2, <2>2, <2>3 DEF Share
<1>4. ASSUME NEW r \in Readers, NEW q \in Readers, NEW i \in Share(r),
             i \in Share(q)
      PROVE  r = q
  <2>1. \A k \in 0 .. N : input.cut[k] \in Nat
    BY <1>1
  <2>2. /\ i \in Int /\ input.cut[r] <= i /\ i < input.cut[r + 1]
        /\ input.cut[q] <= i /\ i < input.cut[q + 1]
    BY <1>2, <1>4 DEF Share
  <2>3. /\ N \in Nat /\ r \in 0 .. N - 1 /\ q \in 0 .. N - 1
        /\ \A a, b \in 0 .. N : a <= b => input.cut[a] <= input.cut[b]
    BY <1>1
  <2> QED BY <2>1, <2>2, <2>3, Apart
<1> QED BY <1>1, <1>2, <1>3, <1>4

(* What holds of a reader thread.                                          *)
LEMMA ReaderTypes ==
  ASSUME IInv, phase = "read", NEW r \in Readers
  PROVE  /\ IsInput(input)
         /\ N \in Nat \ {0} /\ Total \in Nat \ {0}
         /\ next[r] \in Nat /\ added[r] \in 0 .. N
         /\ next[r] \in input.cut[r] .. input.cut[r + 1]
         /\ input.cut[r] \in Nat /\ input.cut[r + 1] \in 0 .. Total
         /\ \A i \in input.cut[r] .. next[r] - 1 :
              /\ i \in Share(r) /\ i \in Items
              /\ input.keys[i] # Bad /\ ids[i] = input.keys[i]
         /\ next[r] < input.cut[r + 1] =>
              /\ next[r] \in Share(r) /\ next[r] \in Items
              /\ input.keys[next[r]] \in {Bad} \union Segments
              /\ added[r] = 0
         /\ added[r] > 0 => next[r] = input.cut[r + 1]
         /\ \A s \in Segments :
              /\ temp[r][s] = Cardinality(ReadOf(r, s))
              /\ IsFiniteSet(ReadOf(r, s)) /\ ReadOf(r, s) \subseteq Items
<1>1. IsInput(input) /\ Reading /\ TypeOK
  BY DEF IInv, TypeOK
<1>2. /\ N \in Nat \ {0} /\ Total \in Nat \ {0}
      /\ input.cut[r] \in Nat /\ input.cut[r + 1] \in 0 .. Total
      /\ Share(r) \subseteq Items
  BY <1>1, InputTypes, Shares
<1>3. /\ next[r] \in input.cut[r] .. input.cut[r + 1] /\ added[r] \in 0 .. N
      /\ next[r] \in Nat
      /\ added[r] > 0 => next[r] = input.cut[r + 1]
  BY <1>1, <1>2 DEF Reading, TypeOK
<1>4. ASSUME NEW i \in input.cut[r] .. next[r] - 1
      PROVE  /\ i \in Share(r) /\ i \in Items
             /\ input.keys[i] # Bad /\ ids[i] = input.keys[i]
  <2>1. i \in Share(r)
    BY <1>2, <1>3 DEF Share
  <2> QED BY <1>1, <1>2, <2>1 DEF Reading
<1>5. ASSUME next[r] < input.cut[r + 1]
      PROVE  /\ next[r] \in Share(r) /\ next[r] \in Items
             /\ input.keys[next[r]] \in {Bad} \union Segments
             /\ added[r] = 0
  <2>1. next[r] \in Share(r)
    BY <1>2, <1>3, <1>5 DEF Share
  <2>2. next[r] \in Items
    BY <1>2, <2>1
  <2>3. input.keys[next[r]] \in {Bad} \union Segments
    BY <1>1, <2>2, InputTypes
  <2> QED BY <1>2, <1>3, <1>5, <2>1, <2>2, <2>3
<1>6. ASSUME NEW s \in Segments
      PROVE  /\ temp[r][s] = Cardinality(ReadOf(r, s))
             /\ IsFiniteSet(ReadOf(r, s)) /\ ReadOf(r, s) \subseteq Items
  <2>1. ReadOf(r, s) \in SUBSET Items
    BY DEF ReadOf, OfSegment
  <2> QED BY <1>1, <2>1, InputTypes DEF Reading
<1> QED BY <1>1, <1>2, <1>3, <1>4, <1>5, <1>6

LEMMA ReadKeyStep ==
  ASSUME IInv, NEW r \in Readers, ReadKey(r)
  PROVE  IInv'
<1> USE DEF readVars, layVars, scatterVars, arrayVars
<1> DEFINE at == next[r]
           key == input.keys[at]
<1>1. /\ input' = input /\ IsInput(input) /\ TypeOK /\ Reading
      /\ phase = "read" /\ phase' = "read"
      /\ r \notin stopped /\ at < input.cut[r + 1]
      /\ key # Bad
      /\ ids' = [ids EXCEPT ![at] = key]
      /\ temp' = [temp EXCEPT ![r][key] = @ + 1]
      /\ next' = [next EXCEPT ![r] = @ + 1]
      /\ UNCHANGED <<status, added, stopped, fail, shuffle>>
  BY DEF IInv, TypeOK, ReadKey
<1>2. /\ N \in Nat \ {0} /\ Total \in Nat \ {0}
      /\ at \in Nat /\ at \in input.cut[r] .. input.cut[r + 1]
      /\ input.cut[r] \in Nat /\ input.cut[r + 1] \in 0 .. Total
      /\ at \in Share(r) /\ at \in Items
      /\ key \in Segments /\ added[r] = 0
  BY <1>1, ReaderTypes
<1> HIDE DEF at, key
<1>3. /\ next' \in [Readers -> 0 .. Total]
      /\ ids' \in [Items -> Segments \union {Empty}]
      /\ temp' \in [Readers -> [Segments -> Nat]]
  <2>1. /\ next \in [Readers -> 0 .. Total]
        /\ ids \in [Items -> Segments \union {Empty}]
        /\ temp \in [Readers -> [Segments -> Nat]]
    BY <1>1 DEF TypeOK
  <2>2. at = next[r] /\ at + 1 \in 0 .. Total
    BY <1>1, <1>2 DEF at
  <2> QED BY <1>1, <1>2, <2>1, <2>2
<1>4. TypeOK'
  BY <1>1, <1>3, SameInput DEF IInv, TypeOK, ReadKey
<1>5. Reading'
  <2>1. ASSUME NEW q \in Readers
        PROVE  /\ next'[q] \in input.cut[q] .. input.cut[q + 1]
               /\ \A i \in input.cut[q] .. next'[q] - 1 :
                    input.keys[i] # Bad /\ ids'[i] = input.keys[i]
               /\ \A s \in Segments : temp'[q][s] = Cardinality(ReadOf(q, s)')
               /\ added'[q] > 0 => next'[q] = input.cut[q + 1]
    <3>1. /\ next \in [Readers -> 0 .. Total]
          /\ ids \in [Items -> Segments \union {Empty}]
          /\ temp \in [Readers -> [Segments -> Nat]]
      BY <1>1 DEF TypeOK
    <3>2. CASE q = r
      <4>1. next'[q] = at + 1 /\ added'[q] = 0
        BY <1>1, <1>2, <3>1, <3>2 DEF at
      <4>2. next'[q] \in input.cut[q] .. input.cut[q + 1]
        BY <1>1, <1>2, <3>2, <4>1
      <4>3. ASSUME NEW i \in input.cut[q] .. next'[q] - 1
            PROVE  input.keys[i] # Bad /\ ids'[i] = input.keys[i]
        <5>1. CASE i = at
          BY <1>1, <1>2, <3>1, <5>1 DEF key
        <5>2. CASE i # at
          <6>1. i \in input.cut[r] .. next[r] - 1
            BY <1>2, <3>2, <4>1, <5>2 DEF at
          <6>2. i \in Items /\ input.keys[i] # Bad /\ ids[i] = input.keys[i]
            BY <1>1, <6>1, ReaderTypes
          <6> QED BY <1>1, <3>1, <5>2, <6>2
        <5> QED BY <5>1, <5>2
      <4>4. ASSUME NEW s \in Segments
            PROVE  temp'[q][s] = Cardinality(ReadOf(q, s)')
        <5>1. /\ temp[r][s] = Cardinality(ReadOf(r, s))
              /\ IsFiniteSet(ReadOf(r, s))
          BY <1>1, ReaderTypes
        <5>2. at \notin ReadOf(r, s)
          BY <1>2 DEF ReadOf, at
        <5>3. ReadOf(q, s)' = {i \in OfSegment(s) :
                                 i \in input.cut[r] .. at}
          BY <1>1, <1>2, <3>2, <4>1, SameInput DEF ReadOf
        <5>4. CASE s = key
          <6>1. ReadOf(q, s)' = ReadOf(r, s) \union {at}
            BY <1>2, <5>3, <5>4 DEF ReadOf, OfSegment, at, key
          <6>2. Cardinality(ReadOf(r, s) \union {at}) =
                  Cardinality(ReadOf(r, s)) + 1
            BY <5>1, <5>2, FS_AddElement
          <6>3. temp'[q][s] = temp[r][s] + 1
            BY <1>1, <3>1, <3>2, <5>4
          <6> QED BY <5>1, <6>1, <6>2, <6>3
        <5>5. CASE s # key
          <6>1. ReadOf(q, s)' = ReadOf(r, s)
            BY <1>2, <5>3, <5>5 DEF ReadOf, OfSegment, at, key
          <6>2. temp'[q][s] = temp[r][s]
            BY <1>1, <3>1, <3>2, <5>5
          <6> QED BY <5>1, <6>1, <6>2
        <5> QED BY <5>4, <5>5
      <4> QED BY <4>1, <4>2, <4>3, <4>4
    <3>3. CASE q # r
      <4>1. next'[q] = next[q] /\ temp'[q] = temp[q] /\ added'[q] = added[q]
        BY <1>1, <3>1, <3>3
      <4>2. \A s \in Segments : ReadOf(q, s)' = ReadOf(q, s)
        BY <1>1, <4>1, SameInput DEF ReadOf
      <4>3. ASSUME NEW i \in input.cut[q] .. next[q] - 1
            PROVE  input.keys[i] # Bad /\ ids'[i] = input.keys[i]
        <5>1. /\ i \in Share(q) /\ i \in Items
              /\ input.keys[i] # Bad /\ ids[i] = input.keys[i]
          BY <1>1, ReaderTypes
        <5>2. i # at
          BY <1>1, <1>2, <3>3, <5>1, Shares
        <5> QED BY <1>1, <3>1, <5>1, <5>2
      <4>4. /\ next[q] \in input.cut[q] .. input.cut[q + 1]
            /\ added[q] > 0 => next[q] = input.cut[q + 1]
            /\ \A s \in Segments : temp[q][s] = Cardinality(ReadOf(q, s))
        BY <1>1, ReaderTypes
      <4> QED BY <4>1, <4>2, <4>3, <4>4
    <3> QED BY <3>2, <3>3
  <2>2. \A s \in Segments : shuffle'[s] = Cardinality(AddedOf(s)')
    BY <1>1, SameInput DEF Reading, AddedOf
  <2>3. ASSUME NEW q \in stopped
        PROVE  next'[q] < input.cut[q + 1] /\ input.keys[next'[q]] = Bad
    BY <1>1, <2>3 DEF Reading, TypeOK
  <2>4. fail' <=> stopped' # {}
    BY <1>1 DEF Reading
  <2> QED BY <1>1, <2>1, <2>2, <2>3, <2>4, SameInput DEF Reading
<1>6. /\ Fresh' /\ WholePath' /\ Known' /\ Sized' /\ LaidOut' /\ OneThread'
      /\ InPlace' /\ Scattering' /\ Partitioned' /\ Merging' /\ StatusExact'
  BY <1>1, SameInput
  DEF IInv, ReadKey, Fresh, WholePath, Known, Sized, LaidOut, OneThread,
      InPlace, Scattering, Partitioned, Merging, StatusExact
<1> QED BY <1>4, <1>5, <1>6 DEF IInv

LEMMA RejectKeyStep ==
  ASSUME IInv, NEW r \in Readers, RejectKey(r)
  PROVE  IInv'
<1> USE DEF readVars, layVars, scatterVars, arrayVars
<1>1. /\ input' = input /\ IsInput(input) /\ TypeOK /\ Reading
      /\ phase = "read" /\ phase' = "read"
      /\ next[r] < input.cut[r + 1] /\ input.keys[next[r]] = Bad
      /\ fail' = TRUE /\ stopped' = stopped \union {r}
      /\ UNCHANGED <<ids, next, temp, added, shuffle>>
  BY DEF IInv, TypeOK, RejectKey
<1>2. TypeOK'
  BY <1>1, SameInput DEF IInv, TypeOK, RejectKey
<1>3. Reading'
  <2>1. \A q \in Readers, s \in Segments : ReadOf(q, s)' = ReadOf(q, s)
    BY <1>1, SameInput DEF ReadOf
  <2>2. \A s \in Segments : AddedOf(s)' = AddedOf(s)
    BY <1>1, SameInput DEF AddedOf
  <2>3. \A q \in stopped' : /\ next'[q] < input.cut[q + 1]
                            /\ input.keys[next'[q]] = Bad
    BY <1>1 DEF Reading
  <2>4. fail' <=> stopped' # {}
    BY <1>1
  <2> QED BY <1>1, <2>1, <2>2, <2>3, <2>4, SameInput DEF Reading
<1>4. /\ Fresh' /\ WholePath' /\ Known' /\ Sized' /\ LaidOut' /\ OneThread'
      /\ InPlace' /\ Scattering' /\ Partitioned' /\ Merging' /\ StatusExact'
  BY <1>1, SameInput
  DEF IInv, RejectKey, Fresh, WholePath, Known, Sized, LaidOut, OneThread,
      InPlace, Scattering, Partitioned, Merging, StatusExact
<1> QED BY <1>2, <1>3, <1>4 DEF IInv

(* The counts a thread adds are those of its share.                        *)
LEMMA AddCountStep ==
  ASSUME IInv, NEW r \in Readers, AddCount(r)
  PROVE  IInv'
<1> USE DEF readVars, layVars, scatterVars, arrayVars
<1> DEFINE t == added[r]
<1>1. /\ input' = input /\ IsInput(input) /\ TypeOK /\ Reading
      /\ phase = "read" /\ phase' = "read"
      /\ next[r] = input.cut[r + 1] /\ t < N
      /\ shuffle' = [shuffle EXCEPT ![t] = @ + temp[r][t]]
      /\ added' = [added EXCEPT ![r] = @ + 1]
      /\ UNCHANGED <<status, ids, next, temp, stopped, fail>>
  BY DEF IInv, TypeOK, AddCount
<1>2. /\ N \in Nat \ {0} /\ t \in Segments /\ t \in Nat /\ t + 1 \in 0 .. N
      /\ temp[r][t] = Cardinality(ReadOf(r, t))
      /\ IsFiniteSet(ReadOf(r, t)) /\ temp[r][t] \in Nat
  <2>1. N \in Nat \ {0} /\ t \in 0 .. N
    BY <1>1, ReaderTypes
  <2>2. t \in Segments /\ t \in Nat /\ t + 1 \in 0 .. N
    BY <1>1, <2>1 DEF Segments
  <2> QED BY <1>1, <2>1, <2>2, ReaderTypes DEF TypeOK
<1>3. /\ added \in [Readers -> 0 .. N] /\ shuffle \in [Segments -> Nat]
      /\ added' \in [Readers -> 0 .. N] /\ shuffle' \in [Segments -> Nat]
  <2>1. added \in [Readers -> 0 .. N] /\ shuffle \in [Segments -> Nat]
    BY <1>1 DEF TypeOK
  <2> QED BY <1>1, <1>2, <2>1
<1>4. TypeOK'
  BY <1>1, <1>3, SameInput DEF IInv, TypeOK, AddCount
<1>5. ASSUME NEW s \in Segments
      PROVE  shuffle'[s] = Cardinality(AddedOf(s)')
  <2>1. shuffle[s] = Cardinality(AddedOf(s)) /\ s \in Nat
    BY <1>1, <1>2 DEF Reading, Segments
  <2>2. AddedOf(s)' = {i \in OfSegment(s) :
                         \E q \in Readers : added'[q] > s /\ i \in Share(q)}
    BY <1>1, SameInput DEF AddedOf
  <2>3. CASE s # t
    <3>1. \A q \in Readers : added'[q] > s <=> added[q] > s
      BY <1>1, <1>2, <1>3, <2>1, <2>3
    <3>2. AddedOf(s)' = AddedOf(s)
      BY <2>2, <3>1 DEF AddedOf
    <3>3. shuffle'[s] = shuffle[s]
      BY <1>1, <1>3, <2>3
    <3> QED BY <2>1, <3>2, <3>3
  <2>4. CASE s = t
    <3>1. \A q \in Readers : added'[q] > s <=> added[q] > s \/ q = r
      BY <1>1, <1>2, <1>3, <2>4
    <3>2. ReadOf(r, s) = {i \in OfSegment(s) : i \in Share(r)}
      BY <1>1 DEF ReadOf, Share
    <3>3. AddedOf(s)' = AddedOf(s) \union ReadOf(r, s)
      BY <2>2, <3>1, <3>2 DEF AddedOf
    <3>4. AddedOf(s) \cap ReadOf(r, s) = {}
      <4>1. ASSUME NEW i \in AddedOf(s), i \in ReadOf(r, s)
            PROVE  FALSE
        <5>1. PICK q \in Readers : added[q] > s /\ i \in Share(q)
          BY DEF AddedOf
        <5>2. q = r
          BY <1>1, <3>2, <4>1, <5>1, Shares
        <5> QED BY <1>2, <2>4, <5>1, <5>2
      <4> QED BY <4>1
    <3>5. IsFiniteSet(AddedOf(s))
      <4>1. AddedOf(s) \in SUBSET Items
        BY DEF AddedOf, OfSegment
      <4> QED BY <1>1, <4>1, InputTypes
    <3>6. Cardinality(AddedOf(s) \union ReadOf(r, s)) =
            Cardinality(AddedOf(s)) + Cardinality(ReadOf(r, s)) - 0
      BY <1>2, <2>4, <3>4, <3>5, FS_Union, FS_EmptySet
    <3>7. shuffle'[s] = shuffle[s] + temp[r][s]
      BY <1>1, <1>3, <2>4
    <3>8. shuffle[s] \in Nat /\ temp[r][s] \in Nat
      BY <1>2, <1>3, <2>4
    <3>9. temp[r][s] = Cardinality(ReadOf(r, s))
      BY <1>2, <2>4
    <3>10. Cardinality(AddedOf(s)') =
             Cardinality(AddedOf(s) \union ReadOf(r, s))
      BY <3>3
    <3> QED BY <2>1, <3>6, <3>7, <3>8, <3>9, <3>10
  <2> QED BY <2>3, <2>4
<1>6. Reading'
  <2>1. \A q \in Readers, s \in Segments : ReadOf(q, s)' = ReadOf(q, s)
    BY <1>1, SameInput DEF ReadOf
  <2>2. \A q \in Readers : added'[q] > 0 => next'[q] = input.cut[q + 1]
    BY <1>1, <1>3 DEF Reading
  <2>3. fail' <=> stopped' # {}
    BY <1>1 DEF Reading
  <2> HIDE DEF t
  <2> QED BY <1>1, <1>5, <2>1, <2>2, <2>3, SameInput DEF Reading
<1>7. /\ Fresh' /\ WholePath' /\ Known' /\ Sized' /\ LaidOut' /\ OneThread'
      /\ InPlace' /\ Scattering' /\ Partitioned' /\ Merging' /\ StatusExact'
  BY <1>1, SameInput
  DEF IInv, AddCount, Fresh, WholePath, Known, Sized, LaidOut, OneThread,
      InPlace, Scattering, Partitioned, Merging, StatusExact
<1> QED BY <1>4, <1>6, <1>7 DEF IInv

(* Once all have returned, and none early, every key is known and counted. *)
LEMMA JoinReadersStep == IInv /\ JoinReaders => IInv'
<1> SUFFICES ASSUME IInv, JoinReaders
             PROVE  IInv'
  OBVIOUS
<1> USE DEF readVars, layVars, scatterVars, arrayVars
<1>1. /\ input' = input /\ IsInput(input) /\ TypeOK /\ Reading
      /\ phase = "read" /\ phase' \in {"check", "done"}
      /\ \A r \in Readers : ReaderDone(r)
      /\ ~ Whole
      /\ UNCHANGED <<ids, shuffle>>
  BY DEF IInv, TypeOK, JoinReaders, WholePath
<1>2. N \in Nat \ {0} /\ Total \in Nat \ {0}
  BY <1>1, InputTypes
<1>3. TypeOK'
  BY <1>1, SameInput DEF IInv, TypeOK, JoinReaders
<1>4. ASSUME ~ fail
      PROVE  \A r \in Readers : next[r] = input.cut[r + 1] /\ added[r] = N
  <2>1. stopped = {}
    BY <1>1, <1>4 DEF Reading
  <2> QED BY <1>1, <1>2, <2>1, ReaderTypes DEF ReaderDone
<1>5. Known'
  <2>1. ASSUME phase' = "check", NEW i \in Items
        PROVE  input.keys[i] # Bad /\ ids[i] = input.keys[i]
    <3>1. ~ fail
      BY <2>1 DEF JoinReaders
    <3>2. PICK r \in Readers : i \in Share(r)
      BY <1>1, Shares
    <3>3. i \in input.cut[r] .. next[r] - 1
      BY <1>4, <3>1, <3>2 DEF Share
    <3> QED BY <1>1, <3>3, ReaderTypes
  <2> QED BY <1>1, <2>1, SameInput DEF Known
<1>6. Sized'
  <2>1. ASSUME phase' = "check", NEW s \in Segments
        PROVE  shuffle[s] = Cardinality(OfSegment(s))
    <3>1. ~ fail
      BY <2>1 DEF JoinReaders
    <3>2. \A r \in Readers : added[r] > s
      BY <1>2, <1>4, <3>1 DEF Segments
    <3>3. \A i \in OfSegment(s) : \E r \in Readers : i \in Share(r)
      BY <1>1, Shares DEF OfSegment
    <3>4. AddedOf(s) = OfSegment(s)
      BY <3>2, <3>3 DEF AddedOf
    <3> QED BY <1>1, <3>4 DEF Reading
  <2> QED BY <1>1, <2>1, SameInput DEF Sized
<1>7. StatusExact'
  <2> SUFFICES ASSUME phase' = "done"
               PROVE  StatusExact'
    BY DEF StatusExact
  <2>1. status' = "BAD_INPUT" /\ fail
    BY DEF JoinReaders
  <2>2. PICK r \in stopped : /\ next[r] < input.cut[r + 1]
                             /\ input.keys[next[r]] = Bad
    BY <1>1, <2>1 DEF Reading
  <2>3. next[r] \in Items
    BY <1>1, <2>2, ReaderTypes DEF TypeOK
  <2> QED BY <1>1, <2>1, <2>2, <2>3, SameInput DEF StatusExact
<1>8. Fresh' /\ WholePath' /\ Merging'
  BY <1>1, SameInput DEF IInv, JoinReaders, Fresh, WholePath, Merging
<1>9. /\ Reading' /\ LaidOut' /\ OneThread' /\ InPlace' /\ Scattering'
      /\ Partitioned'
  BY <1>1 DEF Reading, LaidOut, OneThread, InPlace, Scattering, Partitioned
<1> QED BY <1>3, <1>5, <1>6, <1>7, <1>8, <1>9 DEF IInv

----------------------------------------------------------------------------
(* The layout.                                                             *)

LEMMA CheckPiecesStep == IInv /\ CheckPieces => IInv'
<1> SUFFICES ASSUME IInv, CheckPieces
             PROVE  IInv'
  OBVIOUS
<1> USE DEF readVars, layVars, scatterVars, arrayVars
<1>1. /\ input' = input /\ IsInput(input) /\ TypeOK /\ Sized /\ Known
      /\ phase = "check" /\ phase' \in {"layout", "done"}
      /\ ~ Whole
      /\ UNCHANGED <<ids, shuffle>>
      /\ \A s \in Segments : shuffle[s] = Cardinality(OfSegment(s))
  BY DEF IInv, TypeOK, CheckPieces, WholePath, Sized
<1>2. /\ N \in Nat \ {0} /\ Total \in Nat \ {0}
      /\ MaxPiece \in Nat \ {0}
  BY <1>1, InputTypes, ParamAssumption
<1>3. TypeOK'
  BY <1>1, SameInput DEF IInv, TypeOK, CheckPieces
<1>4. Sized' /\ LaidOut'
  <2> SUFFICES ASSUME phase' = "layout"
               PROVE  Sized' /\ LaidOut'
    BY <1>1 DEF Sized, LaidOut
  <2>1. /\ size' = shuffle /\ loop' = 0 /\ offset' = 0
        /\ \A s \in Segments : ~ Unbuildable(s)
    BY <1>1 DEF CheckPieces
  <2>2. \A s \in Segments : shuffle[s] \in 1 .. MaxPiece
    BY <1>1, <1>2, <2>1 DEF Unbuildable, TypeOK
  <2>3. First(0) = 0
    BY <1>1, Layout
  <2>4. Sized'
    BY <1>1, <2>1, <2>2, SameInput DEF Sized
  <2>5. LaidOut'
    BY <1>1, <1>2, <2>1, <2>3, SameInput DEF LaidOut
  <2> QED BY <2>4, <2>5
<1>5. StatusExact'
  <2> SUFFICES ASSUME phase' = "done"
               PROVE  StatusExact'
    BY DEF StatusExact
  <2>1. status' = "BAD_INPUT" /\ \E s \in Segments : Unbuildable(s)
    BY <1>1 DEF CheckPieces
  <2>2. PICK s \in Segments : Unbuildable(s)
    BY <2>1
  <2>3. Cardinality(OfSegment(s)) \notin 1 .. MaxPiece
    BY <1>1, <1>2, <2>2 DEF Unbuildable, TypeOK
  <2>4. ~ ({Cardinality(OfSegment(q)) : q \in Segments} \subseteq 1 .. MaxPiece)
    BY <2>3
  <2> QED BY <1>1, <2>1, <2>4, SameInput DEF StatusExact
<1>6. Fresh' /\ WholePath' /\ Known' /\ Merging'
  BY <1>1, SameInput
  DEF IInv, CheckPieces, Fresh, WholePath, Known, Merging
<1>7. /\ Reading' /\ OneThread' /\ InPlace' /\ Scattering' /\ Partitioned'
  BY <1>1 DEF Reading, OneThread, InPlace, Scattering, Partitioned
<1> QED BY <1>3, <1>4, <1>5, <1>6, <1>7 DEF IInv

LEMMA LayOutPieceStep == IInv /\ LayOutPiece => IInv'
<1> SUFFICES ASSUME IInv, LayOutPiece
             PROVE  IInv'
  OBVIOUS
<1> USE DEF readVars, layVars, scatterVars, arrayVars
<1>1. /\ input' = input /\ IsInput(input) /\ TypeOK /\ Sized /\ Known
      /\ phase = "layout" /\ phase' = "layout"
      /\ loop \in 0 .. N /\ loop < N /\ offset = First(loop)
      /\ \A s \in 0 .. loop - 1 :
           /\ shuffle[s] = First(s)
           /\ ~ input.extra => border[s] = First(s) + size[s]
      /\ \A s \in Segments : size[s] = Cardinality(OfSegment(s))
      /\ size \in [Segments -> Nat] /\ shuffle \in [Segments -> Nat]
      /\ border \in [Segments -> Nat] /\ offset \in Nat
      /\ shuffle' = [shuffle EXCEPT ![loop] = offset]
      /\ offset' = offset + size[loop]
      /\ loop' = loop + 1
      /\ UNCHANGED <<status, ids, next, temp, added, stopped, fail, size, heads,
                     hand, shadow, part>>
  BY DEF IInv, TypeOK, LayOutPiece, Sized, LaidOut
<1>2. /\ N \in Nat \ {0} /\ loop \in Segments /\ loop + 1 \in 0 .. N
      /\ First(loop + 1) = First(loop) + size[loop]
  BY <1>1, InputTypes, Layout DEF Segments
<1>3. /\ border' \in [Segments -> Nat]
      /\ ~ input.extra =>
           border' = [border EXCEPT ![loop] = offset + size[loop]]
  BY <1>1, <1>2 DEF LayOutPiece
<1>4. TypeOK'
  <2>1. /\ shuffle' \in [Segments -> Nat] /\ loop' \in Nat
        /\ offset' \in Nat
    BY <1>1, <1>2
  <2> QED BY <1>1, <1>3, <2>1, SameInput DEF TypeOK
<1>5. LaidOut'
  <2>1. ASSUME NEW s \in 0 .. loop' - 1
        PROVE  /\ shuffle'[s] = First(s)
               /\ ~ input.extra => border'[s] = First(s) + size[s]
    <3>1. s \in Segments
      BY <1>1, <1>2 DEF Segments
    <3>2. CASE s = loop
      BY <1>1, <1>2, <1>3, <3>1, <3>2
    <3>3. CASE s # loop
      BY <1>1, <1>2, <1>3, <3>1, <3>3
    <3> QED BY <3>2, <3>3
  <2> QED BY <1>1, <1>2, <2>1, SameInput DEF LaidOut
<1>6. /\ Fresh' /\ WholePath' /\ Known' /\ Sized' /\ Merging'
  BY <1>1, SameInput DEF IInv, Fresh, WholePath, Known, Sized, Merging
<1>7. /\ Reading' /\ OneThread' /\ InPlace' /\ Scattering' /\ Partitioned'
      /\ StatusExact'
  BY <1>1
  DEF Reading, OneThread, InPlace, Scattering, Partitioned, StatusExact
<1> QED BY <1>4, <1>5, <1>6, <1>7 DEF IInv

(* What lies in the parts things are cut in.                               *)
LEMMA CutParts ==
  ASSUME NEW sz \in Nat, NEW hd \in Nat \ {0}
  PROVE  /\ \A h \in 0 .. hd - 1 :
              /\ h \in 0 .. hd /\ h + 1 \in 0 .. hd
              /\ Cut(sz, hd, h) \in 0 .. sz /\ Cut(sz, hd, h + 1) \in 0 .. sz
              /\ Cut(sz, hd, h) <= Cut(sz, hd, h + 1)
         /\ \A x \in 0 .. sz - 1 : \E h \in 0 .. hd - 1 :
              Cut(sz, hd, h) <= x /\ x < Cut(sz, hd, h + 1)
         /\ \A h, g \in 0 .. hd - 1 : \A x \in Int :
              (/\ Cut(sz, hd, h) <= x /\ x < Cut(sz, hd, h + 1)
               /\ Cut(sz, hd, g) <= x /\ x < Cut(sz, hd, g + 1)) => h = g
<1> DEFINE f == [h \in 0 .. hd |-> Cut(sz, hd, h)]
<1>1. /\ \A h \in 0 .. hd : f[h] = Cut(sz, hd, h)
      /\ \A h \in 0 .. hd : f[h] \in 0 .. sz
      /\ \A h, g \in 0 .. hd : h <= g => f[h] <= f[g]
      /\ f[0] = 0 /\ f[hd] = sz
  BY CutTypes
<1> HIDE DEF f
<1>2. \A h \in 0 .. hd : f[h] \in Nat
  BY <1>1
<1>3. \A h \in 0 .. hd - 1 : h \in 0 .. hd /\ h + 1 \in 0 .. hd /\ h <= h + 1
  OBVIOUS
<1>4. ASSUME NEW h \in 0 .. hd - 1
      PROVE  /\ h \in 0 .. hd /\ h + 1 \in 0 .. hd
             /\ Cut(sz, hd, h) \in 0 .. sz /\ Cut(sz, hd, h + 1) \in 0 .. sz
             /\ Cut(sz, hd, h) <= Cut(sz, hd, h + 1)
             /\ f[h] = Cut(sz, hd, h) /\ f[h + 1] = Cut(sz, hd, h + 1)
  <2>1. h \in 0 .. hd /\ h + 1 \in 0 .. hd /\ h <= h + 1
    BY <1>3
  <2>2. f[h] \in 0 .. sz /\ f[h + 1] \in 0 .. sz /\ f[h] <= f[h + 1]
    BY <1>1, <2>1, Zenon
  <2>3. f[h] = Cut(sz, hd, h) /\ f[h + 1] = Cut(sz, hd, h + 1)
    BY <1>1, <2>1, Zenon
  <2> QED BY <2>1, <2>2, <2>3, Zenon
<1>5. ASSUME NEW x \in 0 .. sz - 1
      PROVE  \E h \in 0 .. hd - 1 :
               Cut(sz, hd, h) <= x /\ x < Cut(sz, hd, h + 1)
  <2>1. x \in Nat /\ f[0] <= x /\ x < f[hd]
    BY <1>1
  <2>2. \E h \in 0 .. hd - 1 : f[h] <= x /\ x < f[h + 1]
    BY <1>2, <2>1, Between
  <2> QED BY <1>4, <2>2
<1>6. ASSUME NEW h \in 0 .. hd - 1, NEW g \in 0 .. hd - 1, NEW x \in Int,
             Cut(sz, hd, h) <= x, x < Cut(sz, hd, h + 1),
             Cut(sz, hd, g) <= x, x < Cut(sz, hd, g + 1)
      PROVE  h = g
  <2>1. f[h] <= x /\ x < f[h + 1] /\ f[g] <= x /\ x < f[g + 1]
    BY <1>4, <1>6
  <2> QED BY <1>1, <1>2, <2>1, Apart
<1> QED BY <1>4, <1>5, <1>6

(* The ranges of the heads, and the runs of their threads: everything is   *)
(* in one and in one only.                                                 *)
LEMMA HeadLayout ==
  ASSUME IsInput(input), NEW hd \in Nat \ {0},
         \A s \in Segments : size[s] = Cardinality(OfSegment(s))
  PROVE  LET F(h, s) == First(s) + Cut(size[s], hd, h)
         IN  /\ \A h \in 0 .. hd - 1 : \A s \in Segments :
                  /\ F(h, s) \in First(s) .. First(s + 1)
                  /\ F(h + 1, s) \in First(s) .. First(s + 1)
                  /\ F(h, s) \in Nat /\ F(h + 1, s) \in Nat
                  /\ F(h, s) <= F(h + 1, s)
                  /\ \A x \in F(h, s) .. F(h + 1, s) - 1 :
                       x \in SlotsOf(s) /\ x \in Items
             /\ \A s \in Segments : \A x \in SlotsOf(s) :
                  \E h \in 0 .. hd - 1 : x \in F(h, s) .. F(h + 1, s) - 1
             /\ \A h, g \in 0 .. hd - 1 : \A s, t \in Segments : \A x \in Int :
                  (/\ x \in F(h, s) .. F(h + 1, s) - 1
                   /\ x \in F(g, t) .. F(g + 1, t) - 1) => h = g /\ s = t
<1> DEFINE F(h, s) == First(s) + Cut(size[s], hd, h)
<1>1. ASSUME NEW s \in Segments
      PROVE  /\ s \in 0 .. N /\ s + 1 \in 0 .. N
             /\ First(s) \in Nat /\ size[s] \in Nat
             /\ First(s + 1) = First(s) + size[s]
             /\ SlotsOf(s) = First(s) .. First(s + 1) - 1
             /\ SlotsOf(s) \subseteq Items
  <2>1. s \in 0 .. N /\ s + 1 \in 0 .. N
    BY InputTypes DEF Segments
  <2>2. First(s) \in 0 .. Total /\ size[s] \in Nat
    BY <2>1, Layout
  <2>3. Total \in Nat
    BY InputTypes
  <2> QED BY <2>1, <2>2, <2>3, Layout
<1>2. ASSUME NEW h \in 0 .. hd - 1, NEW s \in Segments
      PROVE  /\ F(h, s) \in First(s) .. First(s + 1)
             /\ F(h + 1, s) \in First(s) .. First(s + 1)
             /\ F(h, s) \in Nat /\ F(h + 1, s) \in Nat
             /\ F(h, s) <= F(h + 1, s)
             /\ \A x \in F(h, s) .. F(h + 1, s) - 1 :
                  x \in SlotsOf(s) /\ x \in Items
  <2> DEFINE a == Cut(size[s], hd, h)
             b == Cut(size[s], hd, h + 1)
  <2>1. a \in 0 .. size[s] /\ b \in 0 .. size[s] /\ a <= b
    BY <1>1, CutParts
  <2>2. F(h, s) = First(s) + a /\ F(h + 1, s) = First(s) + b
    OBVIOUS
  <2> HIDE DEF a, b, F
  <2>3. /\ F(h, s) \in First(s) .. First(s + 1)
        /\ F(h + 1, s) \in First(s) .. First(s + 1)
        /\ F(h, s) \in Nat /\ F(h + 1, s) \in Nat
        /\ F(h, s) <= F(h + 1, s)
    BY <1>1, <2>1, <2>2
  <2>4. ASSUME NEW x \in F(h, s) .. F(h + 1, s) - 1
        PROVE  x \in SlotsOf(s) /\ x \in Items
    <3>1. x \in First(s) .. First(s + 1) - 1
      BY <1>1, <2>3
    <3> QED BY <1>1, <3>1
  <2> QED BY <2>3, <2>4
<1>3. ASSUME NEW s \in Segments, NEW x \in SlotsOf(s)
      PROVE  \E h \in 0 .. hd - 1 : x \in F(h, s) .. F(h + 1, s) - 1
  <2>1. x \in Int /\ x - First(s) \in 0 .. size[s] - 1
    BY <1>1
  <2>2. PICK h \in 0 .. hd - 1 :
          /\ Cut(size[s], hd, h) <= x - First(s)
          /\ x - First(s) < Cut(size[s], hd, h + 1)
    BY <1>1, <2>1, CutParts
  <2>3. /\ Cut(size[s], hd, h) \in 0 .. size[s]
        /\ Cut(size[s], hd, h + 1) \in 0 .. size[s]
    BY <1>1, CutParts
  <2>4. x \in F(h, s) .. F(h + 1, s) - 1
    <3>1. First(s) \in Nat /\ size[s] \in Nat
      BY <1>1
    <3> QED BY <2>1, <2>2, <2>3, <3>1
  <2> QED BY <2>4
<1>4. ASSUME NEW h \in 0 .. hd - 1, NEW g \in 0 .. hd - 1,
             NEW s \in Segments, NEW t \in Segments, NEW x \in Int,
             x \in F(h, s) .. F(h + 1, s) - 1,
             x \in F(g, t) .. F(g + 1, t) - 1
      PROVE  h = g /\ s = t
  <2>1. x \in SlotsOf(s) /\ x \in SlotsOf(t)
    BY <1>2, <1>4
  <2>2. s = t
    BY <2>1, Layout
  <2>3. ASSUME NEW k \in 0 .. hd - 1, x \in F(k, s) .. F(k + 1, s) - 1
        PROVE  /\ x - First(s) \in Int
               /\ Cut(size[s], hd, k) <= x - First(s)
               /\ x - First(s) < Cut(size[s], hd, k + 1)
    <3>1. /\ Cut(size[s], hd, k) \in 0 .. size[s]
          /\ Cut(size[s], hd, k + 1) \in 0 .. size[s]
      BY <1>1, CutParts
    <3>2. First(s) \in Nat /\ size[s] \in Nat
      BY <1>1
    <3> QED BY <2>3, <3>1, <3>2
  <2>4. /\ x - First(s) \in Int
        /\ Cut(size[s], hd, h) <= x - First(s)
        /\ x - First(s) < Cut(size[s], hd, h + 1)
        /\ Cut(size[s], hd, g) <= x - First(s)
        /\ x - First(s) < Cut(size[s], hd, g + 1)
    <3>1. /\ x \in F(h, s) .. F(h + 1, s) - 1
          /\ x \in F(g, s) .. F(g + 1, s) - 1
      BY <1>4, <2>2
    <3> HIDE DEF F
    <3> QED BY <2>3, <3>1
  <2>5. h = g
    BY <1>1, <2>4, CutParts
  <2> QED BY <2>2, <2>5
<1> QED BY <1>2, <1>3, <1>4

(* When the layout is complete.                                            *)
LEMMA LayoutDone ==
  ASSUME IInv, phase = "layout", loop = N
  PROVE  /\ IsInput(input) /\ TypeOK /\ Known /\ Sized
         /\ N \in Nat \ {0} /\ Total \in Nat \ {0}
         /\ hand = Empty /\ \A x \in Items : shadow[x] = Empty
         /\ \A i \in Items : input.keys[i] # Bad /\ ids[i] = input.keys[i]
         /\ \A s \in Segments :
              /\ s \in 0 .. N /\ s + 1 \in 0 .. N
              /\ First(s) \in Nat
              /\ shuffle[s] = First(s)
              /\ ~ input.extra => border[s] = First(s) + size[s]
              /\ size[s] = Cardinality(OfSegment(s)) /\ size[s] \in 1 .. MaxPiece
              /\ size[s] \in Nat
              /\ First(s + 1) = First(s) + size[s]
              /\ SlotsOf(s) = First(s) .. First(s + 1) - 1
              /\ SlotsOf(s) \subseteq Items
<1>1. /\ IsInput(input) /\ TypeOK /\ Known /\ Sized
      /\ hand = Empty /\ \A x \in Items : shadow[x] = Empty
      /\ \A i \in Items : input.keys[i] # Bad /\ ids[i] = input.keys[i]
      /\ \A s \in 0 .. N - 1 :
           /\ shuffle[s] = First(s)
           /\ ~ input.extra => border[s] = First(s) + size[s]
      /\ \A s \in Segments : /\ size[s] = Cardinality(OfSegment(s))
                             /\ size[s] \in 1 .. MaxPiece
      /\ size \in [Segments -> Nat]
  BY DEF IInv, TypeOK, Fresh, Known, Sized, LaidOut
<1>2. N \in Nat \ {0} /\ Total \in Nat \ {0}
  BY <1>1, InputTypes
<1>3. ASSUME NEW s \in Segments
      PROVE  /\ s \in 0 .. N - 1 /\ s \in 0 .. N /\ s + 1 \in 0 .. N
             /\ First(s) \in Nat
             /\ size[s] \in Nat
             /\ First(s + 1) = First(s) + Cardinality(OfSegment(s))
             /\ SlotsOf(s) = First(s) .. First(s + 1) - 1
             /\ SlotsOf(s) \subseteq Items
  <2>1. s \in 0 .. N - 1 /\ s \in 0 .. N /\ s + 1 \in 0 .. N
    BY <1>2 DEF Segments
  <2>2. First(s) \in 0 .. Total
    BY <1>1, <2>1, Layout
  <2> QED BY <1>1, <1>2, <2>1, <2>2, Layout
<1> QED BY <1>1, <1>2, <1>3

LEMMA StartInPlaceStep == IInv /\ StartInPlace => IInv'
<1> SUFFICES ASSUME IInv, StartInPlace
             PROVE  IInv'
  OBVIOUS
<1> USE DEF readVars, layVars, scatterVars, arrayVars
<1>1. /\ input' = input /\ IsInput(input) /\ TypeOK
      /\ phase = "layout" /\ loop = N /\ ~ input.extra
      /\ phase' = "inplace" /\ loop' = 0
      /\ shadow' = [x \in Items |-> x]
      /\ UNCHANGED <<ids, shuffle, size, border, hand>>
  BY DEF IInv, TypeOK, StartInPlace
<1>2. /\ N \in Nat \ {0} /\ Total \in Nat \ {0} /\ hand = Empty
      /\ \A s \in Segments :
           /\ First(s) \in Nat /\ size[s] \in Nat
           /\ shuffle[s] = First(s) /\ border[s] = First(s) + size[s]
  BY <1>1, LayoutDone
<1>3. TypeOK'
  <2>1. shadow' \in [Items -> Items \union {Empty}]
    BY <1>1
  <2> QED BY <1>1, <1>2, <2>1, SameInput DEF IInv, TypeOK, StartInPlace
<1>4. InPlace'
  <2>1. hand' = Empty
    BY <1>1, <1>2
  <2>2. \A x \in Items : Held(x)' = x /\ shadow'[x] = x /\ x # Empty
    BY <1>1, <1>2, <2>1 DEF Held, Items, Empty
  <2>3. ASSUME NEW s \in Segments
        PROVE  /\ border'[s] = First(s) + size'[s]
               /\ shuffle'[s] \in First(s) .. border'[s]
               /\ s < loop' => shuffle'[s] = border'[s]
               /\ \A x \in First(s) .. shuffle'[s] - 1 : SegmentAt(x)' = s
    BY <1>1, <1>2 DEF Segments
  <2> QED BY <1>1, <1>2, <2>1, <2>2, <2>3, SameInput DEF InPlace
<1>5. /\ Fresh' /\ WholePath' /\ Known' /\ Sized' /\ Merging'
  BY <1>1, SameInput
  DEF IInv, StartInPlace, Fresh, WholePath, Known, Sized, Merging
<1>6. /\ Reading' /\ LaidOut' /\ OneThread' /\ Scattering' /\ Partitioned'
      /\ StatusExact'
  BY <1>1
  DEF Reading, LaidOut, OneThread, Scattering, Partitioned, StatusExact
<1> QED BY <1>3, <1>4, <1>5, <1>6 DEF IInv

(* The threads of the heads start on ranges that are free and on runs of   *)
(* which nothing is stored.                                                *)
LEMMA StartScatterStep == IInv /\ StartScatter => IInv'
<1> SUFFICES ASSUME IInv, StartScatter
             PROVE  IInv'
  OBVIOUS
<1> USE DEF readVars, layVars, scatterVars, arrayVars
<1>1. /\ input' = input /\ IsInput(input) /\ TypeOK
      /\ phase = "layout" /\ loop = N
      /\ size \in [Segments -> Nat]
      /\ UNCHANGED <<status, ids, next, temp, added, stopped, fail, shuffle,
                     size, offset, border, hand, shadow, part>>
      /\ phase' \in {"single", "scatter"}
      /\ phase' = "single" => loop' = 0
      /\ loop' \in Nat
  BY DEF IInv, TypeOK, StartScatter
<1>2. /\ N \in Nat \ {0} /\ Total \in Nat \ {0} /\ hand = Empty
      /\ \A x \in Items : shadow[x] = Empty
      /\ \A i \in Items : input.keys[i] # Bad /\ ids[i] = input.keys[i]
      /\ \A s \in Segments :
           /\ First(s) \in Nat /\ size[s] \in Nat
           /\ size[s] = Cardinality(OfSegment(s))
           /\ shuffle[s] = First(s)
  BY <1>1, LayoutDone
<1>3. heads' \in 0 .. N
  <2>1. PICK min \in {size[s] : s \in Segments} :
          heads' = LET h == min \div HeadUnit IN IF h > N THEN N ELSE h
    BY DEF StartScatter
  <2>2. min \in Nat
    BY <1>1, <2>1
  <2>3. HeadUnit \in Nat \ {0}
    BY ParamAssumption
  <2>4. min \div HeadUnit \in Nat
    BY <2>2, <2>3
  <2> QED BY <1>2, <2>1, <2>4
<1>4. ASSUME heads' <= 1
      PROVE  TypeOK' /\ OneThread' /\ Scattering'
  <2>1. phase' = "single" /\ loop' = 0
    BY <1>4 DEF StartScatter
  <2>2. OneThread'
    <3>1. ASSUME NEW s \in Segments
          PROVE  StoredOf(s)' = {}
      BY <1>1, <1>2, <2>1, SameInput DEF StoredOf, OfSegment, Items
    <3>2. ASSUME NEW s \in Segments
          PROVE  /\ shuffle'[s] = First(s) + Cardinality(StoredOf(s)')
                 /\ \A x \in First(s) .. shuffle'[s] - 1 :
                      shadow'[x] \in StoredOf(s)'
                 /\ \A i \in StoredOf(s)' :
                      \E x \in First(s) .. shuffle'[s] - 1 : shadow'[x] = i
      <4>1. /\ StoredOf(s)' = {} /\ Cardinality(StoredOf(s)') = 0
        BY <3>1, FS_EmptySet
      <4>2. shuffle'[s] = First(s) /\ First(s) \in Nat
        BY <1>1, <1>2
      <4> QED BY <4>1, <4>2
    <3> QED BY <1>1, <1>2, <2>1, <3>2, SameInput DEF OneThread
  <2>3. TypeOK'
    BY <1>1, <1>3, <2>1, SameInput DEF TypeOK
  <2>4. Scattering'
    BY <2>1 DEF Scattering
  <2> QED BY <2>2, <2>3, <2>4
<1>5. ASSUME ~ (heads' <= 1)
      PROVE  TypeOK' /\ OneThread' /\ Scattering'
  <2> DEFINE F(h, s) == First(s) + Cut(size[s], heads', h)
             H == 0 .. heads' - 1
  <2>1. heads' \in Nat \ {0} /\ heads' > 1
    BY <1>2, <1>3, <1>5
  <2>2. /\ phase' = "scatter"
        /\ ctx' = [h \in H |-> [s \in Segments |->
                     [off |-> shuffle[s] + Cut(size[s], heads', h),
                      end |-> shuffle[s] + Cut(size[s], heads', h + 1)]]]
        /\ pos' = [h \in H |-> Cut(Total, heads', h)]
        /\ idx' = [h \in H |-> [s \in Segments |-> h]]
        /\ probed' = [h \in H |-> 0]
        /\ slot' = [h \in H |-> Empty]
    BY <1>5 DEF StartScatter
  <2>3. ASSUME NEW h \in H
        PROVE  /\ Cut(Total, heads', h) \in 0 .. Total
               /\ Cut(Total, heads', h + 1) \in 0 .. Total
               /\ Cut(Total, heads', h) <= Cut(Total, heads', h + 1)
               /\ pos'[h] = Cut(Total, heads', h)
               /\ \A s \in Segments :
                    /\ F(h, s) \in Nat /\ F(h + 1, s) \in Nat
                    /\ ctx'[h][s] = [off |-> F(h, s), end |-> F(h + 1, s)]
                    /\ \A x \in F(h, s) .. F(h + 1, s) - 1 : x \in Items
    <3>1. /\ Cut(Total, heads', h) \in 0 .. Total
          /\ Cut(Total, heads', h + 1) \in 0 .. Total
          /\ Cut(Total, heads', h) <= Cut(Total, heads', h + 1)
      BY <1>2, <2>1, CutParts
    <3>2. ASSUME NEW s \in Segments
          PROVE  /\ F(h, s) \in Nat /\ F(h + 1, s) \in Nat
                 /\ \A x \in F(h, s) .. F(h + 1, s) - 1 : x \in Items
      BY <1>1, <1>2, <2>1, HeadLayout
    <3>3. ASSUME NEW s \in Segments
          PROVE  ctx'[h][s] = [off |-> F(h, s), end |-> F(h + 1, s)]
      BY <1>2, <2>2
    <3> QED BY <2>2, <3>1, <3>2, <3>3
  <2>4. /\ Heads' = H
        /\ \A h, s : From(h, s)' = F(h, s)
        /\ \A h : /\ RunStart(h)' = Cut(Total, heads', h)
                  /\ RunEnd(h)' = Cut(Total, heads', h + 1)
    BY <1>1, SameInput DEF Heads, From, RunStart, RunEnd
  <2>12. /\ 0 \in H
         /\ \A h \in H : h \in Nat /\ h < heads' /\ heads' \in Nat
    <3>1. \A n \in Nat : n > 1 =>
            /\ 0 \in 0 .. n - 1
            /\ \A h \in 0 .. n - 1 : h \in Nat /\ h < n /\ n \in Nat
      OBVIOUS
    <3>2. heads' \in Nat /\ heads' > 1
      BY <2>1
    <3> QED BY <3>1, <3>2, Zenon
  <2> HIDE DEF F, H
  <2>5. TypeOK'
    <3>1. ctx' \in [H -> [Segments -> [off : Nat, end : Nat]]]
      <4>1. /\ ctx' = [h \in H |-> ctx'[h]]
            /\ \A h \in H : ctx'[h] = [s \in Segments |-> ctx'[h][s]]
        BY <2>2
      <4>2. \A h \in H : \A s \in Segments :
              ctx'[h][s] \in [off : Nat, end : Nat]
        <5>1. ASSUME NEW h \in H, NEW s \in Segments
              PROVE  ctx'[h][s] \in [off : Nat, end : Nat]
          <6>1. /\ F(h, s) \in Nat /\ F(h + 1, s) \in Nat
                /\ ctx'[h][s] = [off |-> F(h, s), end |-> F(h + 1, s)]
            BY <2>3
          <6> QED BY <6>1
        <5> QED BY <5>1
      <4>3. \A h \in H : ctx'[h] \in [Segments -> [off : Nat, end : Nat]]
        BY <4>1, <4>2
      <4> QED BY <4>1, <4>3
    <3>2. pos' \in [H -> 0 .. Total]
      BY <2>2, <2>3
    <3>3. /\ idx' \in [H -> [Segments -> H]]
          /\ probed' \in [H -> 0 .. heads' - 1]
          /\ slot' \in [H -> Items \union {Empty}]
      <4>1. 0 \in H /\ H = 0 .. heads' - 1
        BY <2>12 DEF H
      <4>2. probed' \in [H -> H]
        BY <2>2, <4>1
      <4>3. probed' \in [H -> 0 .. heads' - 1]
        BY <4>1, <4>2, Zenon
      <4> QED BY <2>2, <4>3
    <3> QED BY <1>1, <1>3, <2>1, <2>2, <2>4, <3>1, <3>2, <3>3, SameInput
            DEF TypeOK
  <2>6. \A h \in H : slot'[h] = Empty
    BY <2>2
  <2>7. Ranges'
    <3>1. ASSUME NEW h \in H, NEW s \in Segments
          PROVE  /\ ctx'[h][s].end = F(h + 1, s)
                 /\ ctx'[h][s].off >= F(h, s)
                 /\ \A x \in F(h, s) .. F(h + 1, s) - 1 :
                      x < ctx'[h][s].off <=> Claimed(x)'
      <4>1. /\ ctx'[h][s].off = F(h, s) /\ ctx'[h][s].end = F(h + 1, s)
            /\ F(h, s) \in Nat /\ F(h + 1, s) \in Nat
            /\ \A x \in F(h, s) .. F(h + 1, s) - 1 : x \in Items
        <5>1. ctx'[h][s] = [off |-> F(h, s), end |-> F(h + 1, s)]
          BY <2>3
        <5> QED BY <2>3, <5>1
      <4>2. ASSUME NEW x \in F(h, s) .. F(h + 1, s) - 1
            PROVE  ~ (x < F(h, s)) /\ ~ Claimed(x)'
        <5>1. x \in Items /\ x # Empty
          BY <1>2, <4>1 DEF Items, Empty
        <5>2. shadow'[x] = Empty
          BY <1>1, <1>2, <5>1
        <5>3. ~ Claimed(x)'
          BY <2>4, <2>6, <5>1, <5>2 DEF Claimed
        <5>4. ~ (x < F(h, s))
          BY <4>1
        <5> QED BY <5>3, <5>4
      <4>3. ctx'[h][s].off >= F(h, s)
        BY <4>1
      <4> QED BY <4>1, <4>2, <4>3
    <3>2. ASSUME NEW h \in H
          PROVE  pos'[h] \in RunStart(h)' .. RunEnd(h)'
      BY <1>2, <2>3, <2>4
    <3> QED BY <1>1, <2>4, <3>1, <3>2, SameInput DEF Ranges
  <2>8. Pending'
    BY <2>4, <2>6 DEF Pending
  <2>9. StoredOnce'
    <3>1. \A i \in Items : ~ Stored(i)'
      <4>1. ASSUME NEW i \in Items, NEW h \in H
            PROVE  ~ (RunStart(h)' <= i /\ i < pos'[h])
        BY <1>2, <2>3, <2>4 DEF Items
      <4> QED BY <2>4, <4>1 DEF Stored
    <3>2. \A x \in Items : shadow'[x] = Empty
      BY <1>1, <1>2
    <3>3. \A s \in Segments : SlotsOf(s) \subseteq Items
      BY <1>1, Layout
    <3> QED BY <1>1, <3>1, <3>2, <3>3, SameInput DEF StoredOnce
  <2>10. Probing'
    <3>1. ASSUME NEW h \in H, pos'[h] < RunEnd(h)', NEW g \in H
          PROVE  ~ (After(idx[h][ids[pos[h]]], g)' <= probed'[h])
      <4>1. pos'[h] \in Items
        <5>1. /\ pos'[h] \in 0 .. Total /\ RunEnd(h)' \in 0 .. Total
          BY <2>3, <2>4
        <5> QED BY <1>2, <3>1, <5>1 DEF Items
      <4>2. ids'[pos'[h]] \in Segments
        <5>1. \A i \in Items : input.keys[i] \in {Bad} \union Segments
          BY <1>1, InputTypes
        <5> QED BY <1>1, <1>2, <4>1, <5>1
      <4>3. idx'[h][ids'[pos'[h]]] = h /\ probed'[h] = 0
        BY <2>2, <4>2
      <4>4. /\ h \in Nat /\ h < heads' /\ heads' \in Nat
            /\ g \in Nat /\ g < heads'
        BY <2>12
      <4> DEFINE k == idx'[h][ids'[pos'[h]]]
      <4>5. After(idx[h][ids[pos[h]]], g)' =
              IF g < k THEN k - g ELSE k + heads' - g
        BY DEF After
      <4>6. k = h
        BY <4>3
      <4>7. \A n, a, b \in Nat : b < n =>
              ~ ((IF b < a THEN a - b ELSE a + n - b) <= 0)
        OBVIOUS
      <4> HIDE DEF k
      <4>8. ~ ((IF g < h THEN h - g ELSE h + heads' - g) <= 0)
        BY <4>4, <4>7, Zenon
      <4> QED BY <4>3, <4>5, <4>6, <4>8, Zenon
    <3> QED BY <2>4, <3>1 DEF Probing
  <2>11. OneThread'
    BY <2>2 DEF OneThread
  <2> QED BY <2>5, <2>7, <2>8, <2>9, <2>10, <2>11 DEF Scattering
<1>6. /\ Fresh' /\ WholePath' /\ Known' /\ Sized' /\ Merging'
  BY <1>1, SameInput
  DEF IInv, Fresh, WholePath, Known, Sized, Merging
<1>7. /\ Reading' /\ LaidOut' /\ InPlace' /\ Partitioned' /\ StatusExact'
  BY <1>1 DEF Reading, LaidOut, InPlace, Partitioned, StatusExact
<1> QED BY <1>4, <1>5, <1>6, <1>7 DEF IInv

LEMMA StoreNextStep == IInv /\ StoreNext => IInv'
<1> SUFFICES ASSUME IInv, StoreNext
             PROVE  IInv'
  OBVIOUS
<1> USE DEF readVars, layVars, scatterVars, arrayVars
<1>1. /\ input' = input /\ IsInput(input) /\ TypeOK
      /\ phase = "single" /\ phase' = "single"
      /\ loop \in 0 .. Total /\ loop < Total /\ loop' = loop + 1
      /\ shadow \in [Items -> Items \union {Empty}]
      /\ shuffle \in [Segments -> Nat]
      /\ UNCHANGED <<status, ids, next, temp, added, stopped, fail, size,
                     heads, offset, border, hand, part>>
      /\ \A i \in Items : input.keys[i] # Bad /\ ids[i] = input.keys[i]
  BY DEF IInv, TypeOK, StoreNext, OneThread, Known
<1>2. \A t \in Segments :
         /\ shuffle[t] = First(t) + Cardinality(StoredOf(t))
         /\ \A x \in First(t) .. shuffle[t] - 1 : shadow[x] \in StoredOf(t)
         /\ \A i \in StoredOf(t) :
              \E x \in First(t) .. shuffle[t] - 1 : shadow[x] = i
  BY <1>1 DEF IInv, OneThread
<1>0. /\ N \in Nat \ {0} /\ Total \in Nat \ {0} /\ loop \in Items
      /\ loop + 1 \in 0 .. Total /\ loop \in Nat
      /\ ids[loop] \in Segments
  <2>1. N \in Nat \ {0} /\ Total \in Nat \ {0} /\ Items = 0 .. Total - 1
    BY <1>1, InputTypes
  <2>2. loop \in Items /\ loop + 1 \in 0 .. Total /\ loop \in Nat
    BY <1>1, <2>1
  <2>3. input.keys[loop] \in {Bad} \union Segments
    BY <1>1, <2>2, InputTypes
  <2> QED BY <1>1, <2>1, <2>2, <2>3
<1> PICK s \in Segments : s = ids[loop]
  BY <1>0
<1>3. /\ N \in Nat \ {0} /\ Total \in Nat \ {0} /\ loop \in Items
      /\ loop + 1 \in 0 .. Total /\ loop \in Nat
      /\ s \in Segments /\ loop \in OfSegment(s)
      /\ \A t \in Segments \ {s} : loop \notin OfSegment(t)
      /\ shadow' = [shadow EXCEPT ![shuffle[s]] = loop]
      /\ shuffle' = [shuffle EXCEPT ![s] = @ + 1]
  BY <1>0, <1>1 DEF OfSegment, StoreNext
<1>4. ASSUME NEW t \in Segments
      PROVE  /\ First(t) \in Nat /\ First(t + 1) \in Nat
             /\ IsFiniteSet(StoredOf(t)) /\ Cardinality(StoredOf(t)) \in Nat
             /\ shuffle[t] <= First(t + 1)
             /\ SlotsOf(t) = First(t) .. First(t + 1) - 1
             /\ SlotsOf(t) \subseteq Items
  <2>1. t \in 0 .. N /\ t + 1 \in 0 .. N
    BY <1>3 DEF Segments
  <2>2. First(t) \in 0 .. Total /\ First(t + 1) \in 0 .. Total
    BY <1>1, <2>1, Layout
  <2>3. IsFiniteSet(OfSegment(t)) /\ StoredOf(t) \in SUBSET OfSegment(t)
    BY <1>1, Layout DEF StoredOf
  <2>4. /\ IsFiniteSet(StoredOf(t)) /\ Cardinality(StoredOf(t)) \in Nat
        /\ Cardinality(StoredOf(t)) <= Cardinality(OfSegment(t))
    BY <2>3, FS_Subset, FS_CardinalityType
  <2>5. /\ First(t + 1) = First(t) + Cardinality(OfSegment(t))
        /\ Cardinality(OfSegment(t)) \in Nat
    BY <1>1, Layout
  <2>6. shuffle[t] <= First(t + 1)
    BY <1>2, <1>3, <2>2, <2>4, <2>5
  <2> QED BY <1>1, <1>3, <2>2, <2>4, <2>6, Layout
<1>5. /\ StoredOf(s)' = StoredOf(s) \union {loop}
      /\ \A t \in Segments \ {s} : StoredOf(t)' = StoredOf(t)
      /\ loop \notin StoredOf(s)
  <2>1. \A i \in Items : i < loop + 1 <=> i < loop \/ i = loop
    BY <1>3 DEF Items
  <2>2. \A t : OfSegment(t) \subseteq Items
    BY DEF OfSegment
  <2> QED BY <1>1, <1>3, <2>1, <2>2, SameInput DEF StoredOf
<1>6. Cardinality(StoredOf(s)') = Cardinality(StoredOf(s)) + 1
  BY <1>3, <1>4, <1>5, FS_AddElement
<1>7. shuffle[s] \in SlotsOf(s) /\ shuffle[s] \in Items
  <2>1. /\ IsFiniteSet(OfSegment(s)) /\ Cardinality(OfSegment(s)) \in Nat
        /\ First(s + 1) = First(s) + Cardinality(OfSegment(s))
    BY <1>1, <1>3, Layout
  <2>2. StoredOf(s)' \in SUBSET OfSegment(s)
    BY <1>3, <1>5 DEF StoredOf
  <2>3. Cardinality(StoredOf(s)') <= Cardinality(OfSegment(s))
    BY <2>1, <2>2, FS_Subset
  <2>4. shuffle[s] = First(s) + Cardinality(StoredOf(s))
    BY <1>2, <1>3
  <2>5. shuffle[s] \in First(s) .. First(s + 1) - 1
    BY <1>3, <1>4, <1>6, <2>1, <2>3, <2>4
  <2> QED BY <1>3, <1>4, <2>5
<1>8. TypeOK'
  <2>1. /\ shuffle' \in [Segments -> Nat]
        /\ shadow' \in [Items -> Items \union {Empty}]
        /\ loop' \in Nat
    BY <1>1, <1>3, <1>7
  <2> QED BY <1>1, <2>1, SameInput DEF TypeOK
<1>9. OneThread'
  <2>1. ASSUME NEW t \in Segments
        PROVE  /\ shuffle'[t] = First(t) + Cardinality(StoredOf(t)')
               /\ \A x \in First(t) .. shuffle'[t] - 1 :
                    shadow'[x] \in StoredOf(t)'
               /\ \A i \in StoredOf(t)' :
                    \E x \in First(t) .. shuffle'[t] - 1 : shadow'[x] = i
    <3>1. CASE t = s
      <4>1. /\ shuffle'[s] = shuffle[s] + 1
            /\ shuffle[s] = First(s) + Cardinality(StoredOf(s))
            /\ shuffle[s] \in Nat
        BY <1>1, <1>2, <1>3
      <4>2. /\ shadow'[shuffle[s]] = loop
            /\ \A x \in First(s) .. shuffle[s] - 1 : shadow'[x] = shadow[x]
        <5>1. \A x \in First(s) .. shuffle[s] - 1 :
                x \in SlotsOf(s) /\ x # shuffle[s]
          BY <1>3, <1>4, <4>1
        <5> QED BY <1>1, <1>3, <1>4, <1>7, <5>1
      <4>3. \A x \in First(s) .. shuffle'[s] - 1 :
              x = shuffle[s] \/ x \in First(s) .. shuffle[s] - 1
        BY <1>3, <1>4, <4>1
      <4>4. /\ shuffle[s] \in First(s) .. shuffle'[s] - 1
            /\ \A x \in First(s) .. shuffle[s] - 1 :
                 x \in First(s) .. shuffle'[s] - 1
        BY <1>3, <1>4, <4>1
      <4>5. shuffle'[s] = First(s) + Cardinality(StoredOf(s)')
        BY <1>3, <1>4, <1>6, <4>1
      <4>6. \A x \in First(s) .. shuffle'[s] - 1 :
              shadow'[x] \in StoredOf(s)'
        BY <1>2, <1>3, <1>5, <4>2, <4>3
      <4>7. \A i \in StoredOf(s)' :
              \E x \in First(s) .. shuffle'[s] - 1 : shadow'[x] = i
        <5>1. ASSUME NEW i \in StoredOf(s)
              PROVE  \E x \in First(s) .. shuffle'[s] - 1 : shadow'[x] = i
          <6>1. PICK x \in First(s) .. shuffle[s] - 1 : shadow[x] = i
            BY <1>2, <1>3, <5>1
          <6> QED BY <4>2, <4>4, <6>1
        <5> QED BY <1>5, <4>2, <4>4, <5>1
      <4> QED BY <3>1, <4>5, <4>6, <4>7
    <3>2. CASE t # s
      <4>1. shuffle'[t] = shuffle[t] /\ StoredOf(t)' = StoredOf(t)
        BY <1>1, <1>3, <1>5, <3>2
      <4>2. \A x \in First(t) .. shuffle[t] - 1 : shadow'[x] = shadow[x]
        <5>1. ASSUME NEW x \in First(t) .. shuffle[t] - 1
              PROVE  shadow'[x] = shadow[x]
          <6>1. x \in SlotsOf(t)
            <7>1. shuffle[t] \in Nat
              BY <1>1
            <7> QED BY <1>4, <7>1
          <6>2. x # shuffle[s]
            BY <1>1, <1>3, <1>7, <3>2, <6>1, Layout
          <6>3. x \in Items
            BY <1>4, <6>1
          <6> QED BY <1>1, <1>3, <6>2, <6>3
        <5> QED BY <5>1
      <4> QED BY <1>2, <4>1, <4>2
    <3> QED BY <3>1, <3>2
  <2>2. /\ Segments' = Segments /\ Total' = Total
        /\ \A t : First(t)' = First(t)
    BY <1>1, SameInput
  <2>3. loop' \in 0 .. Total'
    BY <1>1, <1>3, <2>2
  <2> QED BY <2>1, <2>2, <2>3 DEF OneThread
<1>10. /\ Fresh' /\ WholePath' /\ Known' /\ Sized' /\ Merging'
  BY <1>1, SameInput DEF IInv, Fresh, WholePath, Known, Sized, Merging
<1>11. /\ Reading' /\ LaidOut' /\ InPlace' /\ Scattering' /\ Partitioned'
       /\ StatusExact'
  BY <1>1
  DEF Reading, LaidOut, InPlace, Scattering, Partitioned, StatusExact
<1> QED BY <1>8, <1>9, <1>10, <1>11 DEF IInv

----------------------------------------------------------------------------
(* The in-place shuffle.                                                   *)

LEMMA InPlaceFacts ==
  ASSUME IInv, phase = "inplace"
  PROVE  /\ IsInput(input) /\ TypeOK
         /\ N \in Nat \ {0} /\ Total \in Nat \ {0} /\ loop \in 0 .. N
         /\ Segments = 0 .. N - 1
         /\ hand \in Items \union {Empty}
         /\ \A i \in Items : ids[i] = input.keys[i] /\ ids[i] \in Segments
         /\ \A s \in Segments :
              /\ First(s) \in Nat /\ border[s] \in Nat /\ shuffle[s] \in Nat
              /\ border[s] = First(s) + size[s]
              /\ First(s) <= shuffle[s] /\ shuffle[s] <= border[s]
              /\ s < loop => shuffle[s] = border[s]
              /\ \A x \in First(s) .. shuffle[s] - 1 : SegmentAt(x) = s
              /\ SlotsOf(s) = First(s) .. border[s] - 1
              /\ SlotsOf(s) \subseteq Items
              /\ size[s] = Cardinality(OfSegment(s))
         /\ \A s, t \in Segments : \A x \in SlotsOf(s) :
              x \in SlotsOf(t) => s = t
         /\ \A x \in Items : shadow[x] \in Items
         /\ hand # Empty => loop < N /\ shuffle[loop] < border[loop]
         /\ \A x, y \in Items : Held(x) = Held(y) => x = y
<1>1. /\ IsInput(input) /\ TypeOK /\ loop \in 0 .. N
      /\ hand \in Items \union {Empty}
      /\ shadow \in [Items -> Items \union {Empty}]
      /\ shuffle \in [Segments -> Nat] /\ border \in [Segments -> Nat]
      /\ \A i \in Items : input.keys[i] # Bad /\ ids[i] = input.keys[i]
      /\ \A s \in Segments :
           /\ border[s] = First(s) + size[s]
           /\ shuffle[s] \in First(s) .. border[s]
           /\ s < loop => shuffle[s] = border[s]
           /\ \A x \in First(s) .. shuffle[s] - 1 : SegmentAt(x) = s
           /\ size[s] = Cardinality(OfSegment(s))
      /\ \A x \in Items : shadow[x] # Empty
      /\ hand # Empty => loop < N /\ shuffle[loop] < border[loop]
      /\ \A x, y \in Items : Held(x) = Held(y) => x = y
  BY DEF IInv, TypeOK, Known, Sized, InPlace
<1>2. /\ N \in Nat \ {0} /\ Total \in Nat \ {0}
      /\ \A i \in Items : input.keys[i] \in {Bad} \union Segments
  BY <1>1, InputTypes
<1>3. ASSUME NEW s \in Segments
      PROVE  /\ First(s) \in Nat /\ border[s] \in Nat /\ shuffle[s] \in Nat
             /\ First(s) <= shuffle[s] /\ shuffle[s] <= border[s]
             /\ SlotsOf(s) = First(s) .. border[s] - 1
             /\ SlotsOf(s) \subseteq Items
  <2>1. s \in 0 .. N
    BY <1>2 DEF Segments
  <2>2. First(s) \in 0 .. Total
    BY <1>1, <2>1, Layout
  <2>3. border[s] = First(s + 1)
    BY <1>1, Layout
  <2> QED BY <1>1, <1>2, <2>2, <2>3, Layout
<1>4. \A i \in Items : ids[i] \in Segments
  BY <1>1, <1>2
<1>5. \A x \in Items : shadow[x] \in Items
  BY <1>1
<1>6. \A s, t \in Segments : \A x \in SlotsOf(s) : x \in SlotsOf(t) => s = t
  BY <1>1, Layout
<1> QED BY <1>1, <1>2, <1>3, <1>4, <1>5, <1>6 DEF Segments

LEMMA NextSegmentStep == IInv /\ NextSegment => IInv'
<1> SUFFICES ASSUME IInv, NextSegment
             PROVE  IInv'
  OBVIOUS
<1> USE DEF readVars, layVars, scatterVars, arrayVars
<1>1. /\ input' = input /\ phase = "inplace" /\ phase' = "inplace"
      /\ loop < N /\ shuffle[loop] >= border[loop] /\ loop' = loop + 1
      /\ UNCHANGED <<status, ids, next, temp, added, stopped, fail, shuffle,
                     size, heads, offset, border, hand, shadow, part>>
  BY DEF NextSegment
<1>2. /\ IsInput(input) /\ TypeOK /\ N \in Nat \ {0} /\ loop \in 0 .. N
      /\ Segments = 0 .. N - 1 /\ loop \in Segments
      /\ shuffle[loop] = border[loop]
      /\ \A s \in Segments : s < loop => shuffle[s] = border[s]
  <2>1. loop \in Segments
    BY <1>1, InPlaceFacts
  <2> QED BY <1>1, <2>1, InPlaceFacts
<1>3. hand = Empty
  <2>1. shuffle[loop] \in Nat /\ border[loop] \in Nat
    BY <1>1, <1>2, InPlaceFacts
  <2> QED BY <1>1, <2>1, InPlaceFacts
<1>4. TypeOK'
  <2>1. loop' \in Nat
    BY <1>1, <1>2
  <2> QED BY <1>1, <1>2, <2>1, SameInput DEF TypeOK
<1>5. InPlace'
  <2>1. \A x : Held(x)' = Held(x)
    BY <1>1, <1>3 DEF Held
  <2>2. \A x : SegmentAt(x)' = SegmentAt(x)
    BY <1>1 DEF SegmentAt
  <2>3. \A s \in Segments : s < loop' => shuffle'[s] = border'[s]
    BY <1>1, <1>2
  <2>4. loop' \in 0 .. N
    BY <1>1, <1>2
  <2> QED BY <1>1, <1>3, <2>1, <2>2, <2>3, <2>4, SameInput
          DEF IInv, InPlace
<1>6. /\ Fresh' /\ WholePath' /\ Known' /\ Sized' /\ Merging'
  BY <1>1, SameInput DEF IInv, Fresh, WholePath, Known, Sized, Merging
<1>7. /\ Reading' /\ LaidOut' /\ OneThread' /\ Scattering' /\ Partitioned'
      /\ StatusExact'
  BY <1>1
  DEF Reading, LaidOut, OneThread, Scattering, Partitioned, StatusExact
<1> QED BY <1>4, <1>5, <1>6, <1>7 DEF IInv

LEMMA KeepOrTakeStep == IInv /\ KeepOrTake => IInv'
<1> SUFFICES ASSUME IInv, KeepOrTake
             PROVE  IInv'
  OBVIOUS
<1> USE DEF readVars, layVars, scatterVars, arrayVars
<1>1. /\ input' = input /\ phase = "inplace" /\ phase' = "inplace"
      /\ hand = Empty /\ loop < N /\ shuffle[loop] < border[loop]
      /\ UNCHANGED <<status, ids, next, temp, added, stopped, fail, size,
                     loop, heads, offset, border, shadow, part>>
      /\ \/ /\ SegmentAt(shuffle[loop]) = loop
            /\ shuffle' = [shuffle EXCEPT ![loop] = @ + 1] /\ hand' = hand
         \/ hand' = shadow[shuffle[loop]] /\ shuffle' = shuffle
  BY DEF KeepOrTake
<1>2. /\ IsInput(input) /\ TypeOK /\ N \in Nat \ {0} /\ loop \in 0 .. N
      /\ Segments = 0 .. N - 1 /\ loop \in Segments
      /\ shuffle \in [Segments -> Nat]
  <2>1. loop \in Segments
    BY <1>1, InPlaceFacts
  <2> QED BY <1>1, <2>1, InPlaceFacts DEF TypeOK
<1>3. /\ shuffle[loop] \in SlotsOf(loop) /\ shuffle[loop] \in Items
      /\ shadow[shuffle[loop]] \in Items
  <2>1. /\ First(loop) \in Nat /\ border[loop] \in Nat /\ shuffle[loop] \in Nat
        /\ First(loop) <= shuffle[loop]
        /\ SlotsOf(loop) = First(loop) .. border[loop] - 1
        /\ SlotsOf(loop) \subseteq Items
    BY <1>1, <1>2, InPlaceFacts
  <2>2. shuffle[loop] \in SlotsOf(loop)
    BY <1>1, <2>1
  <2> QED BY <1>1, <2>1, <2>2, InPlaceFacts
<1>4. TypeOK'
  <2>1. shuffle' \in [Segments -> Nat] /\ hand' \in Items \union {Empty}
    BY <1>1, <1>2, <1>3
  <2> QED BY <1>1, <1>2, <2>1, SameInput DEF TypeOK
<1>5. InPlace'
  <2>1. \A x : SegmentAt(x)' = SegmentAt(x)
    BY <1>1 DEF SegmentAt
  <2>2. \A x : Held(x)' = Held(x)
    BY <1>1 DEF Held
  <2>3. ASSUME NEW s \in Segments
        PROVE  /\ shuffle'[s] \in First(s) .. border[s]
               /\ s < loop => shuffle'[s] = border[s]
               /\ \A x \in First(s) .. shuffle'[s] - 1 : SegmentAt(x) = s
    <3>1. /\ First(s) \in Nat /\ border[s] \in Nat /\ shuffle[s] \in Nat
          /\ First(s) <= shuffle[s] /\ shuffle[s] <= border[s]
          /\ s < loop => shuffle[s] = border[s]
          /\ \A x \in First(s) .. shuffle[s] - 1 : SegmentAt(x) = s
      BY <1>1, InPlaceFacts
    <3>2. CASE shuffle'[s] = shuffle[s]
      BY <3>1, <3>2
    <3>3. CASE /\ s = loop /\ SegmentAt(shuffle[loop]) = loop
               /\ shuffle'[s] = shuffle[s] + 1
      <4>1. \A x \in First(s) .. shuffle'[s] - 1 :
              x \in First(s) .. shuffle[s] - 1 \/ x = shuffle[loop]
        BY <3>1, <3>3
      <4> QED BY <1>1, <1>2, <3>1, <3>3, <4>1
    <3> QED BY <1>1, <1>2, <3>2, <3>3
  <2>4. hand' # Empty => loop < N /\ shuffle'[loop] < border[loop]
    BY <1>1
  <2>5. \A s \in Segments : border[s] = First(s) + size[s]
    BY <1>1, InPlaceFacts
  <2>6. /\ \A x \in Items : shadow[x] # Empty
        /\ \A x, y \in Items : Held(x) = Held(y) => x = y
    BY <1>1 DEF IInv, InPlace
  <2>7. /\ Segments' = Segments /\ N' = N /\ Items' = Items
        /\ \A s : First(s)' = First(s)
    BY <1>1, SameInput
  <2> QED BY <1>1, <1>2, <2>1, <2>2, <2>3, <2>4, <2>5, <2>6, <2>7 DEF InPlace
<1>6. /\ Fresh' /\ WholePath' /\ Known' /\ Sized' /\ Merging'
  BY <1>1, SameInput DEF IInv, Fresh, WholePath, Known, Sized, Merging
<1>7. /\ Reading' /\ LaidOut' /\ OneThread' /\ Scattering' /\ Partitioned'
      /\ StatusExact'
  BY <1>1
  DEF Reading, LaidOut, OneThread, Scattering, Partitioned, StatusExact
<1> QED BY <1>4, <1>5, <1>6, <1>7 DEF IInv

(* The identifier in hand finds a place in its segment: were all of its    *)
(* slots settled, they would hold all of its identifiers, this one too.    *)
LEMMA DisplaceStep == IInv /\ Displace => IInv'
<1> SUFFICES ASSUME IInv, Displace
             PROVE  IInv'
  OBVIOUS
<1> USE DEF readVars, layVars, scatterVars, arrayVars
<1>1. /\ input' = input /\ phase = "inplace" /\ phase' = "inplace"
      /\ hand # Empty
      /\ UNCHANGED <<status, ids, next, temp, added, stopped, fail, size,
                     loop, heads, offset, border, part>>
  BY DEF Displace
<1>2. /\ IsInput(input) /\ TypeOK /\ N \in Nat \ {0} /\ loop \in 0 .. N
      /\ Segments = 0 .. N - 1 /\ loop \in Segments
      /\ shuffle \in [Segments -> Nat]
      /\ shadow \in [Items -> Items \union {Empty}]
      /\ shuffle[loop] < border[loop]
      /\ hand \in Items /\ ids[hand] \in Segments
      /\ ids[hand] = input.keys[hand]
      /\ \A x \in Items : x # Empty
  <2>1. loop \in Segments
    BY <1>1, InPlaceFacts
  <2>2. \A x \in Items : x # Empty
    BY InPlaceFacts, <1>1 DEF Items, Empty
  <2> QED BY <1>1, <2>1, <2>2, InPlaceFacts DEF TypeOK
<1> PICK s \in Segments : s = ids[hand]
  BY <1>2
<1> PICK k \in Nat : k = shuffle[loop]
  BY <1>2
<1>3. ASSUME NEW t \in Segments
      PROVE  /\ First(t) \in Nat /\ border[t] \in Nat /\ shuffle[t] \in Nat
             /\ border[t] = First(t) + size[t]
             /\ First(t) <= shuffle[t] /\ shuffle[t] <= border[t]
             /\ t < loop => shuffle[t] = border[t]
             /\ \A x \in First(t) .. shuffle[t] - 1 : SegmentAt(x) = t
             /\ SlotsOf(t) = First(t) .. border[t] - 1
             /\ SlotsOf(t) \subseteq Items
             /\ \A q \in Segments : \A x \in SlotsOf(t) :
                  x \in SlotsOf(q) => t = q
  BY <1>1, InPlaceFacts
<1>4. /\ k \in SlotsOf(loop) /\ k \in Items
      /\ Held(k) = hand
      /\ \A x \in Items : x # k => Held(x) = shadow[x]
      /\ \A x, y \in Items : Held(x) = Held(y) => x = y
      /\ \A x \in Items : shadow[x] \in Items
  <2>1. k \in SlotsOf(loop)
    BY <1>2, <1>3
  <2> QED BY <1>1, <1>2, <1>3, <2>1, InPlaceFacts DEF Held
<1>5. ASSUME s = loop
      PROVE  TypeOK' /\ InPlace'
  <2>1. /\ shadow' = [shadow EXCEPT ![k] = hand]
        /\ shuffle' = [shuffle EXCEPT ![s] = @ + 1]
        /\ hand' = Empty
    BY <1>5 DEF Displace
  <2>2. TypeOK'
    <3>1. /\ shuffle' \in [Segments -> Nat] /\ hand' \in Items \union {Empty}
          /\ shadow' \in [Items -> Items \union {Empty}]
      BY <1>2, <1>4, <2>1
    <3> QED BY <1>1, <1>2, <3>1, SameInput DEF TypeOK
  <2>3. \A x \in Items : shadow'[x] = Held(x) /\ Held(x)' = Held(x)
    <3>1. ASSUME NEW x \in Items
          PROVE  shadow'[x] = Held(x) /\ Held(x)' = Held(x)
      <4>1. Held(x)' = shadow'[x]
        BY <2>1 DEF Held
      <4>2. shadow'[x] = IF x = k THEN hand ELSE shadow[x]
        BY <1>2, <2>1
      <4> QED BY <1>4, <4>1, <4>2
    <3> QED BY <3>1
  <2>4. ASSUME NEW t \in Segments
        PROVE  /\ shuffle'[t] \in First(t) .. border[t]
               /\ t < loop => shuffle'[t] = border[t]
               /\ \A x \in First(t) .. shuffle'[t] - 1 : SegmentAt(x)' = t
    <3>1. ASSUME NEW x \in First(t) .. shuffle[t] - 1
          PROVE  SegmentAt(x)' = t
      <4>1. x \in Items /\ SegmentAt(x) = t
        BY <1>3
      <4>2. x # k
        <5>1. x \in SlotsOf(t) /\ x < shuffle[t]
          BY <1>3
        <5>2. CASE t = loop
          BY <5>1, <5>2, <1>3
        <5>3. CASE t # loop
          BY <1>2, <1>3, <1>4, <5>1, <5>3
        <5> QED BY <5>2, <5>3
      <4>3. shadow'[x] = shadow[x]
        BY <1>4, <2>3, <4>1, <4>2
      <4> QED BY <1>1, <4>1, <4>3 DEF SegmentAt
    <3>2. CASE t = loop
      <4>1. shuffle'[t] = shuffle[t] + 1 /\ shuffle[t] = k
        BY <1>2, <1>5, <2>1, <3>2
      <4>2. \A x \in First(t) .. shuffle'[t] - 1 :
              x \in First(t) .. shuffle[t] - 1 \/ x = k
        BY <1>3, <4>1
      <4>3. SegmentAt(k)' = t
        <5>1. shadow'[k] = hand
          BY <1>4, <2>3
        <5> QED BY <1>1, <1>5, <3>2, <5>1 DEF SegmentAt
      <4>4. /\ shuffle'[t] \in First(t) .. border[t]
            /\ ~ (t < loop)
        BY <1>2, <1>3, <3>2, <4>1
      <4> QED BY <3>1, <4>2, <4>3, <4>4
    <3>3. CASE t # loop
      <4>1. shuffle'[t] = shuffle[t]
        BY <1>2, <1>5, <2>1, <3>3
      <4> QED BY <1>3, <3>1, <4>1
    <3> QED BY <3>2, <3>3
  <2>5. /\ \A t \in Segments : border[t] = First(t) + size[t]
        /\ \A x \in Items : shadow'[x] # Empty
        /\ \A x, y \in Items : Held(x)' = Held(y)' => x = y
    <3>1. \A x \in Items : Held(x) \in Items
      BY <1>2, <1>4
    <3>2. \A x \in Items : shadow'[x] # Empty
      BY <1>2, <2>3, <3>1
    <3>3. \A x, y \in Items : Held(x)' = Held(y)' => x = y
      BY <1>4, <2>3
    <3> QED BY <1>3, <3>2, <3>3
  <2>6. /\ Segments' = Segments /\ N' = N /\ Items' = Items
        /\ \A t : First(t)' = First(t)
    BY <1>1, SameInput
  <2>7. InPlace'
    BY <1>1, <1>2, <2>1, <2>4, <2>5, <2>6 DEF InPlace
  <2> QED BY <2>2, <2>7
<1>6. ASSUME s # loop
      PROVE  TypeOK' /\ InPlace'
  <2>1. PICK x \in Items :
          /\ shuffle[s] <= x /\ SegmentAt(x) # s
          /\ \A y \in shuffle[s] .. x - 1 : SegmentAt(y) = s
          /\ shadow' = [shadow EXCEPT ![x] = hand]
          /\ hand' = shadow[x]
          /\ shuffle' = [shuffle EXCEPT ![s] = x + 1]
    BY <1>6 DEF Displace
  <2>2. x \in Int
    BY <1>1, InPlaceFacts DEF Items
  <2>3. x < border[s]
    <3> SUFFICES ASSUME ~ (x < border[s])
                 PROVE  FALSE
      OBVIOUS
    <3>1. ASSUME NEW y \in SlotsOf(s)
          PROVE  /\ y \in Items /\ SegmentAt(y) = s /\ y # k
                 /\ shadow[y] \in OfSegment(s)
      <4>1. y \in Items /\ y \in First(s) .. border[s] - 1
        BY <1>3
      <4>2. y \in First(s) .. shuffle[s] - 1 \/ y \in shuffle[s] .. x - 1
        BY <1>3, <2>2, <4>1
      <4>3. SegmentAt(y) = s
        BY <1>3, <2>1, <4>2
      <4>4. y # k
        BY <1>2, <1>3, <1>4, <1>6
      <4>5. /\ shadow[y] \in Items
            /\ ids[shadow[y]] = input.keys[shadow[y]]
        BY <1>1, <1>4, <4>1, InPlaceFacts
      <4> QED BY <4>1, <4>3, <4>4, <4>5 DEF SegmentAt, OfSegment
    <3>2. /\ IsFiniteSet(OfSegment(s))
          /\ Cardinality(SlotsOf(s)) = Cardinality(OfSegment(s))
      BY <1>2, Layout
    <3>3. \A y \in SlotsOf(s) : shadow[y] \in OfSegment(s)
      BY <3>1
    <3>4. \A y, z \in SlotsOf(s) : shadow[y] = shadow[z] => y = z
      <4>1. ASSUME NEW y \in SlotsOf(s), NEW z \in SlotsOf(s),
                   shadow[y] = shadow[z]
            PROVE  y = z
        <5>1. /\ y \in Items /\ z \in Items
              /\ Held(y) = shadow[y] /\ Held(z) = shadow[z]
          BY <1>4, <3>1
        <5> QED BY <1>4, <4>1, <5>1
      <4> QED BY <4>1
    <3>5. \A i \in OfSegment(s) : \E y \in SlotsOf(s) : shadow[y] = i
      BY <3>2, <3>3, <3>4, NoPlaceFree
    <3>6. hand \in OfSegment(s)
      BY <1>2 DEF OfSegment
    <3>7. PICK y \in SlotsOf(s) : shadow[y] = hand
      BY <3>5, <3>6
    <3>8. y \in Items /\ y # k /\ Held(y) = hand
      BY <1>4, <3>1, <3>7
    <3> QED BY <1>4, <3>8
  <2>4. /\ x \in SlotsOf(s) /\ x # k /\ ~ (s < loop)
        /\ Held(x) = shadow[x] /\ shadow[x] \in Items
    <3>1. x \in First(s) .. border[s] - 1
      BY <1>3, <2>1, <2>2, <2>3
    <3>2. x \in SlotsOf(s)
      BY <1>3, <3>1
    <3>3. x # k
      BY <1>2, <1>3, <1>4, <1>6, <3>2
    <3>4. ~ (s < loop)
      BY <1>3, <2>1, <2>2, <2>3
    <3> QED BY <1>4, <3>2, <3>3, <3>4
  <2>5. TypeOK'
    <3>1. x + 1 \in Nat
      BY <1>3, <2>1, <2>2
    <3>2. /\ shuffle' \in [Segments -> Nat] /\ hand' \in Items \union {Empty}
          /\ shadow' \in [Items -> Items \union {Empty}]
      BY <1>2, <2>1, <2>4, <3>1
    <3> QED BY <1>1, <1>2, <3>2, SameInput DEF TypeOK
  <2>6. /\ shuffle'[s] = x + 1
        /\ \A t \in Segments : t # s => shuffle'[t] = shuffle[t]
        /\ shadow'[x] = hand
        /\ \A y \in Items : y # x => shadow'[y] = shadow[y]
    BY <1>2, <2>1
  <2>7. ASSUME NEW y \in Items
        PROVE  Held(y)' = IF y = k THEN Held(x)
                          ELSE IF y = x THEN Held(k) ELSE Held(y)
    <3>1. hand' # Empty /\ shuffle'[loop'] = k
      BY <1>1, <1>2, <1>6, <2>1, <2>4, <2>6
    <3>2. Held(y)' = IF y = k THEN hand' ELSE shadow'[y]
      BY <3>1 DEF Held
    <3> QED BY <1>4, <2>1, <2>4, <2>6, <3>2
  <2>8. ASSUME NEW t \in Segments
        PROVE  /\ shuffle'[t] \in First(t) .. border[t]
               /\ t < loop => shuffle'[t] = border[t]
               /\ \A y \in First(t) .. shuffle'[t] - 1 : SegmentAt(y)' = t
    <3>1. ASSUME NEW y \in Items, y # x, SegmentAt(y) = t
          PROVE  SegmentAt(y)' = t
      BY <1>1, <2>6, <3>1 DEF SegmentAt
    <3>2. CASE t = s
      <4>1. shuffle'[t] \in First(t) .. border[t]
        BY <1>3, <2>1, <2>2, <2>3, <2>6, <3>2
      <4>2. ASSUME NEW y \in First(t) .. shuffle'[t] - 1
            PROVE  SegmentAt(y)' = t
        <5>1. shuffle'[t] = x + 1
          BY <2>6, <3>2
        <5>2. \/ y \in First(t) .. shuffle[t] - 1
              \/ y \in shuffle[t] .. x - 1
              \/ y = x
          BY <1>3, <2>1, <2>2, <5>1
        <5>3. CASE y = x
          BY <1>1, <2>6, <3>2, <5>3 DEF SegmentAt
        <5>4. CASE y # x
          <6>1. SegmentAt(y) = t
            BY <1>3, <2>1, <3>2, <5>2, <5>4
          <6>2. y \in SlotsOf(t)
            BY <1>3, <2>2, <2>3, <3>2, <5>2, <5>4
          <6>3. y \in Items
            BY <1>3, <6>2
          <6> QED BY <3>1, <5>4, <6>1, <6>3
        <5> QED BY <5>3, <5>4
      <4> QED BY <2>4, <3>2, <4>1, <4>2
    <3>3. CASE t # s
      <4>1. shuffle'[t] = shuffle[t]
        BY <2>6, <3>3
      <4>2. ASSUME NEW y \in First(t) .. shuffle[t] - 1
            PROVE  SegmentAt(y)' = t
        <5>1. SegmentAt(y) = t /\ y \in SlotsOf(t)
          BY <1>3
        <5>2. y \in Items
          BY <1>3, <5>1
        <5>3. y # x
          BY <1>3, <2>4, <3>3, <5>1
        <5> QED BY <3>1, <5>1, <5>2, <5>3
      <4> QED BY <1>3, <4>1, <4>2
    <3> QED BY <3>2, <3>3
  <2>9. /\ \A t \in Segments : border[t] = First(t) + size[t]
        /\ \A y \in Items : shadow'[y] # Empty
        /\ \A y, z \in Items : Held(y)' = Held(z)' => y = z
    <3>1. \A y \in Items : shadow'[y] # Empty
      BY <1>2, <1>4, <2>6
    <3>2. \A y, z \in Items : Held(y)' = Held(z)' => y = z
      BY <1>4, <2>4, <2>7
    <3> QED BY <1>3, <3>1, <3>2
  <2>10. hand' # Empty => loop < N /\ shuffle'[loop] < border[loop]
    BY <1>2, <1>6, <2>6
  <2>11. /\ Segments' = Segments /\ N' = N /\ Items' = Items
         /\ \A t : First(t)' = First(t)
    BY <1>1, SameInput
  <2>12. InPlace'
    BY <1>1, <1>2, <2>8, <2>9, <2>10, <2>11 DEF InPlace
  <2> QED BY <2>5, <2>12
<1>7. /\ Fresh' /\ WholePath' /\ Known' /\ Sized' /\ Merging'
  BY <1>1, SameInput DEF IInv, Fresh, WholePath, Known, Sized, Merging
<1>8. /\ Reading' /\ LaidOut' /\ OneThread' /\ Scattering' /\ Partitioned'
      /\ StatusExact'
  BY <1>1
  DEF Reading, LaidOut, OneThread, Scattering, Partitioned, StatusExact
<1> QED BY <1>5, <1>6, <1>7, <1>8 DEF IInv

----------------------------------------------------------------------------
(* The shuffle by several heads.                                           *)

(* What a head finds where it looks next is probed one step later.         *)
LEMMA AfterTypes ==
  ASSUME heads \in Nat, heads > 1, NEW k \in Heads, NEW g \in Heads
  PROVE  /\ NextHead(k) \in Heads
         /\ After(k, g) \in 1 .. heads
         /\ g # k => After(k, g) < heads
         /\ g # k => After(NextHead(k), g) = After(k, g) + 1
<1>1. k \in Nat /\ g \in Nat /\ k < heads /\ g < heads
  BY DEF Heads
<1>2. NextHead(k) = IF k + 1 = heads THEN 0 ELSE k + 1
  <2>1. CASE k + 1 = heads
    <3>1. heads % heads = 0
      BY SMT
    <3> QED BY <2>1, <3>1 DEF NextHead
  <2>2. CASE k + 1 # heads
    <3>1. k + 1 \in Nat /\ k + 1 < heads
      BY <1>1, <2>2
    <3>2. (k + 1) % heads = k + 1
      BY <1>1, <3>1, SMT
    <3> QED BY <2>2, <3>2 DEF NextHead
  <2> QED BY <2>1, <2>2
<1>3. NextHead(k) \in Heads
  BY <1>1, <1>2 DEF Heads
<1>4. After(k, g) \in 1 .. heads /\ (g # k => After(k, g) < heads)
  BY <1>1 DEF After
<1>5. g # k => After(NextHead(k), g) = After(k, g) + 1
  BY <1>1, <1>2 DEF After
<1> QED BY <1>3, <1>4, <1>5

LEMMA ScatterFacts ==
  ASSUME IInv, phase = "scatter"
  PROVE  /\ IsInput(input) /\ TypeOK
         /\ N \in Nat \ {0} /\ Total \in Nat \ {0}
         /\ heads \in Nat /\ heads > 1 /\ Heads = 0 .. heads - 1
         /\ Ranges /\ Pending /\ StoredOnce /\ Probing
         /\ \A i \in Items : /\ ids[i] = input.keys[i] /\ ids[i] \in Segments
                             /\ i \in Nat /\ i # Empty
         /\ \A h \in Heads :
              /\ RunStart(h) \in 0 .. Total /\ RunEnd(h) \in 0 .. Total
              /\ pos[h] \in Nat
              /\ RunStart(h) <= pos[h] /\ pos[h] <= RunEnd(h)
              /\ slot[h] \in Items \union {Empty}
              /\ probed[h] \in 0 .. heads - 1
<1>1. /\ IsInput(input) /\ TypeOK
      /\ heads \in 0 .. N /\ heads > 1
      /\ ctx \in [Heads -> [Segments -> [off : Nat, end : Nat]]]
      /\ pos \in [Heads -> 0 .. Total]
      /\ idx \in [Heads -> [Segments -> Heads]]
      /\ probed \in [Heads -> 0 .. heads - 1]
      /\ slot \in [Heads -> Items \union {Empty}]
      /\ Ranges /\ Pending /\ StoredOnce /\ Probing
      /\ \A i \in Items : input.keys[i] # Bad /\ ids[i] = input.keys[i]
      /\ \A s \in Segments : size[s] = Cardinality(OfSegment(s))
  BY DEF IInv, TypeOK, Scattering, Known, Sized
<1>2. /\ N \in Nat \ {0} /\ Total \in Nat \ {0}
      /\ \A i \in Items : input.keys[i] \in {Bad} \union Segments
      /\ Items = 0 .. Total - 1
  BY <1>1, InputTypes
<1>3. /\ heads \in Nat \ {0} /\ heads \in Nat /\ heads > 1
      /\ Heads = 0 .. heads - 1
  BY <1>1, <1>2 DEF Heads
<1>4. \A i \in Items : /\ ids[i] = input.keys[i] /\ ids[i] \in Segments
                       /\ i \in Nat /\ i # Empty
  BY <1>1, <1>2 DEF Empty
<1>5. ASSUME NEW h \in Heads
      PROVE  /\ RunStart(h) \in 0 .. Total /\ RunEnd(h) \in 0 .. Total
             /\ pos[h] \in Nat
             /\ RunStart(h) <= pos[h] /\ pos[h] <= RunEnd(h)
             /\ slot[h] \in Items \union {Empty}
             /\ probed[h] \in 0 .. heads - 1
  <2>1. RunStart(h) \in 0 .. Total /\ RunEnd(h) \in 0 .. Total
    BY <1>2, <1>3, CutParts DEF RunStart, RunEnd
  <2>2. pos[h] \in 0 .. Total /\ pos[h] \in RunStart(h) .. RunEnd(h)
    BY <1>1 DEF Ranges
  <2> QED BY <1>1, <1>2, <2>1, <2>2
<1> QED BY <1>1, <1>2, <1>3, <1>4, <1>5

LEMMA ScatterRanges ==
  ASSUME IInv, phase = "scatter"
  PROVE  /\ \A h \in Heads : \A s \in Segments :
              /\ From(h, s) \in Nat /\ From(h + 1, s) \in Nat
              /\ \A x \in From(h, s) .. From(h + 1, s) - 1 :
                   x \in SlotsOf(s) /\ x \in Items
              /\ idx[h][s] \in Heads
              /\ ctx[h][s].off \in Nat /\ ctx[h][s].end = From(h + 1, s)
              /\ ctx[h][s].off >= From(h, s)
              /\ \A x \in From(h, s) .. From(h + 1, s) - 1 :
                   x < ctx[h][s].off <=> Claimed(x)
         /\ \A s \in Segments : \A x \in SlotsOf(s) :
              \E h \in Heads : x \in From(h, s) .. From(h + 1, s) - 1
         /\ \A h, g \in Heads : \A s, t \in Segments : \A x \in Int :
              (/\ x \in From(h, s) .. From(h + 1, s) - 1
               /\ x \in From(g, t) .. From(g + 1, t) - 1) => h = g /\ s = t
<1>1. /\ IsInput(input) /\ heads \in Nat \ {0} /\ Heads = 0 .. heads - 1
      /\ Ranges
  BY ScatterFacts
<1>2. /\ ctx \in [Heads -> [Segments -> [off : Nat, end : Nat]]]
      /\ idx \in [Heads -> [Segments -> Heads]]
      /\ \A s \in Segments : size[s] = Cardinality(OfSegment(s))
  BY DEF IInv, TypeOK, Sized
<1>3. ASSUME NEW h \in Heads, NEW s \in Segments
      PROVE  /\ From(h, s) \in Nat /\ From(h + 1, s) \in Nat
             /\ \A x \in From(h, s) .. From(h + 1, s) - 1 :
                  x \in SlotsOf(s) /\ x \in Items
  BY <1>1, <1>2, HeadLayout DEF From
<1>4. ASSUME NEW h \in Heads, NEW s \in Segments
      PROVE  /\ idx[h][s] \in Heads
             /\ ctx[h][s].off \in Nat /\ ctx[h][s].end = From(h + 1, s)
             /\ ctx[h][s].off >= From(h, s)
             /\ \A x \in From(h, s) .. From(h + 1, s) - 1 :
                  x < ctx[h][s].off <=> Claimed(x)
  <2>1. ctx[h][s] \in [off : Nat, end : Nat] /\ idx[h][s] \in Heads
    BY <1>2
  <2> QED BY <1>1, <2>1 DEF Ranges
<1>5. \A s \in Segments : \A x \in SlotsOf(s) :
        \E h \in Heads : x \in From(h, s) .. From(h + 1, s) - 1
  BY <1>1, <1>2, HeadLayout DEF From
<1>6. \A h, g \in Heads : \A s, t \in Segments : \A x \in Int :
        (/\ x \in From(h, s) .. From(h + 1, s) - 1
         /\ x \in From(g, t) .. From(g + 1, t) - 1) => h = g /\ s = t
  BY <1>1, <1>2, HeadLayout DEF From
<1> QED BY <1>3, <1>4, <1>5, <1>6

(* The identifier a thread has at hand is its own, and not stored.         *)
LEMMA AtHand ==
  ASSUME IInv, phase = "scatter", NEW h \in Heads, pos[h] < RunEnd(h)
  PROVE  /\ pos[h] \in Items /\ ids[pos[h]] \in Segments
         /\ ids[pos[h]] = input.keys[pos[h]]
         /\ ~ Stored(pos[h])
         /\ \A g \in Heads :
              RunStart(g) <= pos[h] /\ pos[h] < RunEnd(g) => g = h
<1>1. /\ Total \in Nat \ {0} /\ heads \in Nat \ {0} /\ Heads = 0 .. heads - 1
      /\ \A g \in Heads :
           /\ RunStart(g) \in 0 .. Total /\ RunEnd(g) \in 0 .. Total
           /\ pos[g] \in Nat
           /\ RunStart(g) <= pos[g] /\ pos[g] <= RunEnd(g)
      /\ \A i \in Items : ids[i] = input.keys[i] /\ ids[i] \in Segments
  BY ScatterFacts
<1>2. pos[h] \in Items
  BY <1>1 DEF Items
<1>3. ASSUME NEW g \in Heads, RunStart(g) <= pos[h], pos[h] < RunEnd(g)
      PROVE  g = h
  <2>1. /\ pos[h] \in Int
        /\ Cut(Total, heads, g) <= pos[h] /\ pos[h] < Cut(Total, heads, g + 1)
        /\ Cut(Total, heads, h) <= pos[h] /\ pos[h] < Cut(Total, heads, h + 1)
    BY <1>1, <1>3 DEF RunStart, RunEnd
  <2> QED BY <1>1, <2>1, CutParts
<1>4. ~ Stored(pos[h])
  <2>0. SUFFICES ASSUME NEW g \in Heads,
                        RunStart(g) <= pos[h], pos[h] < pos[g]
                 PROVE  FALSE
    BY DEF Stored
  <2>1. pos[h] < RunEnd(g)
    <3>1. /\ RunEnd(g) \in 0 .. Total /\ pos[g] \in Nat /\ pos[h] \in Nat
          /\ pos[g] <= RunEnd(g) /\ Total \in Nat
      BY <1>1, <2>0
    <3> QED BY <2>0, <3>1
  <2>2. g = h
    BY <1>3, <2>0, <2>1
  <2> QED BY <1>1, <2>0, <2>2
<1> QED BY <1>1, <1>2, <1>3, <1>4

LEMMA StoreStep ==
  ASSUME IInv, NEW h \in Heads, Store(h)
  PROVE  IInv'
<1> USE DEF readVars, layVars, scatterVars, arrayVars
<1>1. /\ input' = input /\ phase = "scatter" /\ phase' = "scatter"
      /\ slot[h] # Empty
      /\ shadow' = [shadow EXCEPT ![slot[h]] = pos[h]]
      /\ slot' = [slot EXCEPT ![h] = Empty]
      /\ pos' = [pos EXCEPT ![h] = @ + 1]
      /\ probed' = [probed EXCEPT ![h] = 0]
      /\ UNCHANGED <<status, ids, next, temp, added, stopped, fail, shuffle,
                     size, loop, heads, offset, border, ctx, idx, hand, part>>
  BY DEF Store
<1>2. /\ IsInput(input) /\ TypeOK /\ Total \in Nat
      /\ heads \in Nat \ {0} /\ heads > 1 /\ Heads = 0 .. heads - 1
      /\ Ranges /\ Pending /\ StoredOnce /\ Probing
      /\ \A i \in Items : /\ ids[i] = input.keys[i] /\ ids[i] \in Segments
                          /\ i \in Nat /\ i # Empty
      /\ \A g \in Heads :
           /\ RunStart(g) \in 0 .. Total /\ RunEnd(g) \in 0 .. Total
           /\ pos[g] \in Nat
           /\ RunStart(g) <= pos[g] /\ pos[g] <= RunEnd(g)
           /\ slot[g] \in Items \union {Empty}
  BY <1>1, ScatterFacts
<1>3. /\ pos \in [Heads -> 0 .. Total]
      /\ probed \in [Heads -> 0 .. heads - 1]
      /\ slot \in [Heads -> Items \union {Empty}]
      /\ shadow \in [Items -> Items \union {Empty}]
  BY <1>1 DEF IInv, TypeOK
<1>x. PICK x \in Items : x = slot[h]
  BY <1>1, <1>2
<1>4. /\ pos[h] < RunEnd(h) /\ x \in SlotsOf(ids[pos[h]]) /\ shadow[x] = Empty
      /\ \A g \in Heads \ {h} : slot[g] # x
  BY <1>1, <1>2, <1>x DEF Pending
<1>5. /\ pos[h] \in Items /\ ids[pos[h]] = input.keys[pos[h]]
      /\ ~ Stored(pos[h])
  BY <1>1, <1>4, AtHand
<1>i. PICK i \in Items : i = pos[h]
  BY <1>5
<1>6. /\ shadow'[x] = i /\ i # Empty
      /\ \A y \in Items : y # x => shadow'[y] = shadow[y]
      /\ slot'[h] = Empty /\ pos'[h] = i + 1 /\ probed'[h] = 0
      /\ \A g \in Heads : g # h =>
           slot'[g] = slot[g] /\ pos'[g] = pos[g] /\ probed'[g] = probed[g]
  BY <1>1, <1>2, <1>3, <1>x, <1>i
<1>7. /\ Heads' = Heads /\ Segments' = Segments /\ Items' = Items
      /\ \A g : RunStart(g)' = RunStart(g) /\ RunEnd(g)' = RunEnd(g)
      /\ \A g, s : /\ From(g, s)' = From(g, s)
                   /\ Full(g, s)' <=> Full(g, s)
      /\ \A k, g : After(k, g)' = After(k, g)
      /\ \A s : SlotsOf(s)' = SlotsOf(s)
  BY <1>1, SameInput DEF Heads, RunStart, RunEnd, From, Full, After
<1>8. pos'[h] \in RunStart(h) .. RunEnd(h) /\ pos'[h] \in 0 .. Total
  <2>1. /\ RunStart(h) \in 0 .. Total /\ RunEnd(h) \in 0 .. Total
        /\ i \in Nat /\ RunStart(h) <= i /\ i < RunEnd(h)
    BY <1>2, <1>4, <1>i
  <2> QED BY <1>2, <1>6, <2>1
<1>9. TypeOK'
  <2>1. /\ pos' \in [Heads -> 0 .. Total]
        /\ slot' \in [Heads -> Items \union {Empty}]
        /\ shadow' \in [Items -> Items \union {Empty}]
    <3>1. pos' = [pos EXCEPT ![h] = pos'[h]]
      BY <1>1, <1>3
    <3> QED BY <1>1, <1>3, <1>5, <1>8, <3>1
  <2>2. probed' \in [Heads -> 0 .. heads - 1]
    <3>1. 0 \in 0 .. heads - 1
      BY <1>2
    <3> QED BY <1>1, <1>3, <3>1
  <2> QED BY <1>1, <1>2, <1>7, <2>1, <2>2, SameInput DEF TypeOK
<1>10. \A y \in Items : Claimed(y)' <=> Claimed(y)
  <2>1. ASSUME NEW y \in Items
        PROVE  Claimed(y)' <=> shadow'[y] # Empty \/ \E g \in Heads : slot'[g] = y
    BY <1>7 DEF Claimed
  <2>2. ASSUME NEW y \in Items, y = x
        PROVE  shadow'[y] # Empty /\ Claimed(y)
    BY <1>1, <1>6, <1>x, <2>2 DEF Claimed
  <2>3. ASSUME NEW y \in Items, y # x, NEW g \in Heads
        PROVE  slot'[g] = y <=> slot[g] = y
    <3>1. CASE g = h
      BY <1>2, <1>6, <1>x, <2>3, <3>1
    <3>2. CASE g # h
      BY <1>6, <3>2
    <3> QED BY <3>1, <3>2
  <2>4. ASSUME NEW y \in Items, y # x
        PROVE  shadow'[y] = shadow[y]
    BY <1>6, <2>4
  <2> QED BY <2>1, <2>2, <2>3, <2>4 DEF Claimed
<1>11. \A j \in Items : Stored(j)' <=> Stored(j) \/ j = i
  <2>1. ASSUME NEW j \in Items, NEW g \in Heads
        PROVE  RunStart(g)' <= j /\ j < pos'[g] <=>
                 \/ RunStart(g) <= j /\ j < pos[g]
                 \/ g = h /\ j = i
    <3>1. j \in Nat /\ i \in Nat /\ RunStart(g)' = RunStart(g)
      BY <1>2, <1>7
    <3>2. CASE g = h
      <4>1. pos'[g] = i + 1 /\ pos[g] = i
        BY <1>6, <1>i, <3>2
      <4>2. RunStart(g) \in 0 .. Total /\ RunStart(g) <= i
        BY <1>2, <1>i, <3>2
      <4> QED BY <1>2, <3>1, <3>2, <4>1, <4>2
    <3>3. CASE g # h
      BY <1>6, <3>1, <3>3
    <3> QED BY <3>2, <3>3
  <2> QED BY <1>7, <2>1 DEF Stored
<1>12. Ranges'
  <2>1. \A g \in Heads : \A s \in Segments :
          \A y \in From(g, s) .. From(g + 1, s) - 1 : y \in Items
    BY <1>1, ScatterRanges
  <2>2. \A g \in Heads : pos'[g] \in RunStart(g) .. RunEnd(g)
    BY <1>2, <1>6, <1>8 DEF Ranges
  <2>3. ASSUME NEW g \in Heads, NEW s \in Segments
        PROVE  /\ ctx'[g][s].end = From(g + 1, s)
               /\ ctx'[g][s].off >= From(g, s)
               /\ \A y \in From(g, s) .. From(g + 1, s) - 1 :
                    y < ctx'[g][s].off <=> Claimed(y)'
    BY <1>1, <1>2, <1>10, <2>1 DEF Ranges
  <2> QED BY <1>7, <2>2, <2>3 DEF Ranges
<1>13. Pending'
  <2>1. ASSUME NEW g \in Heads, slot'[g] # Empty
        PROVE  /\ pos'[g] < RunEnd(g)
               /\ slot'[g] \in SlotsOf(ids[pos'[g]])
               /\ shadow'[slot'[g]] = Empty
               /\ \A f \in Heads \ {g} : slot'[f] # slot'[g]
    <3>1. g # h /\ slot'[g] = slot[g] /\ pos'[g] = pos[g]
      BY <1>6, <2>1
    <3>2. /\ pos[g] < RunEnd(g)
          /\ slot[g] \in SlotsOf(ids[pos[g]])
          /\ shadow[slot[g]] = Empty
          /\ \A f \in Heads \ {g} : slot[f] # slot[g]
      BY <1>2, <2>1, <3>1 DEF Pending
    <3>3. shadow'[slot[g]] = Empty
      <4>1. slot[g] \in Items /\ slot[g] # x
        BY <1>2, <1>4, <2>1, <3>1
      <4> QED BY <1>6, <3>2, <4>1
    <3>4. \A f \in Heads \ {g} : slot'[f] # slot'[g]
      BY <1>6, <2>1, <3>1, <3>2
    <3> QED BY <3>1, <3>2, <3>3, <3>4
  <2> QED BY <1>1, <1>7, <2>1 DEF Pending
<1>14. StoredOnce'
  <2>1. /\ \A y \in Items : shadow[y] # Empty =>
             y \in SlotsOf(input.keys[shadow[y]]) /\ Stored(shadow[y])
        /\ \A y, z \in Items : shadow[y] = shadow[z] /\ shadow[y] # Empty
                                 => y = z
        /\ \A j \in Items :
             Stored(j) => \E y \in SlotsOf(input.keys[j]) : shadow[y] = j
    BY <1>2 DEF StoredOnce
  <2>2. ASSUME NEW y \in Items, shadow'[y] # Empty
        PROVE  y \in SlotsOf(input.keys[shadow'[y]]) /\ Stored(shadow[y])'
    <3>1. CASE y = x
      <4>1. Stored(i)' /\ shadow'[y] = i
        BY <1>6, <1>11, <3>1
      <4>2. y \in SlotsOf(input.keys[i])
        BY <1>4, <1>5, <1>i, <3>1
      <4>3. Stored(shadow[y])'
        BY <4>1 DEF Stored
      <4> QED BY <4>1, <4>2, <4>3
    <3>2. CASE y # x
      <4> PICK j \in Items : j = shadow[y] /\ j = shadow'[y]
        BY <1>3, <1>6, <2>2, <3>2
      <4>1. y \in SlotsOf(input.keys[j]) /\ Stored(j)
        BY <1>2, <2>1
      <4>2. Stored(j)'
        BY <1>11, <4>1
      <4>3. Stored(shadow[y])'
        BY <4>2 DEF Stored
      <4> QED BY <4>1, <4>3
    <3> QED BY <3>1, <3>2
  <2>3. ASSUME NEW y \in Items, NEW z \in Items,
               shadow'[y] = shadow'[z], shadow'[y] # Empty
        PROVE  y = z
    <3>1. ASSUME NEW f \in Items, f # x
          PROVE  shadow'[f] # i
      <4>1. shadow'[f] = shadow[f]
        BY <1>6, <3>1
      <4>2. shadow[f] = i => Stored(i)
        BY <1>6, <2>1
      <4> QED BY <1>5, <1>i, <4>1, <4>2
    <3> QED BY <1>6, <2>1, <2>3, <3>1
  <2>4. ASSUME NEW j \in Items, Stored(j)'
        PROVE  \E y \in SlotsOf(input.keys[j]) : shadow'[y] = j
    <3>1. CASE j = i
      BY <1>4, <1>5, <1>6, <1>i, <3>1
    <3>2. CASE j # i
      <4>1. Stored(j)
        BY <1>11, <2>4, <3>2
      <4>2. PICK y \in SlotsOf(input.keys[j]) : shadow[y] = j
        BY <2>1, <4>1
      <4>3. y \in Items
        <5>1. input.keys[j] \in Segments
          BY <1>2
        <5> QED BY <1>2, <5>1, Layout
      <4>4. y # x
        BY <1>2, <1>4, <4>2
      <4> QED BY <1>6, <4>2, <4>3, <4>4
    <3> QED BY <3>1, <3>2
  <2> QED BY <1>1, <1>7, <2>2, <2>3, <2>4 DEF StoredOnce
<1>15. Probing'
  <2>1. ASSUME NEW g \in Heads, pos'[g] < RunEnd(g), NEW f \in Heads,
               After(idx[g][ids[pos'[g]]], f) <= probed'[g]
        PROVE  Full(f, ids[pos'[g]])
    <3>1. CASE g = h
      <4>1. pos'[g] \in Items
        <5>1. pos'[g] \in 0 .. Total /\ RunEnd(g) \in 0 .. Total
          BY <1>2, <1>8, <3>1
        <5>2. pos'[g] < RunEnd(g) /\ Total \in Nat
          BY <1>2, <2>1
        <5> QED BY <5>1, <5>2 DEF Items
      <4>2. idx[g][ids[pos'[g]]] \in Heads
        BY <1>1, <1>2, <4>1, ScatterRanges
      <4>3. After(idx[g][ids[pos'[g]]], f) \in 1 .. heads
        BY <1>2, <4>2, AfterTypes
      <4> QED BY <1>2, <1>6, <2>1, <3>1, <4>3
    <3>2. CASE g # h
      <4>1. pos'[g] = pos[g] /\ probed'[g] = probed[g]
        BY <1>6, <3>2
      <4> QED BY <1>2, <2>1, <4>1 DEF Probing
    <3> QED BY <3>1, <3>2
  <2> QED BY <1>1, <1>7, <2>1 DEF Probing
<1>16. Scattering'
  BY <1>12, <1>13, <1>14, <1>15 DEF Scattering
<1>17. /\ Fresh' /\ WholePath' /\ Known' /\ Sized' /\ Merging'
  BY <1>1, SameInput DEF IInv, Fresh, WholePath, Known, Sized, Merging
<1>18. /\ Reading' /\ LaidOut' /\ OneThread' /\ InPlace' /\ Partitioned'
       /\ StatusExact'
  BY <1>1
  DEF Reading, LaidOut, OneThread, InPlace, Partitioned, StatusExact
<1> QED BY <1>9, <1>16, <1>17, <1>18 DEF IInv

(* While the identifier at hand is not stored, not all ranges of its       *)
(* segment are full: all of its slots would be claimed, each by a          *)
(* different one of its identifiers, but none by this one.                 *)
LEMMA RoomLeft ==
  ASSUME IInv, phase = "scatter", NEW h \in Heads,
         slot[h] = Empty, pos[h] < RunEnd(h)
  PROVE  \E g \in Heads : ~ Full(g, ids[pos[h]])
<1> DEFINE s == ids[pos[h]]
<1>1. /\ IsInput(input) /\ Total \in Nat
      /\ Pending /\ StoredOnce
      /\ \A i \in Items : /\ ids[i] = input.keys[i] /\ ids[i] \in Segments
                          /\ i # Empty
      /\ \A g \in Heads :
           /\ RunStart(g) \in 0 .. Total /\ RunEnd(g) \in 0 .. Total
           /\ pos[g] \in Nat
           /\ RunStart(g) <= pos[g] /\ pos[g] <= RunEnd(g)
           /\ slot[g] \in Items \union {Empty}
      /\ shadow \in [Items -> Items \union {Empty}]
  BY ScatterFacts DEF TypeOK
<1>2. /\ pos[h] \in Items /\ s \in Segments
      /\ s = input.keys[pos[h]]
      /\ ~ Stored(pos[h])
  BY AtHand
<1> SUFFICES ASSUME \A g \in Heads : Full(g, s)
             PROVE  FALSE
  OBVIOUS
<1> HIDE DEF s
<1>3. /\ SlotsOf(s) \subseteq Items
      /\ IsFiniteSet(OfSegment(s))
      /\ Cardinality(SlotsOf(s)) = Cardinality(OfSegment(s))
      /\ \A t \in Segments : \A x \in SlotsOf(s) : x \in SlotsOf(t) => s = t
  BY <1>1, <1>2, Layout
<1>4. ASSUME NEW x \in SlotsOf(s)
      PROVE  Claimed(x)
  <2>1. PICK g \in Heads : x \in From(g, s) .. From(g + 1, s) - 1
    BY <1>2, ScatterRanges
  <2>2. /\ From(g, s) \in Nat /\ From(g + 1, s) \in Nat
        /\ ctx[g][s].off \in Nat /\ ctx[g][s].end = From(g + 1, s)
        /\ x < ctx[g][s].off <=> Claimed(x)
    BY <1>2, <2>1, ScatterRanges
  <2>3. ctx[g][s].off >= ctx[g][s].end
    BY DEF Full
  <2> QED BY <2>1, <2>2, <2>3
<1> DEFINE Owner(x) == CHOOSE g \in Heads : slot[g] = x
           m == [x \in SlotsOf(s) |->
                   IF shadow[x] # Empty THEN shadow[x] ELSE pos[Owner(x)]]
<1>5. ASSUME NEW x \in SlotsOf(s), shadow[x] = Empty
      PROVE  /\ Owner(x) \in Heads /\ slot[Owner(x)] = x
             /\ pos[Owner(x)] \in OfSegment(s)
             /\ ~ Stored(pos[Owner(x)])
             /\ pos[Owner(x)] < RunEnd(Owner(x))
  <2>1. \E g \in Heads : slot[g] = x
    BY <1>4, <1>5 DEF Claimed
  <2> DEFINE g == Owner(x)
  <2>2. g \in Heads /\ slot[g] = x
    BY <2>1
  <2> HIDE DEF g
  <2>3. slot[g] # Empty
    BY <1>1, <1>3, <2>2
  <2>4. pos[g] < RunEnd(g) /\ x \in SlotsOf(ids[pos[g]])
    BY <1>1, <2>2, <2>3 DEF Pending
  <2>5. /\ pos[g] \in Items /\ ids[pos[g]] \in Segments
        /\ ids[pos[g]] = input.keys[pos[g]]
        /\ ~ Stored(pos[g])
    BY <2>2, <2>4, AtHand
  <2>6. pos[g] \in OfSegment(s)
    BY <1>3, <2>4, <2>5 DEF OfSegment
  <2> QED BY <2>2, <2>4, <2>5, <2>6 DEF g
<1>6. ASSUME NEW x \in SlotsOf(s), shadow[x] # Empty
      PROVE  shadow[x] \in OfSegment(s) /\ Stored(shadow[x])
  <2>1. x \in Items /\ shadow[x] \in Items
    BY <1>1, <1>3, <1>6
  <2>2. x \in SlotsOf(input.keys[shadow[x]]) /\ Stored(shadow[x])
    BY <1>1, <1>6, <2>1 DEF StoredOnce
  <2>3. input.keys[shadow[x]] \in Segments
    BY <1>1, <2>1
  <2>4. input.keys[shadow[x]] = s
    BY <1>3, <2>2, <2>3
  <2> QED BY <2>1, <2>2, <2>4 DEF OfSegment
<1> HIDE DEF Owner
<1>7. \A x \in SlotsOf(s) : m[x] \in OfSegment(s)
  BY <1>5, <1>6
<1>8. ASSUME NEW x \in SlotsOf(s), NEW y \in SlotsOf(s), m[x] = m[y]
      PROVE  x = y
  <2>1. CASE shadow[x] # Empty /\ shadow[y] # Empty
    BY <1>1, <1>3, <1>8, <2>1 DEF StoredOnce
  <2>2. CASE shadow[x] # Empty /\ shadow[y] = Empty
    BY <1>5, <1>6, <1>8, <2>2
  <2>3. CASE shadow[x] = Empty /\ shadow[y] # Empty
    BY <1>5, <1>6, <1>8, <2>3
  <2>4. CASE shadow[x] = Empty /\ shadow[y] = Empty
    <3>1. pos[Owner(x)] = pos[Owner(y)]
      BY <1>8, <2>4
    <3>2. /\ Owner(x) \in Heads /\ slot[Owner(x)] = x
          /\ Owner(y) \in Heads /\ slot[Owner(y)] = y
          /\ pos[Owner(x)] < RunEnd(Owner(x))
          /\ pos[Owner(y)] < RunEnd(Owner(y))
      BY <1>5, <2>4
    <3>3. RunStart(Owner(y)) <= pos[Owner(y)]
      BY <1>1, <3>2
    <3>4. Owner(y) = Owner(x)
      BY <3>1, <3>2, <3>3, AtHand
    <3> QED BY <3>2, <3>4
  <2> QED BY <2>1, <2>2, <2>3, <2>4
<1>9. PICK x \in SlotsOf(s) : m[x] = pos[h]
  <2>1. pos[h] \in OfSegment(s)
    BY <1>2 DEF OfSegment
  <2> HIDE DEF m
  <2> QED BY <1>3, <1>7, <1>8, <2>1, NoPlaceFree
<1>10. CASE shadow[x] # Empty
  BY <1>2, <1>6, <1>9, <1>10
<1>11. CASE shadow[x] = Empty
  <2>1. /\ Owner(x) \in Heads /\ slot[Owner(x)] = x
        /\ pos[Owner(x)] = pos[h] /\ pos[Owner(x)] < RunEnd(Owner(x))
    BY <1>5, <1>9, <1>11
  <2>2. RunStart(Owner(x)) <= pos[Owner(x)]
    BY <1>1, <2>1
  <2>3. Owner(x) = h
    BY <2>1, <2>2, AtHand
  <2>4. x # Empty
    BY <1>1, <1>3
  <2> QED BY <2>1, <2>3, <2>4
<1> QED BY <1>10, <1>11

(* A thread claims a slot no one else has, or goes on to the next head;    *)
(* it never runs out of heads with the identifier in hand.                 *)
LEMMA ClaimStep ==
  ASSUME IInv, NEW h \in Heads, Claim(h)
  PROVE  IInv'
<1> USE DEF readVars, layVars, scatterVars, arrayVars
<1>1. /\ input' = input /\ phase = "scatter" /\ phase' = "scatter"
      /\ slot[h] = Empty /\ pos[h] < RunEnd(h)
      /\ UNCHANGED <<status, ids, next, temp, added, stopped, fail, shuffle,
                     size, loop, heads, offset, border, hand, shadow, part>>
  BY DEF Claim
<1>2. /\ IsInput(input) /\ TypeOK /\ Total \in Nat
      /\ heads \in Nat \ {0} /\ heads > 1 /\ Heads = 0 .. heads - 1
      /\ Ranges /\ Pending /\ StoredOnce /\ Probing
      /\ \A i \in Items : /\ ids[i] = input.keys[i] /\ ids[i] \in Segments
                          /\ i \in Nat /\ i # Empty
      /\ \A g \in Heads :
           /\ slot[g] \in Items \union {Empty}
           /\ probed[g] \in 0 .. heads - 1
  BY <1>1, ScatterFacts
<1>3. /\ ctx \in [Heads -> [Segments -> [off : Nat, end : Nat]]]
      /\ pos \in [Heads -> 0 .. Total]
      /\ idx \in [Heads -> [Segments -> Heads]]
      /\ probed \in [Heads -> 0 .. heads - 1]
      /\ slot \in [Heads -> Items \union {Empty}]
      /\ shadow \in [Items -> Items \union {Empty}]
  BY <1>1 DEF IInv, TypeOK
<1>4. /\ pos[h] \in Items /\ ids[pos[h]] \in Segments
      /\ idx[h][ids[pos[h]]] \in Heads
  BY <1>1, <1>3, AtHand
<1>s. PICK s \in Segments : s = ids[pos[h]]
  BY <1>4
<1>k. PICK k \in Heads : k = idx[h][s]
  BY <1>4, <1>s
<1>r. PICK range \in [off : Nat, end : Nat] : range = ctx[k][s]
  BY <1>3
<1>o. PICK o \in Nat : o = range.off
  OBVIOUS
<1>5. /\ ctx' = [ctx EXCEPT ![k][s].off = @ + 1]
      /\ \/ /\ HasRoom(range)
            /\ slot' = [slot EXCEPT ![h] = o]
            /\ UNCHANGED <<pos, idx, probed>>
         \/ /\ ~ HasRoom(range)
            /\ idx' = [idx EXCEPT ![h][s] = NextHead(k)]
            /\ probed' = [probed EXCEPT
                            ![h] = IF LastProbe(probed[h]) THEN 0 ELSE @ + 1]
            /\ pos' = [pos EXCEPT
                         ![h] = IF LastProbe(probed[h]) THEN @ + 1 ELSE @]
            /\ slot' = slot
  BY <1>s, <1>k, <1>r, <1>o, Zenon DEF Claim
<1>6. /\ \A g \in Heads, t \in Segments : ctx'[g][t].end = ctx[g][t].end
      /\ \A g \in Heads, t \in Segments :
           ctx'[g][t].off = IF g = k /\ t = s THEN o + 1 ELSE ctx[g][t].off
      /\ ctx' \in [Heads -> [Segments -> [off : Nat, end : Nat]]]
  <2> DEFINE moved == [range EXCEPT !.off = o + 1]
  <2>1. /\ moved \in [off : Nat, end : Nat]
        /\ moved.off = o + 1 /\ moved.end = range.end
    OBVIOUS
  <2>2. ctx' = [ctx EXCEPT ![k] = [ctx[k] EXCEPT ![s] = moved]]
    BY <1>5, <1>r, <1>o
  <2> HIDE DEF moved
  <2>3. /\ \A g \in Heads, t \in Segments :
             ctx'[g][t] = IF g = k /\ t = s THEN moved ELSE ctx[g][t]
        /\ ctx' \in [Heads -> [Segments -> [off : Nat, end : Nat]]]
    BY <1>3, <2>1, <2>2
  <2> QED BY <2>1, <2>3, <1>r, <1>o
<1>7. /\ Heads' = Heads /\ Segments' = Segments /\ Items' = Items
      /\ \A g : RunStart(g)' = RunStart(g) /\ RunEnd(g)' = RunEnd(g)
      /\ \A g, t : From(g, t)' = From(g, t)
      /\ \A f, g : After(f, g)' = After(f, g)
      /\ \A t : SlotsOf(t)' = SlotsOf(t)
  BY <1>1, SameInput DEF Heads, RunStart, RunEnd, From, After
<1>8. ASSUME NEW g \in Heads, NEW t \in Segments
      PROVE  /\ From(g, t) \in Nat /\ From(g + 1, t) \in Nat
             /\ ctx[g][t].off \in Nat
             /\ ctx[g][t].end = From(g + 1, t)
             /\ ctx[g][t].off >= From(g, t)
             /\ \A x \in From(g, t) .. From(g + 1, t) - 1 :
                  /\ x \in SlotsOf(t) /\ x \in Items
                  /\ x < ctx[g][t].off <=> Claimed(x)
             /\ ctx'[g][t].off >= From(g, t)
             /\ Full(g, t) => Full(g, t)'
  <2>1. /\ From(g, t) \in Nat /\ From(g + 1, t) \in Nat
        /\ ctx[g][t].off \in Nat
        /\ ctx[g][t].end = From(g + 1, t)
        /\ ctx[g][t].off >= From(g, t)
        /\ \A x \in From(g, t) .. From(g + 1, t) - 1 :
             /\ x \in SlotsOf(t) /\ x \in Items
             /\ x < ctx[g][t].off <=> Claimed(x)
    BY <1>1, ScatterRanges
  <2>2. /\ ctx'[g][t].off \in Nat /\ ctx'[g][t].off >= ctx[g][t].off
        /\ ctx'[g][t].end = ctx[g][t].end
    <3>1. o = ctx[k][s].off
      BY <1>r, <1>o
    <3>2. /\ ctx'[g][t].end = ctx[g][t].end
          /\ ctx'[g][t].off = IF g = k /\ t = s THEN o + 1 ELSE ctx[g][t].off
      BY <1>6
    <3>3. CASE g = k /\ t = s
      <4>1. ctx'[g][t].off = o + 1 /\ ctx[g][t].off = o
        BY <3>1, <3>2, <3>3
      <4> QED BY <3>2, <4>1
    <3>4. CASE ~ (g = k /\ t = s)
      BY <2>1, <3>2, <3>4
    <3> QED BY <3>3, <3>4
  <2>3. Full(g, t) => Full(g, t)'
    <3>1. ASSUME ctx[g][t].off >= ctx[g][t].end
          PROVE  ctx'[g][t].off >= ctx'[g][t].end
      BY <2>1, <2>2, <3>1
    <3> QED BY <3>1 DEF Full
  <2>4. ctx'[g][t].off >= From(g, t)
    BY <2>1, <2>2
  <2> QED BY <2>1, <2>3, <2>4
<1>9. ASSUME HasRoom(range)
      PROVE  TypeOK' /\ Scattering'
  <2>1. /\ o < ctx[k][s].end
        /\ slot' = [slot EXCEPT ![h] = o]
        /\ UNCHANGED <<pos, idx, probed>>
    BY <1>5, <1>9, <1>r, <1>o DEF HasRoom
  <2>2. /\ o \in From(k, s) .. From(k + 1, s) - 1
        /\ o \in SlotsOf(s) /\ o \in Items /\ ~ Claimed(o)
    <3>1. o \in From(k, s) .. From(k + 1, s) - 1
      BY <1>8, <2>1, <1>r, <1>o
    <3>2. ~ (o < o)
      OBVIOUS
    <3> QED BY <1>8, <3>1, <3>2, <1>r, <1>o
  <2>3. /\ shadow[o] = Empty
        /\ \A g \in Heads : slot[g] # o
    BY <2>2 DEF Claimed
  <2>4. /\ slot'[h] = o
        /\ \A g \in Heads : g # h => slot'[g] = slot[g]
    BY <1>3, <2>1
  <2>5. \A x \in Items : Claimed(x)' <=> Claimed(x) \/ x = o
    BY <1>1, <1>2, <1>7, <2>4 DEF Claimed
  <2>6. TypeOK'
    <3>1. slot' \in [Heads -> Items \union {Empty}]
      BY <1>3, <2>1, <2>2
    <3> QED BY <1>1, <1>2, <1>3, <1>6, <1>7, <2>1, <3>1, SameInput DEF TypeOK
  <2>7. Ranges'
    <3>1. ASSUME NEW g \in Heads, NEW t \in Segments,
                 NEW x \in From(g, t) .. From(g + 1, t) - 1
          PROVE  x < ctx'[g][t].off <=> Claimed(x)'
      <4>1. /\ x \in Items /\ x \in Int
            /\ x < ctx[g][t].off <=> Claimed(x)
        BY <1>8, <3>1
      <4>2. CASE g = k /\ t = s
        <5>1. /\ ctx'[g][t].off = o + 1 /\ ctx[g][t].off = o
          BY <1>6, <1>r, <1>o, <4>2
        <5>2. x < o + 1 <=> x < o \/ x = o
          BY <4>1
        <5> QED BY <2>5, <4>1, <5>1, <5>2
      <4>3. CASE ~ (g = k /\ t = s)
        <5>1. x # o
          BY <1>1, <2>2, <3>1, <4>1, <4>3, ScatterRanges
        <5>2. ctx'[g][t].off = ctx[g][t].off
          BY <1>6, <4>3
        <5> QED BY <2>5, <4>1, <5>1, <5>2
      <4> QED BY <4>2, <4>3
    <3>2. ASSUME NEW g \in Heads
          PROVE  pos'[g] \in RunStart(g) .. RunEnd(g)
      BY <1>2, <2>1 DEF Ranges
    <3>3. ASSUME NEW g \in Heads, NEW t \in Segments
          PROVE  /\ ctx'[g][t].end = From(g + 1, t)
                 /\ ctx'[g][t].off >= From(g, t)
      BY <1>6, <1>8
    <3> QED BY <1>7, <3>1, <3>2, <3>3 DEF Ranges
  <2>8. Pending'
    <3>1. ASSUME NEW g \in Heads, slot'[g] # Empty
          PROVE  /\ pos[g] < RunEnd(g)
                 /\ slot'[g] \in SlotsOf(ids[pos[g]])
                 /\ shadow[slot'[g]] = Empty
                 /\ \A f \in Heads \ {g} : slot'[f] # slot'[g]
      <4>1. CASE g = h
        BY <1>1, <2>2, <2>3, <2>4, <4>1, <1>s
      <4>2. CASE g # h
        <5>1. slot'[g] = slot[g] /\ slot[g] # o
          BY <2>3, <2>4, <4>2
        <5> QED BY <1>2, <2>4, <3>1, <5>1 DEF Pending
      <4> QED BY <4>1, <4>2
    <3> QED BY <1>1, <1>7, <2>1, <3>1 DEF Pending
  <2>9. StoredOnce'
    <3>1. \A i : Stored(i)' <=> Stored(i)
      BY <1>7, <2>1 DEF Stored
    <3>2. \A x : Stored(shadow[x])' <=> Stored(shadow[x])
      BY <1>1, <1>7, <2>1 DEF Stored
    <3> QED BY <1>1, <1>2, <1>7, <3>1, <3>2 DEF StoredOnce
  <2>10. Probing'
    <3>1. ASSUME NEW g \in Heads, pos[g] < RunEnd(g), NEW f \in Heads,
                 After(idx[g][ids[pos[g]]], f) <= probed[g]
          PROVE  Full(f, ids[pos[g]])'
      <4>1. pos[g] \in Items /\ ids[pos[g]] \in Segments
        BY <1>1, <3>1, AtHand
      <4>2. Full(f, ids[pos[g]])
        BY <1>2, <3>1 DEF Probing
      <4>t. PICK t \in Segments : t = ids[pos[g]]
        BY <4>1
      <4>3. Full(f, t)'
        BY <1>8, <4>2, <4>t
      <4>4. t = ids'[pos'[g]]
        BY <1>1, <2>1, <4>t
      <4> QED BY <4>3, <4>4 DEF Full
    <3> QED BY <1>1, <1>7, <2>1, <3>1 DEF Probing
  <2> QED BY <2>6, <2>7, <2>8, <2>9, <2>10, <1>1 DEF Scattering
<1>10. ASSUME ~ HasRoom(range)
       PROVE  TypeOK' /\ Scattering'
  <2>1. /\ ~ (o < ctx[k][s].end)
        /\ idx' = [idx EXCEPT ![h][s] = NextHead(k)]
        /\ probed' = [probed EXCEPT
                        ![h] = IF LastProbe(probed[h]) THEN 0 ELSE @ + 1]
        /\ pos' = [pos EXCEPT ![h] = IF LastProbe(probed[h]) THEN @ + 1 ELSE @]
        /\ slot' = slot
    BY <1>5, <1>10, <1>r, <1>o DEF HasRoom
  <2>2. Full(k, s)
    BY <1>8, <2>1, <1>r, <1>o DEF Full
  <2>3. ASSUME NEW g \in Heads, g # k, After(k, g) <= probed[h]
        PROVE  Full(g, s)
    BY <1>1, <1>2, <2>3, <1>s, <1>k DEF Probing
  <2>4. ~ LastProbe(probed[h])
    <3> SUFFICES ASSUME LastProbe(probed[h])
                 PROVE  FALSE
      OBVIOUS
    <3>1. ASSUME NEW g \in Heads
          PROVE  Full(g, s)
      <4>1. CASE g = k
        BY <2>2, <4>1
      <4>2. CASE g # k
        <5>1. After(k, g) \in 1 .. heads /\ After(k, g) < heads
          BY <1>2, <4>2, AfterTypes
        <5>2. probed[h] \in 0 .. heads - 1 /\ probed[h] + 1 = heads
          BY <1>2 DEF LastProbe
        <5>3. After(k, g) <= probed[h]
          BY <1>2, <5>1, <5>2
        <5> QED BY <2>3, <4>2, <5>3
      <4> QED BY <4>1, <4>2
    <3> QED BY <1>1, <3>1, <1>s, RoomLeft
  <2>5. /\ pos' = pos
        /\ probed'[h] = probed[h] + 1 /\ probed'[h] \in 0 .. heads - 1
        /\ \A g \in Heads : g # h => probed'[g] = probed[g] /\ idx'[g] = idx[g]
        /\ idx'[h][s] = NextHead(k) /\ NextHead(k) \in Heads
    <3>1. pos' = pos
      BY <1>3, <2>1, <2>4
    <3>2. probed'[h] = probed[h] + 1
      BY <1>3, <2>1, <2>4
    <3>3. probed'[h] \in 0 .. heads - 1
      BY <1>2, <2>4, <3>2 DEF LastProbe
    <3>4. NextHead(k) \in Heads
      BY <1>2, AfterTypes
    <3> QED BY <1>3, <2>1, <3>1, <3>2, <3>3, <3>4
  <2>6. TypeOK'
    <3>1. /\ probed' \in [Heads -> 0 .. heads - 1]
          /\ idx' \in [Heads -> [Segments -> Heads]]
      BY <1>3, <2>1, <2>4, <2>5
    <3> QED BY <1>1, <1>2, <1>3, <1>6, <1>7, <2>1, <2>5, <3>1, SameInput
            DEF TypeOK
  <2>7. \A x : Claimed(x)' <=> Claimed(x)
    BY <1>1, <1>7, <2>1 DEF Claimed
  <2>8. Ranges'
    <3>1. ASSUME NEW g \in Heads, NEW t \in Segments,
                 NEW x \in From(g, t) .. From(g + 1, t) - 1
          PROVE  x < ctx'[g][t].off <=> Claimed(x)'
      <4>1. /\ x \in Int /\ ctx[g][t].end = From(g + 1, t)
            /\ From(g, t) \in Nat /\ From(g + 1, t) \in Nat
            /\ x < ctx[g][t].off <=> Claimed(x)
        BY <1>8
      <4>2. CASE g = k /\ t = s
        <5>1. ctx'[g][t].off = o + 1 /\ ctx[g][t].off = o
          BY <1>6, <1>r, <1>o, <4>2
        <5>2. x < o /\ x < o + 1
          BY <2>1, <4>1, <4>2
        <5> QED BY <2>7, <4>1, <5>1, <5>2
      <4>3. CASE ~ (g = k /\ t = s)
        <5>1. ctx'[g][t].off = ctx[g][t].off
          BY <1>6, <4>3
        <5> QED BY <2>7, <4>1, <5>1
      <4> QED BY <4>2, <4>3
    <3>2. ASSUME NEW g \in Heads
          PROVE  pos'[g] \in RunStart(g) .. RunEnd(g)
      BY <1>2, <2>5 DEF Ranges
    <3>3. ASSUME NEW g \in Heads, NEW t \in Segments
          PROVE  /\ ctx'[g][t].end = From(g + 1, t)
                 /\ ctx'[g][t].off >= From(g, t)
      BY <1>6, <1>8
    <3> QED BY <1>7, <3>1, <3>2, <3>3 DEF Ranges
  <2>9. Pending'
    BY <1>1, <1>2, <1>7, <2>1, <2>5 DEF Pending
  <2>10. StoredOnce'
    <3>1. \A i : Stored(i)' <=> Stored(i)
      BY <1>7, <2>5 DEF Stored
    <3>2. \A x : Stored(shadow[x])' <=> Stored(shadow[x])
      BY <1>1, <1>7, <2>5 DEF Stored
    <3> QED BY <1>1, <1>2, <1>7, <3>1, <3>2 DEF StoredOnce
  <2>11. Probing'
    <3>1. ASSUME NEW g \in Heads, pos[g] < RunEnd(g), NEW f \in Heads,
                 NEW t \in Segments, t = ids[pos[g]],
                 After(idx'[g][t], f) <= probed'[g]
          PROVE  Full(f, t)'
      <4>1. Full(f, t)
        <5>1. CASE g = h
          <6>1. t = s /\ After(NextHead(k), f) <= probed[h] + 1
            BY <2>5, <3>1, <5>1, <1>s
          <6>2. CASE f = k
            BY <2>2, <6>1, <6>2
          <6>3. CASE f # k
            <7>1. /\ After(NextHead(k), f) = After(k, f) + 1
                  /\ After(k, f) \in 1 .. heads
              BY <1>2, <6>3, AfterTypes
            <7>2. After(k, f) <= probed[h]
              <8>1. probed[h] \in 0 .. heads - 1
                BY <1>2
              <8> QED BY <1>2, <6>1, <7>1, <8>1
            <7> QED BY <2>3, <6>1, <6>3, <7>2
          <6> QED BY <6>2, <6>3
        <5>2. CASE g # h
          <6>1. idx'[g] = idx[g] /\ probed'[g] = probed[g]
            BY <2>5, <5>2
          <6> QED BY <1>2, <3>1, <6>1 DEF Probing
        <5> QED BY <5>1, <5>2
      <4> QED BY <1>8, <4>1
    <3>2. ASSUME NEW g \in Heads, pos'[g] < RunEnd(g)', NEW f \in Heads,
                 After(idx[g][ids[pos[g]]], f)' <= probed'[g]
          PROVE  Full(f, ids[pos[g]])'
      <4>1. pos'[g] = pos[g] /\ pos[g] < RunEnd(g) /\ ids' = ids
        BY <1>1, <1>7, <2>5, <3>2
      <4>2. ids[pos[g]] \in Segments
        BY <1>1, <4>1, AtHand
      <4>t. PICK t \in Segments : t = ids[pos[g]]
        BY <4>2
      <4>3. t = ids'[pos'[g]]
        BY <4>1, <4>t
      <4>4. After(idx'[g][t], f) <= probed'[g]
        BY <1>1, <3>2, <4>3 DEF After
      <4>5. Full(f, t)'
        BY <3>1, <4>1, <4>4, <4>t
      <4> QED BY <4>3, <4>5 DEF Full
    <3> QED BY <1>7, <3>2 DEF Probing
  <2> QED BY <1>1, <2>6, <2>8, <2>9, <2>10, <2>11 DEF Scattering
<1>11. /\ Fresh' /\ WholePath' /\ Known' /\ Sized' /\ Merging'
  BY <1>1, SameInput DEF IInv, Fresh, WholePath, Known, Sized, Merging
<1>12. /\ Reading' /\ LaidOut' /\ OneThread' /\ InPlace' /\ Partitioned'
       /\ StatusExact'
  BY <1>1
  DEF Reading, LaidOut, OneThread, InPlace, Partitioned, StatusExact
<1> QED BY <1>9, <1>10, <1>11, <1>12 DEF IInv

----------------------------------------------------------------------------
(* The pieces.                                                             *)

(* However they were moved, the identifiers are where they belong.         *)
LEMMA StartBuildStep == IInv /\ StartBuild => IInv'
<1> SUFFICES ASSUME IInv, StartBuild
             PROVE  IInv'
  OBVIOUS
<1> USE DEF readVars, layVars, scatterVars, arrayVars
<1>1. /\ input' = input /\ phase' = "build" /\ loop' = 0
      /\ phase \in {"single", "inplace", "scatter"}
      /\ UNCHANGED <<status, ids, next, temp, added, stopped, fail, shuffle,
                     size, heads, offset, border, hand, shadow, part>>
  BY DEF StartBuild
<1>2. /\ IsInput(input) /\ TypeOK /\ N \in Nat \ {0} /\ Total \in Nat \ {0}
      /\ shadow \in [Items -> Items \union {Empty}]
      /\ \A s \in Segments : size[s] = Cardinality(OfSegment(s))
  BY <1>1, InputTypes DEF IInv, TypeOK, Sized
<1>3. ASSUME NEW s \in Segments
      PROVE  /\ IsFiniteSet(OfSegment(s)) /\ IsFiniteSet(SlotsOf(s))
             /\ Cardinality(SlotsOf(s)) = Cardinality(OfSegment(s))
             /\ SlotsOf(s) = First(s) .. First(s + 1) - 1
             /\ First(s + 1) = First(s) + Cardinality(OfSegment(s))
             /\ SlotsOf(s) \subseteq Items
  BY <1>2, Layout
<1>4. ASSUME phase = "single"
      PROVE  \A s \in Segments :
               /\ \A x \in SlotsOf(s) : shadow[x] \in OfSegment(s)
               /\ \A i \in OfSegment(s) : \E x \in SlotsOf(s) : shadow[x] = i
  <2>1. loop = Total
    BY <1>4 DEF StartBuild
  <2>2. ASSUME NEW s \in Segments
        PROVE  /\ \A x \in SlotsOf(s) : shadow[x] \in OfSegment(s)
               /\ \A i \in OfSegment(s) : \E x \in SlotsOf(s) : shadow[x] = i
    <3>1. StoredOf(s) = OfSegment(s)
      <4>1. \A i \in Items : i < Total
        BY <1>2 DEF Items
      <4> QED BY <2>1, <4>1 DEF StoredOf, OfSegment
    <3>2. /\ shuffle[s] = First(s) + Cardinality(OfSegment(s))
          /\ \A x \in First(s) .. shuffle[s] - 1 : shadow[x] \in OfSegment(s)
          /\ \A i \in OfSegment(s) :
               \E x \in First(s) .. shuffle[s] - 1 : shadow[x] = i
      BY <1>4, <3>1 DEF IInv, OneThread
    <3>3. SlotsOf(s) = First(s) .. shuffle[s] - 1
      BY <1>3, <3>2
    <3> QED BY <3>2, <3>3
  <2> QED BY <2>2
<1>5. ASSUME phase = "inplace"
      PROVE  \A s \in Segments :
               /\ \A x \in SlotsOf(s) : shadow[x] \in OfSegment(s)
               /\ \A i \in OfSegment(s) : \E x \in SlotsOf(s) : shadow[x] = i
  <2>1. loop = N
    BY <1>5 DEF StartBuild
  <2>2. hand = Empty
    BY <1>2, <1>5, <2>1, InPlaceFacts
  <2>3. \A x, y \in Items : shadow[x] = shadow[y] => x = y
    BY <1>5, <2>2, InPlaceFacts DEF Held
  <2>4. ASSUME NEW s \in Segments
        PROVE  /\ \A x \in SlotsOf(s) : shadow[x] \in OfSegment(s)
               /\ \A i \in OfSegment(s) : \E x \in SlotsOf(s) : shadow[x] = i
    <3>1. s < loop
      BY <1>2, <2>1 DEF Segments
    <3>2. /\ shuffle[s] = border[s]
          /\ SlotsOf(s) = First(s) .. border[s] - 1
          /\ \A x \in First(s) .. shuffle[s] - 1 : SegmentAt(x) = s
      BY <1>5, <3>1, InPlaceFacts
    <3>3. ASSUME NEW x \in SlotsOf(s)
          PROVE  shadow[x] \in OfSegment(s)
      <4>1. ids[shadow[x]] = s
        BY <3>2 DEF SegmentAt
      <4>2. shadow[x] \in Items
        BY <1>3, <1>5, InPlaceFacts
      <4>3. input.keys[shadow[x]] = s
        BY <1>5, <4>1, <4>2, InPlaceFacts
      <4> QED BY <4>2, <4>3 DEF OfSegment
    <3>4. \A x, y \in SlotsOf(s) : shadow[x] = shadow[y] => x = y
      BY <1>3, <2>3
    <3>5. \A i \in OfSegment(s) : \E x \in SlotsOf(s) : shadow[x] = i
      <4>1. /\ IsFiniteSet(OfSegment(s))
            /\ Cardinality(SlotsOf(s)) = Cardinality(OfSegment(s))
            /\ \A x \in SlotsOf(s) : shadow[x] \in OfSegment(s)
        BY <1>3, <3>3
      <4> QED BY <3>4, <4>1, NoPlaceFree
    <3> QED BY <3>3, <3>5
  <2> QED BY <2>4
<1>6. ASSUME phase = "scatter"
      PROVE  \A s \in Segments :
               /\ \A x \in SlotsOf(s) : shadow[x] \in OfSegment(s)
               /\ \A i \in OfSegment(s) : \E x \in SlotsOf(s) : shadow[x] = i
  <2>1. \A h \in Heads : pos[h] = RunEnd(h)
    BY <1>6 DEF StartBuild
  <2>2. \A i \in Items : Stored(i)
    <3>1. ASSUME NEW i \in Items
          PROVE  \E h \in Heads : RunStart(h) <= i /\ i < RunEnd(h)
      <4>1. heads \in Nat \ {0} /\ Heads = 0 .. heads - 1
        BY <1>6, ScatterFacts
      <4>2. i \in 0 .. Total - 1
        BY DEF Items
      <4> QED BY <1>2, <4>1, <4>2, CutParts DEF RunStart, RunEnd
    <3> QED BY <2>1, <3>1 DEF Stored
  <2>3. ASSUME NEW s \in Segments
        PROVE  /\ \A x \in SlotsOf(s) : shadow[x] \in OfSegment(s)
               /\ \A i \in OfSegment(s) : \E x \in SlotsOf(s) : shadow[x] = i
    <3>1. \A i \in OfSegment(s) : \E x \in SlotsOf(s) : shadow[x] = i
      <4>1. ASSUME NEW i \in OfSegment(s)
            PROVE  \E x \in SlotsOf(s) : shadow[x] = i
        <5>1. i \in Items /\ input.keys[i] = s
          BY DEF OfSegment
        <5>2. StoredOnce
          BY <1>6, ScatterFacts
        <5>3. \E x \in SlotsOf(input.keys[i]) : shadow[x] = i
          BY <2>2, <5>1, <5>2, Zenon DEF StoredOnce
        <5> QED BY <5>1, <5>3, Zenon
      <4> QED BY <4>1
    <3> DEFINE m == [i \in OfSegment(s) |->
                       CHOOSE x \in SlotsOf(s) : shadow[x] = i]
    <3>2. \A i \in OfSegment(s) : m[i] \in SlotsOf(s) /\ shadow[m[i]] = i
      BY <3>1
    <3> HIDE DEF m
    <3>3. \A x \in SlotsOf(s) : \E i \in OfSegment(s) : m[i] = x
      <4>1. \A i, j \in OfSegment(s) : m[i] = m[j] => i = j
        BY <3>2
      <4>2. /\ IsFiniteSet(SlotsOf(s))
            /\ Cardinality(OfSegment(s)) = Cardinality(SlotsOf(s))
        BY <1>3
      <4>3. \A i \in OfSegment(s) : m[i] \in SlotsOf(s)
        BY <3>2
      <4> QED BY <4>1, <4>2, <4>3, NoPlaceFree
    <3> QED BY <3>1, <3>2, <3>3
  <2> QED BY <2>3
<1>7. Partitioned'
  BY <1>1, <1>2, <1>4, <1>5, <1>6, SameInput DEF Partitioned
<1>8. TypeOK'
  BY <1>1, <1>2, SameInput DEF TypeOK
<1>9. /\ Fresh' /\ WholePath' /\ Known' /\ Sized' /\ Merging'
  BY <1>1, SameInput DEF IInv, Fresh, WholePath, Known, Sized, Merging
<1>10. /\ Reading' /\ LaidOut' /\ OneThread' /\ InPlace' /\ Scattering'
       /\ StatusExact'
  BY <1>1
  DEF Reading, LaidOut, OneThread, InPlace, Scattering, StatusExact
<1> QED BY <1>7, <1>8, <1>9, <1>10 DEF IInv

LEMMA BuildPieceStep ==
  ASSUME IInv, NEW s \in Segments, BuildPiece(s)
  PROVE  IInv'
<1> USE DEF readVars, layVars, scatterVars, arrayVars
<1>1. /\ input' = input /\ phase = "build" /\ phase' = "build"
      /\ UNCHANGED <<status, ids, next, temp, added, stopped, fail, shuffle,
                     size, loop, heads, offset, border, hand, shadow>>
  BY DEF BuildPiece
<1>2. TypeOK'
  <2>1. part' \in [Segments -> PieceStatus \union {"running"}]
    BY DEF IInv, TypeOK, BuildPiece
  <2> QED BY <1>1, <2>1, SameInput DEF IInv, TypeOK
<1>3. /\ Fresh' /\ WholePath' /\ Known' /\ Sized' /\ Merging' /\ Partitioned'
  BY <1>1, SameInput
  DEF IInv, Fresh, WholePath, Known, Sized, Merging, Partitioned
<1>4. /\ Reading' /\ LaidOut' /\ OneThread' /\ InPlace' /\ Scattering'
      /\ StatusExact'
  BY <1>1
  DEF Reading, LaidOut, OneThread, InPlace, Scattering, StatusExact
<1> QED BY <1>2, <1>3, <1>4 DEF IInv

LEMMA JoinPiecesStep == IInv /\ JoinPieces => IInv'
<1> SUFFICES ASSUME IInv, JoinPieces
             PROVE  IInv'
  OBVIOUS
<1> USE DEF readVars, layVars, scatterVars, arrayVars
<1>1. /\ input' = input /\ phase = "build" /\ phase' = "merge"
      /\ status' = "OK" /\ loop' = 0
      /\ \A s \in Segments : part[s] # "running"
      /\ UNCHANGED <<ids, next, temp, added, stopped, fail, shuffle,
                     size, heads, offset, border, hand, shadow, part>>
  BY DEF JoinPieces
<1>2. IsInput(input) /\ N \in Nat \ {0}
  BY InputTypes DEF IInv, TypeOK
<1>3. TypeOK'
  BY <1>1, SameInput DEF IInv, TypeOK, PieceStatus
<1>4. Merging'
  <2>1. 0 \in 0 .. N /\ \A s : ~ (s \in 0 .. 0 - 1)
    BY <1>2
  <2>2. status' \in PieceStatus /\ status' # "CONFLICT"
    BY <1>1 DEF PieceStatus
  <2> QED BY <1>1, <2>1, <2>2, SameInput DEF Merging
<1>5. /\ Fresh' /\ WholePath' /\ Known' /\ Sized' /\ Partitioned'
  BY <1>1, SameInput DEF IInv, Fresh, WholePath, Known, Sized, Partitioned
<1>6. /\ Reading' /\ LaidOut' /\ OneThread' /\ InPlace' /\ Scattering'
      /\ StatusExact'
  BY <1>1
  DEF Reading, LaidOut, OneThread, InPlace, Scattering, StatusExact
<1> QED BY <1>3, <1>4, <1>5, <1>6 DEF IInv

LEMMA MergePartStep == IInv /\ MergePart => IInv'
<1> SUFFICES ASSUME IInv, MergePart
             PROVE  IInv'
  OBVIOUS
<1> USE DEF readVars, layVars, scatterVars, arrayVars
<1>1. /\ input' = input /\ phase = "merge" /\ phase' = "merge"
      /\ loop < N /\ loop' = loop + 1
      /\ status' = Worse(status, part[loop])
      /\ UNCHANGED <<ids, next, temp, added, stopped, fail, shuffle,
                     size, heads, offset, border, hand, shadow, part>>
  BY DEF MergePart
<1>2. /\ loop \in 0 .. N /\ status \in PieceStatus
      /\ \A s \in Segments : part[s] # "running"
      /\ status = "CONFLICT" <=> \E s \in 0 .. loop - 1 : part[s] = "CONFLICT"
      /\ status = "OK" <=> \A s \in 0 .. loop - 1 : part[s] = "OK"
      /\ N \in Nat \ {0}
      /\ part \in [Segments -> PieceStatus \union {"running"}]
  BY <1>1, InputTypes DEF IInv, Merging, TypeOK
<1>3. /\ loop \in Segments /\ loop + 1 \in 0 .. N
      /\ \A s : s \in 0 .. (loop + 1) - 1 <=> s \in 0 .. loop - 1 \/ s = loop
  BY <1>1, <1>2 DEF Segments
<1>4. part[loop] \in PieceStatus
  BY <1>2, <1>3
<1>5. /\ status' \in PieceStatus
      /\ status' = "CONFLICT" <=> status = "CONFLICT" \/ part[loop] = "CONFLICT"
      /\ status' = "OK" <=> status = "OK" /\ part[loop] = "OK"
  <2>1. CASE part[loop] = "CONFLICT"
    BY <1>1, <2>1 DEF Worse, PieceStatus
  <2>2. CASE part[loop] = "OUT_OF_CHANCE"
    BY <1>1, <1>2, <2>2 DEF Worse, PieceStatus
  <2>3. CASE part[loop] = "OK"
    BY <1>1, <1>2, <2>3 DEF Worse, PieceStatus
  <2> QED BY <1>4, <2>1, <2>2, <2>3 DEF PieceStatus
<1>6. TypeOK'
  <2>1. loop' \in Nat
    BY <1>1, <1>2, <1>3
  <2> QED BY <1>1, <1>5, <2>1, SameInput DEF IInv, TypeOK
<1>7. Merging'
  <2>1. /\ status' = "CONFLICT" <=>
             \E s \in 0 .. (loop + 1) - 1 : part[s] = "CONFLICT"
        /\ status' = "OK" <=> \A s \in 0 .. (loop + 1) - 1 : part[s] = "OK"
    BY <1>2, <1>3, <1>5
  <2> QED BY <1>1, <1>2, <1>3, <1>5, <2>1, SameInput DEF Merging
<1>8. /\ Fresh' /\ WholePath' /\ Known' /\ Sized' /\ Partitioned'
  BY <1>1, SameInput DEF IInv, Fresh, WholePath, Known, Sized, Partitioned
<1>9. /\ Reading' /\ LaidOut' /\ OneThread' /\ InPlace' /\ Scattering'
      /\ StatusExact'
  BY <1>1
  DEF Reading, LaidOut, OneThread, InPlace, Scattering, StatusExact
<1> QED BY <1>6, <1>7, <1>8, <1>9 DEF IInv

LEMMA ReturnStep == IInv /\ Return => IInv'
<1> SUFFICES ASSUME IInv, Return
             PROVE  IInv'
  OBVIOUS
<1> USE DEF readVars, layVars, scatterVars, arrayVars
<1>1. /\ input' = input /\ phase = "merge" /\ phase' = "done" /\ loop = N
      /\ UNCHANGED <<status, ids, next, temp, added, stopped, fail, shuffle,
                     size, loop, heads, offset, border, hand, shadow, part>>
  BY DEF Return
<1>2. /\ status \in PieceStatus /\ Segments = 0 .. loop - 1
      /\ status = "CONFLICT" <=> \E s \in Segments : part[s] = "CONFLICT"
      /\ status = "OK" <=> \A s \in Segments : part[s] = "OK"
      /\ ~ Whole
      /\ \A i \in Items : input.keys[i] # Bad
      /\ \A s \in Segments : Cardinality(OfSegment(s)) \in 1 .. MaxPiece
  BY <1>1 DEF IInv, Merging, WholePath, Known, Sized, Segments
<1>3. StatusExact'
  <2>1. status # "BAD_INPUT"
    BY <1>2 DEF PieceStatus
  <2>2. {Cardinality(OfSegment(s)) : s \in Segments} \subseteq 1 .. MaxPiece
    BY <1>2
  <2> QED BY <1>1, <1>2, <2>1, <2>2, SameInput DEF StatusExact
<1>4. TypeOK'
  BY <1>1, SameInput DEF IInv, TypeOK
<1>5. /\ Fresh' /\ WholePath' /\ Known' /\ Sized' /\ Merging'
  BY <1>1, SameInput DEF IInv, Fresh, WholePath, Known, Sized, Merging
<1>6. /\ Reading' /\ LaidOut' /\ OneThread' /\ InPlace' /\ Scattering'
      /\ Partitioned'
  BY <1>1
  DEF Reading, LaidOut, OneThread, InPlace, Scattering, Partitioned
<1> QED BY <1>3, <1>4, <1>5, <1>6 DEF IInv

----------------------------------------------------------------------------
(* The invariant, and what follows from it.                                *)

LEMMA StepInv == IInv /\ [Next]_vars => IInv'
<1> SUFFICES ASSUME IInv, [Next]_vars
             PROVE  IInv'
  OBVIOUS
<1>1. CASE UNCHANGED vars
  <2>1. /\ UNCHANGED <<input, phase, status, ids, next, temp, added, stopped,
                       fail, shuffle, size, loop, offset, border, heads,
                       hand, shadow, part>>
        /\ UNCHANGED <<ctx, pos, idx, probed, slot>>
    BY <1>1 DEF vars, readVars, layVars, scatterVars, arrayVars
  <2>2. /\ TypeOK' /\ Fresh' /\ WholePath' /\ Known' /\ Sized' /\ Merging'
        /\ Partitioned' /\ StatusExact' /\ LaidOut'
    <3>1. TypeOK'
      <4>1. Heads' = Heads
        BY <2>1 DEF Heads
      <4> QED BY <2>1, <4>1, SameInput DEF IInv, TypeOK
    <3>2. Fresh' /\ WholePath' /\ Known' /\ Sized' /\ Merging'
      BY <2>1, SameInput
      DEF IInv, Fresh, WholePath, Known, Sized, Merging
    <3>3. Partitioned' /\ StatusExact' /\ LaidOut'
      BY <2>1, SameInput DEF IInv, Partitioned, StatusExact, LaidOut
    <3> QED BY <3>1, <3>2, <3>3
  <2>3. Reading' /\ OneThread'
    <3>1. \A s : /\ AddedOf(s)' = AddedOf(s) /\ StoredOf(s)' = StoredOf(s)
                 /\ \A r : ReadOf(r, s)' = ReadOf(r, s)
      BY <2>1, SameInput DEF AddedOf, ReadOf, StoredOf
    <3> QED BY <2>1, <3>1, SameInput DEF IInv, Reading, OneThread
  <2>4. InPlace'
    <3>1. \A x : Held(x)' = Held(x) /\ SegmentAt(x)' = SegmentAt(x)
      BY <2>1 DEF Held, SegmentAt
    <3> QED BY <2>1, <3>1, SameInput DEF IInv, InPlace
  <2>5. Scattering'
    <3>1. /\ Heads' = Heads
          /\ \A h : RunStart(h)' = RunStart(h) /\ RunEnd(h)' = RunEnd(h)
          /\ \A h, s : From(h, s)' = From(h, s) /\ (Full(h, s)' <=> Full(h, s))
          /\ \A k, g : After(k, g)' = After(k, g)
      BY <2>1, SameInput DEF Heads, RunStart, RunEnd, From, Full, After
    <3>2. /\ \A i : Stored(i)' <=> Stored(i)
          /\ \A x : Claimed(x)' <=> Claimed(x)
          /\ \A x : Stored(shadow[x])' <=> Stored(shadow[x])
      BY <2>1, <3>1 DEF Stored, Claimed
    <3>3. Ranges' <=> Ranges
      BY <2>1, <3>1, <3>2, SameInput DEF Ranges
    <3>4. Pending' <=> Pending
      BY <2>1, <3>1, SameInput DEF Pending
    <3>5. StoredOnce' <=> StoredOnce
      BY <2>1, <3>2, SameInput DEF StoredOnce
    <3>6. Probing' <=> Probing
      <4>1. \A h, g : Full(g, ids[pos[h]])' <=> Full(g, ids[pos[h]])
        BY <2>1 DEF Full
      <4>2. \A h, g : After(idx[h][ids[pos[h]]], g)' =
                        After(idx[h][ids[pos[h]]], g)
        BY <2>1 DEF After
      <4> QED BY <2>1, <3>1, <4>1, <4>2 DEF Probing
    <3> QED BY <2>1, <3>3, <3>4, <3>5, <3>6 DEF IInv, Scattering
  <2> QED BY <2>2, <2>3, <2>4, <2>5 DEF IInv
<1>2. CASE \E r \in Readers : ReaderStep(r)
  BY <1>2, ReadKeyStep, RejectKeyStep, AddCountStep DEF ReaderStep
<1>3. CASE \E h \in Heads : ScatterStep(h)
  BY <1>3, ClaimStep, StoreStep DEF ScatterStep
<1>4. CASE \E s \in Segments : BuildPiece(s)
  BY <1>4, BuildPieceStep
<1>5. CASE MainStep
  <2>1. CASE Start \/ ReadWhole \/ BuildWhole
    BY <2>1, StartStep, ReadWholeStep, BuildWholeStep
  <2>2. CASE StartInPlace \/ NextSegment \/ KeepOrTake \/ Displace
    BY <2>2, StartInPlaceStep, NextSegmentStep, KeepOrTakeStep, DisplaceStep
  <2>3. CASE JoinReaders \/ CheckPieces \/ LayOutPiece
    BY <2>3, JoinReadersStep, CheckPiecesStep, LayOutPieceStep
  <2>4. CASE StartScatter \/ StoreNext
    BY <2>4, StartScatterStep, StoreNextStep
  <2>5. CASE StartBuild \/ JoinPieces \/ MergePart \/ Return
    BY <2>5, StartBuildStep, JoinPiecesStep, MergePartStep, ReturnStep
  <2> QED BY <1>5, <2>1, <2>2, <2>3, <2>4, <2>5 DEF MainStep
<1>6. CASE Terminated
  BY <1>1, <1>6 DEF Terminated
<1> QED BY <1>1, <1>2, <1>3, <1>4, <1>5, <1>6 DEF Next

(* The invariant holds in every reachable state: every property of the     *)
(* build of an index (build.cc:610-816) stated here follows from it.       *)
THEOREM Invariance == Spec => []IInv
<1>1. Init => IInv
  BY InitInv
<1>2. IInv /\ [Next]_vars => IInv'
  BY StepInv
<1> QED BY <1>1, <1>2, PTL DEF Spec

(* The variables keep their types: no scatter thread leaves its run of the *)
(* array or the heads there are, and no slot it claims lies outside the    *)
(* array, for any sizes and any number of heads (build.cc:653-719).        *)
THEOREM PartitionTypeCorrect == Spec => []TypeOK
<1>1. IInv => TypeOK
  BY DEF IInv
<1> QED BY <1>1, Invariance, PTL

(* No two scatter threads ever hold the same slot, and none is claimed     *)
(* again once it is written, in any interleaving of the claims and writes  *)
(* of any number of threads (build.cc:711-717).                            *)
THEOREM SlotHasOneOwner == Spec => []OneOwner
<1>1. IInv => OneOwner
  <2> SUFFICES ASSUME IInv, phase = "scatter", NEW h \in Heads,
                      slot[h] # Empty
               PROVE  /\ slot[h] \in Items /\ shadow[slot[h]] = Empty
                      /\ \A g \in Heads \ {h} : slot[g] # slot[h]
    BY DEF OneOwner
  <2>1. Pending /\ slot[h] \in Items \union {Empty}
    BY ScatterFacts
  <2> QED BY <2>1 DEF Pending
<1> QED BY <1>1, Invariance, PTL

(* Every piece is built from exactly the identifiers of its segment,       *)
(* whichever of the three shuffles moved them, however the reader threads  *)
(* interleave as they add their counts and the scatter threads as they     *)
(* claim slots, and whatever head finds its range full (build.cc:633-720   *)
(* and 784-812).                                                           *)
THEOREM EverySegmentPartitioned == Spec => []Partitioned
<1>1. IInv => Partitioned
  BY DEF IInv
<1> QED BY <1>1, Invariance, PTL

(* The status returned tells the caller exactly what happened: bad input   *)
(* if and only if there is a bad key or a piece that cannot be built, and  *)
(* the worst of the pieces otherwise, in whatever order their threads end  *)
(* (build.cc:610-630 and 747-816).                                         *)
THEOREM StatusIsExact == Spec => []StatusExact
<1>1. IInv => StatusExact
  BY DEF IInv
<1> QED BY <1>1, Invariance, PTL

============================================================================
