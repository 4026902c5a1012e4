--------------------------- MODULE RebuildProofs ---------------------------
(***************************************************************************)
(* Proofs about module Rebuild, for every choice of its constants: that    *)
(* the threads which mark the bitmap refuse exactly the patches that       *)
(* cannot be used, that the counts of the shards are exact, and that every *)
(* pass over the readers delivers each key once and in the same order.     *)
(***************************************************************************)
EXTENDS Rebuild, FiniteSetTheorems, FunctionTheorems, SequenceTheorems,
        WellFoundedInduction, TLAPS

----------------------------------------------------------------------------
(* The inductive invariant.                                                *)

Lines == 0 .. input.item - 1
Shard(j) == Begin(j) .. End(j) - 1

Typed ==
  /\ TypeOK
  /\ read \in [Readers -> Nat] /\ at \in [Readers -> Nat]
  /\ byte \in [Readers -> SUBSET Int]
  /\ temp \in [Readers -> [Readers -> 0 .. input.item]]
  /\ subbed \in [Readers -> Nat]
  /\ pos \in [Readers -> Nat] /\ taken \in [Readers -> Nat]
  /\ out \in Seq([key : Int, from : {"base", "patch"}])
  /\ pass \in Nat /\ reader \in Nat

(* Where derive is: it goes on only with what it can use.                  *)
Stages ==
  /\ phase \in {"prepare", "mark"} =>
       /\ status = "running" /\ pass = 0 /\ reader = 0 /\ out = <<>>
       /\ \A r \in Readers : taken[r] = 0
  /\ phase # "done" => pass < Passes
  /\ phase = "prepare" => stopped = {} /\ \A r \in Readers : subbed[r] = 0
  /\ phase \in {"mark", "read"} => ~ Refused
  /\ stopped # {} => Unusable
  /\ phase = "read" => /\ status = "running" /\ ~ Unusable /\ stopped = {}
                       /\ \A r \in Readers : subbed[r] = N
  /\ phase = "done" => (status = "BAD_INPUT" <=> Unusable)

(* The lines of the base whose keys a thread has dealt with.               *)
MarkedBy(r) == {x \in Lines : \E i \in 1 .. at[r] : Patch(r)[i] = x}

Dealt(a) == a[2] <= at[a[1]]

(* The bits set are those of the lines marked, each by one key; and a byte *)
(* that was loaded has the bit of the key in hand clear.                   *)
Marks ==
  /\ \A x : x \in dirty <=> \E r \in Readers : x \in MarkedBy(r)
  /\ \A a, b \in AllKeys :
       Dealt(a) /\ Dealt(b) /\ a # b /\ KeyAt(a) = KeyAt(b)
       => KeyAt(a) >= input.item
  /\ \A r \in Readers : \A i \in 1 .. read[r] : Patch(r)[i] # Bad
  /\ \A r \in Readers :
       byte[r] # NoByte => /\ at[r] < read[r] /\ Key(r) \in Lines
                           /\ Key(r) \notin byte[r]

(* The lines of a shard that have been taken off its count.                *)
TakenOff(j) == {x \in Shard(j) : \E r \in Readers : subbed[r] > j
                                                    /\ x \in MarkedBy(r)}

(* What the threads count.                                                 *)
Counts ==
  /\ \A r, j \in Readers : temp[r][j] = Cardinality(MarkedBy(r) \cap Shard(j))
  /\ \A r \in Readers : subbed[r] > 0 => at[r] = Len(Patch(r))
  /\ phase \in {"mark", "read"} =>
       \A j \in Readers : valid[j] = Cardinality(Shard(j) \ TakenOff(j))

CleanLines == Lines \ dirty
SentLines ==
  {x \in CleanLines : \E r \in Readers : x \in Begin(r) .. pos[r] - 1}
SentKeys == {a \in AllKeys : a[2] <= taken[a[1]]}

(* Readers before the current one have delivered all, those after it       *)
(* nothing, and a reader delivers its shard before its keys.               *)
Turns ==
  phase = "read" =>
    \A r \in Readers :
      /\ r < reader => Clean(r) = {} /\ taken[r] = Len(Patch(r))
      /\ r > reader => pos[r] = Begin(r) /\ taken[r] = 0
      /\ taken[r] > 0 => Clean(r) = {}

(* The place in a pass of a clean line, and of a key of the patch.         *)
KeysBefore(x) == {b \in AllKeys : End(b[1]) <= x}
LinesUpTo(x) == {y \in CleanLines : y <= x}
LineIndex(x) == Cardinality(LinesUpTo(x)) + Cardinality(KeysBefore(x))

KeysUpTo(a) == {b \in AllKeys : b[1] < a[1] \/ (b[1] = a[1] /\ b[2] <= a[2])}
LinesBefore(a) == {y \in CleanLines : y < End(a[1])}
KeyIndex(a) == Cardinality(LinesBefore(a)) + Cardinality(KeysUpTo(a))

(* What a pass that has delivered lines S and keys T has put out.          *)
Holds(s, S, T) ==
  /\ s \in Seq([key : Int, from : {"base", "patch"}])
  /\ Len(s) = Cardinality(S) + Cardinality(T)
  /\ \A x \in S : /\ LineIndex(x) \in 1 .. Len(s)
                  /\ s[LineIndex(x)] = [key |-> x, from |-> "base"]
  /\ \A a \in T : /\ KeyIndex(a) \in 1 .. Len(s)
                  /\ s[KeyIndex(a)] = [key |-> KeyAt(a), from |-> "patch"]
  /\ \A n \in 1 .. Len(s) : \/ \E x \in S : n = LineIndex(x)
                            \/ \E a \in T : n = KeyIndex(a)
  /\ \A a, b \in T : KeyIndex(a) = KeyIndex(b) => a = b

Order ==
  phase = "read" => /\ Holds(out, SentLines, SentKeys)
                    /\ pass > 0 => Holds(first, CleanLines, AllKeys)

IInv == Typed /\ Stages /\ Marks /\ Counts /\ Turns /\ Order

----------------------------------------------------------------------------
(* Numbers.                                                                *)

(* A set of natural numbers that is not empty has a least element.         *)
LEMMA Least ==
  ASSUME NEW T \in SUBSET Nat, T # {}
  PROVE  \E m \in T : \A k \in T : m <= k
<1> DEFINE R == OpToRel(<, Nat)
<1>1. IsWellFoundedOn(R, Nat)
  BY NatLessThanWellFounded
<1>2. \A k, m \in Nat : <<k, m>> \in R <=> k < m
  BY DEF OpToRel
<1> HIDE DEF R
<1>3. PICK m \in T : \A k \in T : ~ (<<k, m>> \in R)
  BY <1>1, WFMin
<1>4. ASSUME NEW k \in T
      PROVE  m <= k
  <2>1. k \in Nat /\ m \in Nat /\ ~ (<<k, m>> \in R)
    BY <1>3, <1>4
  <2>2. ~ (k < m)
    BY <1>2, <2>1
  <2> QED BY <2>1, <2>2
<1> QED BY <1>4

(* What an input is made of.                                               *)
LEMMA InputTypes ==
  ASSUME input \in Inputs
  PROVE  /\ input.item \in Nat \ {0} /\ N \in Nat
         /\ input.patch \in Seq(Seq(Nat \union {Bad}))
         /\ \A r \in Readers :
              /\ Patch(r) \in Seq(Nat \union {Bad}) /\ Len(Patch(r)) \in Nat
              /\ \A i \in 1 .. Len(Patch(r)) : Patch(r)[i] \in Nat \union {Bad}
         /\ {Window, ByteBits, Passes, MaxReaders} \subseteq Nat \ {0}
<1>1. IsInput(input)
  BY InputAssumption
<1>2. /\ input.item \in Nat \ {0}
      /\ input.patch \in Seq(Seq(Nat \union {Bad}))
  BY <1>1 DEF IsInput
<1>3. N \in Nat
  BY <1>2, LenProperties DEF N
<1>4. ASSUME NEW r \in Readers
      PROVE  /\ Patch(r) \in Seq(Nat \union {Bad}) /\ Len(Patch(r)) \in Nat
             /\ \A i \in 1 .. Len(Patch(r)) : Patch(r)[i] \in Nat \union {Bad}
  <2>1. r + 1 \in 1 .. Len(input.patch)
    BY <1>3 DEF Readers, N
  <2>2. Patch(r) \in Seq(Nat \union {Bad})
    BY <1>2, <2>1, ElementOfSeq DEF Patch
  <2>3. Len(Patch(r)) \in Nat
    BY <2>2, LenProperties
  <2> QED BY <2>2, <2>3, ElementOfSeq
<1> QED BY <1>2, <1>3, <1>4, ParamAssumption

(* The shards follow each other and cover the base.                        *)
LEMMA Borders ==
  ASSUME input \in Inputs, N # 0
  PROVE  /\ N \in Nat \ {0} /\ Readers = 0 .. N - 1
         /\ Begin(0) = 0 /\ Begin(N) = input.item
         /\ \A j \in 0 .. N : Begin(j) \in 0 .. input.item
         /\ \A i, j \in 0 .. N : i <= j => Begin(i) <= Begin(j)
         /\ \A j \in Readers : j + 1 \in 0 .. N /\ End(j) = Begin(j + 1)
<1> DEFINE q == input.item \div N
           m == input.item % N
<1>1. /\ N \in Nat \ {0} /\ input.item \in Nat
      /\ Readers = 0 .. N - 1
  BY InputTypes DEF Readers
<1>2. /\ q \in Nat /\ m \in 0 .. N - 1
      /\ input.item = (N * q) + m
  BY <1>1, SMT
<1> HIDE DEF q, m
<1>3. \A i \in 0 .. N : Begin(i) = i * q + (IF i < m THEN i ELSE m)
  BY DEF Begin, q, m
<1>4. ASSUME NEW i \in 0 .. N, NEW j \in 0 .. N, i <= j
      PROVE  i * q <= j * q /\ i * q \in Nat /\ j * q \in Nat
  BY <1>1, <1>2, <1>4
<1>5. Begin(0) = 0
  <2>1. 0 * q = 0
    BY <1>2
  <2> QED BY <1>1, <1>2, <1>3, <2>1
<1>6. Begin(N) = input.item
  BY <1>1, <1>2, <1>3
<1>7. ASSUME NEW i \in 0 .. N, NEW j \in 0 .. N, i <= j
      PROVE  Begin(i) <= Begin(j) /\ Begin(i) \in Nat
  <2>1. /\ i \in Nat /\ j \in Nat /\ i * q \in Nat /\ j * q \in Nat
        /\ i * q <= j * q /\ m \in Nat
    BY <1>1, <1>2, <1>4, <1>7
  <2>2. /\ Begin(i) = i * q + (IF i < m THEN i ELSE m)
        /\ Begin(j) = j * q + (IF j < m THEN j ELSE m)
    BY <1>3
  <2> DEFINE a == i * q
             b == j * q
  <2>3. a \in Nat /\ b \in Nat /\ a <= b
    BY <2>1
  <2>4. /\ Begin(i) = a + (IF i < m THEN i ELSE m)
        /\ Begin(j) = b + (IF j < m THEN j ELSE m)
    BY <2>2
  <2> HIDE DEF a, b
  <2> QED BY <1>7, <2>1, <2>3, <2>4
<1>8. ASSUME NEW j \in 0 .. N
      PROVE  Begin(j) \in 0 .. input.item
  <2>1. N \in 0 .. N /\ j <= N
    BY <1>1
  <2> QED BY <1>1, <1>6, <1>7, <2>1
<1>9. \A j \in Readers : j + 1 \in 0 .. N /\ End(j) = Begin(j + 1)
  BY <1>1 DEF End
<1> QED BY <1>1, <1>5, <1>6, <1>7, <1>8, <1>9

(* A line is in one shard.                                                 *)
LEMMA InOneShard ==
  ASSUME input \in Inputs, N # 0, NEW r \in Readers, NEW x \in Shard(r)
  PROVE  /\ x \in Lines
         /\ \A q \in Readers : /\ q < r => End(q) <= x
                               /\ q > r => x < Begin(q)
                               /\ q >= r => x < End(q)
                               /\ x \in Shard(q) => q = r
<1>1. /\ N \in Nat \ {0} /\ Readers = 0 .. N - 1 /\ input.item \in Nat
      /\ \A j \in 0 .. N : Begin(j) \in 0 .. input.item
      /\ \A i, j \in 0 .. N : i <= j => Begin(i) <= Begin(j)
      /\ \A j \in Readers : j + 1 \in 0 .. N /\ End(j) = Begin(j + 1)
  BY Borders, InputTypes
<1>2. /\ Begin(r) \in 0 .. input.item /\ Begin(r + 1) \in 0 .. input.item
      /\ End(r) = Begin(r + 1) /\ r \in 0 .. N /\ r + 1 \in 0 .. N
  BY <1>1
<1>3. x \in Int /\ Begin(r) <= x /\ x < Begin(r + 1)
  BY <1>2 DEF Shard
<1>4. x \in Lines
  BY <1>1, <1>2, <1>3 DEF Lines
<1>5. ASSUME NEW q \in Readers
      PROVE  /\ q < r => End(q) <= x
             /\ q > r => x < Begin(q)
             /\ q >= r => x < End(q)
             /\ x \in Shard(q) => q = r
  <2>1. /\ q \in 0 .. N /\ q + 1 \in 0 .. N /\ End(q) = Begin(q + 1)
        /\ Begin(q) \in 0 .. input.item /\ Begin(q + 1) \in 0 .. input.item
    BY <1>1
  <2>2. q < r => Begin(q + 1) <= Begin(r)
    <3>1. q < r => q + 1 <= r
      BY <1>2, <2>1
    <3> QED BY <1>1, <1>2, <2>1, <3>1
  <2>3. q > r => Begin(r + 1) <= Begin(q)
    <3>1. q > r => r + 1 <= q
      BY <1>2, <2>1
    <3> QED BY <1>1, <1>2, <2>1, <3>1
  <2>4. q >= r => Begin(r + 1) <= Begin(q + 1)
    <3>1. q >= r => r + 1 <= q + 1
      BY <1>2, <2>1
    <3> QED BY <1>1, <1>2, <2>1, <3>1
  <2>5. x \in Shard(q) => Begin(q) <= x /\ x < Begin(q + 1)
    BY <2>1 DEF Shard
  <2> QED BY <1>2, <1>3, <2>1, <2>2, <2>3, <2>4, <2>5
<1> QED BY <1>4, <1>5

(* Every line of the base is in some shard.                                *)
LEMMA Cover ==
  ASSUME input \in Inputs, N # 0, NEW x \in Lines
  PROVE  \E r \in Readers : x \in Shard(r)
<1>1. /\ N \in Nat \ {0} /\ Readers = 0 .. N - 1 /\ input.item \in Nat
      /\ Begin(0) = 0 /\ Begin(N) = input.item
      /\ \A j \in 0 .. N : Begin(j) \in 0 .. input.item
      /\ \A j \in Readers : j + 1 \in 0 .. N /\ End(j) = Begin(j + 1)
  BY Borders, InputTypes
<1>2. x \in Nat /\ x < input.item
  BY <1>1 DEF Lines
<1> DEFINE T == {r \in 0 .. N : x < Begin(r)}
<1>3. N \in T /\ T \in SUBSET Nat
  BY <1>1, <1>2
<1>4. PICK m \in T : \A k \in T : m <= k
  BY <1>3, Least
<1>5. m \in 0 .. N /\ m # 0 /\ x < Begin(m)
  BY <1>1, <1>2, <1>4
<1>6. m - 1 \in 0 .. N - 1 /\ m - 1 \in 0 .. N /\ (m - 1) + 1 = m
  BY <1>1, <1>5
<1>7. ~ (m - 1 \in T)
  BY <1>4, <1>5, <1>6
<1>8. Begin(m - 1) <= x /\ End(m - 1) = Begin(m)
  BY <1>1, <1>2, <1>6, <1>7
<1>9. x \in Shard(m - 1)
  BY <1>1, <1>2, <1>5, <1>6, <1>8 DEF Shard
<1> QED BY <1>1, <1>6, <1>9

(* The step of the binary search of ShardOf.                               *)
Searched(p, g) ==
  [w \in (0 .. N) \X (0 .. N) |->
     LET a == w[1]
         b == w[2]
         m == (a + b) \div 2
     IN  IF a >= b THEN a
         ELSE IF BeforeEnd(p, m) THEN g[<<a, m>>]
         ELSE g[<<m + 1, b>>]]

(* What it finds between a and b: the first shard that ends after p, or b. *)
Found(p, a, b, k) ==
  /\ k \in a .. b
  /\ \A j \in a .. k - 1 : ~ BeforeEnd(p, j)
  /\ k < b => BeforeEnd(p, k)

LEMMA FoundOne ==
  ASSUME NEW p, NEW a \in Nat, NEW b \in Nat, a <= b
  PROVE  /\ \E k : Found(p, a, b, k)
         /\ \A k, l : Found(p, a, b, k) /\ Found(p, a, b, l) => k = l
<1> DEFINE T == {k \in a .. b : k = b \/ BeforeEnd(p, k)}
<1>1. b \in T /\ T \in SUBSET Nat
  OBVIOUS
<1>2. PICK m \in T : \A k \in T : m <= k
  BY <1>1, Least
<1>3. ASSUME NEW j \in a .. m - 1
      PROVE  ~ BeforeEnd(p, j)
  <2>1. j \in a .. b /\ j < m
    BY <1>2
  <2>2. ~ (j \in T)
    BY <1>2, <2>1
  <2> QED BY <2>1, <2>2
<1>4. Found(p, a, b, m)
  BY <1>2, <1>3 DEF Found
<1>5. ASSUME NEW k, NEW l, Found(p, a, b, k), Found(p, a, b, l)
      PROVE  ~ (k < l)
  <2>1. k \in a .. b /\ l \in a .. b
    BY <1>5 DEF Found
  <2>2. k < l => k < b /\ k \in a .. l - 1
    BY <2>1
  <2>3. k < b => BeforeEnd(p, k)
    BY <1>5 DEF Found
  <2>4. k \in a .. l - 1 => ~ BeforeEnd(p, k)
    BY <1>5 DEF Found
  <2> QED BY <2>2, <2>3, <2>4
<1>6. ASSUME NEW k, NEW l, Found(p, a, b, k), Found(p, a, b, l)
      PROVE  k = l
  <2>1. k \in a .. b /\ l \in a .. b
    BY <1>6 DEF Found
  <2>2. ~ (k < l) /\ ~ (l < k)
    BY <1>5, <1>6
  <2> QED BY <2>1, <2>2
<1> QED BY <1>4, <1>6

(* Halving keeps to it, as shards that end later come later.               *)
LEMMA Halves ==
  ASSUME input \in Inputs, N # 0, NEW p \in Nat,
         NEW a \in 0 .. N, NEW b \in 0 .. N, a < b,
         NEW m, m = (a + b) \div 2
  PROVE  /\ m \in a .. b - 1 /\ m \in 0 .. N /\ m + 1 \in 0 .. N
         /\ BeforeEnd(p, m) => \A k : Found(p, a, m, k) => Found(p, a, b, k)
         /\ ~ BeforeEnd(p, m) =>
              \A k : Found(p, m + 1, b, k) => Found(p, a, b, k)
<1>1. /\ N \in Nat \ {0} /\ Readers = 0 .. N - 1 /\ input.item \in Nat
      /\ \A j \in 0 .. N : Begin(j) \in 0 .. input.item
      /\ \A i, j \in 0 .. N : i <= j => Begin(i) <= Begin(j)
      /\ \A j \in Readers : j + 1 \in 0 .. N /\ End(j) = Begin(j + 1)
  BY Borders, InputTypes
<1>2. m \in a .. b - 1 /\ m \in 0 .. N /\ m + 1 \in 0 .. N /\ m \in Readers
  BY <1>1
<1>3. ASSUME BeforeEnd(p, m), NEW k, Found(p, a, m, k)
      PROVE  Found(p, a, b, k)
  <2>1. k \in a .. m /\ k \in a .. b /\ (k < m \/ k = m)
    BY <1>1, <1>2, <1>3 DEF Found
  <2>2. BeforeEnd(p, k)
    BY <1>3, <2>1 DEF Found
  <2> QED BY <1>3, <2>1, <2>2 DEF Found
<1>4. ASSUME ~ BeforeEnd(p, m), NEW k, Found(p, m + 1, b, k)
      PROVE  Found(p, a, b, k)
  <2>1. k \in m + 1 .. b /\ k \in a .. b
    BY <1>1, <1>2, <1>4 DEF Found
  <2>2. ASSUME NEW j \in a .. k - 1
        PROVE  ~ BeforeEnd(p, j)
    <3>1. CASE j >= m + 1
      <4>1. j \in m + 1 .. k - 1
        BY <1>1, <1>2, <2>1, <3>1
      <4> QED BY <1>4, <4>1 DEF Found
    <3>2. CASE j <= m
      <4>1. /\ j \in Readers /\ j + 1 \in 0 .. N /\ j + 1 <= m + 1
            /\ End(j) = Begin(j + 1) /\ End(m) = Begin(m + 1)
        BY <1>1, <1>2, <2>1, <3>2
      <4>2. /\ Begin(j + 1) <= Begin(m + 1)
            /\ Begin(j + 1) \in Nat /\ Begin(m + 1) \in Nat
        BY <1>1, <1>2, <4>1
      <4>3. ~ (p < Begin(m + 1))
        BY <1>4, <4>1 DEF BeforeEnd
      <4>4. ~ (p < Begin(j + 1))
        BY <4>2, <4>3
      <4> QED BY <4>1, <4>4 DEF BeforeEnd
    <3> QED BY <1>1, <1>2, <2>1, <3>1, <3>2
  <2> QED BY <1>4, <2>1, <2>2 DEF Found
<1> QED BY <1>2, <1>3, <1>4

(* The binary search has one outcome.                                      *)
LEMMA SearchExists ==
  ASSUME input \in Inputs, N # 0, NEW p \in Nat
  PROVE  \E g : g = Searched(p, g)
<1> DEFINE I == (0 .. N) \X (0 .. N)
           Between(w) == CHOOSE k : Found(p, w[1], w[2], k)
           g == [w \in I |-> IF w[1] >= w[2] THEN w[1] ELSE Between(w)]
<1>1. N \in Nat
  BY InputTypes
<1>2. ASSUME NEW a \in 0 .. N, NEW b \in 0 .. N, a <= b
      PROVE  Found(p, a, b, g[<<a, b>>])
  <2>1. a \in Nat /\ b \in Nat /\ <<a, b>> \in I
    BY <1>1
  <2>2. CASE a = b
    <3>1. g[<<a, b>>] = a
      BY <2>1, <2>2
    <3> QED BY <2>1, <2>2, <3>1 DEF Found
  <2>3. CASE a < b
    <3>1. g[<<a, b>>] = CHOOSE k : Found(p, a, b, k)
      BY <2>1, <2>3
    <3>2. \E k : Found(p, a, b, k)
      BY <1>2, <2>1, FoundOne
    <3> HIDE DEF g
    <3> QED BY <3>1, <3>2
  <2> QED BY <1>2, <2>1, <2>2, <2>3
<1>3. ASSUME NEW w \in I
      PROVE  g[w] = Searched(p, g)[w]
  <2> DEFINE a == w[1]
             b == w[2]
             m == (a + b) \div 2
  <2>1. a \in 0 .. N /\ b \in 0 .. N /\ w = <<a, b>> /\ a \in Nat /\ b \in Nat
    BY <1>1
  <2>2. Searched(p, g)[w] = IF a >= b THEN a
                            ELSE IF BeforeEnd(p, m) THEN g[<<a, m>>]
                            ELSE g[<<m + 1, b>>]
    BY DEF Searched
  <2>3. CASE a >= b
    <3>1. g[w] = a
      BY <2>3
    <3> QED BY <2>2, <2>3, <3>1
  <2>0. m = (a + b) \div 2
    OBVIOUS
  <2> HIDE DEF g, m, a, b
  <2>4. CASE a < b
    <3>1. /\ m \in a .. b - 1 /\ m \in 0 .. N /\ m + 1 \in 0 .. N
          /\ BeforeEnd(p, m) => \A k : Found(p, a, m, k) => Found(p, a, b, k)
          /\ ~ BeforeEnd(p, m) =>
               \A k : Found(p, m + 1, b, k) => Found(p, a, b, k)
      BY <2>0, <2>1, <2>4, Halves
    <3>2. Found(p, a, b, g[w])
      BY <1>2, <2>1, <2>4
    <3>3. Found(p, a, m, g[<<a, m>>]) /\ Found(p, m + 1, b, g[<<m + 1, b>>])
      <4>1. a <= m /\ m + 1 <= b
        BY <2>1, <3>1
      <4> QED BY <1>2, <2>1, <3>1, <4>1
    <3>4. \A k, l : Found(p, a, b, k) /\ Found(p, a, b, l) => k = l
      BY <2>1, <2>4, FoundOne
    <3>5. ~ (a >= b)
      BY <2>1, <2>4
    <3>6. Found(p, a, b, Searched(p, g)[w])
      <4>1. CASE BeforeEnd(p, m)
        BY <2>2, <3>1, <3>3, <3>5, <4>1
      <4>2. CASE ~ BeforeEnd(p, m)
        BY <2>2, <3>1, <3>3, <3>5, <4>2
      <4> QED BY <4>1, <4>2
    <3> QED BY <3>2, <3>4, <3>6
  <2> QED BY <2>1, <2>3, <2>4
<1>4. /\ g = [w \in I |-> g[w]]
      /\ Searched(p, g) = [w \in I |-> Searched(p, g)[w]]
  BY DEF Searched
<1> HIDE DEF g
<1>5. g = Searched(p, g)
  BY <1>3, <1>4
<1> QED BY <1>5

(* And it is right: by the length of the interval.                         *)
LEMMA SearchFinds ==
  ASSUME input \in Inputs, N # 0, NEW p \in Nat, NEW s, s = Searched(p, s)
  PROVE  \A a, b \in 0 .. N : a <= b => Found(p, a, b, s[<<a, b>>])
<1> DEFINE T == {n \in Nat : \E a, b \in 0 .. N :
                    a <= b /\ n = b - a /\ ~ Found(p, a, b, s[<<a, b>>])}
<1>1. N \in Nat
  BY InputTypes
<1>2. ASSUME NEW a \in 0 .. N, NEW b \in 0 .. N
      PROVE  s[<<a, b>>] = IF a >= b THEN a
                           ELSE IF BeforeEnd(p, (a + b) \div 2)
                                THEN s[<<a, (a + b) \div 2>>]
                                ELSE s[<<(a + b) \div 2 + 1, b>>]
  BY DEF Searched
<1>3. SUFFICES ASSUME T # {} PROVE FALSE
  <2> SUFFICES ASSUME NEW a \in 0 .. N, NEW b \in 0 .. N, a <= b,
                      ~ Found(p, a, b, s[<<a, b>>])
               PROVE  T # {}
    OBVIOUS
  <2>1. b - a \in Nat
    BY <1>1
  <2> QED BY <2>1
<1>4. T \in SUBSET Nat
  OBVIOUS
<1>5. PICK n \in T : \A k \in T : n <= k
  BY <1>3, <1>4, Least
<1>6. PICK a \in 0 .. N, b \in 0 .. N :
        a <= b /\ n = b - a /\ ~ Found(p, a, b, s[<<a, b>>])
  BY <1>5
<1>7. a \in Nat /\ b \in Nat
  BY <1>1
<1>8. ASSUME NEW c \in 0 .. N, NEW d \in 0 .. N, c <= d, d - c < n
      PROVE  Found(p, c, d, s[<<c, d>>])
  <2>1. d - c \in Nat /\ n \in Nat /\ ~ (n <= d - c)
    BY <1>1, <1>5, <1>8
  <2>2. ~ (d - c \in T)
    BY <1>5, <2>1
  <2> QED BY <1>8, <2>1, <2>2
<1> HIDE DEF T
<1>9. CASE a = b
  <2>1. s[<<a, b>>] = a
    <3>1. a >= b
      BY <1>7, <1>9
    <3> QED BY <1>2, <3>1
  <2>2. Found(p, a, b, a)
    BY <1>7, <1>9 DEF Found
  <2> QED BY <1>6, <2>1, <2>2
<1>10. CASE a < b
  <2> DEFINE m == (a + b) \div 2
  <2>1. /\ m \in a .. b - 1 /\ m \in 0 .. N /\ m + 1 \in 0 .. N
        /\ BeforeEnd(p, m) => \A k : Found(p, a, m, k) => Found(p, a, b, k)
        /\ ~ BeforeEnd(p, m) =>
             \A k : Found(p, m + 1, b, k) => Found(p, a, b, k)
    BY <1>10, Halves
  <2>2. s[<<a, b>>] = IF BeforeEnd(p, m) THEN s[<<a, m>>] ELSE s[<<m + 1, b>>]
    <3>1. ~ (a >= b)
      BY <1>7, <1>10
    <3> QED BY <1>2, <3>1
  <2> HIDE DEF m
  <2>3. /\ a <= m /\ m - a < n /\ m + 1 <= b /\ b - (m + 1) < n
    BY <1>6, <1>7, <2>1
  <2>4. Found(p, a, m, s[<<a, m>>]) /\ Found(p, m + 1, b, s[<<m + 1, b>>])
    BY <1>8, <2>1, <2>3
  <2>5. Found(p, a, b, s[<<a, b>>])
    <3>1. CASE BeforeEnd(p, m)
      BY <2>1, <2>2, <2>4, <3>1
    <3>2. CASE ~ BeforeEnd(p, m)
      BY <2>1, <2>2, <2>4, <3>2
    <3> QED BY <3>1, <3>2
  <2> QED BY <1>6, <2>5
<1> QED BY <1>6, <1>7, <1>9, <1>10

(* So a line is counted in the shard it is in.                             *)
LEMMA ShardOfIs ==
  ASSUME input \in Inputs, N # 0, NEW x \in Lines
  PROVE  ShardOf(x) \in Readers /\ x \in Shard(ShardOf(x))
<1>1. /\ N \in Nat \ {0} /\ Readers = 0 .. N - 1 /\ input.item \in Nat
      /\ Begin(0) = 0 /\ Begin(N) = input.item
      /\ \A j \in 0 .. N : Begin(j) \in 0 .. input.item
      /\ \A j \in Readers : j + 1 \in 0 .. N /\ End(j) = Begin(j + 1)
  BY Borders, InputTypes
<1>2. x \in Nat /\ x < input.item
  BY <1>1 DEF Lines
<1> DEFINE s == CHOOSE g : g = Searched(x, g)
           k == s[<<0, N>>]
<1>3. ShardOf(x) = k
  BY DEF ShardOf, Searched
<1>4. s = Searched(x, s)
  <2>1. \E g : g = Searched(x, g)
    BY <1>2, SearchExists
  <2> QED BY <2>1
<1> HIDE DEF s
<1>5. Found(x, 0, N, k)
  <2>1. 0 \in 0 .. N /\ N \in 0 .. N /\ 0 <= N
    BY <1>1
  <2> QED BY <1>2, <1>4, <2>1, SearchFinds
<1> HIDE DEF k
<1>6. k \in 0 .. N /\ (k < N => x < End(k))
  BY <1>5 DEF Found, BeforeEnd
<1>7. k # N
  <2> SUFFICES ASSUME k = N PROVE FALSE
    OBVIOUS
  <2>1. N - 1 \in 0 .. k - 1 /\ N - 1 \in Readers /\ (N - 1) + 1 = N
    BY <1>1
  <2>2. ~ BeforeEnd(x, N - 1)
    BY <1>5, <2>1 DEF Found
  <2> QED BY <1>1, <1>2, <2>1, <2>2 DEF BeforeEnd
<1>8. k \in Readers /\ x < End(k)
  BY <1>1, <1>6, <1>7
<1>9. Begin(k) <= x
  <2>1. CASE k = 0
    BY <1>1, <1>2, <2>1
  <2>2. CASE k # 0
    <3>1. k - 1 \in 0 .. k - 1 /\ k - 1 \in Readers /\ (k - 1) + 1 = k
      BY <1>1, <1>8, <2>2
    <3>2. ~ BeforeEnd(x, k - 1)
      BY <1>5, <3>1 DEF Found
    <3>3. End(k - 1) = Begin(k) /\ Begin(k) \in Nat
      BY <1>1, <1>6, <3>1
    <3> QED BY <1>2, <3>2, <3>3 DEF BeforeEnd
  <2> QED BY <2>1, <2>2
<1>10. x \in Begin(k) .. End(k) - 1
  BY <1>1, <1>2, <1>6, <1>8, <1>9
<1> QED BY <1>3, <1>8, <1>10 DEF Shard

----------------------------------------------------------------------------
(* Sets of lines and of keys.                                              *)

LEMMA FiniteLines ==
  ASSUME input \in Inputs, NEW S, S \subseteq Lines
  PROVE  IsFiniteSet(S) /\ Cardinality(S) \in 0 .. input.item
<1>1. input.item \in Nat \ {0}
  BY InputTypes
<1>2. IsFiniteSet(Lines) /\ Cardinality(Lines) = input.item
  <2>1. 0 \in Int /\ input.item - 1 \in Int
    BY <1>1
  <2>2. /\ IsFiniteSet(0 .. input.item - 1)
        /\ Cardinality(0 .. input.item - 1) =
             IF 0 > input.item - 1 THEN 0 ELSE input.item - 1 - 0 + 1
    BY <2>1, FS_Interval, Zenon
  <2> QED BY <1>1, <2>2 DEF Lines
<1>3. IsFiniteSet(S) /\ Cardinality(S) <= Cardinality(Lines)
  BY <1>2, FS_Subset
<1>4. Cardinality(S) \in Nat
  BY <1>3, FS_CardinalityType
<1> QED BY <1>1, <1>2, <1>3, <1>4

LEMMA FiniteKeys ==
  ASSUME input \in Inputs
  PROVE  /\ IsFiniteSet(AllKeys)
         /\ \A S : S \subseteq AllKeys =>
                     IsFiniteSet(S) /\ Cardinality(S) \in Nat
<1> DEFINE Of(r) == {<<r, i>> : i \in 1 .. Len(Patch(r))}
           f == [r \in Readers |-> Of(r)]
<1>1. N \in Nat /\ \A r \in Readers : Len(Patch(r)) \in Nat
  BY InputTypes
<1>2. IsFiniteSet(Readers)
  BY <1>1, FS_Interval DEF Readers
<1>3. ASSUME NEW r \in Readers
      PROVE  IsFiniteSet(Of(r))
  <2> DEFINE g == [i \in 1 .. Len(Patch(r)) |-> <<r, i>>]
  <2>1. IsFiniteSet(1 .. Len(Patch(r)))
    BY <1>1, FS_Interval
  <2>2. g \in Surjection(1 .. Len(Patch(r)), Of(r))
    <3>1. g \in [1 .. Len(Patch(r)) -> Of(r)]
      OBVIOUS
    <3>2. \A t \in Of(r) : \E i \in 1 .. Len(Patch(r)) : g[i] = t
      OBVIOUS
    <3> QED BY <3>1, <3>2, Fun_IsSurj
  <2> QED BY <2>1, <2>2, FS_Surjection
<1>4. IsFiniteSet({Of(r) : r \in Readers})
  <2>1. f \in Surjection(Readers, {Of(r) : r \in Readers})
    <3>1. f \in [Readers -> {Of(r) : r \in Readers}]
      OBVIOUS
    <3>2. \A t \in {Of(r) : r \in Readers} : \E r \in Readers : f[r] = t
      OBVIOUS
    <3> QED BY <3>1, <3>2, Fun_IsSurj
  <2> QED BY <1>2, <2>1, FS_Surjection
<1>5. AllKeys = UNION {Of(r) : r \in Readers}
  BY DEF AllKeys
<1>6. IsFiniteSet(AllKeys)
  <2>1. \A T \in {Of(r) : r \in Readers} : IsFiniteSet(T)
    BY <1>3
  <2> HIDE DEF Of
  <2> QED BY <1>4, <1>5, <2>1, FS_UNION
<1>7. ASSUME NEW S, S \subseteq AllKeys
      PROVE  IsFiniteSet(S) /\ Cardinality(S) \in Nat
  BY <1>6, <1>7, FS_Subset, FS_CardinalityType
<1> QED BY <1>6, <1>7

(* A key of the patch is a reader and a place.                             *)
LEMMA Places ==
  /\ \A a \in AllKeys : /\ a = <<a[1], a[2]>> /\ a[1] \in Readers
                        /\ a[2] \in 1 .. Len(Patch(a[1]))
  /\ \A r \in Readers : \A i \in 1 .. Len(Patch(r)) :
       <<r, i>> \in AllKeys /\ KeyAt(<<r, i>>) = Patch(r)[i]
<1>1. \A r \in Readers : \A i \in 1 .. Len(Patch(r)) : <<r, i>> \in AllKeys
  BY DEF AllKeys
<1>2. ASSUME NEW a \in AllKeys
      PROVE  /\ a = <<a[1], a[2]>> /\ a[1] \in Readers
             /\ a[2] \in 1 .. Len(Patch(a[1]))
  <2>1. PICK r \in Readers : a \in {<<r, i>> : i \in 1 .. Len(Patch(r))}
    BY DEF AllKeys
  <2>2. PICK i \in 1 .. Len(Patch(r)) : a = <<r, i>>
    BY <2>1
  <2>3. a[1] = r /\ a[2] = i
    BY <2>2
  <2> QED BY <2>2, <2>3
<1> QED BY <1>1, <1>2 DEF KeyAt

(* What depends on the input alone.                                        *)
LEMMA SameInput ==
  ASSUME input' = input
  PROVE  /\ N' = N /\ Readers' = Readers /\ Lines' = Lines
         /\ AllKeys' = AllKeys /\ Refused' = Refused /\ Unusable' = Unusable
         /\ \A r : Patch(r)' = Patch(r)
         /\ \A a : KeyAt(a)' = KeyAt(a)
         /\ \A j : Begin(j)' = Begin(j) /\ End(j)' = End(j)
                   /\ Shard(j)' = Shard(j)
<1>1. N' = N /\ Readers' = Readers /\ Lines' = Lines /\ Refused' = Refused
  BY DEF N, Readers, Lines, Refused
<1>2. \A r : Patch(r)' = Patch(r)
  BY DEF Patch
<1>3. \A a : KeyAt(a)' = KeyAt(a)
  BY <1>2 DEF KeyAt
<1>4. AllKeys' = AllKeys
  BY <1>1, <1>2 DEF AllKeys
<1>5. Unusable' = Unusable
  BY <1>1, <1>3, <1>4 DEF Unusable
<1>6. \A j : Begin(j)' = Begin(j)
  BY <1>1 DEF Begin
<1>7. \A j : End(j)' = End(j)
  BY <1>6 DEF End
<1>8. \A j : Shard(j)' = Shard(j)
  BY <1>6, <1>7 DEF Shard
<1> QED BY <1>1, <1>2, <1>3, <1>4, <1>5, <1>6, <1>7, <1>8

LEMMA InitInv == Init => IInv
<1> SUFFICES ASSUME Init PROVE IInv
  OBVIOUS
<1>1. /\ input \in Inputs /\ phase = "prepare" /\ status = "running"
      /\ dirty = {}
      /\ read = [r \in Readers |-> 0] /\ at = [r \in Readers |-> 0]
      /\ byte = [r \in Readers |-> NoByte]
      /\ temp = [r \in Readers |-> [j \in Readers |-> 0]]
      /\ subbed = [r \in Readers |-> 0]
      /\ stopped = {}
      /\ pos = [r \in Readers |-> 0] /\ taken = [r \in Readers |-> 0]
      /\ pass = 0 /\ reader = 0 /\ out = <<>>
  BY DEF Init, Readers, N
<1>2. /\ input.item \in Nat \ {0} /\ N \in Nat /\ Passes \in Nat \ {0}
      /\ \A r \in Readers : Len(Patch(r)) \in Nat
  BY InputTypes, <1>1
<1>3. \A r \in Readers : MarkedBy(r) = {}
  BY <1>1 DEF MarkedBy
<1>4. \A a \in AllKeys : ~ Dealt(a)
  BY <1>1, <1>2, Places DEF Dealt
<1>5. NoByte \in SUBSET Int
  BY DEF NoByte
<1>6. TypeOK
  BY <1>1, <1>2 DEF TypeOK
<1>7. Typed
  <2>1. <<>> \in Seq([key : Int, from : {"base", "patch"}])
    BY EmptySeq
  <2> QED BY <1>1, <1>2, <1>5, <1>6, <2>1 DEF Typed
<1>8. Stages /\ Turns /\ Order
  BY <1>1, <1>2 DEF Stages, Turns, Order
<1>9. Marks
  BY <1>1, <1>3, <1>4 DEF Marks
<1>10. Counts
  <2>1. \A r, j \in Readers : MarkedBy(r) \cap Shard(j) = {}
    BY <1>3
  <2> QED BY <1>1, <2>1, FS_EmptySet DEF Counts
<1> QED BY <1>7, <1>8, <1>9, <1>10 DEF IInv

----------------------------------------------------------------------------
(* The steps of the marking.                                               *)

(* What the parts of the invariant are about.                              *)
LEMMA KeptMarks ==
  ASSUME Marks, UNCHANGED <<input, dirty, read, at, byte>>
  PROVE  Marks' /\ \A r : MarkedBy(r)' = MarkedBy(r)
<1>1. /\ Readers' = Readers /\ Lines' = Lines /\ AllKeys' = AllKeys
      /\ \A r : Patch(r)' = Patch(r)
      /\ \A a : KeyAt(a)' = KeyAt(a)
  BY SameInput
<1>2. \A r : MarkedBy(r)' = MarkedBy(r)
  BY <1>1 DEF MarkedBy
<1>3. \A a : Dealt(a)' <=> Dealt(a)
  BY DEF Dealt
<1>4. \A r : Key(r)' = Key(r)
  BY <1>1 DEF Key
<1> QED BY <1>1, <1>2, <1>3, <1>4 DEF Marks

LEMMA KeptCounts ==
  ASSUME Counts, UNCHANGED <<input, valid, at, temp, subbed>>,
         phase \in {"mark", "read"} \/ phase' \notin {"mark", "read"}
  PROVE  Counts'
<1>1. /\ Readers' = Readers /\ Lines' = Lines
      /\ \A r : Patch(r)' = Patch(r)
      /\ \A j : Shard(j)' = Shard(j)
  BY SameInput
<1>2. \A r : MarkedBy(r)' = MarkedBy(r)
  BY <1>1 DEF MarkedBy
<1>3. \A j : TakenOff(j)' = TakenOff(j)
  BY <1>1, <1>2 DEF TakenOff
<1> QED BY <1>1, <1>2, <1>3 DEF Counts

LEMMA PrepareStep == IInv /\ Prepare => IInv'
<1> SUFFICES ASSUME IInv, Prepare PROVE IInv'
  OBVIOUS
<1>1. /\ Typed /\ TypeOK /\ Stages /\ Marks /\ Counts
      /\ phase = "prepare" /\ input \in Inputs
  BY DEF IInv, Typed, TypeOK, Prepare
<1>2. UNCHANGED <<input, dirty, read, at, byte, temp, subbed, stopped,
                  pass, reader, pos, taken, out, first>>
  BY DEF Prepare, markVars, readVars
<1>3. /\ N' = N /\ Readers' = Readers /\ Lines' = Lines
      /\ Refused' = Refused /\ Unusable' = Unusable
      /\ \A r : Patch(r)' = Patch(r)
      /\ \A j : Begin(j)' = Begin(j) /\ End(j)' = End(j)
                /\ Shard(j)' = Shard(j)
  BY <1>2, SameInput
<1>4. /\ status = "running" /\ stopped = {} /\ pass = 0 /\ reader = 0
      /\ out = <<>>
      /\ \A r \in Readers : subbed[r] = 0 /\ taken[r] = 0
  BY <1>1 DEF Stages
<1>5. CASE Refused
  <2>1. phase' = "done" /\ status' = "BAD_INPUT" /\ valid' = valid
    BY <1>5 DEF Prepare
  <2>2. Unusable
    <3>1. N = 0 \/ N > MaxReaders => N \notin 1 .. MaxReaders
      BY <1>1, InputTypes
    <3> QED BY <1>5, <3>1 DEF Refused, Unusable
  <2>3. TypeOK'
    BY <1>1, <1>2, <1>3, <2>1 DEF TypeOK
  <2>4. Typed'
    BY <1>1, <1>2, <1>3, <2>3 DEF Typed
  <2>5. Stages'
    BY <1>2, <1>3, <2>1, <2>2 DEF Stages
  <2>6. Marks'
    BY <1>1, <1>2, KeptMarks
  <2>7. Counts'
    BY <1>1, <1>2, <2>1, KeptCounts
  <2>8. Turns' /\ Order'
    BY <2>1 DEF Turns, Order
  <2> QED BY <2>4, <2>5, <2>6, <2>7, <2>8 DEF IInv
<1>6. CASE ~ Refused
  <2>1. /\ phase' = "mark" /\ status' = status
        /\ valid' = [j \in Readers |-> End(j) - Begin(j)]
    BY <1>6 DEF Prepare
  <2>2. /\ Readers = 0 .. N - 1 /\ N \in Nat \ {0} /\ input.item \in Nat
        /\ \A j \in 0 .. N : Begin(j) \in 0 .. input.item
        /\ \A i, j \in 0 .. N : i <= j => Begin(i) <= Begin(j)
        /\ \A j \in Readers : j + 1 \in 0 .. N /\ End(j) = Begin(j + 1)
    BY <1>1, <1>6, Borders, InputTypes DEF Refused
  <2>3. ASSUME NEW j \in Readers
        PROVE  /\ valid'[j] = Cardinality(Shard(j) \ TakenOff(j))
               /\ valid'[j] \in 0 .. input.item
    <3>1. /\ Begin(j) \in 0 .. input.item /\ End(j) \in 0 .. input.item
          /\ Begin(j) <= End(j)
      <4>1. j \in 0 .. N /\ j + 1 \in 0 .. N /\ j <= j + 1
            /\ End(j) = Begin(j + 1)
        BY <2>2
      <4> QED BY <2>2, <4>1
    <3>2. Cardinality(Shard(j)) = End(j) - Begin(j)
      <4>1. Begin(j) \in Int /\ End(j) - 1 \in Int
        BY <3>1
      <4>2. Cardinality(Begin(j) .. End(j) - 1) =
              IF Begin(j) > End(j) - 1 THEN 0 ELSE End(j) - 1 - Begin(j) + 1
        BY <4>1, FS_Interval, Zenon
      <4>3. Shard(j) = Begin(j) .. End(j) - 1
        BY DEF Shard
      <4>4. \A b, e \in Nat : b <= e =>
              (IF b > e - 1 THEN 0 ELSE e - 1 - b + 1) = e - b
        OBVIOUS
      <4>5. Begin(j) \in Nat /\ End(j) \in Nat
        BY <3>1
      <4> QED BY <3>1, <4>2, <4>3, <4>4, <4>5, Zenon
    <3>3. Shard(j) \ TakenOff(j) = Shard(j)
      <4>1. \A r \in Readers : ~ (subbed[r] > j)
        BY <1>4, <2>2
      <4> QED BY <4>1 DEF TakenOff
    <3>4. valid'[j] = End(j) - Begin(j)
      BY <2>1
    <3>5. End(j) - Begin(j) \in 0 .. input.item
      <4>1. \A b, e, n \in Nat : b <= e /\ e <= n => e - b \in 0 .. n
        OBVIOUS
      <4>2. input.item \in Nat
        BY <2>2
      <4> QED BY <3>1, <4>1, <4>2
    <3> QED BY <3>2, <3>3, <3>4, <3>5
  <2>4. valid' \in [Readers -> 0 .. input.item]
    BY <2>1, <2>3
  <2>5. TypeOK'
    BY <1>1, <1>2, <1>3, <2>1, <2>4 DEF TypeOK
  <2>6. Typed'
    BY <1>1, <1>2, <1>3, <2>5 DEF Typed
  <2>7. Stages'
    BY <1>1, <1>2, <1>3, <1>4, <1>6, <2>1 DEF Stages
  <2>8. Marks' /\ \A r : MarkedBy(r)' = MarkedBy(r)
    BY <1>1, <1>2, KeptMarks
  <2>9. Counts'
    <3>1. \A j : TakenOff(j)' = TakenOff(j)
      BY <1>2, <1>3, <2>8 DEF TakenOff
    <3> QED BY <1>1, <1>2, <1>3, <2>3, <2>8, <3>1 DEF Counts
  <2>10. Turns' /\ Order'
    BY <2>1 DEF Turns, Order
  <2> QED BY <2>6, <2>7, <2>8, <2>9, <2>10 DEF IInv
<1> QED BY <1>5, <1>6

(* A thread that marks.                                                    *)
LEMMA ThreadTypes ==
  ASSUME IInv, NEW r \in Readers, Marking(r)
  PROVE  /\ Typed /\ TypeOK /\ Stages /\ Marks /\ Counts /\ input \in Inputs
         /\ phase = "mark" /\ status = "running" /\ ~ Refused
         /\ N \in Nat \ {0} /\ Readers = 0 .. N - 1
         /\ input.item \in Nat /\ Window \in Nat \ {0}
         /\ read[r] \in Nat /\ at[r] \in Nat /\ at[r] <= read[r]
         /\ read[r] <= Len(Patch(r)) /\ Len(Patch(r)) \in Nat
         /\ \A i \in 1 .. Len(Patch(r)) :
              /\ Patch(r)[i] \in Nat \union {Bad}
              /\ <<r, i>> \in AllKeys /\ KeyAt(<<r, i>>) = Patch(r)[i]
<1>1. /\ Typed /\ TypeOK /\ Stages /\ Marks /\ Counts /\ input \in Inputs
      /\ phase = "mark" /\ status = "running" /\ ~ Refused
  BY DEF IInv, Typed, TypeOK, Marking, Stages
<1>2. N \in Nat \ {0} /\ Readers = 0 .. N - 1
  BY <1>1, InputTypes DEF Refused, Readers
<1>3. /\ input.item \in Nat /\ Window \in Nat \ {0}
      /\ Len(Patch(r)) \in Nat
      /\ \A i \in 1 .. Len(Patch(r)) : Patch(r)[i] \in Nat \union {Bad}
  BY <1>1, InputTypes
<1>4. /\ read[r] \in Nat /\ at[r] \in Nat /\ at[r] <= read[r]
      /\ read[r] <= Len(Patch(r))
  BY <1>1 DEF Typed, TypeOK
<1> QED BY <1>1, <1>2, <1>3, <1>4, Places

(* The key in hand.                                                        *)
LEMMA KeyTypes ==
  ASSUME IInv, NEW r \in Readers, AtKey(r)
  PROVE  /\ Marking(r) /\ at[r] + 1 \in 1 .. Len(Patch(r))
         /\ at[r] + 1 \in Nat /\ at[r] + 1 <= read[r] /\ at[r] < read[r]
         /\ Key(r) \in Nat /\ <<r, at[r] + 1>> \in AllKeys
         /\ KeyAt(<<r, at[r] + 1>>) = Key(r) /\ subbed[r] = 0
<1>1. Marking(r) /\ at[r] < read[r]
  BY DEF AtKey
<1>2. /\ read[r] \in Nat /\ at[r] \in Nat /\ read[r] <= Len(Patch(r))
      /\ Len(Patch(r)) \in Nat /\ Marks /\ Counts /\ Typed
  BY <1>1, ThreadTypes
<1>3. /\ at[r] + 1 \in 1 .. Len(Patch(r)) /\ at[r] + 1 \in 1 .. read[r]
      /\ at[r] + 1 \in Nat
  BY <1>1, <1>2
<1>4. Key(r) \in Nat
  <2>1. Patch(r)[at[r] + 1] \in Nat \union {Bad}
    BY <1>1, <1>3, ThreadTypes
  <2>2. Patch(r)[at[r] + 1] # Bad
    BY <1>2, <1>3 DEF Marks
  <2> QED BY <2>1, <2>2 DEF Key
<1>5. /\ <<r, at[r] + 1>> \in AllKeys
      /\ KeyAt(<<r, at[r] + 1>>) = Key(r)
  BY <1>1, <1>3, ThreadTypes DEF Key
<1>6. subbed[r] = 0
  <2>1. subbed[r] \in Nat /\ (subbed[r] > 0 => at[r] = Len(Patch(r)))
    BY <1>2 DEF Counts, Typed
  <2> QED BY <1>1, <1>2, <2>1
<1> QED BY <1>1, <1>2, <1>3, <1>4, <1>5, <1>6

LEMMA ReadWindowStep ==
  ASSUME IInv, NEW r \in Readers, ReadWindow(r)
  PROVE  IInv'
<1>1. /\ Marking(r) /\ at[r] = read[r] /\ read[r] < Len(Patch(r))
      /\ UNCHANGED <<input, phase, status, dirty, valid, at, byte, temp,
                     subbed, pass, reader, pos, taken, out, first>>
  BY DEF ReadWindow, readVars
<1>2. /\ Typed /\ TypeOK /\ Stages /\ Marks /\ Counts /\ input \in Inputs
      /\ phase = "mark" /\ status = "running" /\ ~ Refused
  BY <1>1, ThreadTypes
<1>3. /\ N' = N /\ Readers' = Readers /\ Lines' = Lines /\ AllKeys' = AllKeys
      /\ Refused' = Refused /\ Unusable' = Unusable
      /\ \A q : Patch(q)' = Patch(q)
      /\ \A a : KeyAt(a)' = KeyAt(a)
      /\ \A j : Begin(j)' = Begin(j) /\ End(j)' = End(j)
                /\ Shard(j)' = Shard(j)
  BY <1>1, SameInput
<1>4. Ahead(r) \in Nat /\ read[r] <= Ahead(r) /\ Ahead(r) <= Len(Patch(r))
  <2>1. /\ read[r] \in Nat /\ Len(Patch(r)) \in Nat /\ Window \in Nat
        /\ read[r] <= Len(Patch(r))
    BY <1>1, ThreadTypes
  <2> QED BY <2>1 DEF Ahead
<1>5. CASE \E i \in read[r] + 1 .. Ahead(r) : Patch(r)[i] = Bad
  <2>1. stopped' = stopped \union {r} /\ read' = read
    BY <1>5 DEF ReadWindow
  <2>2. Unusable
    <3>1. PICK i \in read[r] + 1 .. Ahead(r) : Patch(r)[i] = Bad
      BY <1>5
    <3>2. read[r] \in Nat /\ Len(Patch(r)) \in Nat
      BY <1>1, ThreadTypes
    <3>3. i \in 1 .. Len(Patch(r))
      BY <1>4, <3>2
    <3>4. <<r, i>> \in AllKeys /\ KeyAt(<<r, i>>) = Bad
      BY <3>1, <3>3, Places
    <3> QED BY <3>4 DEF Unusable
  <2>3. TypeOK'
    BY <1>1, <1>2, <1>3, <2>1 DEF TypeOK
  <2>4. Typed'
    BY <1>1, <1>2, <1>3, <2>1, <2>3 DEF Typed
  <2>5. Stages'
    BY <1>1, <1>2, <1>3, <2>1, <2>2 DEF Stages
  <2>6. Marks'
    BY <1>1, <1>2, <2>1, KeptMarks
  <2>7. Counts'
    BY <1>1, <1>2, KeptCounts
  <2>8. Turns' /\ Order'
    BY <1>1, <1>2 DEF Turns, Order
  <2> QED BY <2>4, <2>5, <2>6, <2>7, <2>8 DEF IInv
<1>6. CASE \A i \in read[r] + 1 .. Ahead(r) : Patch(r)[i] # Bad
  <2>1. stopped' = stopped /\ read' = [read EXCEPT ![r] = Ahead(r)]
    BY <1>6 DEF ReadWindow
  <2>2. /\ read \in [Readers -> Nat]
        /\ \A q \in Readers : read'[q] = IF q = r THEN Ahead(r) ELSE read[q]
    BY <1>2, <2>1 DEF Typed
  <2>3. TypeOK'
    <3>1. \A q \in Readers : /\ 0 <= at'[q] /\ at'[q] <= read'[q]
                             /\ read'[q] <= Len(Patch(q))
      BY <1>1, <1>2, <1>4, <2>2 DEF TypeOK, Typed
    <3> QED BY <1>1, <1>2, <1>3, <2>1, <3>1 DEF TypeOK
  <2>4. Typed'
    <3>1. read' \in [Readers -> Nat]
      BY <1>4, <2>1, <2>2
    <3> QED BY <1>1, <1>2, <1>3, <2>3, <3>1 DEF Typed
  <2>5. Stages'
    BY <1>1, <1>2, <1>3, <2>1 DEF Stages
  <2>6. Marks'
    <3>1. \A q : MarkedBy(q)' = MarkedBy(q)
      BY <1>1, <1>3 DEF MarkedBy
    <3>2. ASSUME NEW q \in Readers, NEW i \in 1 .. read'[q]
          PROVE  Patch(q)[i] # Bad
      <4>1. CASE q = r /\ i > read[r]
        <5>1. i \in read[r] + 1 .. Ahead(r)
          BY <1>4, <2>2, <3>2, <4>1
        <5> QED BY <1>6, <4>1, <5>1
      <4>2. CASE q # r \/ i <= read[r]
        <5>1. i \in 1 .. read[q]
          BY <1>4, <2>2, <3>2, <4>2
        <5> QED BY <1>2, <5>1 DEF Marks
      <4> QED BY <1>4, <2>2, <3>2, <4>1, <4>2
    <3>3. ASSUME NEW q \in Readers, byte'[q] # NoByte
          PROVE  /\ at'[q] < read'[q] /\ Key(q)' \in Lines
                 /\ Key(q)' \notin byte'[q]
      <4>1. Key(q)' = Key(q)
        BY <1>1, <1>3 DEF Key
      <4>2. /\ at[q] < read[q] /\ Key(q) \in Lines /\ Key(q) \notin byte[q]
        BY <1>1, <1>2, <3>3 DEF Marks
      <4>3. q # r
        <5>1. read[r] \in Nat /\ at[r] = read[r]
          BY <1>1, <1>2 DEF Typed
        <5> QED BY <4>2, <5>1
      <4> QED BY <1>1, <2>2, <4>1, <4>2, <4>3
    <3>4. \A a : Dealt(a)' <=> Dealt(a)
      BY <1>1 DEF Dealt
    <3> QED BY <1>1, <1>2, <1>3, <3>1, <3>2, <3>3, <3>4 DEF Marks
  <2>7. Counts'
    BY <1>1, <1>2, KeptCounts
  <2>8. Turns' /\ Order'
    BY <1>1, <1>2 DEF Turns, Order
  <2> QED BY <2>4, <2>5, <2>6, <2>7, <2>8 DEF IInv
<1> QED BY <1>5, <1>6

(* What a thread that goes on to its next key keeps.                       *)
LEMMA NextKeyTypes ==
  ASSUME IInv, NEW r \in Readers, AtKey(r),
         at' = [at EXCEPT ![r] = @ + 1],
         UNCHANGED <<input, phase, status, valid, read, subbed, stopped,
                     pass, reader, pos, taken, out, first>>,
         dirty' \subseteq Lines,
         byte' \in [Readers -> SUBSET Int],
         \A q \in Readers : byte'[q] = NoByte \/ byte'[q] \subseteq Lines,
         temp' \in [Readers -> [Readers -> 0 .. input.item]]
  PROVE  /\ Typed' /\ Stages'
         /\ \A q \in Readers : at'[q] = IF q = r THEN at[r] + 1 ELSE at[q]
<1>1. /\ Typed /\ TypeOK /\ Stages /\ input \in Inputs
      /\ phase = "mark" /\ status = "running"
  BY KeyTypes, ThreadTypes
<1>2. /\ N' = N /\ Readers' = Readers
      /\ Refused' = Refused /\ Unusable' = Unusable
      /\ \A q : Patch(q)' = Patch(q)
      /\ \A j : Begin(j)' = Begin(j) /\ End(j)' = End(j)
  BY SameInput
<1>3. /\ at[r] + 1 \in Nat /\ at[r] + 1 <= read[r]
  BY KeyTypes
<1>4. /\ at \in [Readers -> Nat]
      /\ \A q \in Readers : at'[q] = IF q = r THEN at[r] + 1 ELSE at[q]
  BY <1>1 DEF Typed
<1>5. at' \in [Readers -> Nat]
  BY <1>3, <1>4
<1>6. \A q \in Readers : 0 <= at'[q] /\ at'[q] <= read[q]
  BY <1>1, <1>3, <1>4 DEF TypeOK
<1>7. TypeOK'
  BY <1>1, <1>2, <1>6 DEF TypeOK, Lines
<1>8. Typed'
  BY <1>1, <1>2, <1>5, <1>7 DEF Typed
<1>9. Stages'
  BY <1>1, <1>2 DEF Stages
<1> QED BY <1>4, <1>8, <1>9

LEMMA SkipKeyStep ==
  ASSUME IInv, NEW r \in Readers, SkipKey(r)
  PROVE  IInv'
<1>1. /\ AtKey(r) /\ Key(r) >= input.item
      /\ at' = [at EXCEPT ![r] = @ + 1]
      /\ UNCHANGED <<input, phase, status, dirty, valid, read, byte, temp,
                     subbed, stopped, pass, reader, pos, taken, out, first>>
  BY DEF SkipKey, readVars
<1>2. /\ Typed /\ TypeOK /\ Stages /\ Marks /\ Counts /\ input \in Inputs
      /\ phase = "mark" /\ input.item \in Nat
  BY <1>1, KeyTypes, ThreadTypes
<1>3. /\ Readers' = Readers /\ Lines' = Lines /\ AllKeys' = AllKeys
      /\ \A q : Patch(q)' = Patch(q)
      /\ \A a : KeyAt(a)' = KeyAt(a)
      /\ \A j : Shard(j)' = Shard(j)
  BY <1>1, SameInput
<1>4. /\ at[r] \in Nat /\ at[r] < read[r] /\ Key(r) \in Nat
      /\ <<r, at[r] + 1>> \in AllKeys
      /\ KeyAt(<<r, at[r] + 1>>) = Key(r) /\ subbed[r] = 0
      /\ Key(r) = Patch(r)[at[r] + 1]
  BY <1>1, KeyTypes, ThreadTypes DEF Key
<1>5. /\ Typed' /\ Stages'
      /\ \A q \in Readers : at'[q] = IF q = r THEN at[r] + 1 ELSE at[q]
  <2>1. /\ dirty' \subseteq Lines
        /\ byte' \in [Readers -> SUBSET Int]
        /\ \A q \in Readers : byte'[q] = NoByte \/ byte'[q] \subseteq Lines
        /\ temp' \in [Readers -> [Readers -> 0 .. input.item]]
    BY <1>1, <1>2 DEF Typed, TypeOK, Lines
  <2> QED BY <1>1, <2>1, NextKeyTypes
<1>6. \A q \in Readers : MarkedBy(q)' = MarkedBy(q)
  <2> SUFFICES ASSUME NEW q \in Readers
               PROVE  MarkedBy(q)' = MarkedBy(q)
    OBVIOUS
  <2>1. CASE q # r
    BY <1>3, <1>5, <2>1 DEF MarkedBy
  <2>2. CASE q = r
    <3>1. ASSUME NEW x \in Lines, NEW i \in 1 .. at[r] + 1, Patch(r)[i] = x
          PROVE  i \in 1 .. at[r]
      <4>1. x < input.item
        BY <1>2 DEF Lines
      <4>2. i # at[r] + 1
        BY <1>1, <1>2, <1>4, <3>1, <4>1
      <4> QED BY <1>4, <4>2
    <3>2. 1 .. at[r] \subseteq 1 .. at[r] + 1
      BY <1>4
    <3> QED BY <1>3, <1>5, <2>2, <3>1, <3>2 DEF MarkedBy
  <2> QED BY <2>1, <2>2
<1>7. Marks'
  <2>1. ASSUME NEW a \in AllKeys, Dealt(a)'
        PROVE  Dealt(a) \/ KeyAt(a) >= input.item
    <3>1. a[1] \in Readers /\ a = <<a[1], a[2]>> /\ a[2] \in Nat
      <4>1. Len(Patch(a[1])) \in Nat
        BY <1>2, Places, InputTypes
      <4> QED BY <4>1, Places
    <3>2. a[2] <= at'[a[1]]
      BY <2>1 DEF Dealt
    <3>3. CASE a[1] # r
      BY <1>5, <3>1, <3>2, <3>3 DEF Dealt
    <3>4. CASE a[1] = r
      <4>1. a[2] <= at[r] \/ a[2] = at[r] + 1
        BY <1>4, <1>5, <3>1, <3>2, <3>4
      <4> QED BY <1>1, <1>4, <3>1, <3>4, <4>1 DEF Dealt
    <3> QED BY <3>3, <3>4
  <2>2. ASSUME NEW a \in AllKeys, NEW b \in AllKeys,
               Dealt(a)', Dealt(b)', a # b, KeyAt(a) = KeyAt(b)
        PROVE  KeyAt(a) >= input.item
    BY <1>2, <2>1, <2>2 DEF Marks
  <2>3. ASSUME NEW q \in Readers, byte[q] # NoByte
        PROVE  /\ at'[q] < read[q] /\ Key(q)' \in Lines
               /\ Key(q)' \notin byte[q]
    <3>1. at[q] < read[q] /\ Key(q) \in Lines /\ Key(q) \notin byte[q]
      BY <1>2, <2>3 DEF Marks
    <3>2. q # r
      BY <1>1, <1>2, <1>4, <3>1 DEF Lines
    <3>3. Key(q)' = Key(q) /\ at'[q] = at[q]
      BY <1>3, <1>5, <3>2 DEF Key
    <3> QED BY <3>1, <3>3
  <2> QED BY <1>1, <1>2, <1>3, <1>6, <2>2, <2>3 DEF Marks
<1>8. Counts'
  <2>1. \A j : TakenOff(j)' = TakenOff(j)
    BY <1>1, <1>3, <1>6 DEF TakenOff
  <2>2. \A q \in Readers : subbed[q] > 0 => at'[q] = Len(Patch(q))
    BY <1>2, <1>4, <1>5 DEF Counts
  <2> QED BY <1>1, <1>2, <1>3, <1>6, <2>1, <2>2 DEF Counts
<1>9. Turns' /\ Order'
  BY <1>1, <1>2 DEF Turns, Order
<1> QED BY <1>5, <1>7, <1>8, <1>9 DEF IInv

LEMMA LoadByteStep ==
  ASSUME IInv, NEW r \in Readers, LoadByte(r)
  PROVE  IInv'
<1>1. /\ AtKey(r) /\ Key(r) < input.item /\ byte[r] = NoByte
      /\ UNCHANGED <<input, phase, status, dirty, valid, read, at, temp,
                     subbed, pass, reader, pos, taken, out, first>>
  BY DEF LoadByte, readVars
<1>2. /\ Typed /\ TypeOK /\ Stages /\ Marks /\ Counts /\ input \in Inputs
      /\ phase = "mark" /\ input.item \in Nat
  BY <1>1, KeyTypes, ThreadTypes
<1>3. /\ N' = N /\ Readers' = Readers /\ Lines' = Lines /\ AllKeys' = AllKeys
      /\ Refused' = Refused /\ Unusable' = Unusable
      /\ \A q : Patch(q)' = Patch(q)
      /\ \A a : KeyAt(a)' = KeyAt(a)
      /\ \A j : Begin(j)' = Begin(j) /\ End(j)' = End(j)
                /\ Shard(j)' = Shard(j)
  BY <1>1, SameInput
<1>4. /\ at[r] \in Nat /\ at[r] < read[r] /\ Key(r) \in Nat
      /\ <<r, at[r] + 1>> \in AllKeys
      /\ KeyAt(<<r, at[r] + 1>>) = Key(r)
  BY <1>1, KeyTypes, ThreadTypes
<1>5. Turns' /\ Order'
  BY <1>1, <1>2 DEF Turns, Order
<1>6. Counts'
  BY <1>1, <1>2, KeptCounts
<1>7. CASE Key(r) \in dirty
  <2>1. stopped' = stopped \union {r} /\ byte' = byte
    BY <1>7 DEF LoadByte
  <2>2. Unusable
    <3>1. PICK q \in Readers : Key(r) \in MarkedBy(q)
      BY <1>2, <1>7 DEF Marks
    <3>2. PICK i \in 1 .. at[q] : Patch(q)[i] = Key(r)
      BY <3>1 DEF MarkedBy
    <3>3. /\ at[q] \in Nat /\ at[q] <= read[q] /\ read[q] <= Len(Patch(q))
          /\ read[q] \in Nat /\ Len(Patch(q)) \in Nat
      BY <1>2, InputTypes DEF Typed, TypeOK
    <3>4. i \in 1 .. Len(Patch(q))
      BY <3>3
    <3>5. <<q, i>> \in AllKeys /\ KeyAt(<<q, i>>) = Key(r)
      BY <3>2, <3>4, Places
    <3>6. <<q, i>> # <<r, at[r] + 1>>
      BY <1>4, <3>2
    <3> QED BY <1>1, <1>4, <3>5, <3>6 DEF Unusable
  <2>3. TypeOK'
    BY <1>1, <1>2, <1>3, <2>1 DEF TypeOK
  <2>4. Typed'
    BY <1>1, <1>2, <1>3, <2>1, <2>3 DEF Typed
  <2>5. Stages'
    BY <1>1, <1>2, <1>3, <2>1, <2>2 DEF Stages
  <2>6. Marks'
    BY <1>1, <1>2, <2>1, KeptMarks
  <2> QED BY <1>5, <1>6, <2>4, <2>5, <2>6 DEF IInv
<1>8. CASE Key(r) \notin dirty
  <2>1. /\ byte' = [byte EXCEPT ![r] = ByteOf(Key(r))]
        /\ stopped' = stopped
    BY <1>8 DEF LoadByte
  <2>2. ByteOf(Key(r)) \subseteq Lines /\ Key(r) \notin ByteOf(Key(r))
    BY <1>2, <1>8 DEF ByteOf, TypeOK, Lines
  <2>3. /\ byte \in [Readers -> SUBSET Int] /\ Lines \subseteq Int
        /\ \A q \in Readers :
             byte'[q] = IF q = r THEN ByteOf(Key(r)) ELSE byte[q]
    BY <1>2, <2>1 DEF Typed, Lines
  <2>4. TypeOK'
    <3>1. \A q \in Readers :
            byte'[q] = NoByte \/ byte'[q] \subseteq 0 .. input.item - 1
      BY <1>2, <2>2, <2>3 DEF TypeOK, Lines
    <3> QED BY <1>1, <1>2, <1>3, <2>1, <3>1 DEF TypeOK
  <2>5. Typed'
    <3>1. byte' \in [Readers -> SUBSET Int]
      BY <2>1, <2>2, <2>3
    <3> QED BY <1>1, <1>2, <1>3, <2>4, <3>1 DEF Typed
  <2>6. Stages'
    BY <1>1, <1>2, <1>3, <2>1 DEF Stages
  <2>7. Marks'
    <3>1. \A q : MarkedBy(q)' = MarkedBy(q)
      BY <1>1, <1>3 DEF MarkedBy
    <3>2. \A a : Dealt(a)' <=> Dealt(a)
      BY <1>1 DEF Dealt
    <3>3. \A q : Key(q)' = Key(q)
      BY <1>1, <1>3 DEF Key
    <3>4. ASSUME NEW q \in Readers, byte'[q] # NoByte
          PROVE  /\ at[q] < read[q] /\ Key(q) \in Lines
                 /\ Key(q) \notin byte'[q]
      <4>1. CASE q # r
        BY <1>2, <2>3, <3>4, <4>1 DEF Marks
      <4>2. CASE q = r
        <5>1. Key(r) \in Lines
          BY <1>1, <1>2, <1>4 DEF Lines
        <5> QED BY <1>4, <2>2, <2>3, <4>2, <5>1
      <4> QED BY <4>1, <4>2
    <3> QED BY <1>1, <1>2, <1>3, <3>1, <3>2, <3>3, <3>4 DEF Marks
  <2> QED BY <1>5, <1>6, <2>5, <2>6, <2>7 DEF IInv
<1> QED BY <1>7, <1>8

(* An exchange that fails forgets the byte.                                *)
LEMMA ForgetByte ==
  ASSUME IInv, NEW r \in Readers, AtKey(r),
         byte' = [byte EXCEPT ![r] = NoByte],
         UNCHANGED <<input, phase, status, dirty, valid, read, at, temp,
                     subbed, stopped, pass, reader, pos, taken, out, first>>
  PROVE  IInv'
<1>1. /\ Typed /\ TypeOK /\ Stages /\ Marks /\ Counts /\ input \in Inputs
      /\ phase = "mark"
  BY KeyTypes, ThreadTypes
<1>2. /\ N' = N /\ Readers' = Readers /\ Lines' = Lines /\ AllKeys' = AllKeys
      /\ Refused' = Refused /\ Unusable' = Unusable
      /\ \A q : Patch(q)' = Patch(q)
      /\ \A a : KeyAt(a)' = KeyAt(a)
      /\ \A j : Begin(j)' = Begin(j) /\ End(j)' = End(j)
  BY SameInput
<1>3. /\ byte \in [Readers -> SUBSET Int] /\ NoByte \in SUBSET Int
      /\ \A q \in Readers : byte'[q] = IF q = r THEN NoByte ELSE byte[q]
  BY <1>1 DEF Typed, NoByte
<1>4. TypeOK'
  <2>1. \A q \in Readers :
          byte'[q] = NoByte \/ byte'[q] \subseteq 0 .. input.item - 1
    BY <1>1, <1>3 DEF TypeOK
  <2> QED BY <1>1, <1>2, <2>1 DEF TypeOK
<1>5. Typed'
  <2>1. byte' \in [Readers -> SUBSET Int]
    BY <1>3
  <2> QED BY <1>1, <1>2, <1>4, <2>1 DEF Typed
<1>6. Stages'
  BY <1>1, <1>2 DEF Stages
<1>7. Marks'
  <2>1. \A q : MarkedBy(q)' = MarkedBy(q)
    BY <1>2 DEF MarkedBy
  <2>2. \A a : Dealt(a)' <=> Dealt(a)
    BY DEF Dealt
  <2>3. \A q : Key(q)' = Key(q)
    BY <1>2 DEF Key
  <2> QED BY <1>1, <1>2, <1>3, <2>1, <2>2, <2>3 DEF Marks
<1>8. Counts'
  BY <1>1, KeptCounts
<1>9. Turns' /\ Order'
  BY <1>1 DEF Turns, Order
<1> QED BY <1>5, <1>6, <1>7, <1>8, <1>9 DEF IInv

LEMMA FailSpuriouslyStep ==
  ASSUME IInv, NEW r \in Readers, FailSpuriously(r)
  PROVE  IInv'
BY ForgetByte DEF FailSpuriously, readVars

(* An exchange that succeeds marks a line that nobody has marked.          *)
LEMMA Exchanged ==
  ASSUME IInv, NEW r \in Readers, SwapByte(r), Unchanged(r)
  PROVE  /\ Key(r) \in Lines /\ Key(r) \notin dirty
         /\ dirty' = dirty \union {Key(r)}
<1>1. /\ AtKey(r) /\ byte[r] # NoByte
      /\ dirty' = (dirty \ ByteOf(Key(r))) \union byte[r] \union {Key(r)}
  BY DEF SwapByte
<1>2. Marks
  BY DEF IInv
<1>3. Key(r) \in Lines /\ Key(r) \notin byte[r]
  BY <1>1, <1>2 DEF Marks
<1>4. ByteOf(Key(r)) = byte[r]
  BY DEF Unchanged
<1> QED BY <1>1, <1>3, <1>4 DEF ByteOf

LEMMA SwapByteStep ==
  ASSUME IInv, NEW r \in Readers, SwapByte(r)
  PROVE  IInv'
<1> DEFINE x == Key(r)
           a0 == <<r, at[r] + 1>>
<1>1. /\ AtKey(r) /\ byte[r] # NoByte
      /\ byte' = [byte EXCEPT ![r] = NoByte]
      /\ UNCHANGED <<input, phase, status, valid, read, subbed, stopped,
                     pass, reader, pos, taken, out, first>>
  BY DEF SwapByte, readVars
<1>2. CASE ~ Unchanged(r)
  <2>1. UNCHANGED <<dirty, temp, at>>
    BY <1>2 DEF SwapByte
  <2> QED BY <1>1, <2>1, ForgetByte
<1>3. SUFFICES ASSUME Unchanged(r) PROVE IInv'
  BY <1>2
<1>4. /\ temp' = [temp EXCEPT ![r][ShardOf(x)] = @ + 1]
      /\ at' = [at EXCEPT ![r] = @ + 1]
  BY <1>3 DEF SwapByte
<1>5. x \in Lines /\ x \notin dirty /\ dirty' = dirty \union {x}
  BY <1>3, Exchanged
<1>6. /\ Typed /\ TypeOK /\ Stages /\ Marks /\ Counts /\ input \in Inputs
      /\ phase = "mark" /\ input.item \in Nat /\ N # 0
  BY <1>1, KeyTypes, ThreadTypes
<1>7. /\ Readers' = Readers /\ Lines' = Lines /\ AllKeys' = AllKeys
      /\ \A q : Patch(q)' = Patch(q)
      /\ \A a : KeyAt(a)' = KeyAt(a)
      /\ \A j : Shard(j)' = Shard(j)
  BY <1>1, SameInput
<1>8. /\ at[r] \in Nat /\ at[r] < read[r] /\ a0 \in AllKeys
      /\ KeyAt(a0) = x /\ subbed[r] = 0 /\ x = Patch(r)[at[r] + 1]
  BY <1>1, KeyTypes, ThreadTypes DEF Key
<1>9. ShardOf(x) \in Readers /\ x \in Shard(ShardOf(x))
  BY <1>5, <1>6, ShardOfIs
<1>10. \A q \in Readers : at'[q] = IF q = r THEN at[r] + 1 ELSE at[q]
  BY <1>4, <1>6 DEF Typed
<1>11. \A q \in Readers :
         MarkedBy(q)' = IF q = r THEN MarkedBy(r) \union {x} ELSE MarkedBy(q)
  <2> SUFFICES ASSUME NEW q \in Readers
               PROVE  MarkedBy(q)' =
                        IF q = r THEN MarkedBy(r) \union {x} ELSE MarkedBy(q)
    OBVIOUS
  <2>1. CASE q # r
    BY <1>7, <1>10, <2>1 DEF MarkedBy
  <2>2. CASE q = r
    <3>1. 1 .. at[r] + 1 = (1 .. at[r]) \union {at[r] + 1}
      BY <1>8
    <3> HIDE DEF x
    <3> QED BY <1>5, <1>7, <1>8, <1>10, <2>2, <3>1 DEF MarkedBy
  <2> QED BY <2>1, <2>2
<1>12. \A q \in Readers : x \notin MarkedBy(q)
  BY <1>5, <1>6 DEF Marks
<1> HIDE DEF x, a0
<1>13. \A q, j \in Readers :
         temp'[q][j] = Cardinality(MarkedBy(q)' \cap Shard(j))
  <2> SUFFICES ASSUME NEW q \in Readers, NEW j \in Readers
               PROVE  temp'[q][j] = Cardinality(MarkedBy(q)' \cap Shard(j))
    OBVIOUS
  <2>1. temp[q][j] = Cardinality(MarkedBy(q) \cap Shard(j))
    BY <1>6 DEF Counts
  <2>2. temp'[q][j] = IF q = r /\ j = ShardOf(x) THEN temp[q][j] + 1
                      ELSE temp[q][j]
    BY <1>4, <1>6, <1>9 DEF Typed
  <2>3. CASE q # r
    BY <1>11, <2>1, <2>2, <2>3
  <2>4. CASE q = r /\ j = ShardOf(x)
    <3> DEFINE S == MarkedBy(q) \cap Shard(j)
    <3>1. MarkedBy(q)' \cap Shard(j) = S \union {x} /\ x \notin S
      BY <1>9, <1>11, <1>12, <2>4
    <3>2. IsFiniteSet(S)
      BY <1>6, FiniteLines DEF MarkedBy
    <3> HIDE DEF S
    <3>3. Cardinality(S \union {x}) = Cardinality(S) + 1
      BY <3>1, <3>2, FS_AddElement
    <3> QED BY <2>1, <2>2, <2>4, <3>1, <3>3 DEF S
  <2>5. CASE q = r /\ j # ShardOf(x)
    <3>1. x \notin Shard(j)
      BY <1>6, <1>9, <2>5, InOneShard
    <3>2. MarkedBy(q)' \cap Shard(j) = MarkedBy(q) \cap Shard(j)
      BY <1>11, <2>5, <3>1
    <3> QED BY <2>1, <2>2, <2>5, <3>2
  <2> QED BY <2>3, <2>4, <2>5
<1>14. /\ Typed' /\ Stages'
  <2>1. dirty' \subseteq Lines
    BY <1>5, <1>6 DEF TypeOK, Lines
  <2>2. /\ byte' \in [Readers -> SUBSET Int]
        /\ \A q \in Readers : byte'[q] = NoByte \/ byte'[q] \subseteq Lines
    <3>1. byte \in [Readers -> SUBSET Int] /\ NoByte \in SUBSET Int
      BY <1>6 DEF Typed, NoByte
    <3>2. \A q \in Readers : byte[q] = NoByte \/ byte[q] \subseteq Lines
      BY <1>6 DEF TypeOK, Lines
    <3> QED BY <1>1, <3>1, <3>2
  <2>3. temp' \in [Readers -> [Readers -> 0 .. input.item]]
    <3>1. \A q, j \in Readers : temp'[q][j] \in 0 .. input.item
      <4>1. \A q \in Readers : MarkedBy(q)' \subseteq Lines
        BY <1>5, <1>11 DEF MarkedBy
      <4> QED BY <1>6, <1>13, <4>1, FiniteLines
    <3>2. /\ temp' = [q \in Readers |-> temp'[q]]
          /\ \A q \in Readers : temp'[q] = [j \in Readers |-> temp'[q][j]]
      BY <1>4, <1>6 DEF Typed
    <3> QED BY <3>1, <3>2
  <2> QED BY <1>1, <1>4, <2>1, <2>2, <2>3, NextKeyTypes
<1>15. Marks'
  <2>1. ASSUME NEW a \in AllKeys, Dealt(a)'
        PROVE  /\ a = a0 \/ Dealt(a)
               /\ Dealt(a) /\ KeyAt(a) = x => FALSE
    <3>1. /\ a[1] \in Readers /\ a = <<a[1], a[2]>> /\ a[2] \in Nat
          /\ a[2] \in 1 .. Len(Patch(a[1]))
      <4>1. Len(Patch(a[1])) \in Nat
        BY <1>6, Places, InputTypes
      <4> QED BY <4>1, Places
    <3>2. a[2] <= at'[a[1]]
      BY <2>1 DEF Dealt
    <3>3. a = a0 \/ Dealt(a)
      <4>1. CASE a[1] # r
        BY <1>10, <3>1, <3>2, <4>1 DEF Dealt
      <4>2. CASE a[1] = r
        <5>1. a[2] <= at[r] \/ a[2] = at[r] + 1
          BY <1>8, <1>10, <3>1, <3>2, <4>2
        <5> QED BY <3>1, <4>2, <5>1 DEF Dealt, a0
      <4> QED BY <4>1, <4>2
    <3>4. ASSUME Dealt(a), KeyAt(a) = x
          PROVE  FALSE
      <4>1. a[2] \in 1 .. at[a[1]] /\ Patch(a[1])[a[2]] = x
        <5>1. at[a[1]] \in Nat
          BY <1>6, <3>1 DEF Typed
        <5> QED BY <3>1, <3>4, <5>1 DEF Dealt, KeyAt
      <4>2. x \in MarkedBy(a[1])
        BY <1>5, <4>1 DEF MarkedBy
      <4> QED BY <1>12, <3>1, <4>2
    <3> QED BY <3>3, <3>4
  <2>2. ASSUME NEW a \in AllKeys, NEW b \in AllKeys,
               Dealt(a)', Dealt(b)', a # b, KeyAt(a) = KeyAt(b)
        PROVE  KeyAt(a) >= input.item
    <3>1. CASE Dealt(a) /\ Dealt(b)
      BY <1>6, <2>2, <3>1 DEF Marks
    <3>2. CASE a = a0 \/ b = a0
      <4>1. KeyAt(a0) = x
        BY <1>8
      <4> QED BY <2>1, <2>2, <3>2, <4>1
    <3> QED BY <2>1, <2>2, <3>1, <3>2
  <2>3. ASSUME NEW q \in Readers, byte'[q] # NoByte
        PROVE  /\ at'[q] < read[q] /\ Key(q)' \in Lines
               /\ Key(q)' \notin byte'[q]
    <3>1. byte'[q] = IF q = r THEN NoByte ELSE byte[q]
      BY <1>1, <1>6 DEF Typed
    <3>2. q # r /\ byte'[q] = byte[q] /\ byte[q] # NoByte
      BY <2>3, <3>1
    <3>3. at[q] < read[q] /\ Key(q) \in Lines /\ Key(q) \notin byte[q]
      BY <1>6, <3>2 DEF Marks
    <3>4. Key(q)' = Key(q) /\ at'[q] = at[q]
      BY <1>7, <1>10, <3>2 DEF Key
    <3> QED BY <3>2, <3>3, <3>4
  <2>4. \A y : y \in dirty' <=> \E q \in Readers : y \in MarkedBy(q)'
    BY <1>5, <1>6, <1>11 DEF Marks
  <2> QED BY <1>1, <1>6, <1>7, <2>2, <2>3, <2>4 DEF Marks
<1>16. Counts'
  <2>1. \A j \in Readers : TakenOff(j)' = TakenOff(j)
    <3>1. \A j \in Readers : \A q \in Readers : subbed[q] > j => q # r
      BY <1>8 DEF Readers
    <3>2. \A j \in Readers : \A q \in Readers : \A y :
            subbed[q] > j /\ y \in MarkedBy(q)' <=>
            subbed[q] > j /\ y \in MarkedBy(q)
      BY <1>11, <3>1
    <3> QED BY <1>1, <1>7, <3>2 DEF TakenOff
  <2>2. \A q \in Readers : subbed[q] > 0 => at'[q] = Len(Patch(q))
    BY <1>6, <1>8, <1>10 DEF Counts
  <2> QED BY <1>1, <1>6, <1>7, <1>13, <2>1, <2>2 DEF Counts
<1>17. Turns' /\ Order'
  BY <1>1, <1>6 DEF Turns, Order
<1> QED BY <1>14, <1>15, <1>16, <1>17 DEF IInv

(* No two threads have marked one line.                                    *)
LEMMA MarkedOnce ==
  ASSUME IInv, NEW q \in Readers, NEW r \in Readers, NEW x,
         x \in MarkedBy(q), x \in MarkedBy(r)
  PROVE  q = r
<1>1. Typed /\ TypeOK /\ Marks /\ input \in Inputs
  BY DEF IInv, Typed, TypeOK
<1>2. ASSUME NEW s \in Readers, x \in MarkedBy(s)
      PROVE  \E a \in AllKeys : a[1] = s /\ Dealt(a) /\ KeyAt(a) = x
  <2>1. PICK i \in 1 .. at[s] : Patch(s)[i] = x
    BY <1>2 DEF MarkedBy
  <2>2. /\ at[s] \in Nat /\ read[s] \in Nat /\ at[s] <= read[s]
        /\ read[s] <= Len(Patch(s)) /\ Len(Patch(s)) \in Nat
    BY <1>1, InputTypes DEF Typed, TypeOK
  <2>3. i \in 1 .. Len(Patch(s)) /\ i <= at[s]
    BY <2>2
  <2>4. <<s, i>> \in AllKeys /\ KeyAt(<<s, i>>) = x
    BY <2>1, <2>3, Places
  <2> QED BY <2>3, <2>4 DEF Dealt
<1>3. PICK a \in AllKeys : a[1] = q /\ Dealt(a) /\ KeyAt(a) = x
  BY <1>2
<1>4. PICK b \in AllKeys : b[1] = r /\ Dealt(b) /\ KeyAt(b) = x
  BY <1>2
<1>5. ~ (x >= input.item)
  <2>1. x \in Lines /\ input.item \in Nat
    BY <1>1, InputTypes DEF MarkedBy
  <2> QED BY <2>1 DEF Lines
<1>6. a = b
  BY <1>1, <1>3, <1>4, <1>5 DEF Marks
<1> QED BY <1>3, <1>4, <1>6

LEMMA SubtractStep ==
  ASSUME IInv, NEW r \in Readers, Subtract(r)
  PROVE  IInv'
<1> DEFINE d == subbed[r]
<1>1. /\ Marking(r) /\ at[r] = Len(Patch(r)) /\ d < N
      /\ valid' = [valid EXCEPT ![d] = @ - temp[r][d]]
      /\ subbed' = [subbed EXCEPT ![r] = @ + 1]
      /\ UNCHANGED <<input, phase, status, dirty, read, at, byte, temp,
                     stopped, pass, reader, pos, taken, out, first>>
  BY DEF Subtract, readVars
<1>2. /\ Typed /\ TypeOK /\ Stages /\ Marks /\ Counts /\ input \in Inputs
      /\ phase = "mark" /\ N \in Nat \ {0} /\ Readers = 0 .. N - 1
  BY <1>1, ThreadTypes
<1>3. /\ N' = N /\ Readers' = Readers /\ Lines' = Lines
      /\ Refused' = Refused /\ Unusable' = Unusable
      /\ \A q : Patch(q)' = Patch(q)
      /\ \A j : Begin(j)' = Begin(j) /\ End(j)' = End(j)
                /\ Shard(j)' = Shard(j)
  BY <1>1, SameInput
<1>4. d \in Nat /\ d \in Readers /\ subbed \in [Readers -> Nat]
  <2>1. subbed \in [Readers -> Nat]
    BY <1>2 DEF Typed
  <2>2. d \in Nat /\ d < N
    BY <1>1, <2>1
  <2> QED BY <1>2, <2>1, <2>2
<1>5. \A q \in Readers : subbed'[q] = IF q = r THEN d + 1 ELSE subbed[q]
  BY <1>1, <1>4
<1>6. Marks' /\ \A q : MarkedBy(q)' = MarkedBy(q)
  BY <1>1, <1>2, KeptMarks
<1>7. \A j \in Readers :
        TakenOff(j)' = IF j = d
                       THEN TakenOff(d) \union (MarkedBy(r) \cap Shard(d))
                       ELSE TakenOff(j)
  <2> SUFFICES ASSUME NEW j \in Readers
               PROVE  TakenOff(j)' =
                        IF j = d
                        THEN TakenOff(d) \union (MarkedBy(r) \cap Shard(d))
                        ELSE TakenOff(j)
    OBVIOUS
  <2>1. TakenOff(j)' = {x \in Shard(j) :
          \E q \in Readers : subbed'[q] > j /\ x \in MarkedBy(q)}
    BY <1>3, <1>6 DEF TakenOff
  <2>2. \A q \in Readers : subbed'[q] > j <=>
                           subbed[q] > j \/ (q = r /\ j = d)
    BY <1>2, <1>4, <1>5
  <2>3. \A x : (\E q \in Readers : subbed'[q] > j /\ x \in MarkedBy(q)) <=>
               \/ \E q \in Readers : subbed[q] > j /\ x \in MarkedBy(q)
               \/ j = d /\ x \in MarkedBy(r)
    BY <2>2
  <2> QED BY <2>1, <2>3 DEF TakenOff
<1>8. ASSUME NEW j \in Readers
      PROVE  /\ valid'[j] = Cardinality(Shard(j) \ TakenOff(j)')
             /\ valid'[j] \in 0 .. input.item
  <2>1. valid[j] = Cardinality(Shard(j) \ TakenOff(j))
    BY <1>2 DEF Counts
  <2>2. valid'[j] = IF j = d THEN valid[j] - temp[r][d] ELSE valid[j]
    BY <1>1, <1>2 DEF TypeOK
  <2>3. Shard(j) \subseteq Lines
    BY <1>2, InOneShard
  <2>4. CASE j # d
    BY <1>2, <1>7, <2>1, <2>2, <2>4 DEF TypeOK
  <2>5. CASE j = d
    <3> DEFINE S == Shard(d) \ TakenOff(d)
               T == MarkedBy(r) \cap Shard(d)
    <3>1. T \subseteq S
      <4> SUFFICES ASSUME NEW x \in T, x \in TakenOff(d)
                   PROVE  FALSE
        OBVIOUS
      <4>1. PICK q \in Readers : subbed[q] > d /\ x \in MarkedBy(q)
        BY DEF TakenOff
      <4>2. q = r
        BY <4>1, MarkedOnce
      <4> QED BY <1>4, <4>1, <4>2
    <3>2. IsFiniteSet(S)
      BY <1>2, <2>3, <2>5, FiniteLines
    <3>3. Shard(j) \ TakenOff(j)' = S \ T
      BY <1>7, <2>5
    <3>4. temp[r][d] = Cardinality(T)
      BY <1>2, <1>4 DEF Counts
    <3>5. S \ T \subseteq Lines
      BY <2>3, <2>5
    <3> HIDE DEF S, T
    <3>6. S \cap T = T
      BY <3>1
    <3>7. Cardinality(S \ T) = Cardinality(S) - Cardinality(T)
      BY <3>2, <3>6, FS_Difference
    <3>8. Cardinality(S \ T) \in 0 .. input.item
      BY <1>2, <3>5, FiniteLines
    <3>9. valid[j] = Cardinality(S)
      BY <2>1, <2>5 DEF S
    <3> QED BY <2>2, <2>5, <3>3, <3>4, <3>7, <3>8, <3>9
  <2> QED BY <2>4, <2>5
<1>9. TypeOK'
  <2>1. valid' \in [Readers -> 0 .. input.item]
    BY <1>1, <1>2, <1>8 DEF TypeOK
  <2>2. \A q \in Readers : subbed'[q] \in 0 .. N
    BY <1>1, <1>2, <1>4, <1>5 DEF TypeOK
  <2> QED BY <1>1, <1>2, <1>3, <2>1, <2>2 DEF TypeOK
<1>10. Typed'
  <2>1. subbed' \in [Readers -> Nat]
    BY <1>1, <1>4
  <2>2. Typed
    BY <1>2
  <2> QED BY <1>1, <1>3, <1>9, <2>1, <2>2 DEF Typed
<1>11. Stages'
  BY <1>1, <1>2, <1>3 DEF Stages
<1>12. Counts'
  <2>1. \A q \in Readers : subbed'[q] > 0 => at[q] = Len(Patch(q))
    BY <1>1, <1>2, <1>5 DEF Counts
  <2> QED BY <1>1, <1>2, <1>3, <1>6, <1>8, <2>1 DEF Counts
<1>13. Turns' /\ Order'
  BY <1>1, <1>2 DEF Turns, Order
<1> QED BY <1>6, <1>10, <1>11, <1>12, <1>13 DEF IInv

(* A pass starts with nothing delivered.                                   *)
LEMMA PassStarts ==
  ASSUME input \in Inputs, input' = input, N # 0, reader' = 0, out' = <<>>,
         pos' = [r \in Readers |-> Begin(r)],
         \A r \in Readers : taken'[r] = 0
  PROVE  Turns' /\ Holds(out, SentLines, SentKeys)'
<1>1. /\ N' = N /\ Readers' = Readers /\ Lines' = Lines /\ AllKeys' = AllKeys
      /\ \A r : Patch(r)' = Patch(r)
      /\ \A j : Begin(j)' = Begin(j) /\ End(j)' = End(j)
  BY SameInput
<1>2. /\ Readers = 0 .. N - 1 /\ N \in Nat \ {0} /\ input.item \in Nat
      /\ \A j \in 0 .. N : Begin(j) \in 0 .. input.item
  BY Borders, InputTypes
<1>3. \A r \in Readers : pos'[r] = Begin(r) /\ Begin(r) \in Nat
  <2> SUFFICES ASSUME NEW r \in Readers
               PROVE  pos'[r] = Begin(r) /\ Begin(r) \in Nat
    OBVIOUS
  <2>1. r \in 0 .. N
    BY <1>2
  <2> QED BY <1>2, <2>1
<1>4. Turns'
  BY <1>1, <1>2, <1>3 DEF Turns
<1>5. SentLines' = {}
  <2>1. \A r \in Readers : Begin(r) .. pos'[r] - 1 = {}
    BY <1>3
  <2> QED BY <1>1, <2>1 DEF SentLines
<1>6. SentKeys' = {}
  <2>1. ASSUME NEW a \in AllKeys
        PROVE  ~ (a[2] <= taken'[a[1]])
    <3>1. a[1] \in Readers /\ a[2] \in 1 .. Len(Patch(a[1]))
      BY Places
    <3>2. taken'[a[1]] = 0 /\ Len(Patch(a[1])) \in Nat
      BY <3>1, InputTypes
    <3> QED BY <3>1, <3>2
  <2> QED BY <1>1, <2>1 DEF SentKeys
<1>7. /\ <<>> \in Seq([key : Int, from : {"base", "patch"}])
      /\ Len(<<>>) = 0
  BY EmptySeq
<1>8. Cardinality(SentLines') = 0 /\ Cardinality(SentKeys') = 0
  BY <1>5, <1>6, FS_EmptySet
<1>9. Holds(out, SentLines, SentKeys)'
  BY <1>5, <1>6, <1>7, <1>8 DEF Holds
<1> QED BY <1>4, <1>9

LEMMA JoinStep == IInv /\ Join => IInv'
<1> SUFFICES ASSUME IInv, Join PROVE IInv'
  OBVIOUS
<1>1. /\ phase = "mark" /\ MarkedByAll
      /\ UNCHANGED <<input, dirty, valid, read, at, byte, temp, subbed,
                     stopped, pass, reader, taken, out, first>>
  BY DEF Join, markVars
<1>2. /\ Typed /\ TypeOK /\ Stages /\ Marks /\ Counts /\ input \in Inputs
      /\ status = "running" /\ ~ Refused /\ pass = 0 /\ reader = 0
      /\ out = <<>> /\ \A r \in Readers : taken[r] = 0
  BY <1>1 DEF IInv, Typed, TypeOK, Stages
<1>3. /\ N' = N /\ Readers' = Readers /\ Lines' = Lines /\ AllKeys' = AllKeys
      /\ Refused' = Refused /\ Unusable' = Unusable
      /\ \A r : Patch(r)' = Patch(r)
      /\ \A a : KeyAt(a)' = KeyAt(a)
      /\ \A j : Begin(j)' = Begin(j) /\ End(j)' = End(j)
                /\ Shard(j)' = Shard(j)
  BY <1>1, SameInput
<1>4. Marks'
  BY <1>1, <1>2, KeptMarks
<1>5. Counts'
  BY <1>1, <1>2, KeptCounts
<1>6. CASE stopped # {}
  <2>1. phase' = "done" /\ status' = "BAD_INPUT" /\ pos' = pos
    BY <1>6 DEF Join
  <2>2. TypeOK'
    BY <1>1, <1>2, <1>3, <2>1 DEF TypeOK
  <2>3. Typed'
    BY <1>1, <1>2, <1>3, <2>1, <2>2 DEF Typed
  <2>4. Stages'
    BY <1>1, <1>2, <1>3, <1>6, <2>1 DEF Stages
  <2>5. Turns' /\ Order'
    BY <2>1 DEF Turns, Order
  <2> QED BY <1>4, <1>5, <2>3, <2>4, <2>5 DEF IInv
<1>7. CASE stopped = {}
  <2>1. /\ phase' = "read" /\ status' = status
        /\ pos' = [r \in Readers |-> Begin(r)]
    BY <1>7 DEF Join
  <2>2. /\ Readers = 0 .. N - 1 /\ N \in Nat \ {0} /\ input.item \in Nat
        /\ \A j \in 0 .. N : Begin(j) \in 0 .. input.item
        /\ \A i, j \in 0 .. N : i <= j => Begin(i) <= Begin(j)
        /\ \A j \in Readers : j + 1 \in 0 .. N /\ End(j) = Begin(j + 1)
    BY <1>2, Borders, InputTypes DEF Refused
  <2>3. \A r \in Readers : /\ pos'[r] = Begin(r) /\ Begin(r) \in Nat
                           /\ Begin(r) \in Begin(r) .. End(r)
    <3> SUFFICES ASSUME NEW r \in Readers
                 PROVE  /\ pos'[r] = Begin(r) /\ Begin(r) \in Nat
                        /\ Begin(r) \in Begin(r) .. End(r)
      OBVIOUS
    <3>1. /\ r \in 0 .. N /\ r + 1 \in 0 .. N /\ r <= r + 1
          /\ End(r) = Begin(r + 1)
      BY <2>2
    <3>2. Begin(r) <= End(r) /\ Begin(r) \in Nat /\ End(r) \in Nat
      BY <2>2, <3>1
    <3> QED BY <2>1, <3>2
  <2>4. \A r \in Readers : subbed[r] = N /\ at[r] = Len(Patch(r))
    <3>1. \A r \in Readers : subbed[r] = N
      BY <1>1, <1>7 DEF MarkedByAll
    <3> QED BY <1>2, <2>2, <3>1 DEF Counts
  <2>5. \A a \in AllKeys : Dealt(a) /\ KeyAt(a) # Bad
    <3> SUFFICES ASSUME NEW a \in AllKeys
                 PROVE  Dealt(a) /\ KeyAt(a) # Bad
      OBVIOUS
    <3>1. a[1] \in Readers /\ a[2] \in 1 .. Len(Patch(a[1]))
      BY Places
    <3>2. /\ at[a[1]] = Len(Patch(a[1])) /\ at[a[1]] <= read[a[1]]
          /\ read[a[1]] <= Len(Patch(a[1])) /\ Len(Patch(a[1])) \in Nat
          /\ read[a[1]] \in Nat
      BY <1>2, <2>4, <3>1, InputTypes DEF TypeOK, Typed
    <3>3. a[2] \in 1 .. read[a[1]]
      BY <3>1, <3>2
    <3>4. Patch(a[1])[a[2]] # Bad
      BY <1>2, <3>1, <3>3 DEF Marks
    <3> QED BY <3>1, <3>2, <3>4 DEF Dealt, KeyAt
  <2>6. ~ Unusable
    <3>1. ~ input.indexOnly /\ N \in 1 .. MaxReaders /\ ~ (input.item < N)
      <4>1. MaxReaders \in Nat
        BY ParamAssumption
      <4> QED BY <1>2, <2>2, <4>1 DEF Refused
    <3>2. \A a, b \in AllKeys : a # b /\ KeyAt(a) = KeyAt(b)
                                => ~ (KeyAt(a) < input.item)
      <4> SUFFICES ASSUME NEW a \in AllKeys, NEW b \in AllKeys, a # b,
                          KeyAt(a) = KeyAt(b)
                   PROVE  ~ (KeyAt(a) < input.item)
        OBVIOUS
      <4>1. KeyAt(a) >= input.item
        BY <1>2, <2>5 DEF Marks
      <4>2. KeyAt(a) \in Nat \union {Bad}
        BY <1>2, Places, InputTypes DEF KeyAt
      <4>3. KeyAt(a) \in Int
        BY <4>2 DEF Bad
      <4> QED BY <2>2, <4>1, <4>3
    <3> QED BY <2>5, <3>1, <3>2 DEF Unusable
  <2>7. TypeOK'
    BY <1>1, <1>2, <1>3, <2>1, <2>3 DEF TypeOK
  <2>8. Typed'
    <3>1. pos' \in [Readers -> Nat]
      BY <2>1, <2>3
    <3> QED BY <1>1, <1>2, <1>3, <2>7, <3>1 DEF Typed
  <2>9. Stages'
    BY <1>1, <1>2, <1>3, <1>7, <2>1, <2>4, <2>6 DEF Stages
  <2>10. Turns' /\ Holds(out, SentLines, SentKeys)'
    <3>1. N # 0 /\ reader' = 0 /\ out' = <<>>
      BY <1>1, <1>2, <2>2
    <3>2. \A r \in Readers : taken'[r] = 0
      BY <1>1, <1>2
    <3> QED BY <1>1, <1>2, <2>1, <3>1, <3>2, PassStarts
  <2>11. Order'
    <3>1. ~ (pass' > 0)
      BY <1>1, <1>2
    <3> QED BY <2>10, <3>1 DEF Order
  <2> QED BY <1>4, <1>5, <2>8, <2>9, <2>10, <2>11 DEF IInv
<1> QED BY <1>6, <1>7

----------------------------------------------------------------------------
(* The steps of the reading.                                               *)

LEMMA ReadTypes ==
  ASSUME IInv, phase = "read"
  PROVE  /\ Typed /\ TypeOK /\ Stages /\ Marks /\ Counts /\ Turns /\ Order
         /\ input \in Inputs /\ status = "running"
         /\ ~ Unusable /\ ~ Refused
         /\ N \in Nat \ {0} /\ Readers = 0 .. N - 1 /\ input.item \in Nat
         /\ reader \in 0 .. N
         /\ \A r \in Readers :
              /\ Begin(r) \in Nat /\ End(r) \in Nat /\ pos[r] \in Nat
              /\ Begin(r) <= pos[r] /\ pos[r] <= End(r)
              /\ taken[r] \in Nat /\ Len(Patch(r)) \in Nat
              /\ taken[r] <= Len(Patch(r))
<1>1. /\ Typed /\ TypeOK /\ Stages /\ Marks /\ Counts /\ Turns /\ Order
      /\ input \in Inputs /\ status = "running" /\ ~ Unusable /\ ~ Refused
      /\ reader \in 0 .. N
  BY DEF IInv, Typed, TypeOK, Stages
<1>2. /\ N \in Nat \ {0} /\ Readers = 0 .. N - 1 /\ input.item \in Nat
      /\ \A j \in 0 .. N : Begin(j) \in 0 .. input.item
      /\ \A j \in Readers : j + 1 \in 0 .. N /\ End(j) = Begin(j + 1)
  BY <1>1, Borders, InputTypes DEF Refused
<1>3. ASSUME NEW r \in Readers
      PROVE  /\ Begin(r) \in Nat /\ End(r) \in Nat /\ pos[r] \in Nat
             /\ Begin(r) <= pos[r] /\ pos[r] <= End(r)
             /\ taken[r] \in Nat /\ Len(Patch(r)) \in Nat
             /\ taken[r] <= Len(Patch(r))
  <2>1. r \in 0 .. N /\ r + 1 \in 0 .. N /\ End(r) = Begin(r + 1)
    BY <1>2
  <2>2. Begin(r) \in Nat /\ End(r) \in Nat
    BY <1>2, <2>1
  <2>3. pos[r] \in Begin(r) .. End(r) /\ taken[r] \in 0 .. Len(Patch(r))
    BY <1>1 DEF TypeOK
  <2>4. Len(Patch(r)) \in Nat
    BY <1>1, InputTypes
  <2> QED BY <2>2, <2>3, <2>4
<1> QED BY <1>1, <1>2, <1>3

(* When the threads are joined, a shard's count is that of its clean lines. *)
LEMMA ValidIs ==
  ASSUME IInv, phase = "read", NEW j \in Readers
  PROVE  valid[j] = Cardinality({p \in Shard(j) : p \notin dirty})
<1>1. /\ Counts /\ Marks /\ N \in Nat \ {0} /\ Readers = 0 .. N - 1
      /\ \A r \in Readers : subbed[r] = N
  BY ReadTypes DEF Stages
<1>2. \A r \in Readers : subbed[r] > j
  BY <1>1
<1>3. \A x : (\E r \in Readers : x \in MarkedBy(r)) <=> x \in dirty
  BY <1>1 DEF Marks
<1>4. Shard(j) \ TakenOff(j) = {p \in Shard(j) : p \notin dirty}
  BY <1>2, <1>3 DEF TakenOff
<1> QED BY <1>1, <1>4 DEF Counts

(* A reader that has delivered its total has delivered all it has.         *)
LEMMA ReadOut ==
  ASSUME IInv, phase = "read", reader < N, ~ Reading
  PROVE  /\ reader \in Readers /\ Clean(reader) = {}
         /\ taken[reader] = Len(Patch(reader))
<1> DEFINE r == reader
           A == {p \in Begin(r) .. pos[r] - 1 : p \notin dirty}
           B == {p \in Shard(r) : p \notin dirty}
<1>1. r \in Readers /\ input \in Inputs /\ N # 0
  BY ReadTypes
<1>2. /\ Begin(r) \in Nat /\ End(r) \in Nat /\ pos[r] \in Nat
      /\ Begin(r) <= pos[r] /\ pos[r] <= End(r)
      /\ taken[r] \in Nat /\ Len(Patch(r)) \in Nat
      /\ taken[r] <= Len(Patch(r))
  BY <1>1, ReadTypes
<1>3. ~ (Cardinality(A) + taken[r] < valid[r] + Len(Patch(r)))
  BY DEF Reading, Delivered
<1>4. valid[r] = Cardinality(B)
  BY <1>1, ValidIs
<1>5. A \subseteq B
  BY <1>2 DEF Shard
<1>6. B \subseteq Lines
  BY <1>1, InOneShard
<1>7. IsFiniteSet(B) /\ Cardinality(B) \in Nat
  BY <1>1, <1>6, FiniteLines, InputTypes
<1>8. Cardinality(A) \in Nat
  BY <1>1, <1>5, <1>6, FiniteLines, InputTypes
<1>9. Cardinality(A) <= Cardinality(B)
  BY <1>5, <1>7, FS_Subset
<1>10. Cardinality(A) = Cardinality(B) /\ taken[r] = Len(Patch(r))
  <2> HIDE DEF A, B, r
  <2> QED BY <1>2, <1>3, <1>4, <1>7, <1>8, <1>9
<1>11. A = B
  BY <1>5, <1>7, <1>10, FS_Subset
<1>12. Clean(r) = {}
  <2> SUFFICES ASSUME NEW p \in Clean(r)
               PROVE  FALSE
    OBVIOUS
  <2>1. p \in pos[r] .. End(r) - 1 /\ p \notin dirty
    BY DEF Clean
  <2>2. p \in B /\ p \notin A
    BY <1>2, <2>1 DEF Shard
  <2> QED BY <1>11, <2>2
<1> QED BY <1>1, <1>10, <1>12

(* How far a pass is: all of the readers before the current one, nothing   *)
(* of those after it.                                                      *)
LEMMA SentIff ==
  ASSUME IInv, phase = "read", NEW y \in CleanLines, NEW q \in Readers,
         y \in Shard(q)
  PROVE  /\ y \in SentLines <=> y < pos[q]
         /\ q < reader => y \in SentLines
         /\ q > reader => y \notin SentLines
<1>1. /\ input \in Inputs /\ N \in Nat \ {0} /\ Turns
      /\ Readers = 0 .. N - 1 /\ reader \in 0 .. N
  BY ReadTypes
<1>2. \A r \in Readers :
        /\ Begin(r) \in Nat /\ End(r) \in Nat /\ pos[r] \in Nat
        /\ Begin(r) <= pos[r] /\ pos[r] <= End(r)
  BY ReadTypes
<1>3. y \in Int /\ Begin(q) <= y /\ y < End(q) /\ y \notin dirty
  BY <1>2 DEF Shard, CleanLines
<1>4. y \in SentLines <=> y < pos[q]
  <2>1. ASSUME NEW r \in Readers, y \in Begin(r) .. pos[r] - 1
        PROVE  r = q
    <3>1. y \in Shard(r)
      BY <1>2, <2>1 DEF Shard
    <3> QED BY <1>1, <3>1, InOneShard
  <2>2. y \in Begin(q) .. pos[q] - 1 <=> y < pos[q]
    BY <1>2, <1>3
  <2> QED BY <2>1, <2>2 DEF SentLines
<1>5. q < reader => y \in SentLines
  <2>1. q < reader => Clean(q) = {}
    BY <1>1, <1>2 DEF Turns
  <2>2. ~ (y < pos[q]) => y \in Clean(q)
    BY <1>2, <1>3 DEF Clean
  <2> QED BY <1>4, <2>1, <2>2
<1>6. q > reader => y \notin SentLines
  <2>1. q > reader => pos[q] = Begin(q)
    BY <1>1 DEF Turns
  <2> QED BY <1>2, <1>3, <1>4, <2>1
<1> QED BY <1>4, <1>5, <1>6

LEMMA SentKeyIff ==
  ASSUME IInv, phase = "read", NEW b \in AllKeys
  PROVE  /\ b \in SentKeys <=> b[2] <= taken[b[1]]
         /\ b[1] < reader => b \in SentKeys
         /\ b[1] > reader => b \notin SentKeys
<1>1. Turns
  BY ReadTypes
<1>2. b[1] \in Readers /\ b[2] \in 1 .. Len(Patch(b[1]))
  BY Places
<1>3. Len(Patch(b[1])) \in Nat /\ taken[b[1]] \in Nat
  BY <1>2, ReadTypes
<1>4. b \in SentKeys <=> b[2] <= taken[b[1]]
  BY DEF SentKeys
<1>5. b[1] < reader => taken[b[1]] = Len(Patch(b[1]))
  BY <1>1, <1>2 DEF Turns
<1>6. b[1] > reader => taken[b[1]] = 0
  BY <1>1, <1>2 DEF Turns
<1> QED BY <1>2, <1>3, <1>4, <1>5, <1>6

(* The places do not change while the bitmap does not.                     *)
LEMMA SamePlaces ==
  ASSUME UNCHANGED <<input, dirty>>
  PROVE  /\ CleanLines' = CleanLines
         /\ \A x : LineIndex(x)' = LineIndex(x)
         /\ \A a : KeyIndex(a)' = KeyIndex(a)
<1>1. /\ Lines' = Lines /\ AllKeys' = AllKeys
      /\ \A j : End(j)' = End(j)
  BY SameInput
<1>2. CleanLines' = CleanLines
  BY <1>1 DEF CleanLines
<1>3. \A x : LineIndex(x)' = LineIndex(x)
  BY <1>1, <1>2 DEF LineIndex, LinesUpTo, KeysBefore
<1>4. \A a : KeyIndex(a)' = KeyIndex(a)
  BY <1>1, <1>2 DEF KeyIndex, KeysUpTo, LinesBefore
<1> QED BY <1>2, <1>3, <1>4

LEMMA SentNext ==
  ASSUME input \in Inputs, N # 0, UNCHANGED <<input, dirty>>,
         \A r \in Readers : /\ Begin(r) \in Nat /\ End(r) \in Nat
                            /\ pos'[r] \in Nat
                            /\ Begin(r) <= pos'[r] /\ pos'[r] <= End(r),
         NEW y \in CleanLines, NEW q \in Readers, y \in Shard(q)
  PROVE  y \in SentLines' <=> y < pos'[q]
<1>1. y \in Int /\ Begin(q) <= y /\ y < End(q)
  BY DEF Shard
<1>2. ASSUME NEW r \in Readers, y \in Begin(r) .. pos'[r] - 1
      PROVE  r = q
  <2>1. y < End(r) /\ Begin(r) <= y
    BY <1>1, <1>2
  <2>2. y \in Shard(r)
    BY <1>1, <2>1 DEF Shard
  <2> QED BY <2>2, InOneShard
<1>3. y \in Begin(q) .. pos'[q] - 1 <=> y < pos'[q]
  BY <1>1
<1>4. CleanLines' = CleanLines
  BY SamePlaces
<1>5. /\ Readers' = Readers
      /\ \A j : Begin(j)' = Begin(j)
  BY SameInput
<1> QED BY <1>2, <1>3, <1>4, <1>5 DEF SentLines

LEMMA HoldsNext ==
  ASSUME UNCHANGED <<input, dirty>>, Holds(out', SentLines', SentKeys')
  PROVE  Holds(out, SentLines, SentKeys)'
<1>1. /\ \A x : LineIndex(x)' = LineIndex(x)
      /\ \A a : KeyIndex(a)' = KeyIndex(a)
  BY SamePlaces
<1>2. \A a : KeyAt(a)' = KeyAt(a)
  BY SameInput
<1> QED BY <1>1, <1>2 DEF Holds

LEMMA FirstKept ==
  ASSUME UNCHANGED <<input, dirty, first>>, Holds(first, CleanLines, AllKeys)
  PROVE  Holds(first, CleanLines, AllKeys)'
<1>1. /\ \A x : LineIndex(x)' = LineIndex(x)
      /\ \A a : KeyIndex(a)' = KeyIndex(a)
      /\ CleanLines' = CleanLines
  BY SamePlaces
<1>2. AllKeys' = AllKeys /\ \A a : KeyAt(a)' = KeyAt(a)
  BY SameInput
<1> QED BY <1>1, <1>2 DEF Holds

(* One more line, or one more key, put at its place.                       *)
LEMMA OneMoreLine ==
  ASSUME input \in Inputs, NEW s, NEW S, S \subseteq CleanLines,
         NEW T, T \subseteq AllKeys, Holds(s, S, T),
         NEW x \in CleanLines, x \notin S, LineIndex(x) = Len(s) + 1
  PROVE  Holds(Append(s, [key |-> x, from |-> "base"]), S \union {x}, T)
<1> DEFINE e == [key |-> x, from |-> "base"]
           t == Append(s, e)
           U == S \union {x}
<1>1. /\ s \in Seq([key : Int, from : {"base", "patch"}])
      /\ Len(s) = Cardinality(S) + Cardinality(T) /\ Len(s) \in Nat
  BY LenProperties DEF Holds
<1>2. e \in [key : Int, from : {"base", "patch"}]
  <2>1. input.item \in Nat
    BY InputTypes
  <2> QED BY <2>1 DEF CleanLines, Lines
<1>3. /\ t \in Seq([key : Int, from : {"base", "patch"}])
      /\ Len(t) = Len(s) + 1 /\ t[Len(s) + 1] = e
      /\ \A i \in 1 .. Len(s) : t[i] = s[i]
  BY <1>1, <1>2, AppendProperties
<1>4. IsFiniteSet(S) /\ Cardinality(S) \in Nat /\ Cardinality(T) \in Nat
  <2>1. S \subseteq Lines
    BY DEF CleanLines
  <2> QED BY <2>1, FiniteLines, FiniteKeys, InputTypes
<1>5. Cardinality(U) = Cardinality(S) + 1
  BY <1>4, FS_AddElement
<1>6. Len(t) = Cardinality(U) + Cardinality(T)
  <2> HIDE DEF t, U
  <2> QED BY <1>1, <1>3, <1>4, <1>5
<1> HIDE DEF t, e
<1>7. ASSUME NEW y \in U
      PROVE  /\ LineIndex(y) \in 1 .. Len(t)
             /\ t[LineIndex(y)] = [key |-> y, from |-> "base"]
  <2>1. CASE y = x
    BY <1>1, <1>3, <2>1 DEF e
  <2>2. CASE y \in S
    <3>1. /\ LineIndex(y) \in 1 .. Len(s)
          /\ s[LineIndex(y)] = [key |-> y, from |-> "base"]
      BY <2>2 DEF Holds
    <3> QED BY <1>1, <1>3, <3>1
  <2> QED BY <2>1, <2>2
<1>8. ASSUME NEW a \in T
      PROVE  /\ KeyIndex(a) \in 1 .. Len(t)
             /\ t[KeyIndex(a)] = [key |-> KeyAt(a), from |-> "patch"]
  <2>1. /\ KeyIndex(a) \in 1 .. Len(s)
        /\ s[KeyIndex(a)] = [key |-> KeyAt(a), from |-> "patch"]
    BY DEF Holds
  <2> QED BY <1>1, <1>3, <2>1
<1>9. ASSUME NEW n \in 1 .. Len(t)
      PROVE  \/ \E y \in U : n = LineIndex(y)
             \/ \E a \in T : n = KeyIndex(a)
  <2>1. CASE n = Len(s) + 1
    BY <2>1
  <2>2. CASE n # Len(s) + 1
    <3>1. n \in 1 .. Len(s)
      BY <1>1, <1>3, <2>2
    <3> QED BY <3>1 DEF Holds
  <2> QED BY <2>1, <2>2
<1>10. \A a, b \in T : KeyIndex(a) = KeyIndex(b) => a = b
  BY DEF Holds
<1>11. Holds(t, U, T)
  <2> HIDE DEF U
  <2> QED BY <1>3, <1>6, <1>7, <1>8, <1>9, <1>10 DEF Holds
<1> QED BY <1>11 DEF t, e

LEMMA OneMoreKey ==
  ASSUME input \in Inputs, NEW s, NEW S, S \subseteq CleanLines,
         NEW T, T \subseteq AllKeys, Holds(s, S, T),
         NEW a \in AllKeys, a \notin T, KeyIndex(a) = Len(s) + 1
  PROVE  Holds(Append(s, [key |-> KeyAt(a), from |-> "patch"]), S,
               T \union {a})
<1> DEFINE e == [key |-> KeyAt(a), from |-> "patch"]
           t == Append(s, e)
           U == T \union {a}
<1>1. /\ s \in Seq([key : Int, from : {"base", "patch"}])
      /\ Len(s) = Cardinality(S) + Cardinality(T) /\ Len(s) \in Nat
  BY LenProperties DEF Holds
<1>2. e \in [key : Int, from : {"base", "patch"}]
  <2>1. KeyAt(a) \in Nat \union {Bad}
    BY Places, InputTypes DEF KeyAt
  <2> QED BY <2>1 DEF Bad
<1>3. /\ t \in Seq([key : Int, from : {"base", "patch"}])
      /\ Len(t) = Len(s) + 1 /\ t[Len(s) + 1] = e
      /\ \A i \in 1 .. Len(s) : t[i] = s[i]
  BY <1>1, <1>2, AppendProperties
<1>4. IsFiniteSet(T) /\ Cardinality(S) \in Nat /\ Cardinality(T) \in Nat
  <2>1. S \subseteq Lines
    BY DEF CleanLines
  <2> QED BY <2>1, FiniteLines, FiniteKeys, InputTypes
<1>5. Cardinality(U) = Cardinality(T) + 1
  BY <1>4, FS_AddElement
<1>6. Len(t) = Cardinality(S) + Cardinality(U)
  <2> HIDE DEF t, U
  <2> QED BY <1>1, <1>3, <1>4, <1>5
<1> HIDE DEF t, e
<1>7. ASSUME NEW b \in U
      PROVE  /\ KeyIndex(b) \in 1 .. Len(t)
             /\ t[KeyIndex(b)] = [key |-> KeyAt(b), from |-> "patch"]
  <2>1. CASE b = a
    BY <1>1, <1>3, <2>1 DEF e
  <2>2. CASE b \in T
    <3>1. /\ KeyIndex(b) \in 1 .. Len(s)
          /\ s[KeyIndex(b)] = [key |-> KeyAt(b), from |-> "patch"]
      BY <2>2 DEF Holds
    <3> QED BY <1>1, <1>3, <3>1
  <2> QED BY <2>1, <2>2
<1>8. ASSUME NEW y \in S
      PROVE  /\ LineIndex(y) \in 1 .. Len(t)
             /\ t[LineIndex(y)] = [key |-> y, from |-> "base"]
  <2>1. /\ LineIndex(y) \in 1 .. Len(s)
        /\ s[LineIndex(y)] = [key |-> y, from |-> "base"]
    BY DEF Holds
  <2> QED BY <1>1, <1>3, <2>1
<1>9. ASSUME NEW n \in 1 .. Len(t)
      PROVE  \/ \E y \in S : n = LineIndex(y)
             \/ \E b \in U : n = KeyIndex(b)
  <2>1. CASE n = Len(s) + 1
    BY <2>1
  <2>2. CASE n # Len(s) + 1
    <3>1. n \in 1 .. Len(s)
      BY <1>1, <1>3, <2>2
    <3> QED BY <3>1 DEF Holds
  <2> QED BY <2>1, <2>2
<1>10. ASSUME NEW b \in U, NEW c \in U, KeyIndex(b) = KeyIndex(c)
       PROVE  b = c
  <2>1. \A d \in T : KeyIndex(d) \in 1 .. Len(s)
    BY DEF Holds
  <2>2. \A d \in T : KeyIndex(d) # KeyIndex(a)
    BY <1>1, <2>1
  <2>3. b \in T /\ c \in T => b = c
    BY <1>10 DEF Holds
  <2> QED BY <1>10, <2>2, <2>3
<1>11. Holds(t, S, U)
  <2> HIDE DEF U
  <2> QED BY <1>3, <1>6, <1>7, <1>8, <1>9, <1>10 DEF Holds
<1> QED BY <1>11 DEF t, e

(* What a step of the reading leaves as it is.                             *)
LEMMA ReadStays ==
  ASSUME IInv, phase = "read", phase' = "read", pass' < Passes,
         UNCHANGED <<input, status, dirty, valid, read, at, byte, temp,
                     subbed, stopped>>,
         pos' \in [Readers -> Nat], taken' \in [Readers -> Nat],
         \A r \in Readers : /\ Begin(r) <= pos'[r] /\ pos'[r] <= End(r)
                            /\ taken'[r] <= Len(Patch(r)),
         out' \in Seq([key : Int, from : {"base", "patch"}]),
         pass' \in 0 .. Passes, reader' \in 0 .. N
  PROVE  Typed' /\ Stages' /\ Marks' /\ Counts'
<1>1. /\ Typed /\ TypeOK /\ Stages /\ Marks /\ Counts /\ input \in Inputs
      /\ N \in Nat /\ Passes \in Nat
      /\ \A r \in Readers : /\ Begin(r) \in Nat /\ End(r) \in Nat
                            /\ Len(Patch(r)) \in Nat
  BY ReadTypes, InputTypes
<1>2. /\ N' = N /\ Readers' = Readers /\ Lines' = Lines /\ AllKeys' = AllKeys
      /\ Refused' = Refused /\ Unusable' = Unusable
      /\ \A r : Patch(r)' = Patch(r)
      /\ \A j : Begin(j)' = Begin(j) /\ End(j)' = End(j)
  BY SameInput
<1>3. \A r \in Readers : /\ pos'[r] \in Begin(r) .. End(r)
                         /\ taken'[r] \in 0 .. Len(Patch(r))
  BY <1>1
<1>4. TypeOK'
  BY <1>1, <1>2, <1>3 DEF TypeOK
<1>5. Typed'
  BY <1>1, <1>2, <1>4 DEF Typed
<1>6. Stages'
  BY <1>1, <1>2 DEF Stages
<1>7. Marks'
  BY <1>1, KeptMarks
<1>8. Counts'
  BY <1>1, KeptCounts
<1> QED BY <1>5, <1>6, <1>7, <1>8

LEMMA ReadLineStep == IInv /\ ReadLine => IInv'
<1> SUFFICES ASSUME IInv, ReadLine PROVE IInv'
  OBVIOUS
<1> DEFINE c == reader
<1>1. /\ phase = "read" /\ c < N /\ Clean(c) # {}
      /\ UNCHANGED <<input, phase, status, dirty, valid, read, at, byte,
                     temp, subbed, stopped, pass, reader, taken, first>>
  BY DEF ReadLine, Reading, markVars
<1>2. PICK x \in Clean(c) :
        /\ \A q \in Clean(c) : x <= q
        /\ out' = Append(out, [key |-> x, from |-> "base"])
        /\ pos' = [pos EXCEPT ![c] = x + 1]
  BY DEF ReadLine
<1>3. /\ Typed /\ TypeOK /\ Stages /\ Turns /\ Order /\ input \in Inputs
      /\ N # 0 /\ c \in Readers /\ c \in Nat
      /\ reader \in 0 .. N /\ input.item \in Nat
      /\ \A r \in Readers : r \in Int
  <2>1. /\ Typed /\ TypeOK /\ Stages /\ Turns /\ Order /\ input \in Inputs
        /\ N \in Nat \ {0} /\ Readers = 0 .. N - 1
        /\ reader \in 0 .. N /\ input.item \in Nat
    BY <1>1, ReadTypes
  <2> QED BY <1>1, <2>1
<1>4. \A r \in Readers :
        /\ Begin(r) \in Nat /\ End(r) \in Nat /\ pos[r] \in Nat
        /\ Begin(r) <= pos[r] /\ pos[r] <= End(r)
        /\ taken[r] \in Nat /\ Len(Patch(r)) \in Nat
        /\ taken[r] <= Len(Patch(r))
  BY <1>1, ReadTypes
<1>5. /\ Begin(c) \in Nat /\ End(c) \in Nat /\ pos[c] \in Nat
      /\ Begin(c) <= pos[c] /\ pos[c] <= End(c) /\ taken[c] \in Nat
  BY <1>3, <1>4
<1>6. /\ N' = N /\ Readers' = Readers /\ AllKeys' = AllKeys
      /\ \A r : Patch(r)' = Patch(r)
      /\ \A j : Begin(j)' = Begin(j) /\ End(j)' = End(j)
  BY <1>1, SameInput
<1>7. /\ x \in Nat /\ pos[c] <= x /\ x < End(c) /\ x \notin dirty
      /\ x \in Shard(c) /\ x \in CleanLines
  <2>1. x \in pos[c] .. End(c) - 1 /\ x \notin dirty
    BY DEF Clean
  <2>2. x \in Shard(c)
    BY <1>3, <1>4, <1>5, <2>1 DEF Shard
  <2>3. x \in Lines
    BY <1>3, <2>2, InOneShard
  <2> QED BY <1>3, <1>4, <1>5, <2>1, <2>2, <2>3 DEF CleanLines
<1>8. taken[c] = 0
  BY <1>1, <1>3, <1>4, <1>5 DEF Turns
<1>9. \A r \in Readers : pos'[r] = IF r = c THEN x + 1 ELSE pos[r]
  BY <1>2, <1>3 DEF Typed
<1>10. \A q \in Readers : /\ q < c => End(q) <= x
                          /\ q >= c => x < End(q)
                          /\ q > c => x < Begin(q)
  BY <1>3, <1>7, InOneShard
<1>11. x + 1 \in Nat /\ Begin(c) <= x + 1 /\ x + 1 <= End(c)
  BY <1>5, <1>7
<1>12. ASSUME NEW r \in Readers
       PROVE  /\ pos'[r] \in Nat
              /\ Begin(r) <= pos'[r] /\ pos'[r] <= End(r)
  <2>1. CASE r = c
    BY <1>9, <1>11, <2>1
  <2>2. CASE r # c
    BY <1>4, <1>9, <2>2
  <2> QED BY <2>1, <2>2
<1>13. ASSUME NEW y \in CleanLines
      PROVE  /\ y \in SentLines' <=> y \in SentLines \union {x}
             /\ y \in SentLines' <=> y <= x
  <2>1. PICK q \in Readers : y \in Shard(q)
    BY <1>3, Cover DEF CleanLines
  <2>2. y \in Int /\ Begin(q) <= y /\ y < End(q) /\ y \notin dirty
    BY <1>4, <1>5, <2>1 DEF Shard, CleanLines
  <2>3. y \in SentLines' <=> y < pos'[q]
    BY <1>1, <1>3, <1>4, <1>12, <2>1, SentNext
  <2>4. /\ y \in SentLines <=> y < pos[q]
        /\ q < c => y \in SentLines
        /\ q > c => y \notin SentLines
    BY <1>1, <2>1, SentIff
  <2>5. /\ q < c => End(q) <= x
        /\ q > c => x < Begin(q)
    BY <1>10
  <2>6. /\ Begin(q) \in Nat /\ End(q) \in Nat /\ pos[q] \in Nat
         /\ pos[q] <= End(q) /\ Begin(q) <= pos[q] /\ q \in Int /\ x \in Nat
    BY <1>3, <1>4, <1>7
  <2>7. CASE q = c
    <3>1. pos'[q] = x + 1
      BY <1>9, <2>7
    <3>2. ~ (y < pos[c]) => y \in Clean(c)
      BY <1>4, <1>5, <2>2, <2>7 DEF Clean
    <3>3. ~ (y < pos[c]) => x <= y
      BY <1>2, <3>2
    <3> QED BY <1>3, <1>4, <1>5, <1>7, <2>2, <2>3, <2>4, <2>7, <3>1, <3>3
  <2>8. CASE q < c
    <3>1. pos'[q] = pos[q] /\ y < x
      BY <1>3, <1>9, <2>2, <2>5, <2>6, <2>8
    <3> QED BY <2>3, <2>4, <2>8, <2>6, <2>2, <3>1
  <2>9. CASE q > c
    <3>1. pos'[q] = pos[q] /\ y # x
      BY <1>3, <1>9, <2>2, <2>5, <2>6, <2>9
    <3>2. x < y
      BY <2>2, <2>5, <2>6, <2>9
    <3> QED BY <2>2, <2>3, <2>4, <2>9, <2>6, <3>1, <3>2
  <2> QED BY <1>3, <2>7, <2>8, <2>9
<1>14. CleanLines' = CleanLines /\ SentLines \subseteq CleanLines
       /\ SentLines' \subseteq CleanLines
  BY <1>1, SamePlaces DEF SentLines
<1>15. SentLines' = SentLines \union {x} /\ SentLines' = LinesUpTo(x)
  BY <1>7, <1>13, <1>14 DEF LinesUpTo
<1>16. SentKeys' = SentKeys
  BY <1>1, <1>6 DEF SentKeys
<1>17. KeysBefore(x) = SentKeys
  <2> SUFFICES ASSUME NEW b \in AllKeys
               PROVE  End(b[1]) <= x <=> b \in SentKeys
    BY DEF KeysBefore, SentKeys
  <2>1. b[1] \in Readers /\ b[2] \in Nat \ {0}
    <3>1. b[1] \in Readers /\ b[2] \in 1 .. Len(Patch(b[1]))
      BY Places
    <3> QED BY <1>4, <1>5, <3>1
  <2>2. /\ b \in SentKeys <=> b[2] <= taken[b[1]]
        /\ b[1] < c => b \in SentKeys
        /\ b[1] > c => b \notin SentKeys
    BY <1>1, SentKeyIff
  <2>3. /\ b[1] < c => End(b[1]) <= x
        /\ b[1] >= c => x < End(b[1])
    BY <1>10, <2>1
  <2>4. End(b[1]) \in Nat /\ b[1] \in Int
    BY <1>3, <1>4, <2>1
  <2>5. CASE b[1] < c
    BY <2>2, <2>3, <2>5
  <2>6. CASE b[1] > c
    BY <1>3, <1>7, <2>2, <2>3, <2>4, <2>6
  <2>7. CASE b[1] = c
    <3>1. b \notin SentKeys
      BY <1>8, <2>1, <2>2, <2>7
    <3>2. x < End(b[1]) /\ End(b[1]) \in Nat /\ x \in Nat
      BY <1>3, <1>7, <2>3, <2>4, <2>7
    <3>3. ~ (End(b[1]) <= x)
      BY <3>2
    <3> QED BY <3>1, <3>3
  <2> QED BY <1>3, <2>4, <2>5, <2>6, <2>7
<1>18. Holds(out, SentLines, SentKeys)
  BY <1>1, <1>3 DEF Order
<1>19. x \notin SentLines
  <2>1. x \in SentLines <=> x < pos[c]
    BY <1>1, <1>3, <1>7, SentIff
  <2> QED BY <1>3, <1>4, <1>5, <1>7, <2>1
<1>20. LineIndex(x) = Len(out) + 1
  <2>1. /\ IsFiniteSet(SentLines) /\ Cardinality(SentLines) \in Nat
        /\ Cardinality(SentKeys) \in Nat
    <3>1. SentLines \subseteq Lines /\ SentKeys \subseteq AllKeys
      BY DEF SentLines, CleanLines, SentKeys
    <3> QED BY <1>3, <3>1, FiniteLines, FiniteKeys, InputTypes
  <2>2. Cardinality(LinesUpTo(x)) = Cardinality(SentLines) + 1
    BY <1>15, <1>19, <2>1, FS_AddElement
  <2>3. Len(out) = Cardinality(SentLines) + Cardinality(SentKeys)
    BY <1>18 DEF Holds
  <2> QED BY <1>17, <2>1, <2>2, <2>3 DEF LineIndex
<1>21. Holds(out, SentLines, SentKeys)'
  <2>1. SentKeys \subseteq AllKeys
    BY DEF SentKeys
  <2>2. Holds(out', SentLines \union {x}, SentKeys)
    BY <1>2, <1>3, <1>7, <1>14, <1>18, <1>19, <1>20, <2>1, OneMoreLine
  <2> QED BY <1>1, <1>15, <1>16, <2>2, HoldsNext
<1>22. Order'
  <2>1. pass > 0 => Holds(first, CleanLines, AllKeys)'
    BY <1>1, <1>3, FirstKept DEF Order
  <2> QED BY <1>1, <1>21, <2>1 DEF Order
<1>23. Turns'
  <2>1. ASSUME NEW r \in Readers
        PROVE  /\ r < c => Clean(r)' = {} /\ taken[r] = Len(Patch(r))
               /\ r > c => pos'[r] = Begin(r) /\ taken[r] = 0
               /\ taken[r] > 0 => Clean(r)' = {}
    <3>1. CASE r = c
      BY <1>3, <1>8, <3>1
    <3>2. CASE r # c
      <4>1. Clean(r)' = Clean(r) /\ pos'[r] = pos[r]
        BY <1>1, <1>6, <1>9, <3>2 DEF Clean
      <4> QED BY <1>1, <1>3, <4>1 DEF Turns
    <3> QED BY <3>1, <3>2
  <2> QED BY <1>1, <1>6, <2>1 DEF Turns
<1>24. Typed' /\ Stages' /\ Marks' /\ Counts'
  <2>1. pos' \in [Readers -> Nat]
    BY <1>2, <1>3, <1>7 DEF Typed
  <2>2. \A r \in Readers : /\ Begin(r) <= pos'[r] /\ pos'[r] <= End(r)
                           /\ taken'[r] <= Len(Patch(r))
    BY <1>1, <1>4, <1>12
  <2>3. out' \in Seq([key : Int, from : {"base", "patch"}])
    BY <1>21 DEF Holds
  <2>4. /\ pass' < Passes /\ pass' \in 0 .. Passes /\ reader' \in 0 .. N
        /\ taken' \in [Readers -> Nat] /\ phase' = "read"
    BY <1>1, <1>3 DEF Stages, TypeOK, Typed
  <2> QED BY <1>1, <2>1, <2>2, <2>3, <2>4, ReadStays
<1> QED BY <1>22, <1>23, <1>24 DEF IInv

LEMMA ReadPatchStep == IInv /\ ReadPatch => IInv'
<1> SUFFICES ASSUME IInv, ReadPatch PROVE IInv'
  OBVIOUS
<1> DEFINE c == reader
           a == <<c, taken[c] + 1>>
<1>1. /\ phase = "read" /\ c < N /\ Clean(c) = {}
      /\ taken[c] < Len(Patch(c))
      /\ out' = Append(out, [key |-> Patch(c)[taken[c] + 1],
                             from |-> "patch"])
      /\ taken' = [taken EXCEPT ![c] = @ + 1]
      /\ pos' = [pos EXCEPT ![c] = End(c)]
      /\ UNCHANGED <<input, phase, status, dirty, valid, read, at, byte,
                     temp, subbed, stopped, pass, reader, first>>
  BY DEF ReadPatch, Reading, markVars
<1>2. /\ Typed /\ TypeOK /\ Stages /\ Turns /\ Order /\ input \in Inputs
      /\ N # 0 /\ c \in Readers /\ c \in Nat
      /\ reader \in 0 .. N /\ input.item \in Nat
      /\ \A r \in Readers : r \in Int
  <2>1. /\ Typed /\ TypeOK /\ Stages /\ Turns /\ Order /\ input \in Inputs
        /\ N \in Nat \ {0} /\ Readers = 0 .. N - 1
        /\ reader \in 0 .. N /\ input.item \in Nat
    BY <1>1, ReadTypes
  <2> QED BY <1>1, <2>1
<1>3. \A r \in Readers :
        /\ Begin(r) \in Nat /\ End(r) \in Nat /\ pos[r] \in Nat
        /\ Begin(r) <= pos[r] /\ pos[r] <= End(r)
        /\ taken[r] \in Nat /\ Len(Patch(r)) \in Nat
        /\ taken[r] <= Len(Patch(r))
  BY <1>1, ReadTypes
<1>4. /\ Begin(c) \in Nat /\ End(c) \in Nat /\ pos[c] \in Nat
      /\ Begin(c) <= pos[c] /\ pos[c] <= End(c) /\ taken[c] \in Nat
      /\ Len(Patch(c)) \in Nat
  BY <1>2, <1>3
<1>5. /\ N' = N /\ Readers' = Readers /\ AllKeys' = AllKeys
      /\ \A r : Patch(r)' = Patch(r)
      /\ \A j : Begin(j)' = Begin(j) /\ End(j)' = End(j)
  BY <1>1, SameInput
<1>6. /\ a \in AllKeys /\ KeyAt(a) = Patch(c)[taken[c] + 1]
      /\ a[1] = c /\ a[2] = taken[c] + 1
  <2>1. taken[c] + 1 \in 1 .. Len(Patch(c))
    BY <1>1, <1>4
  <2> QED BY <1>2, <2>1, Places
<1> HIDE DEF a
<1>7. \A r \in Readers :
        /\ pos'[r] = IF r = c THEN End(c) ELSE pos[r]
        /\ taken'[r] = IF r = c THEN taken[c] + 1 ELSE taken[r]
  BY <1>1, <1>2 DEF Typed
<1>8. ASSUME NEW r \in Readers
      PROVE  /\ pos'[r] \in Nat /\ taken'[r] \in Nat
             /\ Begin(r) <= pos'[r] /\ pos'[r] <= End(r)
             /\ taken'[r] <= Len(Patch(r))
  <2>1. CASE r = c
    BY <1>1, <1>4, <1>7, <2>1
  <2>2. CASE r # c
    BY <1>3, <1>7, <2>2
  <2> QED BY <2>1, <2>2
<1>9. ASSUME NEW y \in CleanLines
      PROVE  /\ y \in SentLines' <=> y \in SentLines
             /\ y < End(c) <=> y \in SentLines
  <2>1. PICK q \in Readers : y \in Shard(q)
    BY <1>2, Cover DEF CleanLines
  <2>2. y \in Int /\ Begin(q) <= y /\ y < End(q) /\ y \notin dirty
    BY <1>3, <2>1 DEF Shard, CleanLines
  <2>3. y \in SentLines' <=> y < pos'[q]
    BY <1>1, <1>2, <1>3, <1>8, <2>1, SentNext
  <2>4. /\ y \in SentLines <=> y < pos[q]
        /\ q < c => y \in SentLines
        /\ q > c => y \notin SentLines
    BY <1>1, <2>1, SentIff
  <2>5. /\ c >= q => y < End(c)
        /\ c < q => End(c) <= y
    BY <1>2, <2>1, InOneShard
  <2>6. q \in Int
    BY <1>2
  <2>7. CASE q = c
    <3>1. ~ (y < pos[c]) => y \in Clean(c)
      BY <1>4, <2>2, <2>7 DEF Clean
    <3>2. y < pos[c]
      BY <1>1, <3>1
    <3> QED BY <1>7, <2>2, <2>3, <2>4, <2>7, <3>2
  <2>8. CASE q # c
    <3>1. pos'[q] = pos[q]
      BY <1>7, <2>8
    <3>2. CASE q < c
      BY <1>2, <2>3, <2>4, <2>5, <2>6, <3>1, <3>2
    <3>3. CASE q > c
      <4>1. End(c) <= y
        BY <1>2, <2>5, <2>6, <3>3
      <4>2. ~ (y < End(c))
        BY <1>4, <2>2, <4>1
      <4> QED BY <2>3, <2>4, <3>1, <3>3, <4>2
    <3> QED BY <1>2, <2>6, <2>8, <3>2, <3>3
  <2> QED BY <2>7, <2>8
<1>10. SentLines' = SentLines /\ LinesBefore(a) = SentLines
  <2>1. CleanLines' = CleanLines
    BY <1>1, SamePlaces
  <2> QED BY <1>6, <1>9, <2>1 DEF SentLines, LinesBefore
<1>11. ASSUME NEW b \in AllKeys
       PROVE  /\ b[2] <= taken'[b[1]] <=> b \in SentKeys \union {a}
              /\ (b[1] < c \/ (b[1] = c /\ b[2] <= taken[c] + 1))
                 <=> b \in SentKeys \union {a}
  <2>1. b[1] \in Readers /\ b[2] \in Nat /\ b = <<b[1], b[2]>> /\ b[1] \in Int
    <3>1. /\ b[1] \in Readers /\ b[2] \in 1 .. Len(Patch(b[1]))
          /\ b = <<b[1], b[2]>>
      BY Places
    <3> QED BY <1>2, <1>3, <3>1
  <2>2. /\ b \in SentKeys <=> b[2] <= taken[b[1]]
        /\ b[1] < c => b \in SentKeys
        /\ b[1] > c => b \notin SentKeys
    BY <1>1, SentKeyIff
  <2>3. b = a <=> b[1] = c /\ b[2] = taken[c] + 1
    BY <1>6, <2>1 DEF a
  <2>4. CASE b[1] = c
    <3>1. taken'[b[1]] = taken[c] + 1
      BY <1>2, <1>7, <2>4
    <3>2. b[2] <= taken[c] + 1 <=> b[2] <= taken[c] \/ b[2] = taken[c] + 1
      BY <1>4, <2>1
    <3>3. ~ (b[1] < c)
      BY <1>2, <2>4
    <3> QED BY <2>2, <2>3, <2>4, <3>1, <3>2, <3>3
  <2>5. CASE b[1] # c
    <3>1. taken'[b[1]] = taken[b[1]] /\ b # a
      BY <1>7, <2>1, <2>3, <2>5
    <3>2. b[1] < c \/ b[1] > c
      BY <1>2, <2>1, <2>5
    <3>3. b[1] > c => ~ (b[1] < c)
      BY <1>2, <2>1
    <3> QED BY <2>2, <2>5, <3>1, <3>2, <3>3
  <2> QED BY <2>4, <2>5
<1>12. SentKeys' = SentKeys \union {a} /\ KeysUpTo(a) = SentKeys \union {a}
  <2>1. SentKeys' = {b \in AllKeys : b[2] <= taken'[b[1]]}
    BY <1>5 DEF SentKeys
  <2>2. KeysUpTo(a) = {b \in AllKeys : b[1] < c \/ (b[1] = c
                                         /\ b[2] <= taken[c] + 1)}
    BY <1>6 DEF KeysUpTo
  <2>3. SentKeys \union {a} \subseteq AllKeys
    BY <1>6 DEF SentKeys
  <2> QED BY <1>11, <2>1, <2>2, <2>3
<1>13. Holds(out, SentLines, SentKeys)
  BY <1>1, <1>2 DEF Order
<1>14. a \notin SentKeys
  <2>1. a \in SentKeys <=> a[2] <= taken[a[1]]
    BY <1>1, <1>6, SentKeyIff
  <2> QED BY <1>4, <1>6, <2>1
<1>15. SentLines \subseteq CleanLines /\ SentKeys \subseteq AllKeys
  BY DEF SentLines, SentKeys
<1>16. KeyIndex(a) = Len(out) + 1
  <2>1. /\ IsFiniteSet(SentKeys) /\ Cardinality(SentLines) \in Nat
        /\ Cardinality(SentKeys) \in Nat
    <3>1. SentLines \subseteq Lines
      BY DEF SentLines, CleanLines
    <3> QED BY <1>2, <1>15, <3>1, FiniteLines, FiniteKeys, InputTypes
  <2>2. Cardinality(KeysUpTo(a)) = Cardinality(SentKeys) + 1
    BY <1>12, <1>14, <2>1, FS_AddElement
  <2>3. Len(out) = Cardinality(SentLines) + Cardinality(SentKeys)
    BY <1>13 DEF Holds
  <2> QED BY <1>10, <2>1, <2>2, <2>3 DEF KeyIndex
<1>17. Holds(out, SentLines, SentKeys)'
  <2>1. Holds(out', SentLines, SentKeys \union {a})
    BY <1>1, <1>2, <1>6, <1>13, <1>14, <1>15, <1>16, OneMoreKey
  <2> QED BY <1>1, <1>10, <1>12, <2>1, HoldsNext
<1>18. Order'
  <2>1. pass > 0 => Holds(first, CleanLines, AllKeys)'
    BY <1>1, <1>2, FirstKept DEF Order
  <2> QED BY <1>1, <1>17, <2>1 DEF Order
<1>19. Turns'
  <2>1. ASSUME NEW r \in Readers
        PROVE  /\ r < c => Clean(r)' = {} /\ taken'[r] = Len(Patch(r))
               /\ r > c => pos'[r] = Begin(r) /\ taken'[r] = 0
               /\ taken'[r] > 0 => Clean(r)' = {}
    <3>1. CASE r = c
      <4>1. End(c) .. End(c) - 1 = {}
        BY <1>4
      <4>2. Clean(r)' = {}
        BY <1>1, <1>5, <1>7, <3>1, <4>1 DEF Clean
      <4> QED BY <1>2, <3>1, <4>2
    <3>2. CASE r # c
      <4>1. /\ Clean(r)' = Clean(r) /\ pos'[r] = pos[r]
            /\ taken'[r] = taken[r]
        BY <1>1, <1>5, <1>7, <3>2 DEF Clean
      <4> QED BY <1>1, <1>2, <4>1 DEF Turns
    <3> QED BY <3>1, <3>2
  <2> QED BY <1>1, <1>5, <2>1 DEF Turns
<1>20. Typed' /\ Stages' /\ Marks' /\ Counts'
  <2>1. pos' \in [Readers -> Nat] /\ taken' \in [Readers -> Nat]
    BY <1>1, <1>2, <1>8 DEF Typed
  <2>2. out' \in Seq([key : Int, from : {"base", "patch"}])
    BY <1>17 DEF Holds
  <2>3. /\ pass' < Passes /\ pass' \in 0 .. Passes /\ reader' \in 0 .. N
        /\ phase' = "read"
    BY <1>1, <1>2 DEF Stages, TypeOK
  <2> QED BY <1>1, <1>8, <2>1, <2>2, <2>3, ReadStays
<1> QED BY <1>18, <1>19, <1>20 DEF IInv

LEMMA NextReaderStep == IInv /\ NextReader => IInv'
<1> SUFFICES ASSUME IInv, NextReader PROVE IInv'
  OBVIOUS
<1>1. /\ phase = "read" /\ reader < N /\ ~ Reading
      /\ reader' = reader + 1
      /\ UNCHANGED <<input, phase, status, dirty, valid, read, at, byte,
                     temp, subbed, stopped, pass, pos, taken, out, first>>
  BY DEF NextReader, markVars
<1>2. /\ Typed /\ TypeOK /\ Stages /\ Turns /\ Order /\ N \in Nat
      /\ reader \in 0 .. N
  BY <1>1, ReadTypes
<1>3. \A r \in Readers : r \in Int
  <2>1. Readers = 0 .. N - 1
    BY <1>1, ReadTypes
  <2> QED BY <1>2, <2>1
<1>4. /\ reader \in Readers /\ Clean(reader) = {}
      /\ taken[reader] = Len(Patch(reader))
  BY <1>1, ReadOut
<1>5. /\ Readers' = Readers /\ AllKeys' = AllKeys
      /\ \A r : Patch(r)' = Patch(r)
      /\ \A j : Begin(j)' = Begin(j) /\ End(j)' = End(j)
  BY <1>1, SameInput
<1>6. Turns'
  <2>1. ASSUME NEW r \in Readers
        PROVE  /\ r < reader + 1 => Clean(r)' = {}
                                    /\ taken[r] = Len(Patch(r))
               /\ r > reader + 1 => pos[r] = Begin(r) /\ taken[r] = 0
               /\ taken[r] > 0 => Clean(r)' = {}
    <3>1. Clean(r)' = Clean(r)
      BY <1>1, <1>5 DEF Clean
    <3>2. /\ r < reader => Clean(r) = {} /\ taken[r] = Len(Patch(r))
          /\ r > reader => pos[r] = Begin(r) /\ taken[r] = 0
          /\ taken[r] > 0 => Clean(r) = {}
      BY <1>1, <1>2 DEF Turns
    <3>3. /\ r < reader + 1 => r < reader \/ r = reader
          /\ r > reader + 1 => r > reader
      BY <1>2, <1>3
    <3> QED BY <1>4, <3>1, <3>2, <3>3
  <2> QED BY <1>1, <1>5, <2>1 DEF Turns
<1>7. Holds(out, SentLines, SentKeys)'
  <2>1. SentLines' = SentLines
    <3>1. CleanLines' = CleanLines
      BY <1>1, SamePlaces
    <3> QED BY <1>1, <1>5, <3>1 DEF SentLines
  <2>2. SentKeys' = SentKeys
    BY <1>1, <1>5 DEF SentKeys
  <2>3. Holds(out', SentLines, SentKeys)
    BY <1>1, <1>2 DEF Order
  <2> QED BY <1>1, <2>1, <2>2, <2>3, HoldsNext
<1>8. Order'
  <2>1. pass > 0 => Holds(first, CleanLines, AllKeys)'
    BY <1>1, <1>2, FirstKept DEF Order
  <2> QED BY <1>1, <1>7, <2>1 DEF Order
<1>9. Typed' /\ Stages' /\ Marks' /\ Counts'
  <2>1. \A r \in Readers : /\ Begin(r) <= pos'[r] /\ pos'[r] <= End(r)
                           /\ taken'[r] <= Len(Patch(r))
    BY <1>1, ReadTypes
  <2>2. /\ pos' \in [Readers -> Nat] /\ taken' \in [Readers -> Nat]
        /\ out' \in Seq([key : Int, from : {"base", "patch"}])
    BY <1>1, <1>2 DEF Typed
  <2>3. /\ pass' < Passes /\ pass' \in 0 .. Passes /\ phase' = "read"
    BY <1>1, <1>2 DEF Stages, TypeOK
  <2>4. reader' \in 0 .. N
    BY <1>1, <1>2
  <2> QED BY <1>1, <2>1, <2>2, <2>3, <2>4, ReadStays
<1> QED BY <1>6, <1>8, <1>9 DEF IInv

(* At its end a pass has delivered all the clean lines and all the keys.   *)
LEMMA Complete ==
  ASSUME IInv, phase = "read", reader = N
  PROVE  SentLines = CleanLines /\ SentKeys = AllKeys
<1>1. /\ input \in Inputs /\ N \in Nat \ {0} /\ Readers = 0 .. N - 1
  BY ReadTypes
<1>2. ASSUME NEW y \in CleanLines
      PROVE  y \in SentLines
  <2>1. PICK q \in Readers : y \in Shard(q)
    BY <1>1, Cover DEF CleanLines
  <2>2. q < reader
    BY <1>1
  <2> QED BY <2>1, <2>2, SentIff
<1>3. ASSUME NEW b \in AllKeys
      PROVE  b \in SentKeys
  <2>1. b[1] \in Readers
    BY Places
  <2>2. b[1] < reader
    BY <1>1, <2>1
  <2> QED BY <2>2, SentKeyIff
<1> QED BY <1>2, <1>3 DEF SentLines, SentKeys

LEMMA EndPassStep == IInv /\ EndPass => IInv'
<1> SUFFICES ASSUME IInv, EndPass PROVE IInv'
  OBVIOUS
<1>1. /\ phase = "read" /\ reader = N /\ pass' = pass + 1
      /\ first' = IF pass = 0 THEN out ELSE first
      /\ UNCHANGED <<input, dirty, valid, read, at, byte, temp, subbed,
                     stopped>>
  BY DEF EndPass, markVars
<1>2. /\ Typed /\ TypeOK /\ Stages /\ Marks /\ Counts /\ Turns /\ Order
      /\ input \in Inputs /\ N # 0 /\ ~ Unusable
      /\ Passes \in Nat /\ pass \in Nat /\ pass < Passes /\ 0 \in 0 .. N
  BY <1>1, ReadTypes, InputTypes DEF Stages, Typed
<1>3. /\ N' = N /\ Readers' = Readers /\ Lines' = Lines /\ AllKeys' = AllKeys
      /\ Refused' = Refused /\ Unusable' = Unusable
      /\ \A r : Patch(r)' = Patch(r)
      /\ \A j : Begin(j)' = Begin(j) /\ End(j)' = End(j)
  BY <1>1, SameInput
<1>4. CASE pass' = Passes
  <2>1. /\ phase' = "done" /\ status' = "OK"
        /\ UNCHANGED <<reader, pos, taken, out>>
    BY <1>4 DEF EndPass
  <2>2. TypeOK'
    <3>1. pass' \in 0 .. Passes
      BY <1>2, <1>4
    <3> QED BY <1>1, <1>2, <1>3, <2>1, <3>1 DEF TypeOK
  <2>3. Typed'
    BY <1>1, <1>2, <1>3, <2>1, <2>2 DEF Typed
  <2>4. Stages'
    BY <1>1, <1>2, <1>3, <2>1 DEF Stages
  <2>5. Turns' /\ Order'
    BY <2>1 DEF Turns, Order
  <2>6. Marks' /\ Counts'
    BY <1>1, <1>2, KeptMarks, KeptCounts
  <2> QED BY <2>3, <2>4, <2>5, <2>6 DEF IInv
<1>5. CASE pass' # Passes
  <2>1. /\ reader' = 0 /\ pos' = [r \in Readers |-> Begin(r)]
        /\ taken' = [r \in Readers |-> 0] /\ out' = <<>>
        /\ phase' = "read" /\ status' = status
    BY <1>1, <1>5 DEF EndPass, ShardStart
  <2>2. \A r \in Readers : taken'[r] = 0
    BY <2>1
  <2>3. Turns' /\ Holds(out, SentLines, SentKeys)'
    BY <1>1, <1>2, <2>1, <2>2, PassStarts
  <2>4. Holds(first, CleanLines, AllKeys)'
    <3>1. /\ Holds(out, SentLines, SentKeys)
          /\ pass > 0 => Holds(first, CleanLines, AllKeys)
      BY <1>1, <1>2 DEF Order
    <3>2. Holds(out, CleanLines, AllKeys)
      BY <1>1, <3>1, Complete
    <3>3. Holds(first', CleanLines, AllKeys)
      BY <1>1, <1>2, <3>1, <3>2
    <3>4. /\ \A x : LineIndex(x)' = LineIndex(x)
          /\ \A a : KeyIndex(a)' = KeyIndex(a)
          /\ CleanLines' = CleanLines
      BY <1>1, SamePlaces
    <3>5. \A a : KeyAt(a)' = KeyAt(a)
      BY <1>1, SameInput
    <3> QED BY <1>3, <3>3, <3>4, <3>5 DEF Holds
  <2>5. Order'
    BY <2>3, <2>4 DEF Order
  <2>6. Typed' /\ Stages' /\ Marks' /\ Counts'
    <3>1. \A r \in Readers : /\ pos'[r] = Begin(r) /\ taken'[r] = 0
                             /\ Begin(r) \in Nat /\ End(r) \in Nat
                             /\ Begin(r) <= End(r) /\ Len(Patch(r)) \in Nat
      <4> SUFFICES ASSUME NEW r \in Readers
                   PROVE  /\ pos'[r] = Begin(r) /\ taken'[r] = 0
                          /\ Begin(r) \in Nat /\ End(r) \in Nat
                          /\ Begin(r) <= End(r) /\ Len(Patch(r)) \in Nat
        OBVIOUS
      <4>1. /\ Begin(r) \in Nat /\ End(r) \in Nat /\ pos[r] \in Nat
            /\ Begin(r) <= pos[r] /\ pos[r] <= End(r)
            /\ Len(Patch(r)) \in Nat
        BY <1>1, ReadTypes
      <4>2. pos'[r] = Begin(r) /\ taken'[r] = 0
        BY <2>1
      <4> QED BY <4>1, <4>2
    <3>2. pos' \in [Readers -> Nat] /\ taken' \in [Readers -> Nat]
      BY <2>1, <3>1
    <3>3. \A r \in Readers : /\ Begin(r) <= pos'[r] /\ pos'[r] <= End(r)
                             /\ taken'[r] <= Len(Patch(r))
      BY <3>1
    <3>4. out' \in Seq([key : Int, from : {"base", "patch"}])
      BY <2>3 DEF Holds
    <3>5. pass' < Passes /\ pass' \in 0 .. Passes /\ reader' \in 0 .. N
      BY <1>1, <1>2, <1>5, <2>1
    <3> QED BY <1>1, <2>1, <3>2, <3>3, <3>4, <3>5, ReadStays
  <2> QED BY <2>3, <2>5, <2>6 DEF IInv
<1> QED BY <1>4, <1>5

----------------------------------------------------------------------------
LEMMA StutterStep == IInv /\ UNCHANGED vars => IInv'
<1> SUFFICES ASSUME IInv, UNCHANGED vars PROVE IInv'
  OBVIOUS
<1>1. UNCHANGED <<input, phase, status, dirty, valid, read, at, byte, temp,
                  subbed, stopped, pass, reader, pos, taken, out, first>>
  BY DEF vars, markVars, readVars
<1>2. /\ Typed /\ TypeOK /\ Stages /\ Marks /\ Counts /\ Turns /\ Order
  BY DEF IInv, Typed
<1>3. /\ N' = N /\ Readers' = Readers /\ Lines' = Lines /\ AllKeys' = AllKeys
      /\ Refused' = Refused /\ Unusable' = Unusable
      /\ \A r : Patch(r)' = Patch(r)
      /\ \A j : Begin(j)' = Begin(j) /\ End(j)' = End(j)
  BY <1>1, SameInput
<1>4. TypeOK'
  BY <1>1, <1>2, <1>3 DEF TypeOK
<1>5. Typed'
  BY <1>1, <1>2, <1>3, <1>4 DEF Typed
<1>6. Stages'
  BY <1>1, <1>2, <1>3 DEF Stages
<1>7. Marks' /\ Counts'
  BY <1>1, <1>2, KeptMarks, KeptCounts
<1>8. Turns'
  <2>1. \A r : Clean(r)' = Clean(r)
    BY <1>1, <1>3 DEF Clean
  <2> QED BY <1>1, <1>2, <1>3, <2>1 DEF Turns
<1>9. Order'
  <2>1. CASE phase = "read"
    <3>1. SentLines' = SentLines /\ SentKeys' = SentKeys
      <4>1. CleanLines' = CleanLines
        BY <1>1, SamePlaces
      <4> QED BY <1>1, <1>3, <4>1 DEF SentLines, SentKeys
    <3>2. Holds(out, SentLines, SentKeys)'
      <4>1. Holds(out', SentLines, SentKeys)
        BY <1>1, <1>2, <2>1 DEF Order
      <4> QED BY <1>1, <3>1, <4>1, HoldsNext
    <3>3. pass > 0 => Holds(first, CleanLines, AllKeys)'
      BY <1>1, <1>2, <2>1, FirstKept DEF Order
    <3> QED BY <1>1, <3>2, <3>3 DEF Order
  <2>2. CASE phase # "read"
    BY <1>1, <2>2 DEF Order
  <2> QED BY <2>1, <2>2
<1> QED BY <1>5, <1>6, <1>7, <1>8, <1>9 DEF IInv

(* Every step keeps the inductive invariant.                               *)
LEMMA StepInv == IInv /\ [Next]_vars => IInv'
<1> SUFFICES ASSUME IInv, [Next]_vars PROVE IInv'
  OBVIOUS
<1>1. CASE UNCHANGED vars
  BY <1>1, StutterStep
<1>2. ASSUME NEW r \in Readers, Mark(r)
      PROVE  IInv'
  BY <1>2, ReadWindowStep, SkipKeyStep, SubtractStep, LoadByteStep,
     SwapByteStep, FailSpuriouslyStep DEF Mark
<1>3. CASE Main
  BY <1>3, PrepareStep, JoinStep, ReadLineStep, ReadPatchStep,
     NextReaderStep, EndPassStep DEF Main
<1>4. CASE Terminated
  BY <1>4, StutterStep DEF Terminated
<1> QED BY <1>1, <1>2, <1>3, <1>4 DEF Next

(* The inductive invariant holds in every state of every derive: of any    *)
(* base, any patch, any window and width of a byte, and any interleaving   *)
(* of the threads that mark (build.cc, 1318-1379).                         *)
THEOREM RebuildInvariance == Spec => []IInv
<1>1. Init => IInv
  BY InitInv
<1>2. IInv /\ [Next]_vars => IInv'
  BY StepInv
<1> QED BY <1>1, <1>2, PTL DEF Spec

(* The marked lines are those whose keys the patch has.                    *)
LEMMA MarkedArePatched ==
  ASSUME IInv, phase = "read"
  PROVE  dirty = Patched
<1>1. /\ Typed /\ TypeOK /\ Marks /\ Counts /\ input \in Inputs
      /\ N \in Nat \ {0} /\ \A r \in Readers : subbed[r] = N
  BY ReadTypes DEF Stages
<1>2. \A r \in Readers : at[r] = Len(Patch(r))
  BY <1>1 DEF Counts
<1>3. ASSUME NEW x \in dirty
      PROVE  x \in Patched
  <2>1. PICK r \in Readers : x \in MarkedBy(r)
    BY <1>1 DEF Marks
  <2>2. PICK i \in 1 .. at[r] : Patch(r)[i] = x /\ x \in Lines
    BY <2>1 DEF MarkedBy
  <2>3. <<r, i>> \in AllKeys /\ KeyAt(<<r, i>>) = x
    BY <1>2, <2>2, Places
  <2> QED BY <2>2, <2>3 DEF Patched, Lines
<1>4. ASSUME NEW x \in Patched
      PROVE  x \in dirty
  <2>1. PICK a \in AllKeys : KeyAt(a) = x
    BY DEF Patched
  <2>2. a[1] \in Readers /\ a[2] \in 1 .. at[a[1]]
    BY <1>2, Places
  <2>3. x \in MarkedBy(a[1])
    BY <2>1, <2>2 DEF MarkedBy, KeyAt, Patched, Lines
  <2> QED BY <1>1, <2>2, <2>3 DEF Marks
<1> QED BY <1>3, <1>4

(* The records of what holds lines S and keys T.                           *)
LEMMA HeldRecords ==
  ASSUME NEW s, NEW S, NEW T, Holds(s, S, T)
  PROVE  /\ \A x \in S : /\ LineIndex(x) \in 1 .. Len(s)
                         /\ s[LineIndex(x)].key = x
                         /\ s[LineIndex(x)].from = "base"
         /\ \A a \in T : /\ KeyIndex(a) \in 1 .. Len(s)
                         /\ s[KeyIndex(a)].key = KeyAt(a)
                         /\ s[KeyIndex(a)].from = "patch"
<1>1. ASSUME NEW x \in S
      PROVE  /\ LineIndex(x) \in 1 .. Len(s)
             /\ s[LineIndex(x)].key = x
             /\ s[LineIndex(x)].from = "base"
  <2>1. /\ LineIndex(x) \in 1 .. Len(s)
        /\ s[LineIndex(x)] = [key |-> x, from |-> "base"]
    BY DEF Holds
  <2> QED BY <2>1
<1>2. ASSUME NEW a \in T
      PROVE  /\ KeyIndex(a) \in 1 .. Len(s)
             /\ s[KeyIndex(a)].key = KeyAt(a)
             /\ s[KeyIndex(a)].from = "patch"
  <2>1. /\ KeyIndex(a) \in 1 .. Len(s)
        /\ s[KeyIndex(a)] = [key |-> KeyAt(a), from |-> "patch"]
    BY DEF Holds
  <2> QED BY <2>1
<1> QED BY <1>1, <1>2

(* What holds the same is the same.                                        *)
LEMMA SameHeld ==
  ASSUME NEW s, NEW t, NEW S, NEW T, Holds(s, S, T), Holds(t, S, T)
  PROVE  s = t
<1>1. /\ s \in Seq([key : Int, from : {"base", "patch"}])
      /\ t \in Seq([key : Int, from : {"base", "patch"}])
      /\ Len(s) = Len(t)
  BY DEF Holds
<1>2. ASSUME NEW n \in 1 .. Len(s)
      PROVE  s[n] = t[n]
  <2>1. CASE \E x \in S : n = LineIndex(x)
    BY <2>1 DEF Holds
  <2>2. CASE \E a \in T : n = KeyIndex(a)
    BY <2>2 DEF Holds
  <2> QED BY <2>1, <2>2 DEF Holds
<1> QED BY <1>1, <1>2, SeqEqual

(* A pass that is complete delivers every line of the base once.           *)
LEMMA BaseOnce ==
  ASSUME IInv, phase = "read", Holds(out, CleanLines, AllKeys),
         NEW k \in Lines
  PROVE  \E i \in 1 .. Len(out) :
           /\ Occurs(k, out) = {i}
           /\ out[i].from = (IF k \in Patched THEN "patch" ELSE "base")
<1>1. dirty = Patched /\ ~ Unusable /\ input.item \in Nat
  BY MarkedArePatched, ReadTypes
<1>2. \A n \in 1 .. Len(out) : \/ \E x \in CleanLines : n = LineIndex(x)
                               \/ \E a \in AllKeys : n = KeyIndex(a)
  BY DEF Holds
<1>3. /\ \A x \in CleanLines : /\ LineIndex(x) \in 1 .. Len(out)
                               /\ out[LineIndex(x)].key = x
                               /\ out[LineIndex(x)].from = "base"
      /\ \A a \in AllKeys : /\ KeyIndex(a) \in 1 .. Len(out)
                            /\ out[KeyIndex(a)].key = KeyAt(a)
                            /\ out[KeyIndex(a)].from = "patch"
  BY HeldRecords
<1>4. CASE k \in Patched
  <2>1. PICK a \in AllKeys : KeyAt(a) = k
    BY <1>4 DEF Patched
  <2>2. ASSUME NEW n \in Occurs(k, out)
        PROVE  n = KeyIndex(a)
    <3>1. n \in 1 .. Len(out) /\ out[n].key = k
      BY DEF Occurs
    <3>2. ASSUME NEW x \in CleanLines, n = LineIndex(x)
          PROVE  FALSE
      <4>1. k = x
        BY <1>3, <3>1, <3>2
      <4> QED BY <1>1, <1>4, <4>1 DEF CleanLines
    <3>3. PICK b \in AllKeys : n = KeyIndex(b)
      BY <1>2, <3>1, <3>2
    <3>4. KeyAt(b) = k
      BY <1>3, <3>1, <3>3
    <3>5. k < input.item
      BY <1>1 DEF Lines
    <3>6. b = a
      BY <1>1, <2>1, <3>4, <3>5 DEF Unusable
    <3> QED BY <3>3, <3>6
  <2>3. KeyIndex(a) \in Occurs(k, out)
    BY <1>2, <1>3, <2>1 DEF Occurs
  <2>4. Occurs(k, out) = {KeyIndex(a)}
    BY <2>2, <2>3
  <2> QED BY <1>2, <1>3, <1>4, <2>4
<1>5. CASE k \notin Patched
  <2>1. k \in CleanLines
    BY <1>1, <1>5 DEF CleanLines
  <2>2. ASSUME NEW n \in Occurs(k, out)
        PROVE  n = LineIndex(k)
    <3>1. n \in 1 .. Len(out) /\ out[n].key = k
      BY DEF Occurs
    <3>2. ASSUME NEW a \in AllKeys, n = KeyIndex(a)
          PROVE  FALSE
      <4>1. KeyAt(a) = k
        BY <1>3, <3>1, <3>2
      <4> QED BY <1>5, <4>1 DEF Patched, Lines
    <3>3. PICK x \in CleanLines : n = LineIndex(x)
      BY <1>2, <3>1, <3>2
    <3>4. x = k
      BY <1>3, <3>1, <3>3
    <3> QED BY <3>3, <3>4
  <2>3. LineIndex(k) \in Occurs(k, out)
    BY <1>2, <1>3, <2>1 DEF Occurs
  <2>4. Occurs(k, out) = {LineIndex(k)}
    BY <2>2, <2>3
  <2> QED BY <1>2, <1>3, <1>5, <2>1, <2>4
<1> QED BY <1>4, <1>5

(* And every new key as often as the patch has it.                         *)
LEMMA NewAsOften ==
  ASSUME IInv, phase = "read", Holds(out, CleanLines, AllKeys),
         NEW k, k \notin Lines
  PROVE  Cardinality(Occurs(k, out)) =
           Cardinality({a \in AllKeys : KeyAt(a) = k})
<1> DEFINE B == {a \in AllKeys : KeyAt(a) = k}
           O == Occurs(k, out)
           f == [a \in B |-> KeyIndex(a)]
<1>1. /\ \A x \in CleanLines : out[LineIndex(x)].key = x
      /\ \A a \in AllKeys : /\ KeyIndex(a) \in 1 .. Len(out)
                            /\ out[KeyIndex(a)].key = KeyAt(a)
      /\ \A n \in 1 .. Len(out) : \/ \E x \in CleanLines : n = LineIndex(x)
                                  \/ \E a \in AllKeys : n = KeyIndex(a)
      /\ \A a, b \in AllKeys : KeyIndex(a) = KeyIndex(b) => a = b
  <2>1. /\ \A n \in 1 .. Len(out) : \/ \E x \in CleanLines : n = LineIndex(x)
                                    \/ \E a \in AllKeys : n = KeyIndex(a)
        /\ \A a, b \in AllKeys : KeyIndex(a) = KeyIndex(b) => a = b
    BY DEF Holds
  <2> QED BY <2>1, HeldRecords
<1>2. \A a \in B : KeyIndex(a) \in O
  BY <1>1 DEF Occurs
<1>3. f \in [B -> O]
  BY <1>2
<1>4. \A a, b \in B : f[a] = f[b] => a = b
  BY <1>1
<1>5. ASSUME NEW n \in O
      PROVE  \E a \in B : f[a] = n
  <2>1. n \in 1 .. Len(out) /\ out[n].key = k
    BY DEF Occurs
  <2>2. ASSUME NEW x \in CleanLines, n = LineIndex(x)
        PROVE  FALSE
    BY <1>1, <2>1, <2>2 DEF CleanLines
  <2>3. PICK a \in AllKeys : n = KeyIndex(a)
    BY <1>1, <2>1, <2>2
  <2>4. KeyAt(a) = k
    BY <1>1, <2>1, <2>3
  <2> QED BY <2>3, <2>4
<1> HIDE DEF f, B, O
<1>6. f \in Bijection(B, O)
  BY <1>3, <1>4, <1>5, Fun_IsBij
<1>7. ExistsBijection(B, O)
  BY <1>6 DEF ExistsBijection
<1>8. IsFiniteSet(B)
  <2>1. B \subseteq AllKeys
    BY DEF B
  <2> QED BY <2>1, FiniteKeys, ReadTypes
<1>9. Cardinality(O) = Cardinality(B)
  BY <1>7, <1>8, FS_Bijection
<1> QED BY <1>9 DEF B, O

----------------------------------------------------------------------------
(* The variables have their types; no thread deals with a key it has not   *)
(* read, and no reader leaves its shard, however the base is cut.          *)
THEOREM RebuildTypeCorrect == Spec => []TypeOK
<1>1. IInv => TypeOK
  BY DEF IInv, Typed
<1> QED BY <1>1, RebuildInvariance, PTL

(* derive refuses a patch exactly when it has a bad key or the same base   *)
(* key twice, or does not fit the base: no interleaving of the loads and   *)
(* exchanges of AtomicTestAndSetBit hides a key given twice or finds one   *)
(* that is not there (build.cc, 1343-1348, internal.h, 138-166).           *)
THEOREM RefusedIsExact == Spec => []RefusedExactly
<1>1. IInv => RefusedExactly
  BY DEF IInv, Stages, RefusedExactly
<1> QED BY <1>1, RebuildInvariance, PTL

(* When the threads are joined, the count of every shard is that of its    *)
(* clean lines: total() of a reader is what read() will deliver            *)
(* (build.cc, 1231 and 1353-1355).                                         *)
THEOREM ValidIsExact == Spec => []ValidExact
<1>1. IInv => ValidExact
  <2> SUFFICES ASSUME IInv, phase = "read", NEW j \in Readers
               PROVE  valid[j] = Cardinality({p \in Begin(j) .. End(j) - 1 :
                                                p \notin dirty})
    BY DEF ValidExact
  <2> QED BY ValidIs DEF Shard
<1> QED BY <1>1, RebuildInvariance, PTL

(* Every pass delivers each key of the base once, from the patch when the  *)
(* patch has it, and each new key as often as the patch has it; and a      *)
(* later pass delivers what the first did, in the same order (read and     *)
(* reset of RebuildReader, build.cc, 1218-1262).                           *)
THEOREM PassesDeliverTheSame == Spec => []DeliversTheSame
<1>1. IInv => DeliversTheSame
  <2> SUFFICES ASSUME IInv, phase = "read", reader = N
               PROVE  DeliversTheSame
    BY DEF DeliversTheSame
  <2>1. /\ Order /\ ~ Unusable /\ input \in Inputs /\ input.item \in Nat
    BY ReadTypes
  <2>2. Holds(out, CleanLines, AllKeys)
    BY <2>1, Complete DEF Order
  <2>3. ASSUME NEW k \in {KeyAt(a) : a \in AllKeys} \ Patched
        PROVE  Cardinality(Occurs(k, out)) =
                 Cardinality({a \in AllKeys : KeyAt(a) = k})
    <3>1. k \notin Lines
      BY DEF Patched, Lines
    <3> QED BY <2>2, <3>1, NewAsOften
  <2>4. pass > 0 => out = first
    BY <2>1, <2>2, SameHeld DEF Order
  <2>5. \A k \in 0 .. input.item - 1 :
          \E i \in 1 .. Len(out) :
            /\ Occurs(k, out) = {i}
            /\ out[i].from = (IF k \in Patched THEN "patch" ELSE "base")
    BY <2>2, BaseOnce DEF Lines
  <2> QED BY <2>3, <2>4, <2>5 DEF DeliversTheSame
<1> QED BY <1>1, RebuildInvariance, PTL

============================================================================
