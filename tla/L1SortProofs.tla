---------------------------- MODULE L1SortProofs ----------------------------
(***************************************************************************)
(* Proofs about module L1Sort, for any number of identifiers and any codes *)
(* that have a cell: no cycle loses an identifier or leaves its bucket,    *)
(* the asserts hold, and the array ends up grouped, largest bucket first.  *)
(***************************************************************************)
EXTENDS L1Sort, FiniteSetTheorems, SequenceTheorems, WellFoundedInduction,
        TLAPS

(* The rank of a bucket, and the number of identifiers of lower rank: its  *)
(* bucket starts there.                                                    *)
RankOf(b) == CHOOSE r \in Buckets : AtRank(r) = b
Below(r) == {i \in Items : RankOf(Bucket(i)) < r}
Start(r) == Cardinality(Below(r))

First(b) == Start(RankOf(b))
Past(b) == Start(RankOf(b) + 1)
Slots(b) == First(b) .. Past(b) - 1

(* The identifiers of a bucket, and those among the first k.               *)
Members(b) == {i \in Items : Bucket(i) = b}
Before(b, k) == {i \in Members(b) : i < k}

(* The identifier a slot holds, the one in hand in the hole.               *)
Held(i) == IF pc = "carry" /\ i = hole THEN tmp ELSE ids[i]

Moving == {"tasks", "part", "shuffle", "carry"}

(* The table has an entry for each bucket.                                 *)
Numbered ==
  /\ \A i \in Buckets : table[i].val = CountOf(table[i].idx)
  /\ \A i, k \in Buckets : table[i].idx = table[k].idx => i = k

Ordered == \A i, k \in Buckets : i < k => table[i].val <= table[k].val

Ranking == Numbered /\ Ordered

(* The digits gone through are in order.                                   *)
Sorting ==
  /\ digit \in 0 .. CountMax + 1
  /\ Radix ^ digit \in Nat \ {0} /\ digit < Radix ^ digit
  /\ Numbered
  /\ \A i, k \in Buckets :
       i < k => table[i].val % Radix ^ digit <= table[k].val % Radix ^ digit

TypeInv ==
  /\ input \in Inputs
  /\ TypeOK
  /\ pc = "count" => digit = 0
  /\ \A b \in Buckets : pc \notin {"count", "refused"} => CountOf(b) <= CountMax

SortInv ==
  /\ pc = "digits" => Sorting
  /\ pc \in {"copy", "done"} \union Moving => Ranking

(* The copy: the slot of an identifier is after those of its bucket that   *)
(* come before it.                                                         *)
SlotOf(i) == First(Bucket(i)) + Cardinality(Before(Bucket(i), i))

Copied(k) == \A i \in 0 .. k - 1 : shadow[SlotOf(i)] = i

CopyInv ==
  /\ pc = "copy" => input.shadow
  /\ pc \in {"count", "digits", "copy"} => ids = [i \in Items |-> i]
  /\ pc \in {"count", "digits"} => loop = 0 /\ tasks = <<>> /\ queue = <<>>
  /\ pc = "copy" =>
       /\ Copied(loop)
       /\ \A b \in Buckets :
            range[b].idx = First(b) + Cardinality(Before(b, loop))
  /\ pc = "done" /\ input.shadow => Copied(Total)

Calls == [first : Nat, last : Nat, begin : Nat, end : Nat]

(* The buckets of a pending call.                                          *)
Own(t) == {b \in Buckets : RankOf(b) \in t.first .. t.last - 1}
Region(t) == t.begin .. t.end - 1

(* What it finds in its part of the array: their identifiers, and no       *)
(* others.                                                                 *)
Untouched(t) ==
  /\ t.first \in 0 .. NBuckets /\ t.last \in 0 .. NBuckets
  /\ t.first < t.last
  /\ t.begin = Start(t.first) /\ t.end = Start(t.last)
  /\ \A b \in Own(t) : range[b].idx = First(b)
  /\ \A i \in Items :
       i \in Region(t) <=> RankOf(Bucket(Held(i))) \in t.first .. t.last - 1

Pending ==
  /\ \A k \in DOMAIN tasks : Untouched(tasks[k])
  /\ \A k, l \in DOMAIN tasks : k < l => tasks[k].last <= tasks[l].first

Cursors ==
  \A b \in Buckets :
    /\ range[b].val = Past(b)
    /\ range[b].idx \in First(b) .. Past(b)
    /\ \A x \in First(b) .. range[b].idx - 1 : Bucket(ids[x]) = b

(* A bucket is full, or its turn is to come.                               *)
Waiting ==
  /\ \A b \in Buckets :
       \/ range[b].idx = Past(b)
       \/ \E k \in DOMAIN queue : queue[k] = b
       \/ \E k \in DOMAIN tasks : b \in Own(tasks[k])
  /\ \A k \in DOMAIN queue, l \in DOMAIN tasks : queue[k] \notin Own(tasks[l])

Parting ==
  /\ pc \in {"tasks", "part"} => queue = <<>>
  /\ pc = "part" => tasks # <<>> /\ ~ Undivided(Head(tasks))

Carrying ==
  pc = "carry" =>
    /\ queue # <<>>
    /\ hole = range[Head(queue)].idx /\ hole < Past(Head(queue))
    /\ Bucket(tmp) = q
    /\ \A k \in DOMAIN tasks : q \notin Own(tasks[k])

MoveInv ==
  /\ pc \in Moving =>
       /\ ~ input.shadow
       /\ tasks \in Seq(Calls)
       /\ Pending /\ Cursors /\ Waiting /\ Parting /\ Carrying
  /\ pc = "done" /\ ~ input.shadow =>
       \A b \in Buckets : \A x \in Slots(b) : Bucket(ids[x]) = b

IInv == TypeInv /\ NoneLost /\ AssertsHold /\ SortInv /\ CopyInv /\ MoveInv

----------------------------------------------------------------------------
(* Least numbers, and places that are all taken.                           *)

(* A set of numbers that is not empty has a least one.                     *)
LEMMA Least ==
  ASSUME NEW T \in SUBSET Nat, T # {}
  PROVE  \E m \in T : \A k \in T : m <= k
<1> DEFINE R == OpToRel(<, Nat)
<1>1. IsWellFoundedOn(R, Nat)
  BY NatLessThanWellFounded
<1>2. \A k, m \in Nat : <<k, m>> \in R <=> k < m
  BY DEF OpToRel
<1> HIDE DEF R
<1>3. PICK m \in T : \A k \in T : ~ (<<k, m>> \in R)
  BY <1>1, WFMin
<1>4. ASSUME NEW k \in T
      PROVE  m <= k
  <2>1. k \in Nat /\ m \in Nat /\ ~ (<<k, m>> \in R)
    BY <1>3, <1>4
  <2>2. ~ (k < m)
    BY <1>2, <2>1
  <2> QED BY <2>1, <2>2
<1> QED BY <1>4

(* As many places as things, and no two things in one: no place is free.   *)
LEMMA NoPlaceFree ==
  ASSUME NEW S, NEW T, IsFiniteSet(T), Cardinality(S) = Cardinality(T),
         NEW f, \A x \in S : f[x] \in T,
         \A x, y \in S : f[x] = f[y] => x = y
  PROVE  \A y \in T : \E x \in S : f[x] = y
<1> DEFINE g == [x \in S |-> f[x]]
<1>1. g \in [S -> T] /\ \A x \in S : g[x] = f[x]
  OBVIOUS
<1> HIDE DEF g
<1>2. g \in Injection(S, T)
  BY <1>1 DEF Injection, IsInjective
<1>3. g \in Surjection(S, T)
  BY <1>2, FS_Injection
<1> QED BY <1>1, <1>3 DEF Surjection

(* In particular, when the places are the things themselves.               *)
LEMMA AllTaken ==
  ASSUME NEW S, IsFiniteSet(S), NEW f, \A x \in S : f[x] \in S,
         \A x, y \in S : f[x] = f[y] => x = y
  PROVE  \A y \in S : \E x \in S : f[x] = y
<1> DEFINE g == [x \in S |-> f[x]]
<1>1. g \in [S -> S] /\ \A x \in S : g[x] = f[x]
  OBVIOUS
<1> HIDE DEF g
<1>2. g \in Injection(S, S)
  BY <1>1 DEF Injection, IsInjective
<1>3. g \in Surjection(S, S)
  BY <1>2, FS_Injection
<1> QED BY <1>1, <1>3 DEF Surjection

(* The other way round: when none is free, no two things are in one.       *)
LEMMA NoneTwice ==
  ASSUME NEW S, IsFiniteSet(S), NEW f, \A x \in S : f[x] \in S,
         \A y \in S : \E x \in S : f[x] = y
  PROVE  \A x, y \in S : f[x] = f[y] => x = y
<1> DEFINE g == [x \in S |-> f[x]]
<1>1. g \in [S -> S] /\ \A x \in S : g[x] = f[x]
  OBVIOUS
<1> HIDE DEF g
<1>2. g \in Surjection(S, S)
  <2>1. \A y \in S : \E x \in S : g[x] = y
    BY <1>1
  <2> QED BY <1>1, <2>1 DEF Surjection
<1>3. g \in Injection(S, S)
  BY <1>2, FS_SurjSameCardinalityImpliesInj
<1> QED BY <1>1, <1>3 DEF Injection, IsInjective

(* What no two things share is at least as much as they are.               *)
LEMMA RoomForAll ==
  ASSUME NEW S, NEW T, IsFiniteSet(T), NEW f, \A x \in S : f[x] \in T,
         \A x, y \in S : f[x] = f[y] => x = y
  PROVE  IsFiniteSet(S) /\ Cardinality(S) <= Cardinality(T)
<1> DEFINE g == [x \in S |-> f[x]]
<1>1. g \in [S -> T] /\ \A x \in S : g[x] = f[x]
  OBVIOUS
<1> HIDE DEF g
<1>2. g \in Injection(S, T)
  BY <1>1 DEF Injection, IsInjective
<1> QED BY <1>2, FS_Injection

----------------------------------------------------------------------------
(* The buckets of an input.                                                *)

(* There are buckets, and every code has one of them.                      *)
LEMMA CellFacts ==
  ASSUME NoStrays, NEW in \in Inputs
  PROVE  /\ in.total \in Nat \ {0} /\ L1Size(in.total) \in Nat \ {0}
         /\ in.shadow \in BOOLEAN
         /\ \A i \in 0 .. in.total - 1 :
              CellOf(in.code[i], in.total) \in 0 .. L1Size(in.total) - 1
<1>1. /\ in.total \in Nat \ {0} /\ in.shadow \in BOOLEAN
      /\ in.code \in [0 .. in.total - 1 -> 0 .. CodeMax]
  BY InputAssumption DEF IsInput
<1>2. CodeMax \in Nat \ {0} /\ PerCell \in Nat \ {0}
  BY LevelAssumption
<1>3. \A a \in Nat, b \in Nat \ {0} :
        /\ a \div b \in Nat /\ a % b \in 0 .. b - 1
        /\ a = b * (a \div b) + (a % b)
  BY SMT
<1>4. \A a \in Nat \ {0}, b \in Nat \ {0} : (a + (b - 1)) \div b \in Nat \ {0}
  <2> SUFFICES ASSUME NEW a \in Nat \ {0}, NEW b \in Nat \ {0}
               PROVE  (a + (b - 1)) \div b \in Nat \ {0}
    OBVIOUS
  <2> DEFINE n == a + (b - 1)
             k == n \div b
             r == n % b
  <2>1. n \in Nat /\ n >= b
    OBVIOUS
  <2> HIDE DEF n
  <2>2. k \in Nat /\ r \in 0 .. b - 1 /\ n = b * k + r
    BY <1>3, <2>1
  <2> HIDE DEF k, r
  <2>3. k # 0
    <3>1. b * 0 = 0
      OBVIOUS
    <3> QED BY <2>1, <2>2, <3>1
  <2> QED BY <2>2, <2>3 DEF k, n
<1>5. L1Size(in.total) \in Nat \ {0}
  BY <1>1, <1>2, <1>4 DEF L1Size
<1>6. \A x \in Nat : Curve(x) \in Nat
  <2>1. L1TIP \in Nat
    BY <1>2, <1>3 DEF L1TIP
  <2> SUFFICES ASSUME NEW x \in Nat PROVE x * (x + L1TIP) \in Nat
    BY DEF Curve
  <2> DEFINE y == x + L1TIP
  <2>2. y \in Nat
    BY <2>1
  <2> HIDE DEF y
  <2>3. x * y \in Nat
    BY <2>2, SMT
  <2> QED BY <2>3 DEF y
<1>7. Curve(CodeMax) \in Nat \ {0}
  <2>1. L1TIP \in Nat
    BY <1>2, <1>3 DEF L1TIP
  <2> DEFINE y == CodeMax + L1TIP
  <2>2. y \in Nat \ {0}
    BY <1>2, <2>1
  <2> HIDE DEF y
  <2>3. CodeMax * y \in Nat \ {0}
    BY <1>2, <2>2, SMT
  <2> QED BY <2>3 DEF y, Curve
<1>8. L1Band(in.total) \in Nat \ {0}
  BY <1>4, <1>5, <1>7 DEF L1Band
<1>9. ASSUME NEW i \in 0 .. in.total - 1
      PROVE  CellOf(in.code[i], in.total) \in 0 .. L1Size(in.total) - 1
  <2>1. in.code[i] \in Nat
    BY <1>1, <1>2
  <2>2. CellOf(in.code[i], in.total) \in Nat
    BY <1>3, <1>6, <1>8, <2>1 DEF CellOf, SkewMap
  <2>3. CellOf(in.code[i], in.total) < L1Size(in.total)
    BY DEF NoStrays
  <2> QED BY <1>5, <2>2, <2>3
<1> QED BY <1>1, <1>5, <1>9

(* What the lemmas on the layout need to know of the state.                *)
Sized ==
  /\ Total \in Nat \ {0} /\ NBuckets \in Nat \ {0}
  /\ cell \in [Items -> Buckets]

Tabled ==
  /\ Sized /\ Numbered
  /\ table \in [Buckets -> [val : 0 .. Total, idx : Buckets]]

(* The identifiers can be counted.                                         *)
LEMMA SizeFacts ==
  ASSUME Sized
  PROVE  /\ IsFiniteSet(Items) /\ Cardinality(Items) = Total
         /\ IsFiniteSet(Buckets) /\ Cardinality(Buckets) = NBuckets
         /\ \A S \in SUBSET Items :
              IsFiniteSet(S) /\ Cardinality(S) \in 0 .. Total
         /\ \A b : /\ Members(b) \in SUBSET Items
                   /\ CountOf(b) = Cardinality(Members(b))
                   /\ CountOf(b) \in 0 .. Total
<1>1. Total \in Nat \ {0} /\ NBuckets \in Nat \ {0}
  BY DEF Sized
<1>2. IsFiniteSet(Items) /\ Cardinality(Items) = Total
  <2>1. 0 \in Int /\ Total - 1 \in Int /\ ~ (0 > Total - 1)
        /\ (Total - 1) - 0 + 1 = Total
    BY <1>1
  <2> QED BY <2>1, FS_Interval DEF Items
<1>3. IsFiniteSet(Buckets) /\ Cardinality(Buckets) = NBuckets
  <2>1. 0 \in Int /\ NBuckets - 1 \in Int /\ ~ (0 > NBuckets - 1)
        /\ (NBuckets - 1) - 0 + 1 = NBuckets
    BY <1>1
  <2> QED BY <2>1, FS_Interval DEF Buckets
<1>4. ASSUME NEW S \in SUBSET Items
      PROVE  IsFiniteSet(S) /\ Cardinality(S) \in 0 .. Total
  <2>1. IsFiniteSet(S) /\ Cardinality(S) <= Total
    BY <1>2, FS_Subset
  <2>2. Cardinality(S) \in Nat
    BY <2>1, FS_CardinalityType
  <2> QED BY <1>1, <2>1, <2>2
<1>5. ASSUME NEW b
      PROVE  /\ Members(b) \in SUBSET Items
             /\ CountOf(b) = Cardinality(Members(b))
             /\ CountOf(b) \in 0 .. Total
  BY <1>4 DEF Members, CountOf
<1> QED BY <1>2, <1>3, <1>4, <1>5

----------------------------------------------------------------------------
(* The ranks of the buckets, and where each starts.                        *)

(* Each bucket has one rank.                                               *)
LEMMA RankFacts ==
  ASSUME Tabled
  PROVE  /\ \A b \in Buckets : RankOf(b) \in Buckets /\ AtRank(RankOf(b)) = b
         /\ \A r \in Buckets : AtRank(r) \in Buckets /\ RankOf(AtRank(r)) = r
<1>1. /\ NBuckets \in Nat \ {0} /\ Buckets = 0 .. NBuckets - 1
      /\ table \in [Buckets -> [val : 0 .. Total, idx : Buckets]]
      /\ \A i, k \in Buckets : table[i].idx = table[k].idx => i = k
  BY DEF Tabled, Sized, Buckets, Numbered
<1>2. \A r \in Buckets : NBuckets - 1 - r \in Buckets
  BY <1>1
<1>3. \A r \in Buckets : AtRank(r) \in Buckets
  BY <1>1, <1>2 DEF AtRank
<1>4. ASSUME NEW r \in Buckets, NEW s \in Buckets, AtRank(r) = AtRank(s)
      PROVE  r = s
  <2>1. NBuckets - 1 - r = NBuckets - 1 - s
    BY <1>1, <1>2, <1>4 DEF AtRank
  <2> QED BY <1>1, <2>1
<1>5. ASSUME NEW b \in Buckets
      PROVE  \E r \in Buckets : AtRank(r) = b
  <2> DEFINE f == [r \in Buckets |-> AtRank(r)]
  <2>1. \A r \in Buckets : f[r] = AtRank(r)
    OBVIOUS
  <2>2. IsFiniteSet(Buckets)
    BY SizeFacts DEF Tabled
  <2> HIDE DEF f
  <2>3. \A y \in Buckets : \E x \in Buckets : f[x] = y
    BY <1>3, <1>4, <2>1, <2>2, AllTaken
  <2> QED BY <2>1, <2>3
<1>6. \A b \in Buckets : RankOf(b) \in Buckets /\ AtRank(RankOf(b)) = b
  BY <1>5 DEF RankOf
<1>7. \A r \in Buckets : RankOf(AtRank(r)) = r
  BY <1>3, <1>4, <1>6
<1> QED BY <1>3, <1>6, <1>7

(* The starts are the sums of the counts of the lower ranks.               *)
LEMMA StartFacts ==
  ASSUME Tabled
  PROVE  /\ Start(0) = 0 /\ Start(NBuckets) = Total
         /\ \A r \in 0 .. NBuckets : Start(r) \in 0 .. Total
         /\ \A r \in Buckets :
              /\ r + 1 \in 0 .. NBuckets /\ r \in 0 .. NBuckets
              /\ Start(r + 1) = Start(r) + CountOf(AtRank(r))
         /\ \A r, s \in 0 .. NBuckets : r <= s => Start(r) <= Start(s)
<1>1. /\ NBuckets \in Nat \ {0} /\ Buckets = 0 .. NBuckets - 1
      /\ Total \in Nat \ {0} /\ Sized
      /\ \A i \in Items : Bucket(i) \in Buckets /\ RankOf(Bucket(i)) \in Buckets
  BY RankFacts DEF Tabled, Sized, Buckets, Bucket
<1>2. \A r : Below(r) \in SUBSET Items
  BY DEF Below
<1>3. \A r : Start(r) \in 0 .. Total /\ IsFiniteSet(Below(r))
  BY <1>1, <1>2, SizeFacts DEF Start
<1>4. Start(0) = 0
  <2>1. Below(0) = {}
    BY <1>1 DEF Below
  <2> QED BY <2>1, FS_EmptySet DEF Start
<1>5. Start(NBuckets) = Total
  <2>1. Below(NBuckets) = Items
    BY <1>1 DEF Below
  <2> QED BY <1>1, <2>1, SizeFacts DEF Start
<1>6. ASSUME NEW r \in Buckets
      PROVE  /\ r + 1 \in 0 .. NBuckets /\ r \in 0 .. NBuckets
             /\ Start(r + 1) = Start(r) + CountOf(AtRank(r))
  <2> DEFINE b == AtRank(r)
  <2>1. b \in Buckets /\ RankOf(b) = r
    BY RankFacts
  <2>2. \A i \in Items : RankOf(Bucket(i)) = r <=> Bucket(i) = b
    BY <1>1, <2>1, RankFacts
  <2>3. Below(r + 1) = Below(r) \union Members(b)
    <3>1. \A i \in Items :
            RankOf(Bucket(i)) < r + 1 <=>
              RankOf(Bucket(i)) < r \/ RankOf(Bucket(i)) = r
      BY <1>1
    <3> QED BY <2>2, <3>1 DEF Below, Members
  <2>4. Below(r) \cap Members(b) = {}
    <3>1. \A i \in Items : ~ (RankOf(Bucket(i)) < r /\ RankOf(Bucket(i)) = r)
      BY <1>1
    <3> QED BY <2>2, <3>1 DEF Below, Members
  <2>5. IsFiniteSet(Members(b)) /\ Cardinality(Members(b)) \in Nat
        /\ CountOf(b) = Cardinality(Members(b))
    <3>1. Members(b) \in SUBSET Items /\ CountOf(b) = Cardinality(Members(b))
      BY <1>1, SizeFacts
    <3> QED BY <1>1, <3>1, SizeFacts
  <2>6. Cardinality(Below(r + 1)) =
          Cardinality(Below(r)) + Cardinality(Members(b)) - 0
    BY <1>3, <2>3, <2>4, <2>5, FS_Union, FS_EmptySet
  <2>7. Start(r + 1) = Start(r) + CountOf(b)
    BY <1>3, <2>5, <2>6 DEF Start
  <2> QED BY <1>1, <2>7
<1>7. ASSUME NEW r \in 0 .. NBuckets, NEW s \in 0 .. NBuckets, r <= s
      PROVE  Start(r) <= Start(s)
  <2>1. \A i \in Items : RankOf(Bucket(i)) < r => RankOf(Bucket(i)) < s
    BY <1>1, <1>7
  <2>2. Below(r) \in SUBSET Below(s)
    BY <2>1 DEF Below
  <2> QED BY <1>3, <2>2, FS_Subset DEF Start
<1> QED BY <1>3, <1>4, <1>5, <1>6, <1>7

(* Each bucket has slots of its own, and each slot is some bucket's.       *)
LEMMA SlotFacts ==
  ASSUME Tabled
  PROVE  /\ \A b \in Buckets :
              /\ First(b) \in 0 .. Total /\ Past(b) \in 0 .. Total
              /\ Past(b) = First(b) + CountOf(b) /\ First(b) <= Past(b)
              /\ Slots(b) \in SUBSET Items
         /\ \A b, c \in Buckets :
              RankOf(b) < RankOf(c) => Past(b) <= First(c)
         /\ \A b, c \in Buckets : \A x : x \in Slots(b) /\ x \in Slots(c) => b = c
         /\ \A x \in Items : \E b \in Buckets : x \in Slots(b)
<1>1. /\ NBuckets \in Nat \ {0} /\ Buckets = 0 .. NBuckets - 1
      /\ Total \in Nat \ {0} /\ Sized /\ Items = 0 .. Total - 1
  BY DEF Tabled, Sized, Buckets, Items
<1>2. ASSUME NEW b \in Buckets
      PROVE  /\ First(b) \in 0 .. Total /\ Past(b) \in 0 .. Total
             /\ Past(b) = First(b) + CountOf(b) /\ First(b) <= Past(b)
             /\ Slots(b) \in SUBSET Items
  <2>1. /\ RankOf(b) \in Buckets /\ AtRank(RankOf(b)) = b
        /\ RankOf(b) \in 0 .. NBuckets /\ RankOf(b) + 1 \in 0 .. NBuckets
    <3>1. RankOf(b) \in Buckets /\ AtRank(RankOf(b)) = b
      BY RankFacts
    <3> QED BY <1>1, <3>1
  <2>2. First(b) \in 0 .. Total /\ Past(b) \in 0 .. Total
        /\ Past(b) = First(b) + CountOf(b)
    BY <2>1, StartFacts DEF First, Past
  <2>3. CountOf(b) \in 0 .. Total
    BY <1>1, SizeFacts
  <2> QED BY <1>1, <2>2, <2>3 DEF Slots
<1>3. ASSUME NEW b \in Buckets, NEW c \in Buckets, RankOf(b) < RankOf(c)
      PROVE  Past(b) <= First(c)
  <2>1. RankOf(b) \in Buckets /\ RankOf(c) \in Buckets
    BY RankFacts
  <2>2. RankOf(b) + 1 \in 0 .. NBuckets /\ RankOf(c) \in 0 .. NBuckets
        /\ RankOf(b) + 1 <= RankOf(c)
    BY <1>1, <1>3, <2>1
  <2> QED BY <2>2, StartFacts DEF First, Past
<1>4. ASSUME NEW b \in Buckets, NEW c \in Buckets, NEW x,
             x \in Slots(b), x \in Slots(c)
      PROVE  b = c
  <2>1. /\ RankOf(b) \in Nat /\ RankOf(c) \in Nat
        /\ AtRank(RankOf(b)) = b /\ AtRank(RankOf(c)) = c
    <3>1. RankOf(b) \in Buckets /\ RankOf(c) \in Buckets
      BY RankFacts
    <3> QED BY <1>1, <3>1, RankFacts
  <2>2. /\ First(b) \in Nat /\ Past(b) \in Nat
        /\ First(c) \in Nat /\ Past(c) \in Nat
    BY <1>1, <1>2
  <2>3. x \in Nat /\ First(b) <= x /\ x < Past(b) /\ First(c) <= x /\ x < Past(c)
    BY <1>4, <2>2 DEF Slots
  <2>4. ~ (RankOf(b) < RankOf(c)) /\ ~ (RankOf(c) < RankOf(b))
    BY <1>3, <2>2, <2>3
  <2>5. RankOf(b) = RankOf(c)
    BY <2>1, <2>4
  <2> QED BY <2>1, <2>5
<1>5. ASSUME NEW x \in Items
      PROVE  \E b \in Buckets : x \in Slots(b)
  <2> DEFINE T == {r \in 0 .. NBuckets : x < Start(r)}
  <2>1. NBuckets \in T /\ T \in SUBSET Nat
    BY <1>1, StartFacts
  <2>2. PICK m \in T : \A k \in T : m <= k
    <3> HIDE DEF T
    <3> QED BY <2>1, Least
  <2>3. m \in 0 .. NBuckets /\ x < Start(m)
    BY <2>2
  <2>4. m # 0
    BY <1>1, <2>3, StartFacts
  <2>5. m - 1 \in Buckets /\ m - 1 \in 0 .. NBuckets /\ (m - 1) + 1 = m
        /\ ~ (m - 1 \in T)
    BY <1>1, <2>2, <2>3, <2>4
  <2>6. Start(m - 1) \in 0 .. Total /\ Start(m) \in 0 .. Total
    BY <2>3, <2>5, StartFacts
  <2>7. Start(m - 1) <= x
    BY <1>1, <2>5, <2>6
  <2>8. AtRank(m - 1) \in Buckets /\ RankOf(AtRank(m - 1)) = m - 1
    BY <2>5, RankFacts
  <2>9. x \in Slots(AtRank(m - 1))
    <3>1. First(AtRank(m - 1)) = Start(m - 1) /\ Past(AtRank(m - 1)) = Start(m)
      BY <2>5, <2>8 DEF First, Past
    <3>2. x \in Start(m - 1) .. Start(m) - 1
      BY <1>1, <2>3, <2>6, <2>7
    <3> QED BY <3>1, <3>2 DEF Slots
  <2> QED BY <2>8, <2>9
<1> QED BY <1>2, <1>3, <1>4, <1>5

(* The recursion of StartOf.                                               *)
Starts(s) ==
  [r \in 0 .. NBuckets |-> IF r = 0 THEN 0
                           ELSE s[r - 1] + CountOf(AtRank(r - 1))]

(* StartOf gives each bucket its start.                                    *)
LEMMA StartOfIs ==
  ASSUME Tabled
  PROVE  StartOf = [b \in Buckets |-> First(b)]
<1>1. NBuckets \in Nat \ {0} /\ Buckets = 0 .. NBuckets - 1
  BY DEF Tabled, Sized, Buckets
<1>2. ASSUME NEW r \in 0 .. NBuckets
      PROVE  Start(r) = IF r = 0 THEN 0
                        ELSE Start(r - 1) + CountOf(AtRank(r - 1))
  <2>1. CASE r = 0
    BY <2>1, StartFacts
  <2>2. CASE r # 0
    <3>1. r - 1 \in Buckets /\ (r - 1) + 1 = r
      BY <1>1, <2>2
    <3> QED BY <2>2, <3>1, StartFacts
  <2> QED BY <2>1, <2>2
<1> DEFINE g == [r \in 0 .. NBuckets |-> Start(r)]
<1>3. g = Starts(g)
  <2>1. ASSUME NEW r \in 0 .. NBuckets
        PROVE  g[r] = IF r = 0 THEN 0 ELSE g[r - 1] + CountOf(AtRank(r - 1))
    <3>1. r # 0 => r - 1 \in 0 .. NBuckets
      BY <1>1
    <3>2. g[r] = Start(r) /\ (r # 0 => g[r - 1] = Start(r - 1))
      BY <3>1
    <3> HIDE DEF g
    <3> QED BY <1>2, <3>2
  <2>2. g = [r \in 0 .. NBuckets |-> g[r]]
    OBVIOUS
  <2> HIDE DEF g
  <2> QED BY <2>1, <2>2 DEF Starts
<1> HIDE DEF g
<1> DEFINE at == CHOOSE s : s = Starts(s)
<1>4. at = Starts(at)
  BY <1>3
<1>5. StartOf = [b \in Buckets |-> at[RankOf(b)]]
  BY DEF StartOf, Starts, RankOf
<1> HIDE DEF at
<1>6. \A r \in 0 .. NBuckets : at[r] = Start(r)
  <2> DEFINE T == {r \in 0 .. NBuckets : at[r] # Start(r)}
  <2> SUFFICES ASSUME T # {} PROVE FALSE
    OBVIOUS
  <2>1. PICK m \in T : \A k \in T : m <= k
    <3>1. T \in SUBSET Nat
      OBVIOUS
    <3> HIDE DEF T
    <3> QED BY <3>1, Least
  <2>2. m \in 0 .. NBuckets /\ at[m] # Start(m)
    OBVIOUS
  <2>3. at[m] = IF m = 0 THEN 0 ELSE at[m - 1] + CountOf(AtRank(m - 1))
    BY <1>4, <2>2 DEF Starts
  <2>4. m # 0
    BY <1>2, <2>2, <2>3
  <2>5. m - 1 \in 0 .. NBuckets /\ m - 1 \notin T
    BY <1>1, <2>1, <2>2, <2>4
  <2>6. at[m - 1] = Start(m - 1)
    BY <2>5
  <2> QED BY <1>2, <2>2, <2>3, <2>4, <2>6
<1>7. \A b \in Buckets : RankOf(b) \in 0 .. NBuckets
  <2>1. \A b \in Buckets : RankOf(b) \in Buckets
    BY RankFacts
  <2> QED BY <1>1, <2>1
<1>8. \A b \in Buckets : at[RankOf(b)] = First(b)
  BY <1>6, <1>7 DEF First
<1> QED BY <1>5, <1>8

----------------------------------------------------------------------------
(* The radix sort.                                                         *)

(* A number up to a digit is the digit and what is below it.               *)
LEMMA DigitSplit ==
  ASSUME NEW v \in Nat, NEW p \in Nat \ {0}, NEW r \in Nat \ {0}
  PROVE  /\ (v \div p) % r \in 0 .. r - 1 /\ v % p \in 0 .. p - 1
         /\ r * p \in Nat \ {0}
         /\ v % (r * p) = (((v \div p) % r) * p) + (v % p)
<1>1. \A a \in Nat, b \in Nat \ {0} :
        /\ a \div b \in Nat /\ a % b \in 0 .. b - 1
        /\ a = b * (a \div b) + (a % b)
  BY SMT
<1> DEFINE k == v \div p
           x == v % p
           h == k \div r
           d == k % r
           m == r * p
           y == d * p + x
<1>2. k \in Nat /\ x \in 0 .. p - 1 /\ v = p * k + x
  BY <1>1
<1>3. h \in Nat /\ d \in 0 .. r - 1 /\ k = r * h + d
  <2> HIDE DEF k
  <2> QED BY <1>1, <1>2
<1> HIDE DEF k, x, h, d
<1>4. m \in Nat \ {0}
  BY SMT
<1>5. y \in Nat /\ y < m
  <2>1. d * p \in Nat /\ d * p <= (r - 1) * p
    BY <1>3, SMT
  <2>2. (r - 1) * p = m - p
    BY SMT
  <2> QED BY <1>2, <1>4, <2>1, <2>2
<1>6. v = m * h + y
  <2>1. p * (r * h + d) = (r * p) * h + d * p
    BY <1>3, SMT
  <2>2. m * h \in Nat /\ d * p \in Nat
    BY <1>3, <1>4, SMT
  <2> QED BY <1>2, <1>3, <2>1, <2>2
<1> DEFINE a == v \div m
           z == v % m
<1>7. a \in Nat /\ z \in 0 .. m - 1 /\ v = m * a + z
  <2> HIDE DEF m
  <2> QED BY <1>1, <1>4
<1> HIDE DEF m, y, a, z
<1>8. z = y
  <2>1. ASSUME NEW i \in Nat, NEW j \in Nat, NEW s \in Nat, NEW t \in Nat,
               s < m, t < m, m * i + s = m * j + t, i < j
        PROVE  FALSE
    <3>1. m * j >= m * (i + 1)
      BY <1>4, <2>1, SMT
    <3>2. m * (i + 1) = m * i + m /\ m * i \in Nat /\ m * j \in Nat
      BY <1>4, SMT
    <3> QED BY <1>4, <2>1, <3>1, <3>2
  <2>2. /\ a \in Nat /\ h \in Nat /\ y \in Nat /\ z \in Nat
        /\ y < m /\ z < m /\ m * a + z = m * h + y
    BY <1>3, <1>4, <1>5, <1>6, <1>7
  <2>3. ~ (a < h)
    BY <2>1, <2>2
  <2>4. ~ (h < a)
    <3>1. m * h + y = m * a + z
      BY <2>2
    <3> QED BY <2>1, <2>2, <3>1
  <2>5. a = h
    BY <2>2, <2>3, <2>4
  <2>6. m * h \in Nat
    BY <1>3, <1>4, SMT
  <2> QED BY <2>2, <2>5, <2>6
<1> QED BY <1>2, <1>3, <1>4, <1>8 DEF m, y, z, d, x, k

(* What goes before i: those of a lower digit, and those of its own that   *)
(* come before it.                                                         *)
Preceding(e, B, i) == {k \in B : e[k] < e[i] \/ (e[k] = e[i] /\ k < i)}

(* Places that are entries, one each, are all taken.                       *)
LEMMA PlacesTaken ==
  ASSUME NEW B, IsFiniteSet(B), NEW e,
         \A i \in B : Cardinality(Preceding(e, B, i)) \in B,
         \A i, k \in B :
           Cardinality(Preceding(e, B, i)) = Cardinality(Preceding(e, B, k))
             => i = k
  PROVE  \A j \in B : \E i \in B : Cardinality(Preceding(e, B, i)) = j
<1> DEFINE f == [i \in B |-> Cardinality(Preceding(e, B, i))]
<1>1. \A i \in B : f[i] = Cardinality(Preceding(e, B, i))
  OBVIOUS
<1> HIDE DEF f
<1>2. /\ \A i \in B : f[i] \in B
      /\ \A i, k \in B : f[i] = f[k] => i = k
  BY <1>1
<1>3. \A j \in B : \E i \in B : f[i] = j
  BY <1>2, AllTaken
<1> QED BY <1>1, <1>3

(* Each place is one entry's, and they are in order.                       *)
LEMMA PlacesByDigit ==
  ASSUME NEW n \in Nat \ {0}, NEW B, IsFiniteSet(B), Cardinality(B) = n,
         \A j : j \in B <=> j \in Nat /\ j < n,
         NEW e, \A i \in B : e[i] \in Nat
  PROVE  /\ \A j \in B : \E i \in B : Cardinality(Preceding(e, B, i)) = j
         /\ \A i, k \in B : i \in Preceding(e, B, k) =>
              Cardinality(Preceding(e, B, i)) < Cardinality(Preceding(e, B, k))
<1>1. IsFiniteSet(B) /\ Cardinality(B) = n
  OBVIOUS
<1>2. \A i \in B : /\ Preceding(e, B, i) \in SUBSET B
                   /\ i \notin Preceding(e, B, i)
  BY DEF Preceding
<1>3. \A i \in B : /\ IsFiniteSet(Preceding(e, B, i))
                   /\ Cardinality(Preceding(e, B, i)) \in Nat
  BY <1>1, <1>2, FS_Subset, FS_CardinalityType
<1>4. \A i \in B : Cardinality(Preceding(e, B, i)) + 1
                     = Cardinality(Preceding(e, B, i) \union {i})
  BY <1>2, <1>3, FS_AddElement
<1>5. ASSUME NEW i \in B, NEW k \in B, i \in Preceding(e, B, k)
      PROVE  Cardinality(Preceding(e, B, i)) < Cardinality(Preceding(e, B, k))
  <2>1. \A j \in B : j \in Preceding(e, B, i) => j \in Preceding(e, B, k)
    <3> SUFFICES ASSUME NEW j \in B, j \in Preceding(e, B, i)
                 PROVE  j \in Preceding(e, B, k)
      OBVIOUS
    <3>1. e[i] \in Nat /\ e[j] \in Nat /\ e[k] \in Nat
          /\ i \in Nat /\ j \in Nat /\ k \in Nat
      OBVIOUS
    <3>2. e[j] < e[i] \/ (e[j] = e[i] /\ j < i)
      BY DEF Preceding
    <3>3. e[i] < e[k] \/ (e[i] = e[k] /\ i < k)
      BY <1>5 DEF Preceding
    <3>4. e[j] < e[k] \/ (e[j] = e[k] /\ j < k)
      BY <3>1, <3>2, <3>3
    <3> QED BY <3>4 DEF Preceding
  <2>2. Preceding(e, B, i) \union {i} \in SUBSET Preceding(e, B, k)
    BY <1>2, <1>5, <2>1
  <2>3. Cardinality(Preceding(e, B, i) \union {i})
          <= Cardinality(Preceding(e, B, k))
    BY <1>3, <2>2, FS_Subset
  <2> QED BY <1>3, <1>4, <2>3
<1>6. ASSUME NEW i \in B
      PROVE  Cardinality(Preceding(e, B, i)) \in B
  <2>1. Preceding(e, B, i) \union {i} \in SUBSET B
    BY <1>2
  <2>2. Cardinality(Preceding(e, B, i) \union {i}) <= n
    BY <1>1, <2>1, FS_Subset
  <2> QED BY <1>3, <1>4, <2>2
<1>7. ASSUME NEW i \in B, NEW k \in B, i # k
      PROVE  i \in Preceding(e, B, k) \/ k \in Preceding(e, B, i)
  <2>1. e[i] \in Nat /\ e[k] \in Nat /\ i \in Nat /\ k \in Nat
    OBVIOUS
  <2>2. \/ e[i] < e[k] \/ (e[i] = e[k] /\ i < k)
        \/ e[k] < e[i] \/ (e[k] = e[i] /\ k < i)
    <3>1. \A a, b, x, y \in Nat :
            x # y => \/ a < b \/ (a = b /\ x < y)
                     \/ b < a \/ (b = a /\ y < x)
      OBVIOUS
    <3> QED BY <1>7, <2>1, <3>1, Zenon
  <2> QED BY <2>2 DEF Preceding
<1>8. ASSUME NEW i \in B, NEW k \in B,
             Cardinality(Preceding(e, B, i)) = Cardinality(Preceding(e, B, k))
      PROVE  i = k
  <2>1. /\ Cardinality(Preceding(e, B, i)) \in Nat
        /\ Cardinality(Preceding(e, B, k)) \in Nat
    BY <1>3
  <2>2. i \notin Preceding(e, B, k) /\ k \notin Preceding(e, B, i)
    BY <1>5, <1>8, <2>1
  <2> QED BY <1>7, <2>2
<1>9. \A j \in B : \E i \in B : Cardinality(Preceding(e, B, i)) = j
  <2>1. \A i \in B : Cardinality(Preceding(e, B, i)) \in B
    BY <1>6
  <2>2. \A i, k \in B :
          Cardinality(Preceding(e, B, i)) = Cardinality(Preceding(e, B, k))
            => i = k
    BY <1>8
  <2>3. IsFiniteSet(B)
    BY <1>1
  <2> QED BY ONLY <2>1, <2>2, <2>3, PlacesTaken
<1> QED BY <1>5, <1>9

----------------------------------------------------------------------------
(* The slots of a copy.                                                    *)

(* How many of a bucket come before an identifier.                         *)
LEMMA BeforeFacts ==
  ASSUME Sized, NEW b
  PROVE  /\ Cardinality(Before(b, 0)) = 0
         /\ \A k \in Items :
              Cardinality(Before(b, k + 1)) =
                Cardinality(Before(b, k)) + IF Bucket(k) = b THEN 1 ELSE 0
         /\ \A k \in 0 .. Total : Cardinality(Before(b, k)) \in 0 .. CountOf(b)
         /\ \A k \in Members(b) : Cardinality(Before(b, k)) < CountOf(b)
         /\ \A i, k \in Members(b) :
              i < k => Cardinality(Before(b, i)) < Cardinality(Before(b, k))
<1>1. /\ Items = 0 .. Total - 1 /\ Total \in Nat \ {0}
      /\ Members(b) \in SUBSET Items
      /\ CountOf(b) = Cardinality(Members(b))
      /\ IsFiniteSet(Members(b)) /\ CountOf(b) \in 0 .. Total
  BY SizeFacts DEF Sized, Items
<1>2. \A k : /\ Before(b, k) \in SUBSET Members(b)
             /\ IsFiniteSet(Before(b, k))
             /\ Cardinality(Before(b, k)) \in Nat
             /\ Cardinality(Before(b, k)) <= CountOf(b)
  <2>1. \A k : Before(b, k) \in SUBSET Members(b)
    BY DEF Before
  <2> QED BY <1>1, <2>1, FS_Subset, FS_CardinalityType
<1>3. Cardinality(Before(b, 0)) = 0
  <2>1. Before(b, 0) = {}
    BY <1>1 DEF Before
  <2> QED BY <2>1, FS_EmptySet
<1>4. ASSUME NEW k \in Items
      PROVE  Cardinality(Before(b, k + 1)) =
               Cardinality(Before(b, k)) + IF Bucket(k) = b THEN 1 ELSE 0
  <2>1. \A i \in Items : i < k + 1 <=> i < k \/ i = k
    BY <1>1
  <2>2. k \notin Before(b, k)
    BY <1>1 DEF Before
  <2>3. CASE Bucket(k) = b
    <3>1. Before(b, k + 1) = Before(b, k) \union {k}
      BY <2>1, <2>3 DEF Before, Members
    <3> QED BY <1>2, <2>2, <2>3, <3>1, FS_AddElement
  <2>4. CASE Bucket(k) # b
    <3>1. Before(b, k + 1) = Before(b, k)
      BY <2>1, <2>4 DEF Before, Members
    <3> QED BY <1>2, <2>4, <3>1
  <2> QED BY <2>3, <2>4
<1>5. ASSUME NEW i \in Members(b), NEW k, k \in Int, i < k
      PROVE  Cardinality(Before(b, i)) < Cardinality(Before(b, k))
  <2>1. i \in Items /\ i \in Int
    BY <1>1
  <2>2. i \notin Before(b, i)
    BY <2>1 DEF Before
  <2>3. Before(b, i) \union {i} \in SUBSET Before(b, k)
    <3>1. \A j \in Items : j < i => j < k
      BY <1>1, <1>5, <2>1
    <3> QED BY <1>1, <1>5, <3>1 DEF Before
  <2>4. Cardinality(Before(b, i) \union {i}) <= Cardinality(Before(b, k))
    BY <1>2, <2>3, FS_Subset
  <2>5. Cardinality(Before(b, i) \union {i}) = Cardinality(Before(b, i)) + 1
    BY <1>2, <2>2, FS_AddElement
  <2> QED BY <1>2, <2>4, <2>5
<1>6. \A k \in Members(b) : Cardinality(Before(b, k)) < CountOf(b)
  <2> SUFFICES ASSUME NEW k \in Members(b)
               PROVE  Cardinality(Before(b, k)) < CountOf(b)
    OBVIOUS
  <2>1. k < Total /\ Total \in Int
    BY <1>1
  <2>2. Cardinality(Before(b, k)) < Cardinality(Before(b, Total))
    BY <1>5, <2>1
  <2> QED BY <1>1, <1>2, <2>2
<1>7. \A i, k \in Members(b) :
        i < k => Cardinality(Before(b, i)) < Cardinality(Before(b, k))
  <2>1. \A k \in Members(b) : k \in Int
    BY <1>1
  <2> QED BY <1>5, <2>1
<1>8. \A k : Cardinality(Before(b, k)) \in 0 .. CountOf(b)
  BY <1>1, <1>2
<1> QED BY <1>3, <1>4, <1>6, <1>7, <1>8

(* A slot for each identifier, within its bucket, and no two in one.       *)
LEMMA SlotOfFacts ==
  ASSUME Tabled
  PROVE  /\ \A i \in Items : SlotOf(i) \in Slots(Bucket(i)) /\ SlotOf(i) \in Items
         /\ \A i, k \in Items : SlotOf(i) = SlotOf(k) => i = k
         /\ \A x \in Items : \E i \in Items : SlotOf(i) = x
<1>1. /\ Sized /\ Items = 0 .. Total - 1 /\ Total \in Nat
      /\ \A i \in Items : Bucket(i) \in Buckets /\ i \in Members(Bucket(i))
  BY DEF Tabled, Sized, Bucket, Members, Items
<1>2. ASSUME NEW i \in Items
      PROVE  SlotOf(i) \in Slots(Bucket(i)) /\ SlotOf(i) \in Items
  <2> DEFINE b == Bucket(i)
             k == Cardinality(Before(b, i))
  <2>1. b \in Buckets /\ i \in Members(b)
    BY <1>1
  <2>2. /\ First(b) \in Nat /\ CountOf(b) \in Nat
        /\ Past(b) = First(b) + CountOf(b) /\ Slots(b) \in SUBSET Items
    <3>1. First(b) \in Nat /\ Past(b) = First(b) + CountOf(b)
          /\ Slots(b) \in SUBSET Items
      BY <1>1, <2>1, SlotFacts
    <3>2. CountOf(b) \in Nat
      BY <1>1, SizeFacts
    <3> QED BY <3>1, <3>2
  <2>3. k \in Nat /\ k < CountOf(b)
    <3>1. i \in 0 .. Total
      BY <1>1
    <3> QED BY <1>1, <2>1, <2>2, <3>1, BeforeFacts
  <2>4. SlotOf(i) = First(b) + k
    BY DEF SlotOf
  <2> HIDE DEF b, k
  <2>5. SlotOf(i) \in Slots(b)
    BY <2>2, <2>3, <2>4 DEF Slots
  <2> QED BY <2>2, <2>5 DEF b
<1>3. ASSUME NEW i \in Items, NEW k \in Items, SlotOf(i) = SlotOf(k), i < k
      PROVE  FALSE
  <2>1. Bucket(i) = Bucket(k)
    BY <1>1, <1>2, <1>3, SlotFacts
  <2> DEFINE b == Bucket(i)
  <2>2. i \in Members(b) /\ k \in Members(b) /\ b \in Buckets
    BY <1>1, <2>1
  <2>3. Cardinality(Before(b, i)) < Cardinality(Before(b, k))
    BY <1>1, <1>3, <2>2, BeforeFacts
  <2>4. /\ Cardinality(Before(b, i)) \in Nat /\ Cardinality(Before(b, k)) \in Nat
        /\ First(b) \in Nat
    <3>1. i \in 0 .. Total /\ k \in 0 .. Total /\ CountOf(b) \in 0 .. Total
      BY <1>1, SizeFacts
    <3>2. Cardinality(Before(b, i)) \in 0 .. CountOf(b)
          /\ Cardinality(Before(b, k)) \in 0 .. CountOf(b)
      BY <1>1, <3>1, BeforeFacts
    <3> QED BY <1>1, <2>2, <3>1, <3>2, SlotFacts
  <2>5. SlotOf(i) = First(b) + Cardinality(Before(b, i))
        /\ SlotOf(k) = First(b) + Cardinality(Before(b, k))
    BY <2>1 DEF SlotOf
  <2>6. \A a, c, d \in Nat : c < d => a + c # a + d
    OBVIOUS
  <2> HIDE DEF b
  <2> QED BY <1>3, <2>3, <2>4, <2>5, <2>6, Zenon
<1>4. \A i, k \in Items : SlotOf(i) = SlotOf(k) => i = k
  <2> SUFFICES ASSUME NEW i \in Items, NEW k \in Items, SlotOf(i) = SlotOf(k)
               PROVE  i = k
    OBVIOUS
  <2>1. ~ (i < k) /\ ~ (k < i)
    BY <1>3
  <2> QED BY <1>1, <2>1
<1>5. \A x \in Items : \E i \in Items : SlotOf(i) = x
  <2> DEFINE f == [i \in Items |-> SlotOf(i)]
  <2>1. \A i \in Items : f[i] = SlotOf(i)
    OBVIOUS
  <2> HIDE DEF f
  <2>2. /\ \A i \in Items : f[i] \in Items
        /\ \A i, k \in Items : f[i] = f[k] => i = k
    BY <1>2, <1>4, <2>1
  <2>3. \A y \in Items : \E x \in Items : f[x] = y
    <3>1. IsFiniteSet(Items)
      BY <1>1, SizeFacts
    <3> QED BY <2>2, <3>1, AllTaken
  <2> QED BY <2>1, <2>3
<1> QED BY <1>2, <1>4, <1>5

----------------------------------------------------------------------------
(* The search for the rank at which a task is divided.                     *)

Midpoint(t) == t.begin + (t.end - t.begin) \div 2

Mid(w) == w[1] + (w[2] - w[1]) \div 2

Searched(t, g) ==
  [w \in (t.first .. t.last) \X (t.first .. t.last) |->
     IF w[1] >= w[2] THEN w[1]
     ELSE IF range[AtRank(Mid(w))].idx < Midpoint(t)
          THEN g[<<Mid(w) + 1, w[2]>>] ELSE g[<<w[1], Mid(w)>>]]

(* Halving an interval makes it shorter.                                   *)
LEMMA MidFacts ==
  ASSUME NEW a \in Nat, NEW b \in Nat, a < b
  PROVE  Mid(<<a, b>>) \in a .. b - 1
<1>1. (b - a) \div 2 \in Nat /\ (b - a) \div 2 < b - a
  OBVIOUS
<1> QED BY <1>1 DEF Mid

(* The recursion ends: one more step works on intervals one longer.        *)
LEMMA SearchExists ==
  ASSUME NEW t, t.first \in Nat, t.last \in Nat
  PROVE  \E g : g = Searched(t, g)
<1> DEFINE I == (t.first .. t.last) \X (t.first .. t.last)
           Good(n, g) == \A w \in I : w[2] - w[1] < n => g[w] = Searched(t, g)[w]
           T == {n \in Nat : ~ \E g : Good(n, g)}
<1>1. ASSUME NEW n \in Nat, NEW g, Good(n, g)
      PROVE  \E h : h = [w \in I |-> Searched(t, g)[w]] /\ Good(n + 1, h)
  <2> DEFINE h == [w \in I |-> Searched(t, g)[w]]
  <2>1. ASSUME NEW w \in I, w[2] - w[1] < n + 1
        PROVE  h[w] = Searched(t, h)[w]
    <3> DEFINE a == w[1]
               b == w[2]
               m == Mid(w)
    <3>1. a \in Nat /\ b \in Nat /\ w = <<a, b>>
          /\ a \in t.first .. t.last /\ b \in t.first .. t.last
      OBVIOUS
    <3>2. \A f : Searched(t, f)[w] =
                   IF a >= b THEN a
                   ELSE IF range[AtRank(m)].idx < Midpoint(t)
                        THEN f[<<m + 1, b>>] ELSE f[<<a, m>>]
      BY DEF Searched
    <3>3. h[w] = Searched(t, g)[w]
      OBVIOUS
    <3>4. \A v \in I : v[2] - v[1] < n => h[v] = g[v]
      BY <1>1
    <3> HIDE DEF h
    <3>5. CASE a >= b
      BY <3>2, <3>3, <3>5
    <3>6. CASE a < b
      <4>1. m \in a .. b - 1
        BY <3>1, <3>6, MidFacts
      <4> HIDE DEF m
      <4>2. <<m + 1, b>> \in I /\ <<a, m>> \in I
            /\ b - (m + 1) < n /\ m - a < n
        BY <2>1, <3>1, <4>1
      <4>3. h[<<m + 1, b>>] = g[<<m + 1, b>>] /\ h[<<a, m>>] = g[<<a, m>>]
        BY <3>4, <4>2
      <4>4. Searched(t, h)[w] = Searched(t, g)[w]
        BY <3>2, <4>3 DEF m
      <4> QED BY <3>3, <4>4
    <3> QED BY <3>1, <3>5, <3>6
  <2> QED BY <2>1
<1>2. T = {}
  <2> SUFFICES ASSUME T # {} PROVE FALSE
    OBVIOUS
  <2>1. PICK n \in T : \A k \in T : n <= k
    <3>1. T \in SUBSET Nat
      OBVIOUS
    <3> HIDE DEF T
    <3> QED BY <3>1, Least
  <2>2. n \in Nat /\ ~ \E g : Good(n, g)
    OBVIOUS
  <2>3. CASE n = 0
    <3> DEFINE g == [w \in I |-> w[1]]
    <3>1. ASSUME NEW w \in I, w[2] - w[1] < 0
          PROVE  g[w] = Searched(t, g)[w]
      <4>1. w[1] >= w[2]
        BY <3>1
      <4> QED BY <4>1 DEF Searched
    <3>2. Good(0, g)
      BY <3>1
    <3> QED BY <2>2, <2>3, <3>2
  <2>4. CASE n # 0
    <3>1. n - 1 \in Nat /\ n - 1 \notin T /\ (n - 1) + 1 = n
      BY <2>1, <2>2, <2>4
    <3>2. PICK g : Good(n - 1, g)
      BY <3>1
    <3>3. \E h : Good((n - 1) + 1, h)
      <4> HIDE DEF Good
      <4> QED BY <1>1, <3>1, <3>2
    <3>4. \E h : Good(n, h)
      <4> HIDE DEF Good
      <4> QED BY <3>1, <3>3
    <3> QED BY <2>2, <3>4
  <2> QED BY <2>3, <2>4
<1> DEFINE n == t.last + 1
<1>3. PICK g : Good(n, g)
  <2>1. n \in Nat
    OBVIOUS
  <2> HIDE DEF n, Good
  <2> QED BY <1>2, <2>1
<1>4. PICK h : h = [w \in I |-> Searched(t, g)[w]] /\ Good(n + 1, h)
  <2>1. n \in Nat
    OBVIOUS
  <2> HIDE DEF n, Good
  <2> QED BY <1>1, <1>3, <2>1
<1>5. \A w \in I : h[w] = Searched(t, h)[w]
  <2>1. \A w \in I : w[2] - w[1] < n + 1
    OBVIOUS
  <2> QED BY <1>4, <2>1
<1>6. h = [w \in I |-> h[w]]
  <2> DEFINE F(w) == Searched(t, g)[w]
  <2>1. h = [w \in I |-> F(w)]
    BY <1>4
  <2> HIDE DEF F, I
  <2> QED BY <2>1
<1>7. Searched(t, h) = [w \in I |-> Searched(t, h)[w]]
  BY DEF Searched
<1> HIDE DEF I
<1> QED BY <1>5, <1>6, <1>7

Lower(t, r) == range[AtRank(r)].idx < Midpoint(t)

(* It finds a rank with nothing but lower starts before it, as starts that *)
(* come later are greater.                                                 *)
LEMMA SearchFinds ==
  ASSUME NEW t, t.first \in Nat, t.last \in Nat, NEW g, g = Searched(t, g),
         \A r, s \in t.first .. t.last - 1 :
           r <= s /\ Lower(t, s) => Lower(t, r)
  PROVE  \A a, b \in t.first .. t.last : a <= b =>
           /\ g[<<a, b>>] \in a .. b
           /\ \A r \in a .. g[<<a, b>>] - 1 : Lower(t, r)
<1> DEFINE Found(a, b) == /\ g[<<a, b>>] \in a .. b
                          /\ \A r \in a .. g[<<a, b>>] - 1 : Lower(t, r)
           T == {n \in Nat : \E a, b \in t.first .. t.last :
                               a <= b /\ n = b - a /\ ~ Found(a, b)}
<1>1. ASSUME T # {} PROVE FALSE
  <2>1. PICK n \in T : \A k \in T : n <= k
    <3>1. T \in SUBSET Nat
      OBVIOUS
    <3> HIDE DEF T
    <3> QED BY <1>1, <3>1, Least
  <2>2. PICK a \in t.first .. t.last, b \in t.first .. t.last :
          a <= b /\ n = b - a /\ ~ Found(a, b)
    BY <2>1
  <2>3. a \in Nat /\ b \in Nat /\ n \in Nat
    BY <2>2
  <2>4. ASSUME NEW c \in t.first .. t.last, NEW d \in t.first .. t.last,
               c <= d, d - c < n
        PROVE  Found(c, d)
    <3>1. d - c \in Nat /\ ~ (n <= d - c)
      BY <2>3, <2>4
    <3>2. d - c \notin T
      BY <2>1, <3>1
    <3> HIDE DEF Found
    <3> QED BY <2>4, <3>1, <3>2
  <2> HIDE DEF T
  <2>5. g[<<a, b>>] = IF a >= b THEN a
                      ELSE IF Lower(t, Mid(<<a, b>>))
                           THEN g[<<Mid(<<a, b>>) + 1, b>>]
                           ELSE g[<<a, Mid(<<a, b>>)>>]
    BY DEF Searched, Lower
  <2>6. CASE a = b
    <3>1. g[<<a, b>>] = a
      BY <2>3, <2>5, <2>6
    <3>2. a \in a .. b /\ \A r \in a .. a - 1 : FALSE
      BY <2>3, <2>6
    <3> QED BY <2>2, <3>1, <3>2
  <2>7. CASE a < b
    <3> DEFINE m == Mid(<<a, b>>)
    <3>1. m \in a .. b - 1
      BY <2>3, <2>7, MidFacts
    <3> HIDE DEF m
    <3>2. /\ m \in t.first .. t.last - 1 /\ m \in t.first .. t.last
          /\ m + 1 \in t.first .. t.last /\ m + 1 <= b /\ a <= m
          /\ b - (m + 1) < n /\ m - a < n
      BY <2>2, <2>3, <3>1
    <3>3. g[<<a, b>>] = IF Lower(t, m) THEN g[<<m + 1, b>>] ELSE g[<<a, m>>]
      BY <2>3, <2>5, <2>7 DEF m
    <3>4. CASE Lower(t, m)
      <4> DEFINE k == g[<<m + 1, b>>]
      <4>1. k \in m + 1 .. b /\ \A r \in m + 1 .. k - 1 : Lower(t, r)
        BY <2>4, <3>2
      <4> HIDE DEF k
      <4>2. k \in a .. b
        BY <2>3, <3>2, <4>1
      <4>3. ASSUME NEW r \in a .. k - 1
            PROVE  Lower(t, r)
        <5>1. CASE r <= m
          <6>1. r \in t.first .. t.last - 1
            BY <2>2, <2>3, <3>2, <4>1, <5>1
          <6> QED BY <3>2, <3>4, <5>1, <6>1
        <5>2. CASE r > m
          <6>1. r \in m + 1 .. k - 1
            BY <2>3, <3>2, <4>1, <5>2
          <6> QED BY <4>1, <6>1
        <5> QED BY <2>3, <3>1, <4>1, <5>1, <5>2
      <4>4. g[<<a, b>>] = k
        BY <3>3, <3>4 DEF k
      <4> QED BY <2>2, <4>2, <4>3, <4>4
    <3>5. CASE ~ Lower(t, m)
      <4> DEFINE k == g[<<a, m>>]
      <4>1. k \in a .. m /\ \A r \in a .. k - 1 : Lower(t, r)
        BY <2>4, <3>2
      <4> HIDE DEF k
      <4>2. k \in a .. b
        BY <2>3, <3>1, <4>1
      <4>3. g[<<a, b>>] = k
        BY <3>3, <3>5 DEF k
      <4> QED BY <2>2, <4>1, <4>2, <4>3
    <3> QED BY <3>4, <3>5
  <2> QED BY <2>2, <2>3, <2>6, <2>7
<1> SUFFICES ASSUME NEW a \in t.first .. t.last, NEW b \in t.first .. t.last,
                    a <= b
             PROVE  Found(a, b)
  OBVIOUS
<1>2. b - a \in Nat /\ b - a \notin T
  <2>1. b - a \in Nat
    OBVIOUS
  <2> HIDE DEF T
  <2> QED BY <1>1, <2>1
<1> HIDE DEF Found
<1> QED BY <1>2

(* A task is divided after its first rank and before its last, and what is *)
(* between the first rank and the rank before that of the division is in   *)
(* the first half.                                                         *)
LEMMA RankMidIs ==
  ASSUME NEW t, t.first \in Nat, t.last \in Nat, t.first + 2 <= t.last,
         \A r, s \in t.first .. t.last - 1 :
           r <= s /\ Lower(t, s) => Lower(t, r)
  PROVE  /\ RankMid(t) \in t.first + 1 .. t.last - 1
         /\ RankMid(t) - 1 # t.first => Lower(t, RankMid(t) - 1)
<1> DEFINE g == CHOOSE f : f = Searched(t, f)
           k == g[<<t.first + 1, t.last>>]
<1>1. g = Searched(t, g)
  BY SearchExists
<1>2. RankMid(t) = IF k < t.last - 1 THEN k ELSE t.last - 1
  BY DEF RankMid, Searched, Midpoint, Mid
<1> HIDE DEF g
<1>3. /\ t.first + 1 \in t.first .. t.last /\ t.last \in t.first .. t.last
      /\ t.first + 1 <= t.last
  OBVIOUS
<1>4. /\ k \in t.first + 1 .. t.last
      /\ \A r \in t.first + 1 .. k - 1 : Lower(t, r)
  BY <1>1, <1>3, SearchFinds
<1> HIDE DEF k
<1>5. RankMid(t) \in t.first + 1 .. t.last - 1 /\ RankMid(t) <= k
  BY <1>2, <1>4
<1>6. RankMid(t) - 1 # t.first => RankMid(t) - 1 \in t.first + 1 .. k - 1
  BY <1>4, <1>5
<1> QED BY <1>4, <1>5, <1>6

----------------------------------------------------------------------------
(* What a step leaves alone.                                               *)

(* The buckets stay those of the input.                                    *)
LEMMA SameInput ==
  ASSUME UNCHANGED inputVars
  PROVE  /\ input' = input /\ cell' = cell
         /\ Total' = Total /\ NBuckets' = NBuckets
         /\ Items' = Items /\ Buckets' = Buckets
         /\ \A i : Bucket(i)' = Bucket(i)
         /\ \A b : CountOf(b)' = CountOf(b) /\ Members(b)' = Members(b)
         /\ \A b, k : Before(b, k)' = Before(b, k)
<1>1. input' = input /\ cell' = cell
  BY DEF inputVars
<1> QED BY <1>1 DEF Total, NBuckets, Items, Buckets, Bucket, CountOf, Members,
                    Before

(* And their ranks and starts those of the table.                          *)
LEMMA SameLayout ==
  ASSUME UNCHANGED inputVars, table' = table
  PROVE  /\ \A r : AtRank(r)' = AtRank(r)
         /\ \A b : RankOf(b)' = RankOf(b)
         /\ \A r : Start(r)' = Start(r)
         /\ \A b : First(b)' = First(b) /\ Past(b)' = Past(b)
         /\ \A b : Slots(b)' = Slots(b)
         /\ \A i : SlotOf(i)' = SlotOf(i)
         /\ \A t : Own(t)' = Own(t)
<1>1. \A r : AtRank(r)' = AtRank(r)
  BY SameInput DEF AtRank
<1>2. \A b : RankOf(b)' = RankOf(b)
  BY <1>1, SameInput DEF RankOf
<1>3. \A r : Start(r)' = Start(r)
  BY <1>2, SameInput DEF Start, Below
<1>4. \A b : First(b)' = First(b) /\ Past(b)' = Past(b)
  BY <1>2, <1>3 DEF First, Past
<1>5. \A b : Slots(b)' = Slots(b)
  BY <1>4 DEF Slots
<1>6. \A i : SlotOf(i)' = SlotOf(i)
  BY <1>4, SameInput DEF SlotOf
<1>7. \A t : Own(t)' = Own(t)
  BY <1>2, SameInput DEF Own
<1> QED BY <1>1, <1>2, <1>3, <1>4, <1>5, <1>6, <1>7

(* The ranks and starts can be relied on once the table is there.          *)
LEMMA Layout ==
  ASSUME NoStrays, IInv
  PROVE  /\ Sized /\ Items = 0 .. Total - 1 /\ Buckets = 0 .. NBuckets - 1
         /\ Total \in Nat \ {0} /\ NBuckets \in Nat \ {0}
         /\ \A i \in Items : Bucket(i) \in Buckets
         /\ pc \in {"digits", "copy", "done"} \union Moving => Tabled
<1>1. input \in Inputs /\ TypeOK
  BY DEF IInv, TypeInv
<1>2. Sized
  BY <1>1, CellFacts DEF Sized, TypeOK, Total, NBuckets
<1>3. pc \in {"digits", "copy", "done"} \union Moving => Numbered
  BY DEF IInv, SortInv, Sorting, Ranking, Moving
<1>4. pc \in {"digits", "copy", "done"} \union Moving =>
        table \in [Buckets -> [val : 0 .. Total, idx : Buckets]]
  BY <1>1 DEF TypeOK, Moving
<1> QED BY <1>2, <1>3, <1>4 DEF Tabled, Sized, Items, Buckets, Bucket

(* Each identifier is held.                                                *)
LEMMA Lossless ==
  NoneLost <=> \A x \in Items : \E i \in Items : Held(i) = x
BY DEF NoneLost, Held

----------------------------------------------------------------------------
(* Counting, and the radix sort.                                           *)

LEMMA InitIInv ==
  ASSUME NoStrays, Init
  PROVE  IInv
<1>1. input \in Inputs /\ pc = "count"
  BY DEF Init
<1>2. /\ Total \in Nat \ {0} /\ Items = 0 .. Total - 1
      /\ NBuckets = L1Size(input.total) /\ Buckets = 0 .. NBuckets - 1
      /\ cell \in [Items -> Buckets]
  BY <1>1, CellFacts DEF Init, Total, NBuckets, Items, Buckets
<1>3. TypeOK
  <2>1. queue \in Seq(Buckets) /\ loop \in 0 .. Total
    BY <1>2 DEF Init
  <2>2. ids \in [Items -> Items] /\ shadow \in [Items -> Items \union {None}]
    BY DEF Init, Items, Total
  <2> QED BY <1>1, <1>2, <2>1, <2>2 DEF TypeOK
<1>4. ids = [i \in Items |-> i]
  BY DEF Init, Items, Total
<1>5. NoneLost
  BY <1>1, <1>4, Lossless DEF Held
<1>6. AssertsHold /\ SortInv /\ MoveInv
  BY <1>1 DEF AssertsHold, SortInv, MoveInv, Moving
<1>7. CopyInv /\ TypeInv
  BY <1>1, <1>3, <1>4 DEF CopyInv, TypeInv, Init
<1> QED BY <1>5, <1>6, <1>7 DEF IInv

LEMMA MarkingStep ==
  ASSUME NoStrays, IInv, Marking
  PROVE  IInv'
<1>1. /\ pc = "count" /\ pc' \in {"digits", "refused"}
      /\ UNCHANGED inputVars /\ ids' = ids /\ shadow' = shadow
      /\ loop' = loop /\ queue' = queue /\ tasks' = tasks /\ digit' = digit
      /\ table' = [b \in Buckets |-> [val |-> CountOf(b), idx |-> b]]
  BY DEF Marking, moveVars
<1>2. /\ Sized /\ Buckets = 0 .. NBuckets - 1 /\ NBuckets \in Nat \ {0}
      /\ TypeOK /\ input \in Inputs /\ digit = 0
      /\ ids = [i \in Items |-> i] /\ loop = 0
      /\ tasks = <<>> /\ queue = <<>>
  BY <1>1, Layout DEF IInv, TypeInv, CopyInv
<1>3. \A b \in Buckets : CountOf(b) \in 0 .. Total
  BY <1>2, SizeFacts
<1>4. table' \in [Buckets -> [val : 0 .. Total, idx : Buckets]]
  BY <1>1, <1>3
<1>5. TypeOK'
  <2>1. /\ cell' \in [Items -> Buckets] /\ ids' \in [Items -> Items]
        /\ shadow' \in [Items -> Items \union {None}]
        /\ loop' \in 0 .. Total /\ queue' \in Seq(Buckets)
    BY <1>1, <1>2, SameInput DEF TypeOK
  <2> QED BY <1>1, <1>4, <2>1, SameInput DEF TypeOK
<1>6. ASSUME pc' = "digits", NEW b \in Buckets
      PROVE  CountOf(b) <= CountMax
  <2>1. CountOf(b) <= Limit(NBuckets)
    BY <1>6 DEF Marking
  <2>2. Limit(NBuckets) <= CountMax /\ Limit(NBuckets) \in Nat
    BY <1>2, ParamAssumption DEF Limit
  <2> QED BY <1>3, <2>1, <2>2, ParamAssumption
<1>7. TypeInv'
  BY <1>1, <1>2, <1>5, <1>6, SameInput DEF TypeInv
<1>8. ASSUME pc' = "digits"
      PROVE  Sorting'
  <2>1. Radix ^ digit' = 1 /\ digit' = 0
    BY <1>1, <1>2, PowerAssumption
  <2>2. digit' \in 0 .. CountMax + 1
    BY <2>1, ParamAssumption
  <2>3. \A i \in Buckets : /\ table'[i].val = CountOf(i)
                           /\ table'[i].idx = i
    BY <1>1
  <2>4. Numbered'
    BY <1>1, <2>3, SameInput DEF Numbered
  <2>5. \A i \in Buckets : table'[i].val % 1 = 0
    BY <1>3, <2>3
  <2>6. \A i, k \in Buckets :
          i < k => table'[i].val % Radix ^ digit' <= table'[k].val % Radix ^ digit'
    BY <2>1, <2>5
  <2> QED BY <1>1, <2>1, <2>2, <2>4, <2>6, SameInput DEF Sorting
<1>9. SortInv' /\ MoveInv' /\ AssertsHold'
  BY <1>1, <1>8 DEF SortInv, MoveInv, AssertsHold, Moving
<1>10. /\ ids' = [i \in Items' |-> i] /\ loop' = 0
       /\ tasks' = <<>> /\ queue' = <<>>
  BY <1>1, <1>2, SameInput
<1>11. CopyInv'
  BY <1>1, <1>10 DEF CopyInv
<1>12. NoneLost'
  BY <1>1, <1>10, Lossless DEF NoneLost
<1> QED BY <1>7, <1>9, <1>11, <1>12 DEF IInv

(* The larger of two numbers of one more digit has the larger digit, or    *)
(* the same one and what is below is no less.                              *)
LEMMA NextDigit ==
  ASSUME NEW v \in Nat, NEW w \in Nat, NEW p \in Nat \ {0},
         NEW r \in Nat \ {0},
         \/ (v \div p) % r < (w \div p) % r
         \/ (v \div p) % r = (w \div p) % r /\ v % p <= w % p
  PROVE  v % (r * p) <= w % (r * p)
<1> DEFINE a == (v \div p) % r
           b == (w \div p) % r
           x == v % p
           y == w % p
<1>1. /\ a \in Nat /\ b \in Nat /\ x \in 0 .. p - 1 /\ y \in 0 .. p - 1
      /\ v % (r * p) = (a * p) + x /\ w % (r * p) = (b * p) + y
  <2>1. a \in 0 .. r - 1 /\ x \in 0 .. p - 1 /\ v % (r * p) = (a * p) + x
    BY DigitSplit
  <2>2. b \in 0 .. r - 1 /\ y \in 0 .. p - 1 /\ w % (r * p) = (b * p) + y
    BY DigitSplit
  <2> QED BY <2>1, <2>2
<1>2. a < b \/ (a = b /\ x <= y)
  OBVIOUS
<1> HIDE DEF a, b, x, y
<1>3. (a * p) + x <= (b * p) + y
  <2>1. a * p \in Nat /\ b * p \in Nat
    BY <1>1, SMT
  <2>2. CASE a < b
    <3>1. (a + 1) * p <= b * p /\ (a + 1) * p = (a * p) + p
      BY <1>1, <2>2, SMT
    <3> QED BY <1>1, <2>1, <3>1
  <2>3. CASE a = b /\ x <= y
    BY <1>1, <2>1, <2>3
  <2> QED BY <1>2, <2>2, <2>3
<1> QED BY <1>1, <1>3

LEMMA SortByDigitStep ==
  ASSUME NoStrays, IInv, SortByDigit
  PROVE  IInv'
<1> DEFINE p == Radix ^ digit
           e == [i \in Buckets |-> DigitOf(i)]
           From(j) == CHOOSE i \in Buckets :
                        Cardinality(Preceding(e, Buckets, i)) = j
<1>1. /\ pc = "digits" /\ pc' = "digits" /\ MoreDigits
      /\ UNCHANGED inputVars /\ ids' = ids /\ shadow' = shadow
      /\ loop' = loop /\ queue' = queue /\ tasks' = tasks
      /\ digit' = digit + 1
  BY DEF SortByDigit, moveVars
<1>2. /\ Sized /\ Tabled
      /\ TypeOK /\ input \in Inputs /\ CopyInv /\ NoneLost /\ Sorting
      /\ \A b \in Buckets : CountOf(b) <= CountMax
      /\ NBuckets \in Nat \ {0} /\ Total \in Nat
  BY <1>1, Layout DEF IInv, TypeInv, SortInv
<1>3. /\ \A j : j \in Buckets <=> j \in Nat /\ j < NBuckets
      /\ Buckets \subseteq Nat
  BY <1>2, Layout
<1>4. table \in [Buckets -> [val : 0 .. Total, idx : Buckets]]
  BY <1>2 DEF Tabled
<1>5. /\ \A i \in Buckets : table[i].val = CountOf(table[i].idx)
      /\ \A j, k \in Buckets : table[j].idx = table[k].idx => j = k
      /\ \A h, l \in Buckets :
           h < l => table[h].val % p <= table[l].val % p
  BY <1>2 DEF Sorting, Numbered, p
<1>6. /\ p \in Nat \ {0} /\ digit \in Nat /\ digit < p /\ Radix \in Nat \ {0, 1}
      /\ CountMax \in Nat
  BY <1>2, ParamAssumption DEF Sorting
<1>7. \A i \in Buckets : /\ table[i].val \in Nat /\ table[i].idx \in Buckets
                         /\ table[i].val = CountOf(table[i].idx)
                         /\ table[i].val <= CountMax
  <2> SUFFICES ASSUME NEW i \in Buckets
               PROVE  /\ table[i].val \in Nat /\ table[i].idx \in Buckets
                      /\ table[i].val = CountOf(table[i].idx)
                      /\ table[i].val <= CountMax
    OBVIOUS
  <2>1. table[i].val \in 0 .. Total /\ table[i].idx \in Buckets
    BY <1>4
  <2> QED BY <1>2, <1>5, <2>1
<1> HIDE DEF p
<1>8. \A i \in Buckets : /\ e[i] = (table[i].val \div p) % Radix
                         /\ e[i] \in Nat
  <2> SUFFICES ASSUME NEW i \in Buckets
               PROVE  /\ e[i] = (table[i].val \div p) % Radix
                      /\ e[i] \in Nat
    OBVIOUS
  <2>1. e[i] = (table[i].val \div p) % Radix
    BY DEF DigitOf, p
  <2>2. (table[i].val \div p) % Radix \in 0 .. Radix - 1
    BY <1>6, <1>7, DigitSplit
  <2> QED BY <1>6, <2>1, <2>2
<1>9. table' = [j \in Buckets |-> table[From(j)]]
  <2> DEFINE G(j) == table[CHOOSE i \in Buckets :
            Cardinality({k \in Buckets : \/ DigitOf(k) < DigitOf(i)
                                         \/ DigitOf(k) = DigitOf(i) /\ k < i}) = j]
  <2>1. \A i \in Buckets :
          Preceding(e, Buckets, i) =
            {k \in Buckets : \/ DigitOf(k) < DigitOf(i)
                             \/ DigitOf(k) = DigitOf(i) /\ k < i}
    BY DEF Preceding
  <2>2. \A j : From(j) =
          CHOOSE i \in Buckets :
            Cardinality({k \in Buckets : \/ DigitOf(k) < DigitOf(i)
                                         \/ DigitOf(k) = DigitOf(i) /\ k < i}) = j
    BY <2>1
  <2>3. table' = [j \in Buckets |-> G(j)]
    BY DEF SortByDigit
  <2> HIDE DEF From
  <2>4. \A j : G(j) = table[From(j)]
    BY <2>2
  <2> HIDE DEF G
  <2> QED BY <2>3, <2>4
<1> HIDE DEF e
<1>10. /\ \A j \in Buckets :
            \E i \in Buckets : Cardinality(Preceding(e, Buckets, i)) = j
       /\ \A i, k \in Buckets : i \in Preceding(e, Buckets, k) =>
            Cardinality(Preceding(e, Buckets, i))
             < Cardinality(Preceding(e, Buckets, k))
  <2>1. IsFiniteSet(Buckets) /\ Cardinality(Buckets) = NBuckets
    BY <1>2, SizeFacts
  <2>2. \A j : j \in Buckets <=> j \in Nat /\ j < NBuckets
    BY <1>3
  <2>3. \A i \in Buckets : e[i] \in Nat
    BY <1>8
  <2>4. NBuckets \in Nat \ {0}
    BY <1>2
  <2> QED BY ONLY <2>1, <2>2, <2>3, <2>4, PlacesByDigit
<1>11. \A j \in Buckets : /\ From(j) \in Buckets
                          /\ Cardinality(Preceding(e, Buckets, From(j))) = j
  BY <1>10
<1> HIDE DEF From
<1>12. \A j \in Buckets : table'[j] = table[From(j)]
  BY <1>9
<1>13. Numbered'
  <2>1. \A i \in Buckets : table'[i].val = CountOf(table'[i].idx)
    BY <1>7, <1>11, <1>12
  <2>2. \A i, k \in Buckets : table'[i].idx = table'[k].idx => i = k
    <3> SUFFICES ASSUME NEW i \in Buckets, NEW k \in Buckets,
                        table'[i].idx = table'[k].idx
                 PROVE  i = k
      OBVIOUS
    <3>1. From(i) = From(k)
      BY <1>11, <1>12, <1>5
    <3> QED BY <1>11, <3>1
  <2> QED BY <1>1, <2>1, <2>2, SameInput DEF Numbered
<1>14. /\ digit' \in 0 .. CountMax + 1 /\ Radix ^ digit' = Radix * p
       /\ Radix ^ digit' \in Nat \ {0} /\ digit' < Radix ^ digit'
  <2>1. PICK i \in Buckets : p <= table[i].val
    BY <1>1 DEF MoreDigits, p
  <2>2. digit \in 0 .. CountMax
    BY <1>6, <1>7, <2>1
  <2>3. Radix ^ digit' = Radix * p
    BY <1>1, <2>2, PowerAssumption DEF p
  <2>4. Radix * p >= 2 * p /\ Radix * p \in Nat
    BY <1>6, SMT
  <2> QED BY <1>1, <1>6, <2>2, <2>3, <2>4
<1>15. ASSUME NEW i \in Buckets, NEW k \in Buckets, i < k
       PROVE  table'[i].val % Radix ^ digit' <= table'[k].val % Radix ^ digit'
  <2> DEFINE v == table[From(i)].val
             w == table[From(k)].val
  <2>1. From(i) \in Buckets /\ From(k) \in Buckets /\ From(i) # From(k)
    <3>1. i \in Nat /\ k \in Nat
      BY <1>3
    <3>2. i # k
      BY <1>15, <3>1
    <3> QED BY <1>11, <3>2
  <2>2. From(k) \notin Preceding(e, Buckets, From(i))
    <3>1. ~ (k < i)
      BY <1>15, <1>3
    <3> QED BY <1>10, <1>11, <2>1, <3>1
  <2>3. e[From(i)] < e[From(k)]
        \/ (e[From(i)] = e[From(k)] /\ From(i) < From(k))
    <3>1. /\ e[From(i)] \in Nat /\ e[From(k)] \in Nat
          /\ From(i) \in Nat /\ From(k) \in Nat
      BY <1>8, <1>3, <2>1
    <3>2. ~ (e[From(k)] < e[From(i)])
          /\ ~ (e[From(k)] = e[From(i)] /\ From(k) < From(i))
      BY <2>1, <2>2 DEF Preceding
    <3> QED BY <2>1, <3>1, <3>2
  <2>4. From(i) < From(k) => v % p <= w % p
    BY <1>5, <2>1
  <2>5. v \in Nat /\ w \in Nat /\ table'[i].val = v /\ table'[k].val = w
    BY <1>7, <1>12, <2>1
  <2>6. e[From(i)] = (v \div p) % Radix /\ e[From(k)] = (w \div p) % Radix
    BY <1>8, <2>1
  <2> HIDE DEF v, w
  <2>7. v % (Radix * p) <= w % (Radix * p)
    BY <1>6, <2>3, <2>4, <2>5, <2>6, NextDigit
  <2> QED BY <1>14, <2>5, <2>7
<1>16. Sorting'
  BY <1>1, <1>13, <1>14, <1>15, SameInput DEF Sorting
<1>17. table' \in [Buckets -> [val : 0 .. Total, idx : Buckets]]
  BY <1>9, <1>11, <1>4
<1>18. TypeOK'
  BY <1>1, <1>2, <1>17, SameInput DEF TypeOK
<1>19. TypeInv'
  BY <1>1, <1>2, <1>18, SameInput DEF TypeInv
<1>20. SortInv' /\ MoveInv' /\ AssertsHold'
  BY <1>1, <1>16 DEF SortInv, MoveInv, AssertsHold, Moving
<1>21. CopyInv'
  BY <1>1, <1>2, SameInput DEF CopyInv
<1>22. NoneLost'
  BY <1>1, <1>2, SameInput DEF NoneLost
<1> QED BY <1>19, <1>20, <1>21, <1>22 DEF IInv

----------------------------------------------------------------------------
(* The ranges, and the copy.                                               *)

LEMMA MakeRangesStep ==
  ASSUME NoStrays, IInv, MakeRanges
  PROVE  IInv'
<1>1. /\ pc = "digits" /\ ~ MoreDigits
      /\ UNCHANGED inputVars /\ ids' = ids /\ shadow' = shadow
      /\ loop' = loop /\ digit' = digit /\ table' = table
      /\ pc' \in {"copy", "shuffle", "tasks"}
      /\ \A b \in Buckets :
           range'[b] = [idx |-> StartOf[b], val |-> StartOf[b] + CountOf(b)]
      /\ range' = [b \in Buckets |-> range'[b]]
  BY DEF MakeRanges
<1>2. /\ Sized /\ Tabled
      /\ TypeOK /\ input \in Inputs /\ CopyInv /\ NoneLost /\ Sorting
      /\ \A b \in Buckets : CountOf(b) <= CountMax
      /\ NBuckets \in Nat \ {0} /\ Total \in Nat \ {0}
      /\ loop = 0 /\ tasks = <<>> /\ queue = <<>>
      /\ ids = [i \in Items |-> i]
  BY <1>1, Layout DEF IInv, TypeInv, SortInv, CopyInv
<1>3. /\ Buckets = 0 .. NBuckets - 1 /\ Items = 0 .. Total - 1
      /\ input.shadow \in BOOLEAN
  BY <1>2, Layout, CellFacts
<1>4. \A b \in Buckets :
        /\ First(b) \in 0 .. Total /\ Past(b) \in 0 .. Total
        /\ Past(b) = First(b) + CountOf(b) /\ First(b) <= Past(b)
  BY <1>2, SlotFacts
<1>5. \A b \in Buckets : range'[b] = [idx |-> First(b), val |-> Past(b)]
  <2>1. \A b \in Buckets : StartOf[b] = First(b)
    BY <1>2, StartOfIs
  <2> QED BY <1>1, <1>4, <2>1
<1>6. range' \in [Buckets -> [idx : 0 .. Total, val : 0 .. Total]]
  BY <1>1, <1>4, <1>5
<1>7. ASSUME NEW b \in Buckets
      PROVE  /\ range'[b].idx = First(b) /\ range'[b].val = Past(b)
             /\ First(b) \in First(b) .. Past(b)
             /\ \A x \in First(b) .. First(b) - 1 : FALSE
             /\ First(b) = First(b) + 0
  <2>1. /\ First(b) \in Nat /\ Past(b) \in Nat /\ First(b) <= Past(b)
    BY <1>4
  <2> DEFINE R == [idx |-> First(b), val |-> Past(b)]
  <2>2. R.idx = First(b) /\ R.val = Past(b)
    OBVIOUS
  <2>3. range'[b] = R
    BY <1>5
  <2> HIDE DEF R
  <2>4. range'[b].idx = First(b) /\ range'[b].val = Past(b)
    BY <2>2, <2>3
  <2> QED BY <2>1, <2>4
<1>8. Ranking'
  <2>1. \A i \in Buckets : table[i].val \in Nat /\ table[i].val < Radix ^ digit
    <3>1. \A i \in Buckets : table[i].val \in Nat
      BY <1>2 DEF Tabled
    <3>2. Radix ^ digit \in Nat
      BY <1>2 DEF Sorting
    <3>3. \A i \in Buckets : ~ (Radix ^ digit <= table[i].val)
      BY <1>1 DEF MoreDigits
    <3> QED BY <3>1, <3>2, <3>3
  <2>2. \A v, p \in Nat : v < p => v % p = v
    OBVIOUS
  <2>3. Radix ^ digit \in Nat
    BY <1>2 DEF Sorting
  <2>4. \A i \in Buckets : table[i].val % Radix ^ digit = table[i].val
    BY <2>1, <2>2, <2>3
  <2>5. Ordered
    BY <1>2, <2>4 DEF Sorting, Ordered
  <2>6. Numbered
    BY <1>2 DEF Sorting
  <2> QED BY <1>1, <2>5, <2>6, SameInput DEF Ranking, Ordered, Numbered
<1>9. /\ input.shadow => pc' = "copy"
      /\ ~ input.shadow /\ Total < LocalizeMin =>
           /\ pc' = "shuffle" /\ tasks' = <<>>
           /\ queue' = [i \in 1 .. NBuckets |-> i - 1]
      /\ ~ input.shadow /\ ~ (Total < LocalizeMin) =>
           /\ pc' = "tasks" /\ queue' = <<>>
           /\ tasks' = <<Task(0, NBuckets, 0, Total)>>
      /\ input.shadow => queue' = <<>>
  BY <1>2 DEF MakeRanges
<1>10. queue' \in Seq(Buckets)
  <2>1. [i \in 1 .. NBuckets |-> i - 1] \in Seq(Buckets)
    <3>1. \A i \in 1 .. NBuckets : i - 1 \in Buckets
      BY <1>2, <1>3
    <3>2. NBuckets \in Nat
      BY <1>2
    <3> QED BY <3>1, <3>2
  <2>2. <<>> \in Seq(Buckets)
    OBVIOUS
  <2>3. queue' = <<>> \/ queue' = [i \in 1 .. NBuckets |-> i - 1]
    BY <1>3, <1>9
  <2> QED BY <2>1, <2>2, <2>3
<1>11. TypeOK'
  BY <1>1, <1>2, <1>6, <1>10, SameInput DEF TypeOK
<1>12. TypeInv'
  BY <1>1, <1>2, <1>11, SameInput DEF TypeInv
<1>13. SortInv' /\ AssertsHold'
  BY <1>1, <1>8 DEF SortInv, AssertsHold
<1>14. NoneLost'
  BY <1>1, <1>2, SameInput DEF NoneLost
<1>15. CopyInv'
  <2>1. pc' = "copy" => input.shadow
    BY <1>3, <1>9
  <2>2. \A b \in Buckets :
          range'[b].idx = First(b) + Cardinality(Before(b, 0))
    <3>1. \A b \in Buckets : Cardinality(Before(b, 0)) = 0
      BY <1>2, BeforeFacts
    <3> QED BY <1>7, <3>1
  <2>3. \A b \in Buckets' :
          range'[b].idx = First(b)' + Cardinality(Before(b, loop)')
    BY <1>1, <1>2, <2>2, SameInput, SameLayout
  <2>4. Copied(loop)'
    BY <1>1, <1>2 DEF Copied
  <2> QED BY <1>1, <1>2, <2>1, <2>3, <2>4, SameInput DEF CopyInv
<1>16. ASSUME pc' \in Moving
       PROVE  /\ ~ input'.shadow
              /\ tasks' \in Seq(Calls)
              /\ Pending' /\ Cursors' /\ Waiting' /\ Parting' /\ Carrying'
  <2>1. ~ input.shadow /\ input' = input
    BY <1>1, <1>3, <1>9, <1>16, SameInput DEF Moving
  <2>2. Cursors'
    <3>1. \A b \in Buckets :
            /\ range'[b].val = Past(b) /\ range'[b].idx = First(b)
            /\ First(b) \in First(b) .. Past(b)
            /\ \A x \in First(b) .. First(b) - 1 : FALSE
      BY <1>7
    <3> QED BY <1>1, <3>1, SameInput, SameLayout DEF Cursors
  <2>3. CASE Total < LocalizeMin
    <3>1. /\ pc' = "shuffle" /\ tasks' = <<>>
          /\ queue' = [i \in 1 .. NBuckets |-> i - 1]
      BY <1>9, <2>1, <2>3
    <3>2. \A b \in Buckets : \E k \in DOMAIN queue' : queue'[k] = b
      <4> SUFFICES ASSUME NEW b \in Buckets
                   PROVE  \E k \in DOMAIN queue' : queue'[k] = b
        OBVIOUS
      <4>1. b + 1 \in 1 .. NBuckets /\ (b + 1) - 1 = b
        BY <1>2, <1>3
      <4> QED BY <3>1, <4>1
    <3>3. Waiting'
      BY <1>1, <3>1, <3>2, SameInput DEF Waiting
    <3>4. Pending' /\ Parting' /\ Carrying'
      BY <3>1 DEF Pending, Parting, Carrying
    <3> QED BY <2>1, <2>2, <3>1, <3>3, <3>4
  <2>4. CASE ~ (Total < LocalizeMin)
    <3> DEFINE t == Task(0, NBuckets, 0, Total)
    <3>1. pc' = "tasks" /\ queue' = <<>> /\ tasks' = <<t>>
      BY <1>9, <2>1, <2>4
    <3>2. /\ t \in Calls
          /\ t.first = 0 /\ t.last = NBuckets /\ t.begin = 0 /\ t.end = Total
      BY <1>2 DEF Task, Calls
    <3> HIDE DEF t
    <3>3. DOMAIN tasks' = {1} /\ tasks'[1] = t
      BY <3>1
    <3>4. \A b \in Buckets : RankOf(b) \in 0 .. NBuckets - 1
      BY <1>2, <1>3, RankFacts
    <3>5. Own(t) = Buckets
      BY <3>2, <3>4 DEF Own
    <3>6. Waiting'
      BY <1>1, <3>1, <3>3, <3>5, SameInput, SameLayout DEF Waiting
    <3>7. Parting' /\ Carrying'
      BY <3>1 DEF Parting, Carrying
    <3>8. \A i \in Items : /\ i \in Region(t)
                           /\ RankOf(Bucket(ids[i])) \in 0 .. NBuckets - 1
      BY <1>2, <1>3, <3>2, <3>4, Layout DEF Region
    <3>9. \A i \in Items :
            /\ Held(i)' = ids[i]
            /\ (i \in Region(t) <=>
                  RankOf(Bucket(ids[i])) \in t.first .. t.last - 1)
      BY <1>1, <3>1, <3>2, <3>8 DEF Held
    <3>10. t.begin = Start(t.first) /\ t.end = Start(t.last)
      BY <1>2, <3>2, StartFacts
    <3>11. /\ t.first \in 0 .. NBuckets /\ t.last \in 0 .. NBuckets
           /\ t.first < t.last
      BY <1>2, <3>2
    <3>12. \A b \in Own(t) : range'[b].idx = First(b)
      BY <1>7, <3>5
    <3>13. \A k, l \in DOMAIN tasks' : ~ (k < l)
      BY <3>3
    <3>14. Pending'
      BY <1>1, <3>3, <3>9, <3>10, <3>11, <3>12, <3>13, SameInput, SameLayout
      DEF Pending, Untouched, Region
    <3> QED BY <2>1, <2>2, <3>1, <3>2, <3>6, <3>7, <3>14
  <2> QED BY <2>3, <2>4
<1>17. MoveInv'
  BY <1>1, <1>16 DEF MoveInv
<1> QED BY <1>12, <1>13, <1>14, <1>15, <1>17 DEF IInv

LEMMA CopyStep ==
  ASSUME NoStrays, IInv, Copy
  PROVE  IInv'
<1> DEFINE b == Bucket(loop)
           s == SlotOf(loop)
<1>1. /\ pc = "copy" /\ pc' = "copy" /\ loop < Total /\ loop' = loop + 1
      /\ UNCHANGED inputVars /\ ids' = ids /\ digit' = digit
      /\ table' = table /\ tasks' = tasks /\ queue' = queue
  BY DEF Copy, moveVars
<1>2. /\ Sized /\ Tabled /\ input.shadow
      /\ TypeOK /\ input \in Inputs /\ NoneLost /\ Ranking
      /\ \A c \in Buckets : CountOf(c) <= CountMax
      /\ ids = [i \in Items |-> i] /\ Copied(loop)
      /\ \A c \in Buckets :
           range[c].idx = First(c) + Cardinality(Before(c, loop))
  BY <1>1, Layout DEF IInv, TypeInv, SortInv, CopyInv
<1>3. /\ Total \in Nat \ {0} /\ loop \in Nat /\ loop \in Items
      /\ loop \in 0 .. Total /\ loop + 1 \in 0 .. Total
      /\ \A k : k \in 0 .. (loop + 1) - 1 <=> k \in 0 .. loop - 1 \/ k = loop
      /\ 0 .. loop - 1 \subseteq Items /\ loop \notin 0 .. loop - 1
  <2>1. Items = 0 .. Total - 1 /\ Total \in Nat \ {0} /\ loop \in 0 .. Total
    BY <1>1, <1>2, Layout DEF TypeOK
  <2> QED BY <1>1, <2>1
<1>4. b \in Buckets /\ s = First(b) + Cardinality(Before(b, loop))
      /\ s \in Items
      /\ \A i \in 0 .. loop - 1 : SlotOf(i) \in Items /\ SlotOf(i) # s
  <2>1. b \in Buckets
    BY <1>2, <1>3, Layout
  <2>2. /\ s \in Items
        /\ \A i \in Items : SlotOf(i) \in Items
        /\ \A i \in Items : SlotOf(i) = s => i = loop
    BY <1>2, <1>3, SlotOfFacts
  <2> QED BY <1>3, <2>1, <2>2 DEF SlotOf
<1>5. /\ shadow' = [shadow EXCEPT ![s] = loop]
      /\ range' = [range EXCEPT ![b].idx = @ + 1]
  <2>1. ids[loop] = loop
    BY <1>2, <1>3
  <2>2. range[b].idx = s
    BY <1>2, <1>4
  <2>3. /\ shadow' = [shadow EXCEPT ![range[Bucket(ids[loop])].idx] = ids[loop]]
        /\ range' = [range EXCEPT ![Bucket(ids[loop])].idx = @ + 1]
    BY DEF Copy
  <2> QED BY <2>1, <2>2, <2>3
<1>6. /\ range \in [Buckets -> [idx : 0 .. Total, val : 0 .. Total]]
      /\ shadow \in [Items -> Items \union {None}]
  BY <1>1, <1>2 DEF TypeOK
<1> HIDE DEF b, s
<1>7. \A c \in Buckets :
        /\ range'[c].val = range[c].val
        /\ range'[c].idx = range[c].idx + IF b = c THEN 1 ELSE 0
  <2>1. \A c \in Buckets :
          /\ range'[c].val = range[c].val
          /\ c = b => range'[c].idx = range[c].idx + 1
          /\ c # b => range'[c].idx = range[c].idx
    BY <1>4, <1>5, <1>6
  <2>2. \A c \in Buckets : range[c].idx \in Nat
    BY <1>6
  <2> QED BY <2>1, <2>2
<1>8. \A c \in Buckets :
        /\ range'[c].idx = First(c) + Cardinality(Before(c, loop + 1))
        /\ range'[c].idx \in 0 .. Total
  <2> SUFFICES ASSUME NEW c \in Buckets
               PROVE  /\ range'[c].idx = First(c) + Cardinality(Before(c, loop + 1))
                      /\ range'[c].idx \in 0 .. Total
    OBVIOUS
  <2> DEFINE k == Cardinality(Before(c, loop))
             n == Cardinality(Before(c, loop + 1))
  <2>1. n = k + IF b = c THEN 1 ELSE 0
    BY <1>2, <1>3, BeforeFacts DEF b
  <2>2. k \in 0 .. CountOf(c) /\ n \in 0 .. CountOf(c)
    BY <1>2, <1>3, BeforeFacts
  <2>3. /\ First(c) \in 0 .. Total /\ Past(c) \in 0 .. Total
        /\ Past(c) = First(c) + CountOf(c)
    BY <1>2, SlotFacts
  <2>4. CountOf(c) \in 0 .. Total
    BY <1>2, SizeFacts
  <2>5. range[c].idx = First(c) + k
    BY <1>2
  <2> HIDE DEF k, n
  <2>6. range'[c].idx = First(c) + n
    <3>1. range'[c].idx = range[c].idx + IF b = c THEN 1 ELSE 0
      BY <1>7
    <3> QED BY <2>1, <2>2, <2>3, <2>5, <3>1
  <2> QED BY <1>3, <2>2, <2>3, <2>4, <2>6 DEF n
<1>9. range' \in [Buckets -> [idx : 0 .. Total, val : 0 .. Total]]
  <2>1. /\ range' = [c \in Buckets |-> range'[c]]
        /\ \A c \in Buckets :
             range'[c] = [idx |-> range'[c].idx, val |-> range'[c].val]
    BY <1>4, <1>5, <1>6
  <2>2. \A c \in Buckets : range'[c].idx \in 0 .. Total /\ range'[c].val \in 0 .. Total
    BY <1>6, <1>7, <1>8
  <2>3. \A c \in Buckets : range'[c] \in [idx : 0 .. Total, val : 0 .. Total]
    BY <2>1, <2>2
  <2> QED BY <2>1, <2>3
<1>10. shadow' \in [Items -> Items \union {None}]
  BY <1>3, <1>4, <1>5, <1>6
<1>11. Copied(loop)'
  <2>1. \A i \in 0 .. loop - 1 : shadow'[SlotOf(i)] = i
    BY <1>2, <1>4, <1>5, <1>6 DEF Copied
  <2>2. shadow'[SlotOf(loop)] = loop
    BY <1>4, <1>5, <1>6 DEF s
  <2>3. \A i \in 0 .. (loop + 1) - 1 : shadow'[SlotOf(i)] = i
    BY <1>3, <2>1, <2>2
  <2>4. \A i \in 0 .. loop' - 1 : shadow'[SlotOf(i)'] = i
    BY <1>1, <2>3, SameLayout
  <2> QED BY <2>4 DEF Copied
<1>12. CopyInv'
  <2>1. \A c \in Buckets' :
          range'[c].idx = First(c)' + Cardinality(Before(c, loop)')
    BY <1>1, <1>8, SameInput, SameLayout
  <2> QED BY <1>1, <1>2, <1>11, <2>1, SameInput DEF CopyInv
<1>13. TypeOK'
  <2>1. loop' \in 0 .. Total
    BY <1>1, <1>3
  <2> QED BY <1>1, <1>2, <1>9, <1>10, <2>1, SameInput DEF TypeOK
<1>14. TypeInv'
  BY <1>1, <1>2, <1>13, SameInput DEF TypeInv
<1>15. SortInv' /\ AssertsHold' /\ MoveInv'
  BY <1>1, <1>2, SameInput DEF SortInv, AssertsHold, MoveInv, Moving, Ranking,
                              Numbered, Ordered
<1>16. NoneLost'
  BY <1>1, <1>2, SameInput DEF NoneLost
<1> QED BY <1>12, <1>14, <1>15, <1>16 DEF IInv

LEMMA CopyDoneStep ==
  ASSUME NoStrays, IInv, CopyDone
  PROVE  IInv'
<1>1. /\ pc = "copy" /\ pc' = "done" /\ loop = Total /\ loop' = loop
      /\ UNCHANGED inputVars /\ ids' = ids /\ digit' = digit
      /\ table' = table /\ shadow' = shadow /\ tasks' = tasks /\ queue' = queue
  BY DEF CopyDone, moveVars, sortVars
<1>2. /\ input.shadow /\ TypeOK /\ input \in Inputs /\ NoneLost /\ Ranking
      /\ \A c \in Buckets : CountOf(c) <= CountMax
      /\ Copied(loop)
  BY <1>1 DEF IInv, TypeInv, SortInv, CopyInv
<1>3. CopyInv'
  <2>1. Copied(Total)'
    BY <1>1, <1>2, SameInput, SameLayout DEF Copied
  <2> QED BY <1>1, <2>1 DEF CopyInv
<1>4. TypeOK'
  BY <1>1, <1>2, SameInput DEF TypeOK
<1>5. TypeInv'
  BY <1>1, <1>2, <1>4, SameInput DEF TypeInv
<1>6. SortInv' /\ AssertsHold' /\ MoveInv'
  BY <1>1, <1>2, SameInput DEF SortInv, AssertsHold, MoveInv, Moving, Ranking,
                              Numbered, Ordered
<1>7. NoneLost'
  BY <1>1, <1>2, SameInput DEF NoneLost
<1> QED BY <1>3, <1>5, <1>6, <1>7 DEF IInv

----------------------------------------------------------------------------
(* Moving in place: what the steps have in common.                         *)

Ranges == [Buckets -> [idx : 0 .. Total, val : 0 .. Total]]

LEMMA MoveFacts ==
  ASSUME NoStrays, IInv, pc \in Moving
  PROVE  /\ Tabled /\ Sized /\ Ranking /\ NoneLost /\ ~ input.shadow
         /\ Total \in Nat \ {0} /\ NBuckets \in Nat \ {0}
         /\ range \in Ranges /\ ids \in [Items -> Items]
         /\ queue \in Seq(Buckets) /\ tasks \in Seq(Calls)
         /\ \A b \in Buckets : CountOf(b) <= CountMax
         /\ Pending /\ Cursors /\ Waiting /\ Parting /\ Carrying
<1>1. TypeOK /\ Ranking /\ NoneLost /\ MoveInv
  BY DEF IInv, TypeInv, SortInv
<1>2. \A b \in Buckets : CountOf(b) <= CountMax
  BY DEF IInv, TypeInv, Moving
<1>3. range \in Ranges /\ ids \in [Items -> Items] /\ queue \in Seq(Buckets)
  BY <1>1 DEF TypeOK, Moving, Ranges
<1> QED BY <1>1, <1>2, <1>3, Layout DEF MoveInv

(* A step of the move that keeps what the step is about keeps all.         *)
LEMMA MoveStep ==
  ASSUME NoStrays, IInv, pc \in Moving, pc' \in Moving \union {"done"},
         UNCHANGED inputVars, table' = table, shadow' = shadow, loop' = loop,
         range' \in Ranges, ids' \in [Items -> Items], queue' \in Seq(Buckets),
         pc' = "carry" => q' \in Buckets /\ tmp' \in Items /\ hole' \in Items,
         NoneLost',
         pc' \in Moving =>
           /\ tasks' \in Seq(Calls)
           /\ Pending' /\ Cursors' /\ Waiting' /\ Parting' /\ Carrying',
         pc' = "done" =>
           \A b \in Buckets : \A x \in Slots(b) : Bucket(ids'[x]) = b
  PROVE  IInv'
<1>1. TypeOK /\ input \in Inputs /\ Ranking /\ ~ input.shadow
  BY MoveFacts DEF IInv, TypeInv
<1>2. pc' \in {"tasks", "part", "shuffle", "carry", "done"}
  BY DEF Moving
<1>3. TypeOK'
  <2>1. /\ cell' \in [Items -> Buckets] /\ loop' \in 0 .. Total
        /\ shadow' \in [Items -> Items \union {None}]
        /\ table' \in [Buckets -> [val : 0 .. Total, idx : Buckets]]
    BY <1>1, SameInput DEF TypeOK, Moving
  <2> QED BY <1>2, <2>1, SameInput DEF TypeOK, Ranges
<1>4. TypeInv'
  <2>1. \A b \in Buckets : CountOf(b) <= CountMax
    BY MoveFacts
  <2> QED BY <1>1, <1>2, <1>3, <2>1, SameInput DEF TypeInv
<1>5. SortInv' /\ AssertsHold'
  BY <1>1, <1>2, SameInput DEF SortInv, AssertsHold, Ranking, Numbered, Ordered
<1>6. CopyInv'
  BY <1>1, <1>2, SameInput DEF CopyInv
<1>7. MoveInv'
  <2>1. pc' = "done" =>
          \A b \in Buckets' : \A x \in Slots(b)' : Bucket(ids[x])' = b
    BY SameInput, SameLayout
  <2> QED BY <1>1, <2>1, SameInput DEF MoveInv
<1> QED BY <1>4, <1>5, <1>6, <1>7 DEF IInv

(* Two slots may change what they hold: nothing is lost.                   *)
LEMMA StillHeld ==
  ASSUME NoneLost, UNCHANGED inputVars, NEW i \in Items, NEW j \in Items,
         Held(i)' = Held(j), Held(j)' = Held(i),
         \A k \in Items : k # i /\ k # j => Held(k)' = Held(k)
  PROVE  NoneLost'
<1>1. \A x \in Items : \E k \in Items : Held(k) = x
  BY Lossless
<1>2. ASSUME NEW x \in Items
      PROVE  \E k \in Items : Held(k)' = x
  <2>1. PICK k \in Items : Held(k) = x
    BY <1>1
  <2>2. CASE k = i
    BY <2>1, <2>2
  <2>3. CASE k = j
    BY <2>1, <2>3
  <2>4. CASE k # i /\ k # j
    BY <2>1, <2>4
  <2> QED BY <2>2, <2>3, <2>4
<1>3. (\A x \in Items : \E k \in Items : Held(k) = x)'
  BY <1>2, SameInput
<1> QED BY <1>3 DEF NoneLost, Held

(* A cursor moves on by one, within its bucket.                            *)
LEMMA CursorOn ==
  ASSUME Tabled, range \in Ranges, Cursors, NEW p \in Buckets,
         range[p].idx < Past(p), range' = [range EXCEPT ![p].idx = @ + 1]
  PROVE  /\ range' \in Ranges
         /\ \A b \in Buckets : range'[b].val = range[b].val
         /\ \A b \in Buckets : b # p => range'[b].idx = range[b].idx
         /\ range'[p].idx = range[p].idx + 1
         /\ range[p].idx \in Slots(p)
         /\ range[p].idx + 1 \in First(p) .. Past(p)
         /\ \A x \in First(p) .. range'[p].idx - 1 :
              x \in First(p) .. range[p].idx - 1 \/ x = range[p].idx
<1>1. /\ First(p) \in 0 .. Total /\ Past(p) \in 0 .. Total /\ Total \in Nat
      /\ range[p].idx \in First(p) .. Past(p)
  BY SlotFacts DEF Cursors, Tabled, Sized
<1>2. /\ range[p].idx + 1 \in 0 .. Total /\ range[p].idx + 1 \in First(p) .. Past(p)
      /\ range[p].idx \in First(p) .. Past(p) - 1
  BY <1>1
<1>3. range' = [range EXCEPT ![p] = [range[p] EXCEPT !.idx = range[p].idx + 1]]
  OBVIOUS
<1>4. [range[p] EXCEPT !.idx = range[p].idx + 1]
        \in [idx : 0 .. Total, val : 0 .. Total]
  BY <1>2 DEF Ranges
<1>5. range' \in Ranges
  BY <1>3, <1>4 DEF Ranges
<1>6. /\ \A b \in Buckets : b # p => range'[b] = range[b]
      /\ range'[p].val = range[p].val /\ range'[p].idx = range[p].idx + 1
  BY <1>3 DEF Ranges
<1>7. \A x \in First(p) .. (range[p].idx + 1) - 1 :
        x \in First(p) .. range[p].idx - 1 \/ x = range[p].idx
  BY <1>1
<1> QED BY <1>2, <1>5, <1>6, <1>7 DEF Slots

(* The slots of a bucket are in the part of a call if it is one of its own,*)
(* and outside it if not.                                                  *)
LEMMA SlotRegion ==
  ASSUME Tabled, NEW t, Untouched(t), NEW b \in Buckets, NEW x \in Slots(b)
  PROVE  x \in Region(t) <=> b \in Own(t)
<1>1. /\ t.first \in 0 .. NBuckets /\ t.last \in 0 .. NBuckets
      /\ t.begin = Start(t.first) /\ t.end = Start(t.last)
  BY DEF Untouched
<1>2. NBuckets \in Nat /\ Total \in Nat /\ RankOf(b) \in Buckets
      /\ Buckets = 0 .. NBuckets - 1
  BY RankFacts DEF Tabled, Sized, Buckets
<1>3. RankOf(b) \in 0 .. NBuckets /\ RankOf(b) + 1 \in 0 .. NBuckets
  BY <1>2
<1>4. /\ First(b) = Start(RankOf(b)) /\ Past(b) = Start(RankOf(b) + 1)
      /\ First(b) \in Nat /\ Past(b) \in Nat /\ t.begin \in Nat /\ t.end \in Nat
  BY <1>1, <1>2, <1>3, StartFacts DEF First, Past
<1>5. x \in Nat /\ First(b) <= x /\ x < Past(b)
  BY <1>4 DEF Slots
<1>6. /\ t.first <= RankOf(b) => t.begin <= First(b)
      /\ RankOf(b) + 1 <= t.last => Past(b) <= t.end
      /\ RankOf(b) + 1 <= t.first => Past(b) <= t.begin
      /\ t.last <= RankOf(b) => t.end <= First(b)
  BY <1>1, <1>3, <1>4, StartFacts
<1>7. CASE b \in Own(t)
  <2>1. t.first <= RankOf(b) /\ RankOf(b) + 1 <= t.last
    BY <1>1, <1>3, <1>7 DEF Own
  <2>2. t.begin <= x /\ x <= t.end - 1
    BY <1>4, <1>5, <1>6, <2>1
  <2> QED BY <1>4, <1>5, <1>7, <2>2 DEF Region
<1>8. CASE b \notin Own(t)
  <2>1. RankOf(b) \notin t.first .. t.last - 1
    BY <1>8 DEF Own
  <2>2. RankOf(b) + 1 <= t.first \/ t.last <= RankOf(b)
    BY <1>1, <1>3, <2>1
  <2>3. x < t.begin \/ t.end <= x
    BY <1>4, <1>5, <1>6, <2>2
  <2> QED BY <1>4, <1>5, <1>8, <2>3 DEF Region
<1> QED BY <1>7, <1>8

(* What makes a call find its part untouched after a step.                 *)
LEMMA SameTask ==
  ASSUME UNCHANGED inputVars, table' = table, NEW t, Untouched(t),
         \A b \in Own(t) : range'[b].idx = range[b].idx,
         \A i \in Items :
           \/ Held(i)' = Held(i)
           \/ i \in Region(t)
                <=> RankOf(Bucket(Held(i)')) \in t.first .. t.last - 1
  PROVE  Untouched(t)'
<1>1. \A i \in Items :
        i \in Region(t) <=> RankOf(Bucket(Held(i)')) \in t.first .. t.last - 1
  BY DEF Untouched
<1>2. \A i : RankOf(Bucket(Held(i)))' = RankOf(Bucket(Held(i)'))
  BY SameInput, SameLayout
<1>3. \A b \in Own(t) : range'[b].idx = First(b)
  BY DEF Untouched
<1>4. (\A b \in Own(t) : range[b].idx = First(b))'
  BY <1>3, SameLayout
<1>5. (\A i \in Items :
         i \in Region(t) <=> RankOf(Bucket(Held(i))) \in t.first .. t.last - 1)'
  BY <1>1, <1>2, SameInput DEF Region
<1>6. (t.begin = Start(t.first) /\ t.end = Start(t.last))'
  BY SameLayout DEF Untouched
<1>7. (/\ t.first \in 0 .. NBuckets /\ t.last \in 0 .. NBuckets
       /\ t.first < t.last)'
  BY SameInput DEF Untouched
<1> QED BY <1>4, <1>5, <1>6, <1>7 DEF Untouched

(* A bucket of higher rank is not larger.                                  *)
LEMMA CountsDescend ==
  ASSUME Tabled, Ranking, NEW r \in Buckets, NEW s \in Buckets, r <= s
  PROVE  CountOf(AtRank(s)) <= CountOf(AtRank(r))
<1>1. NBuckets \in Nat \ {0} /\ Buckets = 0 .. NBuckets - 1
      /\ table \in [Buckets -> [val : 0 .. Total, idx : Buckets]]
  BY DEF Tabled, Sized, Buckets
<1> DEFINE i == NBuckets - 1 - s
           k == NBuckets - 1 - r
<1>2. i \in Buckets /\ k \in Buckets /\ (i < k \/ i = k)
  BY <1>1
<1>3. AtRank(s) = table[i].idx /\ AtRank(r) = table[k].idx
  BY DEF AtRank
<1> HIDE DEF i, k
<1>4. table[i].val <= table[k].val
  <2>1. table[i].val \in Nat
    BY <1>1, <1>2
  <2>2. CASE i < k
    BY <1>2, <2>2 DEF Ranking, Ordered
  <2>3. CASE i = k
    BY <2>1, <2>3
  <2> QED BY <1>2, <2>2, <2>3
<1>5. table[i].val = CountOf(table[i].idx) /\ table[k].val = CountOf(table[k].idx)
  BY <1>2 DEF Ranking, Numbered
<1> QED BY <1>3, <1>4, <1>5

----------------------------------------------------------------------------
(* Moving in place: the steps between the cycles.                          *)

LEMMA TasksDoneStep ==
  ASSUME NoStrays, IInv, TasksDone
  PROVE  IInv'
<1>1. /\ pc = "tasks" /\ pc' = "done" /\ tasks = <<>>
      /\ UNCHANGED inputVars /\ ids' = ids /\ table' = table /\ range' = range
      /\ shadow' = shadow /\ loop' = loop /\ queue' = queue
  BY DEF TasksDone, moveVars, sortVars
<1>2. /\ Tabled /\ NoneLost
      /\ range \in Ranges /\ ids \in [Items -> Items] /\ queue \in Seq(Buckets)
      /\ Cursors /\ Waiting /\ Parting
  BY <1>1, MoveFacts DEF Moving
<1>3. queue = <<>>
  BY <1>1, <1>2 DEF Parting
<1>4. \A b \in Buckets : range[b].idx = Past(b)
  BY <1>1, <1>2, <1>3 DEF Waiting
<1>5. \A b \in Buckets : \A x \in Slots(b) : Bucket(ids'[x]) = b
  BY <1>1, <1>2, <1>4 DEF Cursors, Slots
<1>6. NoneLost'
  BY <1>1, <1>2, SameInput DEF NoneLost
<1> QED BY <1>1, <1>2, <1>5, <1>6, MoveStep DEF Moving

(* Steps that leave the array, the cursors and what is in hand.            *)
LEMMA Settled ==
  ASSUME NoStrays, IInv, pc \in Moving \ {"carry"}, pc' \in Moving \ {"carry"},
         UNCHANGED inputVars, UNCHANGED sortVars, ids' = ids
  PROVE  /\ NoneLost' /\ Cursors' /\ Carrying'
         /\ table' = table /\ range' \in Ranges /\ ids' \in [Items -> Items]
         /\ \A t : Untouched(t) => Untouched(t)'
<1>1. /\ NoneLost /\ Cursors /\ range \in Ranges /\ ids \in [Items -> Items]
      /\ table' = table /\ range' = range
  BY MoveFacts DEF sortVars
<1>2. \A i : Held(i)' = Held(i)
  BY DEF Held
<1>3. \A t : Untouched(t) => Untouched(t)'
  BY <1>1, <1>2, SameTask
<1>4. NoneLost'
  BY <1>1, <1>2, SameInput DEF NoneLost
<1>5. Cursors'
  BY <1>1, SameInput, SameLayout DEF Cursors
<1>6. Carrying'
  BY DEF Carrying
<1> QED BY <1>1, <1>3, <1>4, <1>5, <1>6

LEMMA ShuffleDoneStep ==
  ASSUME NoStrays, IInv, ShuffleDone
  PROVE  IInv'
<1>1. /\ pc = "shuffle" /\ pc' = "tasks" /\ queue = <<>>
      /\ UNCHANGED inputVars /\ UNCHANGED sortVars /\ ids' = ids
      /\ shadow' = shadow /\ loop' = loop /\ queue' = queue /\ tasks' = tasks
      /\ range' = range
  BY DEF ShuffleDone, moveVars, sortVars
<1>2. /\ queue \in Seq(Buckets) /\ tasks \in Seq(Calls) /\ Pending /\ Waiting
  BY <1>1, MoveFacts DEF Moving
<1>3. /\ NoneLost' /\ Cursors' /\ Carrying'
      /\ table' = table /\ range' \in Ranges /\ ids' \in [Items -> Items]
      /\ \A t : Untouched(t) => Untouched(t)'
  BY <1>1, Settled DEF Moving
<1>4. Pending'
  BY <1>1, <1>2, <1>3 DEF Pending
<1>5. Waiting' /\ Parting'
  BY <1>1, <1>2, <1>3, SameInput, SameLayout DEF Waiting, Parting
<1> QED BY <1>1, <1>2, <1>3, <1>4, <1>5, MoveStep DEF Moving

LEMMA NextBucketStep ==
  ASSUME NoStrays, IInv, NextBucket
  PROVE  IInv'
<1>1. /\ pc = "shuffle" /\ pc' = pc /\ queue # <<>>
      /\ range[Head(queue)].idx >= range[Head(queue)].val
      /\ UNCHANGED inputVars /\ UNCHANGED sortVars /\ ids' = ids
      /\ shadow' = shadow /\ loop' = loop /\ queue' = Tail(queue)
      /\ tasks' = tasks /\ range' = range
  BY DEF NextBucket, sortVars
<1>2. /\ queue \in Seq(Buckets) /\ tasks \in Seq(Calls) /\ Pending /\ Waiting
      /\ Cursors /\ Tabled
  BY <1>1, MoveFacts DEF Moving
<1>3. /\ NoneLost' /\ Cursors' /\ Carrying'
      /\ table' = table /\ range' \in Ranges /\ ids' \in [Items -> Items]
      /\ \A t : Untouched(t) => Untouched(t)'
  BY <1>1, Settled DEF Moving
<1>4. Pending'
  BY <1>1, <1>2, <1>3 DEF Pending
<1>5. /\ Head(queue) \in Buckets /\ Tail(queue) \in Seq(Buckets)
      /\ Head(queue) = queue[1]
      /\ \A k \in DOMAIN queue : k # 1 =>
           k - 1 \in DOMAIN Tail(queue) /\ Tail(queue)[k - 1] = queue[k]
      /\ \A k \in DOMAIN Tail(queue) :
           k + 1 \in DOMAIN queue /\ Tail(queue)[k] = queue[k + 1]
  BY <1>1, <1>2
<1>6. range[Head(queue)].idx = Past(Head(queue))
  <2>1. /\ range[Head(queue)].val = Past(Head(queue))
        /\ range[Head(queue)].idx \in First(Head(queue)) .. Past(Head(queue))
        /\ First(Head(queue)) \in Nat /\ Past(Head(queue)) \in Nat
    BY <1>2, <1>5, SlotFacts DEF Cursors
  <2> QED BY <1>1, <2>1
<1>7. \A b \in Buckets :
        \/ range[b].idx = Past(b)
        \/ \E k \in DOMAIN Tail(queue) : Tail(queue)[k] = b
        \/ \E k \in DOMAIN tasks : b \in Own(tasks[k])
  <2> SUFFICES ASSUME NEW b \in Buckets, range[b].idx # Past(b),
                      ~ \E k \in DOMAIN tasks : b \in Own(tasks[k])
               PROVE  \E k \in DOMAIN Tail(queue) : Tail(queue)[k] = b
    OBVIOUS
  <2>1. PICK k \in DOMAIN queue : queue[k] = b
    BY <1>2 DEF Waiting
  <2>2. k # 1
    BY <1>5, <1>6, <2>1
  <2> QED BY <1>5, <2>1, <2>2
<1>8. \A k \in DOMAIN Tail(queue), l \in DOMAIN tasks :
        Tail(queue)[k] \notin Own(tasks[l])
  BY <1>2, <1>5 DEF Waiting
<1>9. Waiting' /\ Parting'
  BY <1>1, <1>3, <1>7, <1>8, SameInput, SameLayout DEF Waiting, Parting
<1> QED BY <1>1, <1>2, <1>3, <1>4, <1>5, <1>9, MoveStep DEF Moving

(* The buckets of two calls are not the same.                              *)
LEMMA CallsApart ==
  ASSUME Tabled, Pending, NEW k \in DOMAIN tasks, NEW l \in DOMAIN tasks,
         k < l, NEW b \in Own(tasks[k])
  PROVE  b \notin Own(tasks[l])
<1>1. /\ tasks[k].last <= tasks[l].first
      /\ tasks[k].first \in Nat /\ tasks[k].last \in Nat
      /\ tasks[l].first \in Nat /\ tasks[l].last \in Nat
  <2>1. Untouched(tasks[k]) /\ Untouched(tasks[l])
        /\ tasks[k].last <= tasks[l].first
    BY DEF Pending
  <2>2. NBuckets \in Nat
    BY DEF Tabled, Sized
  <2> QED BY <2>1, <2>2 DEF Untouched
<1>2. RankOf(b) \in tasks[k].first .. tasks[k].last - 1
  BY DEF Own
<1>3. RankOf(b) \notin tasks[l].first .. tasks[l].last - 1
  BY <1>1, <1>2
<1> QED BY <1>3 DEF Own

LEMMA ShuffleTileStep ==
  ASSUME NoStrays, IInv, ShuffleTile
  PROVE  IInv'
<1> DEFINE t == Head(tasks)
           n == t.last - t.first
<1>1. /\ pc = "tasks" /\ pc' = "shuffle" /\ tasks # <<>>
      /\ UNCHANGED inputVars /\ UNCHANGED sortVars /\ ids' = ids
      /\ shadow' = shadow /\ loop' = loop /\ tasks' = Tail(tasks)
      /\ queue' = [i \in 1 .. n |-> AtRank(t.first + i - 1)]
      /\ range' = range
  BY DEF ShuffleTile, sortVars
<1>2. /\ tasks \in Seq(Calls) /\ Pending /\ Waiting /\ Parting /\ Tabled
      /\ queue = <<>>
  BY <1>1, MoveFacts DEF Moving, Parting
<1>3. /\ NoneLost' /\ Cursors' /\ Carrying'
      /\ table' = table /\ range' \in Ranges /\ ids' \in [Items -> Items]
      /\ \A u : Untouched(u) => Untouched(u)'
  BY <1>1, Settled DEF Moving
<1>4. /\ t = tasks[1] /\ Tail(tasks) \in Seq(Calls) /\ 1 \in DOMAIN tasks
      /\ DOMAIN tasks \subseteq Nat \ {0}
      /\ \A k \in DOMAIN tasks : k # 1 =>
           k - 1 \in DOMAIN Tail(tasks) /\ Tail(tasks)[k - 1] = tasks[k]
      /\ \A k \in DOMAIN Tail(tasks) :
           /\ k + 1 \in DOMAIN tasks /\ Tail(tasks)[k] = tasks[k + 1]
           /\ k \in Nat /\ 1 < k + 1
  BY <1>1, <1>2
<1>5. /\ NBuckets \in Nat \ {0} /\ Buckets = 0 .. NBuckets - 1
      /\ t.first \in 0 .. NBuckets /\ t.last \in 0 .. NBuckets
      /\ t.first < t.last
  BY <1>2, <1>4 DEF Pending, Untouched, Tabled, Sized, Buckets
<1> HIDE DEF t
<1>6. n \in Nat /\ \A i \in 1 .. n : t.first + i - 1 \in Buckets
                                     /\ t.first + i - 1 \in t.first .. t.last - 1
  BY <1>5
<1>7. \A i \in 1 .. n : /\ AtRank(t.first + i - 1) \in Buckets
                        /\ AtRank(t.first + i - 1) \in Own(t)
  BY <1>2, <1>6, RankFacts DEF Own
<1>8. queue' \in Seq(Buckets) /\ DOMAIN queue' = 1 .. n
      /\ \A i \in 1 .. n : queue'[i] = AtRank(t.first + i - 1)
  BY <1>1, <1>6, <1>7
<1>9. ASSUME NEW b \in Buckets, b \in Own(t)
      PROVE  \E k \in DOMAIN queue' : queue'[k] = b
  <2>1. RankOf(b) \in t.first .. t.last - 1 /\ AtRank(RankOf(b)) = b
    BY <1>2, <1>9, RankFacts DEF Own
  <2>2. /\ RankOf(b) - t.first + 1 \in 1 .. n
        /\ t.first + (RankOf(b) - t.first + 1) - 1 = RankOf(b)
    BY <1>5, <2>1
  <2> QED BY <1>8, <2>1, <2>2
<1>10. Pending'
  <2>1. \A k \in DOMAIN Tail(tasks) : Untouched(Tail(tasks)[k])
    BY <1>2, <1>4 DEF Pending
  <2>2. \A k, l \in DOMAIN Tail(tasks) :
          k < l => Tail(tasks)[k].last <= Tail(tasks)[l].first
    <3> SUFFICES ASSUME NEW k \in DOMAIN Tail(tasks),
                        NEW l \in DOMAIN Tail(tasks), k < l
                 PROVE  Tail(tasks)[k].last <= Tail(tasks)[l].first
      OBVIOUS
    <3>1. k + 1 \in DOMAIN tasks /\ l + 1 \in DOMAIN tasks /\ k + 1 < l + 1
      BY <1>4
    <3> QED BY <1>2, <1>4, <3>1 DEF Pending
  <2> QED BY <1>1, <1>3, <2>1, <2>2 DEF Pending
<1>11. \A b \in Buckets :
         \/ range[b].idx = Past(b)
         \/ \E k \in DOMAIN queue' : queue'[k] = b
         \/ \E k \in DOMAIN Tail(tasks) : b \in Own(Tail(tasks)[k])
  <2> SUFFICES ASSUME NEW b \in Buckets, range[b].idx # Past(b), b \notin Own(t)
               PROVE  \E k \in DOMAIN Tail(tasks) : b \in Own(Tail(tasks)[k])
    BY <1>9
  <2>1. PICK k \in DOMAIN tasks : b \in Own(tasks[k])
    BY <1>2 DEF Waiting
  <2>2. k # 1
    BY <1>4, <2>1
  <2> QED BY <1>4, <2>1, <2>2
<1>12. \A k \in DOMAIN queue', l \in DOMAIN Tail(tasks) :
         queue'[k] \notin Own(Tail(tasks)[l])
  <2> SUFFICES ASSUME NEW k \in DOMAIN queue', NEW l \in DOMAIN Tail(tasks)
               PROVE  queue'[k] \notin Own(Tail(tasks)[l])
    OBVIOUS
  <2>1. queue'[k] \in Own(tasks[1])
    BY <1>4, <1>7, <1>8
  <2>2. l + 1 \in DOMAIN tasks /\ 1 < l + 1 /\ Tail(tasks)[l] = tasks[l + 1]
    BY <1>4
  <2> QED BY <1>2, <1>4, <2>1, <2>2, CallsApart
<1>13. Waiting' /\ Parting'
  BY <1>1, <1>3, <1>11, <1>12, SameInput, SameLayout DEF Waiting, Parting
<1> QED BY <1>1, <1>3, <1>4, <1>8, <1>10, <1>13, MoveStep DEF Moving

----------------------------------------------------------------------------
(* Moving in place: the cycles.                                            *)

(* A bucket's cursor moves on past an identifier that belongs there.       *)
LEMMA OneOn ==
  ASSUME Tabled, range \in Ranges, Cursors, NEW p \in Buckets,
         range[p].idx < Past(p), range' = [range EXCEPT ![p].idx = @ + 1],
         UNCHANGED inputVars, table' = table,
         \A b \in Buckets : \A x \in First(b) .. range[b].idx - 1 :
           ids'[x] = ids[x],
         Bucket(ids'[range[p].idx]) = p
  PROVE  Cursors'
<1>1. /\ range' \in Ranges
      /\ \A b \in Buckets : range'[b].val = range[b].val
      /\ \A b \in Buckets : b # p => range'[b].idx = range[b].idx
      /\ range'[p].idx = range[p].idx + 1
      /\ range[p].idx + 1 \in First(p) .. Past(p)
      /\ \A x \in First(p) .. range'[p].idx - 1 :
           x \in First(p) .. range[p].idx - 1 \/ x = range[p].idx
  BY CursorOn
<1>2. ASSUME NEW b \in Buckets
      PROVE  /\ range'[b].val = Past(b)
             /\ range'[b].idx \in First(b) .. Past(b)
             /\ \A x \in First(b) .. range'[b].idx - 1 : Bucket(ids'[x]) = b
  <2>1. /\ range[b].val = Past(b)
        /\ range[b].idx \in First(b) .. Past(b)
        /\ \A x \in First(b) .. range[b].idx - 1 : Bucket(ids[x]) = b
    BY DEF Cursors
  <2>2. \A x \in First(b) .. range[b].idx - 1 : Bucket(ids'[x]) = b
    BY <2>1
  <2>3. CASE b = p
    BY <1>1, <2>1, <2>2, <2>3
  <2>4. CASE b # p
    BY <1>1, <2>1, <2>2, <2>4
  <2> QED BY <2>3, <2>4
<1>3. (\A b \in Buckets : /\ range[b].val = Past(b)
                          /\ range[b].idx \in First(b) .. Past(b))'
  BY <1>2, SameInput, SameLayout
<1>4. (\A b \in Buckets : \A x \in First(b) .. range[b].idx - 1 :
         Bucket(ids[x]) = b)'
  BY <1>2, SameInput, SameLayout
<1> QED BY <1>3, <1>4 DEF Cursors

LEMMA HeadFacts ==
  ASSUME Tabled, queue \in Seq(Buckets), queue # <<>>, Waiting
  PROVE  /\ Head(queue) \in Buckets /\ 1 \in DOMAIN queue
         /\ Head(queue) = queue[1]
         /\ \A k \in DOMAIN tasks : Head(queue) \notin Own(tasks[k])
BY DEF Waiting

LEMMA SkipStep ==
  ASSUME NoStrays, IInv, Skip
  PROVE  IInv'
<1> DEFINE p == Head(queue)
<1>1. /\ pc = "shuffle" /\ pc' = pc /\ queue # <<>>
      /\ range[p].idx < range[p].val
      /\ Bucket(ids[range[p].idx]) = p
      /\ range' = [range EXCEPT ![p].idx = @ + 1]
      /\ UNCHANGED inputVars /\ table' = table /\ ids' = ids
      /\ shadow' = shadow /\ loop' = loop /\ queue' = queue /\ tasks' = tasks
  BY DEF Skip, Unfilled, moveVars
<1>2. /\ Tabled /\ NoneLost /\ range \in Ranges /\ ids \in [Items -> Items]
      /\ queue \in Seq(Buckets) /\ tasks \in Seq(Calls)
      /\ Pending /\ Cursors /\ Waiting
  BY <1>1, MoveFacts DEF Moving
<1>3. /\ p \in Buckets /\ 1 \in DOMAIN queue /\ p = queue[1]
      /\ \A k \in DOMAIN tasks : p \notin Own(tasks[k])
  BY <1>1, <1>2, HeadFacts
<1> HIDE DEF p
<1>4. range[p].idx < Past(p)
  BY <1>1, <1>2, <1>3 DEF Cursors
<1>5. /\ range' \in Ranges
      /\ \A b \in Buckets : b # p => range'[b].idx = range[b].idx
  BY <1>1, <1>2, <1>3, <1>4, CursorOn
<1>6. Cursors'
  BY <1>1, <1>2, <1>3, <1>4, OneOn
<1>7. \A i : Held(i)' = Held(i)
  BY <1>1 DEF Held
<1>8. NoneLost'
  BY <1>1, <1>2, <1>7, SameInput DEF NoneLost
<1>9. Pending'
  <2>1. ASSUME NEW k \in DOMAIN tasks
        PROVE  Untouched(tasks[k])'
    <3> DEFINE t == tasks[k]
    <3>1. Untouched(t) /\ \A b \in Own(t) : range'[b].idx = range[b].idx
      BY <1>2, <1>3, <1>5 DEF Pending, Own
    <3>2. \A u : /\ Untouched(u)
                 /\ \A b \in Own(u) : range'[b].idx = range[b].idx
                 => Untouched(u)'
      BY <1>1, <1>7, SameTask
    <3> QED BY <1>1, <3>1, <3>2
  <2> QED BY <1>1, <1>2, <2>1 DEF Pending
<1>10. Waiting'
  <2>1. \A b \in Buckets :
          \/ range'[b].idx = Past(b)
          \/ \E k \in DOMAIN queue : queue[k] = b
          \/ \E k \in DOMAIN tasks : b \in Own(tasks[k])
    BY <1>2, <1>3, <1>5 DEF Waiting
  <2> QED BY <1>1, <1>2, <2>1, SameInput, SameLayout DEF Waiting
<1>11. Parting' /\ Carrying'
  BY <1>1 DEF Parting, Carrying
<1> QED BY <1>1, <1>2, <1>5, <1>6, <1>8, <1>9, <1>10, <1>11, MoveStep DEF Moving

LEMMA OpenCycleStep ==
  ASSUME NoStrays, IInv, OpenCycle
  PROVE  IInv'
<1> DEFINE p == Head(queue)
           h == range[p].idx
<1>1. /\ pc = "shuffle" /\ pc' = "carry" /\ queue # <<>>
      /\ range[p].idx < range[p].val
      /\ tmp' = ids[h] /\ q' = Bucket(ids[h]) /\ hole' = h
      /\ range' = range
      /\ UNCHANGED inputVars /\ table' = table /\ ids' = ids
      /\ shadow' = shadow /\ loop' = loop /\ queue' = queue /\ tasks' = tasks
  BY DEF OpenCycle, Unfilled, sortVars
<1>2. /\ Tabled /\ NoneLost /\ range \in Ranges /\ ids \in [Items -> Items]
      /\ queue \in Seq(Buckets) /\ tasks \in Seq(Calls)
      /\ Pending /\ Cursors /\ Waiting
  BY <1>1, MoveFacts DEF Moving
<1>3. /\ p \in Buckets /\ \A k \in DOMAIN tasks : p \notin Own(tasks[k])
  BY <1>1, <1>2, HeadFacts
<1> HIDE DEF p
<1>4. h < Past(p) /\ h \in Slots(p) /\ h \in Items
  <2>1. /\ range[p].val = Past(p) /\ h \in First(p) .. Past(p)
        /\ First(p) \in Nat /\ Past(p) \in Nat /\ Slots(p) \in SUBSET Items
    BY <1>2, <1>3, SlotFacts DEF Cursors
  <2>2. h < Past(p) /\ h \in First(p) .. Past(p) - 1
    BY <1>1, <2>1
  <2> QED BY <2>1, <2>2 DEF Slots
<1> HIDE DEF h
<1>5. \A i \in Items : Held(i) = ids[i] /\ Held(i)' = Held(i)
  BY <1>1 DEF Held
<1>6. /\ tmp' \in Items /\ hole' \in Items /\ q' \in Buckets
      /\ q' = Bucket(tmp')
  BY <1>1, <1>2, <1>4, Layout
<1>7. NoneLost'
  <2>1. (\A x \in Items : \E i \in Items : Held(i) = x)'
    BY <1>1, <1>2, <1>5, Lossless, SameInput
  <2> QED BY <2>1 DEF NoneLost, Held
<1>8. Cursors'
  BY <1>1, <1>2, SameInput, SameLayout DEF Cursors
<1>9. \A u : Untouched(u) => Untouched(u)'
  BY <1>1, <1>5, SameTask
<1>10. Pending'
  BY <1>1, <1>2, <1>9 DEF Pending
<1>11. Waiting'
  BY <1>1, <1>2, SameInput, SameLayout DEF Waiting
<1>12. \A k \in DOMAIN tasks : q' \notin Own(tasks[k])
  <2> SUFFICES ASSUME NEW k \in DOMAIN tasks
               PROVE  q' \notin Own(tasks[k])
    OBVIOUS
  <2>1. Untouched(tasks[k])
    BY <1>2 DEF Pending
  <2>2. h \notin Region(tasks[k])
    BY <1>2, <1>3, <1>4, <2>1, SlotRegion
  <2>3. RankOf(Bucket(ids[h])) \notin tasks[k].first .. tasks[k].last - 1
    BY <1>4, <1>5, <2>1, <2>2 DEF Untouched
  <2> QED BY <1>1, <2>3 DEF Own
<1>13. Carrying'
  <2>1. hole' = range'[Head(queue')].idx /\ hole' < Past(Head(queue'))
    BY <1>1, <1>4 DEF h, p
  <2>2. Bucket(tmp)' = q'
    BY <1>1, <1>6, SameInput
  <2>3. (hole < Past(Head(queue)))'
    BY <1>1, <2>1, SameLayout
  <2>4. \A k \in DOMAIN tasks' : q' \notin Own(tasks[k])'
    BY <1>1, <1>12, SameLayout
  <2> QED BY <1>1, <2>1, <2>2, <2>3, <2>4 DEF Carrying
<1>14. Parting'
  BY <1>1 DEF Parting
<1> QED BY <1>1, <1>2, <1>6, <1>7, <1>8, <1>10, <1>11, <1>13, <1>14, MoveStep
        DEF Moving

(* No identifier is held twice.                                            *)
LEMMA HeldOnce ==
  ASSUME Sized, NoneLost, \A i \in Items : Held(i) \in Items
  PROVE  \A i, k \in Items : Held(i) = Held(k) => i = k
<1> DEFINE f == [i \in Items |-> Held(i)]
<1>1. \A i \in Items : f[i] = Held(i)
  OBVIOUS
<1> HIDE DEF f
<1>2. /\ \A i \in Items : f[i] \in Items
      /\ \A x \in Items : \E i \in Items : f[i] = x
  BY <1>1, Lossless
<1>3. IsFiniteSet(Items)
  BY SizeFacts
<1>4. \A i, k \in Items : f[i] = f[k] => i = k
  <2> HIDE <1>1
  <2> QED BY ONLY <1>2, <1>3, NoneTwice
<1> QED BY <1>1, <1>4

(* The bucket of the identifier in hand has a slot left for it.            *)
LEMMA RoomInBucket ==
  ASSUME NoStrays, IInv, pc = "carry", q # Head(queue)
  PROVE  range[q].idx < Past(q)
<1> DEFINE p == Head(queue)
<1>1. /\ Tabled /\ Sized /\ NoneLost /\ Cursors /\ Carrying
      /\ ids \in [Items -> Items] /\ queue \in Seq(Buckets) /\ Waiting
      /\ q \in Buckets /\ tmp \in Items /\ hole \in Items
  BY MoveFacts DEF Moving, IInv, TypeInv, TypeOK
<1>2. /\ p \in Buckets /\ hole = range[p].idx /\ hole < Past(p)
      /\ Bucket(tmp) = q
  BY <1>1, HeadFacts DEF Carrying
<1>3. hole \in Slots(p)
  <2>1. hole \in First(p) .. Past(p) /\ First(p) \in Nat /\ Past(p) \in Nat
    BY <1>1, <1>2, SlotFacts DEF Cursors
  <2> QED BY <1>2, <2>1 DEF Slots
<1>4. hole \notin Slots(q)
  BY <1>1, <1>2, <1>3, SlotFacts
<1> HIDE DEF p
<1>5. /\ First(q) \in Nat /\ Past(q) \in Nat /\ CountOf(q) \in Nat
      /\ Past(q) = First(q) + CountOf(q) /\ Slots(q) \in SUBSET Items
      /\ range[q].idx \in First(q) .. Past(q)
  <2>1. CountOf(q) \in Nat
    BY <1>1, SizeFacts
  <2> QED BY <1>1, <2>1, SlotFacts DEF Cursors
<1>6. /\ IsFiniteSet(Slots(q)) /\ Cardinality(Slots(q)) = CountOf(q)
  <2>1. IsFiniteSet(Slots(q))
    BY <1>5, FS_Interval DEF Slots
  <2>2. CASE CountOf(q) = 0
    <3>1. Slots(q) = {}
      BY <1>5, <2>2 DEF Slots
    <3> QED BY <2>1, <2>2, <3>1, FS_EmptySet
  <2>3. CASE CountOf(q) # 0
    <3>1. /\ First(q) \in Int /\ Past(q) - 1 \in Int
          /\ ~ (First(q) > Past(q) - 1)
          /\ (Past(q) - 1) - First(q) + 1 = CountOf(q)
      BY <1>5, <2>3
    <3> QED BY <2>1, <3>1, FS_Interval DEF Slots
  <2> QED BY <2>2, <2>3
<1>7. SUFFICES ASSUME range[q].idx = Past(q) PROVE FALSE
  BY <1>5
<1>8. \A x \in Slots(q) : Bucket(ids[x]) = q
  BY <1>1, <1>7 DEF Cursors, Slots
<1> DEFINE S == Slots(q) \union {hole}
           f == [i \in Items |-> Held(i)]
<1>9. \A i \in Items : Held(i) \in Items
  BY <1>1 DEF Held
<1>10. \A x \in S : f[x] = Held(x) /\ x \in Items /\ Held(x) \in Members(q)
  <2>1. \A x \in S : x \in Items /\ Bucket(Held(x)) = q
    BY <1>1, <1>2, <1>4, <1>5, <1>8 DEF Held
  <2> QED BY <1>9, <2>1 DEF Members
<1>11. \A x, y \in S : f[x] = f[y] => x = y
  BY <1>1, <1>9, <1>10, HeldOnce
<1> HIDE DEF f
<1>12. IsFiniteSet(Members(q)) /\ Cardinality(Members(q)) = CountOf(q)
  BY <1>1, SizeFacts
<1>13. Cardinality(S) <= CountOf(q)
  <2>1. \A x \in S : f[x] \in Members(q)
    BY <1>10
  <2> HIDE DEF S
  <2> QED BY <1>11, <1>12, <2>1, RoomForAll
<1>14. Cardinality(S) = CountOf(q) + 1
  BY <1>4, <1>6, FS_AddElement
<1> HIDE DEF S
<1> QED BY <1>5, <1>13, <1>14

LEMMA CarryStep ==
  ASSUME NoStrays, IInv, Carry
  PROVE  IInv'
<1> DEFINE p == Head(queue)
<1>1. PICK j, h : j = range[q].idx /\ h = hole
  OBVIOUS
<1>2. /\ pc = "carry" /\ pc' = pc /\ q # p
      /\ range' = [range EXCEPT ![q].idx = @ + 1]
      /\ UNCHANGED inputVars /\ table' = table
      /\ shadow' = shadow /\ loop' = loop /\ queue' = queue /\ tasks' = tasks
      /\ hole' = hole
      /\ \/ Bucket(ids[j]) = q /\ ids' = ids /\ tmp' = tmp /\ q' = q
         \/ /\ Bucket(ids[j]) # q
            /\ ids' = [ids EXCEPT ![j] = tmp]
            /\ tmp' = ids[j] /\ q' = Bucket(ids[j])
  BY <1>1 DEF Carry
<1>3. /\ Tabled /\ Sized /\ NoneLost /\ range \in Ranges
      /\ ids \in [Items -> Items]
      /\ queue \in Seq(Buckets) /\ tasks \in Seq(Calls)
      /\ Pending /\ Cursors /\ Waiting /\ Carrying
      /\ q \in Buckets /\ tmp \in Items /\ hole \in Items
  BY <1>2, MoveFacts DEF Moving, IInv, TypeInv, TypeOK
<1>4. /\ queue # <<>> /\ hole = range[p].idx /\ hole < Past(p)
      /\ Bucket(tmp) = q /\ \A k \in DOMAIN tasks : q \notin Own(tasks[k])
      /\ p \in Buckets /\ \A k \in DOMAIN tasks : p \notin Own(tasks[k])
  BY <1>2, <1>3, HeadFacts DEF Carrying
<1>5. j < Past(q)
  BY <1>2, <1>1, RoomInBucket
<1>6. /\ range' \in Ranges
      /\ \A b \in Buckets : b # q => range'[b].idx = range[b].idx
      /\ j \in Slots(q) /\ j \in Items
  <2>1. Slots(q) \in SUBSET Items
    BY <1>3, SlotFacts
  <2> QED BY <1>2, <1>3, <1>5, <1>1, <2>1, CursorOn
<1>7. hole \in Slots(p)
  <2>1. hole \in First(p) .. Past(p) /\ First(p) \in Nat /\ Past(p) \in Nat
    BY <1>3, <1>4, SlotFacts DEF Cursors
  <2> QED BY <1>4, <2>1 DEF Slots
<1>8. j # hole
  BY <1>2, <1>3, <1>4, <1>6, <1>7, SlotFacts
<1>9. range'[p].idx = range[p].idx
  BY <1>2, <1>4, <1>6
<1>10. ASSUME NEW b \in Buckets, NEW x \in First(b) .. range[b].idx - 1
       PROVE  x # j
  <2>1. SUFFICES ASSUME x = j PROVE FALSE
    OBVIOUS
  <2>2. /\ range[b].idx \in First(b) .. Past(b)
        /\ First(b) \in Nat /\ Past(b) \in Nat
    BY <1>3, SlotFacts DEF Cursors
  <2>3. x \in Slots(b)
    BY <2>2 DEF Slots
  <2>4. b = q
    BY <1>3, <1>6, <2>1, <2>3, SlotFacts
  <2>5. x <= j - 1 /\ j \in Nat
    BY <1>1, <2>2, <2>4
  <2> QED BY <2>1, <2>5
<1> HIDE DEF p
<1>11. /\ ids' \in [Items -> Items] /\ tmp' \in Items /\ q' \in Buckets
       /\ Bucket(tmp') = q'
       /\ Bucket(ids'[j]) = q
       /\ \A x \in Items : x # j => ids'[x] = ids[x]
  <2>1. \A i \in Items : Bucket(i) \in Buckets
    BY Layout
  <2>2. CASE Bucket(ids[j]) = q
    BY <1>2, <1>3, <1>4, <1>6, <2>2
  <2>3. CASE Bucket(ids[j]) # q
    BY <1>2, <1>3, <1>4, <1>6, <2>1, <2>3
  <2> QED BY <2>2, <2>3
<1>12. Cursors'
  <2>1. \A b \in Buckets : \A x \in First(b) .. range[b].idx - 1 :
          ids'[x] = ids[x]
    <3> SUFFICES ASSUME NEW b \in Buckets, NEW x \in First(b) .. range[b].idx - 1
                 PROVE  ids'[x] = ids[x]
      OBVIOUS
    <3>1. /\ range[b].idx \in First(b) .. Past(b)
          /\ First(b) \in Nat /\ Past(b) \in Nat /\ Slots(b) \in SUBSET Items
      BY <1>3, SlotFacts DEF Cursors
    <3>2. x \in Slots(b)
      BY <3>1 DEF Slots
    <3>3. x \in Items /\ x # j
      BY <1>10, <3>1, <3>2
    <3> QED BY <1>11, <3>3
  <2>2. range[q].idx < Past(q) /\ Bucket(ids'[range[q].idx]) = q
    BY <1>5, <1>11, <1>1
  <2> QED BY <1>2, <1>3, <2>1, <2>2, OneOn
<1>13. /\ \A i \in Items : i # j /\ i # h => Held(i)' = Held(i)
       /\ \/ \A i \in Items : Held(i)' = Held(i)
          \/ Held(j)' = Held(h) /\ Held(h)' = Held(j)
       /\ Held(h) = tmp /\ Held(j) = ids[j]
  <2>1. \A i \in Items : /\ Held(i) = IF i = h THEN tmp ELSE ids[i]
                         /\ Held(i)' = IF i = h THEN tmp' ELSE ids'[i]
    BY <1>2, <1>1 DEF Held
  <2>2. CASE Bucket(ids[j]) = q
    BY <1>2, <1>3, <1>6, <1>8, <1>1, <2>1, <2>2
  <2>3. CASE Bucket(ids[j]) # q
    BY <1>2, <1>3, <1>6, <1>8, <1>1, <2>1, <2>3
  <2> QED BY <2>2, <2>3
<1>14. NoneLost'
  <2>1. CASE \A i \in Items : Held(i)' = Held(i)
    BY <1>2, <1>3, <1>6, <2>1, StillHeld
  <2>2. CASE Held(j)' = Held(h) /\ Held(h)' = Held(j)
    BY <1>2, <1>3, <1>6, <1>13, <1>1, <2>2, StillHeld
  <2> QED BY <1>13, <2>1, <2>2
<1>15. ASSUME NEW k \in DOMAIN tasks
       PROVE  /\ Untouched(tasks[k])
              /\ j \notin Region(tasks[k]) /\ h \notin Region(tasks[k])
              /\ RankOf(Bucket(Held(j))) \notin tasks[k].first .. tasks[k].last - 1
              /\ RankOf(Bucket(Held(h)))
                   \notin tasks[k].first .. tasks[k].last - 1
  <2>1. Untouched(tasks[k])
    BY <1>3 DEF Pending
  <2>2. j \notin Region(tasks[k]) /\ h \notin Region(tasks[k])
    BY <1>3, <1>4, <1>6, <1>7, <1>1, <2>1, SlotRegion
  <2> QED BY <1>3, <1>6, <1>1, <2>1, <2>2 DEF Untouched
<1>16. Pending'
  <2>1. ASSUME NEW k \in DOMAIN tasks
        PROVE  Untouched(tasks[k])'
    <3>6. PICK t : t = tasks[k]
      OBVIOUS
    <3>1. \A b \in Own(t) : range'[b].idx = range[b].idx
      BY <1>4, <1>6, <3>6 DEF Own
    <3>2. \A i \in Items :
            \/ Held(i)' = Held(i)
            \/ i \in Region(t)
                 <=> RankOf(Bucket(Held(i)')) \in t.first .. t.last - 1
      <4> SUFFICES ASSUME NEW i \in Items, Held(i)' # Held(i)
                   PROVE  /\ i \notin Region(t)
                          /\ RankOf(Bucket(Held(i)')) \notin t.first .. t.last - 1
        OBVIOUS
      <4>1. /\ i = j \/ i = h
            /\ Held(j)' = Held(h) /\ Held(h)' = Held(j)
        BY <1>13
      <4> QED BY <1>15, <3>6, <4>1
    <3>3. \A u : /\ Untouched(u)
                 /\ \A b \in Own(u) : range'[b].idx = range[b].idx
                 /\ \A i \in Items :
                      \/ Held(i)' = Held(i)
                      \/ i \in Region(u)
                           <=> RankOf(Bucket(Held(i)')) \in u.first .. u.last - 1
                 => Untouched(u)'
      BY <1>2, SameTask
    <3>4. Untouched(t)
      BY <1>15, <3>6
    <3>5. Untouched(t)'
      BY <3>1, <3>2, <3>3, <3>4
    <3> QED BY <1>2, <3>5, <3>6
  <2> QED BY <1>2, <1>3, <2>1 DEF Pending
<1>17. Waiting'
  <2>1. \A b \in Buckets :
          \/ range'[b].idx = Past(b)
          \/ \E k \in DOMAIN queue : queue[k] = b
          \/ \E k \in DOMAIN tasks : b \in Own(tasks[k])
    <3>1. ASSUME NEW b \in Buckets, b = q
          PROVE  \/ range[b].idx # Past(b)
      BY <1>3, <1>5, <3>1, <1>1, SlotFacts DEF Tabled, Sized
    <3>2. range[q].idx # Past(q)
      BY <1>3, <3>1
    <3>3. \E k \in DOMAIN queue : queue[k] = q
      BY <1>3, <1>4, <3>2 DEF Waiting
    <3> QED BY <1>3, <1>6, <3>3 DEF Waiting
  <2> QED BY <1>2, <1>3, <2>1, SameInput, SameLayout DEF Waiting
<1>18. \A k \in DOMAIN tasks : q' \notin Own(tasks[k])
  <2> SUFFICES ASSUME NEW k \in DOMAIN tasks
               PROVE  q' \notin Own(tasks[k])
    OBVIOUS
  <2>1. q' = q \/ q' = Bucket(Held(j))
    BY <1>2, <1>13
  <2>2. CASE q' = q
    BY <1>4, <2>2
  <2>3. CASE q' = Bucket(Held(j))
    BY <1>15, <2>3 DEF Own
  <2> QED BY <2>1, <2>2, <2>3
<1>19. Carrying'
  <2>1. hole' = range'[Head(queue')].idx
    BY <1>2, <1>4, <1>9 DEF p
  <2>2. Bucket(tmp)' = q'
    BY <1>11, SameInput, <1>2
  <2>3. (hole < Past(Head(queue)))'
    BY <1>2, <1>4, SameLayout DEF p
  <2>4. \A k \in DOMAIN tasks' : q' \notin Own(tasks[k])'
    BY <1>2, <1>18, SameLayout
  <2> QED BY <1>2, <1>4, <2>1, <2>2, <2>3, <2>4 DEF Carrying
<1>20. Parting'
  BY <1>2 DEF Parting
<1> QED BY <1>2, <1>3, <1>6, <1>11, <1>12, <1>14, <1>16, <1>17, <1>19, <1>20,
           MoveStep DEF Moving

LEMMA CloseCycleStep ==
  ASSUME NoStrays, IInv, CloseCycle
  PROVE  IInv'
<1>1. /\ pc = "carry" /\ pc' = "shuffle" /\ q = Head(queue)
      /\ ids' = [ids EXCEPT ![hole] = tmp]
      /\ range' = [range EXCEPT ![q].idx = @ + 1]
      /\ UNCHANGED inputVars /\ table' = table
      /\ shadow' = shadow /\ loop' = loop /\ queue' = queue /\ tasks' = tasks
  BY DEF CloseCycle
<1>2. /\ Tabled /\ Sized /\ NoneLost /\ range \in Ranges
      /\ ids \in [Items -> Items]
      /\ queue \in Seq(Buckets) /\ tasks \in Seq(Calls)
      /\ Pending /\ Cursors /\ Waiting /\ Carrying
      /\ q \in Buckets /\ tmp \in Items /\ hole \in Items
  BY <1>1, MoveFacts DEF Moving, IInv, TypeInv, TypeOK
<1>3. /\ queue # <<>> /\ hole = range[q].idx /\ hole < Past(q)
      /\ Bucket(tmp) = q /\ \A k \in DOMAIN tasks : q \notin Own(tasks[k])
      /\ 1 \in DOMAIN queue /\ queue[1] = q
  BY <1>1, <1>2, HeadFacts DEF Carrying
<1>4. /\ range' \in Ranges
      /\ \A b \in Buckets : b # q => range'[b].idx = range[b].idx
      /\ hole \in Slots(q)
  BY <1>1, <1>2, <1>3, CursorOn
<1>5. /\ ids' \in [Items -> Items] /\ ids'[hole] = tmp
      /\ \A x \in Items : x # hole => ids'[x] = ids[x]
  BY <1>1, <1>2
<1>6. Cursors'
  <2>1. \A b \in Buckets : \A x \in First(b) .. range[b].idx - 1 :
          ids'[x] = ids[x]
    <3> SUFFICES ASSUME NEW b \in Buckets, NEW x \in First(b) .. range[b].idx - 1
                 PROVE  ids'[x] = ids[x]
      OBVIOUS
    <3>1. /\ range[b].idx \in First(b) .. Past(b)
          /\ First(b) \in Nat /\ Past(b) \in Nat /\ Slots(b) \in SUBSET Items
      BY <1>2, SlotFacts DEF Cursors
    <3>2. x \in Slots(b) /\ x < range[b].idx
      BY <3>1 DEF Slots
    <3>3. x # hole
      <4>1. SUFFICES ASSUME x = hole PROVE FALSE
        OBVIOUS
      <4>2. b = q
        BY <1>2, <1>4, <3>2, <4>1, SlotFacts
      <4>3. x < x /\ x \in Nat
        BY <1>3, <3>1, <3>2, <4>1, <4>2
      <4> QED BY <4>3
    <3> QED BY <1>5, <3>1, <3>2, <3>3
  <2>2. range[q].idx < Past(q) /\ Bucket(ids'[range[q].idx]) = q
    BY <1>3, <1>5
  <2> QED BY <1>1, <1>2, <2>1, <2>2, OneOn
<1>7. \A i \in Items : Held(i)' = Held(i)
  BY <1>1, <1>5 DEF Held
<1>8. NoneLost'
  BY <1>1, <1>2, <1>7, StillHeld
<1>9. Pending'
  <2>1. ASSUME NEW k \in DOMAIN tasks
        PROVE  Untouched(tasks[k])'
    <3> DEFINE t == tasks[k]
    <3>1. Untouched(t) /\ \A b \in Own(t) : range'[b].idx = range[b].idx
      BY <1>2, <1>3, <1>4 DEF Pending, Own
    <3>2. \A u : /\ Untouched(u)
                 /\ \A b \in Own(u) : range'[b].idx = range[b].idx
                 => Untouched(u)'
      BY <1>1, <1>7, SameTask
    <3> QED BY <1>1, <3>1, <3>2
  <2> QED BY <1>1, <1>2, <2>1 DEF Pending
<1>10. Waiting'
  <2>1. \A b \in Buckets :
          \/ range'[b].idx = Past(b)
          \/ \E k \in DOMAIN queue : queue[k] = b
          \/ \E k \in DOMAIN tasks : b \in Own(tasks[k])
    BY <1>2, <1>3, <1>4 DEF Waiting
  <2> QED BY <1>1, <1>2, <2>1, SameInput, SameLayout DEF Waiting
<1>11. Parting' /\ Carrying'
  BY <1>1 DEF Parting, Carrying
<1> QED BY <1>1, <1>2, <1>4, <1>5, <1>6, <1>8, <1>9, <1>10, <1>11, MoveStep
        DEF Moving

----------------------------------------------------------------------------
(* Moving in place: dividing a call.                                       *)

(* A call that is divided finds something on both sides: its first bucket  *)
(* is its largest, and none has as many identifiers as a tile.             *)
LEMMA DivisionFacts ==
  ASSUME Tabled, Ranking, NEW t, Untouched(t), ~ Undivided(t),
         \A b \in Buckets : CountOf(b) <= CountMax
  PROVE  /\ RankMid(t) \in t.first + 1 .. t.last - 1
         /\ RankMid(t) \in 0 .. NBuckets
         /\ Split(t) = Start(RankMid(t))
         /\ t.begin < Split(t) /\ Split(t) < t.end
         /\ t.begin \in 0 .. Total /\ t.end \in 0 .. Total
<1> DEFINE m == RankMid(t)
<1>1. /\ NBuckets \in Nat \ {0} /\ Total \in Nat \ {0} /\ Sized
      /\ Buckets = 0 .. NBuckets - 1 /\ Items = 0 .. Total - 1
  BY DEF Tabled, Sized, Buckets, Items
<1>2. /\ t.first \in 0 .. NBuckets /\ t.last \in 0 .. NBuckets
      /\ t.begin = Start(t.first) /\ t.end = Start(t.last)
      /\ \A b \in Own(t) : range[b].idx = First(b)
  BY DEF Untouched
<1>3. /\ t.begin \in 0 .. Total /\ t.end \in 0 .. Total
  BY <1>2, StartFacts
<1>4. /\ t.end - t.begin > Tile /\ t.first + 2 <= t.last
      /\ Tile \in Nat \ {0} /\ CountMax \in Nat /\ CountMax <= Tile
  BY <1>1, <1>2, <1>3, ParamAssumption DEF Undivided
<1>5. ASSUME NEW r \in t.first .. t.last - 1
      PROVE  /\ range[AtRank(r)].idx = Start(r)
             /\ r \in Buckets /\ r \in 0 .. NBuckets /\ r + 1 \in 0 .. NBuckets
             /\ CountOf(AtRank(r)) \in Nat /\ CountOf(AtRank(r)) <= CountMax
             /\ Start(r) \in Nat /\ Start(r + 1) \in Nat
             /\ Start(r + 1) = Start(r) + CountOf(AtRank(r))
  <2>1. r \in Buckets /\ r \in 0 .. NBuckets /\ r + 1 \in 0 .. NBuckets
    BY <1>1, <1>2
  <2>2. AtRank(r) \in Buckets /\ RankOf(AtRank(r)) = r
    BY <2>1, RankFacts
  <2>3. AtRank(r) \in Own(t)
    BY <2>2 DEF Own
  <2>4. range[AtRank(r)].idx = Start(r)
    BY <1>2, <2>2, <2>3 DEF First
  <2>5. CountOf(AtRank(r)) \in Nat
    BY <1>1, SizeFacts
  <2>6. /\ Start(r) \in 0 .. Total /\ Start(r + 1) \in 0 .. Total
        /\ Start(r + 1) = Start(r) + CountOf(AtRank(r))
    BY <2>1, StartFacts
  <2> QED BY <1>1, <2>1, <2>2, <2>4, <2>5, <2>6
<1>6. \A r, s \in t.first .. t.last - 1 :
        r <= s /\ Lower(t, s) => Lower(t, r)
  <2> SUFFICES ASSUME NEW r \in t.first .. t.last - 1,
                      NEW s \in t.first .. t.last - 1, r <= s, Lower(t, s)
               PROVE  Lower(t, r)
    OBVIOUS
  <2>1. /\ range[AtRank(r)].idx = Start(r) /\ range[AtRank(s)].idx = Start(s)
        /\ Start(r) \in Nat /\ Start(s) \in Nat
        /\ r \in 0 .. NBuckets /\ s \in 0 .. NBuckets
    BY <1>5
  <2>2. Start(r) <= Start(s)
    BY <2>1, StartFacts
  <2>3. Midpoint(t) \in Int
    BY <1>3 DEF Midpoint
  <2> QED BY <2>1, <2>2, <2>3 DEF Lower
<1>7. /\ m \in t.first + 1 .. t.last - 1
      /\ m - 1 # t.first => Lower(t, m - 1)
  <2>1. t.first \in Nat /\ t.last \in Nat
    BY <1>1, <1>2
  <2> QED BY <1>4, <1>6, <2>1, RankMidIs
<1>8. Split(t) = range[AtRank(m)].idx
  BY DEF Split
<1> HIDE DEF m
<1>9. /\ m \in t.first .. t.last - 1 /\ m - 1 \in t.first .. t.last - 1
      /\ t.first \in t.first .. t.last - 1 /\ (m - 1) + 1 = m
      /\ m \in 0 .. NBuckets /\ t.first <= m - 1 /\ t.first + 1 <= m
      /\ m \in Int
  BY <1>1, <1>2, <1>7
<1>10. Split(t) = Start(m) /\ Start(m) \in Nat
  BY <1>5, <1>8, <1>9
<1> DEFINE largest == CountOf(AtRank(t.first))
<1>11. /\ largest \in Nat /\ largest <= CountMax
       /\ Start(t.first + 1) = t.begin + largest
  BY <1>2, <1>5, <1>9
<1>12. largest # 0
  <2>1. t.begin \in Items
    BY <1>1, <1>3, <1>4
  <2>2. PICK b \in Buckets : t.begin \in Slots(b)
    BY <2>1, SlotFacts
  <2>3. t.begin \in Region(t)
    BY <1>3, <1>4 DEF Region
  <2>4. b \in Own(t)
    BY <2>2, <2>3, SlotRegion
  <2>5. RankOf(b) \in t.first .. t.last - 1 /\ AtRank(RankOf(b)) = b
    BY <2>4, RankFacts DEF Own
  <2>6. CountOf(b) \in Nat /\ CountOf(b) # 0
    <3>1. /\ First(b) \in Nat /\ Past(b) = First(b) + CountOf(b)
          /\ CountOf(b) \in Nat
      <4>1. First(b) \in 0 .. Total /\ Past(b) = First(b) + CountOf(b)
        BY SlotFacts
      <4>2. CountOf(b) \in 0 .. Total /\ Total \in Nat
        BY <1>1, SizeFacts
      <4> QED BY <4>1, <4>2
    <3>2. First(b) <= t.begin /\ t.begin <= Past(b) - 1
      BY <1>3, <2>2, <3>1 DEF Slots
    <3> QED BY <1>3, <3>1, <3>2
  <2>7. RankOf(b) \in Buckets /\ t.first \in Buckets /\ t.first <= RankOf(b)
    <3>1. t.first \in Int /\ t.last \in Int
      BY <1>1, <1>2
    <3>2. t.first <= RankOf(b)
      BY <2>5, <3>1
    <3> QED BY <1>5, <1>9, <2>5, <3>2
  <2>8. CountOf(b) <= largest
    BY <2>5, <2>7, CountsDescend
  <2> QED BY <1>11, <2>6, <2>8
<1>13. t.begin < Start(m)
  <2>1. Start(t.first + 1) <= Start(m)
    BY <1>5, <1>9, StartFacts
  <2> HIDE DEF largest
  <2> QED BY <1>3, <1>10, <1>11, <1>12, <2>1
<1>14. Start(m) < t.end
  <2>1. SUFFICES ASSUME ~ (Start(m) < t.end) PROVE FALSE
    OBVIOUS
  <2>2. Start(m) = t.end
    <3>1. m \in 0 .. NBuckets /\ m <= t.last
      BY <1>1, <1>2, <1>9
    <3>2. Start(m) <= t.end
      BY <1>2, <3>1, StartFacts
    <3> QED BY <1>3, <1>10, <2>1, <3>2
  <2> DEFINE c == CountOf(AtRank(m - 1))
  <2>3. /\ c \in Nat /\ c <= CountMax /\ Start(m - 1) \in Nat
        /\ t.end = Start(m - 1) + c
        /\ range[AtRank(m - 1)].idx = Start(m - 1)
    BY <1>5, <1>9, <2>2
  <2>4. CASE m - 1 = t.first
    <3>1. Start(m - 1) = t.begin
      BY <1>2, <2>4
    <3> HIDE DEF c
    <3> QED BY <1>3, <1>4, <2>3, <3>1
  <2>5. CASE m - 1 # t.first
    <3>1. Start(m - 1) < Midpoint(t)
      BY <1>7, <2>3, <2>5 DEF Lower
    <3>2. c <= largest
      <4>1. m - 1 \in Buckets /\ t.first \in Buckets
        BY <1>5, <1>9
      <4> QED BY <1>9, <4>1, CountsDescend
    <3>3. Start(t.first + 1) <= Start(m - 1)
      <4>1. /\ t.first + 1 \in 0 .. NBuckets /\ m - 1 \in 0 .. NBuckets
            /\ t.first + 1 <= m - 1
        BY <1>5, <1>7, <1>9, <2>5
      <4> QED BY <4>1, StartFacts
    <3> DEFINE n == t.end - t.begin
               s == Start(m - 1)
    <3>4. n \in Nat /\ n \div 2 \in Nat /\ n - (n \div 2) >= n \div 2
      BY <1>3, <1>4
    <3>5. Midpoint(t) = t.begin + (n \div 2)
      BY DEF Midpoint
    <3>6. t.end = t.begin + n /\ t.end = s + c /\ s < t.begin + (n \div 2)
          /\ t.begin + largest <= s /\ s \in Nat /\ t.begin \in Nat
      BY <1>3, <1>11, <2>3, <3>1, <3>3, <3>5
    <3> HIDE DEF n, s, c, largest
    <3> QED BY <1>11, <2>3, <3>2, <3>4, <3>6
  <2> QED BY <2>4, <2>5
<1> QED BY <1>2, <1>3, <1>7, <1>9, <1>10, <1>13, <1>14 DEF m

LEMMA ChooseSplitStep ==
  ASSUME NoStrays, IInv, ChooseSplit
  PROVE  IInv'
<1>1. /\ pc = "tasks" /\ tasks # <<>> /\ ~ Undivided(Head(tasks))
      /\ pc' = IF Head(tasks).begin < Split(Head(tasks))
                    /\ Split(Head(tasks)) < Head(tasks).end
               THEN "part" ELSE "abort"
      /\ UNCHANGED inputVars /\ UNCHANGED sortVars /\ ids' = ids
      /\ shadow' = shadow /\ loop' = loop /\ queue' = queue /\ tasks' = tasks
      /\ range' = range
  BY DEF ChooseSplit, moveVars, sortVars
<1>2. /\ queue \in Seq(Buckets) /\ tasks \in Seq(Calls) /\ Pending /\ Waiting
      /\ Tabled /\ Ranking /\ queue = <<>>
      /\ \A b \in Buckets : CountOf(b) <= CountMax
  BY <1>1, MoveFacts DEF Moving, Parting
<1>3. Untouched(Head(tasks))
  BY <1>1, <1>2 DEF Pending
<1>4. pc' = "part"
  BY <1>1, <1>2, <1>3, DivisionFacts
<1>5. /\ NoneLost' /\ Cursors' /\ Carrying'
      /\ table' = table /\ range' \in Ranges /\ ids' \in [Items -> Items]
      /\ \A t : Untouched(t) => Untouched(t)'
  BY <1>1, <1>4, Settled DEF Moving
<1>6. Pending'
  BY <1>1, <1>2, <1>5 DEF Pending
<1>7. Waiting' /\ Parting'
  BY <1>1, <1>2, <1>4, <1>5, SameInput, SameLayout
  DEF Waiting, Parting, Undivided
<1> QED BY <1>1, <1>2, <1>4, <1>5, <1>6, <1>7, MoveStep DEF Moving

LEMMA SwapPairStep ==
  ASSUME NoStrays, IInv, SwapPair
  PROVE  IInv'
<1>1. /\ pc = "part" /\ pc' = pc
      /\ UNCHANGED inputVars /\ UNCHANGED sortVars
      /\ shadow' = shadow /\ loop' = loop /\ queue' = queue /\ tasks' = tasks
      /\ range' = range /\ table' = table
  BY DEF SwapPair, moveVars, sortVars
<1>2. /\ Tabled /\ Ranking /\ NoneLost /\ range \in Ranges
      /\ ids \in [Items -> Items]
      /\ queue \in Seq(Buckets) /\ tasks \in Seq(Calls)
      /\ Pending /\ Cursors /\ Waiting /\ Parting
      /\ \A b \in Buckets : CountOf(b) <= CountMax
  BY <1>1, MoveFacts DEF Moving
<1>3. PICK t : t = Head(tasks)
  OBVIOUS
<1>4. /\ tasks # <<>> /\ 1 \in DOMAIN tasks /\ t = tasks[1]
      /\ DOMAIN tasks \subseteq Nat \ {0} /\ Untouched(t)
  BY <1>1, <1>2, <1>3 DEF Parting, Pending
<1>5. PICK i \in WrongLeft(t), j \in WrongRight(t) :
        ids' = [ids EXCEPT ![i] = ids[j], ![j] = ids[i]]
  BY <1>3 DEF SwapPair
<1>6. /\ i \in Region(t) /\ j \in Region(t)
      /\ i \in Items /\ j \in Items /\ i # j
  <2>1. Split(t) \in Int /\ t.begin \in Int /\ t.end \in Int
        /\ Region(t) \subseteq Items
    <3>1. ~ Undivided(t)
      BY <1>1, <1>2, <1>3 DEF Parting
    <3>2. /\ t.begin \in 0 .. Total /\ t.end \in 0 .. Total
          /\ t.begin < Split(t) /\ RankMid(t) \in 0 .. NBuckets
          /\ Split(t) = Start(RankMid(t))
      BY <1>2, <1>4, <3>1, DivisionFacts
    <3>3. Total \in Nat /\ Items = 0 .. Total - 1
      BY <1>2 DEF Tabled, Sized, Items
    <3>4. Split(t) \in 0 .. Total
      BY <1>2, <3>2, StartFacts
    <3> QED BY <3>2, <3>3, <3>4 DEF Region
  <2>2. j \in Lefts(t) /\ i \notin Lefts(t)
    BY <1>5 DEF WrongLeft, WrongRight
  <2>3. j \in Region(t)
    BY <2>2 DEF Lefts, Region
  <2>4. IsFiniteSet(Items)
    BY <1>2, SizeFacts DEF Tabled
  <2>5. Lefts(t) \subseteq Region(t)
    BY DEF Lefts, Region
  <2>6. IsFiniteSet(Lefts(t)) /\ Cardinality(Lefts(t)) \in Nat
    BY <2>1, <2>4, <2>5, FS_Subset, FS_CardinalityType
  <2>7. i \in t.begin .. Cut(t) - 1 /\ j \in Cut(t) .. t.end - 1
    BY <1>5 DEF WrongLeft, WrongRight
  <2>8. Cut(t) \in Int
    BY <2>1, <2>6 DEF Cut
  <2>9. i \in Region(t)
    BY <2>1, <2>7, <2>8 DEF Region
  <2> QED BY <2>1, <2>2, <2>3, <2>9
<1>7. /\ ids' \in [Items -> Items] /\ ids'[i] = ids[j] /\ ids'[j] = ids[i]
      /\ \A x \in Items : x # i /\ x # j => ids'[x] = ids[x]
  BY <1>2, <1>5, <1>6
<1>8. \A x : Held(x) = ids[x] /\ Held(x)' = ids'[x]
  BY <1>1 DEF Held
<1>9. NoneLost'
  BY <1>1, <1>2, <1>6, <1>7, <1>8, StillHeld
<1>10. Cursors'
  <2>1. ASSUME NEW b \in Buckets, NEW x \in First(b) .. range[b].idx - 1
        PROVE  ids'[x] = ids[x]
    <3>1. /\ range[b].idx \in First(b) .. Past(b)
          /\ First(b) \in Nat /\ Past(b) \in Nat /\ Slots(b) \in SUBSET Items
      BY <1>2, SlotFacts DEF Cursors
    <3>2. x \in Slots(b) /\ x \in Items
      BY <3>1 DEF Slots
    <3>3. b \notin Own(t)
      <4>1. SUFFICES ASSUME b \in Own(t) PROVE FALSE
        OBVIOUS
      <4>2. range[b].idx = First(b)
        BY <1>4, <4>1 DEF Untouched
      <4> QED BY <3>1, <4>2
    <3>4. x \notin Region(t)
      BY <1>2, <1>4, <3>2, <3>3, SlotRegion
    <3> QED BY <1>6, <1>7, <3>2, <3>4
  <2>2. \A b \in Buckets : \A x \in First(b) .. range[b].idx - 1 :
          Bucket(ids'[x]) = b
    BY <1>2, <2>1 DEF Cursors
  <2> QED BY <1>1, <1>2, <2>2, SameInput, SameLayout DEF Cursors
<1>11. Pending'
  <2>1. ASSUME NEW k \in DOMAIN tasks
        PROVE  Untouched(tasks[k])'
    <3>1. PICK u : u = tasks[k]
      OBVIOUS
    <3>2. Untouched(u)
      BY <1>2, <3>1 DEF Pending
    <3>3. (i \in Region(u) /\ j \in Region(u)) \/ (i \notin Region(u) /\ j \notin Region(u))
      <4>1. CASE k = 1
        BY <1>4, <1>6, <3>1, <4>1
      <4>2. CASE k # 1
        <5>1. 1 < k
          BY <1>4, <4>2
        <5>2. ASSUME NEW x \in Items, x \in Region(t)
              PROVE  x \notin Region(u)
          <6>1. PICK b \in Buckets : x \in Slots(b)
            BY <1>2, SlotFacts
          <6>2. b \in Own(tasks[1])
            BY <1>2, <1>4, <5>2, <6>1, SlotRegion
          <6>3. b \notin Own(u)
            BY <1>2, <1>4, <3>1, <5>1, <6>2, CallsApart
          <6> QED BY <1>2, <3>2, <6>1, <6>3, SlotRegion
        <5> QED BY <1>6, <5>2
      <4> QED BY <4>1, <4>2
    <3>4. \A x \in Items :
            x \in Region(u) <=> RankOf(Bucket(Held(x)')) \in u.first .. u.last - 1
      <4> SUFFICES ASSUME NEW x \in Items
                   PROVE  x \in Region(u)
                            <=> RankOf(Bucket(ids'[x])) \in u.first .. u.last - 1
        BY <1>8
      <4>1. \A y \in Items :
              y \in Region(u) <=> RankOf(Bucket(ids[y])) \in u.first .. u.last - 1
        BY <1>8, <3>2 DEF Untouched
      <4>2. CASE x = i
        BY <1>6, <1>7, <3>3, <4>1, <4>2
      <4>3. CASE x = j
        BY <1>6, <1>7, <3>3, <4>1, <4>3
      <4>4. CASE x # i /\ x # j
        BY <1>7, <4>1, <4>4
      <4> QED BY <4>2, <4>3, <4>4
    <3>5. \A b \in Own(u) : range'[b].idx = range[b].idx
      BY <1>1
    <3>6. Untouched(u)'
      BY <1>1, <3>2, <3>4, <3>5, SameTask
    <3> QED BY <1>1, <3>1, <3>6
  <2> QED BY <1>1, <1>2, <2>1 DEF Pending
<1>12. Waiting' /\ Parting' /\ Carrying'
  BY <1>1, <1>2, SameInput, SameLayout
  DEF Waiting, Parting, Carrying, Undivided
<1> QED BY <1>1, <1>2, <1>7, <1>9, <1>10, <1>11, <1>12, MoveStep DEF Moving

(* As many slots hold the identifiers of a set as it has.                  *)
LEMMA HeldIn ==
  ASSUME Sized, NoneLost, \A i \in Items : Held(i) \in Items,
         NEW W \in SUBSET Items
  PROVE  Cardinality({i \in Items : Held(i) \in W}) = Cardinality(W)
<1> DEFINE V == {i \in Items : Held(i) \in W}
           f == [i \in V |-> Held(i)]
           g == [x \in W |-> CHOOSE i \in Items : Held(i) = x]
<1>1. \A i, k \in Items : Held(i) = Held(k) => i = k
  BY HeldOnce
<1>2. /\ IsFiniteSet(V) /\ Cardinality(V) \in Nat
      /\ IsFiniteSet(W) /\ Cardinality(W) \in Nat
  BY SizeFacts, FS_CardinalityType
<1>3. \A i \in V : f[i] = Held(i) /\ i \in Items /\ Held(i) \in W
  OBVIOUS
<1>4. \A x \in W : g[x] \in Items /\ Held(g[x]) = x /\ g[x] \in V
  <2> SUFFICES ASSUME NEW x \in W
               PROVE  g[x] \in Items /\ Held(g[x]) = x
    OBVIOUS
  <2>1. \E i \in Items : Held(i) = x
    BY Lossless
  <2>2. g[x] = CHOOSE i \in Items : Held(i) = x
    OBVIOUS
  <2> HIDE DEF g
  <2> QED BY <2>1, <2>2
<1>5. \A x, y \in W : g[x] = g[y] => x = y
  <2> HIDE DEF g
  <2> QED BY <1>4
<1>6. \A i, k \in V : f[i] = f[k] => i = k
  BY <1>1, <1>3
<1> HIDE DEF f, g, V
<1>7. Cardinality(V) <= Cardinality(W)
  BY <1>2, <1>3, <1>6, RoomForAll
<1>8. Cardinality(W) <= Cardinality(V)
  BY <1>2, <1>4, <1>5, RoomForAll
<1>9. Cardinality(V) = Cardinality(W)
  BY <1>2, <1>7, <1>8
<1> QED BY <1>9 DEF V

(* The identifiers that go left are those of the ranks before the          *)
(* division, and they fill the part before it.                             *)
LEMMA LeftsFacts ==
  ASSUME NoStrays, IInv, pc = "part", NEW t, t = Head(tasks)
  PROVE  /\ \A i \in Items :
              i \in Lefts(t)
                <=> RankOf(Bucket(ids[i])) \in t.first .. RankMid(t) - 1
         /\ Cut(t) = Split(t)
         /\ IsFiniteSet(Lefts(t))
         /\ Cardinality(Lefts(t)) = Split(t) - t.begin
         /\ Lefts(t) \subseteq Items
<1> DEFINE m == RankMid(t)
<1>1. /\ Tabled /\ Ranking /\ NoneLost /\ ids \in [Items -> Items] /\ Sized
      /\ Pending /\ Parting /\ tasks \in Seq(Calls)
      /\ \A b \in Buckets : CountOf(b) <= CountMax
      /\ Total \in Nat \ {0} /\ NBuckets \in Nat \ {0}
  BY MoveFacts DEF Moving
<1>2. /\ tasks # <<>> /\ ~ Undivided(t) /\ Untouched(t)
  BY <1>1 DEF Parting, Pending
<1>3. /\ m \in t.first + 1 .. t.last - 1 /\ m \in 0 .. NBuckets
      /\ Split(t) = Start(m) /\ t.begin < Split(t) /\ Split(t) < t.end
      /\ t.begin \in 0 .. Total /\ t.end \in 0 .. Total
  BY <1>1, <1>2, DivisionFacts
<1> HIDE DEF m
<1>4. /\ t.first \in 0 .. NBuckets /\ t.last \in 0 .. NBuckets
      /\ t.begin = Start(t.first) /\ t.end = Start(t.last)
      /\ \A b \in Own(t) : range[b].idx = First(b)
  BY <1>2 DEF Untouched
<1>5. \A i : Held(i) = ids[i]
  BY DEF Held
<1>6. /\ Items = 0 .. Total - 1 /\ Buckets = 0 .. NBuckets - 1
      /\ Region(t) \subseteq Items
      /\ \A i \in Items : Bucket(i) \in Buckets
  BY <1>1, <1>3, Layout DEF Region
<1>7. Start(m) \in 0 .. Total
  BY <1>1, <1>3, StartFacts
<1>8. ASSUME NEW i \in Items, i \in Region(t)
      PROVE  /\ RankOf(Bucket(ids[i])) \in t.first .. t.last - 1
             /\ GoesLeft(ids[i], t) <=> RankOf(Bucket(ids[i])) < m
  <2> DEFINE b == Bucket(ids[i])
  <2>1. ids[i] \in Items /\ b \in Buckets /\ RankOf(b) \in t.first .. t.last - 1
    BY <1>1, <1>2, <1>5, <1>6, <1>8 DEF Untouched
  <2>2. RankOf(b) \in 0 .. NBuckets /\ RankOf(b) + 1 \in 0 .. NBuckets
    BY <1>1, <1>4, <2>1
  <2>3. b \in Own(t) /\ range[b].idx = First(b)
    BY <1>4, <2>1 DEF Own
  <2>4. /\ First(b) \in Nat /\ Past(b) \in Nat /\ First(b) < Past(b)
        /\ First(b) = Start(RankOf(b)) /\ Past(b) = Start(RankOf(b) + 1)
    <3>1. /\ First(b) \in 0 .. Total /\ Past(b) \in 0 .. Total
          /\ Past(b) = First(b) + CountOf(b)
      BY <1>1, <2>1, SlotFacts
    <3>2. CountOf(b) \in Nat /\ CountOf(b) # 0
      <4>1. /\ Members(b) \in SUBSET Items
            /\ CountOf(b) = Cardinality(Members(b))
            /\ CountOf(b) \in 0 .. Total
        BY <1>1, SizeFacts
      <4>2. ids[i] \in Members(b)
        BY <2>1 DEF Members
      <4>3. IsFiniteSet(Members(b))
        BY <1>1, <4>1, SizeFacts
      <4>4. CountOf(b) # 0
        BY <4>1, <4>2, <4>3, FS_EmptySet
      <4> QED BY <1>1, <4>1, <4>4
    <3>3. First(b) = Start(RankOf(b)) /\ Past(b) = Start(RankOf(b) + 1)
      BY DEF First, Past
    <3> HIDE DEF b
    <3> QED BY <1>1, <3>1, <3>2, <3>3
  <2>5. GoesLeft(ids[i], t) <=> First(b) < Start(m)
    BY <1>3, <2>1, <2>3 DEF GoesLeft, PlaceOf
  <2>6. CASE RankOf(b) < m
    <3>1. RankOf(b) + 1 <= m
      BY <1>3, <2>2, <2>6
    <3>2. Past(b) <= Start(m)
      BY <1>1, <1>3, <2>2, <2>4, <3>1, StartFacts
    <3>3. First(b) < Start(m)
      BY <1>7, <2>4, <3>2
    <3> QED BY <2>1, <2>5, <2>6, <3>3
  <2>7. CASE ~ (RankOf(b) < m)
    <3>1. m <= RankOf(b)
      BY <1>3, <2>2, <2>7
    <3>2. Start(m) <= First(b)
      BY <1>1, <1>3, <2>2, <2>4, <3>1, StartFacts
    <3>3. ~ (First(b) < Start(m))
      BY <1>7, <2>4, <3>2
    <3> QED BY <2>1, <2>5, <2>7, <3>3
  <2> QED BY <2>6, <2>7
<1>9. ASSUME NEW i \in Items
      PROVE  i \in Lefts(t) <=> RankOf(Bucket(ids[i])) \in t.first .. m - 1
  <2> DEFINE r == RankOf(Bucket(ids[i]))
  <2>1. r \in t.first .. m - 1 <=> r \in t.first .. t.last - 1 /\ r < m
    <3> HIDE DEF r
    <3>1. t.first \in Int /\ t.last \in Int /\ m \in Int /\ m < t.last
      BY <1>1, <1>3, <1>4
    <3> QED BY <3>1
  <2>2. i \in Lefts(t) <=> i \in Region(t) /\ GoesLeft(ids[i], t)
    BY DEF Lefts, Region
  <2>3. i \in Region(t) <=> r \in t.first .. t.last - 1
    BY <1>2, <1>5 DEF Untouched
  <2> QED BY <1>8, <2>1, <2>2, <2>3
<1> DEFINE W == Below(m) \ Below(t.first)
<1>10. W \in SUBSET Items /\ \A x \in Items :
         x \in W <=> RankOf(Bucket(x)) \in t.first .. m - 1
  <2>1. ASSUME NEW x \in Items
        PROVE  x \in W <=> RankOf(Bucket(x)) \in t.first .. m - 1
    <3> DEFINE r == RankOf(Bucket(x))
    <3>1. r \in Buckets
      BY <1>1, <1>6, RankFacts
    <3>2. r \in Int /\ t.first \in Int /\ m \in Int
      <4>1. Buckets \subseteq Int
        BY <1>1, <1>6
      <4>2. t.first \in Int /\ m \in Int
        BY <1>1, <1>3, <1>4
      <4> QED BY <3>1, <4>1, <4>2
    <3>3. x \in W <=> r < m /\ ~ (r < t.first)
      BY DEF Below
    <3> HIDE DEF r, W
    <3>4. x \in W <=> r \in t.first .. m - 1
      BY <3>2, <3>3
    <3> QED BY <3>4 DEF r
  <2> QED BY <2>1 DEF Below
<1>11. /\ IsFiniteSet(W) /\ Cardinality(W) = Start(m) - t.begin
  <2>1. /\ Below(m) \in SUBSET Items /\ Below(t.first) \in SUBSET Items
    BY DEF Below
  <2>2. Below(t.first) \subseteq Below(m)
    <3>1. \A i \in Items : RankOf(Bucket(i)) < t.first => RankOf(Bucket(i)) < m
      <4> SUFFICES ASSUME NEW i \in Items, RankOf(Bucket(i)) < t.first
                   PROVE  RankOf(Bucket(i)) < m
        OBVIOUS
      <4>1. RankOf(Bucket(i)) \in Buckets
        BY <1>1, <1>6, RankFacts
      <4>2. Buckets \subseteq Int
        BY <1>1, <1>6
      <4>3. t.first \in Int /\ m \in Int /\ t.first < m
        BY <1>1, <1>3, <1>4
      <4>4. RankOf(Bucket(i)) \in Int
        BY <4>1, <4>2
      <4>5. \A a, b, c \in Int : a < b /\ b < c => a < c
        OBVIOUS
      <4> QED BY <4>3, <4>4, <4>5, Zenon
    <3> QED BY <3>1 DEF Below
  <2>3. /\ IsFiniteSet(Below(m)) /\ IsFiniteSet(Below(t.first))
        /\ IsFiniteSet(W) /\ Cardinality(W) \in Nat
        /\ Cardinality(Below(t.first)) \in Nat
    <3>1. W \in SUBSET Items
      BY <1>10
    <3> QED BY <1>1, <2>1, <3>1, SizeFacts, FS_CardinalityType
  <2>4. Below(m) = Below(t.first) \union W /\ Below(t.first) \cap W = {}
    BY <2>2
  <2>5. Cardinality(Below(m)) =
          Cardinality(Below(t.first)) + Cardinality(W) - 0
    BY <2>3, <2>4, FS_Union, FS_EmptySet
  <2>6. Start(m) = Cardinality(Below(m)) /\ t.begin = Cardinality(Below(t.first))
    BY <1>4 DEF Start
  <2> HIDE DEF W
  <2> QED BY <2>3, <2>5, <2>6
<1>12. Lefts(t) = {i \in Items : Held(i) \in W}
  <2>1. Lefts(t) \subseteq Items
    BY <1>6 DEF Lefts, Region
  <2>2. \A i \in Items : i \in Lefts(t) <=> Held(i) \in W
    <3>1. \A i \in Items : ids[i] \in Items
      BY <1>1
    <3> HIDE DEF W
    <3> QED BY <1>5, <1>9, <1>10, <3>1
  <2> HIDE DEF W
  <2> QED BY <2>1, <2>2
<1>13. /\ IsFiniteSet(Lefts(t)) /\ Cardinality(Lefts(t)) = Start(m) - t.begin
       /\ Lefts(t) \subseteq Items
  <2>1. \A i \in Items : Held(i) \in Items
    BY <1>1, <1>5
  <2>2. Lefts(t) \subseteq Items /\ W \in SUBSET Items
    BY <1>10, <1>12
  <2> HIDE DEF W
  <2>3. Cardinality(Lefts(t)) = Cardinality(W)
    BY <1>1, <1>12, <2>1, <2>2, HeldIn
  <2> QED BY <1>1, <1>11, <2>2, <2>3, SizeFacts
<1>14. Cut(t) = Split(t)
  BY <1>1, <1>3, <1>7, <1>13 DEF Cut
<1> QED BY <1>3, <1>9, <1>13, <1>14 DEF m

LEMMA DivideStep ==
  ASSUME NoStrays, IInv, Divide
  PROVE  IInv'
<1>1. /\ pc = "part" /\ WrongLeft(Head(tasks)) = {}
      /\ UNCHANGED inputVars /\ UNCHANGED sortVars /\ ids' = ids
      /\ shadow' = shadow /\ loop' = loop /\ queue' = queue
      /\ range' = range /\ table' = table
      /\ IF Cut(Head(tasks)) = Split(Head(tasks))
         THEN pc' = "tasks" /\ tasks' = Halves(Head(tasks)) \o Tail(tasks)
         ELSE pc' = "abort" /\ UNCHANGED tasks
  BY DEF Divide, sortVars
<1>2. /\ Tabled /\ Ranking /\ NoneLost /\ ids \in [Items -> Items]
      /\ queue \in Seq(Buckets) /\ queue = <<>> /\ tasks \in Seq(Calls)
      /\ Pending /\ Waiting /\ Parting
      /\ \A b \in Buckets : CountOf(b) <= CountMax
      /\ Total \in Nat \ {0} /\ NBuckets \in Nat \ {0}
  BY <1>1, MoveFacts DEF Moving, Parting
<1>3. PICK t : t = Head(tasks)
  OBVIOUS
<1>4. /\ tasks # <<>> /\ 1 \in DOMAIN tasks /\ t = tasks[1]
      /\ ~ Undivided(t) /\ Untouched(t) /\ t \in Calls
  BY <1>1, <1>2, <1>3 DEF Parting, Pending
<1>5. PICK m : m = RankMid(t)
  OBVIOUS
<1>6. /\ m \in t.first + 1 .. t.last - 1 /\ m \in 0 .. NBuckets
      /\ Split(t) = Start(m) /\ t.begin < Start(m) /\ Start(m) < t.end
      /\ t.begin \in 0 .. Total /\ t.end \in 0 .. Total
      /\ Start(m) \in 0 .. Total
  BY <1>2, <1>4, <1>5, DivisionFacts, StartFacts
<1>7. /\ \A i \in Items :
           i \in Lefts(t) <=> RankOf(Bucket(ids[i])) \in t.first .. m - 1
      /\ Cut(t) = Start(m) /\ Lefts(t) \subseteq Items
      /\ IsFiniteSet(Lefts(t)) /\ Cardinality(Lefts(t)) = Start(m) - t.begin
  BY <1>1, <1>3, <1>5, <1>6, LeftsFacts
<1>8. Lefts(t) = t.begin .. Start(m) - 1
  <2>1. t.begin .. Start(m) - 1 \subseteq Lefts(t)
    BY <1>1, <1>3, <1>7 DEF WrongLeft
  <2>2. Cardinality(t.begin .. Start(m) - 1) = Start(m) - t.begin
    <3>1. /\ t.begin \in Int /\ Start(m) - 1 \in Int
          /\ ~ (t.begin > Start(m) - 1)
          /\ (Start(m) - 1) - t.begin + 1 = Start(m) - t.begin
      BY <1>2, <1>6
    <3> QED BY <3>1, FS_Interval
  <2> QED BY <1>7, <2>1, <2>2, FS_Subset
<1>9. PICK L, R : /\ L = Task(t.first, m, t.begin, Start(m))
                  /\ R = Task(m, t.last, Start(m), t.end)
  OBVIOUS
<1>10. /\ L.first = t.first /\ L.last = m /\ L.begin = t.begin
       /\ L.end = Start(m)
       /\ R.first = m /\ R.last = t.last /\ R.begin = Start(m)
       /\ R.end = t.end
       /\ L \in Calls /\ R \in Calls
  <2>1. /\ t.first \in Nat /\ t.last \in Nat /\ m \in Nat
        /\ t.begin \in Nat /\ t.end \in Nat /\ Start(m) \in Nat
    BY <1>2, <1>4, <1>6 DEF Calls
  <2> QED BY <1>9, <2>1 DEF Task, Calls
<1>11. /\ pc' = "tasks" /\ tasks' = <<L, R>> \o Tail(tasks)
  BY <1>1, <1>3, <1>5, <1>6, <1>7, <1>9 DEF Halves
<1>12. /\ t.first \in 0 .. NBuckets /\ t.last \in 0 .. NBuckets
       /\ t.begin = Start(t.first) /\ t.end = Start(t.last)
       /\ \A b \in Own(t) : range[b].idx = First(b)
       /\ \A i \in Items :
            i \in Region(t) <=> RankOf(Bucket(ids[i])) \in t.first .. t.last - 1
  <2>1. \A i : Held(i) = ids[i]
    BY <1>1 DEF Held
  <2> QED BY <1>4, <2>1 DEF Untouched
<1>13. \A b \in Buckets : /\ b \in Own(t) <=> b \in Own(L) \/ b \in Own(R)
  <2> SUFFICES ASSUME NEW r
               PROVE  r \in t.first .. t.last - 1
                        <=> r \in t.first .. m - 1 \/ r \in m .. t.last - 1
    BY <1>10 DEF Own
  <2>1. /\ t.first \in Int /\ t.last \in Int /\ m \in Int
        /\ t.first < m /\ m < t.last
    BY <1>2, <1>6, <1>12
  <2> QED BY <2>1
<1>14. \A i : Held(i) = ids[i]
  BY <1>1 DEF Held
<1>15. Untouched(L)
  <2>1. \A i \in Items :
          i \in Region(L) <=> RankOf(Bucket(Held(i))) \in L.first .. L.last - 1
    BY <1>7, <1>8, <1>10, <1>14 DEF Region
  <2>2. L.first < L.last
    BY <1>2, <1>6, <1>10, <1>12
  <2>3. \A b \in Own(L) : range[b].idx = First(b)
    BY <1>12, <1>13 DEF Own
  <2> QED BY <1>6, <1>10, <1>12, <2>1, <2>2, <2>3 DEF Untouched
<1>16. Untouched(R)
  <2>1. \A i \in Items :
          i \in Region(R) <=> RankOf(Bucket(Held(i))) \in R.first .. R.last - 1
    <3> SUFFICES ASSUME NEW i \in Items
                 PROVE  i \in Region(R)
                          <=> RankOf(Bucket(ids[i])) \in m .. t.last - 1
      BY <1>10, <1>14
    <3> DEFINE r == RankOf(Bucket(ids[i]))
    <3>1. /\ i \in t.begin .. Start(m) - 1 <=> r \in t.first .. m - 1
          /\ i \in t.begin .. t.end - 1 <=> r \in t.first .. t.last - 1
      BY <1>7, <1>8, <1>12 DEF Region
    <3>2. i \in Start(m) .. t.end - 1
            <=> /\ i \in t.begin .. t.end - 1
                /\ i \notin t.begin .. Start(m) - 1
      BY <1>2, <1>6
    <3>3. r \in m .. t.last - 1
            <=> r \in t.first .. t.last - 1 /\ r \notin t.first .. m - 1
      <4>1. /\ t.first \in Int /\ t.last \in Int /\ m \in Int
            /\ t.first < m /\ m < t.last
        BY <1>2, <1>6, <1>12
      <4> HIDE DEF r
      <4> QED BY <4>1
    <3>4. Region(R) = Start(m) .. t.end - 1
      BY <1>10 DEF Region
    <3> HIDE DEF r
    <3>5. i \in Region(R) <=> r \in m .. t.last - 1
      BY <3>1, <3>2, <3>3, <3>4
    <3> QED BY <3>5 DEF r
  <2>2. R.first < R.last
    BY <1>2, <1>6, <1>10, <1>12
  <2>3. \A b \in Own(R) : range[b].idx = First(b)
    BY <1>12, <1>13 DEF Own
  <2> QED BY <1>6, <1>10, <1>12, <2>1, <2>2, <2>3 DEF Untouched
<1>17. /\ NoneLost' /\ Cursors' /\ Carrying'
       /\ table' = table /\ range' \in Ranges /\ ids' \in [Items -> Items]
       /\ \A u : Untouched(u) => Untouched(u)'
  BY <1>1, <1>11, Settled DEF Moving
<1> DEFINE n == Len(tasks)
<1>18. /\ n \in Nat \ {0} /\ DOMAIN tasks = 1 .. n
       /\ tasks' \in Seq(Calls) /\ DOMAIN tasks' = 1 .. n + 1
       /\ tasks'[1] = L /\ tasks'[2] = R
       /\ \A k \in 3 .. n + 1 : tasks'[k] = tasks[k - 1] /\ k - 1 \in 2 .. n
  <2>1. Tail(tasks) \in Seq(Calls) /\ Len(Tail(tasks)) = n - 1
        /\ n \in Nat \ {0} /\ DOMAIN tasks = 1 .. n
        /\ \A k \in 1 .. n - 1 : Tail(tasks)[k] = tasks[k + 1]
    BY <1>2, <1>4
  <2>2. <<L, R>> \in Seq(Calls) /\ Len(<<L, R>>) = 2
        /\ <<L, R>>[1] = L /\ <<L, R>>[2] = R
    BY <1>10
  <2> HIDE DEF n
  <2>3. /\ tasks' \in Seq(Calls) /\ Len(tasks') = n + 1
        /\ tasks'[1] = L /\ tasks'[2] = R
        /\ \A k \in 3 .. n + 1 : tasks'[k] = Tail(tasks)[k - 2]
    BY <1>11, <2>1, <2>2
  <2>4. \A k \in 3 .. n + 1 : /\ k - 2 \in 1 .. n - 1 /\ (k - 2) + 1 = k - 1
                              /\ k - 1 \in 2 .. n
    BY <2>1
  <2> QED BY <2>1, <2>3, <2>4
<1> HIDE DEF n
<1>19. \A k \in DOMAIN tasks' : k = 1 \/ k = 2 \/ k \in 3 .. n + 1
  BY <1>18
<1>20. Pending'
  <2>1. \A k \in DOMAIN tasks' : Untouched(tasks'[k])
    <3> SUFFICES ASSUME NEW k \in DOMAIN tasks'
                 PROVE  Untouched(tasks'[k])
      OBVIOUS
    <3>1. CASE k \in 3 .. n + 1
      <4>1. tasks'[k] = tasks[k - 1] /\ k - 1 \in DOMAIN tasks
        BY <1>18, <3>1
      <4> QED BY <1>2, <4>1 DEF Pending
    <3> QED BY <1>15, <1>16, <1>18, <1>19, <3>1
  <2>2. ASSUME NEW k \in DOMAIN tasks', NEW l \in DOMAIN tasks', k < l
        PROVE  tasks'[k].last <= tasks'[l].first
    <3>1. ASSUME NEW i \in 3 .. n + 1
          PROVE  /\ t.last <= tasks'[i].first /\ m <= tasks'[i].first
                 /\ tasks'[i].first \in Nat
      <4>1. /\ tasks'[i] = tasks[i - 1] /\ i - 1 \in DOMAIN tasks /\ 1 < i - 1
        BY <1>18
      <4>2. t.last <= tasks'[i].first /\ tasks'[i] \in Calls
        BY <1>2, <1>4, <4>1 DEF Pending
      <4>3. tasks'[i].first \in Nat
        BY <4>2 DEF Calls
      <4> QED BY <1>2, <1>6, <1>12, <4>2, <4>3
    <3>2. CASE k = 1 /\ l = 2
      BY <1>6, <1>10, <1>18, <1>2, <3>2
    <3>3. CASE k \in {1, 2} /\ l \in 3 .. n + 1
      BY <1>10, <1>18, <3>1, <3>3
    <3>4. CASE k \in 3 .. n + 1 /\ l \in 3 .. n + 1
      <4>1. /\ tasks'[k] = tasks[k - 1] /\ tasks'[l] = tasks[l - 1]
            /\ k - 1 \in DOMAIN tasks /\ l - 1 \in DOMAIN tasks /\ k - 1 < l - 1
        BY <1>18, <2>2, <3>4
      <4> QED BY <1>2, <4>1 DEF Pending
    <3>5. \/ k = 1 /\ l = 2
          \/ k \in {1, 2} /\ l \in 3 .. n + 1
          \/ k \in 3 .. n + 1 /\ l \in 3 .. n + 1
      BY <1>18, <1>19, <2>2
    <3> QED BY <3>2, <3>3, <3>4, <3>5
  <2>3. \A k \in DOMAIN tasks' : Untouched(tasks[k])'
    BY <1>17, <2>1
  <2> QED BY <2>2, <2>3 DEF Pending
<1>21. \A b \in Buckets :
         range[b].idx = Past(b) \/ \E k \in DOMAIN tasks' : b \in Own(tasks'[k])
  <2> SUFFICES ASSUME NEW b \in Buckets, range[b].idx # Past(b)
               PROVE  \E k \in DOMAIN tasks' : b \in Own(tasks'[k])
    OBVIOUS
  <2>1. PICK k \in DOMAIN tasks : b \in Own(tasks[k])
    BY <1>2 DEF Waiting
  <2>2. CASE k = 1
    <3>1. b \in Own(L) \/ b \in Own(R)
      BY <1>4, <1>13, <2>1, <2>2
    <3>2. 1 \in DOMAIN tasks' /\ 2 \in DOMAIN tasks'
      BY <1>18
    <3> QED BY <1>18, <3>1, <3>2
  <2>3. CASE k # 1
    <3>1. k + 1 \in 3 .. n + 1 /\ (k + 1) - 1 = k /\ k + 1 \in DOMAIN tasks'
      BY <1>18, <2>3
    <3> QED BY <1>18, <2>1, <3>1
  <2> QED BY <2>2, <2>3
<1>22. Waiting' /\ Parting'
  <2>1. queue' = <<>> /\ DOMAIN queue' = {}
    BY <1>1, <1>2
  <2>2. \A b \in Buckets :
          \/ range'[b].idx = Past(b)
          \/ \E k \in DOMAIN tasks' : b \in Own(tasks'[k])
    BY <1>1, <1>21
  <2>3. Waiting'
    BY <1>1, <2>1, <2>2, SameInput, SameLayout DEF Waiting
  <2>4. Parting'
    BY <1>11, <2>1 DEF Parting
  <2> QED BY <2>3, <2>4
<1> QED BY <1>1, <1>2, <1>11, <1>17, <1>18, <1>20, <1>22, MoveStep DEF Moving

----------------------------------------------------------------------------
(* Every step keeps the invariant.                                         *)

(* A step that changes nothing.                                            *)
LEMMA StutterStep ==
  ASSUME IInv, UNCHANGED vars
  PROVE  IInv'
<1>1. /\ UNCHANGED inputVars /\ pc' = pc /\ table' = table /\ digit' = digit
      /\ range' = range /\ ids' = ids /\ shadow' = shadow /\ loop' = loop
      /\ tasks' = tasks /\ queue' = queue /\ q' = q /\ tmp' = tmp
      /\ hole' = hole
  BY DEF vars, sortVars, moveVars
<1>2. /\ \A r : Start(r)' = Start(r)
      /\ \A b : First(b)' = First(b) /\ Past(b)' = Past(b)
      /\ \A b : RankOf(b)' = RankOf(b) /\ Slots(b)' = Slots(b)
      /\ \A i : SlotOf(i)' = SlotOf(i)
      /\ \A t : Own(t)' = Own(t)
  BY <1>1, SameLayout
<1>3. \A i : Held(i)' = Held(i)
  BY <1>1 DEF Held
<1>4. TypeInv' /\ AssertsHold' /\ NoneLost'
  <2>1. TypeOK'
    BY <1>1, SameInput DEF IInv, TypeInv, TypeOK
  <2>2. NoneLost'
    BY <1>1, SameInput DEF IInv, NoneLost
  <2> QED BY <1>1, <2>1, <2>2, SameInput DEF IInv, TypeInv, AssertsHold
<1>5. SortInv'
  BY <1>1, SameInput
     DEF IInv, SortInv, Sorting, Ranking, Numbered, Ordered, Moving
<1>6. CopyInv'
  BY <1>1, <1>2, SameInput DEF IInv, CopyInv, Copied
<1>7. MoveInv'
  <2>1. \A t : Untouched(t) => Untouched(t)'
    BY <1>1, <1>2, <1>3, SameInput DEF Untouched, Region
  <2>2. pc \in Moving => Pending' /\ Cursors' /\ Waiting' /\ Parting' /\ Carrying'
    <3> SUFFICES ASSUME pc \in Moving
                 PROVE  Pending' /\ Cursors' /\ Waiting' /\ Parting' /\ Carrying'
      OBVIOUS
    <3>1. Pending /\ Cursors /\ Waiting /\ Parting /\ Carrying
      BY DEF IInv, MoveInv
    <3>2. Pending'
      BY <1>1, <2>1, <3>1 DEF Pending
    <3>3. Cursors' /\ Waiting'
      BY <1>1, <1>2, <3>1, SameInput DEF Cursors, Waiting
    <3>4. Parting'
      BY <1>1, <3>1 DEF Parting, Undivided
    <3>5. Carrying'
      BY <1>1, <1>2, <3>1, SameInput DEF Carrying
    <3> QED BY <3>2, <3>3, <3>4, <3>5
  <2>3. pc \in Moving => ~ input.shadow /\ tasks \in Seq(Calls)
    BY DEF IInv, MoveInv
  <2>4. pc = "done" /\ ~ input.shadow =>
          \A b \in Buckets : \A x \in Slots(b) : Bucket(ids[x]) = b
    BY DEF IInv, MoveInv
  <2> QED BY <1>1, <1>2, <2>2, <2>3, <2>4, SameInput DEF MoveInv, Moving, Calls
<1> QED BY <1>4, <1>5, <1>6, <1>7 DEF IInv

LEMMA StepKeepsIInv ==
  ASSUME NoStrays, IInv, [Next]_vars
  PROVE  IInv'
<1>1. CASE Marking
  BY <1>1, MarkingStep
<1>2. CASE SortByDigit
  BY <1>2, SortByDigitStep
<1>3. CASE MakeRanges
  BY <1>3, MakeRangesStep
<1>4. CASE Copy
  BY <1>4, CopyStep
<1>5. CASE CopyDone
  BY <1>5, CopyDoneStep
<1>6. CASE ShuffleTile
  BY <1>6, ShuffleTileStep
<1>7. CASE ChooseSplit
  BY <1>7, ChooseSplitStep
<1>8. CASE SwapPair
  BY <1>8, SwapPairStep
<1>9. CASE Divide
  BY <1>9, DivideStep
<1>10. CASE TasksDone
  BY <1>10, TasksDoneStep
<1>11. CASE NextBucket
  BY <1>11, NextBucketStep
<1>12. CASE Skip
  BY <1>12, SkipStep
<1>13. CASE OpenCycle
  BY <1>13, OpenCycleStep
<1>14. CASE Carry
  BY <1>14, CarryStep
<1>15. CASE CloseCycle
  BY <1>15, CloseCycleStep
<1>16. CASE ShuffleDone
  BY <1>16, ShuffleDoneStep
<1>17. CASE Terminated \/ UNCHANGED vars
  BY <1>17, StutterStep DEF Terminated
<1> QED BY <1>1, <1>2, <1>3, <1>4, <1>5, <1>6, <1>7, <1>8, <1>9, <1>10, <1>11,
           <1>12, <1>13, <1>14, <1>15, <1>16, <1>17 DEF Next

(* So it holds throughout.                                                 *)
LEMMA SortInductive ==
  ASSUME NoStrays
  PROVE  Spec => []IInv
<1>1. Init => IInv
  BY InitIInv
<1>2. IInv /\ [Next]_vars => IInv'
  BY StepKeepsIInv
<1> QED BY <1>1, <1>2, PTL DEF Spec

----------------------------------------------------------------------------
(* What the invariant gives.                                               *)

(* TypeOK, always: the variables have their types at every step of L1Sort  *)
(* (build.cc:505-547), for any number of identifiers.                      *)
THEOREM SortTypeCorrect ==
  ASSUME NoStrays
  PROVE  Spec => []TypeOK
<1>1. IInv => TypeOK
  BY DEF IInv, TypeInv
<1> QED BY <1>1, SortInductive, PTL

(* AssertsHold, always: neither assert of L1SortLocalize fails             *)
(* (build.cc:482 and 488).  A range over a tile has a bucket that starts   *)
(* in its second half, and std::partition cuts it where that one starts.   *)
THEOREM SortAssertsHold ==
  ASSUME NoStrays
  PROVE  Spec => []AssertsHold
<1>1. IInv => AssertsHold
  BY DEF IInv
<1> QED BY <1>1, SortInductive, PTL

(* CyclesSound, always: no cycle of ShuffleInOrder (build.cc:238-273)      *)
(* loses an identifier, and no cursor leaves its bucket.                   *)
THEOREM CyclesAreSound ==
  ASSUME NoStrays
  PROVE  Spec => []CyclesSound
<1>1. ASSUME IInv
      PROVE  CursorsInside
  <2> SUFFICES ASSUME pc \in Moving, NEW b \in Buckets
               PROVE  /\ range[b].idx <= range[b].val
                      /\ \A x \in range[b].val - CountOf(b) .. range[b].idx - 1 :
                           Bucket(ids[x]) = b
    BY DEF CursorsInside, Moving
  <2>1. /\ range[b].val = Past(b) /\ range[b].idx \in First(b) .. Past(b)
        /\ \A x \in First(b) .. range[b].idx - 1 : Bucket(ids[x]) = b
    BY <1>1, MoveFacts DEF Cursors
  <2>2. /\ First(b) \in 0 .. Total /\ Past(b) \in 0 .. Total
        /\ Past(b) = First(b) + CountOf(b) /\ CountOf(b) \in 0 .. Total
        /\ Total \in Nat
    BY <1>1, MoveFacts, SlotFacts, SizeFacts
  <2>3. Past(b) - CountOf(b) = First(b)
    <3>1. \A f, c, p \in Int : p = f + c => p - c = f
      OBVIOUS
    <3>2. First(b) \in Int /\ Past(b) \in Int /\ CountOf(b) \in Int
      BY <2>2
    <3> QED BY <2>2, <3>1, <3>2, Zenon
  <2>4. range[b].idx <= Past(b)
    BY <2>1, <2>2
  <2> QED BY <2>1, <2>3, <2>4
<1>2. IInv => CyclesSound
  BY <1>1 DEF IInv, CyclesSound
<1> QED BY <1>2, SortInductive, PTL


(* TasksApart, always: a pending call of L1SortLocalize (build.cc:470-497) *)
(* finds in its part of the array the identifiers of its buckets, all of   *)
(* them untouched and no others, whatever the earlier calls did in theirs. *)
THEOREM TasksStayApart ==
  ASSUME NoStrays
  PROVE  Spec => []TasksApart
<1>1. ASSUME IInv, pc \in {"tasks", "shuffle", "carry"}, NEW k \in DOMAIN tasks,
             NEW t, t = tasks[k]
      PROVE  LET Mine == {AtRank(r) : r \in t.first .. t.last - 1}
             IN  /\ \A i \in t.begin .. t.end - 1 : Bucket(ids[i]) \in Mine
                 /\ \A b \in Mine : /\ range[b].idx = range[b].val - CountOf(b)
                                    /\ CountOf(b) > 0 =>
                                         /\ t.begin <= range[b].idx
                                         /\ range[b].val <= t.end
  <2> DEFINE Mine == {AtRank(r) : r \in t.first .. t.last - 1}
  <2>1. /\ Tabled /\ Sized /\ Cursors /\ Waiting /\ Carrying /\ Untouched(t)
        /\ queue \in Seq(Buckets) /\ ids \in [Items -> Items]
    BY <1>1, MoveFacts DEF Moving, Pending
  <2>2. /\ t.first \in 0 .. NBuckets /\ t.last \in 0 .. NBuckets
        /\ t.begin = Start(t.first) /\ t.end = Start(t.last)
        /\ NBuckets \in Nat /\ Total \in Nat
        /\ Buckets = 0 .. NBuckets - 1 /\ Items = 0 .. Total - 1
    BY <2>1 DEF Untouched, Sized, Buckets, Items
  <2>3. /\ t.begin \in 0 .. Total /\ t.end \in 0 .. Total
    BY <2>1, <2>2, StartFacts
  <2>4. \A r \in t.first .. t.last - 1 :
          r \in Buckets /\ r \in 0 .. NBuckets /\ r + 1 \in 0 .. NBuckets
    BY <2>2
  <2>5. ASSUME NEW i \in t.begin .. t.end - 1
        PROVE  Bucket(ids[i]) \in Mine
    <3>1. i \in Items /\ i \in Region(t)
      BY <2>2, <2>3 DEF Region
    <3>2. Held(i) = ids[i]
      <4> SUFFICES ASSUME pc = "carry", i = hole
                   PROVE  FALSE
        BY DEF Held
      <4>1. /\ queue # <<>> /\ hole = range[Head(queue)].idx
            /\ hole < Past(Head(queue))
        BY <2>1 DEF Carrying
      <4>2. Head(queue) \in Buckets /\ Head(queue) \notin Own(t)
        BY <1>1, <2>1, <4>1, HeadFacts
      <4>3. i \in Slots(Head(queue))
        <5>1. /\ First(Head(queue)) \in 0 .. Total
              /\ Past(Head(queue)) \in 0 .. Total
              /\ i \in First(Head(queue)) .. Past(Head(queue))
              /\ i < Past(Head(queue))
          BY <2>1, <4>1, <4>2, SlotFacts DEF Cursors
        <5> QED BY <2>2, <5>1 DEF Slots
      <4> QED BY <2>1, <3>1, <4>2, <4>3, SlotRegion
    <3>3. RankOf(Bucket(ids[i])) \in t.first .. t.last - 1
      BY <2>1, <3>1, <3>2 DEF Untouched
    <3>4. Bucket(ids[i]) \in Buckets
      BY <1>1, <2>1, <3>1, Layout
    <3>5. AtRank(RankOf(Bucket(ids[i]))) = Bucket(ids[i])
      BY <2>1, <3>4, RankFacts
    <3> QED BY <3>3, <3>5
  <2>6. ASSUME NEW b \in Mine
        PROVE  /\ range[b].idx = range[b].val - CountOf(b)
               /\ t.begin <= range[b].idx /\ range[b].val <= t.end
    <3>1. PICK r \in t.first .. t.last - 1 : b = AtRank(r)
      OBVIOUS
    <3>2. b \in Buckets /\ RankOf(b) = r
      BY <2>1, <2>4, <3>1, RankFacts
    <3>3. range[b].idx = First(b) /\ range[b].val = Past(b)
      BY <2>1, <3>1, <3>2 DEF Untouched, Own, Cursors
    <3>4. /\ First(b) \in Int /\ Past(b) = First(b) + CountOf(b)
          /\ CountOf(b) \in Int
      BY <2>1, <3>2, SlotFacts, SizeFacts
    <3>5. First(b) = Start(r) /\ Past(b) = Start(r + 1)
      BY <3>2 DEF First, Past
    <3>6. /\ t.first <= r /\ r + 1 <= t.last
          /\ r \in 0 .. NBuckets /\ r + 1 \in 0 .. NBuckets
      BY <2>2, <2>4, <3>1
    <3>7. t.begin <= First(b) /\ Past(b) <= t.end
      BY <2>1, <2>2, <3>5, <3>6, StartFacts
    <3>8. First(b) = Past(b) - CountOf(b)
      BY <3>4
    <3> QED BY <3>3, <3>7, <3>8
  <2> QED BY <2>5, <2>6
<1>2. IInv => TasksApart
  BY <1>1 DEF TasksApart
<1> QED BY <1>2, SortInductive, PTL

(* When the sort is done, each slot has an identifier of its bucket, and   *)
(* none is missing.                                                        *)
LEMMA DoneFacts ==
  ASSUME NoStrays, IInv, pc = "done"
  PROVE  /\ Tabled /\ Ranking
         /\ \A b \in Buckets : \A x \in Slots(b) : Bucket(Sorted[x]) = b
         /\ \A x \in Items : \E i \in Items : Sorted[i] = x
<1>1. Tabled /\ Ranking /\ Items = 0 .. Total - 1 /\ CopyInv /\ MoveInv
  BY Layout DEF IInv, SortInv
<1>2. CASE input.shadow
  <2>1. Sorted = shadow /\ \A i \in Items : shadow[SlotOf(i)] = i
    BY <1>1, <1>2 DEF Sorted, CopyInv, Copied
  <2>2. ASSUME NEW b \in Buckets, NEW x \in Slots(b)
        PROVE  Bucket(Sorted[x]) = b
    <3>1. x \in Items
      BY <1>1, SlotFacts
    <3>2. PICK i \in Items : SlotOf(i) = x
      BY <1>1, <3>1, SlotOfFacts
    <3>3. x \in Slots(Bucket(i)) /\ Bucket(i) \in Buckets
      BY <1>1, <3>2, SlotOfFacts, Layout
    <3>4. Bucket(i) = b
      BY <1>1, <3>3, SlotFacts
    <3> QED BY <2>1, <3>2, <3>4
  <2>3. \A x \in Items : \E i \in Items : Sorted[i] = x
    BY <1>1, <2>1, SlotOfFacts
  <2> QED BY <1>1, <2>2, <2>3
<1>3. CASE ~ input.shadow
  <2>1. Sorted = ids /\ \A i : Held(i) = ids[i]
    BY <1>3 DEF Sorted, Held
  <2>2. \A x \in Items : \E i \in Items : Held(i) = x
    BY Lossless DEF IInv
  <2> QED BY <1>1, <1>3, <2>1, <2>2 DEF MoveInv
<1> QED BY <1>2, <1>3

(* GroupedLargestFirst, always: what L1Sort returns to Build               *)
(* (build.cc:505-547) has every identifier, those of a bucket one after    *)
(* the other, and none after one of a smaller bucket.                      *)
THEOREM SortedIsGrouped ==
  ASSUME NoStrays
  PROVE  Spec => []GroupedLargestFirst
<1>1. ASSUME IInv, pc = "done", NEW i \in Items, NEW k \in Items, i < k
      PROVE  /\ CountOf(Bucket(Sorted[i])) >= CountOf(Bucket(Sorted[k]))
             /\ Bucket(Sorted[i]) = Bucket(Sorted[k]) =>
                  \A j \in i .. k : Bucket(Sorted[j]) = Bucket(Sorted[i])
  <2>1. /\ Tabled /\ Ranking
        /\ \A b \in Buckets : \A x \in Slots(b) : Bucket(Sorted[x]) = b
    BY <1>1, DoneFacts
  <2>2. /\ NBuckets \in Nat /\ Total \in Nat
        /\ Items = 0 .. Total - 1 /\ Buckets = 0 .. NBuckets - 1
    BY <1>1, Layout
  <2>3. PICK b \in Buckets : i \in Slots(b)
    BY <2>1, SlotFacts
  <2>4. PICK c \in Buckets : k \in Slots(c)
    BY <2>1, SlotFacts
  <2>5. Bucket(Sorted[i]) = b /\ Bucket(Sorted[k]) = c
    BY <2>1, <2>3, <2>4
  <2>6. /\ First(b) \in 0 .. Total /\ Past(b) \in 0 .. Total
        /\ First(c) \in 0 .. Total /\ Past(c) \in 0 .. Total
    BY <2>1, SlotFacts
  <2>7. /\ i \in Nat /\ First(b) <= i /\ i < Past(b)
        /\ k \in Nat /\ First(c) <= k /\ k < Past(c)
    BY <2>3, <2>4, <2>6 DEF Slots
  <2>8. /\ RankOf(b) \in Buckets /\ AtRank(RankOf(b)) = b
        /\ RankOf(c) \in Buckets /\ AtRank(RankOf(c)) = c
    BY <2>1, RankFacts
  <2>9. RankOf(b) <= RankOf(c)
    <3>1. RankOf(c) < RankOf(b) => Past(c) <= First(b)
      BY <2>1, SlotFacts
    <3>2. ~ (Past(c) <= First(b))
      BY <1>1, <2>6, <2>7
    <3>3. RankOf(b) \in Nat /\ RankOf(c) \in Nat
      BY <2>2, <2>8
    <3> QED BY <3>1, <3>2, <3>3
  <2>10. CountOf(c) <= CountOf(b)
    BY <2>1, <2>8, <2>9, CountsDescend
  <2>11. ASSUME b = c, NEW j \in i .. k
         PROVE  Bucket(Sorted[j]) = b
    <3>1. j \in Slots(b)
      BY <2>6, <2>7, <2>11 DEF Slots
    <3> QED BY <2>1, <3>1
  <2> QED BY <2>5, <2>10, <2>11
<1>2. IInv => GroupedLargestFirst
  BY <1>1, DoneFacts DEF GroupedLargestFirst
<1> QED BY <1>2, SortInductive, PTL

============================================================================
