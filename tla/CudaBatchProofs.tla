-------------------------- MODULE CudaBatchProofs --------------------------
(***************************************************************************)
(* Proofs about module CudaBatch, for chunks, buffers and batches of any   *)
(* size, any sequence of calls and any failures of the device: a batch     *)
(* that succeeds has its answers in their places, a chunk fits its lane,   *)
(* and the streams are finished when a call returns.                       *)
(***************************************************************************)
EXTENDS CudaBatch, FiniteSetTheorems, SequenceTheorems, WellFoundedInduction,
        TLAPS

----------------------------------------------------------------------------
(* The inductive invariant.                                                *)

(* What may be queued on a stream before the work of a chunk.              *)
Setup(l) == IF l = 0 THEN {"prepare", "record", "zero"} ELSE {"wait", "zero"}
Jobs == {"prepare", "record", "wait", "zero", "in", "reset", "kernel",
         "select", "out"}

IsBuffer(b) ==
  b = [keys |-> b.keys, out |-> b.out, flags |-> b.flags, count |-> b.count,
       miss |-> b.miss]

Other(l) == 1 - l

(* The variables have their types, with those of the lanes.                *)
Typed ==
  /\ TypeOK
  /\ slot \in [AllLanes -> [begin : Nat, count : Nat, pending : BOOLEAN]]
  /\ capacity \in [AllLanes -> Nat] /\ workspace \in [AllLanes -> Nat]
  /\ host = [l \in AllLanes |-> host[l]]
  /\ device = [l \in AllLanes |-> device[l]]
  /\ \A l \in AllLanes : IsBuffer(host[l]) /\ IsBuffer(device[l])
  /\ queue \in [AllLanes -> Seq(Jobs)]
  /\ hits \in Nat /\ begin \in Nat

InLoop == {"collect", "submit", "last"}

(* A call runs; a lane that it does not use is clean, and one without a    *)
(* chunk has no more than its set-up queued.                               *)
Running ==
  /\ pc = "idle" =>
       \A l \in AllLanes : queue[l] = <<>> /\ ~ slot[l].pending
  /\ pc # "idle" =>
       /\ call \in 1 .. Len(input.calls) /\ Verdict(Call) = "RUN"
       /\ lane \in UsedLanes
       /\ Lanes = 1 => queue[1] = <<>> /\ ~ slot[1].pending
       /\ DOMAIN output = 0 .. Batch - 1
       /\ Op = "LOCATE" => hits = 0
       /\ pc # "drain" => result = "OK"
       /\ pc = "drain" => result = "ERROR"
  /\ pc \in {"streams", "reserve", "record", "wait"} =>
       /\ begin = 0 /\ hits = 0 /\ lane = 0
       /\ \A l \in AllLanes : ~ slot[l].pending
  /\ pc = "streams" => loop = 0
  /\ pc = "reserve" => loop < Lanes
  /\ pc \in {"record", "wait"} => Lanes = 2
  /\ \A l \in AllLanes :
       slot[l].pending \/ \A k \in 1 .. Len(queue[l]) : queue[l][k] \in Setup(l)

(* The first key that is not collected.                                    *)
Collected ==
  IF slot[lane].pending THEN slot[lane].begin
  ELSE IF slot[Other(lane)].pending THEN slot[Other(lane)].begin ELSE begin

(* The chunks in flight follow each other, that of the next lane first.    *)
Turns ==
  /\ pc \in InLoop =>
       /\ slot[lane].pending =>
            slot[lane].begin + slot[lane].count =
              IF slot[Other(lane)].pending THEN slot[Other(lane)].begin
              ELSE begin
       /\ slot[Other(lane)].pending =>
            slot[Other(lane)].begin + slot[Other(lane)].count = begin
  /\ pc = "submit" => ~ slot[lane].pending /\ begin < Batch
  /\ pc \in {"collect", "submit"} =>
       \/ Lanes = 1 \/ slot[Other(lane)].pending
       \/ begin = 0 /\ lane = 0 /\ ~ slot[0].pending
  /\ pc = "collect" /\ ~ slot[lane].pending => begin = lane * Capacity
  /\ pc = "last" =>
       /\ begin = Batch /\ loop <= Lanes
       /\ \A l \in AllLanes : slot[l].pending \/ queue[l] = <<>>
       /\ loop >= 1 => ~ slot[lane].pending
       /\ loop = 2 => ~ slot[Other(lane)].pending

(* The buffers and the workspace of a lane hold a chunk.                   *)
Reserved(l) ==
  /\ LayoutTotal(Op, Capacity) <= capacity[l]
  /\ Op = "TRY_FETCH" => Capacity <= workspace[l]

Roomy ==
  /\ pc = "reserve" => \A l \in AllLanes : l < loop => Reserved(l)
  /\ pc \in {"record", "wait"} \union InLoop =>
       \A l \in UsedLanes : Reserved(l)
  /\ ChunkFits

(* No kernel runs before the caller's earlier work, unless the device has  *)
(* failed.                                                                 *)
Behind ==
  ~ sick =>
    /\ ~ prepared => queue[0] # <<>> /\ queue[0][1] = "prepare"
    /\ pc \in {"wait"} \union InLoop /\ Lanes = 2 =>
         ready = "recorded" \/ (ready = "done" /\ prepared)
    /\ pc \in InLoop /\ Lanes = 2 /\ ~ prepared =>
         \E k \in 1 .. Len(queue[1]) :
           /\ queue[1][k] = "wait"
           /\ \A j \in 1 .. k - 1 : queue[1][j] \in Setup(1)

(* What is right of a chunk of n keys that begins at b.                    *)
AnswersOf(b, n) == [k \in 1 .. n |-> <<call, b + k - 1>>]
HitsIn(b, n) == {i \in 0 .. n - 1 : b + i \in input.hits}
MissedIn(b, n) == (0 .. n - 1) \ HitsIn(b, n)

(* A lane with q jobs left has done this of its chunk.                     *)
Stage(l, q) ==
  LET b == slot[l].begin
      n == slot[l].count
      d == device[l]
  IN  /\ q < Len(Work) => d.keys = host[l].keys
      /\ Op \in {"CHECK", "FETCH"} =>
           /\ q = 2 => d.count = 0
           /\ q <= 1 => d.count = Cardinality(HitsIn(b, n))
      /\ Op = "TRY_FETCH" =>
           /\ q = 2 => d.flags = MissedIn(b, n)
           /\ q <= 1 => /\ d.count = Cardinality(MissedIn(b, n))
                        /\ d.miss = Ascending(MissedIn(b, n))
      /\ q <= 1 \/ (q = 2 /\ Op = "TRY_FETCH") => d.out = AnswersOf(b, n)
      /\ q = 0 => /\ host[l].out = d.out /\ host[l].count = d.count
                  /\ host[l].miss = d.miss

(* The work of a chunk is done in order, and is what remains queued.       *)
Chained(l) ==
  LET q == Len(queue[l])
      w == Len(Work)
  IN  /\ host[l].keys = <<call, slot[l].begin, slot[l].count>>
      /\ \A i \in 1 .. w : q - w + i >= 1 => queue[l][q - w + i] = Work[i]
      /\ \A i \in 1 .. q - w : queue[l][i] \in Setup(l)
      /\ Stage(l, q)

InFlight ==
  pc \in InLoop /\ ~ sick =>
    \A l \in AllLanes : slot[l].pending => Chained(l)

(* What is collected is right.                                             *)
MissedBelow(n) == {i \in 0 .. n - 1 : i \notin input.hits}
Answers(n) ==
  /\ \A i \in 0 .. n - 1 : output[i] = <<call, i>>
  /\ Op # "LOCATE" => hits = n - Cardinality(MissedBelow(n))
  /\ Op = "TRY_FETCH" =>
       \A k \in 1 .. Cardinality(MissedBelow(n)) :
         misses[k - 1] = Ascending(MissedBelow(n))[k]

Gathered == pc \in InLoop => Answers(Collected)

IInv ==
  /\ Typed /\ Running /\ Turns /\ Roomy /\ Behind /\ InFlight /\ Gathered
  /\ AnswersInPlace

----------------------------------------------------------------------------
(* Sizes.                                                                  *)

LEMMA Factors ==
  ASSUME NEW x \in Nat, NEW y \in Nat, x <= y, NEW a \in Nat
  PROVE  x * a <= y * a /\ x * a \in Nat /\ y * a \in Nat
OBVIOUS

(* Alignment keeps the order of sizes.                                     *)
LEMMA AlignGrows ==
  ASSUME NEW x \in Nat, NEW y \in Nat, x <= y, NEW a \in Nat \ {0}
  PROVE  /\ AlignTo(x, a) \in Nat /\ AlignTo(y, a) \in Nat
         /\ AlignTo(x, a) <= AlignTo(y, a)
<1> DEFINE m == x + a - 1  n == y + a - 1
<1>1. m \in Nat /\ n \in Nat /\ m <= n
  OBVIOUS
<1> HIDE DEF m, n
<1>2. m \div a \in Nat /\ n \div a \in Nat /\ m \div a <= n \div a
  BY <1>1, SMT
<1>3. (m \div a) * a <= (n \div a) * a /\ (m \div a) * a \in Nat /\ (n \div a) * a \in Nat
  BY <1>2, Factors
<1> QED BY <1>3 DEF AlignTo, m, n

(* A smaller chunk takes no more bytes.                                    *)
LEMMA LayoutGrows ==
  ASSUME NEW op, NEW m \in Nat, NEW n \in Nat, m <= n
  PROVE  /\ LayoutTotal(op, m) \in Nat /\ LayoutTotal(op, n) \in Nat
         /\ LayoutTotal(op, m) <= LayoutTotal(op, n)
<1> DEFINE extra == IF op = "FETCH" THEN ValueLength ELSE 0
           width == CASE op = "LOCATE" -> Word [] op = "CHECK" -> 1
                      [] OTHER -> ValueLength
           flag == IF op = "TRY_FETCH" THEN Unsigned ELSE 0
           in(k) == k * KeyLength + extra
           out(k) == AlignTo(in(k), Word)
           miss(k) == AlignTo(out(k) + k * width, Unsigned)
<1>1. /\ KeyLength \in Nat \ {0} /\ Word \in Nat \ {0} /\ Unsigned \in Nat \ {0}
      /\ extra \in Nat /\ width \in Nat /\ flag \in Nat
  BY ParamAssumption
<1> HIDE DEF extra, width, flag
<1>2. in(m) \in Nat /\ in(n) \in Nat /\ in(m) <= in(n)
  <2>1. m * KeyLength <= n * KeyLength /\ m * KeyLength \in Nat /\ n * KeyLength \in Nat
    BY <1>1, Factors
  <2> QED BY <1>1, <2>1
<1> HIDE DEF in
<1>3. out(m) \in Nat /\ out(n) \in Nat /\ out(m) <= out(n)
  BY <1>1, <1>2, AlignGrows
<1> HIDE DEF out
<1>4. m * width <= n * width /\ m * width \in Nat /\ n * width \in Nat
  BY <1>1, Factors
<1>5. /\ out(m) + m * width \in Nat /\ out(n) + n * width \in Nat
      /\ out(m) + m * width <= out(n) + n * width
  BY <1>3, <1>4
<1>6. miss(m) \in Nat /\ miss(n) \in Nat /\ miss(m) <= miss(n)
  BY <1>1, <1>5, AlignGrows
<1>7. m * flag <= n * flag /\ m * flag \in Nat /\ n * flag \in Nat
  BY <1>1, Factors
<1>8. ASSUME NEW k \in Nat
      PROVE  LayoutTotal(op, k) =
               IF op = "LOCATE" THEN out(k) + k * width
               ELSE miss(k) + k * flag + Unsigned
  <2>1. k * 0 = 0
    OBVIOUS
  <2> QED BY <2>1, <1>1 DEF LayoutTotal, extra, width, flag, in, out
<1> HIDE DEF miss
<1>9. CASE op = "LOCATE"
  BY <1>5, <1>8, <1>9
<1>10. CASE op # "LOCATE"
  BY <1>1, <1>6, <1>7, <1>8, <1>10
<1> QED BY <1>9, <1>10

LEMMA GrownTypes ==
  ASSUME NEW x \in Nat, NEW y \in Nat
  PROVE  Grown(x, y) \in Nat /\ Grown(x, y) >= x /\ Grown(x, y) >= y
<1>1. y \div 2 \in Nat  OBVIOUS
<1> QED BY <1>1 DEF Grown, Max2

(* A set of natural numbers that is not empty has a least element.         *)
LEMMA Least ==
  ASSUME NEW T \in SUBSET Nat, T # {}
  PROVE  \E m \in T : \A k \in T : m <= k
<1> DEFINE R == OpToRel(<, Nat)
<1>1. IsWellFoundedOn(R, Nat)
  BY NatLessThanWellFounded
<1>2. \A k, m \in Nat : <<k, m>> \in R <=> k < m
  BY DEF OpToRel
<1> HIDE DEF R
<1>3. PICK m \in T : \A k \in T : ~ (<<k, m>> \in R)
  BY <1>1, WFMin
<1>4. ASSUME NEW k \in T
      PROVE  m <= k
  <2>1. k \in Nat /\ m \in Nat /\ ~ (<<k, m>> \in R)
    BY <1>3, <1>4
  <2>2. ~ (k < m)
    BY <1>2, <2>1
  <2> QED BY <2>1, <2>2
<1> QED BY <1>4

(* The members of a set of numbers that are below x.                       *)
Below(S, x) == {y \in S : y < x}
Rank(S, x) == Cardinality(Below(S, x))

(* One more member may be below the next number.                           *)
LEMMA RankStep ==
  ASSUME NEW S \in SUBSET Nat, IsFiniteSet(S), NEW x \in Nat
  PROVE  /\ Rank(S, x) \in Nat
         /\ Rank(S, x + 1) = IF x \in S THEN Rank(S, x) + 1 ELSE Rank(S, x)
<1>0. \A y \in S : y \in Nat /\ (y < x + 1 <=> y < x \/ y = x)
  OBVIOUS
<1>1. IsFiniteSet(Below(S, x)) /\ Rank(S, x) \in Nat
  <2>1. Below(S, x) \in SUBSET S  BY DEF Below
  <2>2. IsFiniteSet(Below(S, x))  BY <2>1, FS_Subset
  <2> QED BY <2>2, FS_CardinalityType DEF Rank
<1>2. CASE x \in S
  <2>1. Below(S, x + 1) = Below(S, x) \cup {x} /\ ~ (x \in Below(S, x))
    <3>1. \A y : y \in Below(S, x + 1) <=> y \in Below(S, x) \/ y = x
      BY <1>0, <1>2 DEF Below
    <3>2. ~ (x < x)  OBVIOUS
    <3> QED BY <3>1, <3>2, Zenon DEF Below
  <2>2. Cardinality(Below(S, x) \cup {x}) = Cardinality(Below(S, x)) + 1
    BY <1>1, <2>1, FS_AddElement
  <2> QED BY <1>1, <1>2, <2>1, <2>2 DEF Rank
<1>3. CASE ~ (x \in S)
  <2>1. Below(S, x + 1) = Below(S, x)
    BY <1>0, <1>3 DEF Below
  <2> QED BY <1>1, <1>3, <2>1 DEF Rank
<1> QED BY <1>2, <1>3

(* Of two members, the smaller has the lower rank.                         *)
LEMMA RankGrows ==
  ASSUME NEW S \in SUBSET Nat, IsFiniteSet(S), NEW x \in S, NEW z \in Nat,
         x < z
  PROVE  Rank(S, x) < Rank(S, z) /\ Rank(S, z) <= Cardinality(S)
<1>1. x \in Nat /\ Rank(S, x + 1) = Rank(S, x) + 1 /\ Rank(S, x) \in Nat
  BY RankStep
<1>2. Below(S, z) \in SUBSET S /\ Below(S, x + 1) \in SUBSET Below(S, z)
  <2>1. \A y \in S : y < x + 1 => y < z
    <3>1. \A y \in S : y \in Nat  OBVIOUS
    <3> QED BY <1>1, <3>1
  <2> QED BY <2>1 DEF Below
<1>3. IsFiniteSet(Below(S, z)) /\ Rank(S, z) <= Cardinality(S)
  BY <1>2, FS_Subset DEF Rank
<1>4. Rank(S, x + 1) <= Rank(S, z)
  BY <1>2, <1>3, FS_Subset DEF Rank
<1>5. Rank(S, z) \in Nat
  BY RankStep
<1> QED BY <1>1, <1>3, <1>4, <1>5

(* The place of a member in ascending order is given by its rank.          *)
LEMMA AscendingAt ==
  ASSUME NEW S \in SUBSET Nat, IsFiniteSet(S), NEW x \in S
  PROVE  /\ Rank(S, x) + 1 \in 1 .. Cardinality(S)
         /\ Ascending(S)[Rank(S, x) + 1] = x
<1>1. x \in Nat /\ x + 1 \in Nat /\ x < x + 1
  OBVIOUS
<1>2. Rank(S, x) \in Nat /\ Cardinality(S) \in Nat
  BY <1>1, RankStep, FS_CardinalityType
<1>3. Rank(S, x) < Rank(S, x + 1) /\ Rank(S, x + 1) <= Cardinality(S)
  BY <1>1, RankGrows
<1>4. Rank(S, x + 1) \in Nat
  BY <1>1, RankStep
<1>5. Rank(S, x) + 1 \in 1 .. Cardinality(S)
  BY <1>2, <1>3, <1>4
<1>6. ASSUME NEW z \in S, Rank(S, z) = Rank(S, x)
      PROVE  z = x
  <2>1. z \in Nat /\ Rank(S, z) \in Nat
    BY RankStep
  <2>2. ~ (z < x)
    BY <1>1, <1>2, <2>1, <1>6, RankGrows
  <2>3. ~ (x < z)
    BY <1>1, <1>2, <2>1, <1>6, RankGrows
  <2> QED BY <1>1, <2>1, <2>2, <2>3
<1> DEFINE k == Rank(S, x) + 1
<1>7. k - 1 = Rank(S, x)
  BY <1>2
<1>8. Ascending(S)[k] = CHOOSE z \in S : Cardinality(Below(S, z)) = k - 1
  BY <1>5, Zenon DEF Ascending, Below
<1>9. \A z \in S : Cardinality(Below(S, z)) = k - 1 <=> z = x
  BY <1>6, <1>7 DEF Rank
<1> HIDE DEF k
<1>10. (CHOOSE z \in S : Cardinality(Below(S, z)) = k - 1) = x
  BY <1>9
<1> QED BY <1>5, <1>8, <1>10 DEF k

(* Every place in ascending order has a member.                            *)
LEMMA AscendingHas ==
  ASSUME NEW n \in Nat, NEW S \in SUBSET (0 .. n - 1),
         NEW k \in 1 .. Cardinality(S)
  PROVE  \E x \in S : Rank(S, x) + 1 = k /\ Ascending(S)[k] = x
<1>0. \A y \in S : y \in Nat /\ y < n /\ ~ (y < 0)
  OBVIOUS
<1>1. IsFiniteSet(S) /\ S \in SUBSET Nat /\ Cardinality(S) \in Nat
  <2>1. IsFiniteSet(0 .. n - 1)
    <3>1. 0 \in Int /\ n - 1 \in Int  OBVIOUS
    <3> QED BY <3>1, FS_Interval
  <2>2. IsFiniteSet(S)
    BY <2>1, FS_Subset
  <2> QED BY <1>0, <2>2, FS_CardinalityType
<1>2. \A x \in Nat : Rank(S, x) \in Nat
  BY <1>1, RankStep
<1> DEFINE T == {x \in 0 .. n : Rank(S, x) >= k}
<1>3. T \in SUBSET Nat /\ n \in T
  <2>1. Below(S, n) = S  BY <1>0 DEF Below
  <2> QED BY <1>1, <2>1 DEF Rank
<1>4. PICK m \in T : \A z \in T : m <= z
  BY <1>3, Least
<1>5. m # 0
  <2>1. Below(S, 0) = {}  BY <1>0 DEF Below
  <2>2. Rank(S, 0) = 0  BY <2>1, FS_EmptySet DEF Rank
  <2> QED BY <1>4, <2>2
<1>6. /\ m - 1 \in Nat /\ m - 1 \in 0 .. n /\ (m - 1) + 1 = m
      /\ Rank(S, m) >= k /\ m \in Nat
  BY <1>4, <1>5
<1>7. ~ (m - 1 \in T)
  BY <1>4, <1>6
<1>8. Rank(S, m - 1) < k
  BY <1>1, <1>2, <1>6, <1>7
<1>9. Rank(S, m) = IF m - 1 \in S THEN Rank(S, m - 1) + 1 ELSE Rank(S, m - 1)
  <2>1. \A x \in Nat : Rank(S, x + 1) = IF x \in S THEN Rank(S, x) + 1
                                        ELSE Rank(S, x)
    BY <1>1, RankStep
  <2> QED BY <1>6, <2>1, Zenon
<1>10. m - 1 \in S /\ Rank(S, m - 1) + 1 = k
  BY <1>1, <1>2, <1>6, <1>8, <1>9
<1> QED BY <1>1, <1>10, AscendingAt

(* The members of T, c further.                                            *)
Shifted(T, c, n) == {x \in c .. c + n - 1 : x - c \in T}

LEMMA ShiftedSize ==
  ASSUME NEW n \in Nat, NEW c \in Nat, NEW T \in SUBSET (0 .. n - 1)
  PROVE  /\ IsFiniteSet(T) /\ IsFiniteSet(Shifted(T, c, n))
         /\ Cardinality(Shifted(T, c, n)) = Cardinality(T)
<1>1. IsFiniteSet(T)
  <2>1. IsFiniteSet(0 .. n - 1)
    <3>1. 0 \in Int /\ n - 1 \in Int  OBVIOUS
    <3> QED BY <3>1, FS_Interval
  <2> QED BY <2>1, FS_Subset
<1> DEFINE W == Shifted(T, c, n)  f == [t \in T |-> t + c]
<1>2. f \in [T -> W]
  BY DEF Shifted
<1>3. \A t, u \in T : f[t] = f[u] => t = u
  OBVIOUS
<1>4. \A x \in W : x - c \in T /\ f[x - c] = x
  BY DEF Shifted
<1> HIDE DEF f, W
<1>5. f \in Bijection(T, W)
  BY <1>2, <1>3, <1>4 DEF Bijection, Injection, Surjection, IsInjective
<1>6. ExistsBijection(T, W)
  BY <1>5 DEF ExistsBijection
<1> QED BY <1>1, <1>6, FS_Bijection DEF W

(* The order of a set with another one after it.                           *)
LEMMA AscendingAfter ==
  ASSUME NEW c \in Nat, NEW n \in Nat, NEW S \in SUBSET (0 .. c - 1),
         NEW T \in SUBSET (0 .. n - 1)
  PROVE  LET U == S \cup Shifted(T, c, n)
         IN  /\ Cardinality(S) \in Nat /\ Cardinality(T) \in Nat
             /\ Cardinality(U) = Cardinality(S) + Cardinality(T)
             /\ \A k \in 1 .. Cardinality(S) : Ascending(U)[k] = Ascending(S)[k]
             /\ \A k \in 1 .. Cardinality(T) :
                  Ascending(U)[Cardinality(S) + k] = c + Ascending(T)[k]
<1> DEFINE W == Shifted(T, c, n)  U == S \cup W
<1>1. /\ IsFiniteSet(S) /\ IsFiniteSet(T) /\ IsFiniteSet(W)
      /\ Cardinality(W) = Cardinality(T)
      /\ Cardinality(S) \in Nat /\ Cardinality(T) \in Nat
  BY ShiftedSize, FS_Interval, FS_Subset, FS_CardinalityType
<1>3. /\ \A s \in S : s \in Nat /\ s < c
      /\ \A w \in W : w \in Nat /\ w >= c /\ w - c \in T
      /\ \A t \in T : t \in Nat /\ t \in 0 .. n - 1 /\ t + c \in W /\ c + t \in W
  BY DEF Shifted
<1>2. /\ S \in SUBSET Nat /\ T \in SUBSET Nat /\ W \in SUBSET Nat
      /\ U \in SUBSET Nat /\ S \cap W = {}
  <2> HIDE DEF W
  <2>1. \A x \in S \cap W : FALSE  BY <1>3
  <2> QED BY <1>3, <2>1
<1>4. IsFiniteSet(U) /\ Cardinality(U) = Cardinality(S) + Cardinality(T)
  <2> HIDE DEF W
  <2>1. /\ IsFiniteSet(S \cup W)
        /\ Cardinality(S \cup W) =
             Cardinality(S) + Cardinality(W) - Cardinality(S \cap W)
    BY <1>1, FS_Union
  <2>2. Cardinality(S \cap W) = 0
    BY <1>2, FS_EmptySet
  <2> QED BY <1>1, <2>1, <2>2
<1>5. ASSUME NEW k \in 1 .. Cardinality(S)
      PROVE  Ascending(U)[k] = Ascending(S)[k]
  <2>1. PICK x \in S : Rank(S, x) + 1 = k /\ Ascending(S)[k] = x
    BY AscendingHas
  <2>2. Below(U, x) = Below(S, x)
    <3> HIDE DEF W
    <3>1. \A y \in W : ~ (y < x)  BY <1>3
    <3> QED BY <3>1, Zenon DEF Below
  <2>3. x \in U /\ Rank(U, x) + 1 = k
    BY <2>1, <2>2 DEF Rank
  <2> HIDE DEF U
  <2> QED BY <1>2, <1>4, <2>1, <2>3, AscendingAt
<1>6. ASSUME NEW k \in 1 .. Cardinality(T)
      PROVE  Ascending(U)[Cardinality(S) + k] = c + Ascending(T)[k]
  <2>1. PICK x \in T : Rank(T, x) + 1 = k /\ Ascending(T)[k] = x
    BY AscendingHas
  <2>2. x \in Nat /\ x \in 0 .. n - 1 /\ c + x \in U /\ Rank(T, x) \in Nat
    BY <1>1, <1>2, <1>3, <2>1, RankStep
  <2> DEFINE V == Shifted(Below(T, x), c, n)
  <2>3. Below(U, c + x) = S \cup V /\ S \cap V = {}
    <3>1. \A s \in S : s < c + x
      BY <1>3, <2>2
    <3>2. ASSUME NEW y
          PROVE  y \in V <=> y \in W /\ y < c + x
      <4>1. CASE y \in c .. c + n - 1
        <5>1. y - c < x <=> y < c + x
          BY <2>2, <4>1
        <5> QED BY <4>1, <5>1, Zenon DEF Shifted, Below
      <4>2. CASE ~ (y \in c .. c + n - 1)
        BY <4>2, Zenon DEF Shifted
      <4> QED BY <4>1, <4>2
    <3> HIDE DEF V, W
    <3>3. Below(U, c + x) = S \cup V
      BY <3>1, <3>2, Zenon DEF Below
    <3>4. \A y : ~ (y \in S /\ y \in V)
      BY <1>2, <3>2, Zenon
    <3> QED BY <3>3, <3>4
  <2>4. IsFiniteSet(V) /\ Cardinality(V) = Rank(T, x)
    <3>1. Below(T, x) \in SUBSET (0 .. n - 1)  BY DEF Below
    <3> QED BY <3>1, ShiftedSize DEF Rank
  <2>5. Rank(U, c + x) = Cardinality(S) + Rank(T, x)
    <3> HIDE DEF V
    <3>1. Cardinality(S \cup V) =
             Cardinality(S) + Cardinality(V) - Cardinality(S \cap V)
      BY <1>1, <2>4, FS_Union
    <3>2. Cardinality(S \cap V) = 0
      BY <2>3, FS_EmptySet
    <3>3. Rank(U, c + x) = Cardinality(S \cup V)
      BY <2>3, Zenon DEF Rank
    <3> QED BY <1>1, <2>2, <2>4, <3>1, <3>2, <3>3
  <2>6. Rank(U, c + x) + 1 = Cardinality(S) + k
    BY <1>1, <2>1, <2>2, <2>5
  <2> HIDE DEF U
  <2>7. Ascending(U)[Cardinality(S) + k] = c + x
    BY <1>2, <1>4, <2>2, <2>6, AscendingAt
  <2> QED BY <2>1, <2>7
<1> QED BY <1>1, <1>4, <1>5, <1>6

----------------------------------------------------------------------------
(* The running call.                                                       *)

LEMMA ParamTypes ==
  /\ MaxChunk \in Nat \ {0} /\ MinChunk \in Nat \ {0}
  /\ KeyLength \in Nat \ {0} /\ ValueLength \in Nat \ {0}
  /\ Word \in Nat \ {0} /\ Unsigned \in Nat \ {0} /\ PipelineBytes \in Nat
<1>1. \A x \in {MaxChunk, MinChunk, KeyLength, ValueLength, Word, Unsigned} :
        x \in Nat \ {0}
  BY ParamAssumption, Zenon
<1>2. PipelineBytes \in Nat
  BY ParamAssumption, Zenon
<1> QED BY <1>1, <1>2, Zenon

(* A call has the record of its operation.                                 *)
LEMMA CallTypes ==
  ASSUME input \in Inputs, NEW c \in 1 .. Len(input.calls)
  PROVE  /\ input.calls[c].op \in Ops /\ input.calls[c].batch \in Nat
         /\ input.calls[c].null \in BOOLEAN
         /\ Len(input.calls) \in Nat /\ input.hits \subseteq Nat
<1>1. /\ input.calls \in Seq([op : Ops, batch : Nat, null : BOOLEAN])
      /\ input.hits \subseteq Nat
  BY InputAssumption DEF IsInput
<1>2. input.calls[c] \in [op : Ops, batch : Nat, null : BOOLEAN]
  BY <1>1, ElementOfSeq
<1> QED BY <1>1, <1>2

(* A call that runs has keys, a chunk, one lane or two, and room in a lane *)
(* for some keys of the batch.                                             *)
CallRuns ==
  input \in Inputs /\ call \in 1 .. Len(input.calls) /\ Verdict(Call) = "RUN"

LEMMA CallFacts ==
  CallRuns =>
    /\ Op \in Ops /\ Batch \in Nat \ {0} /\ Chunk \in Nat \ {0}
    /\ Lanes = 1 \/ Lanes = 2
    /\ Lanes = 1 => Capacity = Batch
    /\ Lanes = 2 => Capacity = Chunk /\ Batch >= 2 * Chunk
    /\ Capacity \in 1 .. Batch
<1> SUFFICES ASSUME CallRuns
             PROVE  /\ Op \in Ops /\ Batch \in Nat \ {0} /\ Chunk \in Nat \ {0}
                    /\ Lanes = 1 \/ Lanes = 2
                    /\ Lanes = 1 => Capacity = Batch
                    /\ Lanes = 2 => Capacity = Chunk /\ Batch >= 2 * Chunk
                    /\ Capacity \in 1 .. Batch
  OBVIOUS
<1>0. input \in Inputs /\ call \in 1 .. Len(input.calls) /\ Verdict(Call) = "RUN"
  BY DEF CallRuns
<1>1. Op \in Ops /\ Batch \in Nat
  BY <1>0, CallTypes DEF Op, Batch, Call
<1>2. Batch # 0
  <2>1. Verdict(Call) = "RUN" => Call.batch # 0
    BY Zenon DEF Verdict
  <2> QED BY <1>0, <2>1 DEF Batch
<1>3. Chunk \in Nat \ {0}
  <2> DEFINE width == KeyLength + (CASE Op = "LOCATE" -> Word
                                     [] Op = "CHECK" -> 1
                                     [] OTHER -> ValueLength + Unsigned)
  <2> DEFINE more == CASE Op = "LOCATE" -> Word [] Op = "CHECK" -> 1
                       [] OTHER -> ValueLength + Unsigned
  <2>1. width \in Nat \ {0}
    <3>1. more \in Nat
      BY ParamTypes
    <3>2. width = KeyLength + more
      OBVIOUS
    <3> HIDE DEF more, width
    <3> QED BY <3>1, <3>2, ParamTypes
  <2> HIDE DEF width
  <2>2. PipelineBytes \div width \in Nat
    BY <2>1, ParamTypes
  <2>3. Chunk = Min2(MaxChunk, Max2(MinChunk, PipelineBytes \div width))
    BY DEF Chunk, width
  <2> HIDE DEF Chunk
  <2> QED BY <2>2, <2>3, ParamTypes DEF Min2, Max2
<1>4. Lanes = 1 \/ Lanes = 2
  BY DEF Lanes
<1>5. Lanes = 2 => Batch >= 2 * Chunk
  BY DEF Lanes
<1>6. Capacity = IF Lanes = 1 THEN Batch ELSE Chunk
  BY DEF Capacity
<1>7. Capacity \in 1 .. Batch
  <2>1. CASE Lanes = 1
    BY <1>1, <1>2, <1>6, <2>1
  <2>2. CASE Lanes = 2
    BY <1>1, <1>2, <1>3, <1>5, <1>6, <2>2
  <2> QED BY <1>4, <2>1, <2>2
<1> QED BY <1>1, <1>2, <1>3, <1>4, <1>5, <1>6, <1>7

(* The work of a chunk ends with the answers.                              *)
LEMMA WorkFacts ==
  ASSUME Op \in Ops
  PROVE  /\ Work \in Seq(Jobs)
         /\ Op = "LOCATE" => /\ Len(Work) = 3 /\ Work[1] = "in"
                             /\ Work[2] = "kernel" /\ Work[3] = "out"
         /\ Op \in {"CHECK", "FETCH"} =>
              /\ Len(Work) = 4 /\ Work[1] = "in" /\ Work[2] = "reset"
              /\ Work[3] = "kernel" /\ Work[4] = "out"
         /\ Op = "TRY_FETCH" =>
              /\ Len(Work) = 4 /\ Work[1] = "in" /\ Work[2] = "kernel"
              /\ Work[3] = "select" /\ Work[4] = "out"
<1>1. CASE Op = "LOCATE"
  <2>1. Work = <<"in", "kernel", "out">>  BY <1>1 DEF Work
  <2> QED BY <1>1, <2>1 DEF Jobs
<1>2. CASE Op \in {"CHECK", "FETCH"}
  <2>1. Work = <<"in", "reset", "kernel", "out">>  BY <1>2 DEF Work
  <2> QED BY <1>2, <2>1 DEF Jobs
<1>3. CASE Op = "TRY_FETCH"
  <2>1. Work = <<"in", "kernel", "select", "out">>  BY <1>3 DEF Work
  <2> QED BY <1>3, <2>1 DEF Jobs
<1> QED BY <1>1, <1>2, <1>3 DEF Ops

(* During a call, what depends on the call alone stays.                    *)
LEMMA SameCall ==
  ASSUME input' = input, call' = call
  PROVE  /\ Call' = Call /\ Op' = Op /\ Batch' = Batch /\ Chunk' = Chunk
         /\ Lanes' = Lanes /\ Capacity' = Capacity /\ Work' = Work
         /\ UsedLanes' = UsedLanes /\ Verdict(Call)' = Verdict(Call)
         /\ \A n : MissedBelow(n)' = MissedBelow(n)
<1>1. Call' = Call /\ Op' = Op /\ Batch' = Batch
  BY DEF Op, Batch, Call
<1>2. Chunk' = Chunk
  BY <1>1 DEF Chunk
<1>3. Lanes' = Lanes
  BY <1>1, <1>2 DEF Lanes
<1> QED BY <1>1, <1>2, <1>3 DEF Capacity, Work, UsedLanes, Verdict,
                               MissedBelow

----------------------------------------------------------------------------
(* The initial states.                                                     *)

LEMMA InitInv == Init => IInv
<1> SUFFICES ASSUME Init PROVE IInv
  OBVIOUS
<1> DEFINE S0 == [begin |-> 0, count |-> 0, pending |-> FALSE]
<1>1. /\ input \in Inputs /\ call = 0 /\ pc = "idle"
      /\ result = "OK" /\ status = "OK" /\ returned = 0
      /\ auxiliary = FALSE /\ ready = "none"
      /\ begin = 0 /\ hits = 0 /\ lane = 0 /\ loop = 0
      /\ slot = [l \in AllLanes |-> S0]
      /\ capacity = [l \in AllLanes |-> 0]
      /\ workspace = [l \in AllLanes |-> 0]
      /\ host = [l \in AllLanes |-> Blank]
      /\ device = [l \in AllLanes |-> Blank]
      /\ queue = [l \in AllLanes |-> <<>>]
      /\ prepared = TRUE /\ sick = FALSE
      /\ output = <<>> /\ misses = <<>>
  BY DEF Init
<1>2. S0 \in [begin : Nat, count : Nat, pending : BOOLEAN] /\ ~ S0.pending
  OBVIOUS
<1>3. IsBuffer(Blank)
  BY DEF IsBuffer, Blank
<1>4. \A l \in AllLanes :
        /\ queue[l] = <<>> /\ slot[l] = S0
        /\ host[l] = Blank /\ device[l] = Blank
  BY <1>1
<1>5. Len(input.calls) \in Nat
  <2>1. input.calls \in Seq([op : Ops, batch : Nat, null : BOOLEAN])
    BY <1>1, InputAssumption DEF IsInput
  <2> QED BY <2>1, LenProperties
<1> HIDE DEF S0
<1>6. TypeOK
  <2>1. auxiliary \in BOOLEAN /\ prepared \in BOOLEAN /\ sick \in BOOLEAN
    BY <1>1
  <2>2. lane \in AllLanes /\ loop \in 0 .. 2 /\ call \in 0 .. Len(input.calls)
    BY <1>1, <1>5 DEF AllLanes
  <2>3. \A l \in AllLanes : capacity[l] \in Nat /\ workspace[l] \in Nat
    BY <1>1
  <2>4. DOMAIN misses = DOMAIN output
    BY <1>1
  <2>5. /\ pc \in {"idle", "streams", "reserve", "record", "wait", "collect",
                   "submit", "last", "drain"}
        /\ result \in {"OK", "ERROR"}
        /\ status \in {"OK", "ERROR", "UNSUPPORTED_TYPE", "INVALID_ARGUMENT"}
        /\ ready \in {"none", "created", "recorded", "done"}
    BY <1>1
  <2> QED BY <1>1, <2>1, <2>2, <2>3, <2>4, <2>5 DEF TypeOK
<1>7. Typed
  <2>1. slot \in [AllLanes -> [begin : Nat, count : Nat, pending : BOOLEAN]]
    BY <1>1, <1>2
  <2>2. /\ capacity \in [AllLanes -> Nat] /\ workspace \in [AllLanes -> Nat]
        /\ queue \in [AllLanes -> Seq(Jobs)]
    BY <1>1, EmptySeq
  <2>3. /\ host = [l \in AllLanes |-> host[l]]
        /\ device = [l \in AllLanes |-> device[l]]
    BY <1>1, <1>4
  <2> QED BY <1>1, <1>3, <1>4, <1>6, <2>1, <2>2, <2>3 DEF Typed
<1>8. \A l \in AllLanes : ~ slot[l].pending
  BY <1>2, <1>4
<1>9. Len(<<>>) = 0
  BY EmptySeq
<1>10. Running
  BY <1>1, <1>4, <1>8, <1>9 DEF Running
<1>11. Turns /\ Gathered /\ InFlight
  BY <1>1 DEF Turns, Gathered, InFlight, InLoop
<1>12. Roomy
  BY <1>1, <1>8 DEF Roomy, ChunkFits, InLoop
<1>13. Behind
  BY <1>1 DEF Behind, InLoop
<1>14. AnswersInPlace
  BY <1>1 DEF AnswersInPlace, Answered
<1> QED BY <1>7, <1>10, <1>11, <1>12, <1>13, <1>14 DEF IInv

----------------------------------------------------------------------------
(* The entry points.                                                       *)

(* Between calls, nothing is in flight.                                    *)
LEMMA IdleFacts ==
  ASSUME IInv, pc = "idle"
  PROVE  \A l \in AllLanes : queue[l] = <<>> /\ ~ slot[l].pending
BY DEF IInv, Running

LEMMA RefuseStep == IInv /\ Refuse => IInv'
<1> SUFFICES ASSUME IInv, Refuse PROVE IInv'
  OBVIOUS
<1> USE DEF callVars, loopVars, laneVars, gpuVars, outVars
<1>1. /\ pc = "idle" /\ pc' = "idle" /\ call < Len(input.calls)
      /\ call' = call + 1 /\ returned' = 0
      /\ status' = Verdict(input.calls[call + 1]) /\ status' # "RUN"
      /\ UNCHANGED <<input, result, auxiliary, ready, begin, hits, lane, loop,
                     slot, capacity, workspace, host, device, queue, prepared,
                     sick, output, misses>>
  BY DEF Refuse
<1>2. Typed /\ TypeOK /\ call \in 0 .. Len(input.calls) /\ Len(input.calls) \in Nat
  <2>1. Typed /\ TypeOK
    BY DEF IInv, Typed
  <2>2. input.calls \in Seq([op : Ops, batch : Nat, null : BOOLEAN])
    BY <2>1, InputAssumption DEF IsInput, TypeOK
  <2> QED BY <2>1, <2>2, LenProperties DEF TypeOK
<1>3. \A l \in AllLanes : queue'[l] = <<>> /\ ~ slot'[l].pending
  BY <1>1, IdleFacts
<1>4. call' \in 0 .. Len(input'.calls)
  BY <1>1, <1>2
<1>5. status' \in {"OK", "ERROR", "UNSUPPORTED_TYPE", "INVALID_ARGUMENT"}
  BY <1>1 DEF Verdict
<1>6. Typed'
  BY <1>1, <1>2, <1>4, <1>5 DEF Typed, TypeOK, IsBuffer
<1>7. Len(<<>>) = 0
  BY EmptySeq
<1>8. Running'
  BY <1>1, <1>3, <1>7 DEF Running
<1>9. Turns' /\ Gathered' /\ InFlight'
  BY <1>1 DEF Turns, Gathered, InFlight, InLoop
<1>10. Roomy'
  BY <1>1, <1>3 DEF Roomy, ChunkFits, InLoop
<1>11. Behind'
  BY <1>1 DEF Behind, InLoop, IInv
<1>12. AnswersInPlace'
  <2>1. Verdict(Call)' = Verdict(input.calls[call + 1])
    BY <1>1 DEF Call, Verdict
  <2> QED BY <1>1, <2>1 DEF AnswersInPlace, Answered
<1> QED BY <1>6, <1>8, <1>9, <1>10, <1>11, <1>12 DEF IInv

LEMMA StartStep == IInv /\ Start => IInv'
<1> SUFFICES ASSUME IInv, Start PROVE IInv'
  OBVIOUS
<1> USE DEF callVars, loopVars, laneVars, gpuVars, outVars
<1> DEFINE c == input.calls[call + 1]
<1>1. /\ pc = "idle" /\ pc' = "streams" /\ call < Len(input.calls)
      /\ Verdict(c) = "RUN"
      /\ output' = [i \in 0 .. c.batch - 1 |-> None]
      /\ misses' = [i \in 0 .. c.batch - 1 |-> -1]
      /\ call' = call + 1 /\ result' = "OK"
      /\ begin' = 0 /\ hits' = 0 /\ lane' = 0 /\ loop' = 0
      /\ UNCHANGED <<input, status, returned, auxiliary, ready,
                     slot, capacity, workspace, host, device, sick>>
      /\ \/ UNCHANGED <<queue, prepared>>
         \/ /\ queue' = [queue EXCEPT ![0] = Append(@, "prepare")]
            /\ prepared' = FALSE
  BY DEF Start
<1>2. Typed /\ TypeOK /\ call \in 0 .. Len(input.calls) /\ Len(input.calls) \in Nat
  <2>1. Typed /\ TypeOK
    BY DEF IInv, Typed
  <2>2. input.calls \in Seq([op : Ops, batch : Nat, null : BOOLEAN])
    BY <2>1, InputAssumption DEF IsInput, TypeOK
  <2> QED BY <2>1, <2>2, LenProperties DEF TypeOK
<1>3. \A l \in AllLanes : queue[l] = <<>> /\ ~ slot'[l].pending
  BY <1>1, IdleFacts
<1>4. call' \in 1 .. Len(input'.calls) /\ Call' = c /\ Verdict(Call)' = "RUN"
  BY <1>1, <1>2 DEF Call, Verdict
<1>5. /\ Batch' = c.batch /\ Batch' \in Nat \ {0} /\ Lanes' \in {1, 2}
      /\ Capacity' \in 1 .. Batch'
  <2>1. CallRuns'
    BY <1>1, <1>2, <1>4 DEF TypeOK, CallRuns
  <2>2. (/\ Op \in Ops /\ Batch \in Nat \ {0} /\ Chunk \in Nat \ {0}
         /\ Lanes = 1 \/ Lanes = 2
         /\ Lanes = 1 => Capacity = Batch
         /\ Lanes = 2 => Capacity = Chunk /\ Batch >= 2 * Chunk
         /\ Capacity \in 1 .. Batch)'
    BY <2>1, CallFacts, PTL
  <2>3. Batch' = c.batch
    BY <1>4 DEF Batch
  <2> QED BY <2>2, <2>3
<1>6. queue'[1] = <<>> /\ queue'[0] \in {<<>>, <<"prepare">>}
  <2>1. queue[0] = <<>> /\ queue[1] = <<>> /\ queue \in [AllLanes -> Seq(Jobs)]
    BY <1>2, <1>3 DEF AllLanes, Typed
  <2> QED BY <1>1, <2>1 DEF AllLanes
<1>7. queue' \in [AllLanes -> Seq(Jobs)]
  <2>1. "prepare" \in Jobs
    BY DEF Jobs
  <2>2. queue \in [AllLanes -> Seq(Jobs)]
    BY <1>2 DEF Typed
  <2>3. queue[0] \in Seq(Jobs)
    BY <2>2 DEF AllLanes
  <2>4. Append(queue[0], "prepare") \in Seq(Jobs)
    BY <2>1, <2>3, AppendProperties
  <2> QED BY <1>1, <2>2, <2>4
<1>8. prepared' \in BOOLEAN /\ DOMAIN misses' = DOMAIN output'
  BY <1>1, <1>2 DEF TypeOK
<1>9. Typed'
  <2>1. begin' \in 0 .. Batch' /\ hits' \in 0 .. begin' /\ lane' \in AllLanes
        /\ loop' \in 0 .. 2 /\ begin' \in Nat /\ hits' \in Nat
    BY <1>1, <1>5 DEF AllLanes
  <2>2. TypeOK'
    BY <1>1, <1>2, <1>4, <1>8, <2>1 DEF TypeOK
  <2>3. UNCHANGED <<slot, capacity, workspace, host, device>>
    BY <1>1
  <2>4. Typed
    BY <1>2
  <2>5. /\ host' = [l \in AllLanes |-> host'[l]]
        /\ device' = [l \in AllLanes |-> device'[l]]
        /\ \A l \in AllLanes : IsBuffer(host'[l]) /\ IsBuffer(device'[l])
    BY <2>3, <2>4 DEF Typed
  <2> QED BY <1>7, <2>1, <2>2, <2>3, <2>4, <2>5 DEF Typed
<1>10. Running'
  <2>1. \A l \in AllLanes :
          \A k \in 1 .. Len(queue'[l]) : queue'[l][k] \in Setup(l)
    <3>1. CASE queue'[0] = <<>>
      BY <1>6, <3>1, EmptySeq DEF AllLanes
    <3>2. CASE queue'[0] = <<"prepare">>
      BY <1>6, <3>2, EmptySeq DEF AllLanes, Setup
    <3> QED BY <1>6, <3>1, <3>2
  <2>2. lane' \in UsedLanes'
    <3>1. lane' = 0 /\ (Lanes' = 1 \/ Lanes' = 2)
      BY <1>1, <1>5
    <3>2. 0 \in 0 .. Lanes' - 1
      BY <3>1
    <3> QED BY <3>1, <3>2 DEF UsedLanes
  <2>3. DOMAIN output' = 0 .. Batch' - 1
    BY <1>1, <1>5
  <2> QED BY <1>1, <1>3, <1>4, <1>6, <2>1, <2>2, <2>3 DEF Running, AllLanes
<1>11. Turns' /\ Gathered' /\ InFlight'
  BY <1>1 DEF Turns, Gathered, InFlight, InLoop
<1>12. Roomy'
  BY <1>1, <1>3 DEF Roomy, ChunkFits, InLoop
<1>13. Behind'
  <2>1. ~ sick' /\ ~ prepared' => queue'[0] # <<>> /\ queue'[0][1] = "prepare"
    <3>1. ~ sick => prepared
      BY <1>3 DEF IInv, Behind, AllLanes
    <3>2. queue[0] = <<>> /\ queue \in [AllLanes -> Seq(Jobs)]
      BY <1>2, <1>3 DEF Typed, AllLanes
    <3>3. CASE UNCHANGED <<queue, prepared>>
      BY <1>1, <3>1, <3>3
    <3>4. CASE /\ queue' = [queue EXCEPT ![0] = Append(@, "prepare")]
               /\ prepared' = FALSE
      <4>1. queue'[0] = <<"prepare">>
        BY <3>2, <3>4 DEF AllLanes
      <4> QED BY <4>1
    <3> QED BY <1>1, <3>3, <3>4
  <2> QED BY <1>1, <2>1 DEF Behind, InLoop
<1>14. AnswersInPlace'
  BY <1>1 DEF AnswersInPlace, Answered
<1> QED BY <1>9, <1>10, <1>11, <1>12, <1>13, <1>14 DEF IInv

----------------------------------------------------------------------------
(* The streams and the buffers of a call.                                  *)

(* What holds in every step of a call.                                     *)
LEMMA InCall ==
  ASSUME IInv, pc # "idle"
  PROVE  /\ Typed /\ TypeOK /\ CallRuns
         /\ Op \in Ops /\ Batch \in Nat \ {0} /\ Chunk \in Nat \ {0}
         /\ Lanes = 1 \/ Lanes = 2
         /\ Lanes = 1 => Capacity = Batch
         /\ Lanes = 2 => Capacity = Chunk /\ Batch >= 2 * Chunk
         /\ Capacity \in 1 .. Batch /\ Capacity \in Nat
         /\ lane \in 0 .. Lanes - 1
         /\ \A l \in UsedLanes : l \in AllLanes /\ l < Lanes
<1>1. Typed /\ TypeOK /\ lane \in UsedLanes
  BY DEF IInv, Typed, Running
<1>2. CallRuns
  BY <1>1 DEF CallRuns, IInv, Running, TypeOK
<1>3. /\ Op \in Ops /\ Batch \in Nat \ {0} /\ Chunk \in Nat \ {0}
      /\ Lanes = 1 \/ Lanes = 2
      /\ Lanes = 1 => Capacity = Batch
      /\ Lanes = 2 => Capacity = Chunk /\ Batch >= 2 * Chunk
      /\ Capacity \in 1 .. Batch
  BY <1>2, CallFacts
<1> QED BY <1>1, <1>2, <1>3 DEF UsedLanes, AllLanes

LEMMA CreateStreamsStep == IInv /\ CreateStreams => IInv'
<1> SUFFICES ASSUME IInv, CreateStreams PROVE IInv'
  OBVIOUS
<1> USE DEF callVars, loopVars, laneVars, gpuVars, outVars
<1>1. /\ pc = "streams"
      /\ \/ pc' = "reserve" /\ result' = result
         \/ pc' = "drain" /\ result' = "ERROR"
      /\ UNCHANGED <<input, call, status, returned, begin, hits, lane, loop,
                     slot, capacity, workspace, host, device, queue, prepared,
                     sick, output, misses>>
  BY DEF CreateStreams, Go, Fail
<1>2. /\ auxiliary' \in BOOLEAN
      /\ ready' \in {"none", "created", "recorded", "done"}
  <2>1. /\ auxiliary \in BOOLEAN
        /\ ready \in {"none", "created", "recorded", "done"}
    BY DEF IInv, Typed, TypeOK
  <2> QED BY <2>1 DEF CreateStreams
<1>3. Typed /\ TypeOK /\ (Lanes = 1 \/ Lanes = 2)
  BY <1>1, InCall
<1>4. /\ Call' = Call /\ Op' = Op /\ Batch' = Batch /\ Lanes' = Lanes
      /\ UsedLanes' = UsedLanes /\ Verdict(Call)' = Verdict(Call)
  BY <1>1, SameCall
<1>5. Typed'
  BY <1>1, <1>2, <1>3, <1>4 DEF Typed, TypeOK, IsBuffer
<1>6. Running /\ Running'
  <2>1. Running
    BY DEF IInv
  <2>2. loop' < Lanes'
    BY <1>1, <1>3, <1>4, <2>1 DEF Running
  <2> QED BY <1>1, <1>4, <2>1, <2>2 DEF Running
<1>7. Turns' /\ Gathered' /\ InFlight'
  BY <1>1 DEF Turns, Gathered, InFlight, InLoop
<1>8. loop' = 0 /\ \A l \in AllLanes : ~ slot'[l].pending
  BY <1>1, <1>6 DEF Running
<1>9. Roomy'
  BY <1>1, <1>8 DEF Roomy, ChunkFits, InLoop, AllLanes
<1>10. Behind'
  BY <1>1 DEF Behind, InLoop, IInv
<1>11. AnswersInPlace'
  BY <1>1 DEF AnswersInPlace, Answered
<1> QED BY <1>5, <1>6, <1>7, <1>9, <1>10, <1>11 DEF IInv

(* Of no keys, the answers are right.                                      *)
LEMMA NothingYet == hits = 0 => Answers(0)
<1>1. MissedBelow(0) = {} /\ Cardinality({}) = 0
  BY FS_EmptySet DEF MissedBelow
<1> QED BY <1>1 DEF Answers

(* A larger buffer, or the same.                                           *)
Enlarged ==
  LET need == LayoutTotal(Op, Capacity)
      short == need > capacity[loop]
  IN  /\ capacity' = [capacity EXCEPT
                        ![loop] = IF short THEN Grown(need, @) ELSE @]
      /\ IF short
         THEN /\ host' = [host EXCEPT ![loop] = Blank]
              /\ device' = [device EXCEPT ![loop] = Blank]
              /\ queue' = [queue EXCEPT ![loop] = Append(@, "zero")]
         ELSE UNCHANGED <<host, device, queue>>

(* What holds whether or not the buffer of the lane had to grow.           *)
LEMMA EnlargedFacts ==
  ASSUME IInv, pc = "reserve",
         Enlarged \/ UNCHANGED <<capacity, host, device, queue>>
  PROVE  /\ loop \in AllLanes
         /\ capacity' \in [AllLanes -> Nat]
         /\ \A l \in AllLanes : capacity'[l] >= capacity[l]
         /\ Enlarged => capacity'[loop] >= LayoutTotal(Op, Capacity)
         /\ host' = [l \in AllLanes |-> host'[l]]
         /\ device' = [l \in AllLanes |-> device'[l]]
         /\ \A l \in AllLanes : IsBuffer(host'[l]) /\ IsBuffer(device'[l])
         /\ queue' \in [AllLanes -> Seq(Jobs)]
         /\ \A l \in AllLanes : l # loop => queue'[l] = queue[l]
         /\ \A l \in AllLanes :
              \A k \in 1 .. Len(queue'[l]) : queue'[l][k] \in Setup(l)
         /\ (queue[0] # <<>> /\ queue[0][1] = "prepare") =>
              queue'[0] # <<>> /\ queue'[0][1] = "prepare"
<1>1. /\ Typed /\ TypeOK /\ Running /\ (Lanes = 1 \/ Lanes = 2)
      /\ Capacity \in Nat
  BY InCall DEF IInv
<1>2. loop \in AllLanes
  BY <1>1 DEF Running, TypeOK, AllLanes
<1>3. /\ capacity \in [AllLanes -> Nat] /\ queue \in [AllLanes -> Seq(Jobs)]
      /\ host = [l \in AllLanes |-> host[l]]
      /\ device = [l \in AllLanes |-> device[l]]
      /\ \A l \in AllLanes : IsBuffer(host[l]) /\ IsBuffer(device[l])
      /\ \A l \in AllLanes :
           \A k \in 1 .. Len(queue[l]) : queue[l][k] \in Setup(l)
  BY <1>1 DEF Typed, Running
<1>4. CASE UNCHANGED <<capacity, host, device, queue>> /\ ~ Enlarged
  <2>1. \A l \in AllLanes : capacity[l] \in Nat
    BY <1>3
  <2> QED BY <1>2, <1>3, <1>4, <2>1 DEF IsBuffer
<1>5. CASE Enlarged
  <2> DEFINE need == LayoutTotal(Op, Capacity)  short == need > capacity[loop]
  <2>1. need \in Nat /\ capacity[loop] \in Nat
    BY <1>1, <1>2, <1>3, LayoutGrows
  <2>2. /\ capacity' = [capacity EXCEPT
                          ![loop] = IF short THEN Grown(need, @) ELSE @]
        /\ short => /\ host' = [host EXCEPT ![loop] = Blank]
                    /\ device' = [device EXCEPT ![loop] = Blank]
                    /\ queue' = [queue EXCEPT ![loop] = Append(@, "zero")]
        /\ ~ short => UNCHANGED <<host, device, queue>>
    BY <1>5, Zenon DEF Enlarged
  <2>3. /\ Grown(need, capacity[loop]) \in Nat
        /\ Grown(need, capacity[loop]) >= need
        /\ Grown(need, capacity[loop]) >= capacity[loop]
    BY <2>1, GrownTypes
  <2> HIDE DEF need
  <2>4. /\ capacity' \in [AllLanes -> Nat]
        /\ \A l \in AllLanes : capacity'[l] >= capacity[l]
        /\ capacity'[loop] >= need
    BY <1>2, <1>3, <2>1, <2>2, <2>3
  <2> HIDE DEF short
  <2>5. IsBuffer(Blank)
    BY DEF IsBuffer, Blank
  <2>6. /\ host' = [l \in AllLanes |-> host'[l]]
        /\ device' = [l \in AllLanes |-> device'[l]]
        /\ \A l \in AllLanes : IsBuffer(host'[l]) /\ IsBuffer(device'[l])
    <3>1. CASE short
      <4>1. \A l \in AllLanes :
              /\ host'[l] = IF l = loop THEN Blank ELSE host[l]
              /\ device'[l] = IF l = loop THEN Blank ELSE device[l]
        BY <1>2, <1>3, <2>2, <3>1
      <4>2. /\ host' = [l \in AllLanes |-> host'[l]]
            /\ device' = [l \in AllLanes |-> device'[l]]
        BY <1>3, <2>2, <3>1, <4>1
      <4> QED BY <1>3, <2>5, <4>1, <4>2 DEF IsBuffer
    <3>2. CASE ~ short
      BY <1>3, <2>2, <3>2 DEF IsBuffer
    <3> QED BY <3>1, <3>2
  <2> DEFINE q == queue[loop]
  <2>7. q \in Seq(Jobs) /\ "zero" \in Jobs /\ Len(q) \in Nat
    <3>1. q \in Seq(Jobs)  BY <1>2, <1>3
    <3> QED BY <3>1, LenProperties DEF Jobs
  <2>8. /\ Append(q, "zero") \in Seq(Jobs) /\ Append(q, "zero") # <<>>
        /\ Len(Append(q, "zero")) = Len(q) + 1
        /\ \A i \in 1 .. Len(q) : Append(q, "zero")[i] = q[i]
        /\ Append(q, "zero")[Len(q) + 1] = "zero"
    BY <2>7, AppendProperties
  <2>9. \A l \in AllLanes :
          queue'[l] = IF l = loop /\ short THEN Append(q, "zero") ELSE queue[l]
    BY <1>2, <1>3, <2>2
  <2>10. queue' \in [AllLanes -> Seq(Jobs)]
    BY <1>2, <1>3, <2>2, <2>8
  <2>11. ASSUME NEW l \in AllLanes, NEW k \in 1 .. Len(queue'[l])
         PROVE  queue'[l][k] \in Setup(l)
    <3>1. CASE l = loop /\ short
      <4>1. k \in 1 .. Len(q) + 1
        BY <2>8, <2>9, <2>11, <3>1
      <4>2. CASE k = Len(q) + 1
        BY <2>8, <2>9, <3>1, <4>2 DEF Setup
      <4>3. CASE k # Len(q) + 1
        <5>1. k \in 1 .. Len(q)
          BY <2>7, <4>1, <4>3
        <5> QED BY <1>3, <2>8, <2>9, <3>1, <5>1
      <4> QED BY <4>2, <4>3
    <3>2. CASE ~ (l = loop /\ short)
      BY <1>3, <2>9, <2>11, <3>2
    <3> QED BY <3>1, <3>2
  <2>12. ASSUME queue[0] # <<>>, queue[0][1] = "prepare"
         PROVE  queue'[0] # <<>> /\ queue'[0][1] = "prepare"
    <3>1. CASE 0 = loop /\ short
      <4>1. q # <<>> /\ Len(q) \in Nat \ {0}
        BY <2>7, <2>12, <3>1, EmptySeq
      <4> QED BY <2>8, <2>9, <2>12, <3>1, <4>1 DEF AllLanes
    <3>2. CASE ~ (0 = loop /\ short)
      BY <2>9, <2>12, <3>2 DEF AllLanes
    <3> QED BY <3>1, <3>2
  <2> HIDE DEF q
  <2> QED BY <1>2, <2>4, <2>6, <2>9, <2>10, <2>11, <2>12 DEF need
<1> QED BY <1>4, <1>5

LEMMA ReserveStep == IInv /\ Reserve => IInv'
<1> SUFFICES ASSUME IInv, Reserve PROVE IInv'
  OBVIOUS
<1> USE DEF callVars, loopVars, laneVars, gpuVars, outVars
<1> DEFINE need == LayoutTotal(Op, Capacity)
           size == IF Op = "TRY_FETCH" THEN Capacity ELSE 0
           narrow == size > workspace[loop]
           Reserves ==
             /\ Enlarged
             /\ workspace' = [workspace EXCEPT
                                ![loop] = IF narrow THEN Grown(size, @) ELSE @]
             /\ \/ loop + 1 < Lanes /\ loop' = loop + 1 /\ UNCHANGED <<pc, result>>
                \/ /\ ~ (loop + 1 < Lanes) /\ loop' = 0 /\ result' = result
                   /\ pc' = IF Lanes = 2 THEN "record" ELSE "collect"
           Fails ==
             /\ pc' = "drain" /\ result' = "ERROR"
             /\ UNCHANGED <<workspace, loop>>
             /\ Enlarged \/ UNCHANGED <<capacity, host, device, queue>>
<1>1. /\ pc = "reserve"
      /\ UNCHANGED <<input, call, status, returned, auxiliary, ready, begin,
                     hits, lane, slot, prepared, sick, output, misses>>
      /\ Reserves \/ Fails
  BY Zenon DEF Reserve, Enlarged, Fail, Go
<1>2. Enlarged \/ UNCHANGED <<capacity, host, device, queue>>
  BY <1>1
<1>3. /\ loop \in AllLanes
      /\ capacity' \in [AllLanes -> Nat]
      /\ \A l \in AllLanes : capacity'[l] >= capacity[l]
      /\ Enlarged => capacity'[loop] >= need
      /\ host' = [l \in AllLanes |-> host'[l]]
      /\ device' = [l \in AllLanes |-> device'[l]]
      /\ \A l \in AllLanes : IsBuffer(host'[l]) /\ IsBuffer(device'[l])
      /\ queue' \in [AllLanes -> Seq(Jobs)]
      /\ \A l \in AllLanes : l # loop => queue'[l] = queue[l]
      /\ \A l \in AllLanes :
           \A k \in 1 .. Len(queue'[l]) : queue'[l][k] \in Setup(l)
      /\ (queue[0] # <<>> /\ queue[0][1] = "prepare") =>
           queue'[0] # <<>> /\ queue'[0][1] = "prepare"
  BY <1>1, <1>2, EnlargedFacts
<1>4. /\ Typed /\ TypeOK /\ Running /\ Roomy /\ (Lanes = 1 \/ Lanes = 2)
      /\ Capacity \in Nat /\ Capacity \in 1 .. Batch /\ need \in Nat
      /\ begin = 0 /\ hits = 0 /\ lane = 0 /\ Batch \in Nat
      /\ \A l \in AllLanes : ~ slot[l].pending
  <2>1. /\ Typed /\ TypeOK /\ Running /\ Roomy /\ (Lanes = 1 \/ Lanes = 2)
        /\ Capacity \in Nat /\ Capacity \in 1 .. Batch /\ Batch \in Nat
    BY <1>1, InCall DEF IInv
  <2> QED BY <1>1, <2>1, LayoutGrows DEF Running
<1>5. /\ Call' = Call /\ Op' = Op /\ Batch' = Batch /\ Lanes' = Lanes
      /\ Capacity' = Capacity
      /\ UsedLanes' = UsedLanes /\ Verdict(Call)' = Verdict(Call)
  BY <1>1, SameCall
<1>6. size \in Nat /\ workspace \in [AllLanes -> Nat] /\ workspace[loop] \in Nat
  BY <1>3, <1>4 DEF Typed
<1>7. /\ workspace' \in [AllLanes -> Nat]
      /\ \A l \in AllLanes : workspace'[l] >= workspace[l]
      /\ Reserves => workspace'[loop] >= size
  <2>1. /\ Grown(size, workspace[loop]) \in Nat
        /\ Grown(size, workspace[loop]) >= size
        /\ Grown(size, workspace[loop]) >= workspace[loop]
    BY <1>6, GrownTypes
  <2>2. \A l \in AllLanes : workspace[l] \in Nat
    BY <1>6
  <2> HIDE DEF size
  <2>3. CASE Reserves
    BY <1>3, <1>6, <2>1, <2>2, <2>3
  <2>4. CASE ~ Reserves
    BY <1>1, <1>6, <2>2, <2>4
  <2> QED BY <2>3, <2>4
<1>8. \A l \in AllLanes :
        (Reserved(l) \/ (l = loop /\ Reserves)) => Reserved(l)'
  <2> SUFFICES ASSUME NEW l \in AllLanes, Reserved(l) \/ (l = loop /\ Reserves)
               PROVE  Reserved(l)'
    OBVIOUS
  <2>1. /\ capacity[l] \in Nat /\ capacity'[l] \in Nat /\ workspace[l] \in Nat
        /\ workspace'[l] \in Nat
    BY <1>3, <1>4, <1>6, <1>7 DEF Typed
  <2>2. capacity'[l] >= need /\ workspace'[l] >= size
    <3>1. CASE Reserved(l)
      <4>1. capacity[l] >= need /\ workspace[l] >= size
        BY <2>1, <1>4, <3>1 DEF Reserved
      <4>2. capacity'[l] >= capacity[l] /\ workspace'[l] >= workspace[l]
        BY <1>3, <1>7
      <4> HIDE DEF need, size
      <4> QED BY <1>4, <1>6, <2>1, <4>1, <4>2
    <3>2. CASE l = loop /\ Reserves
      BY <1>3, <1>7, <3>2
    <3> QED BY <3>1, <3>2
  <2>3. LayoutTotal(Op, Capacity)' = need
    BY <1>5 DEF LayoutTotal
  <2> QED BY <1>5, <2>2, <2>3 DEF Reserved
<1>9. loop' \in 0 .. 1 /\ (pc' = "reserve" => loop' < Lanes)
  BY <1>1, <1>3, <1>4 DEF AllLanes
<1>10. Typed'
  <2>1. /\ pc' \in {"reserve", "record", "collect", "drain"}
        /\ result' \in {"OK", "ERROR"}
    BY <1>1, <1>4 DEF TypeOK
  <2>2. \A l \in AllLanes : capacity'[l] \in Nat /\ workspace'[l] \in Nat
    BY <1>3, <1>7
  <2>3. TypeOK'
    BY <1>1, <1>4, <1>5, <1>9, <2>1, <2>2 DEF TypeOK
  <2>4. slot' \in [AllLanes -> [begin : Nat, count : Nat, pending : BOOLEAN]]
    BY <1>1, <1>4 DEF Typed
  <2>5. hits' \in Nat /\ begin' \in Nat
    BY <1>1, <1>4
  <2> QED BY <1>3, <1>7, <2>3, <2>4, <2>5 DEF Typed, IsBuffer
<1>11. Running'
  <2>1. Lanes = 1 => queue'[1] = <<>>
    BY <1>1, <1>3, <1>4 DEF Running, AllLanes
  <2>2. \A l \in AllLanes : ~ slot'[l].pending
    BY <1>1, <1>4
  <2>3. /\ pc' \in {"reserve", "record", "collect", "drain"}
        /\ pc' \in {"record", "wait"} => Lanes = 2
        /\ pc' # "drain" => result' = result
        /\ pc' = "drain" => result' = "ERROR"
    BY <1>1
  <2>4. /\ call' \in 1 .. Len(input'.calls) /\ Verdict(Call)' = "RUN"
        /\ lane' \in UsedLanes' /\ DOMAIN output' = 0 .. Batch' - 1
        /\ result = "OK"
    BY <1>1, <1>4, <1>5 DEF Running
  <2> QED BY <1>1, <1>3, <1>4, <1>5, <1>9, <2>1, <2>2, <2>3, <2>4
          DEF Running, AllLanes
<1>12. Turns'
  <2>1. \A l \in AllLanes : ~ slot'[l].pending
    BY <1>1, <1>4
  <2>2. pc' = "collect" => Lanes = 1
    BY <1>1, <1>4
  <2>3. pc' \in {"reserve", "record", "collect", "drain"}
    BY <1>1
  <2>4. lane' = 0 /\ begin' = 0 /\ lane' \in AllLanes /\ Other(lane') \in AllLanes
    BY <1>1, <1>4 DEF AllLanes, Other
  <2>5. 0 * Capacity = 0
    BY <1>4
  <2> QED BY <1>5, <2>1, <2>2, <2>3, <2>4, <2>5 DEF Turns, InLoop
<1>13. Roomy'
  <2>1. pc' = "reserve" => \A l \in AllLanes : l < loop' => Reserved(l)'
    <3> SUFFICES ASSUME pc' = "reserve", NEW l \in AllLanes, l < loop'
                 PROVE  Reserved(l)'
      OBVIOUS
    <3>1. Reserves /\ loop' = loop + 1
      BY <1>1
    <3>2. l < loop \/ l = loop
      BY <1>3, <3>1 DEF AllLanes
    <3>3. l < loop => Reserved(l)
      BY <1>1, <1>4 DEF Roomy
    <3> QED BY <1>8, <3>1, <3>2, <3>3
  <2>2. pc' \in {"record", "collect"} => \A l \in UsedLanes : Reserved(l)'
    <3> SUFFICES ASSUME pc' \in {"record", "collect"}, NEW l \in UsedLanes
                 PROVE  Reserved(l)'
      OBVIOUS
    <3>1. Reserves /\ ~ (loop + 1 < Lanes)
      BY <1>1
    <3>2. l \in AllLanes /\ (l < loop \/ l = loop)
      BY <1>3, <1>4, <3>1 DEF AllLanes, UsedLanes
    <3>3. l < loop => Reserved(l)
      BY <1>1, <1>4, <3>2 DEF Roomy
    <3> QED BY <1>8, <3>1, <3>2, <3>3
  <2>3. ChunkFits'
    BY <1>1, <1>4 DEF ChunkFits
  <2>4. pc' \in {"reserve", "record", "collect", "drain"}
    BY <1>1
  <2> QED BY <1>5, <2>1, <2>2, <2>3, <2>4 DEF Roomy, InLoop
<1>14. Behind'
  <2>1. ~ sick /\ ~ prepared => queue'[0] # <<>> /\ queue'[0][1] = "prepare"
    BY <1>3 DEF IInv, Behind
  <2>2. pc' \in {"wait"} \union InLoop => Lanes = 1
    BY <1>1, <1>4 DEF InLoop
  <2> QED BY <1>1, <1>5, <2>1, <2>2 DEF Behind
<1>15. InFlight'
  BY <1>1, <1>4 DEF InFlight
<1>16. Gathered'
  <2>1. (hits = 0 => Answers(0))'
    BY NothingYet, PTL
  <2>2. Collected' = 0
    BY <1>1, <1>4 DEF Collected, AllLanes, Other
  <2> QED BY <1>1, <1>4, <2>1, <2>2 DEF Gathered, Answers, MissedBelow
<1>17. AnswersInPlace'
  <2>1. pc' # "idle"
    BY <1>1
  <2> QED BY <2>1 DEF AnswersInPlace, Answered
<1> QED BY <1>10, <1>11, <1>12, <1>13, <1>14, <1>15, <1>16, <1>17 DEF IInv

(* A job of the set-up at the end of a queue.                              *)
LEMMA SetUp ==
  ASSUME NEW q \in Seq(Jobs), NEW l, NEW job \in Setup(l),
         \A k \in 1 .. Len(q) : q[k] \in Setup(l)
  PROVE  /\ Append(q, job) \in Seq(Jobs)
         /\ \A k \in 1 .. Len(Append(q, job)) : Append(q, job)[k] \in Setup(l)
         /\ (q # <<>> /\ q[1] = "prepare") =>
              Append(q, job) # <<>> /\ Append(q, job)[1] = "prepare"
         /\ Append(q, job)[Len(Append(q, job))] = job
         /\ Len(Append(q, job)) \in Nat \ {0}
         /\ \A k \in 1 .. Len(Append(q, job)) - 1 :
              Append(q, job)[k] \in Setup(l)
<1>1. job \in Jobs /\ Len(q) \in Nat
  <2>1. Len(q) \in Nat  BY LenProperties
  <2> QED BY <2>1 DEF Jobs, Setup
<1>2. /\ Append(q, job) \in Seq(Jobs) /\ Append(q, job) # <<>>
      /\ Len(Append(q, job)) = Len(q) + 1
      /\ \A i \in 1 .. Len(q) : Append(q, job)[i] = q[i]
      /\ Append(q, job)[Len(q) + 1] = job
  BY <1>1, AppendProperties
<1>3. ASSUME NEW k \in 1 .. Len(q) + 1
      PROVE  Append(q, job)[k] \in Setup(l)
  <2>1. CASE k = Len(q) + 1
    BY <1>2, <2>1
  <2>2. CASE k # Len(q) + 1
    <3>1. k \in 1 .. Len(q)  BY <1>1, <1>3, <2>2
    <3> QED BY <1>2, <3>1
  <2> QED BY <2>1, <2>2
<1>4. q # <<>> => 1 \in 1 .. Len(q)
  BY <1>1, EmptySeq
<1>5. Len(Append(q, job)) - 1 = Len(q)
  BY <1>1, <1>2
<1> QED BY <1>1, <1>2, <1>3, <1>4, <1>5

LEMMA RecordReadyStep == IInv /\ RecordReady => IInv'
<1> SUFFICES ASSUME IInv, RecordReady PROVE IInv'
  OBVIOUS
<1> USE DEF callVars, loopVars, laneVars, gpuVars, outVars
<1>1. /\ pc = "record"
      /\ UNCHANGED <<input, call, status, returned, auxiliary, begin, hits,
                     lane, loop, slot, capacity, workspace, host, device,
                     prepared, sick, output, misses>>
      /\ \/ /\ queue' = [queue EXCEPT ![0] = Append(@, "record")]
            /\ ready' = "recorded" /\ pc' = "wait" /\ result' = result
         \/ /\ pc' = "drain" /\ result' = "ERROR"
            /\ UNCHANGED <<queue, ready>>
  BY DEF RecordReady, Fail, Go
<1>2. /\ Typed /\ TypeOK /\ Running /\ Roomy /\ Lanes = 2
      /\ \A l \in AllLanes : ~ slot[l].pending
      /\ queue \in [AllLanes -> Seq(Jobs)]
      /\ \A l \in AllLanes :
           \A k \in 1 .. Len(queue[l]) : queue[l][k] \in Setup(l)
  <2>1. Typed /\ TypeOK /\ Running /\ Roomy
    BY <1>1, InCall DEF IInv
  <2> QED BY <1>1, <2>1 DEF Running, Typed
<1>3. /\ Call' = Call /\ Op' = Op /\ Batch' = Batch /\ Lanes' = Lanes
      /\ Capacity' = Capacity
      /\ UsedLanes' = UsedLanes /\ Verdict(Call)' = Verdict(Call)
  BY <1>1, SameCall
<1>4. /\ queue' \in [AllLanes -> Seq(Jobs)]
      /\ \A l \in AllLanes :
           \A k \in 1 .. Len(queue'[l]) : queue'[l][k] \in Setup(l)
      /\ (queue[0] # <<>> /\ queue[0][1] = "prepare") =>
           queue'[0] # <<>> /\ queue'[0][1] = "prepare"
  <2> DEFINE q == Append(queue[0], "record")
  <2>1. /\ q \in Seq(Jobs)
        /\ \A k \in 1 .. Len(q) : q[k] \in Setup(0)
        /\ (queue[0] # <<>> /\ queue[0][1] = "prepare") =>
             q # <<>> /\ q[1] = "prepare"
    <3>1. queue[0] \in Seq(Jobs) /\ "record" \in Setup(0)
      BY <1>2 DEF AllLanes, Setup
    <3>2. \A k \in 1 .. Len(queue[0]) : queue[0][k] \in Setup(0)
      BY <1>2 DEF AllLanes
    <3> QED BY <3>1, <3>2, SetUp
  <2> HIDE DEF q
  <2>2. CASE queue' = [queue EXCEPT ![0] = q]
    <3>1. \A l \in AllLanes : queue'[l] = IF l = 0 THEN q ELSE queue[l]
      BY <1>2, <2>2
    <3> QED BY <1>2, <2>1, <2>2, <3>1 DEF AllLanes
  <2>3. CASE queue' = queue
    BY <1>2, <2>3
  <2> QED BY <1>1, <2>2, <2>3 DEF q
<1>5. Typed'
  <2>1. TypeOK'
    BY <1>1, <1>2, <1>3 DEF TypeOK
  <2> QED BY <1>1, <1>2, <1>4, <2>1 DEF Typed, IsBuffer
<1>6. Running'
  BY <1>1, <1>2, <1>3, <1>4 DEF Running
<1>7. Turns' /\ InFlight' /\ Gathered'
  BY <1>1 DEF Turns, InFlight, Gathered, InLoop
<1>8. Roomy'
  <2>1. \A l \in UsedLanes : Reserved(l)
    BY <1>1, <1>2 DEF Roomy
  <2>2. LayoutTotal(Op, Capacity)' = LayoutTotal(Op, Capacity)
    BY <1>3 DEF LayoutTotal
  <2>3. \A l \in UsedLanes : Reserved(l)'
    BY <1>1, <1>3, <2>1, <2>2 DEF Reserved
  <2> QED BY <1>1, <1>2, <1>3, <2>3 DEF Roomy, ChunkFits, InLoop
<1>9. Behind'
  <2>1. ~ sick /\ ~ prepared => queue'[0] # <<>> /\ queue'[0][1] = "prepare"
    BY <1>4 DEF IInv, Behind
  <2> QED BY <1>1, <2>1 DEF Behind, InLoop
<1>10. AnswersInPlace'
  BY <1>1 DEF AnswersInPlace, Answered
<1> QED BY <1>5, <1>6, <1>7, <1>8, <1>9, <1>10 DEF IInv

LEMMA WaitReadyStep == IInv /\ WaitReady => IInv'
<1> SUFFICES ASSUME IInv, WaitReady PROVE IInv'
  OBVIOUS
<1> USE DEF callVars, loopVars, laneVars, gpuVars, outVars
<1>1. /\ pc = "wait"
      /\ UNCHANGED <<input, call, status, returned, auxiliary, ready, begin,
                     hits, lane, loop, slot, capacity, workspace, host, device,
                     prepared, sick, output, misses>>
      /\ \/ /\ queue' = [queue EXCEPT ![1] = Append(@, "wait")]
            /\ pc' = "collect" /\ result' = result
         \/ /\ pc' = "drain" /\ result' = "ERROR"
            /\ UNCHANGED queue
  BY DEF WaitReady, Fail, Go
<1>2. /\ Typed /\ TypeOK /\ Running /\ Roomy /\ Behind /\ Lanes = 2
      /\ begin = 0 /\ hits = 0 /\ lane = 0
      /\ \A l \in AllLanes : ~ slot[l].pending
      /\ queue \in [AllLanes -> Seq(Jobs)]
      /\ \A l \in AllLanes :
           \A k \in 1 .. Len(queue[l]) : queue[l][k] \in Setup(l)
  <2>1. Typed /\ TypeOK /\ Running /\ Roomy /\ Behind
    BY <1>1, InCall DEF IInv
  <2> QED BY <1>1, <2>1 DEF Running, Typed
<1>3. /\ Call' = Call /\ Op' = Op /\ Batch' = Batch /\ Lanes' = Lanes
      /\ Capacity' = Capacity
      /\ UsedLanes' = UsedLanes /\ Verdict(Call)' = Verdict(Call)
  BY <1>1, SameCall
<1> DEFINE q == Append(queue[1], "wait")
<1>4. /\ q \in Seq(Jobs) /\ Len(q) \in Nat \ {0} /\ q[Len(q)] = "wait"
      /\ \A k \in 1 .. Len(q) : q[k] \in Setup(1)
      /\ \A k \in 1 .. Len(q) - 1 : q[k] \in Setup(1)
  <2>1. queue[1] \in Seq(Jobs) /\ "wait" \in Setup(1)
    BY <1>2 DEF AllLanes, Setup
  <2>2. \A k \in 1 .. Len(queue[1]) : queue[1][k] \in Setup(1)
    BY <1>2 DEF AllLanes
  <2> QED BY <2>1, <2>2, SetUp
<1> HIDE DEF q
<1>5. /\ queue' \in [AllLanes -> Seq(Jobs)]
      /\ queue'[0] = queue[0]
      /\ pc' = "collect" => queue'[1] = q
      /\ \A l \in AllLanes :
           \A k \in 1 .. Len(queue'[l]) : queue'[l][k] \in Setup(l)
  <2>1. CASE pc' = "collect"
    <3>1. queue' = [queue EXCEPT ![1] = q]
      BY <1>1, <2>1 DEF q
    <3>2. \A l \in AllLanes : queue'[l] = IF l = 1 THEN q ELSE queue[l]
      BY <1>2, <3>1
    <3> QED BY <1>2, <1>4, <3>1, <3>2 DEF AllLanes
  <2>2. CASE pc' = "drain"
    BY <1>1, <1>2, <2>2
  <2> QED BY <1>1, <2>1, <2>2
<1>6. Typed'
  <2>1. TypeOK'
    BY <1>1, <1>2, <1>3 DEF TypeOK
  <2> QED BY <1>1, <1>2, <1>5, <2>1 DEF Typed, IsBuffer
<1>7. Running'
  BY <1>1, <1>2, <1>3, <1>5 DEF Running
<1>8. Turns'
  <2>1. \A l \in AllLanes : ~ slot'[l].pending
    BY <1>1, <1>2
  <2>2. lane' = 0 /\ begin' = 0 /\ lane' \in AllLanes /\ Other(lane') \in AllLanes
    BY <1>1, <1>2 DEF AllLanes, Other
  <2>3. 0 * Capacity = 0
    BY <1>1, InCall
  <2> QED BY <1>1, <1>3, <2>1, <2>2, <2>3 DEF Turns, InLoop
<1>9. Roomy'
  <2>1. \A l \in UsedLanes : Reserved(l)
    BY <1>1, <1>2 DEF Roomy
  <2>2. LayoutTotal(Op, Capacity)' = LayoutTotal(Op, Capacity)
    BY <1>3 DEF LayoutTotal
  <2>3. \A l \in UsedLanes : Reserved(l)'
    BY <1>1, <1>3, <2>1, <2>2 DEF Reserved
  <2> QED BY <1>1, <1>2, <1>3, <2>3 DEF Roomy, ChunkFits, InLoop
<1>10. Behind'
  <2>1. ~ sick =>
          /\ ~ prepared => queue'[0] # <<>> /\ queue'[0][1] = "prepare"
          /\ ready = "recorded" \/ (ready = "done" /\ prepared)
    BY <1>1, <1>2, <1>5 DEF Behind
  <2>2. pc' = "collect" =>
          \E k \in 1 .. Len(queue'[1]) :
            /\ queue'[1][k] = "wait"
            /\ \A j \in 1 .. k - 1 : queue'[1][j] \in Setup(1)
    <3>1. Len(q) \in 1 .. Len(q)
      BY <1>4
    <3> QED BY <1>4, <1>5, <3>1
  <2> QED BY <1>1, <2>1, <2>2 DEF Behind, InLoop
<1>11. InFlight'
  BY <1>1, <1>2 DEF InFlight
<1>12. Gathered'
  <2>1. (hits = 0 => Answers(0))'
    BY NothingYet, PTL
  <2>2. Collected' = 0
    BY <1>1, <1>2 DEF Collected, AllLanes, Other
  <2> QED BY <1>1, <1>2, <2>1, <2>2 DEF Gathered, Answers, MissedBelow
<1>13. AnswersInPlace'
  BY <1>1 DEF AnswersInPlace, Answered
<1> QED BY <1>6, <1>7, <1>8, <1>9, <1>10, <1>11, <1>12, <1>13 DEF IInv

----------------------------------------------------------------------------
(* Collecting a chunk.                                                     *)

(* The misses below the end of a chunk are those below its beginning, and  *)
(* those in it.                                                            *)
LEMMA ChunkMisses ==
  ASSUME NEW b \in Nat, NEW n \in Nat, input.hits \subseteq Nat
  PROVE  LET M == Cardinality(MissedBelow(b))
             m == Cardinality(MissedIn(b, n))
         IN  /\ M \in 0 .. b /\ m \in 0 .. n
             /\ Cardinality(HitsIn(b, n)) = n - m
             /\ Cardinality(MissedBelow(b + n)) = M + m
             /\ \A k \in 1 .. M :
                  Ascending(MissedBelow(b + n))[k] = Ascending(MissedBelow(b))[k]
             /\ \A k \in 1 .. m :
                  Ascending(MissedBelow(b + n))[M + k] =
                    b + Ascending(MissedIn(b, n))[k]
<1> DEFINE S == MissedBelow(b)  T == MissedIn(b, n)  H == HitsIn(b, n)
<1>1. /\ S \in SUBSET (0 .. b - 1) /\ T \in SUBSET (0 .. n - 1)
      /\ H \in SUBSET (0 .. n - 1) /\ T = (0 .. n - 1) \ H
  BY DEF MissedBelow, MissedIn, HitsIn
<1>2. MissedBelow(b + n) = S \cup Shifted(T, b, n)
  <2>1. ASSUME NEW i
        PROVE  i \in MissedBelow(b + n) <=> i \in S \/ i \in Shifted(T, b, n)
    <3>1. CASE ~ (i \in 0 .. b + n - 1)
      BY <3>1 DEF MissedBelow, Shifted
    <3>2. CASE i \in 0 .. b - 1
      BY <3>2 DEF MissedBelow, Shifted
    <3>3. CASE i \in b .. b + n - 1
      <4>1. i - b \in 0 .. n - 1 /\ b + (i - b) = i /\ ~ (i \in 0 .. b - 1)
            /\ i \in 0 .. b + n - 1
        BY <3>3
      <4>2. i \in MissedBelow(b + n) <=> i \notin input.hits
        BY <4>1 DEF MissedBelow
      <4>3. i \notin S
        BY <4>1 DEF MissedBelow
      <4>4. i \in Shifted(T, b, n) <=> i - b \in T
        BY <3>3, Zenon DEF Shifted
      <4>5. i - b \in T <=> i \notin input.hits
        BY <4>1 DEF MissedIn, HitsIn
      <4> QED BY <4>2, <4>3, <4>4, <4>5
    <3> QED BY <3>1, <3>2, <3>3
  <2> QED BY <2>1, Zenon
<1>3. /\ IsFiniteSet(0 .. b - 1) /\ Cardinality(0 .. b - 1) = b
      /\ IsFiniteSet(0 .. n - 1) /\ Cardinality(0 .. n - 1) = n
  <2> HIDE DEF S, T, H
  <2>1. ASSUME NEW x \in Nat
        PROVE  IsFiniteSet(0 .. x - 1) /\ Cardinality(0 .. x - 1) = x
    <3>1. 0 \in Int /\ x - 1 \in Int
      OBVIOUS
    <3>2. /\ IsFiniteSet(0 .. x - 1)
          /\ Cardinality(0 .. x - 1) =
               IF 0 > x - 1 THEN 0 ELSE x - 1 - 0 + 1
      BY <3>1, FS_Interval, Zenon
    <3> QED BY <3>2
  <2> QED BY <2>1, Zenon
<1> HIDE DEF S, T, H
<1>4. /\ IsFiniteSet(S) /\ Cardinality(S) \in 0 .. b
      /\ IsFiniteSet(T) /\ Cardinality(T) \in 0 .. n
  <2>1. IsFiniteSet(S) /\ Cardinality(S) <= b
    <3>1. IsFiniteSet(S) /\ Cardinality(S) <= Cardinality(0 .. b - 1)
      BY <1>1, <1>3, FS_Subset, Zenon
    <3> QED BY <1>3, <3>1
  <2>3. IsFiniteSet(T) /\ Cardinality(T) <= n
    <3>1. IsFiniteSet(T) /\ Cardinality(T) <= Cardinality(0 .. n - 1)
      BY <1>1, <1>3, FS_Subset, Zenon
    <3> QED BY <1>3, <3>1
  <2>2. Cardinality(S) \in Nat /\ Cardinality(T) \in Nat
    BY <2>1, <2>3, FS_CardinalityType
  <2> QED BY <2>1, <2>2, <2>3
<1>5. Cardinality(H) = n - Cardinality(T)
  <2>1. IsFiniteSet(H) /\ Cardinality(H) \in Nat
    BY <1>1, <1>3, FS_Subset, FS_CardinalityType
  <2>2. Cardinality((0 .. n - 1) \ H) =
          Cardinality(0 .. n - 1) - Cardinality((0 .. n - 1) \cap H)
    BY <1>3, FS_Difference, Zenon
  <2>3. (0 .. n - 1) \cap H = H
    BY <1>1
  <2>4. Cardinality(T) = n - Cardinality(H)
    BY <1>1, <1>3, <2>2, <2>3, Zenon
  <2> QED BY <1>4, <2>1, <2>4
<1>6. LET U == S \cup Shifted(T, b, n)
      IN  /\ Cardinality(S) \in Nat /\ Cardinality(T) \in Nat
          /\ Cardinality(U) = Cardinality(S) + Cardinality(T)
          /\ \A k \in 1 .. Cardinality(S) : Ascending(U)[k] = Ascending(S)[k]
          /\ \A k \in 1 .. Cardinality(T) :
               Ascending(U)[Cardinality(S) + k] = b + Ascending(T)[k]
  <2>1. S \in SUBSET (0 .. b - 1) /\ T \in SUBSET (0 .. n - 1)
    BY <1>1
  <2> QED BY <2>1, AscendingAfter, Zenon
<1> QED BY <1>2, <1>4, <1>5, <1>6, Zenon DEF S, T, H

(* A lane with a chunk of n keys that begins at b.                         *)
Holds(l, b, n) ==
  /\ b \in Nat /\ n \in Nat /\ slot[l].begin = b /\ slot[l].count = n
  /\ slot[l].pending

(* The chunk that is collected is the oldest one, and what the device      *)
(* left of it in the staging buffer is right.                              *)
LEMMA CollectStep ==
  ASSUME IInv, pc \in {"collect", "last"}, UNCHANGED <<input, call>>,
         NEW l \in AllLanes, CollectLane(l),
         NEW b \in Nat, NEW n \in Nat, Holds(l, b, n),
         Collected = b, b + n <= begin
  PROVE  /\ queue[l] = <<>>
         /\ slot' \in [AllLanes -> [begin : Nat, count : Nat,
                                    pending : BOOLEAN]]
         /\ \A m \in AllLanes : m # l => slot'[m] = slot[m]
         /\ (slot' = slot /\ result' = "ERROR") \/ ~ slot'[l].pending
         /\ result' \in {"OK", "ERROR"}
         /\ DOMAIN output' = DOMAIN output /\ DOMAIN misses' = DOMAIN output
         /\ Op = "LOCATE" => hits' = 0
         /\ result' = "ERROR" => hits' = hits
         /\ result' = "OK" =>
              /\ ~ slot'[l].pending
              /\ hits' \in 0 .. b + n
              /\ Answers(b + n)'
<1> USE DEF outVars
<1>1. /\ Typed /\ TypeOK /\ Running /\ Gathered /\ InFlight
      /\ Op \in Ops /\ Batch \in Nat /\ CallRuns
      /\ hits \in Nat /\ begin \in 0 .. Batch
      /\ result = "OK" /\ DOMAIN output = 0 .. Batch - 1
      /\ DOMAIN misses = DOMAIN output
      /\ (Op = "LOCATE" => hits = 0)
  <2>1. /\ Typed /\ TypeOK /\ Op \in Ops /\ Batch \in Nat /\ CallRuns
    BY InCall
  <2> QED BY <2>1 DEF IInv, Running, Typed, TypeOK
<1>2. b \in Nat /\ n \in Nat /\ b + n \in 0 .. Batch
  BY <1>1
<1>3. Answers(b)
  BY <1>1 DEF Gathered, InLoop
<1>4. input.hits \subseteq Nat
  BY <1>1, CallTypes DEF CallRuns
<1> DEFINE h == host[l]
           good == ~ sick /\ (Op # "LOCATE" => h.count <= n)
           chunk == b .. b + n - 1
           at == b - hits
<1>5. /\ Synchronized(l)
      /\ slot' = IF sick THEN slot ELSE [slot EXCEPT ![l].pending = FALSE]
      /\ good =>
           /\ output' = [i \in DOMAIN output |->
                           IF i \in chunk /\ i - b < Len(h.out)
                           THEN h.out[i - b + 1] ELSE output[i]]
           /\ misses' = IF Op # "TRY_FETCH" THEN misses
                        ELSE [i \in DOMAIN misses |->
                                IF i \in at .. at + h.count - 1
                                THEN b + h.miss[i - at + 1]
                                ELSE misses[i]]
           /\ hits' = hits + (CASE Op = "LOCATE" -> 0
                                [] Op = "TRY_FETCH" -> n - h.count
                                [] OTHER -> h.count)
           /\ result' = result
      /\ ~ good => output' = output /\ misses' = misses /\ hits' = hits
                   /\ result' = "ERROR"
  <2>1. slot[l].begin = b /\ slot[l].count = n
    BY DEF Holds
  <2> QED BY <2>1, Zenon DEF CollectLane
<1>6. queue[l] = <<>>
  BY <1>5 DEF Synchronized
<1>7. /\ slot' \in [AllLanes -> [begin : Nat, count : Nat, pending : BOOLEAN]]
      /\ \A m \in AllLanes : m # l => slot'[m] = slot[m]
      /\ sick => slot' = slot
      /\ ~ sick => ~ slot'[l].pending
  <2>1. slot \in [AllLanes -> [begin : Nat, count : Nat, pending : BOOLEAN]]
    BY <1>1 DEF Typed
  <2>2. CASE sick
    BY <1>5, <2>1, <2>2
  <2>3. CASE ~ sick
    BY <1>5, <2>1, <2>3
  <2> QED BY <2>2, <2>3
<1>8. CASE ~ good
  BY <1>1, <1>2, <1>5, <1>6, <1>7, <1>8
<1>9. CASE good
  <2> DEFINE M == Cardinality(MissedBelow(b))
             m == Cardinality(MissedIn(b, n))
  <2>1. /\ M \in 0 .. b /\ m \in 0 .. n
        /\ Cardinality(HitsIn(b, n)) = n - m
        /\ Cardinality(MissedBelow(b + n)) = M + m
        /\ \A k \in 1 .. M :
             Ascending(MissedBelow(b + n))[k] = Ascending(MissedBelow(b))[k]
        /\ \A k \in 1 .. m :
             Ascending(MissedBelow(b + n))[M + k] =
               b + Ascending(MissedIn(b, n))[k]
    BY <1>2, <1>4, ChunkMisses, Zenon
  <2>2. /\ h.out = AnswersOf(b, n)
        /\ Op \in {"CHECK", "FETCH"} => h.count = n - m
        /\ Op = "TRY_FETCH" => h.count = m /\ h.miss = Ascending(MissedIn(b, n))
    <3>1. Chained(l)
      BY <1>1, <1>9 DEF InFlight, InLoop, Holds
    <3>2. Len(queue[l]) = 0
      BY <1>6, EmptySeq
    <3>3. Stage(l, 0)
      BY <3>1, <3>2 DEF Chained
    <3>4. slot[l].begin = b /\ slot[l].count = n
      BY DEF Holds
    <3> QED BY <2>1, <3>3, <3>4 DEF Stage
  <2>3. /\ \A k \in 1 .. n : h.out[k] = <<call, b + k - 1>>
        /\ Len(h.out) = n
    <3>1. /\ AnswersOf(b, n) = [k \in 1 .. n |-> <<call, b + k - 1>>]
      BY DEF AnswersOf
    <3> HIDE DEF h
    <3> QED BY <1>2, <2>2, <3>1
  <2> HIDE DEF M, m
  <2>4. hits \in 0 .. b /\ at \in Nat /\ (Op # "LOCATE" => hits = b - M /\ at = M)
    <3>1. Op # "LOCATE" => hits = b - M
      BY <1>3 DEF Answers, M
    <3> QED BY <1>1, <1>2, <2>1, <3>1
  <2>5. hits' \in 0 .. b + n /\ (Op # "LOCATE" => hits' = (b + n) - (M + m))
    <3>1. CASE Op = "LOCATE"
      BY <1>1, <1>2, <1>5, <1>9, <3>1
    <3>2. CASE Op = "TRY_FETCH"
      <4>1. hits' = hits + (n - m)
        BY <1>5, <1>9, <2>2, <3>2
      <4> QED BY <1>2, <2>1, <2>4, <3>2, <4>1
    <3>3. CASE Op \in {"CHECK", "FETCH"}
      <4>1. hits' = hits + (n - m)
        BY <1>5, <1>9, <2>2, <3>3
      <4> QED BY <1>2, <2>1, <2>4, <3>3, <4>1
    <3> QED BY <1>1, <3>1, <3>2, <3>3 DEF Ops
  <2>6. ASSUME NEW i \in 0 .. b + n - 1
        PROVE  output'[i] = <<call, i>>
    <3>1. i \in DOMAIN output
      BY <1>1, <1>2
    <3>2. CASE i < b
      <4>1. i \in 0 .. b - 1 /\ i \notin chunk
        BY <1>2, <3>2
      <4>2. output'[i] = output[i]
        BY <1>5, <1>9, <3>1, <4>1
      <4> QED BY <1>3, <4>1, <4>2 DEF Answers
    <3>3. CASE i >= b
      <4>1. /\ i \in chunk /\ i - b < n /\ i - b + 1 \in 1 .. n
            /\ b + (i - b + 1) - 1 = i
        BY <1>2, <3>3
      <4>2. output'[i] = h.out[i - b + 1]
        <5> HIDE DEF h
        <5> QED BY <1>5, <1>9, <2>3, <3>1, <4>1
      <4>3. h.out[i - b + 1] = <<call, b + (i - b + 1) - 1>>
        <5> HIDE DEF h
        <5> QED BY <2>3, <4>1
      <4> QED BY <4>1, <4>2, <4>3
    <3> QED BY <1>2, <3>2, <3>3
  <2>7. ASSUME Op = "TRY_FETCH", NEW k \in 1 .. M + m
        PROVE  misses'[k - 1] = Ascending(MissedBelow(b + n))[k]
    <3>1. /\ at = M /\ h.count = m /\ h.miss = Ascending(MissedIn(b, n))
          /\ k - 1 \in 0 .. Batch - 1 /\ k \in Nat
      BY <1>1, <1>2, <2>1, <2>2, <2>4, <2>7
    <3>2. misses'[k - 1] = IF k - 1 \in at .. at + h.count - 1
                           THEN b + h.miss[(k - 1) - at + 1]
                           ELSE misses[k - 1]
      <4> HIDE DEF h, at
      <4> QED BY <1>1, <1>5, <1>9, <2>7, <3>1
    <3>3. CASE k <= M
      <4>1. k \in 1 .. M /\ ~ (k - 1 \in at .. at + h.count - 1)
        BY <2>1, <3>1, <3>3
      <4>2. misses[k - 1] = Ascending(MissedBelow(b))[k]
        BY <1>3, <2>7, <4>1 DEF Answers, M
      <4> QED BY <2>1, <3>2, <4>1, <4>2
    <3>4. CASE k > M
      <4> DEFINE j == k - M
      <4>1. /\ j \in 1 .. m /\ k - 1 \in at .. at + h.count - 1
            /\ (k - 1) - at + 1 = j /\ M + j = k
        BY <2>1, <3>1, <3>4
      <4> HIDE DEF j
      <4>2. misses'[k - 1] = b + Ascending(MissedIn(b, n))[j]
        BY <3>1, <3>2, <4>1
      <4> QED BY <2>1, <4>1, <4>2
    <3> QED BY <2>1, <3>1, <3>3, <3>4
  <2>8. Answers(b + n)'
    <3>1. Op' = Op /\ call' = call /\ MissedBelow(b + n)' = MissedBelow(b + n)
      BY SameCall
    <3> QED BY <2>1, <2>5, <2>6, <2>7, <3>1 DEF Answers
  <2>9. DOMAIN output' = DOMAIN output /\ DOMAIN misses' = DOMAIN output
    BY <1>1, <1>5, <1>9
  <2> QED BY <1>1, <1>2, <1>5, <1>6, <1>7, <1>9, <2>5, <2>8, <2>9
<1> QED BY <1>8, <1>9

(* A chunk that nothing happens to stays as it is.                         *)
LEMMA ChainedKept ==
  ASSUME UNCHANGED <<input, call>>, NEW l \in AllLanes,
         slot'[l] = slot[l], host'[l] = host[l], device'[l] = device[l],
         queue'[l] = queue[l], Chained(l)
  PROVE  Chained(l)'
<1>1. /\ Op' = Op /\ Work' = Work
  BY SameCall
<1>2. Stage(l, Len(queue[l])) => Stage(l, Len(queue[l]))'
  BY <1>1 DEF Stage, AnswersOf, MissedIn, HitsIn
<1> QED BY <1>1, <1>2 DEF Chained, Stage, AnswersOf, MissedIn, HitsIn

LEMMA ReservedKept ==
  ASSUME UNCHANGED <<input, call, capacity, workspace>>
  PROVE  /\ \A l : Reserved(l) => Reserved(l)'
         /\ \A n : LayoutTotal(Op, n)' = LayoutTotal(Op, n)
<1>1. Op' = Op /\ Capacity' = Capacity
  BY SameCall
<1>2. \A n : LayoutTotal(Op, n)' = LayoutTotal(Op, n)
  BY <1>1 DEF LayoutTotal
<1>3. LayoutTotal(Op, Capacity)' = LayoutTotal(Op, Capacity)
  BY <1>1 DEF LayoutTotal
<1> QED BY <1>1, <1>2, <1>3 DEF Reserved

(* The other lane, and the next lane in turn.                              *)
LEMMA LaneTurns ==
  ASSUME IInv, pc # "idle"
  PROVE  /\ lane \in AllLanes /\ Other(lane) \in AllLanes /\ Other(lane) # lane
         /\ \A l \in AllLanes : l = lane \/ l = Other(lane)
         /\ NextLane(0) = lane
         /\ Lanes = 1 => lane = 0 /\ Other(lane) = 1 /\ NextInTurn = 0
         /\ Lanes = 2 => NextLane(1) = Other(lane) /\ NextInTurn = Other(lane)
         /\ Other(Other(lane)) = lane
<1>1. lane \in 0 .. Lanes - 1 /\ (Lanes = 1 \/ Lanes = 2)
  BY InCall
<1>2. CASE Lanes = 1
  <2>1. lane = 0  BY <1>1, <1>2
  <2>2. 0 % 1 = 0 /\ 1 % 1 = 0  OBVIOUS
  <2> QED BY <1>2, <2>1, <2>2 DEF AllLanes, Other, NextLane, NextInTurn
<1>3. CASE Lanes = 2
  <2>1. lane = 0 \/ lane = 1  BY <1>1, <1>3
  <2>2. 0 % 2 = 0 /\ 1 % 2 = 1 /\ 2 % 2 = 0  OBVIOUS
  <2>3. /\ \A x : NextLane(x) = (lane + x) % 2
        /\ NextInTurn = (lane + 1) % 2
    BY <1>3, Zenon DEF NextLane, NextInTurn
  <2>4. CASE lane = 0
    BY <1>3, <2>2, <2>3, <2>4 DEF AllLanes, Other
  <2>5. CASE lane = 1
    BY <1>3, <2>2, <2>3, <2>5 DEF AllLanes, Other
  <2> QED BY <2>1, <2>4, <2>5
<1> QED BY <1>1, <1>2, <1>3

(* The oldest chunk is collected.                                          *)
Oldest(l) == l = lane \/ (l = Other(lane) /\ ~ slot[lane].pending)

LEMMA CollectedStep ==
  ASSUME IInv, pc \in {"collect", "last"},
         NEW l \in AllLanes, slot[l].pending, Oldest(l), CollectLane(l),
         UNCHANGED <<input, call, status, returned, auxiliary, ready, begin,
                     lane, capacity, workspace, host, device, queue, prepared,
                     sick>>,
         pc' = IF result' # "OK" THEN "drain"
               ELSE IF pc = "collect" THEN "submit" ELSE "last",
         loop' \in 0 .. 2
  PROVE  /\ Typed' /\ Running' /\ Roomy' /\ Behind' /\ InFlight' /\ Gathered'
         /\ AnswersInPlace'
         /\ \A m \in AllLanes : m # l => slot'[m] = slot[m]
         /\ slot'[l].pending => pc' = "drain"
         /\ queue[l] = <<>>
<1>1. /\ Typed /\ TypeOK /\ Running /\ Turns /\ Roomy /\ Behind /\ InFlight
      /\ CallRuns /\ Batch \in Nat
      /\ lane \in AllLanes /\ Other(lane) \in AllLanes /\ Other(lane) # lane
      /\ \A m \in AllLanes : m = lane \/ m = Other(lane)
      /\ begin \in 0 .. Batch /\ begin \in Nat /\ Other(Other(lane)) = lane
  BY InCall, LaneTurns DEF IInv, TypeOK
<1>2. PICK b \in Nat, n \in Nat : Holds(l, b, n)
  <2>1. slot[l] \in [begin : Nat, count : Nat, pending : BOOLEAN]
    BY <1>1 DEF Typed
  <2> QED BY <2>1 DEF Holds
<1>3. slot[l].begin = b /\ slot[l].count = n
  BY <1>2 DEF Holds
<1>4. /\ Collected = b /\ b + n <= begin
      /\ b + n = IF l = lane /\ slot[Other(lane)].pending
                 THEN slot[Other(lane)].begin ELSE begin
  <2>1. Collected = b
    BY <1>3 DEF Oldest, Collected
  <2>2. /\ slot[lane].pending =>
             slot[lane].begin + slot[lane].count =
               IF slot[Other(lane)].pending THEN slot[Other(lane)].begin
               ELSE begin
        /\ slot[Other(lane)].pending =>
             slot[Other(lane)].begin + slot[Other(lane)].count = begin
    BY <1>1 DEF Turns, InLoop
  <2>3. b + n = IF l = lane /\ slot[Other(lane)].pending
                THEN slot[Other(lane)].begin ELSE begin
    BY <1>1, <1>3, <2>2 DEF Oldest
  <2>4. slot[Other(lane)].pending => slot[Other(lane)].begin <= begin
    <3>1. slot[Other(lane)] \in [begin : Nat, count : Nat, pending : BOOLEAN]
      BY <1>1 DEF Typed
    <3>2. slot[Other(lane)].begin \in Nat /\ slot[Other(lane)].count \in Nat
      BY <3>1
    <3> QED BY <1>1, <2>2, <3>2
  <2> QED BY <1>1, <2>1, <2>3, <2>4
<1>5. /\ queue[l] = <<>>
      /\ slot' \in [AllLanes -> [begin : Nat, count : Nat, pending : BOOLEAN]]
      /\ \A m \in AllLanes : m # l => slot'[m] = slot[m]
      /\ (slot' = slot /\ result' = "ERROR") \/ ~ slot'[l].pending
      /\ result' \in {"OK", "ERROR"}
      /\ DOMAIN output' = DOMAIN output /\ DOMAIN misses' = DOMAIN output
      /\ Op = "LOCATE" => hits' = 0
      /\ result' = "ERROR" => hits' = hits
      /\ result' = "OK" =>
           /\ ~ slot'[l].pending
           /\ hits' \in 0 .. b + n
           /\ Answers(b + n)'
  BY <1>2, <1>4, CollectStep
<1>6. /\ Call' = Call /\ Op' = Op /\ Batch' = Batch /\ Lanes' = Lanes
      /\ Capacity' = Capacity
      /\ UsedLanes' = UsedLanes /\ Verdict(Call)' = Verdict(Call)
  BY SameCall
<1>7. hits' \in 0 .. begin /\ hits' \in Nat
  <2>1. hits \in 0 .. begin
    BY <1>1 DEF TypeOK
  <2> QED BY <1>1, <1>4, <1>5, <2>1
<1>8. pc' \in {"submit", "last", "drain"} /\ (pc' = "drain" <=> result' = "ERROR")
  BY <1>5
<1>9. Typed'
  <2>1. pc' \in {"idle", "streams", "reserve", "record", "wait", "collect",
                 "submit", "last", "drain"}
    BY <1>8
  <2>2. DOMAIN misses' = DOMAIN output'
    BY <1>5
  <2>3. TypeOK'
    BY <1>1, <1>5, <1>6, <1>7, <2>1, <2>2 DEF TypeOK
  <2> QED BY <1>1, <1>5, <1>7, <2>3 DEF Typed, IsBuffer
<1>10. Running'
  <2>1. /\ call \in 1 .. Len(input.calls) /\ Verdict(Call) = "RUN"
        /\ lane \in UsedLanes
        /\ Lanes = 1 => queue[1] = <<>> /\ ~ slot[1].pending
        /\ DOMAIN output = 0 .. Batch - 1
    BY <1>1 DEF Running
  <2>2. Lanes = 1 => ~ slot'[1].pending
    BY <1>5, <2>1 DEF AllLanes
  <2>3. \A m \in AllLanes :
          slot'[m].pending \/ \A k \in 1 .. Len(queue[m]) : queue[m][k] \in Setup(m)
    <3>1. Len(queue[l]) = 0
      BY <1>5, EmptySeq
    <3>2. \A k \in 1 .. Len(queue[l]) : FALSE
      BY <3>1
    <3>3. \A m \in AllLanes :
            slot[m].pending \/ \A k \in 1 .. Len(queue[m]) : queue[m][k] \in Setup(m)
      BY <1>1 DEF Running
    <3>4. \A m \in AllLanes : m # l => slot'[m] = slot[m]
      BY <1>5
    <3> QED BY <3>2, <3>3, <3>4, Zenon
  <2> QED BY <1>5, <1>6, <1>8, <2>1, <2>2, <2>3 DEF Running
<1>11. Roomy'
  <2>1. \A m \in UsedLanes : Reserved(m)
    BY <1>1 DEF Roomy, InLoop
  <2>2. \A m \in UsedLanes : Reserved(m)'
    BY <2>1, ReservedKept
  <2>3. ChunkFits'
    <3>1. ASSUME NEW m \in AllLanes, slot'[m].pending
          PROVE  slot'[m] = slot[m]
      BY <1>5, <3>1
    <3>2. \A x : LayoutTotal(Op, x)' = LayoutTotal(Op, x)
      BY ReservedKept
    <3>3. ChunkFits
      BY <1>1 DEF Roomy
    <3>4. ASSUME NEW m \in AllLanes, slot'[m].pending
          PROVE  LayoutTotal(Op', slot'[m].count) = LayoutTotal(Op, slot[m].count)
      BY <1>6, <3>1, <3>4 DEF LayoutTotal
    <3>5. ASSUME NEW m \in AllLanes, slot'[m].pending
          PROVE  /\ LayoutTotal(Op', slot'[m].count) <= capacity'[m]
                 /\ Op' = "TRY_FETCH" => slot'[m].count <= workspace'[m]
      <4>1. /\ LayoutTotal(Op, slot[m].count) <= capacity[m]
            /\ Op = "TRY_FETCH" => slot[m].count <= workspace[m]
        BY <3>1, <3>3, <3>5 DEF ChunkFits
      <4>2. LayoutTotal(Op', slot'[m].count) = LayoutTotal(Op, slot[m].count)
        BY <3>4, <3>5
      <4>3. slot'[m] = slot[m]
        BY <3>1, <3>5
      <4> QED BY <1>6, <4>1, <4>2, <4>3
    <3> QED BY <3>5 DEF ChunkFits
  <2> QED BY <1>6, <1>8, <2>2, <2>3 DEF Roomy, InLoop
<1>12. Behind'
  BY <1>1, <1>6, <1>8 DEF Behind, InLoop
<1>13. InFlight'
  <2> SUFFICES ASSUME pc' \in InLoop, ~ sick', NEW m \in AllLanes,
                      slot'[m].pending
               PROVE  Chained(m)'
    BY DEF InFlight
  <2>1. m # l
    BY <1>5, <1>8 DEF InLoop
  <2>2. slot'[m] = slot[m]
    BY <1>5, <2>1
  <2>3. Chained(m)
    BY <1>1, <2>2 DEF InFlight, InLoop
  <2> QED BY <2>2, <2>3, ChainedKept
<1>14. Gathered'
  <2> SUFFICES ASSUME pc' \in InLoop PROVE Answers(Collected)'
    BY DEF Gathered
  <2>1. result' = "OK"
    BY <1>5, <1>8 DEF InLoop
  <2>2. Collected' = b + n
    BY <1>1, <1>4, <1>5, <2>1 DEF Collected, Oldest, Other
  <2> QED BY <1>5, <2>1, <2>2 DEF Answers, MissedBelow
<1>15. AnswersInPlace'
  BY <1>8 DEF AnswersInPlace, Answered
<1> QED BY <1>5, <1>8, <1>9, <1>10, <1>11, <1>12, <1>13, <1>14, <1>15

LEMMA CollectBusyStep == IInv /\ CollectBusy => IInv'
<1> SUFFICES ASSUME IInv, CollectBusy PROVE IInv'
  OBVIOUS
<1> USE DEF callVars, loopVars, laneVars, gpuVars, outVars
<1>1. /\ pc = "collect" /\ begin < Batch /\ slot[lane].pending
      /\ CollectLane(lane)
      /\ pc' = IF result' = "OK" THEN "submit" ELSE "drain"
      /\ UNCHANGED <<input, call, status, returned, auxiliary, ready, begin,
                     lane, loop, capacity, workspace, host, device, queue,
                     prepared, sick>>
  BY Zenon DEF CollectBusy
<1>2. /\ loop \in 0 .. 2 /\ lane \in AllLanes /\ Turns
      /\ Other(lane) \in AllLanes /\ Other(lane) # lane
  BY <1>1, LaneTurns DEF IInv, Typed, TypeOK
<1>3. /\ Typed' /\ Running' /\ Roomy' /\ Behind' /\ InFlight' /\ Gathered'
      /\ AnswersInPlace'
      /\ \A m \in AllLanes : m # lane => slot'[m] = slot[m]
      /\ slot'[lane].pending => pc' = "drain"
  BY <1>1, <1>2, CollectedStep DEF Oldest
<1>4. Turns'
  <2>1. Batch' = Batch /\ Lanes' = Lanes
    BY <1>1, SameCall
  <2>2. slot'[Other(lane)] = slot[Other(lane)]
    BY <1>2, <1>3
  <2>3. pc' = "submit" \/ pc' = "drain"
    BY <1>1
  <2> QED BY <1>1, <1>2, <1>3, <2>1, <2>2, <2>3 DEF Turns, InLoop, Other
<1> QED BY <1>3, <1>4 DEF IInv

(* A step of the host that only moves on.                                  *)
LEMMA MovesOn ==
  ASSUME IInv, pc \in {"collect", "last"}, pc' \in {"submit", "last"},
         loop' \in 0 .. 2,
         UNCHANGED <<input, call, status, returned, result, auxiliary, ready,
                     begin, hits, lane, slot, capacity, workspace, host,
                     device, queue, prepared, sick, output, misses>>
  PROVE  /\ Typed' /\ Running' /\ Roomy' /\ Behind' /\ InFlight' /\ Gathered'
         /\ AnswersInPlace'
<1>1. /\ Typed /\ TypeOK /\ Running /\ Roomy /\ Behind /\ InFlight /\ Gathered
  BY InCall DEF IInv
<1>2. /\ Call' = Call /\ Op' = Op /\ Batch' = Batch /\ Lanes' = Lanes
      /\ Capacity' = Capacity
      /\ UsedLanes' = UsedLanes /\ Verdict(Call)' = Verdict(Call)
  BY SameCall
<1>3. Typed'
  <2>1. TypeOK'
    BY <1>1, <1>2 DEF TypeOK
  <2> QED BY <1>1, <2>1 DEF Typed, IsBuffer
<1>4. Running'
  BY <1>1, <1>2 DEF Running
<1>5. Roomy'
  <2>1. \A m \in UsedLanes : Reserved(m)'
    BY <1>1, ReservedKept DEF Roomy, InLoop
  <2>2. ChunkFits'
    BY <1>1, <1>2 DEF Roomy, ChunkFits, LayoutTotal
  <2> QED BY <1>2, <2>1, <2>2 DEF Roomy
<1>6. Behind'
  BY <1>1, <1>2 DEF Behind, InLoop
<1>7. InFlight'
  <2>1. ASSUME ~ sick', NEW m \in AllLanes, slot'[m].pending
        PROVE  Chained(m)'
    <3>1. Chained(m)
      BY <1>1, <2>1 DEF InFlight, InLoop
    <3> QED BY <3>1, ChainedKept
  <2> QED BY <2>1 DEF InFlight
<1>8. Gathered'
  <2>1. Collected' = Collected
    BY DEF Collected, Other
  <2>2. Answers(Collected)
    BY <1>1 DEF Gathered, InLoop
  <2> QED BY <1>2, <2>1, <2>2 DEF Gathered, Answers, MissedBelow
<1>9. AnswersInPlace'
  BY DEF AnswersInPlace, Answered
<1> QED BY <1>3, <1>4, <1>5, <1>6, <1>7, <1>8, <1>9

LEMMA LaneFreeStep == IInv /\ LaneFree => IInv'
<1> SUFFICES ASSUME IInv, LaneFree PROVE IInv'
  OBVIOUS
<1> USE DEF callVars, loopVars, laneVars, gpuVars, outVars
<1>1. /\ pc = "collect" /\ begin < Batch /\ ~ slot[lane].pending /\ pc' = "submit"
      /\ UNCHANGED <<input, call, status, returned, result, auxiliary, ready,
                     begin, hits, lane, loop, slot, capacity, workspace, host,
                     device, queue, prepared, sick, output, misses>>
  BY DEF LaneFree, Go
<1>2. loop' \in 0 .. 2 /\ Turns
  BY <1>1 DEF IInv, Typed, TypeOK
<1>3. /\ Typed' /\ Running' /\ Roomy' /\ Behind' /\ InFlight' /\ Gathered'
      /\ AnswersInPlace'
  BY <1>1, <1>2, MovesOn
<1>4. Turns'
  <2>1. Batch' = Batch /\ Lanes' = Lanes
    BY <1>1, SameCall
  <2> QED BY <1>1, <1>2, <2>1 DEF Turns, InLoop, Other
<1> QED BY <1>3, <1>4 DEF IInv

LEMMA AllSubmittedStep == IInv /\ AllSubmitted => IInv'
<1> SUFFICES ASSUME IInv, AllSubmitted PROVE IInv'
  OBVIOUS
<1> USE DEF callVars, loopVars, laneVars, gpuVars, outVars
<1>1. /\ pc = "collect" /\ begin >= Batch /\ pc' = "last" /\ loop' = 0
      /\ UNCHANGED <<input, call, status, returned, result, auxiliary, ready,
                     begin, hits, lane, slot, capacity, workspace, host,
                     device, queue, prepared, sick, output, misses>>
  BY DEF AllSubmitted, Go
<1>2. /\ Turns /\ Running /\ begin \in 0 .. Batch
      /\ Batch \in Nat \ {0} /\ Chunk \in Nat \ {0}
      /\ (Lanes = 1 \/ Lanes = 2) /\ (Lanes = 1 => Capacity = Batch)
      /\ (Lanes = 2 => Capacity = Chunk /\ Batch >= 2 * Chunk)
  BY <1>1, InCall DEF IInv, TypeOK
<1>3. /\ \A l \in AllLanes : l = lane \/ l = Other(lane)
      /\ lane \in AllLanes /\ Other(lane) \in AllLanes
      /\ Lanes = 1 => lane = 0 /\ Other(lane) = 1
  BY <1>1, LaneTurns
<1>4. begin = Batch
  BY <1>1, <1>2
<1>5. slot[lane].pending
  <2>1. SUFFICES ASSUME ~ slot[lane].pending PROVE FALSE
    OBVIOUS
  <2>2. begin = lane * Capacity
    BY <1>1, <1>2, <2>1 DEF Turns
  <2>3. lane = 0 \/ (lane = 1 /\ Lanes = 2)
    BY <1>2, <1>3, InCall DEF AllLanes, Other
  <2>4. CASE lane = 0
    <3>1. 0 * Capacity = 0
      BY <1>2
    <3> QED BY <1>2, <1>4, <2>2, <2>4, <3>1
  <2>5. CASE lane = 1 /\ Lanes = 2
    <3>1. 1 * Capacity = Chunk
      BY <1>2, <2>5
    <3> QED BY <1>2, <1>4, <2>2, <2>5, <3>1
  <2> QED BY <2>3, <2>4, <2>5
<1>6. Lanes = 2 => slot[Other(lane)].pending
  BY <1>1, <1>2, <1>4 DEF Turns
<1>7. \A l \in AllLanes : slot[l].pending \/ queue[l] = <<>>
  <2>1. Lanes = 1 => queue[Other(lane)] = <<>>
    BY <1>1, <1>2, <1>3 DEF Running
  <2> QED BY <1>2, <1>3, <1>5, <1>6, <2>1
<1>8. loop' \in 0 .. 2
  BY <1>1
<1>9. /\ Typed' /\ Running' /\ Roomy' /\ Behind' /\ InFlight' /\ Gathered'
      /\ AnswersInPlace'
  BY <1>1, <1>8, MovesOn
<1>10. Turns'
  <2>1. Batch' = Batch /\ Lanes' = Lanes
    BY <1>1, SameCall
  <2> QED BY <1>1, <1>2, <1>4, <1>7, <2>1 DEF Turns, InLoop, Other
<1> QED BY <1>9, <1>10 DEF IInv

LEMMA CollectLastStep == IInv /\ CollectLast => IInv'
<1> SUFFICES ASSUME IInv, CollectLast PROVE IInv'
  OBVIOUS
<1> USE DEF callVars, loopVars, laneVars, gpuVars, outVars
<1> DEFINE l == NextLane(loop)
<1>1. /\ pc = "last" /\ loop < Lanes /\ loop' = loop + 1
      /\ IF slot[l].pending THEN CollectLane(l)
         ELSE UNCHANGED <<slot, output, misses, hits, result>>
      /\ pc' = IF result' = "OK" THEN "last" ELSE "drain"
      /\ UNCHANGED <<input, call, status, returned, auxiliary, ready, begin,
                     lane, capacity, workspace, host, device, queue,
                     prepared, sick>>
  BY Zenon DEF CollectLast
<1>2. /\ Turns /\ (Lanes = 1 \/ Lanes = 2) /\ loop \in 0 .. 2
      /\ result = "OK" /\ lane \in AllLanes /\ Other(lane) \in AllLanes
      /\ Other(lane) # lane /\ (\A m \in AllLanes : m = lane \/ m = Other(lane))
      /\ NextLane(0) = lane /\ (Lanes = 2 => NextLane(1) = Other(lane))
  BY <1>1, InCall, LaneTurns DEF IInv, Running, Typed, TypeOK
<1>3. loop = 0 \/ (loop = 1 /\ Lanes = 2)
  BY <1>1, <1>2
<1>4. l \in AllLanes /\ Oldest(l) /\ loop' \in 0 .. 2
  <2>1. CASE loop = 0
    BY <1>1, <1>2, <2>1 DEF Oldest
  <2>2. CASE loop = 1 /\ Lanes = 2
    <3>1. ~ slot[lane].pending
      BY <1>1, <1>2, <2>2 DEF Turns
    <3> QED BY <1>1, <1>2, <2>2, <3>1 DEF Oldest
  <2> QED BY <1>3, <2>1, <2>2
<1>5. (loop = 0 => l = lane) /\ (loop = 1 => l = Other(lane))
  BY <1>2, <1>3
<1> HIDE DEF l
<1>6. /\ Typed' /\ Running' /\ Roomy' /\ Behind' /\ InFlight' /\ Gathered'
      /\ AnswersInPlace'
      /\ \A m \in AllLanes : m # l => slot'[m] = slot[m]
      /\ slot'[l].pending => pc' = "drain"
      /\ slot[l].pending /\ ~ slot'[l].pending => queue[l] = <<>>
      /\ ~ slot[l].pending => ~ slot'[l].pending
  <2>1. CASE slot[l].pending
    <3>1. CollectLane(l)
      BY <1>1, <2>1
    <3>2. /\ Typed' /\ Running' /\ Roomy' /\ Behind' /\ InFlight' /\ Gathered'
          /\ AnswersInPlace'
          /\ \A m \in AllLanes : m # l => slot'[m] = slot[m]
          /\ slot'[l].pending => pc' = "drain"
          /\ queue[l] = <<>>
      BY <1>1, <1>4, <2>1, <3>1, CollectedStep
    <3> QED BY <2>1, <3>2
  <2>2. CASE ~ slot[l].pending
    <3>1. UNCHANGED <<slot, output, misses, hits, result>> /\ pc' = "last"
      BY <1>1, <1>2, <2>2
    <3>2. /\ Typed' /\ Running' /\ Roomy' /\ Behind' /\ InFlight' /\ Gathered'
          /\ AnswersInPlace'
      BY <1>1, <1>4, <3>1, MovesOn
    <3> QED BY <2>2, <3>1, <3>2
  <2> QED BY <2>1, <2>2
<1>7. Turns'
  <2>1. Batch' = Batch /\ Lanes' = Lanes
    BY <1>1, SameCall
  <2>2. pc' = "last" \/ pc' = "drain"
    BY <1>1
  <2>3. CASE pc' = "drain"
    BY <2>3 DEF Turns, InLoop
  <2>4. CASE pc' = "last"
    <3>1. ~ slot'[l].pending
      BY <1>6, <2>4
    <3>2. \A m \in AllLanes : slot'[m].pending \/ queue'[m] = <<>>
      <4>1. \A m \in AllLanes : slot[m].pending \/ queue[m] = <<>>
        BY <1>1, <1>2 DEF Turns
      <4> QED BY <1>1, <1>6, <3>1, <4>1
    <3>3. CASE loop = 0
      <4>1. l = lane /\ slot'[Other(lane)] = slot[Other(lane)]
        BY <1>2, <1>5, <1>6, <3>3
      <4> QED BY <1>1, <1>2, <2>1, <2>4, <3>1, <3>2, <3>3, <4>1
              DEF Turns, InLoop, Other
    <3>4. CASE loop = 1 /\ Lanes = 2
      <4>1. l = Other(lane) /\ slot'[lane] = slot[lane] /\ ~ slot[lane].pending
        BY <1>1, <1>2, <1>5, <1>6, <3>4 DEF Turns
      <4> QED BY <1>1, <1>2, <2>1, <2>4, <3>1, <3>2, <3>4, <4>1
              DEF Turns, InLoop, Other
    <3> QED BY <1>3, <3>3, <3>4
  <2> QED BY <2>2, <2>3, <2>4
<1> QED BY <1>6, <1>7 DEF IInv

----------------------------------------------------------------------------
(* The end of a call.                                                      *)

LEMMA ReturnStep == IInv /\ Return => IInv'
<1> SUFFICES ASSUME IInv, Return PROVE IInv'
  OBVIOUS
<1> USE DEF callVars, loopVars, laneVars, gpuVars, outVars
<1>1. /\ pc = "last" /\ loop = Lanes /\ pc' = "idle"
      /\ status' = "OK" /\ returned' = hits
      /\ UNCHANGED <<input, call, result, auxiliary, ready, begin, hits, lane,
                     loop, slot, capacity, workspace, host, device, queue,
                     prepared, sick, output, misses>>
  BY DEF Return
<1>2. /\ Typed /\ TypeOK /\ Running /\ Turns /\ Gathered /\ Behind /\ CallRuns
      /\ Batch \in Nat \ {0}
      /\ (Lanes = 1 \/ Lanes = 2) /\ lane \in AllLanes
      /\ Other(lane) \in AllLanes /\ (Lanes = 1 => Other(lane) = 1)
      /\ \A m \in AllLanes : m = lane \/ m = Other(lane)
  BY <1>1, InCall, LaneTurns DEF IInv
<1>3. ~ slot[lane].pending /\ ~ slot[Other(lane)].pending
  <2>1. ~ slot[lane].pending
    BY <1>1, <1>2 DEF Turns
  <2>2. Lanes = 2 => ~ slot[Other(lane)].pending
    BY <1>1, <1>2 DEF Turns
  <2>3. Lanes = 1 => ~ slot[1].pending
    BY <1>1, <1>2 DEF Running
  <2> QED BY <1>2, <2>1, <2>2, <2>3
<1>4. \A m \in AllLanes : queue[m] = <<>> /\ ~ slot[m].pending
  BY <1>1, <1>2, <1>3 DEF Turns
<1>5. /\ Call' = Call /\ Op' = Op /\ Batch' = Batch /\ Lanes' = Lanes
      /\ Capacity' = Capacity
      /\ UsedLanes' = UsedLanes /\ Verdict(Call)' = Verdict(Call)
  BY <1>1, SameCall
<1>6. Typed'
  <2>1. TypeOK'
    BY <1>1, <1>2, <1>5 DEF TypeOK
  <2> QED BY <1>1, <1>2, <2>1 DEF Typed, IsBuffer
<1>7. Running'
  <2>1. \A m \in AllLanes : queue'[m] = <<>> /\ Len(queue'[m]) = 0
    BY <1>1, <1>4, EmptySeq
  <2> QED BY <1>1, <1>4, <2>1 DEF Running
<1>8. Turns' /\ Gathered' /\ InFlight'
  BY <1>1 DEF Turns, Gathered, InFlight, InLoop
<1>9. Roomy'
  BY <1>1, <1>4 DEF Roomy, ChunkFits, InLoop
<1>10. Behind'
  BY <1>1, <1>2 DEF Behind, InLoop
<1>11. AnswersInPlace'
  <2>1. Collected = Batch
    BY <1>1, <1>2, <1>3 DEF Collected, Turns
  <2>2. Answers(Batch)
    BY <1>1, <1>2, <2>1 DEF Gathered, InLoop
  <2>3. {i \in 0 .. Batch - 1 : i \notin input.hits} = MissedBelow(Batch)
    BY DEF MissedBelow
  <2>4. /\ \A i \in 0 .. Batch - 1 : output'[i] = <<call, i>>
        /\ Op # "LOCATE" => returned' = Batch - Cardinality(MissedBelow(Batch))
        /\ Op = "TRY_FETCH" =>
             \A k \in 1 .. Cardinality(MissedBelow(Batch)) :
               misses'[k - 1] = Ascending(MissedBelow(Batch))[k]
    BY <1>1, <2>2 DEF Answers
  <2> QED BY <1>1, <1>5, <2>3, <2>4 DEF AnswersInPlace, MissedBelow
<1> QED BY <1>6, <1>7, <1>8, <1>9, <1>10, <1>11 DEF IInv

LEMMA DrainStep == IInv /\ Drain => IInv'
<1> SUFFICES ASSUME IInv, Drain PROVE IInv'
  OBVIOUS
<1> USE DEF callVars, loopVars, laneVars, gpuVars, outVars
<1>1. /\ pc = "drain" /\ pc' = "idle"
      /\ \A l \in UsedLanes : queue[l] = <<>>
      /\ slot' = [l \in AllLanes |->
                    IF l \in UsedLanes THEN [slot[l] EXCEPT !.pending = FALSE]
                                       ELSE slot[l]]
      /\ status' = result /\ returned' = 0
      /\ UNCHANGED <<input, call, result, auxiliary, ready, begin, hits, lane,
                     loop, capacity, workspace, host, device, queue,
                     prepared, sick, output, misses>>
  BY DEF Drain, Synchronized
<1>2. /\ Typed /\ TypeOK /\ Running /\ Behind /\ (Lanes = 1 \/ Lanes = 2)
      /\ result = "ERROR"
      /\ slot \in [AllLanes -> [begin : Nat, count : Nat, pending : BOOLEAN]]
  BY <1>1, InCall DEF IInv, Running, Typed
<1>3. slot' \in [AllLanes -> [begin : Nat, count : Nat, pending : BOOLEAN]]
  BY <1>1, <1>2
<1>4. \A l \in AllLanes : queue[l] = <<>> /\ ~ slot'[l].pending
  <2> SUFFICES ASSUME NEW l \in AllLanes
               PROVE  queue[l] = <<>> /\ ~ slot'[l].pending
    OBVIOUS
  <2>1. CASE l \in UsedLanes
    BY <1>1, <1>2, <2>1
  <2>2. CASE l \notin UsedLanes
    <3>1. Lanes = 1 /\ l = 1
      BY <1>2, <2>2 DEF UsedLanes, AllLanes
    <3>2. queue[1] = <<>> /\ ~ slot[1].pending
      BY <1>1, <1>2, <3>1 DEF Running
    <3> QED BY <1>1, <2>2, <3>1, <3>2
  <2> QED BY <2>1, <2>2
<1>5. Batch' = Batch
  BY <1>1, SameCall
<1>6. Typed'
  <2>1. TypeOK'
    BY <1>1, <1>2, <1>5 DEF TypeOK
  <2> QED BY <1>1, <1>2, <1>3, <2>1 DEF Typed, IsBuffer
<1>7. Running'
  <2>1. \A m \in AllLanes : queue'[m] = <<>> /\ Len(queue'[m]) = 0
    BY <1>1, <1>4, EmptySeq
  <2> QED BY <1>1, <1>4, <2>1 DEF Running
<1>8. Turns' /\ Gathered' /\ InFlight'
  BY <1>1 DEF Turns, Gathered, InFlight, InLoop
<1>9. Roomy'
  BY <1>1, <1>4 DEF Roomy, ChunkFits, InLoop
<1>10. Behind'
  BY <1>1, <1>2 DEF Behind, InLoop
<1>11. AnswersInPlace'
  BY <1>1, <1>2 DEF AnswersInPlace, Answered
<1> QED BY <1>6, <1>7, <1>8, <1>9, <1>10, <1>11 DEF IInv

----------------------------------------------------------------------------
(* Submitting a chunk.                                                     *)

(* Work at the end of a queue leaves what is before it.                    *)
LEMMA QueuedAfter ==
  ASSUME NEW q \in Seq(Jobs), NEW w \in Seq(Jobs)
  PROVE  /\ q \o w \in Seq(Jobs) /\ Len(q) \in Nat /\ Len(w) \in Nat
         /\ Len(q \o w) = Len(q) + Len(w)
         /\ \A i \in 1 .. Len(q) : (q \o w)[i] = q[i]
         /\ \A i \in 1 .. Len(w) : (q \o w)[Len(q) + i] = w[i]
         /\ (q # <<>> /\ q[1] = "prepare") =>
              q \o w # <<>> /\ (q \o w)[1] = "prepare"
<1>1. Len(q) \in Nat /\ Len(w) \in Nat
  BY LenProperties
<1>2. /\ q \o w \in Seq(Jobs) /\ Len(q \o w) = Len(q) + Len(w)
      /\ \A i \in 1 .. Len(q) + Len(w) :
           (q \o w)[i] = IF i <= Len(q) THEN q[i] ELSE w[i - Len(q)]
  BY ConcatProperties
<1>3. \A i \in 1 .. Len(q) : (q \o w)[i] = q[i]
  BY <1>1, <1>2
<1>4. ASSUME NEW i \in 1 .. Len(w)
      PROVE  (q \o w)[Len(q) + i] = w[i]
  <2>1. Len(q) + i \in 1 .. Len(q) + Len(w) /\ ~ (Len(q) + i <= Len(q))
        /\ (Len(q) + i) - Len(q) = i
    BY <1>1
  <2> QED BY <1>2, <2>1
<1>5. ASSUME q # <<>>, q[1] = "prepare"
      PROVE  q \o w # <<>> /\ (q \o w)[1] = "prepare"
  <2>1. Len(q) # 0
    BY <1>5, EmptySeq
  <2>2. 1 \in 1 .. Len(q) /\ Len(q \o w) # 0
    BY <1>1, <1>2, <2>1
  <2> QED BY <1>3, <1>5, <2>2, EmptySeq
<1> QED BY <1>1, <1>2, <1>3, <1>4, <1>5

(* The next chunk has keys, no more than the lane holds or the batch has   *)
(* left; the first of two lanes is filled.                                 *)
LEMMA NextChunk ==
  ASSUME IInv, pc = "submit"
  PROVE  /\ NextCount \in 1 .. Capacity /\ NextCount \in Nat
         /\ begin \in Nat /\ begin + NextCount \in 1 .. Batch
         /\ begin = 0 /\ Lanes = 2 => NextCount = Capacity
<1>1. /\ Batch \in Nat \ {0} /\ Capacity \in 1 .. Batch /\ Chunk \in Nat \ {0}
      /\ Lanes = 2 => Capacity = Chunk /\ Batch >= 2 * Chunk
      /\ begin \in Nat /\ begin < Batch
  BY InCall DEF IInv, Turns, Typed
<1> QED BY <1>1 DEF NextCount, Min2

LEMMA SubmitStep == IInv /\ Submit => IInv'
<1> SUFFICES ASSUME IInv, Submit PROVE IInv'
  OBVIOUS
<1> USE DEF callVars, loopVars, laneVars, gpuVars, outVars
<1> DEFINE n == NextCount
           s == [begin |-> begin, count |-> n, pending |-> TRUE]
<1>1. /\ pc = "submit"
      /\ slot' = [slot EXCEPT ![lane] = s]
      /\ host' = [host EXCEPT ![lane].keys = <<call, begin, n>>]
      /\ begin' = begin + n /\ lane' = NextInTurn
      /\ UNCHANGED <<input, call, status, returned, auxiliary, ready, hits,
                     loop, capacity, workspace, device, prepared, sick,
                     output, misses>>
  BY Zenon DEF Submit
<1>2. \E w \in Seq(Jobs) :
        /\ queue' = [queue EXCEPT ![lane] = @ \o w]
        /\ \/ pc' = "collect" /\ result' = result /\ w = Work
           \/ pc' = "drain" /\ result' = "ERROR"
  <2>1. Work \in Seq(Jobs)
    BY <1>1, InCall, WorkFacts
  <2>2. CASE queue' = [queue EXCEPT ![lane] = @ \o Work] /\ Go("collect")
    BY <2>1, <2>2 DEF Go
  <2>3. ASSUME NEW k \in 0 .. Len(Work),
               queue' = [queue EXCEPT
                           ![lane] = @ \o SubSeq(Work, 1, IF sick THEN 0 ELSE k)],
               Fail
        PROVE  \E w \in Seq(Jobs) :
                 /\ queue' = [queue EXCEPT ![lane] = @ \o w]
                 /\ pc' = "drain" /\ result' = "ERROR"
    <3> DEFINE j == IF sick THEN 0 ELSE k
    <3>1. Len(Work) \in Nat /\ \A i \in 1 .. Len(Work) : Work[i] \in Jobs
      BY <2>1, LenProperties, ElementOfSeq
    <3>2. j \in Int /\ \A i \in 1 .. j : i \in 1 .. Len(Work)
      BY <3>1
    <3> HIDE DEF j
    <3>3. SubSeq(Work, 1, j) \in Seq(Jobs)
      <4>1. 1 \in Int /\ \A i \in 1 .. j : Work[i] \in Jobs
        BY <3>1, <3>2
      <4> QED BY <3>2, <4>1, SubSeqProperties
    <3> QED BY <2>3, <3>3 DEF Fail, j
  <2>4. \/ queue' = [queue EXCEPT ![lane] = @ \o Work] /\ Go("collect")
        \/ \E k \in 0 .. Len(Work) :
             /\ queue' = [queue EXCEPT
                            ![lane] = @ \o SubSeq(Work, 1, IF sick THEN 0 ELSE k)]
             /\ Fail
    BY Zenon DEF Submit
  <2> QED BY <2>2, <2>3, <2>4
<1>3. PICK w \in Seq(Jobs) :
        /\ queue' = [queue EXCEPT ![lane] = @ \o w]
        /\ \/ pc' = "collect" /\ result' = result /\ w = Work
           \/ pc' = "drain" /\ result' = "ERROR"
  BY <1>2
<1>4. /\ Typed /\ TypeOK /\ Running /\ Turns /\ Roomy /\ Behind /\ InFlight
      /\ Gathered /\ CallRuns /\ Op \in Ops
      /\ Batch \in Nat \ {0} /\ Capacity \in Nat
      /\ (Lanes = 1 \/ Lanes = 2)
      /\ lane \in AllLanes /\ Other(lane) \in AllLanes /\ Other(lane) # lane
      /\ \A m \in AllLanes : m = lane \/ m = Other(lane)
      /\ Other(Other(lane)) = lane
      /\ Lanes = 1 => lane = 0 /\ Other(lane) = 1 /\ lane' = 0
      /\ Lanes = 2 => lane' = Other(lane)
  BY <1>1, InCall, LaneTurns DEF IInv
<1>5. /\ n \in 1 .. Capacity /\ n \in Nat /\ begin \in Nat
      /\ begin' \in 1 .. Batch /\ begin' \in Nat
      /\ begin = 0 /\ Lanes = 2 => n = Capacity
  BY <1>1, NextChunk
<1> HIDE DEF n
<1>6. /\ Call' = Call /\ Op' = Op /\ Batch' = Batch /\ Lanes' = Lanes
      /\ Capacity' = Capacity /\ Work' = Work
      /\ UsedLanes' = UsedLanes /\ Verdict(Call)' = Verdict(Call)
  BY <1>1, SameCall
<1>7. /\ slot' \in [AllLanes -> [begin : Nat, count : Nat, pending : BOOLEAN]]
      /\ slot'[lane] = s
      /\ \A m \in AllLanes : m # lane => slot'[m] = slot[m]
      /\ s.begin = begin /\ s.count = n /\ s.pending = TRUE
  <2>1. slot \in [AllLanes -> [begin : Nat, count : Nat, pending : BOOLEAN]]
    BY <1>4 DEF Typed
  <2>2. s \in [begin : Nat, count : Nat, pending : BOOLEAN]
    BY <1>5
  <2> QED BY <1>1, <1>4, <2>1, <2>2
<1> HIDE DEF s
<1>8. /\ queue' \in [AllLanes -> Seq(Jobs)]
      /\ queue'[lane] = queue[lane] \o w
      /\ queue[lane] \in Seq(Jobs)
      /\ \A m \in AllLanes : m # lane => queue'[m] = queue[m]
      /\ \A k \in 1 .. Len(queue[lane]) : queue[lane][k] \in Setup(lane)
  <2>1. queue \in [AllLanes -> Seq(Jobs)] /\ queue[lane] \in Seq(Jobs)
    BY <1>4 DEF Typed
  <2>2. queue[lane] \o w \in Seq(Jobs)
    BY <2>1, QueuedAfter
  <2>3. ~ slot[lane].pending
    BY <1>1, <1>4 DEF Turns
  <2>4. \A k \in 1 .. Len(queue[lane]) : queue[lane][k] \in Setup(lane)
    BY <1>4, <2>3 DEF Running
  <2> QED BY <1>3, <1>4, <2>1, <2>2, <2>4
<1>9. /\ host' = [m \in AllLanes |-> host'[m]]
      /\ \A m \in AllLanes : IsBuffer(host'[m])
      /\ \A m \in AllLanes : m # lane => host'[m] = host[m]
      /\ host'[lane].keys = <<call, begin, n>>
  <2>1. /\ host = [m \in AllLanes |-> host[m]]
        /\ \A m \in AllLanes : IsBuffer(host[m])
    BY <1>4 DEF Typed
  <2> DEFINE h == [host[lane] EXCEPT !.keys = <<call, begin, n>>]
  <2>2. IsBuffer(h) /\ h.keys = <<call, begin, n>>
    BY <1>4, <2>1 DEF IsBuffer
  <2>3. host' = [host EXCEPT ![lane] = h]
    BY <1>1
  <2> HIDE DEF h
  <2>4. \A m \in AllLanes : host'[m] = IF m = lane THEN h ELSE host[m]
    BY <1>4, <2>1, <2>3
  <2>5. host' = [m \in AllLanes |-> host'[m]]
    BY <2>1, <2>3, <2>4
  <2> QED BY <1>4, <2>1, <2>2, <2>4, <2>5
<1>10. Typed'
  <2>1. hits' \in 0 .. begin' /\ begin' \in 0 .. Batch'
    <3>1. hits \in 0 .. begin
      BY <1>1, <1>4 DEF TypeOK
    <3> QED BY <1>1, <1>5, <1>6, <3>1
  <2>2. lane' \in AllLanes
    BY <1>4 DEF AllLanes
  <2>3. /\ pc' \in {"idle", "streams", "reserve", "record", "wait", "collect",
                    "submit", "last", "drain"}
        /\ result' \in {"OK", "ERROR"}
    BY <1>3, <1>4 DEF TypeOK
  <2>4. TypeOK'
    BY <1>1, <1>4, <1>6, <2>1, <2>2, <2>3 DEF TypeOK
  <2> QED BY <1>1, <1>4, <1>5, <1>7, <1>8, <1>9, <2>4 DEF Typed, IsBuffer
<1>11. Running'
  <2>1. /\ call \in 1 .. Len(input.calls) /\ Verdict(Call) = "RUN"
        /\ Lanes = 1 => queue[1] = <<>> /\ ~ slot[1].pending
        /\ DOMAIN output = 0 .. Batch - 1
        /\ Op = "LOCATE" => hits = 0
        /\ result = "OK"
    BY <1>1, <1>4 DEF Running
  <2>2. lane' \in UsedLanes'
    <3>1. lane' \in 0 .. Lanes - 1
      BY <1>4 DEF AllLanes
    <3> QED BY <1>6, <3>1 DEF UsedLanes
  <2>3. Lanes = 1 => queue'[1] = <<>> /\ ~ slot'[1].pending
    BY <1>4, <1>7, <1>8, <2>1
  <2>4. \A m \in AllLanes :
          slot'[m].pending \/ \A k \in 1 .. Len(queue'[m]) : queue'[m][k] \in Setup(m)
    <3>1. \A m \in AllLanes :
            slot[m].pending \/ \A k \in 1 .. Len(queue[m]) : queue[m][k] \in Setup(m)
      BY <1>4 DEF Running
    <3>2. slot'[lane].pending
      BY <1>7
    <3>3. \A m \in AllLanes : m # lane => slot'[m] = slot[m] /\ queue'[m] = queue[m]
      BY <1>7, <1>8
    <3> QED BY <3>1, <3>2, <3>3, Zenon
  <2>5. /\ pc' \in {"collect", "drain"}
        /\ pc' # "drain" => result' = "OK"
        /\ pc' = "drain" => result' = "ERROR"
    BY <1>3, <2>1
  <2> QED BY <1>1, <1>6, <2>1, <2>2, <2>3, <2>4, <2>5 DEF Running
<1>12. Turns'
  <2>1. CASE pc' = "drain"
    BY <2>1 DEF Turns, InLoop
  <2>2. CASE pc' = "collect" /\ Lanes = 1
    <3>1. /\ lane' = lane /\ slot'[lane].pending
          /\ slot'[lane].begin + slot'[lane].count = begin'
          /\ ~ slot'[Other(lane)].pending
      <4>1. ~ slot[Other(lane)].pending
        BY <1>1, <1>4, <2>2 DEF Running
      <4> QED BY <1>1, <1>4, <1>7, <2>2, <4>1
    <3> QED BY <1>6, <2>2, <3>1 DEF Turns, InLoop, Other
  <2>3. CASE pc' = "collect" /\ Lanes = 2
    <3>1. /\ lane' = Other(lane) /\ Other(lane)' = lane
          /\ slot'[lane].pending
          /\ slot'[lane].begin = begin
          /\ slot'[lane].begin + slot'[lane].count = begin'
          /\ slot'[lane'] = slot[Other(lane)]
      <4>1. lane' = Other(lane)
        BY <1>4, <2>3
      <4>2. Other(lane)' = Other(Other(lane))
        BY <4>1 DEF Other
      <4> QED BY <1>1, <1>4, <1>7, <4>1, <4>2
    <3>2. slot[Other(lane)].pending =>
            slot[Other(lane)].begin + slot[Other(lane)].count = begin
      BY <1>1, <1>4 DEF Turns, InLoop
    <3>3. ~ slot[Other(lane)].pending => begin' = lane' * Capacity
      <4>1. SUFFICES ASSUME ~ slot[Other(lane)].pending
                     PROVE  begin' = lane' * Capacity
        OBVIOUS
      <4>2. begin = 0 /\ lane = 0
        BY <1>1, <1>4, <2>3, <4>1 DEF Turns
      <4>3. lane' = 1 /\ 1 * Capacity = Capacity
        BY <1>4, <3>1, <4>2 DEF Other
      <4> QED BY <1>1, <1>4, <1>5, <2>3, <4>2, <4>3
    <3> QED BY <1>6, <2>3, <3>1, <3>2, <3>3 DEF Turns, InLoop
  <2> QED BY <1>3, <1>4, <2>1, <2>2, <2>3
<1>13. Roomy'
  <2>1. \A m \in UsedLanes : Reserved(m)
    BY <1>1, <1>4 DEF Roomy, InLoop
  <2>2. \A m \in UsedLanes : Reserved(m)'
    BY <1>1, <2>1, ReservedKept
  <2>3. ChunkFits'
    <3>1. Reserved(lane)
      BY <1>1, <1>4, <2>1 DEF Running
    <3>2. /\ LayoutTotal(Op, n) <= capacity[lane]
          /\ Op = "TRY_FETCH" => n <= workspace[lane]
      <4>1. /\ LayoutTotal(Op, n) \in Nat /\ LayoutTotal(Op, Capacity) \in Nat
            /\ LayoutTotal(Op, n) <= LayoutTotal(Op, Capacity)
        BY <1>4, <1>5, LayoutGrows
      <4>2. capacity[lane] \in Nat /\ workspace[lane] \in Nat
        BY <1>4 DEF Typed
      <4> QED BY <1>4, <1>5, <3>1, <4>1, <4>2 DEF Reserved
    <3>3. \A x : LayoutTotal(Op', x) = LayoutTotal(Op, x)
      BY <1>6 DEF LayoutTotal
    <3>4. \A m \in AllLanes : slot[m].pending =>
            /\ LayoutTotal(Op, slot[m].count) <= capacity[m]
            /\ Op = "TRY_FETCH" => slot[m].count <= workspace[m]
      BY <1>4 DEF Roomy, ChunkFits
    <3>5. ASSUME NEW m \in AllLanes, slot'[m].pending
          PROVE  /\ LayoutTotal(Op', slot'[m].count) <= capacity'[m]
                 /\ Op' = "TRY_FETCH" => slot'[m].count <= workspace'[m]
      <4>1. LayoutTotal(Op', slot'[m].count) = LayoutTotal(Op, slot'[m].count)
        BY <3>3, Zenon
      <4>2. CASE m = lane
        <5>1. slot'[m].count = n
          BY <1>7, <4>2
        <5>2. LayoutTotal(Op, slot'[m].count) = LayoutTotal(Op, n)
          BY <5>1
        <5> QED BY <1>1, <1>6, <3>2, <4>1, <4>2, <5>1, <5>2
      <4>3. CASE m # lane
        <5>1. slot'[m] = slot[m]
          BY <1>7, <4>3
        <5>2. LayoutTotal(Op, slot'[m].count) = LayoutTotal(Op, slot[m].count)
          BY <5>1
        <5> QED BY <1>1, <1>6, <3>4, <3>5, <4>1, <5>1, <5>2
      <4> QED BY <4>2, <4>3
    <3> QED BY <3>5 DEF ChunkFits
  <2>4. pc' # "reserve"
    BY <1>3
  <2> QED BY <1>6, <2>2, <2>3, <2>4 DEF Roomy
<1>14. Behind'
  <2> SUFFICES ASSUME ~ sick PROVE Behind'
    BY <1>1 DEF Behind
  <2>1. ~ prepared => queue'[0] # <<>> /\ queue'[0][1] = "prepare"
    <3>1. ~ prepared => queue[0] # <<>> /\ queue[0][1] = "prepare"
      BY <1>4 DEF Behind
    <3>2. CASE lane = 0
      BY <1>8, <3>1, <3>2, QueuedAfter
    <3>3. CASE lane # 0
      BY <1>8, <3>1, <3>3 DEF AllLanes
    <3> QED BY <3>2, <3>3
  <2>2. Lanes = 2 => ready = "recorded" \/ (ready = "done" /\ prepared)
    BY <1>1, <1>4 DEF Behind, InLoop
  <2>3. Lanes = 2 /\ ~ prepared =>
          \E k \in 1 .. Len(queue'[1]) :
            /\ queue'[1][k] = "wait"
            /\ \A j \in 1 .. k - 1 : queue'[1][j] \in Setup(1)
    <3>1. SUFFICES ASSUME Lanes = 2, ~ prepared
                   PROVE  \E k \in 1 .. Len(queue'[1]) :
                            /\ queue'[1][k] = "wait"
                            /\ \A j \in 1 .. k - 1 : queue'[1][j] \in Setup(1)
      OBVIOUS
    <3>2. PICK k \in 1 .. Len(queue[1]) :
            /\ queue[1][k] = "wait"
            /\ \A j \in 1 .. k - 1 : queue[1][j] \in Setup(1)
      BY <1>1, <1>4, <3>1 DEF Behind, InLoop
    <3>3. CASE lane = 1
      <4>1. /\ Len(queue'[1]) = Len(queue[1]) + Len(w)
            /\ Len(queue[1]) \in Nat /\ Len(w) \in Nat
            /\ \A i \in 1 .. Len(queue[1]) : queue'[1][i] = queue[1][i]
        BY <1>8, <3>3, QueuedAfter
      <4>2. k \in 1 .. Len(queue'[1]) /\ \A j \in 1 .. k - 1 : j \in 1 .. Len(queue[1])
        BY <4>1
      <4> QED BY <3>2, <4>1, <4>2
    <3>4. CASE lane # 1
      <4>1. queue'[1] = queue[1]
        BY <1>8, <3>4 DEF AllLanes
      <4> QED BY <3>2, <4>1
    <3> QED BY <3>3, <3>4
  <2> QED BY <1>1, <1>6, <2>1, <2>2, <2>3 DEF Behind
<1>15. InFlight'
  <2> SUFFICES ASSUME pc' \in InLoop, ~ sick', NEW m \in AllLanes,
                      slot'[m].pending
               PROVE  Chained(m)'
    BY DEF InFlight
  <2>1. w = Work
    BY <1>3 DEF InLoop
  <2>2. CASE m # lane
    <3>1. slot'[m] = slot[m] /\ host'[m] = host[m] /\ queue'[m] = queue[m]
      BY <1>7, <1>8, <1>9, <2>2
    <3>2. Chained(m)
      BY <1>1, <1>4, <3>1 DEF InFlight, InLoop
    <3> QED BY <1>1, <3>1, <3>2, ChainedKept
  <2>3. CASE m = lane
    <3> DEFINE p == Len(queue[lane])
    <3>1. /\ p \in Nat /\ Len(w) \in Nat /\ Len(queue'[lane]) = p + Len(w)
          /\ \A i \in 1 .. p : queue'[lane][i] = queue[lane][i]
          /\ \A i \in 1 .. Len(w) : queue'[lane][p + i] = w[i]
      BY <1>8, QueuedAfter
    <3>2. Len(w) >= 3
      BY <1>4, <2>1, WorkFacts DEF Ops
    <3>3. host'[lane].keys = <<call', slot'[lane].begin, slot'[lane].count>>
      BY <1>1, <1>7, <1>9
    <3> HIDE DEF p
    <3>4. Len(queue'[lane]) - Len(Work') = p
      BY <1>6, <2>1, <3>1
    <3>5. /\ \A i \in 1 .. Len(Work') : queue'[lane][p + i] = Work'[i]
          /\ \A i \in 1 .. p : queue'[lane][i] \in Setup(lane)
      <4>1. \A i \in 1 .. p : queue[lane][i] \in Setup(lane)
        BY <1>8 DEF p
      <4> QED BY <1>6, <2>1, <3>1, <4>1
    <3>6. /\ ~ (Len(queue'[lane]) < Len(Work'))
          /\ Len(queue'[lane]) # 2 /\ ~ (Len(queue'[lane]) <= 1)
          /\ Len(queue'[lane]) # 0
      BY <1>6, <2>1, <3>1, <3>2
    <3>7. Stage(m, Len(queue[m]))'
      BY <2>3, <3>6 DEF Stage
    <3> QED BY <2>3, <3>3, <3>4, <3>5, <3>7 DEF Chained
  <2> QED BY <2>2, <2>3
<1>16. Gathered'
  <2> SUFFICES ASSUME pc' \in InLoop PROVE Answers(Collected)'
    BY DEF Gathered
  <2>1. Collected' = Collected
    <3>1. ~ slot[lane].pending
      BY <1>1, <1>4 DEF Turns
    <3>2. Collected = IF slot[Other(lane)].pending THEN slot[Other(lane)].begin
                      ELSE begin
      BY <3>1 DEF Collected
    <3>3. CASE Lanes = 1
      <4>1. ~ slot[Other(lane)].pending
        BY <1>1, <1>4, <3>3 DEF Running
      <4>2. slot'[lane'].pending /\ slot'[lane'].begin = begin
        BY <1>4, <1>7, <3>3
      <4> QED BY <3>2, <4>1, <4>2 DEF Collected
    <3>4. CASE Lanes = 2
      <4>1. /\ lane' = Other(lane) /\ Other(lane') = lane
            /\ slot'[lane'] = slot[Other(lane)]
            /\ slot'[Other(lane')].pending /\ slot'[Other(lane')].begin = begin
        BY <1>4, <1>7, <3>4
      <4> QED BY <3>2, <4>1 DEF Collected, Other
    <3> QED BY <1>4, <3>3, <3>4
  <2>2. Answers(Collected)
    BY <1>1, <1>4 DEF Gathered, InLoop
  <2> QED BY <1>1, <1>6, <2>1, <2>2 DEF Answers, MissedBelow
<1>17. AnswersInPlace'
  <2>1. pc' # "idle"
    BY <1>3
  <2> QED BY <2>1 DEF AnswersInPlace, Answered
<1> QED BY <1>10, <1>11, <1>12, <1>13, <1>14, <1>15, <1>16, <1>17 DEF IInv

----------------------------------------------------------------------------
(* The device at work.                                                     *)

(* The first job of a queue, and those that are left after it.             *)
LEMMA JobDone ==
  ASSUME NEW q \in Seq(Jobs), q # <<>>
  PROVE  /\ Head(q) = q[1] /\ Len(q) \in Nat \ {0}
         /\ Tail(q) \in Seq(Jobs) /\ Len(Tail(q)) = Len(q) - 1
         /\ \A i \in 1 .. Len(q) - 1 : Tail(q)[i] = q[i + 1]
<1>1. Len(q) \in Nat \ {0}
  BY LenProperties, EmptySeq
<1>2. /\ Tail(q) \in Seq(Jobs) /\ Len(Tail(q)) = Len(q) - 1
      /\ \A i \in 1 .. Len(Tail(q)) : Tail(q)[i] = q[i + 1]
  BY HeadTailProperties
<1>3. Head(q) = q[1]
  OBVIOUS
<1> QED BY <1>1, <1>2, <1>3

(* What a job makes of the buffer on the device.                           *)
Made(l, op) ==
  LET d == device[l]
  IN  CASE op = "zero" -> Blank
        [] op = "in" -> [d EXCEPT !.keys = host[l].keys]
        [] op = "reset" -> [d EXCEPT !.count = 0]
        [] op = "kernel" /\ Op \in {"CHECK", "FETCH"} ->
             [d EXCEPT !.out = Looked(d.keys),
                       !.count = @ + Cardinality(HitsOf(d.keys))]
        [] op = "kernel" /\ Op \notin {"CHECK", "FETCH"} ->
             [d EXCEPT !.out = Looked(d.keys),
                       !.flags = (0 .. d.keys[3] - 1) \ HitsOf(d.keys)]
        [] op = "select" -> [d EXCEPT !.miss = Ascending(d.flags),
                                      !.count = Cardinality(d.flags)]
        [] OTHER -> d

LEMMA MadeFacts ==
  ASSUME NEW l, NEW op, IsBuffer(device[l])
  PROVE  /\ IsBuffer(Made(l, op))
         /\ op = "in" => /\ Made(l, op).keys = host[l].keys
                         /\ Made(l, op).out = device[l].out
         /\ op = "reset" => /\ Made(l, op).keys = device[l].keys
                            /\ Made(l, op).count = 0
         /\ op = "kernel" =>
              /\ Made(l, op).keys = device[l].keys
              /\ Made(l, op).out = Looked(device[l].keys)
         /\ op = "kernel" /\ Op \in {"CHECK", "FETCH"} =>
              Made(l, op).count =
                device[l].count + Cardinality(HitsOf(device[l].keys))
         /\ op = "kernel" /\ Op \notin {"CHECK", "FETCH"} =>
              Made(l, op).flags =
                (0 .. device[l].keys[3] - 1) \ HitsOf(device[l].keys)
         /\ op = "select" =>
              /\ Made(l, op).keys = device[l].keys
              /\ Made(l, op).out = device[l].out
              /\ Made(l, op).miss = Ascending(device[l].flags)
              /\ Made(l, op).count = Cardinality(device[l].flags)
         /\ op = "out" => Made(l, op) = device[l]
<1> DEFINE d == device[l]
           found == Looked(d.keys)
           more == Cardinality(HitsOf(d.keys))
           flags == (0 .. d.keys[3] - 1) \ HitsOf(d.keys)
           miss == Ascending(d.flags)
           count == Cardinality(d.flags)
<1>1. Made(l, op) =
        CASE op = "zero" -> Blank
          [] op = "in" -> [d EXCEPT !.keys = host[l].keys]
          [] op = "reset" -> [d EXCEPT !.count = 0]
          [] op = "kernel" /\ Op \in {"CHECK", "FETCH"} ->
               [d EXCEPT !.out = found, !.count = @ + more]
          [] op = "kernel" /\ Op \notin {"CHECK", "FETCH"} ->
               [d EXCEPT !.out = found, !.flags = flags]
          [] op = "select" -> [d EXCEPT !.miss = miss, !.count = count]
          [] OTHER -> d
  BY Zenon DEF Made
<1>2. d = [keys |-> d.keys, out |-> d.out, flags |-> d.flags,
           count |-> d.count, miss |-> d.miss]
  BY DEF IsBuffer
<1> HIDE DEF found, more, flags, miss, count, d
<1>3. CASE op = "zero"
  BY <1>1, <1>3 DEF IsBuffer, Blank
<1>4. CASE op = "in"
  BY <1>1, <1>2, <1>4 DEF IsBuffer, d
<1>5. CASE op = "reset"
  BY <1>1, <1>2, <1>5 DEF IsBuffer, d
<1>6. CASE op = "kernel" /\ Op \in {"CHECK", "FETCH"}
  <2>1. Made(l, op) = [d EXCEPT !.out = found, !.count = @ + more]
    BY <1>1, <1>6
  <2>2. Made(l, op) = [keys |-> d.keys, out |-> found, flags |-> d.flags,
                       count |-> d.count + more, miss |-> d.miss]
    BY <1>2, <2>1
  <2> QED BY <1>6, <2>2 DEF IsBuffer, d, found, more
<1>7. CASE op = "kernel" /\ Op \notin {"CHECK", "FETCH"}
  <2>1. Made(l, op) = [d EXCEPT !.out = found, !.flags = flags]
    BY <1>1, <1>7
  <2>2. Made(l, op) = [keys |-> d.keys, out |-> found, flags |-> flags,
                       count |-> d.count, miss |-> d.miss]
    BY <1>2, <2>1
  <2> QED BY <1>7, <2>2 DEF IsBuffer, d, found, flags
<1>8. CASE op = "select"
  <2>1. Made(l, op) = [d EXCEPT !.miss = miss, !.count = count]
    BY <1>1, <1>8
  <2>2. Made(l, op) = [keys |-> d.keys, out |-> d.out, flags |-> d.flags,
                       count |-> count, miss |-> miss]
    BY <1>2, <2>1
  <2> QED BY <1>8, <2>2 DEF IsBuffer, d, miss, count
<1>9. CASE op \notin {"zero", "in", "reset", "kernel", "select"}
  BY <1>1, <1>2, <1>9 DEF IsBuffer, d
<1> QED BY <1>3, <1>4, <1>5, <1>6, <1>7, <1>8, <1>9

(* A kernel that finds the table ready has the right answers.              *)
LEMMA LookedUp ==
  ASSUME prepared, NEW b, NEW n
  PROVE  /\ Looked(<<call, b, n>>) = AnswersOf(b, n)
         /\ HitsOf(<<call, b, n>>) = HitsIn(b, n)
         /\ (0 .. <<call, b, n>>[3] - 1) \ HitsOf(<<call, b, n>>) = MissedIn(b, n)
<1>1. <<call, b, n>>[1] = call /\ <<call, b, n>>[2] = b /\ <<call, b, n>>[3] = n
  OBVIOUS
<1>2. HitsOf(<<call, b, n>>) = HitsIn(b, n)
  BY <1>1 DEF HitsOf, HitsIn
<1> QED BY <1>1, <1>2 DEF Looked, AnswersOf, MissedIn

(* The device does a job.                                                  *)
LEMMA ExecuteFacts ==
  ASSUME IInv, NEW l \in AllLanes, Execute(l)
  PROVE  LET op == Head(queue[l])
         IN  /\ pc # "idle" /\ queue[l] # <<>>
             /\ op = "wait" => sick \/ ready = "done"
             /\ queue' = [queue EXCEPT ![l] = Tail(@)]
             /\ prepared' = (prepared \/ (op = "prepare" /\ ~ sick))
             /\ ready' = IF op = "record" THEN "done" ELSE ready
             /\ device' = IF sick THEN device
                          ELSE [device EXCEPT ![l] = Made(l, op)]
             /\ host' = IF op = "out" /\ ~ sick
                        THEN [host EXCEPT ![l] =
                                [device[l] EXCEPT !.keys = host[l].keys]]
                        ELSE host
             /\ UNCHANGED <<input, pc, call, result, status, returned,
                            auxiliary, begin, hits, lane, loop, slot, capacity,
                            workspace, sick, output, misses>>
<1> USE DEF callVars, loopVars, laneVars, gpuVars, outVars
<1>1. queue[l] # <<>>
  BY Zenon DEF Execute
<1>2. pc # "idle"
  BY <1>1, IdleFacts
<1> QED BY <1>1, <1>2, Zenon DEF Execute, Made

(* The lane at work has one job less; its buffers are buffers, with the    *)
(* keys the host has staged; nothing happens to the other lane.            *)
LEMMA WorkedFacts ==
  ASSUME IInv, NEW l \in AllLanes, Execute(l)
  PROVE  LET op == Head(queue[l])
         IN  /\ queue[l] \in Seq(Jobs) /\ op = queue[l][1]
             /\ queue' \in [AllLanes -> Seq(Jobs)]
             /\ Len(queue[l]) \in Nat \ {0}
             /\ Len(queue'[l]) = Len(queue[l]) - 1
             /\ \A i \in 1 .. Len(queue[l]) - 1 : queue'[l][i] = queue[l][i + 1]
             /\ \A m \in AllLanes : m # l =>
                  /\ queue'[m] = queue[m]
                  /\ host'[m] = host[m] /\ device'[m] = device[m]
             /\ host' = [m \in AllLanes |-> host'[m]]
             /\ device' = [m \in AllLanes |-> device'[m]]
             /\ \A m \in AllLanes : IsBuffer(host'[m]) /\ IsBuffer(device'[m])
             /\ host'[l].keys = host[l].keys
             /\ ~ sick => device'[l] = Made(l, op)
             /\ op # "out" => host'[l] = host[l]
             /\ op = "out" /\ ~ sick =>
                  /\ host'[l].out = device[l].out
                  /\ host'[l].count = device[l].count
                  /\ host'[l].miss = device[l].miss
<1> DEFINE op == Head(queue[l])
           h == [device[l] EXCEPT !.keys = host[l].keys]
<1>1. /\ pc # "idle" /\ queue[l] # <<>>
      /\ queue' = [queue EXCEPT ![l] = Tail(@)]
      /\ device' = IF sick THEN device
                   ELSE [device EXCEPT ![l] = Made(l, op)]
      /\ host' = IF op = "out" /\ ~ sick THEN [host EXCEPT ![l] = h] ELSE host
  BY ExecuteFacts
<1>2. /\ queue \in [AllLanes -> Seq(Jobs)] /\ queue[l] \in Seq(Jobs)
      /\ host = [m \in AllLanes |-> host[m]]
      /\ device = [m \in AllLanes |-> device[m]]
      /\ \A m \in AllLanes : IsBuffer(host[m]) /\ IsBuffer(device[m])
  BY DEF IInv, Typed
<1>3. /\ Head(queue[l]) = queue[l][1] /\ Len(queue[l]) \in Nat \ {0}
      /\ Tail(queue[l]) \in Seq(Jobs) /\ Len(Tail(queue[l])) = Len(queue[l]) - 1
      /\ \A i \in 1 .. Len(queue[l]) - 1 : Tail(queue[l])[i] = queue[l][i + 1]
  BY <1>1, <1>2, JobDone
<1>4. /\ queue' \in [AllLanes -> Seq(Jobs)] /\ queue'[l] = Tail(queue[l])
      /\ \A m \in AllLanes : m # l => queue'[m] = queue[m]
  BY <1>1, <1>2, <1>3
<1>5. /\ IsBuffer(h) /\ h.keys = host[l].keys /\ h.out = device[l].out
      /\ h.count = device[l].count /\ h.miss = device[l].miss
  <2> DEFINE d == device[l]  k == host[l].keys
  <2>1. d = [keys |-> d.keys, out |-> d.out, flags |-> d.flags,
             count |-> d.count, miss |-> d.miss]
    BY <1>2 DEF IsBuffer
  <2>2. h = [d EXCEPT !.keys = k]
    OBVIOUS
  <2> HIDE DEF d, k, h
  <2>3. h = [keys |-> k, out |-> d.out, flags |-> d.flags,
             count |-> d.count, miss |-> d.miss]
    BY <2>1, <2>2
  <2> QED BY <2>3 DEF IsBuffer, d, k
<1>6. IsBuffer(Made(l, op))
  BY <1>2, MadeFacts
<1> HIDE DEF h, op
<1>7. /\ host' = [m \in AllLanes |-> host'[m]]
      /\ \A m \in AllLanes : IsBuffer(host'[m])
      /\ \A m \in AllLanes : m # l => host'[m] = host[m]
      /\ op = "out" /\ ~ sick => host'[l] = h
      /\ ~ (op = "out" /\ ~ sick) => host' = host
  <2>1. CASE op = "out" /\ ~ sick
    <3>1. host' = [host EXCEPT ![l] = h]
      BY <1>1, <2>1
    <3>2. \A m \in AllLanes : host'[m] = IF m = l THEN h ELSE host[m]
      BY <1>2, <3>1
    <3>3. host' = [m \in AllLanes |-> host'[m]]
      BY <1>2, <3>1, <3>2
    <3> QED BY <1>2, <1>5, <2>1, <3>2, <3>3
  <2>2. CASE ~ (op = "out" /\ ~ sick)
    <3>1. host' = host
      BY <1>1, <2>2
    <3> QED BY <1>2, <2>2, <3>1 DEF IsBuffer
  <2> QED BY <2>1, <2>2
<1>8. /\ device' = [m \in AllLanes |-> device'[m]]
      /\ \A m \in AllLanes : IsBuffer(device'[m])
      /\ \A m \in AllLanes : m # l => device'[m] = device[m]
      /\ ~ sick => device'[l] = Made(l, op)
  <2>1. CASE ~ sick
    <3>1. device' = [device EXCEPT ![l] = Made(l, op)]
      BY <1>1, <2>1
    <3>2. \A m \in AllLanes :
            device'[m] = IF m = l THEN Made(l, op) ELSE device[m]
      BY <1>2, <3>1
    <3>3. device' = [m \in AllLanes |-> device'[m]]
      BY <1>2, <3>1, <3>2
    <3> QED BY <1>2, <1>6, <3>2, <3>3
  <2>2. CASE sick
    <3>1. device' = device
      BY <1>1, <2>2
    <3> QED BY <1>2, <2>2, <3>1 DEF IsBuffer
  <2> QED BY <2>1, <2>2
<1>9. host'[l].keys = host[l].keys /\ (op # "out" => host'[l] = host[l])
  BY <1>5, <1>7
<1>10. op = "out" /\ ~ sick =>
         /\ host'[l].out = device[l].out /\ host'[l].count = device[l].count
         /\ host'[l].miss = device[l].miss
  BY <1>5, <1>7
<1> QED BY <1>2, <1>3, <1>4, <1>7, <1>8, <1>9, <1>10 DEF op

(* A kernel finds the caller's work done.                                  *)
LEMMA KernelBehind ==
  ASSUME IInv, pc \in InLoop, ~ sick, NEW l \in AllLanes, slot[l].pending,
         queue[l] # <<>>, queue[l][1] = "kernel"
  PROVE  prepared
<1> SUFFICES ASSUME ~ prepared PROVE FALSE
  OBVIOUS
<1>1. /\ Behind /\ Running /\ (Lanes = 1 \/ Lanes = 2) /\ pc # "idle"
      /\ queue[l] \in Seq(Jobs)
  <2>1. pc # "idle"
    BY DEF InLoop
  <2> QED BY <2>1, InCall DEF IInv, Typed
<1>2. CASE l = 0
  <2>1. queue[0][1] = "prepare"
    BY <1>1 DEF Behind
  <2> QED BY <1>2, <2>1
<1>3. CASE l = 1
  <2>1. Lanes = 2
    BY <1>1, <1>3 DEF Running
  <2>2. PICK k \in 1 .. Len(queue[1]) :
          /\ queue[1][k] = "wait"
          /\ \A j \in 1 .. k - 1 : queue[1][j] \in Setup(1)
    BY <1>1, <2>1 DEF Behind
  <2>3. CASE k = 1
    BY <1>3, <2>2, <2>3
  <2>4. CASE k # 1
    <3>1. 1 \in 1 .. k - 1
      BY <1>1, <1>3, <2>4, LenProperties
    <3>2. queue[1][1] \in Setup(1)
      BY <2>2, <3>1
    <3> QED BY <1>3, <3>2 DEF Setup
  <2> QED BY <2>3, <2>4
<1> QED BY <1>2, <1>3 DEF AllLanes

(* Stage, of work of length w that has p jobs left, with the buffers x on  *)
(* the device and y on the host, for the answers out, c hits and misses m. *)
Staged(p, w, op, x, y, out, c, m) ==
  /\ p < w => x.keys = y.keys
  /\ op \in {"CHECK", "FETCH"} => /\ p = 2 => x.count = 0
                                  /\ p <= 1 => x.count = c
  /\ op = "TRY_FETCH" =>
       /\ p = 2 => x.flags = m
       /\ p <= 1 => x.count = Cardinality(m) /\ x.miss = Ascending(m)
  /\ p <= 1 \/ (p = 2 /\ op = "TRY_FETCH") => x.out = out
  /\ p = 0 => y.out = x.out /\ y.count = x.count /\ y.miss = x.miss

(* A queue s of q jobs has the w of the work, or what is left of them,     *)
(* after its set-up.                                                       *)
Ends(s, q, work, w, setup) ==
  /\ \A i \in 1 .. w : q - w + i >= 1 => s[q - w + i] = work[i]
  /\ \A i \in 1 .. q - w : s[i] \in setup

Progress(l) ==
  LET b == slot[l].begin
      n == slot[l].count
      q == Len(queue[l])
      w == Len(Work)
  IN  /\ host[l].keys = <<call, b, n>>
      /\ Ends(queue[l], q, Work, w, Setup(l))
      /\ Staged(q, w, Op, device[l], host[l], AnswersOf(b, n),
                Cardinality(HitsIn(b, n)), MissedIn(b, n))

LEMMA ChainedIs ==
  ASSUME NEW l \in AllLanes
  PROVE  (Chained(l) <=> Progress(l)) /\ (Progress(l)' => Chained(l)')
BY DEF Chained, Stage, Progress, Staged, Ends

(* The names of the work of an operation.                                  *)
WorkOf(op, work, w) ==
  /\ op = "LOCATE" =>
       w = 3 /\ work[1] = "in" /\ work[2] = "kernel" /\ work[3] = "out"
  /\ op \in {"CHECK", "FETCH"} =>
       /\ w = 4 /\ work[1] = "in" /\ work[2] = "reset"
       /\ work[3] = "kernel" /\ work[4] = "out"
  /\ op = "TRY_FETCH" =>
       /\ w = 4 /\ work[1] = "in" /\ work[2] = "kernel"
       /\ work[3] = "select" /\ work[4] = "out"

(* What a job does to a buffer d of which the keys are k, in short.        *)
Makes(op, job, k, d, e, out, c, m) ==
  /\ job = "in" => e.keys = k
  /\ job = "reset" => e.keys = d.keys /\ e.count = 0
  /\ job = "kernel" /\ d.keys = k =>
       /\ e.keys = d.keys /\ e.out = out
       /\ op \in {"CHECK", "FETCH"} => e.count = d.count + c
       /\ op \notin {"CHECK", "FETCH"} => e.flags = m
  /\ job = "select" =>
       /\ e.keys = d.keys /\ e.out = d.out
       /\ e.miss = Ascending(d.flags) /\ e.count = Cardinality(d.flags)
  /\ job = "out" => e = d

LEMMA NextStage ==
  ASSUME NEW op \in Ops, NEW work, NEW w \in Nat, WorkOf(op, work, w),
         NEW q \in 1 .. w, NEW k, NEW out, NEW c \in Int, NEW m,
         NEW d, NEW e, NEW y, NEW h,
         Staged(q, w, op, d, y, out, c, m), y.keys = k, h.keys = k,
         Makes(op, work[w - q + 1], k, d, e, out, c, m),
         work[w - q + 1] # "out" => h = y,
         work[w - q + 1] = "out" =>
           h.out = d.out /\ h.count = d.count /\ h.miss = d.miss
  PROVE  Staged(q - 1, w, op, e, h, out, c, m)
<1> USE DEF Staged, Makes
<1>1. 0 + c = c
  OBVIOUS
<1>2. CASE op = "LOCATE"
  <2>1. w = 3 /\ work[1] = "in" /\ work[2] = "kernel" /\ work[3] = "out"
    BY <1>2 DEF WorkOf
  <2>2. q = 3 \/ q = 2 \/ q = 1
    BY <2>1
  <2>3. CASE q = 3
    <3>1. w - q + 1 = 1 /\ q - 1 = 2  BY <2>1, <2>3
    <3> QED BY <1>2, <2>1, <2>3, <3>1
  <2>4. CASE q = 2
    <3>1. w - q + 1 = 2 /\ q - 1 = 1  BY <2>1, <2>4
    <3> QED BY <1>2, <2>1, <2>4, <3>1
  <2>5. CASE q = 1
    <3>1. w - q + 1 = 3 /\ q - 1 = 0  BY <2>1, <2>5
    <3> QED BY <1>2, <2>1, <2>5, <3>1
  <2> QED BY <2>2, <2>3, <2>4, <2>5
<1>3. CASE op \in {"CHECK", "FETCH"}
  <2>1. /\ w = 4 /\ work[1] = "in" /\ work[2] = "reset"
        /\ work[3] = "kernel" /\ work[4] = "out"
    BY <1>3 DEF WorkOf
  <2>2. q = 4 \/ q = 3 \/ q = 2 \/ q = 1
    BY <2>1
  <2>3. CASE q = 4
    <3>1. w - q + 1 = 1 /\ q - 1 = 3  BY <2>1, <2>3
    <3> QED BY <1>3, <2>1, <2>3, <3>1
  <2>4. CASE q = 3
    <3>1. w - q + 1 = 2 /\ q - 1 = 2  BY <2>1, <2>4
    <3> QED BY <1>3, <2>1, <2>4, <3>1
  <2>5. CASE q = 2
    <3>1. w - q + 1 = 3 /\ q - 1 = 1  BY <2>1, <2>5
    <3> QED BY <1>1, <1>3, <2>1, <2>5, <3>1
  <2>6. CASE q = 1
    <3>1. w - q + 1 = 4 /\ q - 1 = 0  BY <2>1, <2>6
    <3> QED BY <1>3, <2>1, <2>6, <3>1
  <2> QED BY <2>2, <2>3, <2>4, <2>5, <2>6
<1>4. CASE op = "TRY_FETCH"
  <2>1. /\ w = 4 /\ work[1] = "in" /\ work[2] = "kernel"
        /\ work[3] = "select" /\ work[4] = "out"
    BY <1>4 DEF WorkOf
  <2>2. q = 4 \/ q = 3 \/ q = 2 \/ q = 1
    BY <2>1
  <2>3. CASE q = 4
    <3>1. w - q + 1 = 1 /\ q - 1 = 3  BY <2>1, <2>3
    <3> QED BY <1>4, <2>1, <2>3, <3>1
  <2>4. CASE q = 3
    <3>1. w - q + 1 = 2 /\ q - 1 = 2  BY <2>1, <2>4
    <3> QED BY <1>4, <2>1, <2>4, <3>1
  <2>5. CASE q = 2
    <3>1. w - q + 1 = 3 /\ q - 1 = 1  BY <2>1, <2>5
    <3> QED BY <1>4, <2>1, <2>5, <3>1
  <2>6. CASE q = 1
    <3>1. w - q + 1 = 4 /\ q - 1 = 0  BY <2>1, <2>6
    <3> QED BY <1>4, <2>1, <2>6, <3>1
  <2> QED BY <2>2, <2>3, <2>4, <2>5, <2>6
<1> QED BY <1>2, <1>3, <1>4 DEF Ops

(* Of a queue of q jobs that ends with the w of the work, without its      *)
(* first: what is left ends with the rest of the work.                     *)
LEMMA WorkLeft ==
  ASSUME NEW q \in Nat \ {0}, NEW w \in Nat, NEW old, NEW new, NEW work,
         NEW setup, Ends(old, q, work, w, setup),
         \A i \in 1 .. q - 1 : new[i] = old[i + 1]
  PROVE  /\ Ends(new, q - 1, work, w, setup)
         /\ q <= w => old[1] = work[w - q + 1]
<1> USE DEF Ends
<1>1. ASSUME NEW i \in 1 .. w, (q - 1) - w + i >= 1
      PROVE  new[(q - 1) - w + i] = work[i]
  <2>1. /\ (q - 1) - w + i \in 1 .. q - 1 /\ q - w + i >= 1
        /\ ((q - 1) - w + i) + 1 = q - w + i
    BY <1>1
  <2> QED BY <2>1
<1>2. ASSUME NEW i \in 1 .. (q - 1) - w
      PROVE  new[i] \in setup
  <2>1. i \in 1 .. q - 1 /\ i + 1 \in 1 .. q - w
    OBVIOUS
  <2> QED BY <2>1
<1>3. ASSUME q <= w
      PROVE  old[1] = work[w - q + 1]
  <2>1. w - q + 1 \in 1 .. w /\ q - w + (w - q + 1) = 1
    BY <1>3
  <2> QED BY <2>1
<1> QED BY <1>1, <1>2, <1>3

(* The work of a chunk goes on as it should.                               *)
LEMMA ChainGoesOn ==
  ASSUME IInv, pc \in InLoop, ~ sick, NEW l \in AllLanes, Execute(l),
         slot[l].pending
  PROVE  Chained(l)'
<1> DEFINE b == slot[l].begin
           n == slot[l].count
           k == <<call, b, n>>
           q == Len(queue[l])
           w == Len(Work)
           d == device[l]
           job == queue[l][1]
           out == AnswersOf(b, n)
           c == Cardinality(HitsIn(b, n))
           m == MissedIn(b, n)
<1>1. /\ Progress(l) /\ pc # "idle" /\ Op \in Ops /\ CallRuns
      /\ b \in Nat /\ n \in Nat /\ IsBuffer(d)
  <2>1. Chained(l) /\ pc # "idle" /\ IsBuffer(d)
    BY DEF IInv, InFlight, InLoop, Typed
  <2>2. slot[l] \in [begin : Nat, count : Nat, pending : BOOLEAN]
    BY DEF IInv, Typed
  <2> QED BY <2>1, <2>2, InCall, ChainedIs
<1>2. /\ queue[l] # <<>> /\ slot'[l] = slot[l] /\ call' = call /\ input' = input
  BY ExecuteFacts
<1>3. /\ Head(queue[l]) = job /\ q \in Nat \ {0}
      /\ Len(queue'[l]) = q - 1
      /\ \A i \in 1 .. q - 1 : queue'[l][i] = queue[l][i + 1]
      /\ host'[l].keys = host[l].keys
      /\ device'[l] = Made(l, job)
      /\ job # "out" => host'[l] = host[l]
      /\ job = "out" => /\ host'[l].out = d.out /\ host'[l].count = d.count
                        /\ host'[l].miss = d.miss
  BY WorkedFacts
<1>4. Op' = Op /\ Work' = Work
  BY <1>2, SameCall
<1>5. w \in Nat /\ w >= 3 /\ WorkOf(Op, Work, w)
  BY <1>1, WorkFacts DEF Ops, WorkOf
<1>6. /\ host[l].keys = k
      /\ Ends(queue[l], q, Work, w, Setup(l))
      /\ Staged(q, w, Op, d, host[l], out, c, m)
  BY <1>1, Zenon DEF Progress
<1>7. Makes(Op, job, k, d, device'[l], out, c, m)
  <2>1. job = "kernel" => /\ Looked(k) = out /\ Cardinality(HitsOf(k)) = c
                          /\ (0 .. k[3] - 1) \ HitsOf(k) = m
    <3>1. job = "kernel" => prepared
      BY <1>2, KernelBehind
    <3> QED BY <3>1, LookedUp
  <2>2. /\ job = "in" => Made(l, job).keys = host[l].keys
        /\ job = "reset" => Made(l, job).keys = d.keys /\ Made(l, job).count = 0
        /\ job = "kernel" =>
             Made(l, job).keys = d.keys /\ Made(l, job).out = Looked(d.keys)
        /\ job = "kernel" /\ Op \in {"CHECK", "FETCH"} =>
             Made(l, job).count = d.count + Cardinality(HitsOf(d.keys))
        /\ job = "kernel" /\ Op \notin {"CHECK", "FETCH"} =>
             Made(l, job).flags = (0 .. d.keys[3] - 1) \ HitsOf(d.keys)
        /\ job = "select" =>
             /\ Made(l, job).keys = d.keys /\ Made(l, job).out = d.out
             /\ Made(l, job).miss = Ascending(d.flags)
             /\ Made(l, job).count = Cardinality(d.flags)
        /\ job = "out" => Made(l, job) = d
    BY <1>1, MadeFacts
  <2> HIDE DEF d, k, job, out, c, m
  <2> QED BY <1>3, <1>6, <2>1, <2>2 DEF Makes
<1>8. c \in Int
  <2>1. input.hits \subseteq Nat
    BY <1>1, CallTypes DEF CallRuns
  <2>2. /\ Cardinality(MissedIn(b, n)) \in 0 .. n
        /\ Cardinality(HitsIn(b, n)) = n - Cardinality(MissedIn(b, n))
    BY <1>1, <2>1, ChunkMisses, Zenon
  <2> QED BY <1>1, <2>2
<1>9. /\ Ends(queue'[l], q - 1, Work, w, Setup(l))
      /\ q <= w => queue[l][1] = Work[w - q + 1]
  <2>1. /\ q \in Nat \ {0} /\ w \in Nat
        /\ Ends(queue[l], q, Work, w, Setup(l))
        /\ \A i \in 1 .. q - 1 : queue'[l][i] = queue[l][i + 1]
    BY <1>3, <1>5, <1>6
  <2> HIDE DEF q, w
  <2> QED BY <2>1, WorkLeft
<1>10. Staged(q - 1, w, Op, device'[l], host'[l], out, c, m)
  <2> HIDE DEF q, w, d, k, job, out, c, m
  <2>1. CASE q > w
    <3>1. ~ (q - 1 < w) /\ q - 1 # 2 /\ ~ (q - 1 <= 1) /\ q - 1 # 0
      BY <1>3, <1>5, <2>1
    <3> QED BY <3>1 DEF Staged
  <2>2. CASE q <= w
    <3>1. q \in 1 .. w /\ job = Work[w - q + 1] /\ host'[l].keys = k
      BY <1>3, <1>5, <1>6, <1>9, <2>2
    <3> QED BY <1>1, <1>3, <1>5, <1>6, <1>7, <1>8, <3>1, NextStage
  <2> QED BY <1>3, <1>5, <2>1, <2>2
<1>11. Progress(l)'
  <2>1. /\ AnswersOf(slot[l].begin, slot[l].count)' = out
        /\ MissedIn(slot[l].begin, slot[l].count)' = m
        /\ HitsIn(slot[l].begin, slot[l].count)' = HitsIn(b, n)
    BY <1>2 DEF AnswersOf, MissedIn, HitsIn
  <2>2. Cardinality(HitsIn(slot[l].begin, slot[l].count))' = c
    BY <2>1
  <2>3. host'[l].keys = <<call', slot'[l].begin, slot'[l].count>>
    BY <1>2, <1>3, <1>6
  <2>4. Len(queue'[l]) = q - 1 /\ Len(Work') = w
    BY <1>3, <1>4
  <2>5. Ends(queue'[l], Len(queue'[l]), Work', Len(Work'), Setup(l))
    BY <1>4, <1>9, <2>4, Zenon
  <2>6. Staged(Len(queue'[l]), Len(Work'), Op', device'[l], host'[l],
               AnswersOf(slot[l].begin, slot[l].count)',
               Cardinality(HitsIn(slot[l].begin, slot[l].count))',
               MissedIn(slot[l].begin, slot[l].count)')
    BY <1>4, <1>10, <2>1, <2>2, <2>4, Zenon
  <2> QED BY <2>3, <2>5, <2>6, Zenon DEF Progress
<1> QED BY <1>11, ChainedIs

(* The order in which the streams wait for each other is kept.             *)
LEMMA WorkedBehind ==
  ASSUME IInv, NEW l \in AllLanes, Execute(l)
  PROVE  Behind'
<1> SUFFICES ASSUME ~ sick PROVE Behind'
  BY ExecuteFacts DEF Behind
<1> DEFINE job == queue[l][1]
<1>1. /\ pc # "idle" /\ queue[l] # <<>> /\ pc' = pc
      /\ job = "wait" => ready = "done"
      /\ prepared' = (prepared \/ job = "prepare")
      /\ ready' = IF job = "record" THEN "done" ELSE ready
      /\ UNCHANGED <<input, call, slot>>
      /\ Len(queue[l]) \in Nat \ {0}
      /\ Len(queue'[l]) = Len(queue[l]) - 1
      /\ \A i \in 1 .. Len(queue[l]) - 1 : queue'[l][i] = queue[l][i + 1]
      /\ \A m \in AllLanes : m # l => queue'[m] = queue[m]
  BY ExecuteFacts, WorkedFacts
<1>2. /\ Behind /\ Running /\ InFlight /\ Lanes' = Lanes
      /\ prepared \in BOOLEAN
  BY <1>1, SameCall DEF IInv, Typed, TypeOK
<1>3. ASSUME ~ prepared'
      PROVE  /\ ~ prepared /\ l = 1 /\ job # "prepare"
             /\ queue'[0] # <<>> /\ queue'[0][1] = "prepare"
  <2>1. ~ prepared /\ job # "prepare"
    BY <1>1, <1>3
  <2>2. queue[0] # <<>> /\ queue[0][1] = "prepare"
    BY <1>2, <2>1 DEF Behind
  <2>3. l = 1
    BY <2>1, <2>2 DEF AllLanes
  <2> QED BY <1>1, <2>1, <2>2, <2>3 DEF AllLanes
<1>4. job = "record" /\ pc \in {"wait"} \union InLoop => l = 0
  <2>1. SUFFICES ASSUME job = "record", pc \in {"wait"} \union InLoop, l = 1
                 PROVE  FALSE
    BY DEF AllLanes
  <2>2. 1 \in 1 .. Len(queue[l])
    BY <1>1
  <2>3. slot[l].pending
    <3>1. SUFFICES ASSUME ~ slot[l].pending PROVE FALSE
      OBVIOUS
    <3>2. job \in Setup(l)
      BY <1>2, <2>2, <3>1 DEF Running
    <3> QED BY <2>1, <3>2 DEF Setup
  <2>4. pc \in InLoop
    BY <1>2, <2>1, <2>3 DEF Running
  <2>5. Progress(l) /\ Op \in Ops
    BY <1>1, <1>2, <2>3, <2>4, ChainedIs, InCall DEF InFlight
  <2>6. /\ Ends(queue[l], Len(queue[l]), Work, Len(Work), Setup(l))
        /\ Len(Work) \in Nat /\ \A i \in 1 .. Len(Work) : Work[i] # "record"
    <3>1. Len(Work) = 3 \/ Len(Work) = 4
      BY <2>5, WorkFacts DEF Ops
    <3>2. \A i \in 1 .. Len(Work) : Work[i] # "record"
      <4> SUFFICES ASSUME NEW i \in 1 .. Len(Work) PROVE Work[i] # "record"
        OBVIOUS
      <4> DEFINE w == Len(Work)
      <4>1. i \in 1 .. w /\ (w = 3 \/ w = 4)
        BY <3>1
      <4> HIDE DEF w
      <4>2. i = 1 \/ i = 2 \/ i = 3 \/ i = 4
        BY <4>1
      <4> QED BY <2>5, <4>2, WorkFacts DEF Ops
    <3> QED BY <2>5, <3>1, <3>2 DEF Progress
  <2> DEFINE q == Len(queue[l])  w == Len(Work)
  <2>7. q \in Nat \ {0} /\ w \in Nat
    BY <1>1, <2>6
  <2> HIDE DEF q, w
  <2>8. CASE q <= w
    <3>1. w - q + 1 \in 1 .. w
      BY <2>7, <2>8
    <3>2. Ends(queue[l], q, Work, w, Setup(l))
      BY <2>6 DEF q, w
    <3>3. \A i \in 1 .. q - 1 : queue'[l][i] = queue[l][i + 1]
      BY <1>1 DEF q
    <3>4. /\ Ends(queue'[l], q - 1, Work, w, Setup(l))
          /\ q <= w => queue[l][1] = Work[w - q + 1]
      BY <2>7, <3>2, <3>3, WorkLeft
    <3> QED BY <2>1, <2>6, <2>8, <3>1, <3>4 DEF w
  <2>9. CASE q > w
    <3>1. 1 \in 1 .. q - w
      BY <2>7, <2>9
    <3>2. job \in Setup(l)
      BY <2>6, <3>1 DEF Ends, q, w
    <3> QED BY <2>1, <3>2 DEF Setup
  <2> QED BY <2>7, <2>8, <2>9
<1>5. pc \in {"wait"} \union InLoop /\ Lanes = 2 =>
        ready' = "recorded" \/ (ready' = "done" /\ prepared')
  <2>1. SUFFICES ASSUME pc \in {"wait"} \union InLoop, Lanes = 2
                 PROVE  ready' = "recorded" \/ (ready' = "done" /\ prepared')
    OBVIOUS
  <2>2. ready = "recorded" \/ (ready = "done" /\ prepared)
    BY <1>2, <2>1 DEF Behind
  <2>3. CASE job = "record"
    <3>1. l = 0 /\ (~ prepared => job = "prepare")
      BY <1>2, <1>4, <2>1, <2>3 DEF Behind
    <3> QED BY <1>1, <1>2, <2>3, <3>1
  <2>4. CASE job # "record"
    BY <1>1, <2>2, <2>4
  <2> QED BY <2>3, <2>4
<1>6. pc \in InLoop /\ Lanes = 2 /\ ~ prepared' =>
        \E k \in 1 .. Len(queue'[1]) :
          /\ queue'[1][k] = "wait"
          /\ \A j \in 1 .. k - 1 : queue'[1][j] \in Setup(1)
  <2>1. SUFFICES ASSUME pc \in InLoop, Lanes = 2, ~ prepared'
                 PROVE  \E k \in 1 .. Len(queue'[1]) :
                          /\ queue'[1][k] = "wait"
                          /\ \A j \in 1 .. k - 1 : queue'[1][j] \in Setup(1)
    OBVIOUS
  <2>2. ~ prepared /\ l = 1
    BY <1>3, <2>1
  <2>3. PICK k \in 1 .. Len(queue[1]) :
          /\ queue[1][k] = "wait"
          /\ \A j \in 1 .. k - 1 : queue[1][j] \in Setup(1)
    BY <1>2, <2>1, <2>2 DEF Behind
  <2>4. k # 1
    <3>1. ready = "recorded"
      BY <1>2, <2>1, <2>2 DEF Behind
    <3> QED BY <1>1, <2>2, <2>3, <3>1
  <2>5. /\ k - 1 \in 1 .. Len(queue'[1]) /\ k - 1 \in 1 .. Len(queue[1]) - 1
        /\ (k - 1) + 1 = k
        /\ \A j \in 1 .. (k - 1) - 1 :
             j \in 1 .. Len(queue[1]) - 1 /\ j + 1 \in 1 .. k - 1
    <3> DEFINE q == Len(queue[1])
    <3>1. q \in Nat /\ Len(queue'[1]) = q - 1 /\ k \in 1 .. q
      BY <1>1, <2>2
    <3> HIDE DEF q
    <3>2. /\ k - 1 \in 1 .. q - 1 /\ (k - 1) + 1 = k
          /\ \A j \in 1 .. (k - 1) - 1 : j \in 1 .. q - 1 /\ j + 1 \in 1 .. k - 1
      BY <2>4, <3>1
    <3> QED BY <3>1, <3>2 DEF q
  <2>6. \A i \in 1 .. Len(queue[1]) - 1 : queue'[1][i] = queue[1][i + 1]
    BY <1>1, <2>2
  <2>7. queue'[1][k - 1] = "wait"
    BY <2>3, <2>5, <2>6
  <2>8. \A j \in 1 .. (k - 1) - 1 : queue'[1][j] \in Setup(1)
    BY <2>3, <2>5, <2>6, Zenon
  <2> QED BY <2>5, <2>7, <2>8
<1> QED BY <1>1, <1>2, <1>3, <1>5, <1>6 DEF Behind

LEMMA ExecuteStep ==
  ASSUME IInv, NEW l \in AllLanes, Execute(l)
  PROVE  IInv'
<1>1. /\ pc # "idle" /\ queue[l] # <<>>
      /\ prepared' = (prepared \/ (Head(queue[l]) = "prepare" /\ ~ sick))
      /\ ready' = IF Head(queue[l]) = "record" THEN "done" ELSE ready
      /\ UNCHANGED <<input, pc, call, result, status, returned, auxiliary,
                     begin, hits, lane, loop, slot, capacity, workspace, sick,
                     output, misses>>
  BY ExecuteFacts
<1>2. /\ Typed /\ TypeOK /\ Running /\ Turns /\ Roomy /\ InFlight /\ Gathered
      /\ lane \in AllLanes /\ Other(lane) \in AllLanes
  BY <1>1, InCall, LaneTurns DEF IInv
<1>3. /\ Call' = Call /\ Op' = Op /\ Batch' = Batch /\ Lanes' = Lanes
      /\ Capacity' = Capacity
      /\ UsedLanes' = UsedLanes /\ Verdict(Call)' = Verdict(Call)
  BY <1>1, SameCall
<1>4. /\ queue' \in [AllLanes -> Seq(Jobs)]
      /\ Len(queue[l]) \in Nat \ {0} /\ Len(queue'[l]) = Len(queue[l]) - 1
      /\ \A i \in 1 .. Len(queue[l]) - 1 : queue'[l][i] = queue[l][i + 1]
      /\ \A m \in AllLanes : m # l =>
           /\ queue'[m] = queue[m]
           /\ host'[m] = host[m] /\ device'[m] = device[m]
      /\ host' = [m \in AllLanes |-> host'[m]]
      /\ device' = [m \in AllLanes |-> device'[m]]
      /\ \A m \in AllLanes : IsBuffer(host'[m]) /\ IsBuffer(device'[m])
  BY WorkedFacts
<1>5. Typed'
  <2>1. /\ prepared' \in BOOLEAN
        /\ ready' \in {"none", "created", "recorded", "done"}
    BY <1>1, <1>2 DEF TypeOK
  <2>2. TypeOK'
    BY <1>1, <1>2, <1>3, <2>1 DEF TypeOK
  <2> QED BY <1>1, <1>2, <1>4, <2>2 DEF Typed
<1>6. Running'
  <2>1. Lanes = 1 => queue'[1] = <<>>
    BY <1>1, <1>2, <1>4 DEF Running, AllLanes
  <2>2. \A m \in AllLanes :
          slot[m].pending
            \/ \A k \in 1 .. Len(queue'[m]) : queue'[m][k] \in Setup(m)
    <3>1. \A m \in AllLanes :
            slot[m].pending
              \/ \A k \in 1 .. Len(queue[m]) : queue[m][k] \in Setup(m)
      BY <1>2 DEF Running
    <3>2. ASSUME ~ slot[l].pending, NEW k \in 1 .. Len(queue'[l])
          PROVE  queue'[l][k] \in Setup(l)
      <4> DEFINE q == Len(queue[l])
      <4>1. q \in Nat /\ k \in 1 .. q - 1
        BY <1>4
      <4> HIDE DEF q
      <4>2. k \in 1 .. q - 1 /\ k + 1 \in 1 .. q
        BY <4>1
      <4> QED BY <1>4, <3>1, <3>2, <4>2 DEF q
    <3> QED BY <1>4, <3>1, <3>2
  <2> QED BY <1>1, <1>2, <1>3, <2>1, <2>2 DEF Running
<1>7. Turns'
  <2>1. pc = "last" => \A m \in AllLanes : slot[m].pending \/ queue'[m] = <<>>
    BY <1>1, <1>2, <1>4 DEF Turns
  <2>2. Other(lane') = Other(lane)
    BY <1>1
  <2> QED BY <1>1, <1>2, <1>3, <2>1, <2>2 DEF Turns, Other
<1>8. Roomy'
  <2>1. \A m : Reserved(m) => Reserved(m)'
    BY <1>1, ReservedKept
  <2>2. ChunkFits'
    BY <1>1, <1>2, <1>3 DEF Roomy, ChunkFits, LayoutTotal
  <2> QED BY <1>1, <1>2, <1>3, <2>1, <2>2 DEF Roomy
<1>9. Behind'
  BY WorkedBehind
<1>10. InFlight'
  <2> SUFFICES ASSUME pc \in InLoop, ~ sick, NEW m \in AllLanes,
                      slot[m].pending
               PROVE  Chained(m)'
    BY <1>1 DEF InFlight
  <2>1. CASE m = l
    BY <2>1, ChainGoesOn
  <2>2. CASE m # l
    <3>1. Chained(m)
      BY <1>2 DEF InFlight
    <3>2. /\ slot'[m] = slot[m] /\ host'[m] = host[m]
          /\ device'[m] = device[m] /\ queue'[m] = queue[m]
      BY <1>1, <1>4, <2>2
    <3> QED BY <1>1, <3>1, <3>2, ChainedKept
  <2> QED BY <2>1, <2>2
<1>11. Gathered'
  <2>1. Collected' = Collected
    BY <1>1 DEF Collected, Other
  <2> QED BY <1>1, <1>2, <1>3, <2>1 DEF Gathered, Answers, MissedBelow
<1>12. AnswersInPlace'
  BY <1>1 DEF AnswersInPlace, Answered
<1> QED BY <1>5, <1>6, <1>7, <1>8, <1>9, <1>10, <1>11, <1>12 DEF IInv

(* A failure of the device is all that changes.                            *)
LEMMA SameState ==
  ASSUME IInv, sick' = sick \/ sick' = TRUE, sick' \in BOOLEAN,
         UNCHANGED <<input, pc, call, result, status, returned, auxiliary,
                     ready, begin, hits, lane, loop, slot, capacity,
                     workspace, host, device, queue, prepared, output, misses>>
  PROVE  IInv'
<1>1. /\ Typed /\ TypeOK /\ Running /\ Turns /\ Roomy /\ InFlight /\ Gathered
      /\ Behind /\ AnswersInPlace
  BY DEF IInv, Typed
<1>2. /\ Call' = Call /\ Op' = Op /\ Batch' = Batch /\ Lanes' = Lanes
      /\ Capacity' = Capacity
      /\ UsedLanes' = UsedLanes /\ Verdict(Call)' = Verdict(Call)
  BY SameCall
<1>3. Typed'
  <2>1. TypeOK'
    BY <1>1, <1>2 DEF TypeOK
  <2> QED BY <1>1, <2>1 DEF Typed, IsBuffer
<1>4. Running'
  BY <1>1, <1>2 DEF Running
<1>5. Turns'
  BY <1>1, <1>2 DEF Turns, Other
<1>6. Roomy'
  <2>1. \A m : Reserved(m) => Reserved(m)'
    BY ReservedKept
  <2>2. ChunkFits'
    BY <1>1, <1>2 DEF Roomy, ChunkFits, LayoutTotal
  <2> QED BY <1>1, <1>2, <2>1, <2>2 DEF Roomy
<1>7. Behind'
  BY <1>1, <1>2 DEF Behind
<1>8. InFlight'
  <2> SUFFICES ASSUME pc \in InLoop, ~ sick, NEW m \in AllLanes,
                      slot[m].pending
               PROVE  Chained(m)'
    BY DEF InFlight
  <2>1. Chained(m)
    BY <1>1 DEF InFlight
  <2> QED BY <2>1, ChainedKept
<1>9. Gathered'
  <2>1. Collected' = Collected
    BY DEF Collected, Other
  <2> QED BY <1>1, <1>2, <2>1 DEF Gathered, Answers, MissedBelow
<1>10. AnswersInPlace'
  BY <1>1, <1>2 DEF AnswersInPlace, Answered
<1> QED BY <1>3, <1>4, <1>5, <1>6, <1>7, <1>8, <1>9, <1>10 DEF IInv

----------------------------------------------------------------------------
(* The theorems.                                                           *)

LEMMA StepInv == IInv /\ [Next]_vars => IInv'
<1> SUFFICES ASSUME IInv, [Next]_vars PROVE IInv'
  OBVIOUS
<1> USE DEF callVars, loopVars, laneVars, gpuVars, outVars
<1>1. CASE Refuse
  BY <1>1, RefuseStep
<1>2. CASE Start
  BY <1>2, StartStep
<1>3. CASE CreateStreams
  BY <1>3, CreateStreamsStep
<1>4. CASE Reserve
  BY <1>4, ReserveStep
<1>5. CASE RecordReady
  BY <1>5, RecordReadyStep
<1>6. CASE WaitReady
  BY <1>6, WaitReadyStep
<1>7. CASE CollectBusy
  BY <1>7, CollectBusyStep
<1>8. CASE LaneFree
  BY <1>8, LaneFreeStep
<1>9. CASE AllSubmitted
  BY <1>9, AllSubmittedStep
<1>10. CASE Submit
  BY <1>10, SubmitStep
<1>11. CASE CollectLast
  BY <1>11, CollectLastStep
<1>12. CASE Return
  BY <1>12, ReturnStep
<1>13. CASE Drain
  BY <1>13, DrainStep
<1>14. ASSUME NEW l \in AllLanes, Execute(l)
       PROVE  IInv'
  BY <1>14, ExecuteStep
<1>15. CASE Break
  <2>1. sick' = TRUE /\ UNCHANGED <<input, pc, call, result, status, returned,
           auxiliary, ready, begin, hits, lane, loop, slot, capacity,
           workspace, host, device, queue, prepared, output, misses>>
    BY <1>15 DEF Break
  <2> QED BY <2>1, SameState
<1>16. CASE UNCHANGED vars
  <2>1. /\ sick' = sick /\ sick \in BOOLEAN
        /\ UNCHANGED <<input, pc, call, result, status, returned,
             auxiliary, ready, begin, hits, lane, loop, slot, capacity,
             workspace, host, device, queue, prepared, output, misses>>
    BY <1>16 DEF vars, IInv, Typed, TypeOK
  <2> QED BY <2>1, SameState
<1>17. CASE Terminated
  BY <1>16, <1>17 DEF Terminated
<1> QED BY <1>1, <1>2, <1>3, <1>4, <1>5, <1>6, <1>7, <1>8, <1>9, <1>10,
           <1>11, <1>12, <1>13, <1>14, <1>15, <1>16, <1>17 DEF Next, Host

(* The inductive invariant holds in every reachable state, whatever calls  *)
(* are made and wherever the device and the CUDA runtime fail (RunBatch    *)
(* and the entry points, src/src/cuda/shd_host.cc:195-437).                *)
THEOREM CudaInvariance == Spec => []IInv
BY InitInv, StepInv, PTL DEF Spec

(* The counts of a call stay within its batch (RunBatch).                  *)
THEOREM CudaTypeCorrect == Spec => []TypeOK
<1>1. IInv => TypeOK
  BY DEF IInv, Typed
<1> QED BY <1>1, CudaInvariance, PTL

(* A batch that succeeds has an answer for each of its keys in its place,  *)
(* of a lookup made after the caller's earlier work on the stream, the     *)
(* number of its hits, and its misses in input order, however the chunks   *)
(* of the two lanes overlap (RunBatch with Submit and Collect).            *)
THEOREM CudaAnswersInPlace == Spec => []AnswersInPlace
<1>1. IInv => AnswersInPlace
  BY DEF IInv
<1> QED BY <1>1, CudaInvariance, PTL

(* Both streams are finished when a call returns, even one that failed     *)
(* half-way, and the host writes a staging buffer only when no work that   *)
(* uses it is queued (RunBatch, the drain after a failure).                *)
THEOREM CudaStreamsFinished == Spec => []BothFinished
<1>1. IInv => BothFinished
  <2> SUFFICES ASSUME IInv PROVE BothFinished
    OBVIOUS
  <2>1. Running /\ Turns
    BY DEF IInv
  <2>2. ASSUME pc = "submit", NEW k \in DOMAIN queue[lane]
        PROVE  queue[lane][k] \in {"prepare", "record", "wait", "zero"}
    <3>1. lane \in AllLanes /\ queue[lane] \in Seq(Jobs)
      BY DEF IInv, Typed, TypeOK
    <3>2. ~ slot[lane].pending /\ k \in 1 .. Len(queue[lane])
      BY <2>1, <2>2, <3>1, LenProperties DEF Turns
    <3>3. queue[lane][k] \in Setup(lane)
      BY <2>1, <3>1, <3>2 DEF Running
    <3> QED BY <3>3 DEF Setup
  <2> QED BY <2>1, <2>2 DEF BothFinished, Running
<1> QED BY <1>1, CudaInvariance, PTL

(* A chunk in flight fits the buffers and the workspace of its lane,       *)
(* whatever the lane has served before (Reserve and BatchLayout).          *)
THEOREM CudaChunkFits == Spec => []ChunkFits
<1>1. IInv => ChunkFits
  BY DEF IInv, Roomy
<1> QED BY <1>1, CudaInvariance, PTL

============================================================================
