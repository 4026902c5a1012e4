----------------------------- MODULE PackProofs -----------------------------
(***************************************************************************)
(* Proofs about module Pack, for any records, any pieces, any retries, any *)
(* sizes of the parts, and wherever the writer fails or the process dies;  *)
(* and about module FileWriter, the writer on a file, for a buffer of any  *)
(* size and any mix of writes, flushes and failures: the file is a prefix  *)
(* of the stream, and FileWriter implements Output.  Neither module uses   *)
(* the variables of the other.                                             *)
(***************************************************************************)
EXTENDS Pack, FileWriter, FiniteSetTheorems, SequenceTheorems,
        WellFoundedInduction, TLAPS

(* The size of an index, up to its padding; and that it can be told, with  *)
(* the alignment, in the width of the mask of AlignUp.  Where it cannot,   *)
(* the offset of the sections is cut, and SectionsAligned does not hold    *)
(* either: the layout is proved for the indexes that are narrow.           *)
IndexSize(j) ==
  HeaderSize + Len(j.pieces) * CountSize
    + SumTo([k \in 1 .. Len(j.pieces) |-> L1Size(j.pieces[k])], Len(j.pieces))

Narrow == \A j \in Jobs : IndexSize(j) + Align - 1 < Word32

Early == {"detect", "build"}
Indexing == {"header", "items", "cells", "pad", "sections"}
Filling == {"fill", "varint", "value"}
Writing == Indexing \union Filling
After == {"close", "load", "loaded", "rejected", "failed"}

(* How far the parts that were handed over reach.                          *)
End == IF toc = <<>> THEN 0 ELSE toc[Len(toc)].start + toc[Len(toc)].len

(* A part was handed over as it is due, or the stream ends before it.      *)
Laid(part, of, x) == WrittenAt(part, of, x) \/ End <= x

Separated == job.type = "KV_SEPARATED"

Line(i) == lines[place[i]]
At(i) == ExtendAt + Line(i)
ValueAt(i) == At(i) + VarIntSize(job.records[i].vlen)
Past(i) == Line(i) + OffsetStep(job.records[i])

Detected ==
  /\ Items >= 1
  /\ IF job.type = "INDEX_ONLY" THEN keyLen = 0 /\ valLen = 0 ELSE keyLen >= 1

(* The first m records are of the lengths that are written, and have a     *)
(* line.                                                                   *)
Fits(m) ==
  /\ m \in 0 .. Items
  /\ \A i \in 1 .. m :
       /\ Line(i) # -1
       /\ Separated => job.records[i].vlen \in 0 .. MaxValueLen

(* The offsets in the lines of the first m: each record has room there.    *)
Spaced(m) ==
  /\ m >= 1 => Line(1) = 0
  /\ \A i \in 1 .. m : Line(i) \in Nat /\ Line(i) >= i - 1
  /\ \A i \in 1 .. m - 1 : Line(i + 1) = Past(i)
  /\ \A i, k \in 1 .. m : i < k => Past(i) <= Line(k)

Filled(m) == Fits(m) /\ (Separated => Spaced(m))

(* What a phase of writing needs, with its counter at i.                   *)
Ready(ph, i) ==
  /\ ph \in {"header", "items", "pad"} => i = 1
  /\ ph \in {"cells", "sections"} => i \in 1 .. Pieces
  /\ ph = "fill" => i \in 1 .. Items + 1 /\ Fits(i - 1)
  /\ ph \in Filling => job.type # "INDEX_ONLY"
  /\ ph \in {"varint", "value"} => Separated /\ i \in 1 .. Items /\ Fits(Items)
  /\ ph = "value" => job.records[i].vlen # 0

(* Where the thread is.                                                    *)
Control ==
  /\ phase \in Early \union Writing => status = "running"
  /\ phase \in Early =>
       /\ toc = <<>> /\ loop = 1 /\ size = 0 /\ offset = 0
       /\ lines = [x \in Lines |-> -1]
  /\ phase \in {"build"} \union Writing \/ toc # <<>> => Detected
  /\ phase \in Writing \/ toc # <<>> => place \in Places
  /\ phase \in Indexing => offset = 0
  /\ phase \in Writing => Ready(phase, loop)

Names ==
  {"header", "items", "cells", "pad", "sections", "content", "varint", "value"}

Part == [part : Names, of : Nat, start : Nat, len : Nat]

TypeInv ==
  /\ job \in Jobs
  /\ TypeOK
  /\ toc \in Seq(Part)
  /\ Control

(* The budgets, while attempts are made.                                   *)
Budgets ==
  phase \in Early =>
    /\ Len(outcomes) + total = job.total
    /\ Cardinality(Conflicts) + conflict = job.conflict

(* Where the stream stands, and what the size counts.                      *)
Due ==
  /\ phase \in Writing => given = End
  /\ phase = "header" => End = 0
  /\ phase = "items" => End = HeaderSize
  /\ phase = "cells" => End = CellsAt(loop) /\ size = End
  /\ phase = "pad" => End = CellsAt(Pieces + 1) /\ size = End
  /\ phase = "sections" => End = SectionsAt(loop) /\ size = End
  /\ phase = "fill" =>
       /\ End = ContentAt
       /\ Separated => Spaced(loop - 1)
       /\ Separated => offset = IF loop = 1 THEN 0 ELSE Past(loop - 1)
  /\ phase = "varint" => End = At(loop)
  /\ phase = "value" => End = ValueAt(loop)

Stream ==
  /\ given <= End
  /\ stored <= End
  /\ phase \in Early => given = 0 /\ stored = 0

(* Each part is where the loader takes it to be, as far as the stream      *)
(* reaches; and it reaches beyond the sections only with all lines filled. *)
IndexLaid ==
  \A i \in 1 .. Pieces : /\ Laid("cells", i, CellsAt(i))
                         /\ Laid("sections", i, SectionsAt(i))

ContentLaid == job.type # "INDEX_ONLY" => Laid("content", 0, ContentAt)

Reach ==
  /\ End > ContentAt => job.type # "INDEX_ONLY" /\ Filled(Items)
  /\ ~ Separated => End <= ExtendAt

ValuesLaid ==
  Separated /\ End > ContentAt =>
    \A i \in 1 .. Items :
      /\ Laid("varint", i, At(i))
      /\ job.records[i].vlen # 0 => Laid("value", i, ValueAt(i))

VarIntsLaid ==
  \A c \in DOMAIN toc :
    toc[c].part = "varint" =>
      /\ Separated /\ End > ContentAt
      /\ toc[c].of \in 1 .. Items
      /\ toc[c].start = At(toc[c].of)
      /\ toc[c].len = VarIntSize(job.records[toc[c].of].vlen)

Layout == IndexLaid /\ ContentLaid /\ Reach /\ ValuesLaid /\ VarIntsLaid

Complete ==
  status = "OK" =>
    /\ phase \in After /\ toc # <<>> /\ given = End
    /\ ~ Separated => End = ExtendAt
    /\ Separated => End > ContentAt
                    /\ \A i \in 1 .. Items : ExtendAt + Past(i) <= End

Judged ==
  /\ phase = "loaded" => stored >= CellsAt(Pieces + 1) /\ stored >= Needed
  /\ phase = "rejected" =>
       ~ (stored >= CellsAt(Pieces + 1) /\ stored >= Needed)
  /\ attached # "none" => phase \in {"loaded", "rejected"}
  /\ attached \notin {"none", "ERROR"} =>
       attached = IF stored < HeaderSize THEN "INVALID_ARGUMENT"
                  ELSE IF Separated THEN "UNSUPPORTED_TYPE"
                  ELSE IF stored < DeviceNeeded THEN "INVALID_PACK"
                  ELSE "OK"

----------------------------------------------------------------------------
(* Sums and digits: the functions that are defined by recursion.           *)

(* A set of numbers that is not empty has a least one.                     *)
LEMMA Least ==
  ASSUME NEW T \in SUBSET Nat, T # {}
  PROVE  \E m \in T : \A k \in T : m <= k
<1> DEFINE R == OpToRel(<, Nat)
<1>1. IsWellFoundedOn(R, Nat)
  BY NatLessThanWellFounded
<1>2. \A k, m \in Nat : <<k, m>> \in R <=> k < m
  BY DEF OpToRel
<1> HIDE DEF R
<1>3. PICK m \in T : \A k \in T : ~ (<<k, m>> \in R)
  BY <1>1, WFMin
<1>4. ASSUME NEW k \in T
      PROVE  m <= k
  <2>1. k \in Nat /\ m \in Nat /\ ~ (<<k, m>> \in R)
    BY <1>3, <1>4
  <2>2. ~ (k < m)
    BY <1>2, <2>1
  <2> QED BY <2>1, <2>2
<1> QED BY <1>4

(* The partial sums of f up to n.                                          *)
Sums(f, n, s) ==
  [k \in 0 .. n |-> IF k = 0 THEN 0 ELSE s[k - 1] + f[k]]

(* There are such sums: the recursion of SumTo is well founded.            *)
LEMMA SumsExist ==
  ASSUME NEW f, NEW n \in Nat
  PROVE  \E s : s = Sums(f, n, s)
<1> DEFINE T == {m \in Nat : ~ \E s : s = Sums(f, m, s)}
<1> SUFFICES ASSUME T # {} PROVE FALSE
  OBVIOUS
<1>1. PICK m \in T : \A k \in T : m <= k
  <2>1. T \in SUBSET Nat
    OBVIOUS
  <2> HIDE DEF T
  <2> QED BY <2>1, Least
<1>2. m \in Nat /\ ~ \E s : s = Sums(f, m, s)
  OBVIOUS
<1>3. m # 0
  <2> DEFINE s == [k \in 0 .. 0 |-> 0]
  <2>1. s = Sums(f, 0, s)
    BY DEF Sums
  <2> QED BY <1>2, <2>1
<1>4. m - 1 \in Nat /\ m - 1 \notin T
  BY <1>1, <1>2, <1>3
<1>5. PICK s : s = Sums(f, m - 1, s)
  BY <1>4
<1> HIDE DEF T
<1> DEFINE t == [k \in 0 .. m |-> IF k = m THEN s[m - 1] + f[m] ELSE s[k]]
<1>6. ASSUME NEW k \in 0 .. m
      PROVE  t[k] = IF k = 0 THEN 0 ELSE t[k - 1] + f[k]
  <2>1. CASE k = m
    <3>1. m - 1 \in 0 .. m /\ m - 1 # m
      BY <1>2, <1>3
    <3>2. t[m - 1] = s[m - 1] /\ t[m] = s[m - 1] + f[m]
      BY <1>2, <3>1
    <3> QED BY <1>3, <2>1, <3>2
  <2>2. CASE k # m
    <3>1. /\ k \in 0 .. m - 1
          /\ k # 0 => k - 1 \in 0 .. m /\ k - 1 # m /\ k - 1 \in 0 .. m - 1
      BY <1>2, <2>2
    <3>2. s[k] = IF k = 0 THEN 0 ELSE s[k - 1] + f[k]
      BY <1>5, <3>1 DEF Sums
    <3>3. t[k] = s[k] /\ (k # 0 => t[k - 1] = s[k - 1])
      BY <2>2, <3>1
    <3> QED BY <3>2, <3>3
  <2> QED BY <2>1, <2>2
<1>7. t = Sums(f, m, t)
  <2>1. DOMAIN t = 0 .. m /\ t = [k \in 0 .. m |-> t[k]]
    OBVIOUS
  <2> HIDE DEF t
  <2> QED BY <1>6, <2>1 DEF Sums
<1> QED BY <1>2, <1>7

(* They depend on the terms only.                                          *)
LEMMA SumsSame ==
  ASSUME NEW f, NEW g, NEW n \in Nat, NEW p \in Nat, NEW s, NEW t,
         s = Sums(f, n, s), t = Sums(g, p, t), n <= p,
         \A k \in 1 .. n : f[k] = g[k]
  PROVE  \A k \in 0 .. n : s[k] = t[k]
<1> DEFINE T == {k \in 0 .. n : s[k] # t[k]}
<1> SUFFICES ASSUME T # {} PROVE FALSE
  OBVIOUS
<1>1. PICK m \in T : \A k \in T : m <= k
  <2>1. T \in SUBSET Nat
    OBVIOUS
  <2> HIDE DEF T
  <2> QED BY <2>1, Least
<1>2. m \in 0 .. n /\ m \in 0 .. p /\ s[m] # t[m]
  OBVIOUS
<1>3. /\ s[m] = IF m = 0 THEN 0 ELSE s[m - 1] + f[m]
      /\ t[m] = IF m = 0 THEN 0 ELSE t[m - 1] + g[m]
  BY <1>2 DEF Sums
<1>4. m # 0
  BY <1>2, <1>3
<1>5. m - 1 \in 0 .. n /\ m - 1 \notin T /\ m \in 1 .. n
  BY <1>1, <1>2, <1>4
<1>6. s[m - 1] = t[m - 1]
  BY <1>5
<1> QED BY <1>2, <1>3, <1>4, <1>5, <1>6

(* SumTo is the last of the partial sums.                                  *)
LEMMA SumIs ==
  ASSUME NEW f, NEW n \in Nat
  PROVE  \E s : s = Sums(f, n, s) /\ SumTo(f, n) = s[n]
<1> DEFINE s == CHOOSE g : g = Sums(f, n, g)
<1>1. SumTo(f, n) = s[n]
  BY DEF SumTo, Sums
<1>2. s = Sums(f, n, s)
  <2>1. \E g : g = Sums(f, n, g)
    BY SumsExist
  <2> QED BY <2>1
<1> QED BY <1>1, <1>2

(* Equal terms have equal sums.                                            *)
LEMMA SumSame ==
  ASSUME NEW f, NEW g, NEW n \in Nat, \A k \in 1 .. n : f[k] = g[k]
  PROVE  SumTo(f, n) = SumTo(g, n)
<1>1. PICK s : s = Sums(f, n, s) /\ SumTo(f, n) = s[n]
  BY SumIs
<1>2. PICK t : t = Sums(g, n, t) /\ SumTo(g, n) = t[n]
  BY SumIs
<1>3. n <= n /\ n \in 0 .. n
  OBVIOUS
<1>4. \A k \in 0 .. n : s[k] = t[k]
  BY <1>1, <1>2, <1>3, SumsSame
<1> QED BY <1>1, <1>2, <1>3, <1>4

(* A sum is empty at first, and grows by the next term.                    *)
LEMMA SumNext ==
  ASSUME NEW f, NEW n \in Nat
  PROVE  SumTo(f, 0) = 0 /\ SumTo(f, n + 1) = SumTo(f, n) + f[n + 1]
<1>1. SumTo(f, 0) = 0
  <2>1. PICK s : s = Sums(f, 0, s) /\ SumTo(f, 0) = s[0]
    BY SumIs
  <2> QED BY <2>1 DEF Sums
<1>2. PICK s : s = Sums(f, n, s) /\ SumTo(f, n) = s[n]
  BY SumIs
<1>3. n + 1 \in Nat /\ n <= n + 1 /\ n \in 0 .. n /\ n + 1 # 0
      /\ (n + 1) - 1 = n /\ n + 1 \in 0 .. n + 1
  OBVIOUS
<1>4. PICK t : t = Sums(f, n + 1, t) /\ SumTo(f, n + 1) = t[n + 1]
  BY <1>3, SumIs
<1>5. \A k \in 0 .. n : s[k] = t[k]
  <2> DEFINE p == n + 1
  <2>1. p \in Nat /\ n <= p /\ t = Sums(f, p, t) /\ s = Sums(f, n, s)
    BY <1>2, <1>3, <1>4
  <2>2. \A k \in 1 .. n : f[k] = f[k]
    OBVIOUS
  <2> HIDE DEF p
  <2> QED BY <2>1, <2>2, SumsSame
<1>6. t[n + 1] = t[n] + f[n + 1]
  BY <1>3, <1>4 DEF Sums
<1> QED BY <1>1, <1>2, <1>3, <1>4, <1>5, <1>6

(* A sum of numbers grows.                                                 *)
LEMMA SumGrows ==
  ASSUME NEW f, NEW n \in Nat, \A k \in 1 .. n : f[k] \in Nat
  PROVE  /\ SumTo(f, n) \in Nat
         /\ \A i \in 0 .. n : SumTo(f, i) \in Nat /\ SumTo(f, i) <= SumTo(f, n)
<1> DEFINE Good(m) ==
             /\ SumTo(f, m) \in Nat
             /\ \A i \in 0 .. m :
                  SumTo(f, i) \in Nat /\ SumTo(f, i) <= SumTo(f, m)
           T == {m \in 0 .. n : ~ Good(m)}
<1>1. ASSUME T # {} PROVE FALSE
  <2>1. PICK m \in T : \A k \in T : m <= k
    <3>1. T \in SUBSET Nat
      OBVIOUS
    <3> HIDE DEF T
    <3> QED BY <1>1, <3>1, Least
  <2>2. m \in 0 .. n /\ ~ Good(m)
    OBVIOUS
  <2>3. m # 0
    <3>1. SumTo(f, 0) = 0
      BY SumNext
    <3>2. \A i \in 0 .. 0 : i = 0
      OBVIOUS
    <3>3. Good(0)
      BY <3>1, <3>2
    <3> QED BY <2>2, <3>3
  <2>4. m - 1 \in 0 .. n /\ m - 1 \in Nat /\ m - 1 \notin T /\ m \in 1 .. n
        /\ (m - 1) + 1 = m
    BY <2>1, <2>2, <2>3
  <2>5. Good(m - 1)
    BY <2>4
  <2>6. SumTo(f, m) = SumTo(f, m - 1) + f[m]
    BY <2>4, SumNext
  <2>7. SumTo(f, m) \in Nat /\ SumTo(f, m - 1) <= SumTo(f, m)
    BY <2>4, <2>5, <2>6
  <2>8. ASSUME NEW i \in 0 .. m
        PROVE  SumTo(f, i) \in Nat /\ SumTo(f, i) <= SumTo(f, m)
    <3>1. CASE i = m
      BY <2>7, <3>1
    <3>2. CASE i # m
      <4>1. i \in 0 .. m - 1
        BY <2>4, <3>2
      <4>2. SumTo(f, i) \in Nat /\ SumTo(f, i) <= SumTo(f, m - 1)
        BY <2>5, <4>1
      <4> QED BY <2>5, <2>7, <4>2
    <3> QED BY <3>1, <3>2
  <2> QED BY <2>2, <2>7, <2>8
<1> QED
  <2>1. n \in 0 .. n
    OBVIOUS
  <2>2. Good(n)
    BY <1>1, <2>1
  <2> QED BY <2>2

(* A quotient by the radix, and what it leaves.                            *)
LEMMA DigitFacts ==
  ASSUME NEW n \in Nat
  PROVE  /\ Radix \in Nat /\ Radix >= 2
         /\ n \div Radix \in Nat /\ n % Radix \in 0 .. Radix - 1
         /\ n = Radix * (n \div Radix) + (n % Radix)
         /\ n >= Radix => n \div Radix < n
<1>1. Radix \in Nat \ {0, 1} /\ Radix >= 2
  BY ParamAssumption
<1>2. \A a \in Nat, b \in Nat \ {0, 1} :
        /\ a \div b \in Nat /\ a % b \in 0 .. b - 1
        /\ a = b * (a \div b) + (a % b)
  BY SMT
<1> DEFINE q == n \div Radix  r == n % Radix
<1>3. q \in Nat /\ r \in 0 .. Radix - 1 /\ n = Radix * q + r
  BY <1>1, <1>2, Zenon
<1> HIDE DEF q, r
<1>4. ASSUME n >= Radix PROVE q < n
  <2>1. CASE q = 0
    BY <1>1, <1>4, <2>1
  <2>2. CASE q >= 1
    <3>1. Radix * q >= 2 * q
      BY <1>1, <1>3, <2>2, SMT
    <3>2. Radix * q \in Nat
      BY <1>1, <1>3, SMT
    <3> QED BY <1>1, <1>3, <2>2, <3>1, <3>2
  <2> QED BY <1>3, <2>1, <2>2
<1> QED BY <1>1, <1>3, <1>4 DEF q, r

(* The varints of the numbers up to m.                                     *)
Varint(n, s) ==
  IF n < Radix THEN <<n>> ELSE <<Radix + (n % Radix)>> \o s[n \div Radix]

Varints(m, s) == [n \in 0 .. m |-> Varint(n, s)]

(* There are such varints: the rest of a number is smaller.                *)
LEMMA VarintsExist ==
  ASSUME NEW n \in Nat
  PROVE  \E s : s = Varints(n, s)
<1> DEFINE T == {m \in Nat : ~ \E s : s = Varints(m, s)}
<1> SUFFICES ASSUME T # {} PROVE FALSE
  OBVIOUS
<1>1. PICK m \in T : \A k \in T : m <= k
  <2>1. T \in SUBSET Nat
    OBVIOUS
  <2> HIDE DEF T
  <2> QED BY <2>1, Least
<1>2. m \in Nat /\ ~ \E s : s = Varints(m, s)
  OBVIOUS
<1>3. \E s : m # 0 => s = Varints(m - 1, s)
  <2>1. CASE m = 0
    BY <2>1
  <2>2. CASE m # 0
    <3>1. m - 1 \in Nat /\ m - 1 \notin T
      BY <1>1, <1>2, <2>2
    <3> QED BY <3>1
  <2> QED BY <2>1, <2>2
<1>4. PICK s : m # 0 => s = Varints(m - 1, s)
  BY <1>3
<1> HIDE DEF T
<1> DEFINE t == [k \in 0 .. m |-> IF k = m THEN Varint(m, s) ELSE s[k]]
<1>5. ASSUME NEW k \in 0 .. m
      PROVE  t[k] = Varint(k, t)
  <2>1. /\ k \in Nat /\ m \in Nat /\ Radix \in Nat /\ Radix >= 2
        /\ k >= Radix => k \div Radix \in Nat /\ k \div Radix < k
    BY <1>2, DigitFacts
  <2>2. Varint(k, t) = Varint(k, s)
    <3>1. ASSUME k >= Radix PROVE t[k \div Radix] = s[k \div Radix]
      <4> DEFINE q == k \div Radix
      <4>1. q \in 0 .. m /\ q # m
        BY <2>1, <3>1
      <4> HIDE DEF q
      <4>2. t[q] = s[q]
        BY <4>1
      <4> HIDE DEF t
      <4> QED BY <4>2 DEF q
    <3> HIDE DEF t
    <3> QED BY <2>1, <3>1 DEF Varint
  <2>3. CASE k = m
    <3>1. t[k] = Varint(m, s)
      BY <2>3
    <3> QED BY <2>2, <2>3, <3>1
  <2>4. CASE k # m
    <3>1. t[k] = s[k] /\ m # 0 /\ k \in 0 .. m - 1
      BY <1>2, <2>4
    <3>2. s[k] = Varint(k, s)
      BY <1>4, <3>1 DEF Varints
    <3> QED BY <2>2, <3>1, <3>2
  <2> QED BY <2>3, <2>4
<1>6. t = Varints(m, t)
  <2>1. t = [k \in 0 .. m |-> t[k]]
    OBVIOUS
  <2> HIDE DEF t
  <2> QED BY <1>5, <2>1 DEF Varints
<1> QED BY <1>2, <1>6

(* The varint of a number does not depend on how far they are listed.      *)
LEMMA VarintsSame ==
  ASSUME NEW n \in Nat, NEW p \in Nat, NEW s, NEW t,
         s = Varints(n, s), t = Varints(p, t), n <= p
  PROVE  \A k \in 0 .. n : s[k] = t[k]
<1> DEFINE T == {k \in 0 .. n : s[k] # t[k]}
<1> SUFFICES ASSUME T # {} PROVE FALSE
  OBVIOUS
<1>1. PICK m \in T : \A k \in T : m <= k
  <2>1. T \in SUBSET Nat
    OBVIOUS
  <2> HIDE DEF T
  <2> QED BY <2>1, Least
<1>2. m \in 0 .. n /\ m \in 0 .. p /\ s[m] # t[m] /\ m \in Nat
  OBVIOUS
<1>3. s[m] = Varint(m, s) /\ t[m] = Varint(m, t)
  BY <1>2 DEF Varints
<1>4. Radix \in Nat /\ (m >= Radix => m \div Radix \in Nat /\ m \div Radix < m)
  BY <1>2, DigitFacts
<1>5. m >= Radix
  BY <1>2, <1>3, <1>4 DEF Varint
<1>6. s[m \div Radix] = t[m \div Radix]
  <2> DEFINE q == m \div Radix
  <2>1. q \in 0 .. n /\ ~ (m <= q)
    BY <1>2, <1>4, <1>5
  <2> HIDE DEF q
  <2>2. q \notin T
    BY <1>1, <2>1
  <2>3. s[q] = t[q]
    BY <2>1, <2>2
  <2> HIDE DEF T
  <2> QED BY <2>3 DEF q
<1> QED BY <1>2, <1>3, <1>6 DEF Varint

(* WriteVarInt writes what its loop says.                                  *)
LEMMA VarIntIs ==
  ASSUME NEW n \in Nat
  PROVE  VarInt[n] = Varint(n, VarInt)
<1> DEFINE G(m) == CHOOSE s : s = Varints(m, s)
           g == [m \in Nat |-> G(m)[m]]
<1>1. ASSUME NEW m \in Nat PROVE G(m) = Varints(m, G(m))
  <2>1. \E s : s = Varints(m, s)
    BY VarintsExist
  <2> QED BY <2>1
<1> HIDE DEF G
<1>2. ASSUME NEW m \in Nat PROVE g[m] = Varint(m, g)
  <2>1. g[m] = G(m)[m] /\ m \in 0 .. m
    OBVIOUS
  <2>2. G(m)[m] = Varint(m, G(m))
    BY <1>1, <2>1 DEF Varints
  <2>3. Radix \in Nat
        /\ (m >= Radix => m \div Radix \in Nat /\ m \div Radix < m)
    BY DigitFacts
  <2>4. ASSUME m >= Radix PROVE G(m)[m \div Radix] = g[m \div Radix]
    <3> DEFINE q == m \div Radix
    <3>1. q \in Nat /\ q <= m /\ q \in 0 .. q
      BY <2>3, <2>4
    <3> HIDE DEF q
    <3>2. G(q) = Varints(q, G(q)) /\ G(m) = Varints(m, G(m))
      BY <1>1, <3>1
    <3>3. \A k \in 0 .. q : G(q)[k] = G(m)[k]
      BY <3>1, <3>2, VarintsSame
    <3>4. g[q] = G(q)[q]
      BY <3>1
    <3> HIDE DEF g
    <3> QED BY <3>1, <3>3, <3>4 DEF q
  <2> HIDE DEF g
  <2> QED BY <2>1, <2>2, <2>3, <2>4 DEF Varint
<1>3. g = [m \in Nat |-> Varint(m, g)]
  <2>1. g = [m \in Nat |-> g[m]]
    OBVIOUS
  <2> HIDE DEF g
  <2> QED BY <1>2, <2>1
<1>4. VarInt = CHOOSE s : s = [m \in Nat |-> Varint(m, s)]
  BY DEF VarInt, Varint
<1>5. VarInt = [m \in Nat |-> Varint(m, VarInt)]
  <2>1. \E s : s = [m \in Nat |-> Varint(m, s)]
    BY <1>3
  <2> QED BY <1>4, <2>1
<1> QED BY <1>5

(* The digits of a varint.                                                 *)
LEMMA VarIntSeq ==
  ASSUME NEW n \in Nat
  PROVE  VarInt[n] \in Seq(Nat) /\ Len(VarInt[n]) \in Nat
         /\ Len(VarInt[n]) >= 1
<1> DEFINE Good(m) ==
             VarInt[m] \in Seq(Nat) /\ Len(VarInt[m]) \in Nat
               /\ Len(VarInt[m]) >= 1
           T == {m \in Nat : ~ Good(m)}
<1> SUFFICES ASSUME T # {} PROVE FALSE
  OBVIOUS
<1>1. PICK m \in T : \A k \in T : m <= k
  <2>1. T \in SUBSET Nat
    OBVIOUS
  <2> HIDE DEF T
  <2> QED BY <2>1, Least
<1>2. m \in Nat /\ ~ Good(m)
  OBVIOUS
<1>3. VarInt[m] = Varint(m, VarInt)
  BY <1>2, VarIntIs
<1>4. /\ Radix \in Nat /\ Radix >= 2
      /\ m \div Radix \in Nat /\ m % Radix \in 0 .. Radix - 1
      /\ m >= Radix => m \div Radix < m
  BY <1>2, DigitFacts
<1>5. CASE m < Radix
  <2>1. VarInt[m] = <<m>>
    BY <1>3, <1>5 DEF Varint
  <2> QED BY <1>2, <2>1
<1>6. CASE m >= Radix
  <2> DEFINE q == m \div Radix  r == m % Radix
  <2>1. q \in Nat /\ q < m /\ r \in Nat
    BY <1>4, <1>6
  <2>2. VarInt[m] = <<Radix + r>> \o VarInt[q]
    <3>1. ~ (m < Radix)
      BY <1>2, <1>4, <1>6
    <3> QED BY <1>3, <3>1, Zenon DEF Varint
  <2> HIDE DEF q, r
  <2>3. q \notin T
    BY <1>1, <1>2, <2>1
  <2>4. Good(q)
    BY <2>1, <2>3
  <2>5. <<Radix + r>> \in Seq(Nat) /\ Len(<<Radix + r>>) = 1
    BY <1>4, <2>1
  <2>6. /\ <<Radix + r>> \o VarInt[q] \in Seq(Nat)
        /\ Len(<<Radix + r>> \o VarInt[q]) = 1 + Len(VarInt[q])
    BY <2>4, <2>5, ConcatProperties
  <2> QED BY <1>2, <2>2, <2>4, <2>6
<1> QED BY <1>2, <1>4, <1>5, <1>6

(* The first one is the low digit, marked if there are more; the others    *)
(* are those of the rest.                                                  *)
LEMMA VarIntParts ==
  ASSUME NEW n \in Nat
  PROVE  /\ n < Radix => VarInt[n] = <<n>>
         /\ n >= Radix =>
              /\ VarInt[n][1] = Radix + (n % Radix)
              /\ Len(VarInt[n]) = 1 + Len(VarInt[n \div Radix])
              /\ \A k \in 1 .. Len(VarInt[n \div Radix]) :
                   VarInt[n][k + 1] = VarInt[n \div Radix][k]
<1>1. VarInt[n] = Varint(n, VarInt)
  BY VarIntIs
<1>2. /\ Radix \in Nat /\ Radix >= 2
      /\ n \div Radix \in Nat /\ n % Radix \in 0 .. Radix - 1
  BY DigitFacts
<1>3. ASSUME n < Radix PROVE VarInt[n] = <<n>>
  BY <1>1, <1>3 DEF Varint
<1>4. ASSUME n >= Radix
      PROVE  /\ VarInt[n][1] = Radix + (n % Radix)
             /\ Len(VarInt[n]) = 1 + Len(VarInt[n \div Radix])
             /\ \A k \in 1 .. Len(VarInt[n \div Radix]) :
                  VarInt[n][k + 1] = VarInt[n \div Radix][k]
  <2> DEFINE q == n \div Radix  r == n % Radix  d == <<Radix + r>>
  <2>1. q \in Nat /\ r \in Nat /\ VarInt[n] = d \o VarInt[q]
    BY <1>1, <1>2, <1>4 DEF Varint
  <2>2. d \in Seq(Nat) /\ Len(d) = 1 /\ d[1] = Radix + r
    BY <1>2, <2>1
  <2> HIDE DEF q, r, d
  <2>3. VarInt[q] \in Seq(Nat) /\ Len(VarInt[q]) \in Nat
    BY <2>1, VarIntSeq
  <2>4. /\ Len(d \o VarInt[q]) = 1 + Len(VarInt[q])
        /\ \A i \in 1 .. 1 + Len(VarInt[q]) :
             (d \o VarInt[q])[i] =
               IF i <= 1 THEN d[i] ELSE VarInt[q][i - 1]
    <3> DEFINE c == VarInt[q]
    <3>1. c \in Seq(Nat) /\ Len(c) \in Nat
      BY <2>3
    <3> HIDE DEF c
    <3>2. /\ Len(d \o c) = Len(d) + Len(c)
          /\ \A i \in 1 .. Len(d) + Len(c) :
               (d \o c)[i] = IF i <= Len(d) THEN d[i] ELSE c[i - Len(d)]
      BY <2>2, <3>1, ConcatProperties
    <3> QED BY <2>2, <3>2 DEF c
  <2>5. (d \o VarInt[q])[1] = d[1]
    BY <2>3, <2>4
  <2>6. ASSUME NEW k \in 1 .. Len(VarInt[q])
        PROVE  (d \o VarInt[q])[k + 1] = VarInt[q][k]
    <3>1. k + 1 \in 1 .. 1 + Len(VarInt[q]) /\ ~ (k + 1 <= 1)
          /\ (k + 1) - 1 = k
      BY <2>3
    <3> QED BY <2>4, <3>1
  <2>7. /\ VarInt[n][1] = Radix + r
        /\ Len(VarInt[n]) = 1 + Len(VarInt[q])
        /\ \A k \in 1 .. Len(VarInt[q]) : VarInt[n][k + 1] = VarInt[q][k]
    BY <2>1, <2>2, <2>4, <2>5, <2>6
  <2> QED BY <2>7 DEF q, r
<1> QED BY <1>3, <1>4

(* A number below a power of the radix has no more digits than that.       *)
LEMMA VarIntFits ==
  ASSUME NEW d \in 1 .. ValueDigits, NEW n \in Nat, n < Radix ^ d
  PROVE  VarIntSize(n) \in 1 .. d
<1> DEFINE Fit(e) == \A m \in Nat : m < Radix ^ e => Len(VarInt[m]) <= e
           T == {e \in 1 .. ValueDigits : ~ Fit(e)}
<1>1. ASSUME T # {} PROVE FALSE
  <2>1. PICK e \in T : \A k \in T : e <= k
    <3>1. T \in SUBSET Nat
      BY ParamAssumption
    <3> HIDE DEF T
    <3> QED BY <1>1, <3>1, Least
  <2>2. e \in 1 .. ValueDigits /\ e \in Nat /\ ~ Fit(e) /\ ValueDigits \in Nat
    BY ParamAssumption
  <2>3. PICK m \in Nat : m < Radix ^ e /\ ~ (Len(VarInt[m]) <= e)
    BY <2>2
  <2>4. /\ Radix \in Nat /\ Radix >= 2
        /\ m \div Radix \in Nat /\ m % Radix \in 0 .. Radix - 1
        /\ m = Radix * (m \div Radix) + (m % Radix)
    BY DigitFacts
  <2>5. /\ m < Radix => VarInt[m] = <<m>>
        /\ m >= Radix => Len(VarInt[m]) = 1 + Len(VarInt[m \div Radix])
    BY VarIntParts
  <2>6. m >= Radix
    <3> SUFFICES ASSUME m < Radix PROVE FALSE
      BY <2>4
    <3>1. VarInt[m] = <<m>>
      BY <2>5
    <3>2. Len(<<m>>) = 1
      OBVIOUS
    <3> QED BY <2>2, <2>3, <3>1, <3>2
  <2>7. Radix ^ e = Radix * Radix ^ (e - 1) /\ Radix ^ e \in Nat
    BY <2>2, PowerAssumption
  <2> DEFINE q == m \div Radix  r == m % Radix  a == Radix ^ e
             b == Radix ^ (e - 1)
  <2>8. e # 1
    <3> SUFFICES ASSUME e = 1 PROVE FALSE
      OBVIOUS
    <3>1. b = 1
      BY PowerAssumption
    <3>2. a = Radix * b
      BY <2>7
    <3> HIDE DEF a, b
    <3>3. a = Radix
      BY <2>4, <3>1, <3>2
    <3> QED BY <2>3, <2>4, <2>6, <3>3 DEF a
  <2>9. e - 1 \in 1 .. ValueDigits /\ e - 1 \notin T /\ e - 1 \in Nat
    BY <2>1, <2>2, <2>8
  <2>10. Fit(e - 1)
    BY <2>9
  <2>11. q < b
    <3>1. b \in Nat
      BY <2>9, PowerAssumption
    <3>2. /\ q \in Nat /\ r \in 0 .. Radix - 1 /\ m = Radix * q + r
          /\ a = Radix * b /\ m < a
      BY <2>3, <2>4, <2>7
    <3> HIDE DEF q, r, a, b
    <3> SUFFICES ASSUME q >= b PROVE FALSE
      BY <3>1, <3>2
    <3>3. Radix * q >= Radix * b
      <4>1. q - b \in Nat
        BY <3>1, <3>2
      <4>2. Radix * (q - b) \in Nat
        BY <2>4, <4>1
      <4>3. Radix * (q - b) = Radix * q - Radix * b
            /\ Radix * q \in Nat /\ Radix * b \in Nat
        BY <2>4, <3>1, <3>2
      <4> QED BY <4>2, <4>3
    <3>4. Radix * q \in Nat /\ Radix * b \in Nat
      BY <2>4, <3>1, <3>2
    <3> QED BY <2>4, <3>2, <3>3, <3>4
  <2>12. Len(VarInt[q]) <= e - 1 /\ Len(VarInt[q]) \in Nat
    <3>1. q \in Nat
      BY <2>4
    <3>2. Len(VarInt[q]) \in Nat
      BY <3>1, VarIntSeq
    <3> QED BY <2>10, <2>11, <3>1, <3>2
  <2>13. Len(VarInt[m]) = 1 + Len(VarInt[q])
    BY <2>5, <2>6
  <2> HIDE DEF q
  <2> QED BY <2>2, <2>3, <2>12, <2>13
<1>2. Fit(d)
  BY <1>1
<1>3. Len(VarInt[n]) \in Nat /\ Len(VarInt[n]) >= 1
  BY VarIntSeq
<1> QED BY <1>2, <1>3 DEF VarIntSize

----------------------------------------------------------------------------
(* Where the parts are due.                                                *)

(* What a job is made of.                                                  *)
LEMMA JobTypes ==
  ASSUME job \in Jobs
  PROVE  /\ job.type \in Types
         /\ job.records \in Seq(Record) /\ Items \in Nat
         /\ \A i \in 1 .. Items :
              /\ job.records[i].klen \in Nat
              /\ job.records[i].vlen \in Nat \union {-1}
         /\ job.pieces \in Seq(Nat \ {0}) /\ Pieces \in Nat
         /\ \A i \in 1 .. Pieces : job.pieces[i] \in Nat \ {0}
         /\ job.conflict \in Nat /\ job.total \in Nat
         /\ Items >= 1 => Pieces >= 1
<1>1. IsJob(job)
  BY JobAssumption
<1>2. /\ job.records \in Seq(Record) /\ job.pieces \in Seq(Nat \ {0})
      /\ SumTo(job.pieces, Pieces) = Items
  BY <1>1 DEF IsJob, Pieces, Items
<1>3. Items \in Nat /\ Pieces \in Nat
  BY <1>2, LenProperties DEF Items, Pieces
<1>4. \A i \in 1 .. Items : job.records[i] \in Record
  BY <1>2, ElementOfSeq DEF Items
<1>5. \A i \in 1 .. Pieces : job.pieces[i] \in Nat \ {0}
  BY <1>2, ElementOfSeq DEF Pieces
<1>6. ASSUME Items >= 1 PROVE Pieces >= 1
  <2>1. SumTo(job.pieces, 0) = 0
    BY SumNext
  <2> SUFFICES ASSUME Pieces = 0 PROVE FALSE
    BY <1>3
  <2>2. Items = 0
    BY <1>2, <2>1
  <2> QED BY <1>6, <2>2
<1> QED BY <1>1, <1>2, <1>3, <1>4, <1>5, <1>6 DEF IsJob, Record

(* Numbers of cells and of sections.                                       *)
LEMMA Quotients ==
  ASSUME NEW a \in Nat, NEW b \in Nat \ {0}
  PROVE  /\ (a + b - 1) \div b \in Nat
         /\ ((a + b - 1) \div b) * b \in a .. a + b - 1
         /\ a >= 1 => (a + b - 1) \div b >= 1
<1> DEFINE c == a + b - 1  q == c \div b  r == c % b
<1>1. c \in Nat
  OBVIOUS
<1>2. \A x \in Nat : /\ x \div b \in Nat /\ x % b \in 0 .. b - 1
                     /\ x = b * (x \div b) + (x % b)
  BY SMT
<1> HIDE DEF c
<1>3. q \in Nat /\ r \in 0 .. b - 1 /\ c = b * q + r
  BY <1>1, <1>2, Zenon
<1> HIDE DEF q, r
<1>4. b * q = q * b /\ q * b \in Nat /\ c = a + b - 1
  BY <1>3 DEF c
<1>5. q * b \in a .. a + b - 1
  BY <1>3, <1>4
<1>6. ASSUME a >= 1 PROVE q >= 1
  <2> SUFFICES ASSUME q = 0 PROVE FALSE
    BY <1>3
  <2>1. q * b = 0
    OBVIOUS
  <2> QED BY <1>5, <1>6, <2>1
<1> QED BY <1>3, <1>5, <1>6 DEF q, c

(* A product of positive numbers is positive.                              *)
LEMMA ProductPositive ==
  ASSUME NEW a \in Nat, NEW b \in Nat
  PROVE  a * b \in Nat /\ (a >= 1 /\ b >= 1 => a * b >= 1 /\ a * b >= a)
<1>1. a * b \in Nat
  OBVIOUS
<1>2. ASSUME a >= 1, b >= 1 PROVE a * b >= a
  <2>1. a * (b - 1) \in Nat
    BY <1>2
  <2>2. a * (b - 1) = a * b - a
    OBVIOUS
  <2> QED BY <1>1, <2>1, <2>2
<1> QED BY <1>1, <1>2

(* A piece has cells and sections of some size, in bytes.                  *)
LEMMA PartSizes ==
  ASSUME NEW n \in Nat
  PROVE  /\ L1Size(n) \in Nat
         /\ SectionSize(n) * SectionBytes \in Nat
         /\ SectionSize(n) * SectionBytes >= 1
<1>1. Cell \in Nat \ {0} /\ SectionBits \in Nat \ {0}
      /\ SectionBytes \in Nat \ {0}
  BY ParamAssumption
<1>2. L1Size(n) \in Nat
  BY <1>1, Quotients DEF L1Size
<1>3. SectionSize(n) \in Nat /\ SectionSize(n) >= 1
  <2> DEFINE a == 2 * n + 1
  <2>1. a \in Nat /\ a >= 1
        /\ SectionSize(n) = (a + SectionBits - 1) \div SectionBits
    BY DEF SectionSize
  <2> HIDE DEF a
  <2> QED BY <1>1, <2>1, Quotients
<1>4. SectionBytes \in Nat /\ SectionBytes >= 1
  BY <1>1
<1> QED BY <1>2, <1>3, <1>4, ProductPositive

Start == HeaderSize + Pieces * CountSize
CellBytes == [k \in 1 .. Pieces |-> L1Size(job.pieces[k])]
SectionsBytes ==
  [k \in 1 .. Pieces |-> SectionSize(job.pieces[k]) * SectionBytes]

(* The sizes that are summed up are numbers.                               *)
LEMMA BytesTypes ==
  ASSUME job \in Jobs
  PROVE  /\ Pieces \in Nat /\ Start \in Nat /\ Start >= HeaderSize
         /\ HeaderSize \in Nat /\ HeaderSize >= 1 /\ CountSize \in Nat
         /\ Pieces * CountSize \in Nat
         /\ \A k \in 1 .. Pieces :
              /\ CellBytes[k] \in Nat
              /\ CellBytes[k] = L1Size(job.pieces[k])
              /\ SectionsBytes[k] \in Nat
              /\ SectionsBytes[k] >= 1
              /\ SectionsBytes[k] = SectionSize(job.pieces[k]) * SectionBytes
<1>1. Pieces \in Nat /\ \A k \in 1 .. Pieces : job.pieces[k] \in Nat
  BY JobTypes
<1>2. HeaderSize \in Nat /\ HeaderSize >= 1 /\ CountSize \in Nat
  BY ParamAssumption
<1>3. Pieces * CountSize \in Nat
  BY <1>1, <1>2, ProductPositive
<1>4. ASSUME NEW k \in 1 .. Pieces
      PROVE  /\ CellBytes[k] \in Nat
             /\ CellBytes[k] = L1Size(job.pieces[k])
             /\ SectionsBytes[k] \in Nat
             /\ SectionsBytes[k] >= 1
             /\ SectionsBytes[k] = SectionSize(job.pieces[k]) * SectionBytes
  BY <1>1, PartSizes DEF CellBytes, SectionsBytes
<1> QED BY <1>1, <1>2, <1>3, <1>4 DEF Start

(* CellsAt is a partial sum of the sizes of the cells.                     *)
LEMMA CellsSum ==
  ASSUME job \in Jobs, NEW i \in 1 .. Pieces + 1
  PROVE  CellsAt(i) = Start + SumTo(CellBytes, i - 1)
<1>1. Pieces \in Nat /\ i - 1 \in Nat
  BY JobTypes
<1> DEFINE f == [k \in 1 .. i - 1 |-> L1Size(job.pieces[k])]
<1>2. \A k \in 1 .. i - 1 : f[k] = CellBytes[k]
  BY <1>1 DEF CellBytes
<1>3. CellsAt(i) = Start + SumTo(f, i - 1)
  BY DEF CellsAt, Start
<1> HIDE DEF f
<1>4. SumTo(f, i - 1) = SumTo(CellBytes, i - 1)
  BY <1>1, <1>2, SumSame
<1> QED BY <1>3, <1>4

(* SectionsAt is a partial sum of the sizes of the sections.               *)
LEMMA SectionsSum ==
  ASSUME job \in Jobs, NEW i \in 1 .. Pieces + 1
  PROVE  SectionsAt(i) =
           AlignUp(CellsAt(Pieces + 1)) + SumTo(SectionsBytes, i - 1)
<1>1. Pieces \in Nat /\ i - 1 \in Nat
  BY JobTypes
<1> DEFINE f == [k \in 1 .. i - 1 |->
                   SectionSize(job.pieces[k]) * SectionBytes]
<1>2. \A k \in 1 .. i - 1 : f[k] = SectionsBytes[k]
  BY <1>1 DEF SectionsBytes
<1>3. SectionsAt(i) = AlignUp(CellsAt(Pieces + 1)) + SumTo(f, i - 1)
  BY DEF SectionsAt
<1> HIDE DEF f
<1>4. SumTo(f, i - 1) = SumTo(SectionsBytes, i - 1)
  BY <1>1, <1>2, SumSame
<1> QED BY <1>3, <1>4

(* The cells of a piece follow those of the one before.                    *)
LEMMA CellsFacts ==
  ASSUME job \in Jobs
  PROVE  /\ CellsAt(1) = HeaderSize + Pieces * CountSize
         /\ CellsAt(Pieces + 1) = IndexSize(job)
         /\ HeaderSize \in Nat /\ HeaderSize >= 1
         /\ \A i \in 1 .. Pieces + 1 :
              CellsAt(i) \in Nat /\ HeaderSize <= CellsAt(i)
         /\ \A i \in 1 .. Pieces : CellsAt(i + 1) =
                                     CellsAt(i) + L1Size(job.pieces[i])
         /\ \A i, k \in 1 .. Pieces + 1 : i <= k => CellsAt(i) <= CellsAt(k)
<1>1. /\ Pieces \in Nat /\ Start \in Nat /\ Start >= HeaderSize
      /\ HeaderSize \in Nat /\ HeaderSize >= 1
      /\ \A k \in 1 .. Pieces : /\ CellBytes[k] \in Nat
                                /\ CellBytes[k] = L1Size(job.pieces[k])
  BY BytesTypes
<1>2. ASSUME NEW i \in 1 .. Pieces + 1, NEW k \in 1 .. Pieces + 1, i <= k
      PROVE  /\ CellsAt(i) \in Nat /\ CellsAt(k) \in Nat
             /\ HeaderSize <= CellsAt(i) /\ CellsAt(i) <= CellsAt(k)
  <2> DEFINE p == i - 1  q == k - 1
  <2>1. p \in Nat /\ q \in Nat /\ p \in 0 .. q
    BY <1>1, <1>2
  <2>2. \A x \in 1 .. q : CellBytes[x] \in Nat
    BY <1>1
  <2>3. CellsAt(i) = Start + SumTo(CellBytes, p)
        /\ CellsAt(k) = Start + SumTo(CellBytes, q)
    BY CellsSum
  <2> HIDE DEF p, q
  <2>4. /\ SumTo(CellBytes, p) \in Nat /\ SumTo(CellBytes, q) \in Nat
        /\ SumTo(CellBytes, p) <= SumTo(CellBytes, q)
    BY <2>1, <2>2, SumGrows
  <2> QED BY <1>1, <2>3, <2>4
<1>3. ASSUME NEW i \in 1 .. Pieces
      PROVE  CellsAt(i + 1) = CellsAt(i) + L1Size(job.pieces[i])
  <2> DEFINE p == i - 1
  <2>1. p \in Nat /\ p + 1 = i /\ i \in 1 .. Pieces + 1
        /\ i + 1 \in 1 .. Pieces + 1
        /\ (i + 1) - 1 = i /\ p \in 0 .. i /\ i \in Nat
    BY <1>1
  <2>2. CellsAt(i) = Start + SumTo(CellBytes, p)
        /\ CellsAt(i + 1) = Start + SumTo(CellBytes, (i + 1) - 1)
    BY <2>1, CellsSum
  <2>3. CellsAt(i + 1) = Start + SumTo(CellBytes, i)
    BY <2>1, <2>2
  <2>4. \A x \in 1 .. i : CellBytes[x] \in Nat
    BY <1>1
  <2> HIDE DEF p
  <2>5. SumTo(CellBytes, p + 1) = SumTo(CellBytes, p) + CellBytes[p + 1]
    BY <2>1, SumNext
  <2>6. SumTo(CellBytes, p) \in Nat
    BY <2>1, <2>4, SumGrows
  <2>7. SumTo(CellBytes, i) = SumTo(CellBytes, p) + CellBytes[i]
    BY <2>1, <2>5
  <2>8. CellBytes[i] = L1Size(job.pieces[i]) /\ CellBytes[i] \in Nat
    BY <1>1
  <2> QED BY <1>1, <2>2, <2>3, <2>6, <2>7, <2>8
<1>4. CellsAt(1) = HeaderSize + Pieces * CountSize
  <2>1. 1 \in 1 .. Pieces + 1
    BY <1>1
  <2>2. CellsAt(1) = Start + SumTo(CellBytes, 1 - 1)
    BY <2>1, CellsSum
  <2>3. SumTo(CellBytes, 0) = 0
    BY SumNext
  <2> QED BY <1>1, <2>2, <2>3 DEF Start
<1>5. CellsAt(Pieces + 1) = IndexSize(job)
  <2>1. Pieces + 1 \in 1 .. Pieces + 1 /\ (Pieces + 1) - 1 = Pieces
    BY <1>1
  <2>2. CellsAt(Pieces + 1) = Start + SumTo(CellBytes, (Pieces + 1) - 1)
    BY <2>1, CellsSum
  <2>3. IndexSize(job) = Start + SumTo(CellBytes, Pieces)
    BY DEF IndexSize, Start, CellBytes, Pieces
  <2> QED BY <2>1, <2>2, <2>3
<1>6. \A i \in 1 .. Pieces + 1 : i <= i
  BY <1>1
<1> QED BY <1>1, <1>2, <1>3, <1>4, <1>5, <1>6

(* AlignUp aligns, and does not go below its argument where the mask keeps *)
(* all of its bits.                                                        *)
LEMMA AlignFacts ==
  ASSUME NEW n \in Nat
  PROVE  /\ AlignUp(n) \in Nat
         /\ n + Align - 1 < Word32 =>
              /\ AlignUp(n) >= n
              /\ AlignUp(n) = ((n + Align - 1) \div Align) * Align
<1>1. Align \in Nat \ {0} /\ Word32 \in Nat \ {0}
  BY ParamAssumption
<1> DEFINE a == n + Align - 1
<1>2. a \in Nat
  BY <1>1
<1>3. \A w \in Nat \ {0} : a % w \in Nat /\ (a < w => a % w = a)
  <2> HIDE DEF a
  <2> QED BY <1>2, SMT
<1>4. a % Word32 \in Nat /\ (a < Word32 => a % Word32 = a)
  BY <1>1, <1>3
<1>5. AlignUp(n) = ((a % Word32) \div Align) * Align
  BY DEF AlignUp
<1>6. (a % Word32) \div Align \in Nat
  <2> DEFINE b == a % Word32
  <2>1. b \in Nat
    BY <1>4
  <2> HIDE DEF b
  <2>2. b \div Align \in Nat
    BY <1>1, <2>1, SMT
  <2> QED BY <2>2 DEF b
<1>7. AlignUp(n) \in Nat
  <2> DEFINE c == (a % Word32) \div Align
  <2>1. c \in Nat /\ AlignUp(n) = c * Align
    BY <1>5, <1>6
  <2> HIDE DEF c
  <2> QED BY <1>1, <2>1
<1>8. (a \div Align) * Align \in n .. a
  BY <1>1, Quotients
<1>9. ASSUME a < Word32
      PROVE  AlignUp(n) >= n /\ AlignUp(n) = (a \div Align) * Align
  <2>1. AlignUp(n) = (a \div Align) * Align
    BY <1>4, <1>5, <1>9, Zenon
  <2> HIDE DEF a
  <2> QED BY <1>2, <1>7, <1>8, <2>1
<1> QED BY <1>7, <1>9

(* The sections of a piece follow those of the one before, and the first   *)
(* the padding.                                                            *)
LEMMA SectionsFacts ==
  ASSUME job \in Jobs
  PROVE  /\ SectionsAt(1) = AlignUp(CellsAt(Pieces + 1))
         /\ ContentAt = SectionsAt(Pieces + 1)
         /\ \A i \in 1 .. Pieces + 1 : SectionsAt(i) \in Nat
         /\ \A i \in 1 .. Pieces :
              /\ SectionsAt(i + 1) =
                   SectionsAt(i) + SectionSize(job.pieces[i]) * SectionBytes
              /\ SectionsAt(i) < SectionsAt(i + 1)
         /\ \A i, k \in 1 .. Pieces + 1 :
              i <= k => SectionsAt(i) <= SectionsAt(k)
<1> DEFINE a == AlignUp(CellsAt(Pieces + 1))
<1>1. /\ Pieces \in Nat
      /\ \A k \in 1 .. Pieces :
           /\ SectionsBytes[k] \in Nat
           /\ SectionsBytes[k] >= 1
                                /\ SectionsBytes[k] =
                                     SectionSize(job.pieces[k]) * SectionBytes
  BY BytesTypes
<1>2. a \in Nat
  <2>1. CellsAt(Pieces + 1) \in Nat
    BY <1>1, CellsFacts
  <2> QED BY <2>1, AlignFacts
<1>3. ASSUME NEW i \in 1 .. Pieces + 1, NEW k \in 1 .. Pieces + 1, i <= k
      PROVE  /\ SectionsAt(i) \in Nat /\ SectionsAt(k) \in Nat
             /\ SectionsAt(i) <= SectionsAt(k)
  <2> DEFINE p == i - 1  q == k - 1
  <2>1. p \in Nat /\ q \in Nat /\ p \in 0 .. q
    BY <1>1, <1>3
  <2>2. \A x \in 1 .. q : SectionsBytes[x] \in Nat
    BY <1>1
  <2>3. SectionsAt(i) = a + SumTo(SectionsBytes, p)
        /\ SectionsAt(k) = a + SumTo(SectionsBytes, q)
    BY SectionsSum
  <2> HIDE DEF p, q, a
  <2>4. /\ SumTo(SectionsBytes, p) \in Nat /\ SumTo(SectionsBytes, q) \in Nat
        /\ SumTo(SectionsBytes, p) <= SumTo(SectionsBytes, q)
    BY <2>1, <2>2, SumGrows
  <2> QED BY <1>2, <2>3, <2>4
<1>4. ASSUME NEW i \in 1 .. Pieces
      PROVE  /\ SectionsAt(i + 1) =
                  SectionsAt(i) + SectionSize(job.pieces[i]) * SectionBytes
             /\ SectionsAt(i) < SectionsAt(i + 1)
  <2> DEFINE p == i - 1
  <2>1. p \in Nat /\ p + 1 = i /\ i \in 1 .. Pieces + 1
        /\ i + 1 \in 1 .. Pieces + 1
        /\ (i + 1) - 1 = i /\ p \in 0 .. i /\ i \in Nat
    BY <1>1
  <2>2. SectionsAt(i) = a + SumTo(SectionsBytes, p)
        /\ SectionsAt(i + 1) = a + SumTo(SectionsBytes, (i + 1) - 1)
    BY <2>1, SectionsSum
  <2>3. SectionsAt(i + 1) = a + SumTo(SectionsBytes, i)
    BY <2>1, <2>2
  <2>4. \A x \in 1 .. i : SectionsBytes[x] \in Nat
    BY <1>1
  <2> HIDE DEF p, a
  <2>5. SumTo(SectionsBytes, p + 1)
          = SumTo(SectionsBytes, p) + SectionsBytes[p + 1]
    BY <2>1, SumNext
  <2>6. SumTo(SectionsBytes, p) \in Nat
    BY <2>1, <2>4, SumGrows
  <2>7. SumTo(SectionsBytes, i) = SumTo(SectionsBytes, p) + SectionsBytes[i]
    BY <2>1, <2>5
  <2>8. /\ SectionsBytes[i] = SectionSize(job.pieces[i]) * SectionBytes
        /\ SectionsBytes[i] \in Nat /\ SectionsBytes[i] >= 1
    BY <1>1
  <2>9. SectionsAt(i + 1) = SectionsAt(i) + SectionsBytes[i]
        /\ SectionsAt(i) \in Nat
    BY <1>2, <2>2, <2>3, <2>6, <2>7, <2>8
  <2> QED BY <2>8, <2>9
<1>5. SectionsAt(1) = a
  <2>1. 1 \in 1 .. Pieces + 1
    BY <1>1
  <2>2. SectionsAt(1) = a + SumTo(SectionsBytes, 1 - 1)
    BY <2>1, SectionsSum
  <2>3. SumTo(SectionsBytes, 0) = 0
    BY SumNext
  <2> HIDE DEF a
  <2> QED BY <1>2, <2>2, <2>3
<1>6. \A i \in 1 .. Pieces + 1 : i <= i
  BY <1>1
<1> QED BY <1>1, <1>3, <1>4, <1>5, <1>6 DEF ContentAt

(* With an index that can be told in the width of the mask, no part is due *)
(* before one that comes earlier, and the device has the same places.      *)
LEMMA NarrowFacts ==
  ASSUME Narrow, job \in Jobs
  PROVE  /\ CellsAt(Pieces + 1) <= SectionsAt(1)
         /\ AlignUp(CellsAt(Pieces + 1)) >= CellsAt(Pieces + 1)
         /\ DeviceSectionsAt = SectionsAt(1)
         /\ \A i, k \in 1 .. Pieces + 1 : CellsAt(i) <= SectionsAt(k)
<1>1. IndexSize(job) + Align - 1 < Word32
  BY DEF Narrow
<1> DEFINE c == CellsAt(Pieces + 1)
<1>2. c = IndexSize(job) /\ c \in Nat /\ Pieces \in Nat
      /\ Pieces + 1 \in 1 .. Pieces + 1 /\ 1 \in 1 .. Pieces + 1
  BY CellsFacts, JobTypes
<1>3. c + Align - 1 < Word32
  BY <1>1, <1>2
<1>4. AlignUp(c) >= c /\ AlignUp(c) = ((c + Align - 1) \div Align) * Align
      /\ AlignUp(c) \in Nat
  <2> HIDE DEF c
  <2> QED BY <1>2, <1>3, AlignFacts
<1>5. SectionsAt(1) = AlignUp(c)
  BY SectionsFacts
<1>6. DeviceSectionsAt = SectionsAt(1)
  BY <1>4, <1>5, Zenon DEF DeviceSectionsAt
<1>7. ASSUME NEW i \in 1 .. Pieces + 1, NEW k \in 1 .. Pieces + 1
      PROVE  CellsAt(i) <= SectionsAt(k)
  <2>1. /\ i <= Pieces + 1 /\ 1 <= k
        /\ CellsAt(i) \in Nat /\ SectionsAt(k) \in Nat
    BY <1>2, CellsFacts, SectionsFacts
  <2>2. CellsAt(i) <= c
    BY <1>2, <2>1, CellsFacts
  <2>3. SectionsAt(1) <= SectionsAt(k)
    BY <1>2, <2>1, SectionsFacts
  <2> HIDE DEF c
  <2> QED BY <1>2, <1>4, <1>5, <2>1, <2>2, <2>3
<1> QED BY <1>2, <1>4, <1>5, <1>6, <1>7

----------------------------------------------------------------------------
(* Steps that leave the table alone.                                       *)
LEMMA Same ==
  ASSUME UNCHANGED <<job, keyLen, valLen, place, lines>>
  PROVE  /\ Items' = Items /\ Pieces' = Pieces /\ Lines' = Lines
         /\ Places' = Places /\ LineSize' = LineSize
         /\ Separated' <=> Separated
         /\ Detected' <=> Detected
         /\ \A i : CellsAt(i)' = CellsAt(i) /\ SectionsAt(i)' = SectionsAt(i)
         /\ ContentAt' = ContentAt /\ ExtendAt' = ExtendAt
         /\ \A i : /\ Line(i)' = Line(i) /\ At(i)' = At(i)
                   /\ ValueAt(i)' = ValueAt(i) /\ Past(i)' = Past(i)
         /\ \A m : (Fits(m)' <=> Fits(m)) /\ (Spaced(m)' <=> Spaced(m))
         /\ \A ph, i : Ready(ph, i)' <=> Ready(ph, i)
<1>1. /\ Items' = Items /\ Pieces' = Pieces /\ Lines' = Lines
      /\ Separated' <=> Separated
  BY DEF Items, Pieces, Lines, Separated
<1>2. Places' = Places /\ LineSize' = LineSize /\ (Detected' <=> Detected)
  BY <1>1 DEF Places, LineSize, Detected
<1>3. \A i : CellsAt(i)' = CellsAt(i)
  BY <1>1, Zenon DEF CellsAt
<1>4. \A i : SectionsAt(i)' = SectionsAt(i)
  BY <1>1, <1>3, Zenon DEF SectionsAt
<1>5. ContentAt' = ContentAt
  BY <1>1, <1>4 DEF ContentAt
<1>6. ExtendAt' = ExtendAt
  BY <1>1, <1>2, <1>5 DEF ExtendAt
<1>7. \A i : Line(i)' = Line(i)
  BY DEF Line
<1>8. \A i : At(i)' = At(i)
  BY <1>6, <1>7 DEF At
<1>9. \A i : ValueAt(i)' = ValueAt(i) /\ Past(i)' = Past(i)
  BY <1>7, <1>8 DEF ValueAt, Past
<1>10. \A m : Fits(m)' <=> Fits(m)
  BY <1>1, <1>7 DEF Fits
<1>11. \A m : Spaced(m)' <=> Spaced(m)
  BY <1>7, <1>9 DEF Spaced
<1>12. \A ph, i : Ready(ph, i)' <=> Ready(ph, i)
  BY <1>1, <1>10 DEF Ready
<1> QED BY <1>1, <1>2, <1>3, <1>4, <1>5, <1>6, <1>7, <1>8, <1>9, <1>10, <1>11,
           <1>12

(* What a call of write does.                                              *)
LEMMA PutDoes ==
  ASSUME TypeInv, NEW part \in Names, NEW of \in Nat, NEW len \in Nat,
         NEW ph, NEW k, Put(part, of, len, ph, k)
  PROVE  /\ UNCHANGED <<job, attached, keyLen, valLen, conflict, total,
                        outcomes, place, offset, lines>>
         /\ toc' = Append(toc, [part |-> part, of |-> of,
                                start |-> given, len |-> len])
         /\ toc' \in Seq(Part) /\ toc' # <<>>
         /\ End' = given + len
         /\ given' \in Nat /\ stored' \in Nat
         /\ open' \in BOOLEAN /\ answer' \in BOOLEAN
         /\ stored' = stored \/ stored' <= given + len
         /\ \/ /\ given' = given + len /\ loop' = k
               /\ ph = "close" => phase' = "close" /\ status' = "OK"
               /\ ph # "close" => phase' = ph /\ status' = status
            \/ /\ given' = given /\ loop' = loop
               /\ phase' = "close" /\ status' = "FAIL_TO_OUTPUT"
<1>1. given \in Nat /\ stored \in Nat /\ open \in BOOLEAN /\ toc \in Seq(Part)
  BY DEF TypeInv, TypeOK, Part
<1>2. /\ Writer!Write(len)
      /\ toc' = Append(toc, [part |-> part, of |-> of,
                             start |-> given, len |-> len])
      /\ UNCHANGED <<job, attached, keyLen, valLen, conflict, total, outcomes,
                     place, offset, lines>>
      /\ IF answer'
         THEN /\ loop' = k
              /\ IF ph = "close" THEN Return("OK") ELSE Continue(ph)
         ELSE Return("FAIL_TO_OUTPUT") /\ UNCHANGED loop
  BY DEF Put, inert, buildVars
<1>3. /\ toc' \in Seq(Part) /\ Len(toc') = Len(toc) + 1 /\ Len(toc) \in Nat
      /\ toc'[Len(toc')] = [part |-> part, of |-> of,
                            start |-> given, len |-> len]
  <2> DEFINE e == [part |-> part, of |-> of, start |-> given, len |-> len]
  <2>1. e \in Part
    BY <1>1 DEF Part
  <2>2. toc' = Append(toc, e)
    BY <1>2
  <2> HIDE DEF e
  <2>3. toc' \in Seq(Part) /\ Len(toc') = Len(toc) + 1
        /\ toc'[Len(toc) + 1] = e
        /\ Len(toc) \in Nat
    BY <1>1, <2>1, <2>2, AppendProperties, LenProperties
  <2> QED BY <2>3 DEF e
<1>4. toc' # <<>>
  BY <1>3
<1>5. End' = given + len
  BY <1>3, <1>4 DEF End
<1>6. \/ /\ given' = given + len /\ stored' \in stored .. given + len
         /\ answer' = TRUE /\ open' = open
      \/ /\ given' = given /\ answer' = FALSE /\ open' = FALSE
         /\ stored' \in stored .. (given + len) - 1
      \/ given' = given /\ stored' = stored /\ open' = open /\ answer' = FALSE
  BY <1>2 DEF Writer!Write, Writer!Break, Writer!Refuse
<1>7. /\ given' \in Nat /\ stored' \in Nat
      /\ open' \in BOOLEAN /\ answer' \in BOOLEAN
      /\ stored' = stored \/ stored' <= given + len
  <2>1. open' \in BOOLEAN /\ answer' \in BOOLEAN
    BY <1>1, <1>6, Zenon
  <2>2. /\ given' = given + len \/ given' = given
        /\ \/ stored' \in stored .. given + len
           \/ stored' \in stored .. (given + len) - 1
           \/ stored' = stored
    BY <1>6, Zenon
  <2>3. given' \in Nat /\ stored' \in Nat
    BY <1>1, <2>2
  <2>4. stored' = stored \/ stored' <= given + len
    BY <1>1, <2>2
  <2> QED BY <2>1, <2>3, <2>4
<1>8. \/ /\ answer' = TRUE /\ given' = given + len
      \/ /\ answer' = FALSE /\ given' = given
  BY <1>6
<1>9. \/ /\ given' = given + len /\ loop' = k
         /\ ph = "close" => phase' = "close" /\ status' = "OK"
         /\ ph # "close" => phase' = ph /\ status' = status
      \/ /\ given' = given /\ loop' = loop
         /\ phase' = "close" /\ status' = "FAIL_TO_OUTPUT"
  <2>1. ASSUME answer' = TRUE
        PROVE  /\ loop' = k
               /\ ph = "close" => phase' = "close" /\ status' = "OK"
               /\ ph # "close" => phase' = ph /\ status' = status
    BY <1>2, <2>1 DEF Return, Continue
  <2>2. ASSUME answer' = FALSE
        PROVE  loop' = loop /\ phase' = "close" /\ status' = "FAIL_TO_OUTPUT"
    BY <1>2, <2>2 DEF Return
  <2> QED BY <1>8, <2>1, <2>2
<1> QED BY <1>2, <1>3, <1>4, <1>5, <1>7, <1>9

(* It keeps the types if the phase that follows is ready.                  *)
LEMMA PutTypes ==
  ASSUME TypeInv, NEW part \in Names, NEW of \in Nat, NEW len \in Nat,
         NEW ph \in Writing \union {"close"},
         NEW k \in 1 .. Items + Pieces + 1,
         Put(part, of, len, ph, k), size' \in Nat, phase \in Writing,
         ph \in Indexing => phase \in Indexing,
         ph # "close" => Ready(ph, k)
  PROVE  TypeInv'
<1>1. TypeOK /\ Control /\ job \in Jobs
  BY DEF TypeInv
<1>2. /\ UNCHANGED <<job, attached, keyLen, valLen, conflict, total,
                     outcomes, place, offset, lines>>
      /\ toc' \in Seq(Part) /\ toc' # <<>>
      /\ given' \in Nat /\ stored' \in Nat
      /\ open' \in BOOLEAN /\ answer' \in BOOLEAN
      /\ \/ /\ loop' = k
            /\ ph = "close" => phase' = "close" /\ status' = "OK"
            /\ ph # "close" => phase' = ph /\ status' = status
         \/ loop' = loop /\ phase' = "close" /\ status' = "FAIL_TO_OUTPUT"
  BY PutDoes
<1>3. /\ Items' = Items /\ Pieces' = Pieces /\ Lines' = Lines
      /\ Places' = Places /\ (Detected' <=> Detected)
      /\ \A p, i : Ready(p, i)' <=> Ready(p, i)
  BY <1>2, Same
<1>4. /\ status = "running" /\ Detected /\ place \in Places
      /\ phase \in Indexing => offset = 0
  BY <1>1 DEF Control
<1>5. phase' \in Writing \union {"close"} /\ status' \in Statuses
      /\ loop' \in 1 .. Items + Pieces + 1
  <2>1. loop \in 1 .. Items + Pieces + 1 /\ status \in Statuses
    BY <1>1 DEF TypeOK
  <2> QED BY <1>2, <2>1 DEF Statuses
<1>6. \A c \in DOMAIN toc' : toc'[c].start \in Nat /\ toc'[c].len \in Nat
  <2>1. \A c \in DOMAIN toc' : toc'[c] \in Part
    BY <1>2, ElementOfSeq, LenProperties
  <2> QED BY <2>1 DEF Part
<1>7. TypeOK'
  <2>1. phase' \in {"detect", "build", "header", "items", "cells", "pad",
                    "sections", "fill", "varint", "value", "close", "load",
                    "loaded", "rejected", "failed"}
    BY <1>5 DEF Writing, Indexing, Filling
  <2>2. /\ IsJob(job) /\ keyLen \in 0 .. MaxKeyLen /\ valLen \in Nat
        /\ conflict \in 0 .. job.conflict /\ total \in 0 .. job.total
        /\ outcomes \in Seq(Statuses)
        /\ (place = <<>> \/ place \in Places)
        /\ offset \in Nat /\ lines \in [Lines -> Nat \union {-1}]
        /\ attached \in {"none", "OK", "ERROR", "INVALID_ARGUMENT",
                         "UNSUPPORTED_TYPE", "INVALID_PACK"}
    BY <1>1 DEF TypeOK
  <2>3. IsJob(job')
    BY <1>2, <2>2
  <2> HIDE DEF IsJob
  <2> QED BY <1>2, <1>3, <1>5, <1>6, <2>1, <2>2, <2>3 DEF TypeOK
<1>8. Control'
  <2>1. phase' \notin Early
    BY <1>5 DEF Writing, Indexing, Filling, Early
  <2>2. phase' \in Writing => phase' = ph /\ ph # "close" /\ loop' = k
                              /\ status' = status
    BY <1>2 DEF Writing, Indexing, Filling
  <2>3. phase' \in Indexing => phase' \in Writing
    BY DEF Writing
  <2> QED BY <1>2, <1>3, <1>4, <2>1, <2>2, <2>3 DEF Control
<1> QED BY <1>1, <1>2, <1>7, <1>8 DEF TypeInv

(* What the invariant of the types says while the pack is written.         *)
LEMMA WritingTypes ==
  ASSUME TypeInv, phase \in Writing
  PROVE  /\ job \in Jobs /\ Detected /\ place \in Places /\ Ready(phase, loop)
         /\ status = "running" /\ Items \in Nat /\ Items >= 1
         /\ Pieces \in Nat /\ Pieces >= 1
         /\ keyLen \in Nat /\ valLen \in Nat /\ LineSize \in Nat
         /\ size \in Nat /\ offset \in Nat
         /\ \A i \in 1 .. Items : place[i] \in Lines
         /\ \A i, k \in 1 .. Items : place[i] = place[k] => i = k
         /\ lines \in [Lines -> Nat \union {-1}]
<1>1. job \in Jobs /\ TypeOK /\ Control
  BY DEF TypeInv
<1>2. Items \in Nat /\ Pieces \in Nat /\ (Items >= 1 => Pieces >= 1)
  BY <1>1, JobTypes
<1>3. Detected /\ place \in Places /\ Ready(phase, loop) /\ status = "running"
  BY <1>1 DEF Control
<1>4. Items >= 1
  BY <1>3 DEF Detected
<1>5. keyLen \in Nat /\ valLen \in Nat /\ size \in Nat /\ offset \in Nat
      /\ lines \in [Lines -> Nat \union {-1}]
  BY <1>1, ParamAssumption DEF TypeOK
<1>6. LineSize \in Nat
  BY <1>5 DEF LineSize
<1>7. /\ \A i \in 1 .. Items : place[i] \in Lines
      /\ \A i, k \in 1 .. Items : place[i] = place[k] => i = k
  BY <1>3 DEF Places
<1> QED BY <1>1, <1>2, <1>3, <1>4, <1>5, <1>6, <1>7

(* The parts of a pack have their names.                                   *)
LEMMA Named ==
  /\ "header" \in Names /\ "items" \in Names /\ "cells" \in Names
  /\ "pad" \in Names /\ "sections" \in Names /\ "content" \in Names
  /\ "varint" \in Names /\ "value" \in Names /\ 0 \in Nat
BY DEF Names

(* The sizes of the parts of a piece.                                      *)
LEMMA PieceSizes ==
  ASSUME job \in Jobs, NEW i \in 1 .. Pieces
  PROVE  /\ L1Size(job.pieces[i]) \in Nat
         /\ SectionSize(job.pieces[i]) * SectionBytes \in Nat
         /\ SectionSize(job.pieces[i]) * SectionBytes >= 1
<1>1. job.pieces[i] \in Nat
  BY JobTypes
<1> QED BY <1>1, PartSizes

(* The dump of an index, but for its padding, keeps the types.             *)
LEMMA IndexTypes ==
  ASSUME TypeInv, Header \/ Counts \/ Cells \/ Sections
  PROVE  TypeInv'
<1>1. phase \in Writing
  BY DEF Header, Counts, Cells, Sections, Writing, Indexing
<1>2. /\ job \in Jobs /\ Ready(phase, loop) /\ Detected
      /\ Items \in Nat /\ Items >= 1 /\ Pieces \in Nat /\ Pieces >= 1
      /\ size \in Nat
  BY <1>1, WritingTypes
<1>3. HeaderSize \in Nat /\ Pieces * CountSize \in Nat
  BY <1>2, BytesTypes
<1>4. 1 \in 1 .. Items + Pieces + 1
  BY <1>2
<1>5. CASE Header
  <2>1. /\ Put("header", 0, HeaderSize, "items", 1) /\ size' = size
        /\ phase \in Indexing
    BY <1>5 DEF Header, Indexing
  <2>2. Ready("items", 1) /\ "items" \in Writing
    BY DEF Ready, Writing, Indexing, Filling
  <2>3. /\ "items" \in Writing \union {"close"} /\ size' \in Nat
        /\ "items" \in Indexing => phase \in Indexing
        /\ "items" # "close" => Ready("items", 1)
    BY <1>2, <2>1, <2>2
  <2> QED BY <1>1, <1>3, <1>4, <2>1, <2>3, Named, PutTypes
<1>6. CASE Counts
  <2>1. /\ Put("items", 0, Pieces * CountSize, "cells", 1) /\ size' \in Nat
        /\ phase \in Indexing
    BY <1>3, <1>6 DEF Counts, Indexing
  <2>2. Ready("cells", 1) /\ "cells" \in Writing
    BY <1>2 DEF Ready, Writing, Indexing, Filling
  <2>3. /\ "cells" \in Writing \union {"close"}
        /\ "cells" \in Indexing => phase \in Indexing
        /\ "cells" # "close" => Ready("cells", 1)
    BY <2>1, <2>2
  <2> QED BY <1>1, <1>3, <1>4, <2>1, <2>3, Named, PutTypes
<1>7. CASE Cells
  <2> DEFINE sz == L1Size(job.pieces[loop])
  <2>1. loop \in 1 .. Pieces /\ phase \in Indexing
    BY <1>2, <1>7 DEF Ready, Cells, Indexing
  <2>2. sz \in Nat /\ size + sz \in Nat /\ loop \in Nat
    BY <1>2, <2>1, PieceSizes
  <2>3. size' = size + sz /\ IF loop < Pieces
                             THEN Put("cells", loop, sz, "cells", loop + 1)
                             ELSE Put("cells", loop, sz, "pad", 1)
    BY <1>7 DEF Cells
  <2> HIDE DEF sz
  <2>4. CASE loop < Pieces
    <3>1. loop + 1 \in 1 .. Pieces /\ loop + 1 \in 1 .. Items + Pieces + 1
      BY <1>2, <2>1, <2>4
    <3>2. Ready("cells", loop + 1) /\ "cells" \in Writing
      BY <3>1 DEF Ready, Writing, Indexing, Filling
    <3>3. Put("cells", loop, sz, "cells", loop + 1) /\ size' \in Nat
      BY <2>2, <2>3, <2>4
    <3>4. /\ "cells" \in Writing \union {"close"}
          /\ "cells" \in Indexing => phase \in Indexing
          /\ "cells" # "close" => Ready("cells", loop + 1)
      BY <2>1, <3>2
    <3> QED BY <1>1, <2>2, <3>1, <3>3, <3>4, Named, PutTypes
  <2>5. CASE ~ (loop < Pieces)
    <3>1. Ready("pad", 1) /\ "pad" \in Writing
      BY DEF Ready, Writing, Indexing, Filling
    <3>2. Put("cells", loop, sz, "pad", 1) /\ size' \in Nat
      BY <2>2, <2>3, <2>5
    <3>3. /\ "pad" \in Writing \union {"close"}
          /\ "pad" \in Indexing => phase \in Indexing
          /\ "pad" # "close" => Ready("pad", 1)
      BY <2>1, <3>1
    <3> QED BY <1>1, <1>4, <2>2, <3>2, <3>3, Named, PutTypes
  <2> QED BY <2>4, <2>5
<1>8. CASE Sections
  <2> DEFINE sz == SectionSize(job.pieces[loop]) * SectionBytes
  <2>1. loop \in 1 .. Pieces /\ phase \in Indexing
    BY <1>2, <1>8 DEF Ready, Sections, Indexing
  <2>2. sz \in Nat /\ size + sz \in Nat /\ loop \in Nat
    BY <1>2, <2>1, PieceSizes
  <2>3. size' = size + sz /\ IF loop < Pieces
                             THEN Put("sections", loop, sz, "sections",
                                      loop + 1)
                             ELSE Put("sections", loop, sz, AfterIndex, 1)
    BY <1>8 DEF Sections
  <2> HIDE DEF sz
  <2>4. CASE loop < Pieces
    <3>1. loop + 1 \in 1 .. Pieces /\ loop + 1 \in 1 .. Items + Pieces + 1
      BY <1>2, <2>1, <2>4
    <3>2. Ready("sections", loop + 1) /\ "sections" \in Writing
      BY <3>1 DEF Ready, Writing, Indexing, Filling
    <3>3. Put("sections", loop, sz, "sections", loop + 1) /\ size' \in Nat
      BY <2>2, <2>3, <2>4
    <3>4. /\ "sections" \in Writing \union {"close"}
          /\ "sections" \in Indexing => phase \in Indexing
          /\ "sections" # "close" => Ready("sections", loop + 1)
      BY <2>1, <3>2
    <3> QED BY <1>1, <2>2, <3>1, <3>3, <3>4, Named, PutTypes
  <2>5. CASE ~ (loop < Pieces)
    <3>1. AfterIndex # "close" => Ready(AfterIndex, 1)
      <4>1. AfterIndex # "close" =>
              AfterIndex = "fill" /\ job.type # "INDEX_ONLY"
        BY DEF AfterIndex
      <4>2. 1 \in 1 .. Items + 1 /\ Fits(1 - 1)
        BY <1>2 DEF Fits
      <4> QED BY <4>1, <4>2 DEF Ready
    <3>2. /\ AfterIndex \in Writing \union {"close"}
          /\ AfterIndex \in Indexing => phase \in Indexing
      BY DEF AfterIndex, Writing, Filling, Indexing
    <3>3. Put("sections", loop, sz, AfterIndex, 1) /\ size' \in Nat
      BY <2>2, <2>3, <2>5
    <3> HIDE DEF AfterIndex
    <3> QED BY <1>1, <1>4, <2>2, <3>1, <3>2, <3>3, Named, PutTypes
  <2> QED BY <2>4, <2>5
<1> QED BY <1>5, <1>6, <1>7, <1>8

(* So does the padding, whether there is one or not.                       *)
LEMMA PadTypes ==
  ASSUME TypeInv, Pad
  PROVE  TypeInv'
<1>1. phase = "pad" /\ phase \in Writing /\ phase \in Indexing
  BY DEF Pad, Writing, Indexing
<1>2. /\ job \in Jobs /\ Ready(phase, loop) /\ Detected /\ place \in Places
      /\ Items \in Nat /\ Items >= 1 /\ Pieces \in Nat /\ Pieces >= 1
      /\ size \in Nat /\ status = "running"
  BY <1>1, WritingTypes
<1>3. AlignUp(size) \in Nat /\ size' = AlignUp(size)
  BY <1>2, AlignFacts DEF Pad
<1>4. Ready("sections", 1) /\ "sections" \in Writing
      /\ 1 \in 1 .. Items + Pieces + 1
  BY <1>2 DEF Ready, Writing, Indexing, Filling
<1>5. CASE Padding > 0
  <2>1. Put("pad", 0, Padding, "sections", 1)
    BY <1>5 DEF Pad
  <2>2. Padding \in Nat
    BY <1>2, <1>3, <1>5 DEF Padding
  <2> HIDE DEF Padding
  <2>3. /\ "sections" \in Writing \union {"close"} /\ size' \in Nat
        /\ "sections" \in Indexing => phase \in Indexing
        /\ "sections" # "close" => Ready("sections", 1)
    BY <1>1, <1>3, <1>4
  <2> QED BY <1>1, <1>4, <2>1, <2>2, <2>3, Named, PutTypes
<1>6. CASE ~ (Padding > 0)
  <2>1. /\ phase' = "sections" /\ status' = status
        /\ UNCHANGED <<job, attached, keyLen, valLen, conflict, total,
                       outcomes, place, loop, offset, lines, toc, given,
                       stored, open, answer>>
    BY <1>6 DEF Pad, Continue, inert, buildVars, writerVars
  <2>2. /\ Items' = Items /\ Pieces' = Pieces /\ Lines' = Lines
        /\ Places' = Places /\ (Detected' <=> Detected)
        /\ \A p, i : Ready(p, i)' <=> Ready(p, i)
    BY <2>1, Same
  <2>3. TypeOK /\ Control /\ loop = 1 /\ toc \in Seq(Part)
    BY <1>1, <1>2 DEF TypeInv, Ready
  <2>4. TypeOK'
    <3>1. IsJob(job') /\ size' \in Nat
      BY <1>3, <2>1, <2>3 DEF TypeOK
    <3> HIDE DEF IsJob
    <3> QED BY <2>1, <2>2, <2>3, <3>1 DEF TypeOK
  <2>5. Control'
    <3>1. phase' \notin Early /\ phase' # "build"
      BY <2>1 DEF Early
    <3>2. Ready(phase', loop') /\ offset' = 0
      BY <1>1, <1>4, <2>1, <2>3 DEF Control
    <3>3. Ready(phase, loop)' 
      BY <2>2, <3>2
    <3> QED BY <1>2, <2>1, <2>2, <3>1, <3>2, <3>3 DEF Control
  <2> QED BY <1>2, <2>1, <2>3, <2>4, <2>5 DEF TypeInv
<1> QED BY <1>5, <1>6

(* What Attach returns, or "none".                                         *)
Attachments == {"none", "OK", "ERROR", "INVALID_ARGUMENT",
                "UNSUPPORTED_TYPE", "INVALID_PACK"}

(* What is to be shown of a step that ends a build, or follows its end.    *)
LEMMA AfterTypes ==
  ASSUME TypeInv, phase' \in After,
         UNCHANGED <<job, keyLen, valLen, place, loop, size, offset, lines,
                     toc>>,
         conflict' \in 0 .. job.conflict, total' \in 0 .. job.total,
         outcomes' \in Seq(Statuses), status' \in Statuses,
         attached' \in Attachments, given' \in Nat, stored' \in Nat,
         open' \in BOOLEAN, answer' \in BOOLEAN
  PROVE  TypeInv'
<1>1. TypeOK /\ Control /\ job \in Jobs /\ toc \in Seq(Part)
  BY DEF TypeInv
<1>2. /\ Items' = Items /\ Pieces' = Pieces /\ Lines' = Lines
      /\ Places' = Places /\ (Detected' <=> Detected)
  BY Same
<1>3. phase' \in {"detect", "build", "header", "items", "cells", "pad",
                  "sections", "fill", "varint", "value", "close", "load",
                  "loaded", "rejected", "failed"}
  BY DEF After
<1>4. TypeOK'
  <2>1. IsJob(job')
    BY <1>1 DEF TypeOK
  <2> HIDE DEF IsJob
  <2> QED BY <1>1, <1>2, <1>3, <2>1 DEF TypeOK, Attachments
<1>5. Control'
  <2>1. /\ phase' \notin Early \union Writing /\ phase' \notin Early
        /\ phase' \notin {"build"} \union Writing /\ phase' \notin Writing
        /\ phase' \notin Indexing
    BY DEF After, Early, Writing, Indexing, Filling
  <2>2. toc # <<>> => Detected /\ place \in Places
    BY <1>1 DEF Control
  <2> QED BY <1>2, <2>1, <2>2 DEF Control
<1> QED BY <1>1, <1>4, <1>5 DEF TypeInv

(* An attempt that failed with st: it is charged, and either returned or    *)
(* followed by another.                                                    *)
Charged(st) ==
  /\ outcomes' = Append(outcomes, st)
  /\ conflict' = IF st = "CONFLICT" /\ conflict # 0 THEN conflict - 1
                                                   ELSE conflict
  /\ \/ /\ phase' = "close" /\ status' = st /\ total' = total
        /\ \/ st = "BAD_INPUT"
           \/ total = 0
           \/ st = "CONFLICT" /\ conflict = 0
     \/ /\ phase' = phase /\ status' = status
        /\ total # 0 /\ total' = total - 1
        /\ st # "BAD_INPUT" /\ (st = "CONFLICT" => conflict # 0)

(* What the attempts that fail have in common.                             *)
LEMMA AttemptDoes ==
  ASSUME BadInput \/ Conflict \/ OutOfChance
  PROVE  /\ phase = "build"
         /\ UNCHANGED <<job, keyLen, valLen, place, loop, size, offset, lines,
                        toc, attached, given, stored, open, answer>>
         /\ \E st \in {"BAD_INPUT", "CONFLICT", "OUT_OF_CHANCE"} : Charged(st)
<1>1. CASE BadInput
  <2>1. Charged("BAD_INPUT")
    BY <1>1 DEF BadInput, Return, Charged
  <2> QED BY <1>1, <2>1 DEF BadInput, inert, writerVars
<1>2. CASE Conflict
  <2>1. Charged("CONFLICT")
    BY <1>2 DEF Conflict, SpendTotal, Return, Charged
  <2> QED BY <1>2, <2>1 DEF Conflict, inert, writerVars
<1>3. CASE OutOfChance
  <2>1. Charged("OUT_OF_CHANCE")
    BY <1>3 DEF OutOfChance, SpendTotal, Return, Charged
  <2> QED BY <1>3, <2>1 DEF OutOfChance, inert, writerVars
<1> QED BY <1>1, <1>2, <1>3

(* They keep the types: a budget is spent only when there is one.          *)
LEMMA AttemptTypes ==
  ASSUME TypeInv, BadInput \/ Conflict \/ OutOfChance
  PROVE  TypeInv'
<1>1. TypeOK /\ Control /\ job \in Jobs /\ toc \in Seq(Part)
  BY DEF TypeInv
<1>2. /\ phase = "build"
      /\ UNCHANGED <<job, keyLen, valLen, place, loop, size, offset, lines,
                     toc, attached, given, stored, open, answer>>
  BY AttemptDoes
<1>3. PICK st \in {"BAD_INPUT", "CONFLICT", "OUT_OF_CHANCE"} : Charged(st)
  BY AttemptDoes
<1>4. /\ status = "running" /\ toc = <<>> /\ loop = 1 /\ size = 0
      /\ offset = 0 /\ lines = [x \in Lines |-> -1] /\ Detected
  BY <1>1, <1>2 DEF Control, Early
<1>5. /\ conflict' \in 0 .. job.conflict /\ total' \in 0 .. job.total
      /\ attached' \in Attachments /\ given' \in Nat /\ stored' \in Nat
      /\ open' \in BOOLEAN /\ answer' \in BOOLEAN
  <2>1. /\ conflict \in 0 .. job.conflict /\ total \in 0 .. job.total
        /\ job.conflict \in Nat /\ job.total \in Nat
    BY <1>1, JobTypes DEF TypeOK
  <2>2. conflict' \in 0 .. job.conflict /\ total' \in 0 .. job.total
    <3>1. /\ conflict' = conflict \/ (conflict # 0 /\ conflict' = conflict - 1)
          /\ total' = total \/ (total # 0 /\ total' = total - 1)
      BY <1>3, Zenon DEF Charged
    <3> QED BY <2>1, <3>1
  <2>3. /\ attached \in Attachments /\ given \in Nat /\ stored \in Nat
        /\ open \in BOOLEAN /\ answer \in BOOLEAN
    BY <1>1 DEF TypeOK, Attachments
  <2>4. /\ attached' \in Attachments /\ given' \in Nat /\ stored' \in Nat
        /\ open' \in BOOLEAN /\ answer' \in BOOLEAN
    BY <1>2, <2>3, Zenon
  <2> QED BY <2>2, <2>4
<1>6. /\ outcomes' = Append(outcomes, st)
      /\ \/ phase' = "close" /\ status' = st
         \/ phase' = phase /\ status' = status
  BY <1>3 DEF Charged
<1>7. outcomes' \in Seq(Statuses) /\ status' \in Statuses
  <2>1. st \in Statuses /\ status \in Statuses
    BY <1>4 DEF Statuses
  <2>2. outcomes \in Seq(Statuses)
    BY <1>1 DEF TypeOK
  <2>3. outcomes' \in Seq(Statuses)
    BY <1>6, <2>1, <2>2, AppendProperties
  <2> QED BY <1>6, <2>1, <2>3
<1>8. CASE phase' = "close"
  <2>1. phase' \in After
    BY <1>8 DEF After
  <2> QED BY <1>2, <1>5, <1>7, <2>1, AfterTypes
<1>9. CASE phase' = phase /\ status' = status
  <2>1. /\ Items' = Items /\ Pieces' = Pieces /\ Lines' = Lines
        /\ Places' = Places /\ (Detected' <=> Detected)
    BY <1>2, Same
  <2>2. TypeOK'
    <3>1. IsJob(job') /\ phase' = phase
      BY <1>1, <1>2, <1>9 DEF TypeOK
    <3> HIDE DEF IsJob
    <3> QED BY <1>1, <1>2, <1>5, <1>7, <2>1, <3>1 DEF TypeOK, Attachments
  <2>3. Control'
    <3>1. phase' = "build"
      BY <1>2, <1>9
    <3>2. /\ phase' \in Early /\ phase' \notin Writing
               /\ phase' \notin Indexing
      BY <3>1 DEF Early, Writing, Indexing, Filling
    <3>3. /\ status' = "running" /\ toc' = <<>> /\ loop' = 1 /\ size' = 0
          /\ offset' = 0 /\ lines' = [x \in Lines |-> -1]
      BY <1>2, <1>9, <1>4
    <3> QED BY <1>4, <2>1, <3>1, <3>2, <3>3 DEF Control
  <2> QED BY <1>1, <1>2, <2>2, <2>3 DEF TypeInv
<1> QED BY <1>6, <1>8, <1>9

(* The lengths that are detected are in range.                             *)
LEMMA DetectTypes ==
  ASSUME TypeInv, Detect
  PROVE  TypeInv'
<1>1. TypeOK /\ Control /\ job \in Jobs /\ toc \in Seq(Part)
  BY DEF TypeInv
<1>2. /\ phase = "detect"
      /\ UNCHANGED <<job, attached, conflict, total, outcomes, place, loop,
                     size, offset, lines, toc, given, stored, open, answer>>
  BY DEF Detect, inert, writerVars
<1>3. /\ status = "running" /\ toc = <<>> /\ loop = 1 /\ size = 0
      /\ offset = 0 /\ lines = [x \in Lines |-> -1]
  BY <1>1, <1>2 DEF Control, Early
<1>4. /\ conflict' \in 0 .. job.conflict /\ total' \in 0 .. job.total
      /\ outcomes' \in Seq(Statuses)
      /\ attached' \in Attachments /\ given' \in Nat /\ stored' \in Nat
      /\ open' \in BOOLEAN /\ answer' \in BOOLEAN
  BY <1>1, <1>2, Zenon DEF TypeOK, Attachments
<1>5. CASE /\ phase' = "close" /\ status' = "BAD_INPUT"
           /\ UNCHANGED <<keyLen, valLen>>
  <2>1. phase' \in After /\ status' \in Statuses
    BY <1>5 DEF After, Statuses
  <2> QED BY <1>2, <1>4, <1>5, <2>1, AfterTypes
<1>6. CASE /\ phase' = "build" /\ status' = status /\ Items # 0
           /\ LET first == job.records[1]
              IN  /\ job.type # "INDEX_ONLY" => first.klen \in 1 .. MaxKeyLen
                  /\ job.type = "KV_INLINE" => first.vlen \in 1 .. MaxInlineLen
                  /\ keyLen' = IF job.type = "INDEX_ONLY" THEN 0
                               ELSE first.klen
                  /\ valLen' = CASE job.type = "KV_INLINE" -> first.vlen
                                 [] job.type = "KV_SEPARATED" -> OffsetSize
                                 [] OTHER -> 0
  <2> DEFINE first == job.records[1]
  <2>1. /\ MaxKeyLen \in Nat /\ OffsetSize \in Nat /\ MaxInlineLen \in Nat
    BY ParamAssumption
  <2>2. /\ keyLen' \in 0 .. MaxKeyLen
        /\ job.type # "INDEX_ONLY" => keyLen' >= 1
        /\ job.type = "INDEX_ONLY" => keyLen' = 0
    <3> DEFINE l == first.klen
    <3>1. /\ job.type # "INDEX_ONLY" => l \in 1 .. MaxKeyLen
          /\ keyLen' = IF job.type = "INDEX_ONLY" THEN 0 ELSE l
      BY <1>6
    <3> HIDE DEF l
    <3> QED BY <2>1, <3>1
  <2>3. valLen' \in Nat /\ (job.type = "INDEX_ONLY" => valLen' = 0)
    <3> DEFINE l == first.vlen
    <3>1. /\ job.type = "KV_INLINE" => l \in 1 .. MaxInlineLen
          /\ job.type = "KV_INLINE" => valLen' = l
          /\ job.type = "KV_SEPARATED" => valLen' = OffsetSize
          /\ job.type \notin {"KV_INLINE", "KV_SEPARATED"} => valLen' = 0
      BY <1>6
    <3> HIDE DEF l
    <3>2. CASE job.type = "KV_INLINE"
      BY <2>1, <3>1, <3>2
    <3>3. CASE job.type = "KV_SEPARATED"
      BY <2>1, <3>1, <3>3
    <3>4. CASE job.type \notin {"KV_INLINE", "KV_SEPARATED"}
      BY <3>1, <3>4
    <3> QED BY <3>2, <3>3, <3>4
  <2>4. /\ Items' = Items /\ Pieces' = Pieces /\ Lines' = Lines
        /\ Places' = Places /\ Items \in Nat
    BY <1>1, <1>2, JobTypes DEF Items, Pieces, Lines, Places
  <2>5. Detected'
    <3>1. Items' >= 1 /\ job' = job
      BY <1>2, <1>6, <2>4
    <3> QED BY <2>2, <2>3, <3>1 DEF Detected
  <2>6. TypeOK'
    <3>1. IsJob(job')
      BY <1>1, <1>2 DEF TypeOK
    <3>2. phase' \in {"detect", "build", "header", "items", "cells", "pad",
                      "sections", "fill", "varint", "value", "close", "load",
                      "loaded", "rejected", "failed"}
      BY <1>6
    <3>3. /\ place = <<>> \/ place \in Places
          /\ loop \in 1 .. Items + Pieces + 1
          /\ size \in Nat /\ offset \in Nat
          /\ lines \in [Lines -> Nat \union {-1}]
          /\ \A c \in DOMAIN toc : toc[c].start \in Nat /\ toc[c].len \in Nat
          /\ status \in Statuses
      BY <1>1 DEF TypeOK
    <3> HIDE DEF IsJob
    <3> QED BY <1>2, <1>4, <1>6, <2>2, <2>3, <2>4, <3>1, <3>2, <3>3
        DEF TypeOK, Attachments
  <2>7. Control'
    <3>1. /\ phase' \in Early /\ phase' \notin Writing
               /\ phase' \notin Indexing
      BY <1>6 DEF Early, Writing, Indexing, Filling
    <3>2. /\ status' = "running" /\ toc' = <<>> /\ loop' = 1 /\ size' = 0
          /\ offset' = 0 /\ lines' = [x \in Lines |-> -1]
      BY <1>2, <1>3, <1>6
    <3> QED BY <2>4, <2>5, <3>1, <3>2 DEF Control
  <2> QED BY <1>1, <1>2, <2>6, <2>7 DEF TypeInv
<1> QED BY <1>5, <1>6 DEF Detect, Return, Continue

(* An attempt that succeeds gives each record a line.                      *)
LEMMA SucceedTypes ==
  ASSUME TypeInv, Succeed
  PROVE  TypeInv'
<1>1. TypeOK /\ Control /\ job \in Jobs /\ toc \in Seq(Part)
  BY DEF TypeInv
<1>2. /\ phase = "build" /\ phase' = "header" /\ status' = status
      /\ place' \in Places' /\ outcomes' = Append(outcomes, "OK")
      /\ UNCHANGED <<job, attached, keyLen, valLen, conflict, total, loop,
                     size, offset, lines, toc, given, stored, open, answer>>
      /\ Items' = Items /\ Pieces' = Pieces /\ Lines' = Lines
      /\ Places' = Places
  BY DEF Succeed, Continue, inert, writerVars, Places, Items, Pieces, Lines
<1>3. /\ status = "running" /\ toc = <<>> /\ loop = 1 /\ offset = 0 /\ Detected
  BY <1>1, <1>2 DEF Control, Early
<1>4. TypeOK'
  <2>1. IsJob(job')
    BY <1>1, <1>2 DEF TypeOK
  <2>2. outcomes' \in Seq(Statuses)
    <3>1. "OK" \in Statuses /\ outcomes \in Seq(Statuses)
      BY <1>1 DEF TypeOK, Statuses
    <3> QED BY <1>2, <3>1, AppendProperties
  <2>3. phase' \in {"detect", "build", "header", "items", "cells", "pad",
                    "sections", "fill", "varint", "value", "close", "load",
                    "loaded", "rejected", "failed"}
    BY <1>2
  <2> HIDE DEF IsJob
  <2> QED BY <1>1, <1>2, <2>1, <2>2, <2>3 DEF TypeOK
<1>5. Control'
  <2>1. phase' \notin Early
    BY <1>2 DEF Early
  <2>2. Detected'
    BY <1>2, <1>3 DEF Detected
  <2>3. Ready(phase, loop)'
    BY <1>2, <1>3 DEF Ready, Filling
  <2> QED BY <1>2, <1>3, <2>1, <2>2, <2>3 DEF Control
<1> QED BY <1>1, <1>2, <1>4, <1>5 DEF TypeInv

(* The line of a record, when it is filled.                                *)
LEMMA FillDoes ==
  ASSUME TypeInv, FillLine, ~ Unfit(job.records[loop])
  PROVE  /\ loop \in 1 .. Items /\ loop \in Nat /\ loop' = loop + 1
         /\ job.records[loop].klen = keyLen
         /\ job.type = "KV_INLINE" => job.records[loop].vlen = valLen
         /\ Separated => job.records[loop].vlen \in 0 .. MaxValueLen
         /\ lines' \in [Lines -> Nat \union {-1}]
         /\ \A i \in 1 .. Items :
              Line(i)' = IF i = loop THEN offset ELSE Line(i)
         /\ offset' \in Nat
         /\ offset' = IF Separated THEN offset + OffsetStep(job.records[loop])
                                   ELSE offset
         /\ UNCHANGED <<job, phase, attached, keyLen, valLen, conflict, total,
                        outcomes, place, size, toc, status, given, stored,
                        open, answer>>
<1> DEFINE r == job.records[loop]
<1>1. phase = "fill" /\ phase \in Writing
  BY DEF FillLine, Writing, Filling
<1>2. /\ job \in Jobs /\ Ready(phase, loop) /\ Items \in Nat
      /\ offset \in Nat
      /\ \A i \in 1 .. Items : place[i] \in Lines
      /\ \A i, k \in 1 .. Items : place[i] = place[k] => i = k
      /\ lines \in [Lines -> Nat \union {-1}]
  BY <1>1, WritingTypes
<1>3. loop \in 1 .. Items /\ loop \in Nat
  BY <1>1, <1>2 DEF Ready, FillLine
<1>4. /\ lines' = [lines EXCEPT ![place[loop]] = offset]
      /\ offset' = IF job.type = "KV_SEPARATED"
                   THEN offset + OffsetStep(r) ELSE offset
      /\ loop' = loop + 1
      /\ UNCHANGED <<job, phase, attached, keyLen, valLen, conflict, total,
                     outcomes, place, size, toc, status, given, stored,
                     open, answer>>
  BY DEF FillLine, inert, buildVars, writerVars
<1>5. /\ r.klen = keyLen
      /\ job.type = "KV_INLINE" => r.vlen = valLen
      /\ Separated => r.vlen \in 0 .. MaxValueLen
  BY DEF Unfit, Separated
<1>6. MaxValueLen \in Nat
  <2>1. ValueDigits \in 1 .. ValueDigits
    BY ParamAssumption
  <2>2. Radix ^ ValueDigits \in Nat \ {0}
    BY <2>1, PowerAssumption
  <2> QED BY <2>2 DEF MaxValueLen
<1>7. offset' \in Nat
  <2>1. CASE Separated
    <3>1. r.vlen \in Nat
      BY <1>5, <1>6, <2>1
    <3>2. VarIntSize(r.vlen) \in Nat
      BY <3>1, VarIntSeq DEF VarIntSize
    <3>3. offset' = offset + OffsetStep(r)
      BY <1>4, <2>1 DEF Separated
    <3> HIDE DEF r
    <3> QED BY <1>2, <3>1, <3>2, <3>3 DEF OffsetStep
  <2>2. CASE ~ Separated
    BY <1>2, <1>4, <2>2 DEF Separated
  <2> QED BY <2>1, <2>2
<1>8. lines' \in [Lines -> Nat \union {-1}]
  BY <1>2, <1>4
<1>9. place[loop] \in Lines /\ lines'[place[loop]] = offset
  BY <1>2, <1>3, <1>4
<1>10. ASSUME NEW i \in 1 .. Items, i # loop
       PROVE  lines'[place[i]] = lines[place[i]]
  <2>1. place[i] # place[loop] /\ place[i] \in Lines
    BY <1>2, <1>3, <1>10
  <2> QED BY <1>2, <1>4, <2>1
<1>11. \A i \in 1 .. Items : Line(i)' = lines'[place[i]]
  BY <1>4 DEF Line
<1>12. \A i \in 1 .. Items : Line(i)' = IF i = loop THEN offset ELSE Line(i)
  BY <1>3, <1>9, <1>10, <1>11 DEF Line
<1> QED BY <1>3, <1>4, <1>5, <1>7, <1>8, <1>12 DEF Separated

(* Filling a line keeps the types.                                         *)
LEMMA FillTypes ==
  ASSUME TypeInv, FillLine
  PROVE  TypeInv'
<1>1. phase = "fill" /\ phase \in Writing
  BY DEF FillLine, Writing, Filling
<1>2. TypeOK /\ Control /\ job \in Jobs /\ toc \in Seq(Part)
  BY DEF TypeInv
<1>3. /\ Ready(phase, loop) /\ Items \in Nat /\ Pieces \in Nat
      /\ Detected /\ place \in Places /\ status = "running"
  BY <1>1, WritingTypes
<1>4. CASE Unfit(job.records[loop])
  <2>1. /\ phase' = "close" /\ status' \in {"FAIL_TO_OUTPUT", "BAD_INPUT"}
        /\ UNCHANGED <<job, attached, keyLen, valLen, conflict, total,
                       outcomes, place, loop, size, offset, lines, toc, given,
                       stored, open, answer>>
    BY <1>4 DEF FillLine, Return, inert, buildVars, writerVars
  <2>2. phase' \in After /\ status' \in Statuses
    BY <2>1 DEF After, Statuses
  <2>3. /\ conflict' \in 0 .. job.conflict /\ total' \in 0 .. job.total
        /\ outcomes' \in Seq(Statuses)
        /\ attached' \in Attachments /\ given' \in Nat /\ stored' \in Nat
        /\ open' \in BOOLEAN /\ answer' \in BOOLEAN
    BY <1>2, <2>1, Zenon DEF TypeOK, Attachments
  <2> QED BY <2>1, <2>2, <2>3, AfterTypes
<1>5. CASE ~ Unfit(job.records[loop])
  <2>1. /\ loop \in 1 .. Items /\ loop \in Nat /\ loop' = loop + 1
        /\ Separated => job.records[loop].vlen \in 0 .. MaxValueLen
        /\ lines' \in [Lines -> Nat \union {-1}]
        /\ \A i \in 1 .. Items :
             Line(i)' = IF i = loop THEN offset ELSE Line(i)
        /\ offset' \in Nat
        /\ UNCHANGED <<job, phase, attached, keyLen, valLen, conflict, total,
                       outcomes, place, size, toc, status, given, stored,
                       open, answer>>
    BY <1>5, FillDoes
  <2>2. /\ Items' = Items /\ Pieces' = Pieces /\ Lines' = Lines
        /\ Places' = Places /\ (Detected' <=> Detected)
        /\ (Separated' <=> Separated)
    BY <2>1 DEF Items, Pieces, Lines, Places, Detected, Separated
  <2>3. TypeOK'
    <3>1. IsJob(job')
      BY <1>2, <2>1 DEF TypeOK
    <3>2. loop' \in 1 .. Items + Pieces + 1
      BY <1>3, <2>1
    <3>3. /\ keyLen \in 0 .. MaxKeyLen /\ valLen \in Nat
          /\ conflict \in 0 .. job.conflict /\ total \in 0 .. job.total
          /\ outcomes \in Seq(Statuses)
          /\ place = <<>> \/ place \in Places
          /\ size \in Nat
          /\ \A c \in DOMAIN toc : toc[c].start \in Nat /\ toc[c].len \in Nat
          /\ status \in Statuses
          /\ attached \in {"none", "OK", "ERROR", "INVALID_ARGUMENT",
                           "UNSUPPORTED_TYPE", "INVALID_PACK"}
          /\ given \in Nat /\ stored \in Nat
          /\ open \in BOOLEAN /\ answer \in BOOLEAN
      BY <1>2 DEF TypeOK
    <3>4. phase' \in {"detect", "build", "header", "items", "cells", "pad",
                      "sections", "fill", "varint", "value", "close", "load",
                      "loaded", "rejected", "failed"}
      BY <1>1, <2>1
    <3> HIDE DEF IsJob
    <3> QED BY <2>1, <2>2, <3>1, <3>2, <3>3, <3>4 DEF TypeOK
  <2>4. job.type # "INDEX_ONLY" /\ Fits(loop - 1)
    BY <1>1, <1>3 DEF Ready, Filling
  <2>5. PICK m \in Nat : m = loop
    BY <2>1
  <2>6. Fits(m)'
    <3>1. offset \in Nat /\ m \in 0 .. Items
      BY <1>2, <2>1, <2>5 DEF TypeOK
    <3>2. ASSUME NEW i \in 1 .. m
          PROVE  /\ Line(i)' # -1
                 /\ Separated => job.records[i].vlen \in 0 .. MaxValueLen
      <4>1. CASE i = loop
        <5>1. Line(i)' = offset
          BY <2>1, <4>1
        <5> QED BY <2>1, <3>1, <4>1, <5>1
      <4>2. CASE i # loop
        <5>1. i \in 1 .. loop - 1 /\ i \in 1 .. Items
          BY <1>3, <2>1, <2>5, <4>2
        <5>2. /\ Line(i) # -1
              /\ Separated => job.records[i].vlen \in 0 .. MaxValueLen
          BY <2>4, <5>1 DEF Fits
        <5> QED BY <2>1, <4>2, <5>1, <5>2
      <4> QED BY <4>1, <4>2
    <3> QED BY <2>1, <2>2, <3>1, <3>2 DEF Fits
  <2>7. Ready(phase, loop)'
    <3>1. loop' \in 1 .. Items' + 1 /\ loop' - 1 = m
      BY <1>3, <2>1, <2>2, <2>5
    <3>2. phase' = "fill" /\ job' = job
      BY <1>1, <2>1
    <3>3. Fits(loop - 1)'
      BY <2>6, <3>1
    <3> QED BY <2>4, <3>1, <3>2, <3>3 DEF Ready
  <2>8. Control'
    <3>1. phase' \notin Early /\ phase' # "build" /\ phase' \notin Indexing
      BY <1>1, <2>1 DEF Early, Indexing
    <3> QED BY <1>3, <2>1, <2>2, <2>7, <3>1 DEF Control
  <2> QED BY <1>2, <2>1, <2>3, <2>8 DEF TypeInv
<1> QED BY <1>4, <1>5

(* So does handing over the lines.                                         *)
LEMMA ContentTypes ==
  ASSUME TypeInv, Content
  PROVE  TypeInv'
<1>1. phase = "fill" /\ phase \in Writing /\ loop > Items
      /\ phase \notin Indexing
  BY DEF Content, Writing, Filling, Indexing
<1>2. /\ Ready(phase, loop) /\ Items \in Nat /\ Items >= 1 /\ Pieces \in Nat
      /\ size \in Nat /\ LineSize \in Nat
  BY <1>1, WritingTypes
<1> DEFINE next == IF job.type = "KV_SEPARATED" THEN "varint" ELSE "close"
<1>3. Put("content", 0, Items * LineSize, next, 1) /\ size' = size
  BY DEF Content
<1>4. Fits(Items)
  <2>1. loop \in 1 .. Items + 1 /\ Fits(loop - 1)
    BY <1>1, <1>2 DEF Ready
  <2>2. loop - 1 = Items
    BY <1>1, <1>2, <2>1
  <2> QED BY <2>1, <2>2
<1>5. next # "close" => Ready(next, 1)
  <2>1. 1 \in 1 .. Items
    BY <1>2
  <2>2. next # "close" => next = "varint" /\ Separated
    BY DEF Separated
  <2>3. Separated => job.type # "INDEX_ONLY"
    BY DEF Separated
  <2> HIDE DEF next
  <2> QED BY <1>4, <2>1, <2>2, <2>3 DEF Ready
<1>6. next \in Writing \union {"close"} /\ next \notin Indexing
  BY DEF Writing, Filling, Indexing
<1> HIDE DEF next
<1>7. 1 \in 1 .. Items + Pieces + 1 /\ Items * LineSize \in Nat
      /\ size' \in Nat
  BY <1>2, <1>3
<1>8. next \in Indexing => phase \in Indexing
  BY <1>6
<1> QED BY <1>1, <1>3, <1>5, <1>6, <1>7, <1>8, Named, PutTypes

(* What is known of a record whose value is written.                       *)
LEMMA SeparatedTypes ==
  ASSUME TypeInv, phase \in {"varint", "value"}
  PROVE  /\ job \in Jobs /\ phase \in Writing /\ phase \notin Indexing
         /\ Separated /\ job.type # "INDEX_ONLY"
         /\ Items \in Nat /\ Pieces \in Nat /\ Fits(Items)
         /\ loop \in 1 .. Items /\ loop \in Nat
         /\ job.records[loop].vlen \in Nat
         /\ job.records[loop].vlen \in 0 .. MaxValueLen
         /\ phase = "value" => job.records[loop].vlen # 0
         /\ VarIntSize(job.records[loop].vlen) \in Nat /\ size \in Nat
<1>1. phase \in Writing /\ phase \notin Indexing
  BY DEF Writing, Filling, Indexing
<1>2. /\ job \in Jobs /\ Ready(phase, loop) /\ Items \in Nat /\ Pieces \in Nat
      /\ size \in Nat
  BY <1>1, WritingTypes
<1>3. /\ Separated /\ loop \in 1 .. Items /\ Fits(Items) /\ loop \in Nat
      /\ phase = "value" => job.records[loop].vlen # 0
  BY <1>2 DEF Ready
<1>4. job.records[loop].vlen \in 0 .. MaxValueLen
  BY <1>3 DEF Fits
<1>5. MaxValueLen \in Nat
  <2>1. ValueDigits \in 1 .. ValueDigits
    BY ParamAssumption
  <2>2. Radix ^ ValueDigits \in Nat \ {0}
    BY <2>1, PowerAssumption
  <2> QED BY <2>2 DEF MaxValueLen
<1>6. job.records[loop].vlen \in Nat
  BY <1>4, <1>5
<1>7. VarIntSize(job.records[loop].vlen) \in Nat
  BY <1>6, VarIntSeq DEF VarIntSize
<1>8. job.type # "INDEX_ONLY"
  BY <1>3 DEF Separated
<1> QED BY <1>1, <1>2, <1>3, <1>4, <1>6, <1>7, <1>8

(* After a value, the counter is one of a record again.                    *)
LEMMA NextValueTypes ==
  ASSUME TypeInv, phase \in {"varint", "value"}
  PROVE  /\ NextValue \in Writing \union {"close"}
         /\ NextValue \in Indexing => phase \in Indexing
         /\ NextValue # "close" => Ready(NextValue, loop + 1)
         /\ loop + 1 \in 1 .. Items + Pieces + 1
<1>1. /\ Separated /\ job.type # "INDEX_ONLY" /\ Items \in Nat
           /\ Pieces \in Nat
      /\ Fits(Items) /\ loop \in 1 .. Items /\ loop \in Nat
  BY SeparatedTypes
<1>2. NextValue \in Writing \union {"close"} /\ NextValue \notin Indexing
  BY DEF NextValue, Writing, Filling, Indexing
<1>3. ASSUME NextValue # "close" PROVE Ready(NextValue, loop + 1)
  <2>1. NextValue = "varint" /\ loop < Items
    BY <1>3 DEF NextValue
  <2>2. loop + 1 \in 1 .. Items
    BY <1>1, <2>1
  <2> QED BY <1>1, <2>1, <2>2 DEF Ready
<1>4. loop + 1 \in 1 .. Items + Pieces + 1
  BY <1>1
<1> QED BY <1>2, <1>3, <1>4

(* Writing a value, or its length, keeps the types.                        *)
LEMMA ValueTypes ==
  ASSUME TypeInv, WriteVarInt \/ WriteValue
  PROVE  TypeInv'
<1>1. phase \in {"varint", "value"}
  BY DEF WriteVarInt, WriteValue
<1>2. /\ phase \in Writing /\ phase \notin Indexing
      /\ Separated /\ job.type # "INDEX_ONLY"
      /\ Items \in Nat /\ Pieces \in Nat /\ Fits(Items)
      /\ loop \in 1 .. Items /\ loop \in Nat
      /\ job.records[loop].vlen \in Nat
      /\ VarIntSize(job.records[loop].vlen) \in Nat /\ size \in Nat
  BY <1>1, SeparatedTypes
<1>3. /\ NextValue \in Writing \union {"close"}
      /\ NextValue \in Indexing => phase \in Indexing
      /\ NextValue # "close" => Ready(NextValue, loop + 1)
      /\ loop + 1 \in 1 .. Items + Pieces + 1
  BY <1>1, NextValueTypes
<1> DEFINE len == job.records[loop].vlen  sz == VarIntSize(len)
<1>4. CASE WriteVarInt /\ len = 0
  <2>1. Put("varint", loop, sz, NextValue, loop + 1) /\ size' = size
    BY <1>4 DEF WriteVarInt
  <2>2. sz \in Nat /\ size' \in Nat
    BY <1>2, <2>1
  <2> HIDE DEF sz, len, NextValue
  <2> QED BY <1>2, <1>3, <2>1, <2>2, Named, PutTypes
<1>5. CASE WriteVarInt /\ len # 0
  <2>1. Put("varint", loop, sz, "value", loop) /\ size' = size
    BY <1>5 DEF WriteVarInt
  <2>2. Ready("value", loop)
    BY <1>2, <1>5 DEF Ready
  <2>3. /\ "value" \in Writing \union {"close"}
        /\ "value" \in Indexing => phase \in Indexing
        /\ "value" # "close" => Ready("value", loop)
    BY <2>2 DEF Writing, Filling, Indexing
  <2>4. loop \in 1 .. Items + Pieces + 1
    BY <1>2
  <2>5. sz \in Nat /\ size' \in Nat
    BY <1>2, <2>1
  <2> HIDE DEF sz, len
  <2> QED BY <1>2, <2>1, <2>3, <2>4, <2>5, Named, PutTypes
<1>6. CASE WriteValue
  <2>1. Put("value", loop, len, NextValue, loop + 1) /\ size' = size
    BY <1>6 DEF WriteValue
  <2>2. len \in Nat /\ size' \in Nat
    BY <1>2, <2>1
  <2> HIDE DEF sz, len, NextValue
  <2> QED BY <1>2, <1>3, <2>1, <2>2, Named, PutTypes
<1> QED BY <1>4, <1>5, <1>6

(* The steps that come after the build, and the death of the process.      *)
LEMMA EndTypes ==
  ASSUME TypeInv, Close \/ Die \/ Load \/ Attach
  PROVE  /\ TypeInv' /\ phase' \in After
         /\ UNCHANGED <<job, keyLen, valLen, conflict, total, outcomes, place,
                        loop, size, offset, lines, toc, status, given>>
         /\ stored' \in Nat /\ (stored' = stored \/ stored' <= given)
<1>1. TypeOK /\ Control /\ job \in Jobs
  BY DEF TypeInv
<1>2. /\ UNCHANGED <<job, keyLen, valLen, conflict, total, outcomes, place,
                     loop, size, offset, lines, toc, status, given>>
      /\ phase' \in {"load", "loaded", "rejected", "failed"}
      /\ attached' \in {attached} \union Attachments
      /\ answer' = answer /\ open' \in {open, FALSE}
      /\ stored' = stored \/ stored' \in stored .. given
  <2>1. CASE Close
    BY <2>1 DEF Close, Writer!Close, inert, buildVars, writerVars
  <2>2. CASE Die
    BY <2>2 DEF Die, inert, buildVars
  <2>3. CASE Load
    BY <2>3 DEF Load, inert, buildVars, writerVars
  <2>4. CASE Attach
    BY <2>4 DEF Attach, Attachments, buildVars, writerVars
  <2> QED BY <2>1, <2>2, <2>3, <2>4
<1>3. /\ attached \in Attachments /\ given \in Nat /\ stored \in Nat
      /\ open \in BOOLEAN /\ answer \in BOOLEAN /\ status \in Statuses
      /\ conflict \in 0 .. job.conflict /\ total \in 0 .. job.total
      /\ outcomes \in Seq(Statuses)
  BY <1>1 DEF TypeOK, Attachments
<1>4. /\ attached' \in Attachments /\ given' \in Nat
      /\ open' \in BOOLEAN /\ answer' \in BOOLEAN /\ status' \in Statuses
      /\ conflict' \in 0 .. job.conflict /\ total' \in 0 .. job.total
      /\ outcomes' \in Seq(Statuses)
  BY <1>2, <1>3, Zenon
<1>5. stored' \in Nat /\ (stored' = stored \/ stored' <= given)
  BY <1>2, <1>3
<1>6. phase' \in After
  BY <1>2 DEF After
<1> QED BY <1>2, <1>4, <1>5, <1>6, AfterTypes

(* A step that changes nothing keeps them.                                 *)
LEMMA StutterTypes ==
  ASSUME TypeInv, UNCHANGED vars
  PROVE  TypeInv'
<1>1. /\ UNCHANGED <<job, phase, keyLen, valLen, conflict, total, outcomes,
                     place, loop, size, offset, lines, toc, status, attached,
                     given, stored, open, answer>>
  BY DEF vars, buildVars, writerVars
<1>2. TypeOK /\ Control /\ job \in Jobs /\ toc \in Seq(Part)
  BY DEF TypeInv
<1>3. /\ Items' = Items /\ Pieces' = Pieces /\ Lines' = Lines
      /\ Places' = Places /\ (Detected' <=> Detected)
      /\ \A ph, i : Ready(ph, i)' <=> Ready(ph, i)
  BY <1>1, Same
<1>4. TypeOK'
  <2>1. IsJob(job')
    BY <1>1, <1>2 DEF TypeOK
  <2> HIDE DEF IsJob
  <2> QED BY <1>1, <1>2, <1>3, <2>1 DEF TypeOK
<1>5. Control'
  <2>1. Ready(phase, loop)' <=> Ready(phase, loop)
    BY <1>1, <1>3
  <2> QED BY <1>1, <1>2, <1>3, <2>1 DEF Control
<1> QED BY <1>1, <1>2, <1>4, <1>5 DEF TypeInv

(* The variables have their types at first.                                *)
LEMMA InitTypes ==
  ASSUME Init
  PROVE  TypeInv
<1>1. job \in Jobs /\ IsJob(job)
  BY JobAssumption DEF Init
<1>2. /\ Items \in Nat /\ Pieces \in Nat /\ job.conflict \in Nat
      /\ job.total \in Nat
  BY <1>1, JobTypes
<1>3. TypeOK
  <2>1. <<>> \in Seq(Statuses) /\ MaxKeyLen \in Nat
    BY ParamAssumption
  <2>2. /\ keyLen \in 0 .. MaxKeyLen /\ valLen \in Nat
        /\ conflict \in 0 .. job.conflict /\ total \in 0 .. job.total
        /\ loop \in 1 .. Items + Pieces + 1 /\ size \in Nat /\ offset \in Nat
    BY <1>2, <2>1 DEF Init
  <2>3. lines \in [Lines -> Nat \union {-1}]
    BY DEF Init, Lines, Items
  <2>4. \A c \in DOMAIN toc : toc[c].start \in Nat /\ toc[c].len \in Nat
    BY DEF Init
  <2>5. given \in Nat /\ stored \in Nat /\ open \in BOOLEAN
        /\ answer \in BOOLEAN
    BY DEF Init, Writer!Init
  <2> HIDE DEF IsJob
  <2> QED BY <1>1, <2>1, <2>2, <2>3, <2>4, <2>5 DEF Init, TypeOK, Statuses
<1>4. Control
  <2>1. phase \notin Writing /\ phase # "build" /\ phase \notin Indexing
    BY DEF Init, Writing, Indexing, Filling
  <2> QED BY <2>1 DEF Init, Control, Lines, Items
<1>5. toc \in Seq(Part)
  BY DEF Init
<1> QED BY <1>1, <1>3, <1>4, <1>5 DEF TypeInv

(* TypeInv is inductive.                                                   *)
LEMMA StepTypes ==
  ASSUME TypeInv, [Next]_vars
  PROVE  TypeInv'
<1>1. CASE Detect
  BY <1>1, DetectTypes
<1>2. CASE Succeed
  BY <1>2, SucceedTypes
<1>3. CASE BadInput \/ Conflict \/ OutOfChance
  BY <1>3, AttemptTypes
<1>4. CASE Dump
  BY <1>4, IndexTypes, PadTypes DEF Dump
<1>5. CASE Fill
  BY <1>5, FillTypes, ContentTypes, ValueTypes DEF Fill
<1>6. CASE Close \/ Die \/ Load \/ Attach
  BY <1>6, EndTypes
<1>7. CASE Terminated \/ UNCHANGED vars
  BY <1>7, StutterTypes DEF Terminated
<1> QED BY <1>1, <1>2, <1>3, <1>4, <1>5, <1>6, <1>7 DEF Next

(* The variables have their types, for any jobs and any sizes: the budgets *)
(* of Retry never go below zero, the lengths are in range, and each record *)
(* has a line of its own (BuildAndDump and the fills, build.cc:894-1121).  *)
THEOREM PackTypeCorrect == Spec => []TypeOK
<1>1. Init => TypeInv
  BY InitTypes
<1>2. TypeInv /\ [Next]_vars => TypeInv'
  BY StepTypes
<1>3. TypeInv => TypeOK
  BY DEF TypeInv
<1> QED BY <1>1, <1>2, <1>3, PTL DEF Spec

----------------------------------------------------------------------------
(* The budgets of the attempts.                                            *)

(* An attempt that ends adds one to the outcomes, and one to the conflicts *)
(* if it is one.                                                           *)
LEMMA OutcomeCounts ==
  ASSUME outcomes \in Seq(Statuses), NEW st \in Statuses,
         outcomes' = Append(outcomes, st)
  PROVE  /\ Len(outcomes) \in Nat /\ Len(outcomes') = Len(outcomes) + 1
         /\ Cardinality(Conflicts) \in Nat
         /\ Cardinality(Conflicts') = IF st = "CONFLICT"
                                      THEN Cardinality(Conflicts) + 1
                                      ELSE Cardinality(Conflicts)
<1> DEFINE n == Len(outcomes)
<1>1. /\ n \in Nat /\ DOMAIN outcomes = 1 .. n
      /\ Len(outcomes') = n + 1 /\ DOMAIN outcomes' = 1 .. n + 1
      /\ outcomes'[n + 1] = st
      /\ \A i \in 1 .. n : outcomes'[i] = outcomes[i]
  <2>1. outcomes' \in Seq(Statuses)
    BY AppendProperties
  <2> QED BY <2>1, AppendProperties, LenProperties
<1> HIDE DEF n
<1>2. n + 1 \notin Conflicts
  BY <1>1 DEF Conflicts
<1>3. Conflicts' = IF st = "CONFLICT" THEN Conflicts \union {n + 1}
                                      ELSE Conflicts
  BY <1>1 DEF Conflicts
<1>4. IsFiniteSet(Conflicts)
  <2>1. IsFiniteSet(1 .. n)
    BY <1>1, FS_Interval
  <2>2. Conflicts \in SUBSET (1 .. n)
    BY <1>1 DEF Conflicts
  <2> QED BY <2>1, <2>2, FS_Subset
<1>5. Cardinality(Conflicts) \in Nat
  BY <1>4, FS_CardinalityType
<1>6. Cardinality(Conflicts \union {n + 1}) = Cardinality(Conflicts) + 1
  BY <1>2, <1>4, FS_AddElement
<1> QED BY <1>1, <1>3, <1>5, <1>6 DEF n

(* The steps that are not the end of an attempt.                           *)
LEMMA PutStatus ==
  ASSUME NEW part, NEW of, NEW len, NEW ph, NEW k, ph \notin Early,
         Put(part, of, len, ph, k)
  PROVE  /\ UNCHANGED <<job, conflict, total, outcomes>>
         /\ status' = status \/ status' \in {"OK", "FAIL_TO_OUTPUT"}
         /\ phase' \notin Early
  BY DEF Put, Return, Continue, inert, buildVars, Early

(* Only an attempt returns that its budget is spent.                       *)
LEMMA StepStatus ==
  ASSUME [Next]_vars, ~ Succeed, ~ (BadInput \/ Conflict \/ OutOfChance)
  PROVE  /\ UNCHANGED <<job, conflict, total, outcomes>>
         /\ \/ status' = status
            \/ status' \in {"OK", "BAD_INPUT", "FAIL_TO_OUTPUT"}
         /\ phase' \in Early => phase \in Early
<1>1. CASE Detect
  BY <1>1 DEF Detect, Return, Continue, inert, Early
<1>2. CASE Header \/ Counts \/ Cells \/ Sections
  <2>1. \E part, of, len, k :
          \E ph \in {"items", "cells", "pad", "sections", "close", "fill"} :
            Put(part, of, len, ph, k)
    <3>1. CASE Header
      BY <3>1 DEF Header
    <3>2. CASE Counts
      BY <3>2 DEF Counts
    <3>3. CASE Cells
      BY <3>3 DEF Cells
    <3>4. CASE Sections
      BY <3>4 DEF Sections, AfterIndex
    <3> QED BY <1>2, <3>1, <3>2, <3>3, <3>4
  <2>2. \A ph \in {"items", "cells", "pad", "sections", "close", "fill"} :
          ph \notin Early
    BY DEF Early
  <2> QED BY <2>1, <2>2, PutStatus
<1>3. CASE Pad
  <2>1. CASE Padding > 0
    <3>1. Put("pad", 0, Padding, "sections", 1)
      BY <1>3, <2>1 DEF Pad
    <3>2. "sections" \notin Early
      BY DEF Early
    <3> QED BY <3>1, <3>2, PutStatus
  <2>2. CASE ~ (Padding > 0)
    BY <1>3, <2>2 DEF Pad, Continue, inert, buildVars, Early
  <2> QED BY <2>1, <2>2
<1>4. CASE FillLine
  <2>1. UNCHANGED <<job, conflict, total, outcomes>> /\ phase = "fill"
    BY <1>4 DEF FillLine, inert, buildVars
  <2>2. \/ phase' = "close" /\ status' \in {"FAIL_TO_OUTPUT", "BAD_INPUT"}
        \/ UNCHANGED <<phase, status>>
    BY <1>4 DEF FillLine, Return
  <2> QED BY <2>1, <2>2 DEF Early
<1>5. CASE Content \/ WriteVarInt \/ WriteValue
  <2>1. \E part, of, len, k :
          \E ph \in {"varint", "value", "close"} : Put(part, of, len, ph, k)
    <3>1. CASE Content
      BY <3>1 DEF Content
    <3>2. CASE WriteVarInt
      BY <3>2 DEF WriteVarInt, NextValue
    <3>3. CASE WriteValue
      BY <3>3 DEF WriteValue, NextValue
    <3> QED BY <1>5, <3>1, <3>2, <3>3
  <2>2. \A ph \in {"varint", "value", "close"} : ph \notin Early
    BY DEF Early
  <2> QED BY <2>1, <2>2, PutStatus
<1>6. CASE Close \/ Die \/ Load \/ Attach
  BY <1>6 DEF Close, Die, Load, Attach, inert, buildVars, Early
<1>7. CASE Terminated \/ UNCHANGED vars
  BY <1>7 DEF Terminated, vars, buildVars
<1> QED BY <1>1, <1>2, <1>3, <1>4, <1>5, <1>6, <1>7 DEF Next, Dump, Fill

(* The bound on the attempts is inductive, with what they have spent.      *)
LEMMA StepBudgets ==
  ASSUME TypeInv, Budgets, RetryBudget, [Next]_vars
  PROVE  Budgets' /\ RetryBudget'
<1>1. /\ job \in Jobs /\ outcomes \in Seq(Statuses)
      /\ conflict \in 0 .. job.conflict /\ total \in 0 .. job.total
      /\ phase \in Early => status = "running"
  BY DEF TypeInv, TypeOK, Control
<1>2. job.conflict \in Nat /\ job.total \in Nat
  BY <1>1, JobTypes
<1>3. ASSUME phase = "build"
      PROVE  /\ status = "running"
             /\ Len(outcomes) + total = job.total
             /\ Cardinality(Conflicts) + conflict = job.conflict
  BY <1>1, <1>3 DEF Budgets, Early
<1>4. CASE Succeed
  <2>1. /\ phase = "build" /\ phase' = "header" /\ status' = status
        /\ outcomes' = Append(outcomes, "OK") /\ job' = job
    BY <1>4 DEF Succeed, Continue, inert
  <2>2. "OK" \in Statuses /\ "OK" # "CONFLICT" /\ phase' \notin Early
    BY <2>1 DEF Statuses, Early
  <2>3. /\ Len(outcomes) \in Nat /\ Len(outcomes') = Len(outcomes) + 1
        /\ Cardinality(Conflicts) \in Nat
        /\ Cardinality(Conflicts') = Cardinality(Conflicts)
    BY <1>1, <2>1, <2>2, OutcomeCounts
  <2>4. /\ Len(outcomes') <= job.total + 1
        /\ Cardinality(Conflicts') <= job.conflict + 1
    BY <1>1, <1>2, <1>3, <2>1, <2>3
  <2>5. status' \notin {"CONFLICT", "OUT_OF_CHANCE"}
    BY <1>3, <2>1
  <2> QED BY <2>1, <2>2, <2>4, <2>5 DEF Budgets, RetryBudget
<1>5. CASE BadInput \/ Conflict \/ OutOfChance
  <2>1. phase = "build" /\ job' = job
    BY <1>5, AttemptDoes
  <2>2. PICK st \in {"BAD_INPUT", "CONFLICT", "OUT_OF_CHANCE"} : Charged(st)
    BY <1>5, AttemptDoes
  <2>3. st \in Statuses /\ outcomes' = Append(outcomes, st)
    BY <2>2 DEF Statuses, Charged
  <2>4. /\ Len(outcomes) \in Nat /\ Len(outcomes') = Len(outcomes) + 1
        /\ Cardinality(Conflicts) \in Nat
        /\ Cardinality(Conflicts') = IF st = "CONFLICT"
                                     THEN Cardinality(Conflicts) + 1
                                     ELSE Cardinality(Conflicts)
    BY <1>1, <2>3, OutcomeCounts
  <2> DEFINE n == Len(outcomes)  c == Cardinality(Conflicts)
             n1 == Len(outcomes')  c1 == Cardinality(Conflicts')
  <2>5. /\ n \in Nat /\ n1 = n + 1 /\ c \in Nat /\ n + total = job.total
        /\ c1 = IF st = "CONFLICT" THEN c + 1 ELSE c
        /\ c + conflict = job.conflict
        /\ conflict \in Nat /\ total \in Nat
    BY <1>1, <1>2, <1>3, <2>1, <2>4
  <2> HIDE DEF n, c, n1, c1
  <2>6. n1 <= job.total + 1 /\ c1 <= job.conflict + 1
    BY <1>2, <2>5
  <2>7. CASE phase' = "close"
    <3>1. /\ status' = st
          /\ st = "BAD_INPUT" \/ total = 0 \/ (st = "CONFLICT" /\ conflict = 0)
      BY <2>1, <2>2, <2>7 DEF Charged
    <3>2. ASSUME st \in {"CONFLICT", "OUT_OF_CHANCE"}
          PROVE  \/ n1 = job.total + 1
                 \/ st = "CONFLICT" /\ c1 = job.conflict + 1
      <4>1. total = 0 \/ (st = "CONFLICT" /\ conflict = 0)
        BY <3>1, <3>2
      <4>2. CASE total = 0
        BY <1>2, <2>5, <4>2
      <4>3. CASE st = "CONFLICT" /\ conflict = 0
        BY <1>2, <2>5, <4>3
      <4> QED BY <4>1, <4>2, <4>3
    <3>3. phase' \notin Early
      BY <2>7 DEF Early
    <3> QED BY <2>1, <2>6, <3>1, <3>2, <3>3 DEF Budgets, RetryBudget, n1, c1
  <2>8. CASE phase' # "close"
    <3>1. /\ phase' = phase /\ status' = status
          /\ total # 0 /\ total' = total - 1
          /\ st = "CONFLICT" => conflict # 0
          /\ conflict' = IF st = "CONFLICT" THEN conflict - 1 ELSE conflict
      BY <2>2, <2>8 DEF Charged
    <3>2. n1 + total' = job.total
      BY <1>2, <2>5, <3>1
    <3>3. c1 + conflict' = job.conflict
      BY <1>2, <2>5, <3>1
    <3>4. status' \notin {"CONFLICT", "OUT_OF_CHANCE"}
      BY <1>3, <2>1, <3>1
    <3> QED BY <2>1, <2>6, <3>2, <3>3, <3>4 DEF Budgets, RetryBudget, n1, c1
  <2> QED BY <2>7, <2>8
<1>6. CASE ~ Succeed /\ ~ (BadInput \/ Conflict \/ OutOfChance)
  <2>1. /\ UNCHANGED <<job, conflict, total, outcomes>>
        /\ \/ status' = status
           \/ status' \in {"OK", "BAD_INPUT", "FAIL_TO_OUTPUT"}
        /\ phase' \in Early => phase \in Early
    BY <1>6, StepStatus
  <2>2. Conflicts' = Conflicts
    BY <2>1 DEF Conflicts
  <2>3. status' \in {"CONFLICT", "OUT_OF_CHANCE"} => status' = status
    BY <2>1
  <2> QED BY <2>1, <2>2, <2>3 DEF Budgets, RetryBudget
<1> QED BY <1>4, <1>5, <1>6

(* The attempts stay within the two budgets of Retry, and one that failed  *)
(* is returned only when its budget is spent: before each attempt, the     *)
(* attempts made and the total that is left add up to the total given, and *)
(* so do the conflicts and theirs (BuildAndDump, build.cc:912-932).        *)
THEOREM RetryWithinBudget == Spec => []RetryBudget
<1>1. Init => TypeInv
  BY InitTypes
<1>2. Init => Budgets /\ RetryBudget
  <2> SUFFICES ASSUME Init PROVE Budgets /\ RetryBudget
    OBVIOUS
  <2>1. job \in Jobs /\ outcomes = <<>> /\ conflict = job.conflict
        /\ total = job.total /\ status = "running"
    BY DEF Init
  <2>2. job.conflict \in Nat /\ job.total \in Nat
    BY <2>1, JobTypes
  <2>3. Conflicts = {} /\ Len(outcomes) = 0
    BY <2>1 DEF Conflicts
  <2>4. Cardinality(Conflicts) = 0
    BY <2>3, FS_EmptySet
  <2>5. status \notin {"CONFLICT", "OUT_OF_CHANCE"}
    BY <2>1
  <2> QED BY <2>1, <2>2, <2>3, <2>4, <2>5 DEF Budgets, RetryBudget
<1>3. TypeInv /\ Budgets /\ RetryBudget /\ [Next]_vars
        => TypeInv' /\ Budgets' /\ RetryBudget'
  BY StepTypes, StepBudgets
<1> QED BY <1>1, <1>2, <1>3, PTL DEF Spec

----------------------------------------------------------------------------
(* The order in which the parts are due, when the index is narrow.         *)

(* A piece has a cell.                                                     *)
LEMMA CellsPositive ==
  ASSUME job \in Jobs, NEW i \in 1 .. Pieces
  PROVE  L1Size(job.pieces[i]) \in Nat /\ L1Size(job.pieces[i]) >= 1
<1>1. job.pieces[i] \in Nat \ {0}
  BY JobTypes
<1>2. Cell \in Nat \ {0}
  BY ParamAssumption
<1> DEFINE n == job.pieces[i]
<1>3. n \in Nat /\ n >= 1
  BY <1>1
<1> HIDE DEF n
<1>4. L1Size(n) \in Nat /\ L1Size(n) >= 1
  BY <1>2, <1>3, Quotients DEF L1Size
<1> QED BY <1>4 DEF n

(* The header, the cells, the sections and the content follow each other,  *)
(* and those of a piece those of the one before.                           *)
LEMMA IndexOrder ==
  ASSUME Narrow, job \in Jobs
  PROVE  /\ Pieces \in Nat /\ ContentAt \in Nat
         /\ HeaderSize \in Nat /\ HeaderSize >= 1
         /\ CellsAt(1) \in Nat /\ CellsAt(Pieces + 1) \in Nat
         /\ SectionsAt(1) \in Nat
         /\ HeaderSize <= CellsAt(1) /\ CellsAt(1) <= CellsAt(Pieces + 1)
         /\ CellsAt(Pieces + 1) <= SectionsAt(1) /\ SectionsAt(1) <= ContentAt
         /\ SectionsAt(Pieces + 1) = ContentAt
         /\ SectionsAt(1) = AlignUp(CellsAt(Pieces + 1))
         /\ \A i \in 1 .. Pieces :
              /\ CellsAt(i) \in Nat /\ CellsAt(i + 1) \in Nat
              /\ CellsAt(i + 1) = CellsAt(i) + L1Size(job.pieces[i])
              /\ CellsAt(1) <= CellsAt(i) /\ CellsAt(i) < CellsAt(i + 1)
              /\ CellsAt(i + 1) <= CellsAt(Pieces + 1)
              /\ SectionsAt(i) \in Nat /\ SectionsAt(i + 1) \in Nat
              /\ SectionsAt(i + 1) =
                   SectionsAt(i) + SectionSize(job.pieces[i]) * SectionBytes
              /\ SectionsAt(1) <= SectionsAt(i)
              /\ SectionsAt(i) < SectionsAt(i + 1)
              /\ SectionsAt(i + 1) <= ContentAt
         /\ \A i, k \in 1 .. Pieces :
              i < k => /\ CellsAt(i + 1) <= CellsAt(k)
                       /\ SectionsAt(i + 1) <= SectionsAt(k)
<1>1. Pieces \in Nat /\ 1 \in 1 .. Pieces + 1 /\ Pieces + 1 \in 1 .. Pieces + 1
      /\ 1 <= Pieces + 1
  BY JobTypes
<1>2. /\ HeaderSize \in Nat /\ HeaderSize >= 1
      /\ CellsAt(1) \in Nat /\ CellsAt(Pieces + 1) \in Nat
      /\ HeaderSize <= CellsAt(1) /\ CellsAt(1) <= CellsAt(Pieces + 1)
  BY <1>1, CellsFacts
<1>3. /\ ContentAt \in Nat /\ SectionsAt(1) \in Nat
      /\ SectionsAt(Pieces + 1) = ContentAt /\ SectionsAt(1) <= ContentAt
      /\ SectionsAt(1) = AlignUp(CellsAt(Pieces + 1))
  BY <1>1, SectionsFacts
<1>4. CellsAt(Pieces + 1) <= SectionsAt(1)
  BY NarrowFacts
<1>5. ASSUME NEW i \in 1 .. Pieces
      PROVE  /\ CellsAt(i) \in Nat /\ CellsAt(i + 1) \in Nat
             /\ CellsAt(i + 1) = CellsAt(i) + L1Size(job.pieces[i])
             /\ CellsAt(1) <= CellsAt(i) /\ CellsAt(i) < CellsAt(i + 1)
             /\ CellsAt(i + 1) <= CellsAt(Pieces + 1)
  <2>1. /\ i \in 1 .. Pieces + 1 /\ i + 1 \in 1 .. Pieces + 1
        /\ 1 <= i /\ i + 1 <= Pieces + 1
    BY <1>1
  <2>2. /\ CellsAt(i) \in Nat /\ CellsAt(i + 1) \in Nat
        /\ CellsAt(i + 1) = CellsAt(i) + L1Size(job.pieces[i])
        /\ CellsAt(1) <= CellsAt(i) /\ CellsAt(i + 1) <= CellsAt(Pieces + 1)
    BY <1>1, <2>1, CellsFacts
  <2> DEFINE l == L1Size(job.pieces[i])
  <2>3. l \in Nat /\ l >= 1
    BY CellsPositive
  <2>4. CellsAt(i + 1) = CellsAt(i) + l
    BY <2>2
  <2> HIDE DEF l
  <2>5. CellsAt(i) < CellsAt(i + 1)
    BY <2>2, <2>3, <2>4
  <2> QED BY <2>2, <2>5
<1>6. ASSUME NEW i \in 1 .. Pieces
      PROVE  /\ SectionsAt(i) \in Nat /\ SectionsAt(i + 1) \in Nat
             /\ SectionsAt(i + 1) =
                  SectionsAt(i) + SectionSize(job.pieces[i]) * SectionBytes
             /\ SectionsAt(1) <= SectionsAt(i)
             /\ SectionsAt(i) < SectionsAt(i + 1)
             /\ SectionsAt(i + 1) <= ContentAt
  <2>1. /\ i \in 1 .. Pieces + 1 /\ i + 1 \in 1 .. Pieces + 1
        /\ 1 <= i /\ i + 1 <= Pieces + 1
    BY <1>1
  <2> QED BY <1>1, <1>3, <2>1, SectionsFacts
<1>7. ASSUME NEW i \in 1 .. Pieces, NEW k \in 1 .. Pieces, i < k
      PROVE  CellsAt(i + 1) <= CellsAt(k) /\ SectionsAt(i + 1) <= SectionsAt(k)
  <2>1. i + 1 \in 1 .. Pieces + 1 /\ k \in 1 .. Pieces + 1 /\ i + 1 <= k
    BY <1>1, <1>7
  <2> QED BY <2>1, CellsFacts, SectionsFacts
<1> QED BY <1>1, <1>2, <1>3, <1>4, <1>5, <1>6, <1>7

(* The lines end where the values begin, and take some room.               *)
LEMMA ExtendFacts ==
  ASSUME Narrow, TypeInv
  PROVE  /\ ContentAt \in Nat /\ ExtendAt \in Nat /\ Items \in Nat
         /\ LineSize \in Nat /\ Items * LineSize \in Nat
         /\ ExtendAt = ContentAt + Items * LineSize
         /\ Detected /\ job.type # "INDEX_ONLY" => ExtendAt > ContentAt
         /\ Detected /\ job.type = "INDEX_ONLY" => ExtendAt = ContentAt
<1>1. /\ job \in Jobs /\ keyLen \in Nat /\ valLen \in Nat
  BY ParamAssumption DEF TypeInv, TypeOK
<1>2. Items \in Nat /\ ContentAt \in Nat
  BY <1>1, JobTypes, IndexOrder
<1>3. LineSize \in Nat
  BY <1>1 DEF LineSize
<1> DEFINE p == Items * LineSize
<1>4. p \in Nat /\ LineSize * Items = p
      /\ (Items >= 1 /\ LineSize >= 1 => p >= 1)
  <2>1. LineSize * Items = p
    BY <1>2, <1>3
  <2> QED BY <1>2, <1>3, <2>1, ProductPositive
<1>5. ExtendAt = ContentAt + p
  BY <1>4 DEF ExtendAt
<1>6. ASSUME Detected, job.type # "INDEX_ONLY" PROVE p >= 1
  <2>1. keyLen >= 1 /\ Items >= 1
    BY <1>6 DEF Detected
  <2>2. LineSize >= 1
    BY <1>1, <2>1 DEF LineSize
  <2> QED BY <1>4, <2>1, <2>2
<1>7. ASSUME Detected, job.type = "INDEX_ONLY" PROVE p = 0
  <2>1. LineSize = 0
    BY <1>7 DEF Detected, LineSize
  <2> QED BY <1>2, <2>1
<1>8. p \in Nat
  BY <1>4
<1> HIDE DEF p
<1>9. /\ ExtendAt \in Nat
      /\ Detected /\ job.type # "INDEX_ONLY" => ExtendAt > ContentAt
      /\ Detected /\ job.type = "INDEX_ONLY" => ExtendAt = ContentAt
  BY <1>2, <1>5, <1>6, <1>7, <1>8
<1> QED BY <1>2, <1>3, <1>5, <1>8, <1>9 DEF p

(* Where a value of varied length, and its length, are due.                *)
LEMMA SpacedFacts ==
  ASSUME Narrow, TypeInv, Separated, Fits(Items), Spaced(Items),
         NEW i \in 1 .. Items
  PROVE  /\ Items \in Nat /\ ExtendAt \in Nat
         /\ job.records[i].vlen \in Nat
         /\ job.records[i].vlen \in 0 .. MaxValueLen
         /\ VarIntSize(job.records[i].vlen) \in 1 .. ValueDigits
         /\ Line(i) \in Nat /\ Line(i) >= i - 1
         /\ At(i) \in Nat /\ At(i) = ExtendAt + Line(i)
         /\ ValueAt(i) = At(i) + VarIntSize(job.records[i].vlen)
         /\ ValueAt(i) \in Nat /\ At(i) < ValueAt(i)
         /\ Past(i) \in Nat
         /\ ExtendAt + Past(i) = ValueAt(i) + job.records[i].vlen
         /\ i = 1 => At(i) = ExtendAt
         /\ i < Items => At(i + 1) = ExtendAt + Past(i)
         /\ \A k \in 1 .. Items : i < k => ExtendAt + Past(i) <= At(k)
<1> DEFINE w == job.records[i].vlen  s == VarIntSize(w)
<1>1. Items \in Nat /\ ExtendAt \in Nat
  BY ExtendFacts
<1>2. w \in 0 .. MaxValueLen
  BY DEF Fits
<1>3. ValueDigits \in 1 .. ValueDigits /\ ValueDigits \in Nat
      /\ Radix ^ ValueDigits \in Nat /\ MaxValueLen = Radix ^ ValueDigits - 1
  <2>1. ValueDigits \in 1 .. ValueDigits /\ ValueDigits \in Nat
    BY ParamAssumption
  <2> QED BY <2>1, PowerAssumption DEF MaxValueLen
<1>4. w \in Nat /\ w < Radix ^ ValueDigits
  <2> DEFINE m == Radix ^ ValueDigits
  <2>1. m \in Nat /\ MaxValueLen = m - 1
    BY <1>3
  <2> HIDE DEF m, w
  <2>2. w \in Nat /\ w < m
    BY <1>2, <2>1
  <2> QED BY <2>2 DEF m
<1>5. s \in 1 .. ValueDigits
  <2> HIDE DEF w
  <2> QED BY <1>3, <1>4, VarIntFits
<1>6. /\ Line(i) \in Nat /\ Line(i) >= i - 1
      /\ i = 1 => Line(i) = 0
      /\ i < Items => Line(i + 1) = Past(i)
      /\ \A k \in 1 .. Items : i < k => Past(i) <= Line(k)
  <2>1. i < Items => i \in 1 .. Items - 1
    BY <1>1
  <2>2. i = 1 => Items >= 1
    BY <1>1
  <2> QED BY <2>1, <2>2 DEF Spaced
<1>7. \A k \in 1 .. Items : Line(k) \in Nat
  BY DEF Spaced
<1>8. /\ At(i) = ExtendAt + Line(i) /\ ValueAt(i) = At(i) + s
      /\ Past(i) = Line(i) + (s + w)
      /\ \A k \in 1 .. Items : At(k) = ExtendAt + Line(k)
      /\ At(i + 1) = ExtendAt + Line(i + 1)
  BY DEF At, ValueAt, Past, OffsetStep
<1>9. s \in Nat /\ s >= 1
  BY <1>3, <1>5
<1> HIDE DEF w, s, At, ValueAt, Past, Line
<1>10. /\ At(i) \in Nat /\ ValueAt(i) \in Nat /\ At(i) < ValueAt(i)
       /\ Past(i) \in Nat /\ ExtendAt + Past(i) = ValueAt(i) + w
       /\ i = 1 => At(i) = ExtendAt
  BY <1>1, <1>4, <1>6, <1>8, <1>9
<1>11. i < Items => At(i + 1) = ExtendAt + Past(i)
  BY <1>6, <1>8
<1>12. \A k \in 1 .. Items : i < k => ExtendAt + Past(i) <= At(k)
  BY <1>1, <1>6, <1>7, <1>8, <1>10
<1> QED BY <1>1, <1>2, <1>4, <1>5, <1>6, <1>8, <1>10, <1>11, <1>12 DEF w, s

----------------------------------------------------------------------------
(* The stream, and what is in it.                                          *)

(* The parts of a stream, and where it ends.                               *)
LEMMA EndTypesOf ==
  ASSUME toc \in Seq(Part)
  PROVE  /\ End \in Nat
         /\ Len(toc) \in Nat /\ DOMAIN toc = 1 .. Len(toc)
         /\ \A c \in DOMAIN toc : toc[c] \in Part
<1>1. /\ Len(toc) \in Nat /\ DOMAIN toc = 1 .. Len(toc)
      /\ \A c \in DOMAIN toc : toc[c] \in Part
  BY ElementOfSeq, LenProperties
<1>2. CASE toc = <<>>
  BY <1>1, <1>2 DEF End
<1>3. CASE toc # <<>>
  <2>1. Len(toc) \in DOMAIN toc
    BY <1>1, <1>3, EmptySeq
  <2>2. toc[Len(toc)].start \in Nat /\ toc[Len(toc)].len \in Nat
    BY <1>1, <2>1 DEF Part
  <2> QED BY <1>3, <2>2 DEF End
<1> QED BY <1>1, <1>2, <1>3

(* What the next part adds.                                                *)
LEMMA Appended ==
  ASSUME toc \in Seq(Part), NEW e \in Part, toc' = Append(toc, e)
  PROVE  /\ Len(toc) \in Nat /\ DOMAIN toc = 1 .. Len(toc)
         /\ DOMAIN toc' = 1 .. Len(toc) + 1 /\ toc'[Len(toc) + 1] = e
         /\ \A c \in DOMAIN toc : toc'[c] = toc[c]
         /\ \A part, of, x : WrittenAt(part, of, x) => WrittenAt(part, of, x)'
         /\ WrittenAt(e.part, e.of, e.start)'
<1> DEFINE n == Len(toc)
<1>1. /\ n \in Nat /\ DOMAIN toc = 1 .. n
      /\ Len(toc') = n + 1 /\ DOMAIN toc' = 1 .. n + 1
      /\ toc'[n + 1] = e
      /\ \A c \in 1 .. n : toc'[c] = toc[c]
  <2>1. toc' \in Seq(Part)
    BY AppendProperties
  <2> QED BY <2>1, AppendProperties, LenProperties
<1> HIDE DEF n
<1>2. ASSUME NEW part, NEW of, NEW x, WrittenAt(part, of, x)
      PROVE  WrittenAt(part, of, x)'
  <2>1. PICK c \in 1 .. n :
          toc[c].part = part /\ toc[c].of = of /\ toc[c].start = x
    BY <1>1, <1>2 DEF WrittenAt
  <2>2. c \in 1 .. n + 1 /\ toc'[c] = toc[c]
    BY <1>1
  <2> QED BY <1>1, <2>1, <2>2 DEF WrittenAt
<1>3. \A p, o, x : p = e.part /\ o = e.of /\ x = e.start => WrittenAt(p, o, x)'
  <2>1. n + 1 \in 1 .. n + 1
    BY <1>1
  <2> QED BY <1>1, <2>1 DEF WrittenAt
<1> QED BY <1>1, <1>2, <1>3 DEF n

(* A part that is handed over, whether or not the writer takes it.         *)
PartOf(part, of, len) == [part |-> part, of |-> of, start |-> End, len |-> len]

(* What a call of write does to the stream: all of LayInv but Layout and   *)
(* what is due next.                                                       *)
LEMMA Written ==
  ASSUME TypeInv, Due, Stream, Judged, phase \in Writing,
         NEW part \in Names, NEW of \in Nat, NEW len \in Nat,
         NEW ph \in Writing \union {"close"}, NEW k, Put(part, of, len, ph, k)
  PROVE  /\ UNCHANGED <<job, keyLen, valLen, place, offset, lines>>
         /\ toc \in Seq(Part) /\ PartOf(part, of, len) \in Part
         /\ toc' = Append(toc, PartOf(part, of, len))
         /\ End \in Nat /\ End' = End + len
         /\ Stream' /\ Judged'
         /\ toc' # <<>>
         /\ phase' = "close" => Due'
         /\ status' # "OK" => Complete'
         /\ \/ phase' = "close" /\ status' = "FAIL_TO_OUTPUT"
            \/ /\ phase' = ph /\ loop' = k /\ given' = End'
               /\ ph = "close" => status' = "OK"
               /\ ph # "close" => status' = "running"
<1>1. /\ UNCHANGED <<job, attached, keyLen, valLen, conflict, total,
                     outcomes, place, offset, lines>>
      /\ toc' = Append(toc, [part |-> part, of |-> of,
                             start |-> given, len |-> len])
      /\ toc' # <<>> /\ End' = given + len
      /\ given' \in Nat /\ stored' \in Nat
      /\ stored' = stored \/ stored' <= given + len
      /\ \/ /\ given' = given + len /\ loop' = k
            /\ ph = "close" => phase' = "close" /\ status' = "OK"
            /\ ph # "close" => phase' = ph /\ status' = status
         \/ /\ given' = given /\ loop' = loop
            /\ phase' = "close" /\ status' = "FAIL_TO_OUTPUT"
  BY PutDoes
<1>2. /\ toc \in Seq(Part) /\ given \in Nat /\ stored \in Nat
      /\ status = "running"
  BY DEF TypeInv, TypeOK, Control
<1>3. End \in Nat /\ given = End
  BY <1>2, EndTypesOf DEF Due
<1>4. PartOf(part, of, len) \in Part
      /\ toc' = Append(toc, PartOf(part, of, len))
  BY <1>1, <1>3 DEF PartOf, Part
<1>5. phase' \in Writing \union {"close"} /\ phase' \notin Early
      /\ phase' \notin {"loaded", "rejected"}
  <2>1. phase' \in Writing \union {"close"}
    BY <1>1
  <2> QED BY <2>1 DEF Writing, Indexing, Filling, Early
<1>6. Stream'
  <2>1. given' <= End'
    BY <1>1, <1>3
  <2>2. stored <= End
    BY DEF Stream
  <2>3. stored' <= End'
    BY <1>1, <1>2, <1>3, <2>2
  <2> QED BY <1>5, <2>1, <2>3 DEF Stream
<1>7. Judged'
  <2>1. phase \notin {"loaded", "rejected"}
    BY DEF Writing, Indexing, Filling
  <2>2. attached = "none"
    BY <2>1 DEF Judged
  <2> QED BY <1>1, <1>5, <2>2 DEF Judged
<1>8. \/ phase' = "close" /\ status' = "FAIL_TO_OUTPUT"
      \/ /\ phase' = ph /\ loop' = k /\ given' = End'
         /\ ph = "close" => status' = "OK"
         /\ ph # "close" => status' = "running"
  BY <1>1, <1>2, <1>3
<1>9. End' = End + len
  BY <1>1, <1>3
<1>10. ASSUME phase' = "close" PROVE Due'
  <2>1. phase' \notin Writing
    BY <1>10 DEF Writing, Indexing, Filling
  <2> QED BY <1>10, <2>1 DEF Due
<1>11. status' # "OK" => Complete'
  BY DEF Complete
<1> QED BY <1>1, <1>2, <1>3, <1>4, <1>6, <1>7, <1>8, <1>9, <1>10, <1>11

(* The layout after a part of the index: every place is passed already, or *)
(* it is the part's, or it comes after the part.                           *)
Around(part, of, x, len) ==
  x < End \/ (x = End /\ WrittenAt(part, of, x)') \/ End + len <= x

(* A part that is laid stays so, if the one that is added is not within    *)
(* it.                                                                     *)
LEMMA AroundLaid ==
  ASSUME NEW part, NEW of, NEW x \in Nat, NEW e \in Part, toc \in Seq(Part),
         toc' = Append(toc, e), End \in Nat, End' = End + e.len,
         Laid(part, of, x), Around(part, of, x, e.len)
  PROVE  Laid(part, of, x)'
<1>1. WrittenAt(part, of, x) => WrittenAt(part, of, x)'
  BY Appended
<1>2. x < End => WrittenAt(part, of, x)
  BY DEF Laid
<1> QED BY <1>1, <1>2 DEF Laid, Around

(* A part of the index keeps the layout.                                   *)
LEMMA IndexLayout ==
  ASSUME Narrow, TypeInv, Layout, NEW e \in Part, toc' = Append(toc, e),
         e.start = End, End' = End + e.len, e.part # "varint",
         UNCHANGED <<job, keyLen, valLen, place, lines>>,
         End + e.len <= ContentAt,
         \A i \in 1 .. Pieces :
           /\ \/ CellsAt(i) < End \/ End + e.len <= CellsAt(i)
              \/ CellsAt(i) = End /\ e.part = "cells" /\ e.of = i
           /\ \/ SectionsAt(i) < End \/ End + e.len <= SectionsAt(i)
              \/ SectionsAt(i) = End /\ e.part = "sections" /\ e.of = i
  PROVE  Layout'
<1>1. job \in Jobs /\ toc \in Seq(Part)
  BY DEF TypeInv
<1>2. End \in Nat /\ e.len \in Nat
  BY <1>1, EndTypesOf DEF Part
<1>3. /\ Items' = Items /\ Pieces' = Pieces
      /\ ContentAt' = ContentAt /\ ExtendAt' = ExtendAt
      /\ (Separated' <=> Separated)
      /\ \A i : CellsAt(i)' = CellsAt(i) /\ SectionsAt(i)' = SectionsAt(i)
  BY Same
<1>4. WrittenAt(e.part, e.of, e.start)'
  BY <1>1, Appended
<1>5. ContentAt \in Nat /\ ExtendAt \in Nat /\ ExtendAt >= ContentAt
  BY ExtendFacts
<1>6. IndexLaid'
  <2>1. ASSUME NEW i \in 1 .. Pieces
        PROVE  Laid("cells", i, CellsAt(i))'
               /\ Laid("sections", i, SectionsAt(i))'
    <3>1. PICK x : x = CellsAt(i)
      OBVIOUS
    <3>2. PICK y : y = SectionsAt(i)
      OBVIOUS
    <3>3. x \in Nat /\ y \in Nat
      BY <1>1, <3>1, <3>2, IndexOrder
    <3>4. Laid("cells", i, x) /\ Laid("sections", i, y)
      BY <2>1, <3>1, <3>2 DEF Layout, IndexLaid
    <3>5. Around("cells", i, x, e.len)
      BY <1>4, <3>1 DEF Around
    <3>6. Around("sections", i, y, e.len)
      BY <1>4, <3>2 DEF Around
    <3>7. Laid("cells", i, x)' /\ Laid("sections", i, y)'
      BY <1>1, <1>2, <3>3, <3>4, <3>5, <3>6, AroundLaid
    <3>8. CellsAt(i)' = x /\ SectionsAt(i)' = y
      BY <1>3, <3>1, <3>2
    <3> QED BY <3>7, <3>8 DEF Laid, WrittenAt
  <2> QED BY <1>3, <2>1 DEF IndexLaid
<1>7. End' <= ContentAt'
  BY <1>3
<1>8. ContentLaid'
  BY <1>3, <1>7 DEF ContentLaid, Laid
<1>9. ~ (End' > ContentAt') /\ End' <= ExtendAt'
  BY <1>2, <1>3, <1>5, <1>7
<1>10. Reach' /\ ValuesLaid'
  BY <1>9 DEF Reach, ValuesLaid
<1>11. VarIntsLaid'
  <2>1. \A c \in DOMAIN toc : toc[c].part # "varint"
    <3>1. ~ (End > ContentAt)
      BY <1>2, <1>5
    <3> QED BY <3>1 DEF Layout, VarIntsLaid
  <2>2. \A c \in DOMAIN toc' :
          toc'[c] = e \/ (c \in DOMAIN toc /\ toc'[c] = toc[c])
    <3>1. /\ Len(toc) \in Nat /\ DOMAIN toc = 1 .. Len(toc)
          /\ DOMAIN toc' = 1 .. Len(toc) + 1 /\ toc'[Len(toc) + 1] = e
          /\ \A c \in DOMAIN toc : toc'[c] = toc[c]
      BY <1>1, Appended
    <3> QED BY <3>1
  <2>3. \A c \in DOMAIN toc' : toc'[c].part # "varint"
    BY <2>1, <2>2
  <2> QED BY <2>3 DEF VarIntsLaid
<1> QED BY <1>6, <1>8, <1>10, <1>11 DEF Layout

LayInv == Due /\ Stream /\ Layout /\ Complete /\ Judged

(* The header is laid.                                                     *)
LEMMA HeaderLays ==
  ASSUME Narrow, TypeInv, LayInv, Header
  PROVE  LayInv'
<1> DEFINE e == PartOf("header", 0, HeaderSize)
<1>1. /\ phase = "header" /\ phase \in Writing /\ job \in Jobs
      /\ Put("header", 0, HeaderSize, "items", 1)
      /\ Due /\ Stream /\ Layout /\ Judged
  BY DEF Header, Writing, Indexing, LayInv, TypeInv
<1>2. "items" \in Writing \union {"close"} /\ HeaderSize \in Nat
  BY ParamAssumption DEF Writing, Indexing
<1>3. /\ UNCHANGED <<job, keyLen, valLen, place, offset, lines>>
      /\ e \in Part /\ toc' = Append(toc, e)
      /\ End \in Nat /\ End' = End + HeaderSize
      /\ Stream' /\ Judged'
      /\ phase' = "close" => Due'
      /\ status' # "OK" => Complete'
      /\ \/ phase' = "close" /\ status' = "FAIL_TO_OUTPUT"
         \/ /\ phase' = "items" /\ loop' = 1 /\ given' = End'
            /\ status' = "running"
  BY <1>1, <1>2, Named, Written
<1>4. End = 0
  BY <1>1 DEF Due
<1>5. e.start = End /\ e.len = HeaderSize /\ e.part # "varint"
  BY DEF PartOf
<1> HIDE DEF e
<1>6. Layout'
  <2>1. /\ End + e.len <= ContentAt
        /\ \A i \in 1 .. Pieces : /\ End + e.len <= CellsAt(i)
                                  /\ End + e.len <= SectionsAt(i)
    BY <1>1, <1>2, <1>4, <1>5, IndexOrder
  <2>2. End' = End + e.len
    BY <1>3, <1>5
  <2> QED BY <1>1, <1>3, <1>5, <2>1, <2>2, IndexLayout
<1>7. Due'
  <2> SUFFICES ASSUME phase' = "items" PROVE Due'
    BY <1>3
  <2>1. given' = End' /\ End' = HeaderSize
    BY <1>2, <1>3, <1>4
  <2> QED BY <2>1 DEF Due
<1>8. Complete'
  BY <1>3
<1> QED BY <1>3, <1>6, <1>7, <1>8 DEF LayInv

(* The numbers of items are laid.                                          *)
LEMMA CountsLay ==
  ASSUME Narrow, TypeInv, LayInv, Counts
  PROVE  LayInv'
<1> DEFINE e == PartOf("items", 0, Pieces * CountSize)
<1>1. /\ phase = "items" /\ phase \in Writing /\ job \in Jobs
      /\ Put("items", 0, Pieces * CountSize, "cells", 1)
      /\ size' = HeaderSize + Pieces * CountSize
      /\ Due /\ Stream /\ Layout /\ Judged
  BY DEF Counts, Writing, Indexing, LayInv, TypeInv
<1>2. /\ "cells" \in Writing \union {"close"}
      /\ HeaderSize \in Nat /\ Pieces * CountSize \in Nat
  BY <1>1, BytesTypes DEF Writing, Indexing
<1>3. /\ UNCHANGED <<job, keyLen, valLen, place, offset, lines>>
      /\ e \in Part /\ toc' = Append(toc, e)
      /\ End \in Nat /\ End' = End + Pieces * CountSize
      /\ Stream' /\ Judged'
      /\ phase' = "close" => Due'
      /\ status' # "OK" => Complete'
      /\ \/ phase' = "close" /\ status' = "FAIL_TO_OUTPUT"
         \/ /\ phase' = "cells" /\ loop' = 1 /\ given' = End'
            /\ status' = "running"
  BY <1>1, <1>2, Named, Written
<1>4. End = HeaderSize
  BY <1>1 DEF Due
<1>5. e.start = End /\ e.len = Pieces * CountSize /\ e.part # "varint"
  BY DEF PartOf
<1> HIDE DEF e
<1>6. End' = End + e.len /\ End + e.len = CellsAt(1) /\ End + e.len = size'
  BY <1>1, <1>3, <1>4, <1>5, CellsFacts
<1>7. Layout'
  <2>1. /\ End + e.len <= ContentAt
        /\ \A i \in 1 .. Pieces : /\ End + e.len <= CellsAt(i)
                                  /\ End + e.len <= SectionsAt(i)
    BY <1>1, <1>6, IndexOrder
  <2> QED BY <1>1, <1>3, <1>5, <1>6, <2>1, IndexLayout
<1>8. Due'
  <2> SUFFICES ASSUME phase' = "cells", loop' = 1, given' = End' PROVE Due'
    BY <1>3
  <2>1. CellsAt(loop)' = CellsAt(1)
    BY <1>3, Same
  <2>2. End' = CellsAt(loop)' /\ size' = End'
    BY <1>6, <2>1
  <2> QED BY <2>2 DEF Due
<1>9. Complete'
  BY <1>3
<1> QED BY <1>3, <1>7, <1>8, <1>9 DEF LayInv

(* The cells of a piece are laid where the loader takes them to be.        *)
LEMMA CellsLay ==
  ASSUME Narrow, TypeInv, LayInv, Cells
  PROVE  LayInv'
<1> DEFINE sz == L1Size(job.pieces[loop])
           ph == IF loop < Pieces THEN "cells" ELSE "pad"
           k == IF loop < Pieces THEN loop + 1 ELSE 1
           e == PartOf("cells", loop, sz)
<1>1. /\ phase = "cells" /\ phase \in Writing /\ job \in Jobs
      /\ Put("cells", loop, sz, ph, k) /\ size' = size + sz
      /\ Due /\ Stream /\ Layout /\ Judged
  BY DEF Cells, Writing, Indexing, LayInv, TypeInv
<1>2. loop \in 1 .. Pieces /\ Pieces \in Nat /\ loop \in Nat /\ size \in Nat
  <2>1. Ready(phase, loop) /\ Pieces \in Nat /\ size \in Nat
    BY <1>1, WritingTypes
  <2> QED BY <1>1, <2>1 DEF Ready
<1>3. ph \in Writing \union {"close"} /\ ph # "close" /\ sz \in Nat
  BY <1>1, <1>2, PieceSizes DEF Writing, Indexing
<1>4. /\ UNCHANGED <<job, keyLen, valLen, place, offset, lines>>
      /\ e \in Part /\ toc' = Append(toc, e)
      /\ End \in Nat /\ End' = End + sz
      /\ Stream' /\ Judged'
      /\ phase' = "close" => Due'
      /\ status' # "OK" => Complete'
      /\ \/ phase' = "close" /\ status' = "FAIL_TO_OUTPUT"
         \/ /\ phase' = ph /\ loop' = k /\ given' = End'
            /\ status' = "running"
  <2> HIDE DEF ph, k, sz
  <2> QED BY <1>1, <1>2, <1>3, Named, Written
<1>5. End = CellsAt(loop) /\ size = End
  BY <1>1 DEF Due
<1>6. /\ e.start = End /\ e.len = sz /\ e.part # "varint"
      /\ e.part = "cells" /\ e.of = loop
  BY DEF PartOf
<1> HIDE DEF e, sz
<1>7. End' = End + e.len /\ End + e.len = CellsAt(loop + 1) /\ size' = End'
  <2>1. CellsAt(loop + 1) = CellsAt(loop) + sz
    BY <1>1, <1>2, IndexOrder DEF sz
  <2> QED BY <1>1, <1>4, <1>5, <1>6, <2>1
<1>8. Layout'
  <2>1. End + e.len <= ContentAt
    BY <1>1, <1>2, <1>7, IndexOrder
  <2>2. ASSUME NEW i \in 1 .. Pieces
        PROVE  /\ \/ CellsAt(i) < End \/ End + e.len <= CellsAt(i)
                  \/ CellsAt(i) = End /\ e.part = "cells" /\ e.of = i
               /\ End + e.len <= SectionsAt(i)
    <3>1. End + e.len <= SectionsAt(i)
      BY <1>1, <1>2, <1>7, IndexOrder
    <3>2. CASE i < loop
      <4>1. /\ CellsAt(i) < CellsAt(i + 1) /\ CellsAt(i + 1) <= CellsAt(loop)
            /\ CellsAt(i) \in Nat /\ CellsAt(i + 1) \in Nat
        BY <1>1, <1>2, <3>2, IndexOrder
      <4>2. CellsAt(i) < End
        BY <1>4, <1>5, <4>1
      <4> QED BY <3>1, <4>2
    <3>3. CASE loop < i
      <4>1. CellsAt(loop + 1) <= CellsAt(i)
        BY <1>1, <1>2, <3>3, IndexOrder
      <4> QED BY <1>7, <3>1, <4>1
    <3>4. CASE i = loop
      BY <1>5, <1>6, <3>1, <3>4
    <3>5. i < loop \/ i = loop \/ loop < i
      BY <1>2
    <3> QED BY <3>2, <3>3, <3>4, <3>5
  <2> QED BY <1>1, <1>4, <1>6, <1>7, <2>1, <2>2, IndexLayout
<1>9. Due'
  <2> SUFFICES ASSUME phase' = ph, loop' = k, given' = End' PROVE Due'
    BY <1>4
  <2>1. \A i : CellsAt(i)' = CellsAt(i) /\ Pieces' = Pieces
    BY <1>4, Same
  <2>2. CASE loop < Pieces
    <3>1. phase' = "cells" /\ CellsAt(loop)' = CellsAt(loop + 1)
      BY <2>1, <2>2
    <3>2. End' = CellsAt(loop)' /\ size' = End'
      BY <1>7, <3>1
    <3> QED BY <3>1, <3>2 DEF Due
  <2>3. CASE ~ (loop < Pieces)
    <3>1. phase' = "pad" /\ CellsAt(Pieces + 1)' = CellsAt(loop + 1)
      BY <1>2, <2>1, <2>3
    <3>2. End' = CellsAt(Pieces + 1)' /\ size' = End'
      BY <1>7, <3>1
    <3> QED BY <3>1, <3>2 DEF Due
  <2> QED BY <2>2, <2>3
<1>10. Complete'
  BY <1>4
<1> QED BY <1>4, <1>8, <1>9, <1>10 DEF LayInv

(* The layout is about the table and its parts only.                       *)
LEMMA LayoutSame ==
  ASSUME UNCHANGED <<job, keyLen, valLen, place, lines, toc>>
  PROVE  (Layout' <=> Layout) /\ End' = End
<1>1. /\ Items' = Items /\ Pieces' = Pieces
      /\ ContentAt' = ContentAt /\ ExtendAt' = ExtendAt
      /\ (Separated' <=> Separated)
      /\ \A i : CellsAt(i)' = CellsAt(i) /\ SectionsAt(i)' = SectionsAt(i)
      /\ \A i : /\ Line(i)' = Line(i) /\ At(i)' = At(i)
                /\ ValueAt(i)' = ValueAt(i)
      /\ \A m : (Fits(m)' <=> Fits(m)) /\ (Spaced(m)' <=> Spaced(m))
  BY Same
<1>2. End' = End
  BY DEF End
<1>3. \A part, of, x : Laid(part, of, x)' <=> Laid(part, of, x)
  BY <1>2 DEF Laid, WrittenAt
<1>4. IndexLaid' <=> IndexLaid
  <2>1. ASSUME NEW i
        PROVE  /\ Laid("cells", i, CellsAt(i))'
                    <=> Laid("cells", i, CellsAt(i))
               /\ Laid("sections", i, SectionsAt(i))'
                    <=> Laid("sections", i, SectionsAt(i))
    BY <1>1, <1>2 DEF Laid, WrittenAt
  <2> QED BY <1>1, <2>1 DEF IndexLaid
<1>5. ContentLaid' <=> ContentLaid
  BY <1>1, <1>2 DEF ContentLaid, Laid, WrittenAt
<1>6. Reach' <=> Reach
  <2>1. Filled(Items)' <=> Filled(Items)
    BY <1>1 DEF Filled
  <2> QED BY <1>1, <1>2, <2>1 DEF Reach
<1>7. ValuesLaid' <=> ValuesLaid
  <2>1. ASSUME NEW i
        PROVE  /\ Laid("varint", i, At(i))' <=> Laid("varint", i, At(i))
               /\ Laid("value", i, ValueAt(i))'
                    <=> Laid("value", i, ValueAt(i))
    BY <1>1, <1>2 DEF Laid, WrittenAt
  <2> QED BY <1>1, <1>2, <2>1 DEF ValuesLaid
<1>8. VarIntsLaid' <=> VarIntsLaid
  <2>1. ASSUME NEW c \in DOMAIN toc
        PROVE  At(toc[c].of)' = At(toc[c].of)
    BY <1>1
  <2> QED BY <1>1, <1>2, <2>1 DEF VarIntsLaid
<1> QED BY <1>2, <1>4, <1>5, <1>6, <1>7, <1>8 DEF Layout

(* A difference of numbers.                                                *)
LEMMA Difference ==
  ASSUME NEW a \in Nat, NEW b \in Nat, a <= b
  PROVE  b - a \in Nat /\ (~ (b - a > 0) => b = a)
  OBVIOUS

(* The padding, if there is one, reaches to the sections.                  *)
LEMMA PadLays ==
  ASSUME Narrow, TypeInv, LayInv, Pad
  PROVE  LayInv'
<1>1. /\ phase = "pad" /\ phase \in Writing /\ job \in Jobs
      /\ size' = AlignUp(size) /\ toc \in Seq(Part)
      /\ Due /\ Stream /\ Layout /\ Judged
  BY DEF Pad, Writing, Indexing, LayInv, TypeInv
<1>2. loop = 1 /\ size \in Nat /\ Pieces \in Nat /\ Pieces >= 1
      /\ status = "running"
  <2>1. /\ Ready(phase, loop) /\ size \in Nat /\ Pieces \in Nat /\ Pieces >= 1
        /\ status = "running"
    BY <1>1, WritingTypes
  <2> QED BY <1>1, <2>1 DEF Ready
<1>3. End = CellsAt(Pieces + 1) /\ size = End /\ given = End
  BY <1>1 DEF Due
<1>4. SectionsAt(1) = size' /\ SectionsAt(1) \in Nat
      /\ CellsAt(Pieces + 1) <= SectionsAt(1)
  BY <1>1, <1>3, IndexOrder
<1>5. size \in Nat /\ size' \in Nat /\ size <= size'
  BY <1>2, <1>3, <1>4
<1>6. Padding = size' - size /\ Padding \in Nat
      /\ (~ (Padding > 0) => size' = size)
  <2>1. Padding = size' - size
    BY <1>1 DEF Padding
  <2> HIDE DEF Padding
  <2> QED BY <1>5, <2>1, Difference
<1>7. CASE Padding > 0
  <2> DEFINE e == PartOf("pad", 0, Padding)
  <2>1. Put("pad", 0, Padding, "sections", 1)
    BY <1>7 DEF Pad
  <2>2. "sections" \in Writing \union {"close"} /\ Padding \in Nat
    BY <1>6 DEF Writing, Indexing
  <2> HIDE DEF Padding
  <2>3. /\ UNCHANGED <<job, keyLen, valLen, place, offset, lines>>
        /\ e \in Part /\ toc' = Append(toc, e)
        /\ End \in Nat /\ End' = End + Padding
        /\ Stream' /\ Judged'
        /\ phase' = "close" => Due'
        /\ status' # "OK" => Complete'
        /\ \/ phase' = "close" /\ status' = "FAIL_TO_OUTPUT"
           \/ /\ phase' = "sections" /\ loop' = 1 /\ given' = End'
              /\ status' = "running"
    BY <1>1, <2>1, <2>2, Named, Written
  <2>4. e.start = End /\ e.len = Padding /\ e.part # "varint"
    BY DEF PartOf
  <2> HIDE DEF e
  <2>5. End' = End + e.len /\ End + e.len = SectionsAt(1) /\ size' = End'
    BY <1>2, <1>3, <1>4, <1>6, <2>3, <2>4
  <2>6. Layout'
    <3>1. /\ End + e.len <= ContentAt
          /\ \A i \in 1 .. Pieces : /\ CellsAt(i) < End
                                    /\ End + e.len <= SectionsAt(i)
      <4>1. ASSUME NEW i \in 1 .. Pieces
            PROVE  CellsAt(i) < End /\ End + e.len <= SectionsAt(i)
        <5>1. /\ CellsAt(i) < CellsAt(i + 1)
              /\ CellsAt(i + 1) <= CellsAt(Pieces + 1)
              /\ CellsAt(i) \in Nat /\ CellsAt(i + 1) \in Nat
              /\ SectionsAt(1) <= SectionsAt(i)
          BY <1>1, IndexOrder
        <5> QED BY <1>3, <2>3, <2>5, <5>1
      <4>2. End + e.len <= ContentAt
        BY <1>1, <2>5, IndexOrder
      <4> QED BY <4>1, <4>2
    <3> QED BY <1>1, <2>3, <2>4, <2>5, <3>1, IndexLayout
  <2>7. Due'
    <3> SUFFICES ASSUME phase' = "sections", loop' = 1, given' = End'
                 PROVE  Due'
      BY <2>3
    <3>1. SectionsAt(loop)' = SectionsAt(1)
      BY <2>3, Same
    <3>2. End' = SectionsAt(loop)'
      BY <2>5, <3>1
    <3> QED BY <2>5, <3>2 DEF Due
  <2>8. Complete'
    BY <2>3
  <2> QED BY <2>3, <2>6, <2>7, <2>8 DEF LayInv
<1>8. CASE ~ (Padding > 0)
  <2>1. /\ phase' = "sections" /\ status' = status
        /\ UNCHANGED <<job, keyLen, valLen, place, loop, lines, toc, attached,
                       given, stored>>
    BY <1>8 DEF Pad, Continue, inert, buildVars, writerVars
  <2>2. size' = size
    BY <1>6, <1>8
  <2>3. Layout' /\ End' = End
    BY <1>1, <2>1, LayoutSame
  <2>4. SectionsAt(loop)' = SectionsAt(1)
    BY <1>2, <2>1, Same
  <2>5. Due'
    BY <1>3, <1>4, <2>1, <2>2, <2>3, <2>4 DEF Due
  <2>6. Stream'
    BY <1>1, <2>1, <2>3 DEF Stream, Early
  <2>7. Judged' /\ Complete'
    BY <1>1, <1>2, <2>1 DEF Judged, Complete
  <2> QED BY <2>3, <2>5, <2>6, <2>7 DEF LayInv
<1> QED BY <1>7, <1>8

(* The sections of a piece are laid where the loader takes them to be.     *)
LEMMA SectionsLay ==
  ASSUME Narrow, TypeInv, LayInv, Sections
  PROVE  LayInv'
<1> DEFINE sz == SectionSize(job.pieces[loop]) * SectionBytes
           ph == IF loop < Pieces THEN "sections" ELSE AfterIndex
           k == IF loop < Pieces THEN loop + 1 ELSE 1
           e == PartOf("sections", loop, sz)
<1>1. /\ phase = "sections" /\ phase \in Writing /\ job \in Jobs
      /\ Put("sections", loop, sz, ph, k) /\ size' = size + sz
      /\ Due /\ Stream /\ Layout /\ Judged
  BY DEF Sections, Writing, Indexing, LayInv, TypeInv
<1>2. loop \in 1 .. Pieces /\ Pieces \in Nat /\ loop \in Nat /\ size \in Nat
      /\ offset = 0 /\ Detected
  <2>1. Ready(phase, loop) /\ Pieces \in Nat /\ size \in Nat /\ Detected
    BY <1>1, WritingTypes
  <2>2. offset = 0
    BY <1>1 DEF TypeInv, Control, Indexing
  <2> QED BY <1>1, <2>1, <2>2 DEF Ready
<1>3. ph \in Writing \union {"close"} /\ sz \in Nat
  BY <1>1, <1>2, PieceSizes DEF Writing, Indexing, Filling, AfterIndex
<1>4. /\ UNCHANGED <<job, keyLen, valLen, place, offset, lines>>
      /\ e \in Part /\ toc' = Append(toc, e) /\ toc' # <<>>
      /\ End \in Nat /\ End' = End + sz
      /\ Stream' /\ Judged'
      /\ phase' = "close" => Due'
      /\ status' # "OK" => Complete'
      /\ \/ phase' = "close" /\ status' = "FAIL_TO_OUTPUT"
         \/ /\ phase' = ph /\ loop' = k /\ given' = End'
            /\ ph = "close" => status' = "OK"
            /\ ph # "close" => status' = "running"
  <2> HIDE DEF ph, k, sz
  <2> QED BY <1>1, <1>2, <1>3, Named, Written
<1>5. End = SectionsAt(loop) /\ size = End
  BY <1>1 DEF Due
<1>6. /\ e.start = End /\ e.len = sz /\ e.part # "varint"
      /\ e.part = "sections" /\ e.of = loop
  BY DEF PartOf
<1> HIDE DEF e, sz
<1>7. End' = End + e.len /\ End + e.len = SectionsAt(loop + 1) /\ size' = End'
  <2>1. SectionsAt(loop + 1) = SectionsAt(loop) + sz
    BY <1>1, <1>2, IndexOrder DEF sz
  <2> QED BY <1>1, <1>4, <1>5, <1>6, <2>1
<1>8. Layout'
  <2>1. End + e.len <= ContentAt
    BY <1>1, <1>2, <1>7, IndexOrder
  <2>2. ASSUME NEW i \in 1 .. Pieces
        PROVE  /\ \/ SectionsAt(i) < End \/ End + e.len <= SectionsAt(i)
                  \/ SectionsAt(i) = End /\ e.part = "sections" /\ e.of = i
               /\ CellsAt(i) < End
    <3>1. CellsAt(i) < End
      <4>1. /\ CellsAt(i) < CellsAt(i + 1)
            /\ CellsAt(i + 1) <= CellsAt(Pieces + 1)
            /\ CellsAt(Pieces + 1) <= SectionsAt(1)
            /\ SectionsAt(1) <= SectionsAt(loop)
            /\ CellsAt(i) \in Nat /\ CellsAt(i + 1) \in Nat
            /\ CellsAt(Pieces + 1) \in Nat /\ SectionsAt(1) \in Nat
        BY <1>1, <1>2, IndexOrder
      <4> QED BY <1>4, <1>5, <4>1
    <3>2. CASE i < loop
      <4>1. /\ SectionsAt(i) < SectionsAt(i + 1)
            /\ SectionsAt(i + 1) <= SectionsAt(loop)
            /\ SectionsAt(i) \in Nat /\ SectionsAt(i + 1) \in Nat
        BY <1>1, <1>2, <3>2, IndexOrder
      <4>2. SectionsAt(i) < End
        BY <1>4, <1>5, <4>1
      <4> QED BY <3>1, <4>2
    <3>3. CASE loop < i
      <4>1. SectionsAt(loop + 1) <= SectionsAt(i)
        BY <1>1, <1>2, <3>3, IndexOrder
      <4> QED BY <1>7, <3>1, <4>1
    <3>4. CASE i = loop
      BY <1>5, <1>6, <3>1, <3>4
    <3>5. i < loop \/ i = loop \/ loop < i
      BY <1>2
    <3> QED BY <3>2, <3>3, <3>4, <3>5
  <2> QED BY <1>1, <1>4, <1>6, <1>7, <2>1, <2>2, IndexLayout
<1>9. /\ Pieces' = Pieces /\ (Separated' <=> Separated)
      /\ ContentAt' = ContentAt /\ ExtendAt' = ExtendAt
      /\ \A i : SectionsAt(i)' = SectionsAt(i)
  BY <1>4, Same
<1>10. ~ (loop < Pieces) => End' = ContentAt'
  <2>1. ASSUME ~ (loop < Pieces) PROVE End' = ContentAt
    <3>1. loop + 1 = Pieces + 1
      BY <1>2, <2>1
    <3>2. SectionsAt(loop + 1) = ContentAt
      BY <1>1, <3>1, IndexOrder
    <3> QED BY <1>7, <3>2
  <2> QED BY <1>9, <2>1
<1>11. Due'
  <2> SUFFICES ASSUME phase' = ph, loop' = k, given' = End', ph # "close"
               PROVE  Due'
    BY <1>4
  <2>1. CASE loop < Pieces
    <3>1. phase' = "sections" /\ SectionsAt(loop)' = SectionsAt(loop + 1)
      BY <1>9, <2>1
    <3>2. End' = SectionsAt(loop)' /\ size' = End'
      BY <1>7, <3>1
    <3> QED BY <3>1, <3>2 DEF Due
  <2>2. CASE ~ (loop < Pieces)
    <3>1. phase' = "fill" /\ loop' = 1 /\ offset' = 0
      BY <1>2, <1>4, <2>2 DEF AfterIndex
    <3>2. Spaced(loop - 1)'
      <4>1. loop' - 1 = 0 /\ ~ (0 >= 1) /\ 1 .. 0 = {} /\ 1 .. 0 - 1 = {}
        BY <3>1
      <4> QED BY <4>1 DEF Spaced
    <3> QED BY <1>10, <2>2, <3>1, <3>2 DEF Due
  <2> QED BY <2>1, <2>2
<1>12. Complete'
  <2> SUFFICES ASSUME phase' = ph, given' = End', ph = "close" PROVE Complete'
    BY <1>4
  <2>1. ~ (loop < Pieces) /\ job.type = "INDEX_ONLY"
    BY DEF AfterIndex
  <2>2. ExtendAt = ContentAt /\ ~ Separated
    BY <1>2, <2>1, ExtendFacts DEF Separated
  <2>3. End' = ExtendAt' /\ ~ Separated'
    BY <1>9, <1>10, <2>1, <2>2
  <2>4. phase' \in After
    BY DEF After
  <2> QED BY <1>4, <2>3, <2>4 DEF Complete
<1> QED BY <1>4, <1>8, <1>11, <1>12 DEF LayInv

(* Steps that leave the index alone.                                       *)
LEMMA SameIndex ==
  ASSUME UNCHANGED <<job, keyLen, valLen, toc>>
  PROVE  /\ Items' = Items /\ Pieces' = Pieces
         /\ Separated' <=> Separated
         /\ End' = End
         /\ ContentAt' = ContentAt /\ ExtendAt' = ExtendAt
         /\ IndexLaid' <=> IndexLaid
         /\ ContentLaid' <=> ContentLaid
<1>1. /\ Items' = Items /\ Pieces' = Pieces /\ LineSize' = LineSize
      /\ Separated' <=> Separated
  BY DEF Items, Pieces, LineSize, Separated
<1>2. \A i : CellsAt(i)' = CellsAt(i)
  BY <1>1, Zenon DEF CellsAt
<1>3. \A i : SectionsAt(i)' = SectionsAt(i)
  BY <1>1, <1>2, Zenon DEF SectionsAt
<1>4. ContentAt' = ContentAt
  BY <1>1, <1>3 DEF ContentAt
<1>5. ExtendAt' = ExtendAt
  BY <1>1, <1>4 DEF ExtendAt
<1>6. End' = End
  BY DEF End
<1>7. IndexLaid' <=> IndexLaid
  <2>1. ASSUME NEW i
        PROVE  /\ Laid("cells", i, CellsAt(i))'
                    <=> Laid("cells", i, CellsAt(i))
               /\ Laid("sections", i, SectionsAt(i))'
                    <=> Laid("sections", i, SectionsAt(i))
    BY <1>2, <1>3, <1>6 DEF Laid, WrittenAt
  <2> QED BY <1>1, <2>1 DEF IndexLaid
<1>8. ContentLaid' <=> ContentLaid
  BY <1>4, <1>6 DEF ContentLaid, Laid, WrittenAt
<1> QED BY <1>1, <1>4, <1>5, <1>6, <1>7, <1>8

(* A record that fits takes a byte or more among the values.               *)
LEMMA StepPositive ==
  ASSUME Separated, NEW m, Fits(m), NEW i \in 1 .. m
  PROVE  OffsetStep(job.records[i]) \in Nat /\ OffsetStep(job.records[i]) >= 1
<1> DEFINE w == job.records[i].vlen  s == VarIntSize(w)
<1>1. w \in 0 .. MaxValueLen
  BY DEF Fits
<1>2. w \in Nat
  <2>1. ValueDigits \in 1 .. ValueDigits
    BY ParamAssumption
  <2>2. MaxValueLen \in Nat
    BY <2>1, PowerAssumption DEF MaxValueLen
  <2> QED BY <1>1, <2>2
<1>3. s \in Nat /\ s >= 1
  <2> HIDE DEF w
  <2> QED BY <1>2, VarIntSeq DEF VarIntSize
<1>4. OffsetStep(job.records[i]) = s + w
  BY DEF OffsetStep
<1> HIDE DEF w, s
<1> QED BY <1>2, <1>3, <1>4

(* The next line keeps the room of those before it.                        *)
LEMMA SpacedNext ==
  ASSUME TypeInv, Separated, FillLine, ~ Unfit(job.records[loop]),
         Fits(loop - 1), Spaced(loop - 1),
         offset = IF loop = 1 THEN 0 ELSE Past(loop - 1),
         NEW m \in Nat, m = loop
  PROVE  /\ Spaced(m)'
         /\ offset' = Past(m)'
<1>1. /\ m \in 1 .. Items
      /\ \A i \in 1 .. Items :
           Line(i)' = IF i = m THEN offset ELSE Line(i)
      /\ offset' = offset + OffsetStep(job.records[m])
      /\ UNCHANGED <<job, place>>
  BY FillDoes
<1>2. Items \in Nat /\ offset \in Nat
  BY JobTypes DEF TypeInv, TypeOK
<1> DEFINE step(i) == OffsetStep(job.records[i])
<1>3. \A i \in 1 .. m - 1 : step(i) \in Nat /\ step(i) >= 1
  BY StepPositive
<1>4. \A i : Past(i) = Line(i) + step(i) /\ Past(i)' = Line(i)' + step(i)
  BY <1>1 DEF Past
<1> HIDE DEF step
<1>5. \A i \in 1 .. m - 1 : /\ i \in 1 .. Items /\ i # m
                            /\ Line(i)' = Line(i) /\ Past(i)' = Past(i)
  BY <1>1, <1>2, <1>4
<1>6. Line(m)' = offset
  BY <1>1
<1>7. /\ m - 1 >= 1 => Line(1) = 0
      /\ \A i \in 1 .. m - 1 : Line(i) \in Nat /\ Line(i) >= i - 1
      /\ \A i \in 1 .. (m - 1) - 1 : Line(i + 1) = Past(i)
      /\ \A i, k \in 1 .. m - 1 : i < k => Past(i) <= Line(k)
      /\ offset = IF m = 1 THEN 0 ELSE Past(m - 1)
  BY DEF Spaced
<1>8. \A i \in 1 .. m - 1 : Past(i) \in Nat /\ Past(i) >= i
      /\ Past(i) > Line(i)
  BY <1>3, <1>4, <1>7
<1>9. m > 1 => /\ m - 1 \in 1 .. m - 1 /\ m - 1 >= 1 /\ 1 \in 1 .. m - 1
               /\ offset = Past(m - 1)
  BY <1>7
<1>10. Line(1)' = 0
  <2>1. CASE m = 1
    BY <1>6, <1>7, <2>1
  <2>2. CASE m > 1
    BY <1>5, <1>7, <1>9, <2>2
  <2> QED BY <1>1, <2>1, <2>2
<1>11. ASSUME NEW i \in 1 .. m
       PROVE  Line(i)' \in Nat /\ Line(i)' >= i - 1
  <2>1. CASE i \in 1 .. m - 1
    BY <1>5, <1>7, <2>1
  <2>2. CASE i = m /\ m = 1
    BY <1>6, <1>7, <2>2
  <2>3. CASE i = m /\ m > 1
    <3>1. Past(m - 1) \in Nat /\ Past(m - 1) >= m - 1
      BY <1>8, <1>9, <2>3
    <3>2. Line(i)' = Past(m - 1)
      BY <1>6, <1>9, <2>3
    <3> QED BY <2>3, <3>1, <3>2
  <2>4. i \in 1 .. m - 1 \/ (i = m /\ m = 1) \/ (i = m /\ m > 1)
    BY <1>1
  <2> QED BY <2>1, <2>2, <2>3, <2>4
<1>12. ASSUME NEW i \in 1 .. m - 1
       PROVE  Line(i + 1)' = Past(i)'
  <2>1. CASE i + 1 = m
    <3>1. m > 1 /\ i = m - 1
      BY <2>1, <1>12
    <3> QED BY <1>5, <1>6, <1>9, <2>1, <3>1
  <2>2. CASE i + 1 # m
    <3>1. i \in 1 .. (m - 1) - 1 /\ i + 1 \in 1 .. m - 1
      BY <1>12, <2>2
    <3> QED BY <1>5, <1>7, <3>1
  <2> QED BY <2>1, <2>2
<1>13. ASSUME NEW i \in 1 .. m, NEW k \in 1 .. m, i < k
       PROVE  Past(i)' <= Line(k)'
  <2>1. i \in 1 .. m - 1
    BY <1>13
  <2>2. CASE k = m
    <3>1. m > 1 /\ Line(k)' = Past(m - 1) /\ Past(i)' = Past(i)
      BY <1>5, <1>6, <1>9, <1>13, <2>1, <2>2
    <3>2. CASE i = m - 1
      <4>1. Past(i) \in Nat
        BY <1>8, <2>1
      <4> QED BY <3>1, <3>2, <4>1
    <3>3. CASE i # m - 1
      <4>1. i < m - 1 /\ m - 1 \in 1 .. m - 1
        BY <1>9, <2>1, <3>1, <3>3
      <4>2. /\ Past(i) <= Line(m - 1) /\ Line(m - 1) < Past(m - 1)
            /\ Past(i) \in Nat /\ Line(m - 1) \in Nat /\ Past(m - 1) \in Nat
        BY <1>7, <1>8, <2>1, <4>1
      <4> QED BY <3>1, <4>2
    <3> QED BY <3>2, <3>3
  <2>3. CASE k # m
    <3>1. k \in 1 .. m - 1
      BY <1>13, <2>3
    <3> QED BY <1>5, <1>7, <1>13, <2>1, <3>1
  <2> QED BY <2>2, <2>3
<1>14. Spaced(m)'
  BY <1>10, <1>11, <1>12, <1>13 DEF Spaced
<1>15. offset' = Past(m)'
  <2>1. Past(m)' = Line(m)' + step(m)
    BY <1>4
  <2> QED BY <1>1, <1>6, <2>1 DEF step
<1> QED BY <1>14, <1>15

(* A line that is filled has its offset where the one before ends.         *)
LEMMA FillLays ==
  ASSUME Narrow, TypeInv, LayInv, FillLine
  PROVE  LayInv'
<1>1. /\ phase = "fill" /\ phase \in Writing /\ job \in Jobs
      /\ Due /\ Stream /\ Layout /\ Judged /\ Complete
  BY DEF FillLine, Writing, Filling, LayInv, TypeInv
<1>2. /\ UNCHANGED <<job, attached, keyLen, valLen, place, toc, given, stored>>
  BY DEF FillLine, inert, buildVars, writerVars
<1>3. /\ Ready(phase, loop) /\ Detected /\ status = "running"
  BY <1>1, WritingTypes
<1>4. attached = "none"
  <2>1. phase \notin {"loaded", "rejected"}
    BY <1>1
  <2> QED BY <1>1, <2>1 DEF Judged
<1>5. /\ Items' = Items /\ (Separated' <=> Separated)
      /\ End' = End /\ ContentAt' = ContentAt /\ ExtendAt' = ExtendAt
      /\ (IndexLaid' <=> IndexLaid) /\ (ContentLaid' <=> ContentLaid)
  BY <1>2, SameIndex
<1>6. End = ContentAt /\ given = End
  BY <1>1 DEF Due
<1>7. Layout'
  <2>1. IndexLaid' /\ ContentLaid'
    BY <1>1, <1>5 DEF Layout
  <2>2. ContentAt \in Nat /\ ExtendAt \in Nat /\ ContentAt <= ExtendAt
    BY ExtendFacts
  <2>3. ~ (End > ContentAt) /\ ~ (End' > ContentAt') /\ End' <= ExtendAt'
    BY <1>5, <1>6, <2>2
  <2>4. Reach' /\ ValuesLaid'
    BY <2>3 DEF Reach, ValuesLaid
  <2>5. \A c \in DOMAIN toc : toc[c].part # "varint"
    BY <1>1, <2>3 DEF Layout, VarIntsLaid
  <2>6. VarIntsLaid'
    BY <1>2, <2>5 DEF VarIntsLaid
  <2> QED BY <2>1, <2>4, <2>6 DEF Layout
<1>8. CASE Unfit(job.records[loop])
  <2>1. phase' = "close" /\ status' \in {"FAIL_TO_OUTPUT", "BAD_INPUT"}
    BY <1>8 DEF FillLine, Return
  <2>2. phase' \notin Writing /\ phase' \notin Early /\ phase \notin Early
    BY <1>1, <2>1 DEF Writing, Indexing, Filling, Early
  <2>3. Due' /\ Complete'
    BY <2>1, <2>2 DEF Due, Complete
  <2>4. Stream'
    BY <1>1, <1>2, <1>5, <2>2 DEF Stream
  <2>5. Judged'
    BY <1>2, <1>4, <2>1 DEF Judged
  <2> QED BY <1>7, <2>3, <2>4, <2>5 DEF LayInv
<1>9. CASE ~ Unfit(job.records[loop])
  <2>1. /\ loop \in 1 .. Items /\ loop \in Nat /\ loop' = loop + 1
        /\ phase' = phase /\ status' = status
    BY <1>9, FillDoes
  <2>2. phase' \notin Early
    BY <1>1, <2>1 DEF Early
  <2>3. Stream' /\ Complete'
    BY <1>1, <1>2, <1>3, <1>5, <2>1, <2>2 DEF Stream, Complete
  <2>4. Judged'
    BY <1>1, <1>2, <1>4, <2>1 DEF Judged
  <2>5. PICK m \in Nat : m = loop
    BY <2>1
  <2>6. Separated => Spaced(m)' /\ offset' = Past(m)'
    <3>1. /\ Separated => Spaced(loop - 1)
          /\ Separated => offset = IF loop = 1 THEN 0 ELSE Past(loop - 1)
      BY <1>1 DEF Due
    <3>2. Fits(loop - 1)
      BY <1>1, <1>3 DEF Ready
    <3> QED BY <1>9, <2>5, <3>1, <3>2, SpacedNext
  <2>7. /\ loop' - 1 = m /\ loop' # 1
    BY <2>1, <2>5
  <2>8. Separated' => Spaced(loop - 1)' /\ offset' = Past(loop - 1)'
    BY <1>5, <2>6, <2>7
  <2>9. Due'
    BY <1>1, <1>2, <1>5, <1>6, <2>1, <2>7, <2>8 DEF Due
  <2> QED BY <1>7, <2>3, <2>4, <2>9 DEF LayInv
<1> QED BY <1>8, <1>9

(* The layout after a part that follows the index.                         *)
LEMMA BeyondLayout ==
  ASSUME Narrow, TypeInv, Layout, NEW e \in Part, toc' = Append(toc, e),
         e.start = End, End' = End + e.len,
         UNCHANGED <<job, keyLen, valLen, place, lines>>,
         job.type # "INDEX_ONLY", Filled(Items),
         ContentAt <= End, ContentAt < End + e.len,
         ContentAt < End \/ (e.part = "content" /\ e.of = 0),
         ~ Separated => End + e.len <= ExtendAt,
         Separated => \A i \in 1 .. Items :
           /\ \/ At(i) < End \/ End + e.len <= At(i)
              \/ At(i) = End /\ e.part = "varint" /\ e.of = i
           /\ job.records[i].vlen # 0 =>
                \/ ValueAt(i) < End \/ End + e.len <= ValueAt(i)
                \/ ValueAt(i) = End /\ e.part = "value" /\ e.of = i,
         e.part = "varint" =>
           /\ Separated /\ e.of \in 1 .. Items /\ End = At(e.of)
           /\ e.len = VarIntSize(job.records[e.of].vlen)
  PROVE  Layout'
<1>1. job \in Jobs /\ toc \in Seq(Part)
  BY DEF TypeInv
<1>2. End \in Nat /\ e.len \in Nat
  BY <1>1, EndTypesOf DEF Part
<1>3. /\ Items' = Items /\ Pieces' = Pieces /\ job' = job
      /\ ContentAt' = ContentAt /\ ExtendAt' = ExtendAt
      /\ (Separated' <=> Separated)
      /\ \A i : CellsAt(i)' = CellsAt(i) /\ SectionsAt(i)' = SectionsAt(i)
      /\ \A i : At(i)' = At(i) /\ ValueAt(i)' = ValueAt(i)
      /\ \A m : (Fits(m)' <=> Fits(m)) /\ (Spaced(m)' <=> Spaced(m))
  BY Same
<1>4. /\ WrittenAt(e.part, e.of, e.start)'
      /\ \A part, of, x : WrittenAt(part, of, x) => WrittenAt(part, of, x)'
  BY <1>1, Appended
<1>5. ContentAt \in Nat /\ ExtendAt \in Nat /\ ExtendAt >= ContentAt
  BY ExtendFacts
<1>6. IndexLaid'
  <2>1. ASSUME NEW i \in 1 .. Pieces
        PROVE  Laid("cells", i, CellsAt(i))'
               /\ Laid("sections", i, SectionsAt(i))'
    <3>1. /\ CellsAt(i) < CellsAt(i + 1)
               /\ CellsAt(i + 1) <= CellsAt(Pieces + 1)
          /\ CellsAt(Pieces + 1) <= SectionsAt(1) /\ SectionsAt(1) <= ContentAt
          /\ SectionsAt(i) < SectionsAt(i + 1)
               /\ SectionsAt(i + 1) <= ContentAt
          /\ CellsAt(i) \in Nat /\ CellsAt(i + 1) \in Nat
          /\ CellsAt(Pieces + 1) \in Nat /\ SectionsAt(1) \in Nat
          /\ SectionsAt(i) \in Nat /\ SectionsAt(i + 1) \in Nat
      BY <1>1, IndexOrder
    <3>2. ~ (End <= CellsAt(i)) /\ ~ (End <= SectionsAt(i))
      BY <1>2, <1>5, <3>1
    <3>3. /\ WrittenAt("cells", i, CellsAt(i))
          /\ WrittenAt("sections", i, SectionsAt(i))
      BY <3>2 DEF Layout, IndexLaid, Laid
    <3>4. PICK x : x = CellsAt(i)
      OBVIOUS
    <3>5. PICK y : y = SectionsAt(i)
      OBVIOUS
    <3>6. WrittenAt("cells", i, x)' /\ WrittenAt("sections", i, y)'
      BY <1>4, <3>3, <3>4, <3>5
    <3>7. CellsAt(i)' = x /\ SectionsAt(i)' = y
      BY <1>3, <3>4, <3>5
    <3> QED BY <3>6, <3>7 DEF Laid, WrittenAt
  <2> QED BY <1>3, <2>1 DEF IndexLaid
<1>7. ContentLaid'
  <2>1. PICK x : x = ContentAt
    OBVIOUS
  <2>2. WrittenAt("content", 0, x)'
    <3>1. CASE ContentAt < End
      <4>1. ~ (End <= ContentAt)
        BY <1>2, <1>5, <3>1
      <4>2. WrittenAt("content", 0, x)
        BY <2>1, <4>1 DEF Layout, ContentLaid, Laid
      <4> QED BY <1>4, <4>2
    <3>2. CASE ~ (ContentAt < End)
      <4>1. x = e.start /\ e.part = "content" /\ e.of = 0
        BY <1>2, <1>5, <2>1, <3>2
      <4> QED BY <1>4, <4>1
    <3> QED BY <3>1, <3>2
  <2>3. ContentAt' = x
    BY <1>3, <2>1
  <2> QED BY <2>2, <2>3 DEF ContentLaid, Laid, WrittenAt
<1>8. End' > ContentAt'
  BY <1>2, <1>3, <1>5
<1>9. Reach'
  <2>1. Filled(Items)'
    BY <1>3 DEF Filled
  <2>2. job'.type # "INDEX_ONLY"
    BY <1>3
  <2>3. ~ Separated' => End' <= ExtendAt'
    BY <1>3
  <2> QED BY <2>1, <2>2, <2>3 DEF Reach
<1>10. ValuesLaid'
  <2> SUFFICES ASSUME Separated, NEW i \in 1 .. Items
               PROVE  /\ Laid("varint", i, At(i))'
                      /\ job.records[i].vlen # 0 =>
                           Laid("value", i, ValueAt(i))'
    BY <1>3 DEF ValuesLaid
  <2>1. /\ At(i) \in Nat /\ ValueAt(i) \in Nat /\ At(i) < ValueAt(i)
        /\ At(i) = ExtendAt + Line(i) /\ Line(i) \in Nat
    BY SpacedFacts DEF Filled
  <2>2. At(i) >= ContentAt /\ ValueAt(i) >= ContentAt
    BY <1>5, <2>1
  <2>3. PICK x : x = At(i)
    OBVIOUS
  <2>4. PICK y : y = ValueAt(i)
    OBVIOUS
  <2>5. At(i)' = x /\ ValueAt(i)' = y
    BY <1>3, <2>3, <2>4
  <2>6. /\ At(i) < End => WrittenAt("varint", i, x)
        /\ job.records[i].vlen # 0 /\ ValueAt(i) < End =>
             WrittenAt("value", i, y)
    <3>1. At(i) < End \/ ValueAt(i) < End => End > ContentAt
      BY <1>2, <1>5, <2>1, <2>2
    <3>2. End > ContentAt =>
            /\ Laid("varint", i, x)
            /\ job.records[i].vlen # 0 => Laid("value", i, y)
      BY <2>3, <2>4 DEF Layout, ValuesLaid
    <3>3. /\ At(i) < End => ~ (End <= x)
          /\ ValueAt(i) < End => ~ (End <= y)
      BY <1>2, <2>1, <2>3, <2>4
    <3> QED BY <3>1, <3>2, <3>3 DEF Laid
  <2>7. WrittenAt("varint", i, x)' \/ End' <= x
    <3>1. \/ At(i) < End \/ End' <= x
          \/ x = e.start /\ e.part = "varint" /\ e.of = i
      BY <2>3
    <3> QED BY <1>4, <2>6, <3>1
  <2>8. job.records[i].vlen # 0 => WrittenAt("value", i, y)' \/ End' <= y
    <3> SUFFICES ASSUME job.records[i].vlen # 0
                 PROVE  WrittenAt("value", i, y)' \/ End' <= y
      OBVIOUS
    <3>1. \/ ValueAt(i) < End \/ End' <= y
          \/ y = e.start /\ e.part = "value" /\ e.of = i
      BY <2>4
    <3> QED BY <1>4, <2>6, <3>1
  <2> QED BY <2>5, <2>7, <2>8 DEF Laid, WrittenAt
<1>11. VarIntsLaid'
  <2>1. \A c \in DOMAIN toc' :
          toc'[c] = e \/ (c \in DOMAIN toc /\ toc'[c] = toc[c])
    <3>1. /\ Len(toc) \in Nat /\ DOMAIN toc = 1 .. Len(toc)
          /\ DOMAIN toc' = 1 .. Len(toc) + 1 /\ toc'[Len(toc) + 1] = e
          /\ \A c \in DOMAIN toc : toc'[c] = toc[c]
      BY <1>1, Appended
    <3> QED BY <3>1
  <2> SUFFICES ASSUME NEW c \in DOMAIN toc', toc'[c].part = "varint"
               PROVE  /\ Separated /\ toc'[c].of \in 1 .. Items
                      /\ toc'[c].start = At(toc'[c].of)
                      /\ toc'[c].len = VarIntSize(job.records[toc'[c].of].vlen)
    BY <1>3, <1>8 DEF VarIntsLaid
  <2>2. CASE toc'[c] = e
    BY <2>2
  <2>3. CASE c \in DOMAIN toc /\ toc'[c] = toc[c]
    BY <2>3 DEF Layout, VarIntsLaid
  <2> QED BY <2>1, <2>2, <2>3
<1> QED BY <1>6, <1>7, <1>9, <1>10, <1>11 DEF Layout

(* The lines are laid, all filled.                                         *)
LEMMA ContentLays ==
  ASSUME Narrow, TypeInv, LayInv, Content
  PROVE  LayInv'
<1> DEFINE ph == IF job.type = "KV_SEPARATED" THEN "varint" ELSE "close"
           sz == Items * LineSize
           e == PartOf("content", 0, sz)
<1>1. /\ phase = "fill" /\ phase \in Writing /\ job \in Jobs /\ loop > Items
      /\ Put("content", 0, sz, ph, 1) /\ size' = size
      /\ Due /\ Stream /\ Layout /\ Judged
  BY DEF Content, Writing, Filling, LayInv, TypeInv
<1>2. /\ Ready(phase, loop) /\ Items \in Nat /\ Items >= 1 /\ Detected
  BY <1>1, WritingTypes
<1>3. loop = Items + 1 /\ Fits(Items) /\ job.type # "INDEX_ONLY"
  <2>1. loop \in 1 .. Items + 1 /\ Fits(loop - 1) /\ job.type # "INDEX_ONLY"
    BY <1>1, <1>2 DEF Ready, Filling
  <2>2. loop = Items + 1 /\ loop - 1 = Items
    BY <1>1, <1>2, <2>1
  <2> QED BY <2>1, <2>2
<1>4. /\ ContentAt \in Nat /\ ExtendAt \in Nat /\ sz \in Nat
      /\ ExtendAt = ContentAt + sz /\ ExtendAt > ContentAt
  BY <1>2, <1>3, ExtendFacts
<1>5. ph \in Writing \union {"close"} /\ (ph = "close" <=> ~ Separated)
      /\ (ph # "close" => ph = "varint")
  BY DEF Writing, Filling, Separated
<1>6. /\ UNCHANGED <<job, keyLen, valLen, place, offset, lines>>
      /\ e \in Part /\ toc' = Append(toc, e) /\ toc' # <<>>
      /\ End \in Nat /\ End' = End + sz
      /\ Stream' /\ Judged'
      /\ phase' = "close" => Due'
      /\ status' # "OK" => Complete'
      /\ \/ phase' = "close" /\ status' = "FAIL_TO_OUTPUT"
         \/ /\ phase' = ph /\ loop' = 1 /\ given' = End'
            /\ ph = "close" => status' = "OK"
            /\ ph # "close" => status' = "running"
  <2> HIDE DEF ph, sz
  <2> QED BY <1>1, <1>4, <1>5, Named, Written
<1>7. /\ e.start = End /\ e.len = sz /\ e.part = "content" /\ e.of = 0
  BY DEF PartOf
<1> HIDE DEF e, sz, ph
<1>8. End = ContentAt /\ Filled(Items)
  <2>1. loop - 1 = Items
    BY <1>2, <1>3
  <2>2. End = ContentAt /\ (Separated => Spaced(Items))
    BY <1>1, <2>1 DEF Due
  <2> QED BY <1>3, <2>2 DEF Filled
<1>9. End' = ExtendAt /\ End + e.len = ExtendAt /\ End' = End + e.len
  BY <1>4, <1>6, <1>7, <1>8
<1>10. ASSUME Separated, NEW i \in 1 .. Items
       PROVE  /\ At(i) \in Nat /\ ExtendAt <= At(i) /\ ExtendAt <= ValueAt(i)
              /\ i = 1 => At(i) = ExtendAt
  <2>1. /\ At(i) \in Nat /\ ValueAt(i) \in Nat /\ At(i) < ValueAt(i)
        /\ At(i) = ExtendAt + Line(i) /\ Line(i) \in Nat
        /\ i = 1 => At(i) = ExtendAt
    BY <1>8, <1>10, SpacedFacts DEF Filled
  <2> QED BY <1>4, <2>1
<1>11. Layout'
  <2>1. ContentAt <= End /\ ContentAt < End + e.len /\ End + e.len <= ExtendAt
        /\ e.part # "varint"
    BY <1>4, <1>7, <1>8, <1>9
  <2>2. Separated => \A i \in 1 .. Items : /\ End + e.len <= At(i)
                                           /\ End + e.len <= ValueAt(i)
    BY <1>9, <1>10
  <2> QED BY <1>1, <1>3, <1>6, <1>7, <1>8, <1>9, <2>1, <2>2, BeyondLayout
<1>12. /\ (Separated' <=> Separated) /\ ExtendAt' = ExtendAt
       /\ \A i : At(i)' = At(i)
  BY <1>6, Same
<1>13. Due'
  <2> SUFFICES ASSUME phase' = "varint", loop' = 1, given' = End', Separated
               PROVE  Due'
    BY <1>5, <1>6
  <2>1. At(loop)' = At(1)
    BY <1>12
  <2>2. At(1) = ExtendAt
    <3>1. 1 \in 1 .. Items
      BY <1>2
    <3> QED BY <1>10, <3>1
  <2>3. End' = At(loop)'
    BY <1>9, <2>1, <2>2
  <2> QED BY <2>3 DEF Due
<1>14. Complete'
  <2> SUFFICES ASSUME phase' = "close", given' = End', ~ Separated
               PROVE  Complete'
    BY <1>5, <1>6
  <2>1. phase' \in After /\ End' = ExtendAt' /\ ~ Separated'
    BY <1>9, <1>12 DEF After
  <2> QED BY <1>6, <2>1 DEF Complete
<1> QED BY <1>6, <1>11, <1>13, <1>14 DEF LayInv

(* Where the stream stands while the values are written.                   *)
LEMMA ValuePlace ==
  ASSUME Narrow, TypeInv, Due, Layout, phase \in {"varint", "value"}
  PROVE  /\ Filled(Items) /\ Separated /\ job.type # "INDEX_ONLY"
         /\ Items \in Nat /\ loop \in 1 .. Items /\ loop \in Nat
         /\ End \in Nat /\ ContentAt < End /\ ContentAt \in Nat
         /\ At(loop) <= End
         /\ phase = "varint" => End = At(loop)
         /\ phase = "value" =>
              End = ValueAt(loop) /\ job.records[loop].vlen # 0
<1>1. /\ phase \in Writing /\ Separated /\ job.type # "INDEX_ONLY"
      /\ Items \in Nat /\ loop \in 1 .. Items /\ loop \in Nat /\ Fits(Items)
      /\ job.records[loop].vlen \in Nat
      /\ VarIntSize(job.records[loop].vlen) \in Nat
      /\ phase = "value" => job.records[loop].vlen # 0
  BY SeparatedTypes
<1>2. /\ phase = "varint" => End = At(loop)
      /\ phase = "value" => End = ValueAt(loop)
  BY DEF Due
<1>3. ContentAt \in Nat /\ ExtendAt \in Nat /\ ContentAt < ExtendAt
  <2>1. Detected
    BY <1>1, WritingTypes
  <2> QED BY <1>1, <2>1, ExtendFacts
<1>4. Line(loop) \in Nat
  <2>1. place[loop] \in Lines /\ lines \in [Lines -> Nat \union {-1}]
    BY <1>1, WritingTypes
  <2>2. lines[place[loop]] \in Nat \union {-1}
    BY <2>1
  <2>3. Line(loop) # -1
    BY <1>1 DEF Fits
  <2> QED BY <2>2, <2>3 DEF Line
<1>5. /\ At(loop) = ExtendAt + Line(loop)
      /\ ValueAt(loop) = At(loop) + VarIntSize(job.records[loop].vlen)
  BY DEF At, ValueAt
<1>6. End = At(loop) \/ End = ValueAt(loop)
  BY <1>2
<1>7. End \in Nat /\ ContentAt < End /\ At(loop) <= End
  <2> DEFINE s == VarIntSize(job.records[loop].vlen)
  <2>1. s \in Nat /\ ValueAt(loop) = At(loop) + s
    BY <1>1, <1>5
  <2> HIDE DEF s
  <2> QED BY <1>3, <1>4, <1>5, <1>6, <2>1
<1>8. Filled(Items)
  BY <1>7 DEF Layout, Reach
<1> QED BY <1>1, <1>2, <1>3, <1>7, <1>8

(* What ends before x lies before it, and what lies after q is beyond x.   *)
LEMMA Before ==
  ASSUME NEW a \in Nat, NEW b \in Nat, NEW v \in Nat, NEW q \in Nat,
         NEW t \in Nat, NEW x \in Nat,
         a < b, q = b + v, q <= t, t <= x
  PROVE  a < x /\ (v # 0 => b < x)
OBVIOUS

(* What ends before a place ends before all that follow it.                *)
LEMMA Beyond ==
  ASSUME NEW x \in Nat, NEW q \in Nat, NEW a \in Nat, NEW b \in Nat,
         x <= q, q <= a, a < b
  PROVE  x <= a /\ x <= b
OBVIOUS

(* A length and a value are laid where the line says.                      *)
LEMMA ValueLayout ==
  ASSUME Narrow, TypeInv, Due, Layout, phase \in {"varint", "value"},
         NEW e \in Part, toc' = Append(toc, e), e.start = End,
         End' = End + e.len, UNCHANGED <<job, keyLen, valLen, place, lines>>,
         e.part = phase, e.of = loop,
         e.len = IF phase = "varint" THEN VarIntSize(job.records[loop].vlen)
                                     ELSE job.records[loop].vlen
  PROVE  /\ Layout'
         /\ phase = "varint" => End' = ValueAt(loop)
         /\ phase = "value" \/ job.records[loop].vlen = 0 =>
              End' = ExtendAt + Past(loop)
<1>1. /\ Filled(Items) /\ Separated /\ job.type # "INDEX_ONLY"
      /\ Items \in Nat /\ loop \in 1 .. Items /\ loop \in Nat
      /\ End \in Nat /\ ContentAt < End /\ ContentAt \in Nat
      /\ At(loop) <= End
      /\ phase = "varint" => End = At(loop)
      /\ phase = "value" => End = ValueAt(loop) /\ job.records[loop].vlen # 0
  BY ValuePlace
<1> DEFINE w == job.records[loop].vlen  s == VarIntSize(w)
<1>2. /\ w \in Nat /\ s \in Nat /\ At(loop) \in Nat
      /\ ValueAt(loop) = At(loop) + s /\ ValueAt(loop) \in Nat
      /\ At(loop) < ValueAt(loop)
      /\ ExtendAt + Past(loop) = ValueAt(loop) + w
      /\ \A k \in 1 .. Items : loop < k => ExtendAt + Past(loop) <= At(k)
      /\ ExtendAt \in Nat /\ Past(loop) \in Nat
  <2>1. s \in 1 .. ValueDigits /\ ValueDigits \in Nat
    BY <1>1, SpacedFacts, ParamAssumption DEF Filled
  <2>2. s \in Nat
    BY <2>1
  <2> QED BY <1>1, <2>2, SpacedFacts DEF Filled
<1>3. e.len = IF phase = "varint" THEN s ELSE w
  OBVIOUS
<1> HIDE DEF w, s
<1>4. /\ phase = "varint" => End' = ValueAt(loop)
      /\ phase = "value" => End' = ValueAt(loop) + w
  BY <1>1, <1>2, <1>3
<1>5. End + e.len = End' /\ End' <= ExtendAt + Past(loop) /\ End' \in Nat
      /\ ValueAt(loop) <= End' /\ End <= End'
  <2>1. CASE phase = "varint"
    <3>1. End' = ValueAt(loop) /\ End = At(loop)
      BY <1>1, <1>4, <2>1
    <3> QED BY <1>2, <3>1
  <2>2. CASE phase = "value"
    <3>1. End' = ValueAt(loop) + w /\ End = ValueAt(loop)
      BY <1>1, <1>4, <2>2
    <3> QED BY <1>2, <3>1
  <2> QED BY <2>1, <2>2
<1>6. ASSUME NEW i \in 1 .. Items
      PROVE  /\ \/ At(i) < End \/ End + e.len <= At(i)
                \/ At(i) = End /\ e.part = "varint" /\ e.of = i
             /\ job.records[i].vlen # 0 =>
                  \/ ValueAt(i) < End \/ End + e.len <= ValueAt(i)
                  \/ ValueAt(i) = End /\ e.part = "value" /\ e.of = i
  <2>1. /\ At(i) \in Nat /\ ValueAt(i) \in Nat /\ At(i) < ValueAt(i)
        /\ job.records[i].vlen \in Nat /\ Past(i) \in Nat
        /\ ExtendAt + Past(i) = ValueAt(i) + job.records[i].vlen
        /\ \A k \in 1 .. Items : i < k => ExtendAt + Past(i) <= At(k)
    BY <1>1, SpacedFacts DEF Filled
  <2>2. CASE i < loop
    <3>1. ExtendAt + Past(i) <= At(loop)
      BY <1>1, <2>1, <2>2
    <3> DEFINE v == job.records[i].vlen
    <3>2. v \in Nat /\ ExtendAt + Past(i) = ValueAt(i) + v
      BY <2>1
    <3> HIDE DEF v
    <3>3. ExtendAt + Past(i) \in Nat
      <4>1. ExtendAt \in Nat
        BY <1>2
      <4>2. Past(i) \in Nat
        BY <2>1
      <4> QED BY <4>1, <4>2
    <3>4. At(i) \in Nat /\ ValueAt(i) \in Nat /\ At(i) < ValueAt(i)
      BY <2>1
    <3>5. End \in Nat /\ At(loop) <= End
      BY <1>1
    <3>6. /\ At(i) \in Nat /\ ValueAt(i) \in Nat /\ At(i) < ValueAt(i)
          /\ ExtendAt + Past(i) \in Nat /\ At(loop) \in Nat /\ End \in Nat
          /\ At(loop) <= End
      BY <1>2, <3>3, <3>4, <3>5
    <3>7. At(i) < End /\ (v # 0 => ValueAt(i) < End)
      BY <3>1, <3>2, <3>6, Before
    <3> QED BY <3>7 DEF v
  <2>3. CASE loop < i
    <3>1. ExtendAt + Past(loop) <= At(i)
      BY <1>2, <2>3
    <3>2. End' <= ExtendAt + Past(loop) /\ End' \in Nat /\ End + e.len = End'
      BY <1>5
    <3>3. ExtendAt + Past(loop) \in Nat
      BY <1>2
    <3>4. At(i) \in Nat /\ ValueAt(i) \in Nat /\ At(i) < ValueAt(i)
      BY <2>1
    <3>5. End' <= At(i) /\ End' <= ValueAt(i)
      BY <3>1, <3>2, <3>3, <3>4, Beyond
    <3> QED BY <3>2, <3>5
  <2>4. CASE i = loop
    <3>1. CASE phase = "varint"
      <4>1. At(i) = End /\ End + e.len <= ValueAt(i)
        BY <1>1, <1>4, <1>5, <2>1, <2>4, <3>1
      <4> QED BY <2>4, <3>1, <4>1
    <3>2. CASE phase = "value"
      <4>1. At(i) < End /\ ValueAt(i) = End
        BY <1>1, <1>2, <2>4, <3>2
      <4> QED BY <2>4, <3>2, <4>1
    <3> QED BY <3>1, <3>2
  <2>5. i < loop \/ i = loop \/ loop < i
    BY <1>1
  <2> QED BY <2>2, <2>3, <2>4, <2>5
<1>7. e.part = "varint" =>
        /\ Separated /\ e.of \in 1 .. Items /\ End = At(e.of)
        /\ e.len = VarIntSize(job.records[e.of].vlen)
  BY <1>1
<1>8. Layout'
  <2>1. ContentAt <= End /\ ContentAt < End + e.len
    BY <1>1, <1>5
  <2> QED BY <1>1, <1>6, <1>7, <2>1, BeyondLayout
<1>9. ASSUME phase = "value" \/ w = 0 PROVE End' = ExtendAt + Past(loop)
  BY <1>2, <1>4, <1>9
<1> QED BY <1>4, <1>8, <1>9 DEF w

(* After a value, the next one is due, or all were handed over.            *)
LEMMA NextDue ==
  ASSUME Narrow, TypeInv, Due, Layout, phase \in {"varint", "value"},
         UNCHANGED <<job, keyLen, valLen, place, lines>>, toc' # <<>>,
         End' = ExtendAt + Past(loop), given' = End',
         phase' = NextValue, loop' = loop + 1,
         phase' = "close" <=> status' = "OK"
  PROVE  Due' /\ Complete'
<1>1. /\ Filled(Items) /\ Separated /\ Items \in Nat /\ loop \in 1 .. Items
      /\ loop \in Nat /\ ContentAt \in Nat
  BY ValuePlace
<1>2. /\ Items' = Items /\ (Separated' <=> Separated)
      /\ ContentAt' = ContentAt /\ ExtendAt' = ExtendAt
      /\ \A i : At(i)' = At(i) /\ Past(i)' = Past(i)
  BY Same
<1>3. CASE loop < Items
  <2>1. phase' = "varint"
    BY <1>3 DEF NextValue
  <2>2. At(loop + 1) = ExtendAt + Past(loop)
    BY <1>1, <1>3, SpacedFacts DEF Filled
  <2>3. At(loop)' = At(loop + 1)
    BY <1>2
  <2>4. Due'
    BY <2>1, <2>2, <2>3 DEF Due
  <2> QED BY <2>1, <2>4 DEF Complete
<1>4. CASE ~ (loop < Items)
  <2>1. phase' = "close" /\ loop = Items
    BY <1>1, <1>4 DEF NextValue
  <2>2. phase' \notin Writing /\ phase' \in After
    BY <2>1 DEF Writing, Indexing, Filling, After
  <2>3. Due'
    BY <2>1, <2>2 DEF Due
  <2>4. /\ Past(loop) \in Nat /\ ExtendAt \in Nat
        /\ ExtendAt + Past(loop) = ValueAt(loop) + job.records[loop].vlen
        /\ job.records[loop].vlen \in Nat /\ ValueAt(loop) \in Nat
        /\ At(loop) < ValueAt(loop) /\ At(loop) \in Nat
        /\ At(loop) = ExtendAt + Line(loop) /\ Line(loop) \in Nat
    BY <1>1, SpacedFacts DEF Filled
  <2>5. ASSUME NEW i \in 1 .. Items
        PROVE  ExtendAt + Past(i) <= End'
    <3>1. CASE i = loop
      <4>1. ExtendAt + Past(loop) \in Nat
        BY <2>4
      <4> QED BY <3>1, <4>1
    <3>2. CASE i # loop
      <4>1. i < loop
        BY <1>1, <2>1, <3>2
      <4>2. ExtendAt + Past(i) <= At(loop) /\ Past(i) \in Nat
        BY <1>1, <4>1, SpacedFacts DEF Filled
      <4>3. At(loop) <= End'
        BY <2>4
      <4> QED BY <2>4, <4>2, <4>3
    <3> QED BY <3>1, <3>2
  <2>6. End' > ContentAt'
    <3>1. ContentAt <= ExtendAt
      BY ExtendFacts
    <3>2. At(loop) < End'
      BY <2>4
    <3> QED BY <1>1, <1>2, <2>4, <3>1, <3>2
  <2>7. \A i \in 1 .. Items' : ExtendAt' + Past(i)' <= End'
    BY <1>2, <2>5
  <2> QED BY <1>1, <1>2, <2>2, <2>3, <2>6, <2>7 DEF Complete
<1> QED BY <1>3, <1>4

(* So LayInv holds after them.                                             *)
LEMMA ValuesLay ==
  ASSUME Narrow, TypeInv, LayInv, WriteVarInt \/ WriteValue
  PROVE  LayInv'
<1> DEFINE w == job.records[loop].vlen
           s == VarIntSize(w)
           sz == IF phase = "varint" THEN s ELSE w
           e == PartOf(phase, loop, sz)
           ends == phase = "value" \/ w = 0
           ph == IF ends THEN NextValue ELSE "value"
           k == IF ends THEN loop + 1 ELSE loop
<1>1. /\ phase \in {"varint", "value"} /\ job \in Jobs
      /\ Due /\ Stream /\ Layout /\ Judged
  BY DEF WriteVarInt, WriteValue, LayInv, TypeInv
<1>2. /\ phase \in Writing /\ loop \in 1 .. Items /\ loop \in Nat
      /\ w \in Nat /\ s \in Nat
  BY <1>1, SeparatedTypes
<1>3. Put(phase, loop, sz, ph, k)
  <2>1. CASE WriteVarInt
    BY <2>1 DEF WriteVarInt
  <2>2. CASE WriteValue
    BY <2>2 DEF WriteValue
  <2> QED BY <2>1, <2>2
<1>4. phase \in Names /\ sz \in Nat /\ ph \in Writing \union {"close"}
  <2>1. phase \in Names
    BY <1>1 DEF Names
  <2>2. sz \in Nat
    BY <1>2
  <2>3. ph \in Writing \union {"close"}
    BY DEF Writing, Filling, NextValue
  <2> QED BY <2>1, <2>2, <2>3
<1>5. /\ UNCHANGED <<job, keyLen, valLen, place, offset, lines>>
      /\ e \in Part /\ toc' = Append(toc, e) /\ toc' # <<>>
      /\ End \in Nat /\ End' = End + sz
      /\ Stream' /\ Judged'
      /\ phase' = "close" => Due'
      /\ status' # "OK" => Complete'
      /\ \/ phase' = "close" /\ status' = "FAIL_TO_OUTPUT"
         \/ /\ phase' = ph /\ loop' = k /\ given' = End'
            /\ ph = "close" => status' = "OK"
            /\ ph # "close" => status' = "running"
  <2> HIDE DEF ph, k, sz
  <2> QED BY <1>1, <1>2, <1>3, <1>4, Written
<1>6. /\ e.start = End /\ e.len = sz /\ e.part = phase /\ e.of = loop
  BY DEF PartOf
<1>7. sz = IF phase = "varint" THEN VarIntSize(job.records[loop].vlen)
                               ELSE job.records[loop].vlen
  OBVIOUS
<1> HIDE DEF e, sz
<1>8. /\ Layout'
      /\ phase = "varint" => End' = ValueAt(loop)
      /\ ends => End' = ExtendAt + Past(loop)
  BY <1>1, <1>5, <1>6, <1>7, ValueLayout
<1>9. CASE phase' = "close" /\ status' = "FAIL_TO_OUTPUT"
  BY <1>5, <1>8, <1>9 DEF LayInv
<1>10. CASE /\ phase' = ph /\ loop' = k /\ given' = End' /\ ends
            /\ ph = "close" => status' = "OK"
            /\ ph # "close" => status' = "running"
  <2>1. phase' = NextValue /\ loop' = loop + 1 /\ End' = ExtendAt + Past(loop)
    BY <1>8, <1>10
  <2>2. phase' = "close" <=> status' = "OK"
    <3> HIDE DEF ph, k, ends
    <3> QED BY <1>10
  <2>3. phase' = "close" <=> status' = "OK"
    BY <2>2
  <2>4. Due' /\ Complete'
    BY <1>1, <1>5, <1>10, <2>1, <2>3, NextDue
  <2> QED BY <1>5, <1>8, <2>4 DEF LayInv
<1>11. CASE /\ phase' = ph /\ loop' = k /\ given' = End' /\ ~ ends
            /\ ph = "close" => status' = "OK"
            /\ ph # "close" => status' = "running"
  <2>1. phase' = "value" /\ loop' = loop /\ phase = "varint"
    BY <1>1, <1>11
  <2>2. ph # "close"
    BY <1>11
  <2> HIDE DEF ph, k, ends
  <2>3. status' # "OK"
    BY <1>11, <2>2
  <2>4. ValueAt(loop)' = ValueAt(loop)
    <3>1. \A i : ValueAt(i)' = ValueAt(i)
      BY <1>5, Same
    <3> QED BY <2>1, <3>1
  <2>5. Due'
    BY <1>8, <1>11, <2>1, <2>4 DEF Due
  <2> QED BY <1>5, <1>8, <2>3, <2>5 DEF LayInv
<1> QED BY <1>5, <1>9, <1>10, <1>11

(* Before a part is handed over: the attempts, and a build without one.    *)
Unwritten ==
  /\ TypeInv /\ toc = <<>> /\ given = 0 /\ stored = 0
  /\ phase \in {"detect", "build", "header", "close"}
  /\ status # "OK" /\ attached = "none"

(* LayInv holds then.                                                      *)
LEMMA EmptyLays == Narrow /\ Unwritten => LayInv
<1> SUFFICES ASSUME Narrow, Unwritten PROVE LayInv
  OBVIOUS
<1> USE DEF Unwritten
<1>1. End = 0
  BY DEF End
<1>2. job \in Jobs
  BY DEF TypeInv
<1>3. /\ ContentAt \in Nat /\ ExtendAt \in Nat
      /\ \A i \in 1 .. Pieces + 1 : CellsAt(i) \in Nat /\ SectionsAt(i) \in Nat
      /\ Pieces \in Nat
  BY <1>2, ExtendFacts, CellsFacts, SectionsFacts, JobTypes
<1>4. Layout
  <2>1. IndexLaid
    <3>1. ASSUME NEW i \in 1 .. Pieces
          PROVE  End <= CellsAt(i) /\ End <= SectionsAt(i)
      <4>1. i \in 1 .. Pieces + 1
        BY <1>3
      <4>2. CellsAt(i) \in Nat /\ SectionsAt(i) \in Nat
        BY <1>3, <4>1
      <4> QED BY <1>1, <4>2
    <3> QED BY <3>1 DEF IndexLaid, Laid
  <2>2. End <= ContentAt /\ End <= ExtendAt /\ ~ (End > ContentAt)
    BY <1>1, <1>3
  <2> QED BY <2>1, <2>2 DEF Layout, ContentLaid, Laid, Reach, ValuesLaid,
                            VarIntsLaid
<1>5. Due
  <2>1. phase # "header" => phase \notin Writing
    BY DEF Writing, Indexing, Filling
  <2> QED BY <1>1, <2>1 DEF Due
<1>6. Stream
  BY <1>1 DEF Stream
<1>7. Complete /\ Judged
  BY DEF Complete, Judged
<1> QED BY <1>4, <1>5, <1>6, <1>7 DEF LayInv

(* It holds at first.                                                      *)
LEMMA InitLays ==
  ASSUME Narrow, Init
  PROVE  LayInv
<1>1. /\ toc = <<>> /\ given = 0 /\ stored = 0 /\ phase = "detect"
      /\ status # "OK" /\ attached = "none"
  BY DEF Init, Writer!Init
<1>2. TypeInv
  BY InitTypes
<1> QED BY <1>1, <1>2, EmptyLays DEF Unwritten

(* The attempts keep it.                                                   *)
LEMMA AttemptsLay ==
  ASSUME Narrow, TypeInv, LayInv,
         Detect \/ Succeed \/ BadInput \/ Conflict \/ OutOfChance
  PROVE  LayInv'
<1>1. phase \in Early /\ TypeInv'
  <2>1. phase \in Early
    BY AttemptDoes DEF Detect, Succeed, Early
  <2> QED BY <2>1, StepTypes DEF Next
<1>2. /\ toc = <<>> /\ given = 0 /\ stored = 0 /\ status = "running"
      /\ attached = "none"
  <2>1. phase \notin {"loaded", "rejected"}
    BY <1>1 DEF Early
  <2> QED BY <1>1, <2>1 DEF TypeInv, Control, LayInv, Stream, Judged
<1>3. /\ toc' = toc /\ given' = given /\ stored' = stored
      /\ attached' = attached
      /\ phase' \in {"detect", "build", "header", "close"}
      /\ status' # "OK"
  <2>1. CASE Detect
    BY <1>2, <2>1 DEF Detect, inert, writerVars, Return, Continue
  <2>2. CASE Succeed
    BY <1>2, <2>2 DEF Succeed, inert, writerVars, Continue
  <2>3. CASE BadInput \/ Conflict \/ OutOfChance
    <3>1. PICK st \in {"BAD_INPUT", "CONFLICT", "OUT_OF_CHANCE"} : Charged(st)
      BY <2>3, AttemptDoes
    <3>2. phase = "build" /\ UNCHANGED <<toc, attached, given, stored>>
      BY <2>3, AttemptDoes
    <3> QED BY <1>2, <3>1, <3>2 DEF Charged
  <2> QED BY <2>1, <2>2, <2>3
<1>4. Unwritten'
  BY <1>1, <1>2, <1>3 DEF Unwritten
<1>5. Narrow'
  BY DEF Narrow, IndexSize
<1> QED BY <1>4, <1>5, EmptyLays, PTL

(* Once the build has returned, the table stays.                           *)
LEMMA EndsLay ==
  ASSUME Narrow, TypeInv, LayInv, Close \/ Die \/ Load \/ Attach
  PROVE  LayInv'
<1>1. /\ TypeInv' /\ phase' \in After
      /\ UNCHANGED <<job, keyLen, valLen, place, lines, toc, status, given>>
      /\ stored' \in Nat /\ (stored' = stored \/ stored' <= given)
  BY EndTypes
<1>2. Due /\ Stream /\ Layout /\ Complete /\ Judged
  BY DEF LayInv
<1>3. Layout' /\ End' = End
  BY <1>1, <1>2, LayoutSame
<1>4. /\ phase' \notin Writing /\ phase' \notin Early
  BY <1>1 DEF After, Writing, Indexing, Filling, Early
<1>5. Due'
  BY <1>4 DEF Due, Writing, Indexing, Filling
<1>6. Stream'
  <2>1. End \in Nat /\ given \in Nat
    BY EndTypesOf DEF TypeInv, TypeOK
  <2>2. stored' <= End
    BY <1>1, <1>2, <2>1 DEF Stream
  <2> QED BY <1>1, <1>2, <1>3, <1>4, <2>2 DEF Stream
<1>7. /\ Items' = Items /\ Pieces' = Pieces
      /\ ContentAt' = ContentAt /\ ExtendAt' = ExtendAt
      /\ (Separated' <=> Separated)
      /\ \A i : Past(i)' = Past(i)
      /\ \A i : CellsAt(i)' = CellsAt(i) /\ SectionsAt(i)' = SectionsAt(i)
  BY <1>1, Same
<1>8. Complete'
  BY <1>1, <1>2, <1>3, <1>7 DEF Complete
<1>9. /\ Needed' = Needed /\ DeviceNeeded' = DeviceNeeded
      /\ CellsAt(Pieces + 1)' = CellsAt(Pieces + 1)
  <2>1. Needed' = Needed
    BY <1>1, <1>7 DEF Needed
  <2>2. CellsAt(Pieces + 1)' = CellsAt(Pieces + 1)
    BY <1>7
  <2>3. DeviceSectionsAt' = DeviceSectionsAt
    BY <2>2 DEF DeviceSectionsAt
  <2>4. DeviceNeeded' = DeviceNeeded
    BY <1>1, <1>7, <2>3 DEF DeviceNeeded
  <2> QED BY <2>1, <2>2, <2>4
<1>10. Judged'
  <2>1. CASE Close \/ Die
    <3>1. phase \notin {"loaded", "rejected"} /\ phase' = "load"
          /\ attached' = attached
      BY <2>1 DEF Close, Die, inert
    <3> QED BY <1>2, <3>1 DEF Judged
  <2>2. CASE Load
    <3>1. /\ phase = "load" /\ attached' = attached /\ stored' = stored
          /\ \/ phase' = IF stored >= CellsAt(Pieces + 1) /\ stored >= Needed
                         THEN "loaded" ELSE "rejected"
             \/ phase' = "failed"
      BY <2>2 DEF Load, inert, writerVars
    <3>2. attached' = "none"
      BY <1>2, <3>1 DEF Judged
    <3> QED BY <1>9, <3>1, <3>2 DEF Judged
  <2>3. CASE Attach
    <3>1. /\ phase' = phase /\ phase \in {"loaded", "rejected"}
          /\ stored' = stored
          /\ attached' \in
               {"ERROR", IF stored < HeaderSize THEN "INVALID_ARGUMENT"
                         ELSE IF Separated THEN "UNSUPPORTED_TYPE"
                         ELSE IF stored < DeviceNeeded THEN "INVALID_PACK"
                         ELSE "OK"}
      BY <2>3 DEF Attach, writerVars, Separated
    <3> QED BY <1>2, <1>7, <1>9, <3>1 DEF Judged
  <2> QED BY <2>1, <2>2, <2>3
<1> QED BY <1>3, <1>5, <1>6, <1>8, <1>10 DEF LayInv

(* A step that changes nothing keeps it.                                   *)
LEMMA StutterLays ==
  ASSUME LayInv, UNCHANGED vars
  PROVE  LayInv'
<1>1. UNCHANGED <<job, phase, keyLen, valLen, place, loop, size, offset, lines,
                  toc, status, attached, given, stored>>
  BY DEF vars, buildVars, writerVars
<1>2. Layout' /\ End' = End
  BY <1>1, LayoutSame DEF LayInv
<1>3. /\ Items' = Items /\ Pieces' = Pieces
      /\ ContentAt' = ContentAt /\ ExtendAt' = ExtendAt
      /\ (Separated' <=> Separated)
      /\ \A i : CellsAt(i)' = CellsAt(i) /\ SectionsAt(i)' = SectionsAt(i)
      /\ \A i : /\ At(i)' = At(i) /\ ValueAt(i)' = ValueAt(i)
                /\ Past(i)' = Past(i)
      /\ \A m : Spaced(m)' <=> Spaced(m)
  BY <1>1, Same
<1>4. Due'
  BY <1>1, <1>2, <1>3 DEF Due, LayInv
<1>5. Stream' /\ Complete'
  BY <1>1, <1>2, <1>3 DEF Stream, Complete, LayInv
<1>6. Judged'
  BY <1>1, <1>3 DEF Judged, LayInv, Needed, DeviceNeeded, DeviceSectionsAt
<1> QED BY <1>2, <1>4, <1>5, <1>6 DEF LayInv

(* LayInv is inductive, with TypeInv.                                      *)
LEMMA StepLays ==
  ASSUME Narrow, TypeInv, LayInv, [Next]_vars
  PROVE  LayInv'
<1>1. CASE Detect \/ Succeed \/ BadInput \/ Conflict \/ OutOfChance
  BY <1>1, AttemptsLay
<1>2. CASE Dump
  BY <1>2, HeaderLays, CountsLay, CellsLay, PadLays, SectionsLay DEF Dump
<1>3. CASE Fill
  BY <1>3, FillLays, ContentLays, ValuesLay DEF Fill
<1>4. CASE Close \/ Die \/ Load \/ Attach
  BY <1>4, EndsLay
<1>5. CASE Terminated \/ UNCHANGED vars
  BY <1>5, StutterLays DEF Terminated
<1> QED BY <1>1, <1>2, <1>3, <1>4, <1>5 DEF Next

(* The inductive invariant of the layout.                                  *)
LEMMA Laying ==
  ASSUME Narrow
  PROVE  Spec => [](TypeInv /\ LayInv)
<1>1. Init => TypeInv /\ LayInv
  BY InitTypes, InitLays
<1>2. TypeInv /\ LayInv /\ [Next]_vars => TypeInv' /\ LayInv'
  BY StepTypes, StepLays
<1> QED BY <1>1, <1>2, PTL DEF Spec

----------------------------------------------------------------------------
(* What is loaded.                                                         *)

(* Each line is some record's.                                             *)
LEMMA EveryLine ==
  ASSUME Items \in Nat, place \in Places, NEW x \in Lines
  PROVE  \E i \in 1 .. Items : place[i] = x
<1>1. /\ IsFiniteSet(1 .. Items) /\ Cardinality(1 .. Items) = Items
      /\ IsFiniteSet(Lines) /\ Cardinality(Lines) = Items
  BY FS_Interval DEF Lines
<1>2. place \in Injection(1 .. Items, Lines)
  BY DEF Places, Injection, IsInjective
<1>3. place \in Surjection(1 .. Items, Lines)
  BY <1>1, <1>2, FS_Injection
<1> QED BY <1>3 DEF Surjection

(* What the loader asks for is what the attachment asks for.               *)
LEMMA NeededFacts ==
  ASSUME Narrow, TypeInv
  PROVE  /\ Needed \in Nat /\ ContentAt <= Needed
         /\ CellsAt(Pieces + 1) <= ContentAt
         /\ job.type # "INDEX_ONLY" => ExtendAt <= Needed
         /\ ~ Separated => DeviceNeeded = Needed
         /\ ~ Separated /\ Detected => Needed = ExtendAt
<1>1. job \in Jobs
  BY DEF TypeInv
<1>2. /\ ContentAt \in Nat /\ ExtendAt \in Nat /\ Items \in Nat
      /\ ContentAt <= ExtendAt
      /\ Detected /\ job.type = "INDEX_ONLY" => ExtendAt = ContentAt
  BY ExtendFacts
<1>3. /\ CellsAt(Pieces + 1) \in Nat /\ SectionsAt(1) \in Nat
      /\ CellsAt(Pieces + 1) <= SectionsAt(1) /\ SectionsAt(1) <= ContentAt
  BY <1>1, IndexOrder
<1>4. CellsAt(Pieces + 1) <= ContentAt
  BY <1>2, <1>3
<1>5. DeviceSectionsAt = SectionsAt(1)
  BY <1>1, NarrowFacts
<1>6. DeviceNeeded = IF job.type = "INDEX_ONLY" THEN ContentAt ELSE ExtendAt
  <2>1. /\ ContentAt - SectionsAt(1) + SectionsAt(1) = ContentAt
        /\ ExtendAt - SectionsAt(1) + SectionsAt(1) = ExtendAt
    BY <1>2, <1>3
  <2> QED BY <1>5, <2>1 DEF DeviceNeeded
<1>7. CASE job.type = "INDEX_ONLY"
  <2>1. Needed = ContentAt
    BY <1>7 DEF Needed
  <2> QED BY <1>2, <1>4, <1>6, <1>7, <2>1
<1>8. CASE Separated
  <2>1. Needed = ExtendAt + Items
    BY <1>8 DEF Needed, Separated
  <2> QED BY <1>2, <1>4, <1>8, <2>1
<1>9. CASE job.type # "INDEX_ONLY" /\ ~ Separated
  <2>1. Needed = ExtendAt
    BY <1>9 DEF Needed, Separated
  <2> QED BY <1>2, <1>4, <1>6, <1>9, <2>1
<1> QED BY <1>7, <1>8, <1>9

(* How far the stream must have come for the table to load.                *)
LEMMA LoadedReach ==
  ASSUME Narrow, TypeInv, LayInv, phase = "loaded"
  PROVE  /\ Needed <= stored /\ stored <= End /\ stored \in Nat /\ End \in Nat
         /\ toc # <<>> /\ Detected /\ place \in Places
<1>1. /\ Needed <= stored /\ stored <= End /\ stored \in Nat /\ End \in Nat
  BY EndTypesOf DEF TypeInv, TypeOK, LayInv, Judged, Stream
<1>2. End > 0
  <2>1. job \in Jobs
    BY DEF TypeInv
  <2>2. /\ HeaderSize \in Nat /\ HeaderSize >= 1 /\ CellsAt(1) \in Nat
        /\ HeaderSize <= CellsAt(1) /\ CellsAt(1) <= CellsAt(Pieces + 1)
        /\ CellsAt(Pieces + 1) \in Nat
    BY <2>1, IndexOrder
  <2>3. /\ CellsAt(Pieces + 1) <= ContentAt /\ ContentAt <= Needed
        /\ Needed \in Nat /\ ContentAt \in Nat
    BY NeededFacts, ExtendFacts
  <2> QED BY <1>1, <2>2, <2>3
<1>3. toc # <<>>
  BY <1>2 DEF End
<1> QED BY <1>1, <1>3 DEF TypeInv, Control

(* A table that loads is laid out as the loader takes it to be.            *)
LEMMA LoadedHolds ==
  ASSUME Narrow, TypeInv, LayInv
  PROVE  LoadedIsWritten
<1>1. job \in Jobs /\ Judged /\ Layout
  BY DEF TypeInv, LayInv
<1>2. /\ ContentAt \in Nat /\ ExtendAt \in Nat /\ Items \in Nat
      /\ ContentAt <= ExtendAt
      /\ Detected /\ job.type # "INDEX_ONLY" => ExtendAt > ContentAt
  BY ExtendFacts
<1>3. /\ Needed \in Nat /\ ContentAt <= Needed
      /\ CellsAt(Pieces + 1) <= ContentAt /\ CellsAt(Pieces + 1) \in Nat
      /\ job.type # "INDEX_ONLY" => ExtendAt <= Needed
      /\ ~ Separated => DeviceNeeded = Needed
      /\ ~ Separated /\ Detected => Needed = ExtendAt
  BY <1>1, NeededFacts, IndexOrder
<1>4. stored \in Nat /\ HeaderSize \in Nat /\ HeaderSize <= ContentAt
  <2>1. /\ HeaderSize \in Nat /\ CellsAt(1) \in Nat
        /\ HeaderSize <= CellsAt(1) /\ CellsAt(1) <= CellsAt(Pieces + 1)
    BY <1>1, IndexOrder
  <2> QED BY <1>2, <1>3, <2>1 DEF TypeInv, TypeOK
<1>5. ASSUME attached = "OK" PROVE phase = "loaded"
  <2>1. /\ phase \in {"loaded", "rejected"} /\ ~ Separated
        /\ ~ (stored < DeviceNeeded)
    BY <1>1, <1>5 DEF Judged
  <2>2. stored >= Needed /\ stored >= CellsAt(Pieces + 1)
    BY <1>2, <1>3, <1>4, <2>1
  <2> QED BY <1>1, <2>1, <2>2 DEF Judged
<1>6. ASSUME phase = "loaded"
      PROVE  /\ \A i \in 1 .. Pieces :
                  /\ WrittenAt("cells", i, CellsAt(i))
                  /\ WrittenAt("sections", i, SectionsAt(i))
             /\ ContentAt <= stored
             /\ job.type # "INDEX_ONLY" =>
                  WrittenAt("content", 0, ContentAt) /\ ExtendAt <= stored
             /\ job.type # "KV_SEPARATED" => stored = ExtendAt
             /\ job.type \notin {"INDEX_ONLY", "KV_SEPARATED"} =>
                  \A x \in Lines : lines[x] # -1
             /\ attached \notin {"none", "ERROR"} =>
                  attached = (IF job.type = "KV_SEPARATED"
                              THEN "UNSUPPORTED_TYPE" ELSE "OK")
  <2>1. /\ Needed <= stored /\ stored <= End /\ stored \in Nat /\ End \in Nat
        /\ Detected /\ place \in Places
    BY <1>6, LoadedReach
  <2>2. ContentAt <= stored /\ ContentAt <= End
    BY <1>2, <1>3, <2>1
  <2>3. ASSUME NEW i \in 1 .. Pieces
        PROVE  /\ WrittenAt("cells", i, CellsAt(i))
               /\ WrittenAt("sections", i, SectionsAt(i))
    <3>1. /\ CellsAt(i) \in Nat /\ CellsAt(i + 1) \in Nat
          /\ CellsAt(i) < CellsAt(i + 1)
          /\ CellsAt(i + 1) <= CellsAt(Pieces + 1)
      BY <1>1, IndexOrder
    <3>2. /\ SectionsAt(i) \in Nat /\ SectionsAt(i + 1) \in Nat
          /\ SectionsAt(i) < SectionsAt(i + 1)
          /\ SectionsAt(i + 1) <= ContentAt
      BY <1>1, IndexOrder
    <3>3. ~ (End <= CellsAt(i))
      BY <1>2, <1>3, <2>1, <2>2, <3>1
    <3>4. ~ (End <= SectionsAt(i))
      BY <1>2, <2>1, <2>2, <3>2
    <3> QED BY <1>1, <3>3, <3>4 DEF Layout, IndexLaid, Laid
  <2>4. ASSUME job.type # "INDEX_ONLY"
        PROVE  WrittenAt("content", 0, ContentAt) /\ ExtendAt <= stored
    <3>1. ExtendAt > ContentAt /\ ExtendAt <= Needed
      BY <1>2, <1>3, <2>1, <2>4
    <3>2. ExtendAt <= stored /\ ~ (End <= ContentAt)
      BY <1>2, <1>3, <2>1, <3>1
    <3> QED BY <1>1, <2>4, <3>2 DEF Layout, ContentLaid, Laid
  <2>5. ASSUME ~ Separated PROVE stored = ExtendAt
    <3>1. End <= ExtendAt
      BY <1>1, <2>5 DEF Layout, Reach
    <3>2. Needed = ExtendAt
      BY <1>3, <2>1, <2>5
    <3> QED BY <1>2, <2>1, <3>1, <3>2
  <2>6. ASSUME job.type # "INDEX_ONLY", NEW x \in Lines PROVE lines[x] # -1
    <3>1. End > ContentAt
      BY <1>2, <1>3, <2>1, <2>6
    <3>2. Fits(Items)
      BY <1>1, <3>1 DEF Layout, Reach, Filled
    <3>3. PICK i \in 1 .. Items : place[i] = x
      BY <1>2, <2>1, EveryLine
    <3> QED BY <3>2, <3>3 DEF Fits, Line
  <2>7. ASSUME attached \notin {"none", "ERROR"}
        PROVE  attached = (IF job.type = "KV_SEPARATED"
                           THEN "UNSUPPORTED_TYPE" ELSE "OK")
    <3>1. ~ (stored < HeaderSize)
      BY <1>2, <1>4, <2>2
    <3>2. ~ Separated => ~ (stored < DeviceNeeded)
      BY <1>3, <2>1
    <3> QED BY <1>1, <2>7, <3>1, <3>2 DEF Judged, Separated
  <2> QED BY <2>2, <2>3, <2>4, <2>5, <2>6, <2>7 DEF Separated
<1> QED BY <1>5, <1>6 DEF LoadedIsWritten

(* The loader and DumpIndex count the same, if the size of an index, with  *)
(* the alignment, is below 2^32, where the mask of AlignUp would clear its *)
(* upper bits: the parts of a table that loads are where they were         *)
(* written, all in the file and all filled, what a build left half-way is  *)
(* refused, and the device takes what the host loads (build.cc:824-856,    *)
(* shd.cc:25-98, cuda/shd.cu:511-649).                                     *)
THEOREM LoadedAsWritten ==
  ASSUME Narrow
  PROVE  Spec => []LoadedIsWritten
<1>1. TypeInv /\ LayInv => LoadedIsWritten
  BY LoadedHolds
<1> QED BY <1>1, Laying, PTL

----------------------------------------------------------------------------
(* What is read back.                                                      *)

(* What the loop of the decoder finds from digit k on, if it finds d       *)
(* beyond it.                                                              *)
Digit(x, k, d) ==
  IF k = ValueDigits \/ x + k >= stored THEN [len |-> 0, size |-> 0]
  ELSE IF ByteAt(x + k) < Radix THEN [len |-> ByteAt(x + k), size |-> 1]
  ELSE IF d[k + 1].size = 0 THEN d[k + 1]
  ELSE [len |-> ByteAt(x + k) - Radix + Radix * d[k + 1].len,
        size |-> d[k + 1].size + 1]

Digits(x, m, d) == [k \in m .. ValueDigits |-> Digit(x, k, d)]

(* There is what such a loop finds: it goes on for a few digits only.      *)
LEMMA DigitsExist ==
  ASSUME NEW x
  PROVE  \E d : d = Digits(x, 0, d)
<1> DEFINE T == {j \in 0 .. ValueDigits :
                   ~ \E d : d = Digits(x, ValueDigits - j, d)}
<1>1. ValueDigits \in Nat
  BY ParamAssumption
<1>2. ASSUME T # {} PROVE FALSE
  <2>1. PICK m \in T : \A k \in T : m <= k
    <3>1. T \in SUBSET Nat
      BY <1>1
    <3> HIDE DEF T
    <3> QED BY <1>2, <3>1, Least
  <2>2. m \in 0 .. ValueDigits /\ ~ \E d : d = Digits(x, ValueDigits - m, d)
    OBVIOUS
  <2>3. m # 0
    <3> SUFFICES ASSUME m = 0 PROVE FALSE
      OBVIOUS
    <3> DEFINE e == [k \in ValueDigits .. ValueDigits |->
                       [len |-> 0, size |-> 0]]
    <3>1. ASSUME NEW k \in ValueDigits .. ValueDigits
          PROVE  Digit(x, k, e) = [len |-> 0, size |-> 0]
      <4>1. k = ValueDigits
        BY <1>1
      <4> QED BY <4>1 DEF Digit
    <3>2. e = Digits(x, ValueDigits, e)
      BY <3>1 DEF Digits
    <3>3. ValueDigits - 0 = ValueDigits
      BY <1>1
    <3> QED BY <2>2, <3>2, <3>3
  <2>4. m - 1 \in 0 .. ValueDigits /\ m - 1 \notin T
    BY <1>1, <2>1, <2>2, <2>3
  <2>5. PICK d : d = Digits(x, ValueDigits - (m - 1), d)
    BY <2>4
  <2> HIDE DEF T
  <2> DEFINE p == ValueDigits - m
  <2>6. /\ p \in 0 .. ValueDigits /\ p # ValueDigits
        /\ ValueDigits - (m - 1) = p + 1 /\ p \in Nat
    BY <1>1, <2>2, <2>3
  <2> HIDE DEF p
  <2> DEFINE e == [k \in p .. ValueDigits |->
                     IF k = p THEN Digit(x, p, d) ELSE d[k]]
  <2>7. ASSUME NEW k \in p .. ValueDigits
        PROVE  e[k] = Digit(x, k, e)
    <3>1. k # ValueDigits => e[k + 1] = d[k + 1]
      <4>1. k # ValueDigits => k + 1 \in p .. ValueDigits /\ k + 1 # p
        BY <1>1, <2>6
      <4> QED BY <4>1
    <3> HIDE DEF e
    <3>2. Digit(x, k, e) = Digit(x, k, d)
      BY <3>1 DEF Digit
    <3>3. CASE k = p
      BY <3>2, <3>3 DEF e
    <3>4. CASE k # p
      <4>1. k \in p + 1 .. ValueDigits
        BY <1>1, <2>6, <3>4
      <4>2. d[k] = Digit(x, k, d)
        BY <2>5, <2>6, <4>1 DEF Digits
      <4> QED BY <3>2, <3>4, <4>2 DEF e
    <3> QED BY <3>3, <3>4
  <2>8. e = Digits(x, p, e)
    <3>1. e = [k \in p .. ValueDigits |-> e[k]]
      OBVIOUS
    <3> HIDE DEF e
    <3> QED BY <2>7, <3>1 DEF Digits
  <2> QED BY <2>2, <2>8 DEF p
<1>3. 0 \in 0 .. ValueDigits /\ ValueDigits \in 0 .. ValueDigits
      /\ ValueDigits - ValueDigits = 0
  BY <1>1
<1>4. ValueDigits \notin T
  BY <1>2
<1> QED BY <1>3, <1>4

(* LengthAt is what the loop finds from the first digit on.                *)
LEMMA LengthIs ==
  ASSUME NEW x
  PROVE  \E d : d = Digits(x, 0, d) /\ LengthAt(x) = d[0]
<1> DEFINE d == CHOOSE d : d = Digits(x, 0, d)
<1>1. d = Digits(x, 0, d)
  BY DigitsExist
<1>2. LengthAt(x) = d[0]
  BY DEF LengthAt, Digits, Digit
<1> QED BY <1>1, <1>2

(* The decoder gives the number whose digits it finds, if the file does    *)
(* not end in them.                                                        *)
Found(x, d, n) ==
  \A k \in 0 .. ValueDigits :
    /\ k + Len(VarInt[n]) <= ValueDigits
    /\ \A j \in 1 .. Len(VarInt[n]) :
         ByteAt((x + k) + (j - 1)) = VarInt[n][j]
    => IF (x + k) + Len(VarInt[n]) <= stored
       THEN d[k] = [len |-> n, size |-> Len(VarInt[n])]
       ELSE d[k].size = 0

(* It does: by induction on the number.                                    *)
LEMMA Decoded ==
  ASSUME NEW x \in Nat, NEW d, d = Digits(x, 0, d), stored \in Nat,
         NEW n \in Nat
  PROVE  Found(x, d, n)
<1> DEFINE T == {m \in Nat : ~ Found(x, d, m)}
<1> SUFFICES ASSUME T # {} PROVE FALSE
  OBVIOUS
<1>1. PICK m \in T : \A k \in T : m <= k
  <2>1. T \in SUBSET Nat
    OBVIOUS
  <2> HIDE DEF T
  <2> QED BY <2>1, Least
<1>2. m \in Nat /\ ~ Found(x, d, m)
  OBVIOUS
<1> DEFINE L == Len(VarInt[m])
<1>3. L \in Nat /\ L >= 1
  BY <1>2, VarIntSeq
<1>4. ASSUME NEW k \in 0 .. ValueDigits, k + L <= ValueDigits,
             \A j \in 1 .. L : ByteAt((x + k) + (j - 1)) = VarInt[m][j]
      PROVE  IF (x + k) + L <= stored
             THEN d[k] = [len |-> m, size |-> L]
             ELSE d[k].size = 0
  <2>1. k \in Nat /\ k # ValueDigits /\ ValueDigits \in Nat
        /\ k + 1 \in 0 .. ValueDigits
    <3>1. k + L <= ValueDigits /\ ValueDigits \in Nat
      BY <1>4, ParamAssumption
    <3> HIDE DEF L
    <3> QED BY <1>3, <3>1
  <2>2. d[k] = Digit(x, k, d)
    BY DEF Digits
  <2>3. CASE x + k >= stored
    <3>1. d[k] = [len |-> 0, size |-> 0]
      BY <2>2, <2>3 DEF Digit
    <3>2. ~ ((x + k) + L <= stored)
      <4> HIDE DEF L
      <4> QED BY <1>3, <2>1, <2>3
    <3> QED BY <3>1, <3>2
  <2>4. CASE ~ (x + k >= stored)
    <3>1. ByteAt(x + k) = VarInt[m][1]
      <4>1. 1 \in 1 .. L /\ (x + k) + (1 - 1) = x + k
        BY <1>3, <2>1
      <4> QED BY <1>4, <4>1
    <3>2. CASE m < Radix
      <4>1. VarInt[m] = <<m>>
        BY <1>2, <3>2, VarIntParts
      <4>2. L = 1 /\ ByteAt(x + k) = m
        BY <3>1, <4>1
      <4>3. d[k] = [len |-> m, size |-> 1]
        BY <2>1, <2>2, <2>4, <3>2, <4>2 DEF Digit
      <4>4. (x + k) + 1 <= stored
        BY <2>1, <2>4
      <4> QED BY <4>2, <4>3, <4>4
    <3>3. CASE m >= Radix
      <4> DEFINE q == m \div Radix  r == m % Radix
      <4>1. /\ Radix \in Nat /\ q \in Nat /\ r \in Nat /\ q < m
            /\ m = Radix * q + r
        BY <1>2, <3>3, DigitFacts
      <4>2. /\ VarInt[m][1] = Radix + r
            /\ L = 1 + Len(VarInt[q])
            /\ \A j \in 1 .. Len(VarInt[q]) : VarInt[m][j + 1] = VarInt[q][j]
        BY <1>2, <3>3, VarIntParts
      <4> HIDE DEF q, r
      <4> DEFINE M == Len(VarInt[q])
      <4>3. M \in Nat /\ M >= 1 /\ L = 1 + M
        BY <4>1, <4>2, VarIntSeq
      <4>4. Found(x, d, q)
        <5>1. q \notin T
          BY <1>1, <1>2, <4>1
        <5> QED BY <4>1, <5>1
      <4>5. (k + 1) + M <= ValueDigits
        <5>1. k + L <= ValueDigits
          BY <1>4
        <5> HIDE DEF M, L
        <5> QED BY <2>1, <4>3, <5>1
      <4>6. ASSUME NEW j \in 1 .. M
            PROVE  ByteAt((x + (k + 1)) + (j - 1)) = VarInt[q][j]
        <5> HIDE DEF M, L
        <5>1. /\ j + 1 \in 1 .. L
              /\ (x + (k + 1)) + (j - 1) = (x + k) + ((j + 1) - 1)
          BY <2>1, <4>3
        <5>2. ByteAt((x + k) + ((j + 1) - 1)) = VarInt[m][j + 1]
          BY <1>4, <5>1
        <5> QED BY <4>2, <5>1, <5>2 DEF M
      <4>7. IF (x + (k + 1)) + M <= stored
            THEN d[k + 1] = [len |-> q, size |-> M]
            ELSE d[k + 1].size = 0
        BY <2>1, <4>4, <4>5, <4>6 DEF Found
      <4> HIDE DEF M, L
      <4>8. (x + (k + 1)) + M = (x + k) + L
        BY <2>1, <4>3
      <4>9. ByteAt(x + k) = Radix + r /\ ~ (ByteAt(x + k) < Radix)
        BY <3>1, <4>1, <4>2
      <4>10. d[k] = IF d[k + 1].size = 0 THEN d[k + 1]
                    ELSE [len |-> ByteAt(x + k) - Radix
                                    + Radix * d[k + 1].len,
                          size |-> d[k + 1].size + 1]
        BY <2>1, <2>2, <2>4, <4>9, Zenon DEF Digit
      <4>11. CASE (x + k) + L <= stored
        <5>1. d[k + 1].len = q /\ d[k + 1].size = M
          BY <4>7, <4>8, <4>11
        <5>2. M # 0 /\ M + 1 = L
          BY <4>3
        <5>3. ByteAt(x + k) - Radix + Radix * q = m
          <6>1. Radix + r - Radix = r /\ Radix * q \in Nat
            BY <4>1
          <6> QED BY <4>1, <4>9, <6>1
        <5> QED BY <4>10, <4>11, <5>1, <5>2, <5>3
      <4>12. CASE ~ ((x + k) + L <= stored)
        BY <4>7, <4>8, <4>10, <4>12
      <4> QED BY <4>11, <4>12
    <3>4. m < Radix \/ m >= Radix
      BY <1>2, DigitFacts
    <3> QED BY <3>2, <3>3, <3>4
  <2> QED BY <2>3, <2>4
<1>5. Found(x, d, m)
  BY <1>4 DEF Found
<1> QED BY <1>2, <1>5

(* The bytes of a length that was written are its digits: no other length  *)
(* reaches into them.                                                      *)
LEMMA BytesOf ==
  ASSUME Narrow, TypeInv, Layout, Separated, Filled(Items),
         NEW i \in 1 .. Items, WrittenAt("varint", i, At(i)),
         NEW y \in Nat, At(i) <= y, y < ValueAt(i)
  PROVE  ByteAt(y) = VarInt[job.records[i].vlen][(y - At(i)) + 1]
<1> DEFINE Holds(c) == /\ toc[c].part = "varint"
                       /\ y \in toc[c].start .. toc[c].start + toc[c].len - 1
<1>1. VarIntsLaid
  BY DEF Layout
<1>2. PICK c \in DOMAIN toc :
        /\ toc[c].part = "varint" /\ toc[c].of = i /\ toc[c].start = At(i)
  BY DEF WrittenAt
<1>3. ASSUME NEW a \in DOMAIN toc, toc[a].part = "varint"
      PROVE  /\ toc[a].of \in 1 .. Items /\ toc[a].start = At(toc[a].of)
             /\ toc[a].start + toc[a].len = ValueAt(toc[a].of)
             /\ toc[a].start .. toc[a].start + toc[a].len - 1
                  = At(toc[a].of) .. ValueAt(toc[a].of) - 1
  <2>1. /\ toc[a].of \in 1 .. Items /\ toc[a].start = At(toc[a].of)
        /\ toc[a].start + toc[a].len = ValueAt(toc[a].of)
    BY <1>1, <1>3 DEF VarIntsLaid, ValueAt
  <2>2. toc[a].start \in Nat /\ toc[a].len \in Nat
    BY EndTypesOf DEF TypeInv, Part
  <2> DEFINE o == toc[a].of  b == toc[a].start  e == toc[a].len
  <2>3. b = At(o) /\ b + e = ValueAt(o) /\ b \in Nat /\ e \in Nat
    BY <2>1, <2>2
  <2> HIDE DEF o, b, e
  <2>4. b + (e - 1) = ValueAt(o) - 1
    BY <2>3
  <2>5. b .. b + (e - 1) = At(o) .. ValueAt(o) - 1
    BY <2>3, <2>4
  <2> QED BY <2>1, <2>5 DEF o, b, e
<1>4. ASSUME NEW k \in 1 .. Items
      PROVE  /\ At(k) \in Nat /\ ValueAt(k) \in Nat /\ At(k) < ValueAt(k)
             /\ ValueAt(k) <= ExtendAt + Past(k) /\ ExtendAt + Past(k) \in Nat
             /\ \A l \in 1 .. Items : k < l => ExtendAt + Past(k) <= At(l)
  <2>1. /\ At(k) \in Nat /\ ValueAt(k) \in Nat /\ At(k) < ValueAt(k)
        /\ ExtendAt + Past(k) = ValueAt(k) + job.records[k].vlen
        /\ job.records[k].vlen \in Nat
        /\ \A l \in 1 .. Items : k < l => ExtendAt + Past(k) <= At(l)
    BY SpacedFacts DEF Filled
  <2> QED BY <2>1
<1>5. Holds(c)
  <2>1. toc[c].start .. toc[c].start + toc[c].len - 1 = At(i) .. ValueAt(i) - 1
    BY <1>2, <1>3, Zenon
  <2>2. At(i) \in Nat /\ ValueAt(i) \in Nat
    BY <1>4
  <2>3. y \in At(i) .. ValueAt(i) - 1
    BY <2>2
  <2> QED BY <1>2, <2>1, <2>3
<1>6. ASSUME NEW a \in DOMAIN toc, Holds(a)
      PROVE  toc[a].of = i /\ toc[a].start = At(i)
  <2>1. PICK k \in 1 .. Items : toc[a].of = k
    BY <1>3, <1>6
  <2>2. /\ toc[a].start = At(k)
        /\ toc[a].start .. toc[a].start + toc[a].len - 1
             = At(k) .. ValueAt(k) - 1
    BY <1>3, <1>6, <2>1, Zenon
  <2>3. y \in At(k) .. ValueAt(k) - 1
    BY <1>6, <2>2
  <2>4. At(k) \in Nat /\ ValueAt(k) \in Nat /\ At(i) \in Nat
        /\ ValueAt(i) \in Nat
    BY <1>4
  <2>5. At(k) <= y /\ y < ValueAt(k)
    BY <2>3, <2>4
  <2>6. ~ (k < i)
    <3> SUFFICES ASSUME k < i PROVE FALSE
      OBVIOUS
    <3>1. /\ ValueAt(k) <= ExtendAt + Past(k) /\ ExtendAt + Past(k) <= At(i)
          /\ ExtendAt + Past(k) \in Nat
      BY <1>4
    <3> QED BY <2>4, <2>5, <3>1
  <2>7. ~ (i < k)
    <3> SUFFICES ASSUME i < k PROVE FALSE
      OBVIOUS
    <3>1. /\ ValueAt(i) <= ExtendAt + Past(i) /\ ExtendAt + Past(i) <= At(k)
          /\ ExtendAt + Past(i) \in Nat
      BY <1>4
    <3> QED BY <2>4, <2>5, <3>1
  <2>8. k = i
    <3>1. Items \in Nat
      BY ExtendFacts
    <3> QED BY <2>6, <2>7, <3>1
  <2> QED BY <2>1, <2>2, <2>8
<1> DEFINE h == CHOOSE a \in DOMAIN toc : Holds(a)
<1>7. h \in DOMAIN toc /\ Holds(h)
  BY <1>5
<1>8. ByteAt(y) = VarInt[job.records[toc[h].of].vlen][y - toc[h].start + 1]
  BY <1>5 DEF ByteAt
<1> HIDE DEF h, Holds
<1>9. toc[h].of = i /\ toc[h].start = At(i)
  BY <1>6, <1>7
<1> QED BY <1>8, <1>9

(* So a length that was written is read back, or the file ends in it.      *)
LEMMA LengthRead ==
  ASSUME Narrow, TypeInv, Layout, Separated, Filled(Items),
         NEW i \in 1 .. Items, WrittenAt("varint", i, At(i))
  PROVE  IF ValueAt(i) <= stored
         THEN LengthAt(At(i)) = [len |-> job.records[i].vlen,
                                 size |-> VarIntSize(job.records[i].vlen)]
         ELSE LengthAt(At(i)).size = 0
<1> DEFINE n == job.records[i].vlen  x == At(i)  s == Len(VarInt[n])
<1>1. /\ n \in Nat /\ x \in Nat /\ s \in 1 .. ValueDigits
      /\ ValueAt(i) = x + s /\ ValueDigits \in Nat
  <2>1. /\ job.records[i].vlen \in Nat /\ At(i) \in Nat
        /\ VarIntSize(job.records[i].vlen) \in 1 .. ValueDigits
        /\ ValueAt(i) = At(i) + VarIntSize(job.records[i].vlen)
    BY SpacedFacts DEF Filled
  <2> QED BY <2>1, ParamAssumption DEF VarIntSize
<1>2. stored \in Nat
  BY DEF TypeInv, TypeOK
<1>3. ASSUME NEW j \in 1 .. s PROVE ByteAt((x + 0) + (j - 1)) = VarInt[n][j]
  <2> DEFINE y == (x + 0) + (j - 1)
  <2>1. y \in Nat /\ At(i) <= y /\ y < ValueAt(i) /\ (y - At(i)) + 1 = j
    <3>1. x = At(i)
      OBVIOUS
    <3> HIDE DEF x, s, n
    <3> QED BY <1>1, <3>1
  <2> HIDE DEF y
  <2>2. ByteAt(y) = VarInt[n][(y - At(i)) + 1]
    BY <2>1, BytesOf
  <2> QED BY <2>1, <2>2 DEF y
<1>4. PICK d : d = Digits(x, 0, d) /\ LengthAt(x) = d[0]
  BY LengthIs
<1>5. Found(x, d, n)
  <2> HIDE DEF x, n
  <2> QED BY <1>1, <1>2, <1>4, Decoded
<1>6. 0 \in 0 .. ValueDigits /\ 0 + s <= ValueDigits /\ (x + 0) + s = x + s
  <2> HIDE DEF x, s
  <2> QED BY <1>1
<1>7. IF (x + 0) + s <= stored THEN d[0] = [len |-> n, size |-> s]
                               ELSE d[0].size = 0
  BY <1>3, <1>5, <1>6 DEF Found
<1> QED BY <1>1, <1>4, <1>6, <1>7 DEF VarIntSize

(* What SeparatedValueAt makes of a record of a loaded table.              *)
LEMMA ValueRead ==
  ASSUME Narrow, TypeInv, LayInv, phase = "loaded", Separated,
         NEW i \in 1 .. Items
  PROVE  /\ Filled(Items)
         /\ SeparatedValueAt(place[i]) =
              IF ExtendAt + Past(i) <= stored
              THEN [start |-> ValueAt(i), len |-> job.records[i].vlen]
              ELSE Empty
         /\ ExtendAt + Past(i) <= stored /\ job.records[i].vlen # 0 =>
              WrittenAt("value", i, ValueAt(i))
<1>1. /\ Needed <= stored /\ stored <= End /\ stored \in Nat /\ End \in Nat
      /\ Detected
  BY LoadedReach
<1>2. Layout /\ job.type # "INDEX_ONLY"
  BY DEF LayInv, Separated
<1>3. /\ ContentAt \in Nat /\ ExtendAt \in Nat /\ ExtendAt > ContentAt
      /\ Needed \in Nat /\ ExtendAt <= Needed
  BY <1>1, <1>2, ExtendFacts, NeededFacts
<1>4. End > ContentAt
  BY <1>1, <1>3
<1>5. Filled(Items)
  BY <1>2, <1>4 DEF Layout, Reach
<1>6. /\ Laid("varint", i, At(i))
      /\ job.records[i].vlen # 0 => Laid("value", i, ValueAt(i))
  BY <1>2, <1>4 DEF Layout, ValuesLaid
<1> DEFINE n == job.records[i].vlen  s == VarIntSize(n)
           p == ExtendAt + Past(i)
<1>7. /\ n \in Nat /\ s \in Nat /\ s >= 1 /\ At(i) \in Nat
           /\ ValueAt(i) \in Nat
      /\ ValueAt(i) = At(i) + s /\ p = ValueAt(i) + n /\ p \in Nat
      /\ At(i) = ExtendAt + lines[place[i]]
  <2>1. /\ job.records[i].vlen \in Nat /\ At(i) \in Nat /\ ValueAt(i) \in Nat
        /\ VarIntSize(job.records[i].vlen) \in 1 .. ValueDigits
        /\ ValueAt(i) = At(i) + VarIntSize(job.records[i].vlen)
        /\ ExtendAt + Past(i) = ValueAt(i) + job.records[i].vlen
        /\ ValueDigits \in Nat
    BY <1>5, SpacedFacts, ParamAssumption DEF Filled
  <2>2. At(i) = ExtendAt + lines[place[i]]
    BY DEF At, Line
  <2>3. s \in Nat /\ s >= 1
    BY <2>1
  <2>4. ValueAt(i) + n \in Nat
    BY <2>1
  <2> QED BY <2>1, <2>2, <2>3, <2>4
<1> DEFINE l == LengthAt(At(i))
<1>8. SeparatedValueAt(place[i]) =
        IF At(i) >= stored \/ l.size = 0 \/ (At(i) + l.size) + l.len > stored
        THEN Empty ELSE [start |-> At(i) + l.size, len |-> l.len]
  BY <1>7, Zenon DEF SeparatedValueAt, PastEnd
<1>9. CASE At(i) >= stored
  <2>1. ~ (p <= stored)
    <3> HIDE DEF p, n, s
    <3> QED BY <1>1, <1>7, <1>9
  <2> QED BY <1>5, <1>8, <1>9, <2>1
<1>10. CASE ~ (At(i) >= stored)
  <2>1. WrittenAt("varint", i, At(i))
    <3>1. ~ (End <= At(i))
      BY <1>1, <1>7, <1>10
    <3> QED BY <1>6, <3>1 DEF Laid
  <2>2. IF ValueAt(i) <= stored THEN l = [len |-> n, size |-> s]
                                ELSE l.size = 0
    BY <1>2, <1>5, <2>1, LengthRead
  <2> HIDE DEF l, n, s, p
  <2>3. CASE p <= stored
    <3>1. ValueAt(i) <= stored
      BY <1>1, <1>7, <2>3
    <3>2. l.len = n /\ l.size = s
      BY <2>2, <3>1
    <3>3. /\ ~ (At(i) >= stored \/ s = 0 \/ (At(i) + s) + n > stored)
          /\ At(i) + s = ValueAt(i)
      BY <1>1, <1>7, <1>10, <2>3
    <3>4. SeparatedValueAt(place[i]) = [start |-> ValueAt(i), len |-> n]
      BY <1>8, <3>2, <3>3, Zenon
    <3>5. n # 0 => WrittenAt("value", i, ValueAt(i))
      <4> SUFFICES ASSUME n # 0 PROVE WrittenAt("value", i, ValueAt(i))
        OBVIOUS
      <4>1. ~ (End <= ValueAt(i))
        BY <1>1, <1>7, <2>3
      <4>2. Laid("value", i, ValueAt(i))
        BY <1>6 DEF n
      <4> QED BY <4>1, <4>2 DEF Laid
    <3> QED BY <1>5, <2>3, <3>4, <3>5 DEF n, p
  <2>4. CASE ~ (p <= stored)
    <3>1. l.size = 0 \/ (At(i) + l.size) + l.len > stored
      <4>1. CASE ValueAt(i) <= stored
        <5>1. l.len = n /\ l.size = s
          BY <2>2, <4>1
        <5>2. (At(i) + s) + n > stored
          BY <1>1, <1>7, <2>4
        <5> QED BY <5>1, <5>2
      <4>2. CASE ~ (ValueAt(i) <= stored)
        BY <2>2, <4>2
      <4> QED BY <4>1, <4>2
    <3>2. SeparatedValueAt(place[i]) = Empty
      BY <1>8, <3>1
    <3> QED BY <1>5, <2>4, <3>2 DEF p
  <2> QED BY <2>3, <2>4
<1> QED BY <1>9, <1>10

(* A value that is read back is the one that was written, whole, or none:  *)
(* the file may end in the middle of the values or of a length             *)
(* (FillSeparatedKeyValue, build.cc:1050-1121; SeparatedValueAt,           *)
(* shd.cc:177-206).                                                        *)
THEOREM ValuesNeverTornHolds ==
  ASSUME Narrow
  PROVE  Spec => []ValuesNeverTorn
<1>1. ASSUME TypeInv, LayInv, phase = "loaded", Separated,
             NEW i \in 1 .. Items
      PROVE  LET v == SeparatedValueAt(place[i])
                 len == job.records[i].vlen
             IN  \/ v = Empty
                 \/ /\ v.len = len /\ v.start + len <= stored
                    /\ len # 0 => WrittenAt("value", i, v.start)
  <2>1. /\ Filled(Items)
        /\ SeparatedValueAt(place[i]) =
             IF ExtendAt + Past(i) <= stored
             THEN [start |-> ValueAt(i), len |-> job.records[i].vlen]
             ELSE Empty
        /\ ExtendAt + Past(i) <= stored /\ job.records[i].vlen # 0 =>
             WrittenAt("value", i, ValueAt(i))
    BY <1>1, ValueRead
  <2>2. ExtendAt + Past(i) = ValueAt(i) + job.records[i].vlen
    BY <1>1, <2>1, SpacedFacts DEF Filled
  <2>3. CASE ExtendAt + Past(i) <= stored
    <3>1. SeparatedValueAt(place[i])
            = [start |-> ValueAt(i), len |-> job.records[i].vlen]
      BY <2>1, <2>3
    <3>2. ValueAt(i) + job.records[i].vlen <= stored
      BY <2>2, <2>3
    <3> QED BY <2>1, <2>3, <3>1, <3>2
  <2>4. CASE ~ (ExtendAt + Past(i) <= stored)
    BY <2>1, <2>4
  <2> QED BY <2>3, <2>4
<1>2. TypeInv /\ LayInv => ValuesNeverTorn
  BY <1>1 DEF ValuesNeverTorn, Separated
<1> QED BY <1>2, Laying, PTL

(* A pack that was handed over to the last byte is not refused.            *)
LEMMA CompleteNeeds ==
  ASSUME Narrow, TypeInv, LayInv, status = "OK"
  PROVE  /\ given = End /\ End \in Nat /\ Detected
         /\ Needed <= End /\ CellsAt(Pieces + 1) <= End
         /\ Separated => Filled(Items)
<1>1. /\ toc # <<>> /\ given = End /\ End \in Nat /\ Detected
      /\ ~ Separated => End = ExtendAt
      /\ Separated => End > ContentAt
                      /\ \A i \in 1 .. Items : ExtendAt + Past(i) <= End
  BY EndTypesOf DEF TypeInv, Control, LayInv, Complete
<1>2. /\ ContentAt \in Nat /\ ExtendAt \in Nat /\ Items \in Nat
      /\ Needed \in Nat /\ ContentAt <= Needed
      /\ CellsAt(Pieces + 1) <= ContentAt
      /\ ~ Separated => Needed = ExtendAt
  BY <1>1, ExtendFacts, NeededFacts
<1>3. CellsAt(Pieces + 1) \in Nat
  BY IndexOrder DEF TypeInv
<1>4. Separated => Filled(Items)
  BY <1>1 DEF LayInv, Layout, Reach
<1>5. CASE Separated
  <2>1. Needed = ExtendAt + Items
    BY <1>5 DEF Needed, Separated
  <2>2. Items \in 1 .. Items
    BY <1>1, <1>2 DEF Detected
  <2>3. /\ ExtendAt + Past(Items) <= End
        /\ Line(Items) \in Nat /\ Line(Items) >= Items - 1
        /\ At(Items) = ExtendAt + Line(Items) /\ At(Items) < ValueAt(Items)
        /\ ExtendAt + Past(Items) = ValueAt(Items) + job.records[Items].vlen
        /\ job.records[Items].vlen \in Nat
        /\ At(Items) \in Nat /\ ValueAt(Items) \in Nat
    <3> DEFINE k == Items
    <3>1. k \in 1 .. Items
      BY <2>2
    <3>2. /\ Line(k) \in Nat /\ Line(k) >= k - 1
          /\ At(k) = ExtendAt + Line(k) /\ At(k) < ValueAt(k)
          /\ ExtendAt + Past(k) = ValueAt(k) + job.records[k].vlen
          /\ job.records[k].vlen \in Nat
          /\ At(k) \in Nat /\ ValueAt(k) \in Nat
      BY <1>4, <1>5, <3>1, SpacedFacts DEF Filled
    <3> QED BY <1>1, <1>5, <3>1, <3>2
  <2>4. Needed <= End
    BY <1>1, <1>2, <2>1, <2>3
  <2> QED BY <1>1, <1>2, <1>3, <1>4, <2>4
<1>6. CASE ~ Separated
  <2>1. Needed <= End
    BY <1>1, <1>2, <1>6
  <2> QED BY <1>1, <1>2, <1>3, <1>4, <2>1
<1> QED BY <1>5, <1>6

(* Success is told only for a pack that was handed over to the last byte:  *)
(* the loader refuses it only if the writer has not stored all of it, and  *)
(* else finds each of its values (BuildAndDump, build.cc:934-942, and the  *)
(* fills).                                                                 *)
THEOREM OkIsCompleteHolds ==
  ASSUME Narrow
  PROVE  Spec => []OkIsComplete
<1>1. ASSUME TypeInv, LayInv, status = "OK", phase = "rejected"
      PROVE  stored < given
  <2>1. /\ given = End /\ End \in Nat /\ Needed <= End
        /\ CellsAt(Pieces + 1) <= End
    BY <1>1, CompleteNeeds
  <2>2. Needed \in Nat /\ CellsAt(Pieces + 1) \in Nat
    BY <1>1, NeededFacts, IndexOrder DEF TypeInv
  <2>3. stored \in Nat /\ ~ (stored >= CellsAt(Pieces + 1) /\ stored >= Needed)
    BY <1>1 DEF LayInv, Judged, TypeInv, TypeOK
  <2> QED BY <2>1, <2>2, <2>3
<1>2. ASSUME TypeInv, LayInv, status = "OK", phase = "loaded", stored = given,
             Separated, NEW i \in 1 .. Items, job.records[i].vlen # 0
      PROVE  SeparatedValueAt(place[i]) # Empty
  <2>1. given = End /\ ExtendAt + Past(i) <= End
    BY <1>2 DEF LayInv, Complete
  <2>2. SeparatedValueAt(place[i])
          = [start |-> ValueAt(i), len |-> job.records[i].vlen]
    BY <1>2, <2>1, ValueRead
  <2> QED BY <1>2, <2>2 DEF Empty
<1>3. TypeInv /\ LayInv => OkIsComplete
  BY <1>1, <1>2 DEF OkIsComplete, Separated
<1> QED BY <1>3, Laying, PTL

----------------------------------------------------------------------------
(* The file writer: consecutive bytes.                                     *)

(* A run of consecutive bytes, empty when it ends before it begins.        *)
LEMMA ByteRunTypes ==
  ASSUME NEW a \in Nat, NEW b \in Nat, a <= b + 1
  PROVE  /\ Bytes(a, b) \in Seq(Nat)
         /\ Len(Bytes(a, b)) = b - a + 1
         /\ \A i \in 1 .. b - a + 1 : Bytes(a, b)[i] = a + i - 1
<1>1. b - a + 1 \in Nat  OBVIOUS
<1>2. Bytes(a, b) \in [1 .. b - a + 1 -> Nat]  BY DEF Bytes
<1>3. Bytes(a, b) \in Seq(Nat)  BY <1>1, <1>2, SeqDef
<1>4. DOMAIN Bytes(a, b) = 1 .. b - a + 1  BY DEF Bytes
<1>5. Len(Bytes(a, b)) = b - a + 1  BY <1>1, <1>3, <1>4, LenProperties
<1> QED BY <1>3, <1>5 DEF Bytes

(* The beginning of the stream.                                            *)
LEMMA FirstBytes ==
  ASSUME NEW n \in Nat
  PROVE  /\ Bytes(1, n) \in Seq(Nat)
         /\ Len(Bytes(1, n)) = n
         /\ \A i \in 1 .. n : Bytes(1, n)[i] = i
<1>1. 1 <= n + 1 /\ n - 1 + 1 = n  OBVIOUS
<1>2. Bytes(1, n) \in Seq(Nat) /\ Len(Bytes(1, n)) = n - 1 + 1
  BY <1>1, ByteRunTypes
<1>3. \A i \in 1 .. n : Bytes(1, n)[i] = i  BY DEF Bytes
<1> QED BY <1>1, <1>2, <1>3

LEMMA ConcatOfBytes ==
  ASSUME NEW s \in Seq(Nat), NEW t \in Seq(Nat), NEW u \in Seq(Nat)
  PROVE  (s \o t) \o u = s \o (t \o u)
BY ConcatAssociative, SMTT(30)

(* Two runs, the second where the first ends, are one.                     *)
LEMMA BytesConcat ==
  ASSUME NEW a \in Nat, NEW b \in Nat, a <= b
  PROVE  Bytes(1, a) \o Bytes(a + 1, b) = Bytes(1, b)
<1> DEFINE s == Bytes(1, a)
           t == Bytes(a + 1, b)
           u == Bytes(1, b)
<1>1. /\ s \in Seq(Nat) /\ Len(s) = a
      /\ t \in Seq(Nat) /\ Len(t) = b - a
      /\ u \in Seq(Nat) /\ Len(u) = b
  <2>1. a + 1 \in Nat /\ a + 1 <= b + 1 /\ b - (a + 1) + 1 = b - a
    OBVIOUS
  <2>2. t \in Seq(Nat) /\ Len(t) = b - a  BY <2>1, ByteRunTypes
  <2> QED BY <2>2, FirstBytes
<1>2. /\ \A i \in 1 .. a : s[i] = i
      /\ \A i \in 1 .. b - a : t[i] = a + i
      /\ \A i \in 1 .. b : u[i] = i
  BY DEF Bytes
<1> HIDE DEF s, t, u
<1>3. /\ s \o t \in Seq(Nat)
      /\ Len(s \o t) = Len(s) + Len(t)
      /\ \A i \in 1 .. Len(s) + Len(t) :
           (s \o t)[i] = IF i <= Len(s) THEN s[i] ELSE t[i - Len(s)]
  BY <1>1, ConcatProperties
<1>4. ASSUME NEW i \in 1 .. b
      PROVE  (s \o t)[i] = u[i]
  <2>1. i \in 1 .. Len(s) + Len(t)  BY <1>1
  <2>2. (s \o t)[i] = IF i <= a THEN s[i] ELSE t[i - a]
    BY <1>1, <1>3, <2>1
  <2>3. CASE i <= a
    BY <2>2, <2>3, <1>2
  <2>4. CASE ~ i <= a
    <3>1. i - a \in 1 .. b - a  BY <2>4
    <3> QED BY <2>2, <2>4, <3>1, <1>2
  <2> QED BY <2>3, <2>4
<1>5. s \o t = u
  <2>1. Len(s \o t) = Len(u)  BY <1>1, <1>3
  <2>2. \A i \in 1 .. Len(s \o t) : (s \o t)[i] = u[i]
    BY <1>1, <1>4, <2>1
  <2> QED BY <1>1, <1>3, <2>1, <2>2, SeqEqual
<1> QED BY <1>5 DEF s, t, u

(* When a run is cut in two, the first part and any beginning of the       *)
(* second make a run.                                                      *)
LEMMA BytesPrefix ==
  ASSUME NEW f \in Seq(Nat), NEW d \in Seq(Nat), NEW m \in Nat,
         f \o d = Bytes(1, m), NEW k \in Nat, k <= Len(d)
  PROVE  /\ m = Len(f) + Len(d)
         /\ f \o SubSeq(d, 1, k) \in Seq(Nat)
         /\ Len(f \o SubSeq(d, 1, k)) = Len(f) + k
         /\ f \o SubSeq(d, 1, k) = Bytes(1, Len(f) + k)
<1> DEFINE e == SubSeq(d, 1, k)
           u == Bytes(1, Len(f) + k)
<1>1. Len(f) \in Nat /\ Len(d) \in Nat /\ k \in Nat /\ k <= Len(d)
  BY LenProperties
<1>2. /\ e \in Seq(Nat) /\ Len(e) = k
      /\ \A i \in 1 .. k : e[i] = d[i]
  BY <1>1
<1>3. /\ f \o d \in Seq(Nat)
      /\ Len(f \o d) = Len(f) + Len(d)
      /\ \A i \in 1 .. Len(f) + Len(d) :
           (f \o d)[i] = IF i <= Len(f) THEN f[i] ELSE d[i - Len(f)]
  BY ConcatProperties
<1>4. Len(f) + Len(d) = m
  <2>1. Len(Bytes(1, m)) = m  BY FirstBytes
  <2> QED BY <2>1, <1>3
<1>5. u \in Seq(Nat) /\ Len(u) = Len(f) + k
  <2>1. Len(f) + k \in Nat  BY <1>1
  <2> QED BY <2>1, FirstBytes
<1>6. \A i \in 1 .. Len(f) + k : u[i] = i /\ Bytes(1, m)[i] = i
  BY <1>1, <1>4 DEF Bytes
<1> HIDE DEF e, u
<1>7. /\ f \o e \in Seq(Nat)
      /\ Len(f \o e) = Len(f) + Len(e)
      /\ \A i \in 1 .. Len(f) + Len(e) :
           (f \o e)[i] = IF i <= Len(f) THEN f[i] ELSE e[i - Len(f)]
  BY <1>2, ConcatProperties
<1>8. ASSUME NEW i \in 1 .. Len(f) + k
      PROVE  (f \o e)[i] = u[i]
  <2>1. i \in 1 .. Len(f) + Len(e)  BY <1>2
  <2>0. i \in 1 .. Len(f) + Len(d)  BY <1>1
  <2>2. (f \o d)[i] = i  BY <1>6
  <2>3. CASE i <= Len(f)
    <3>1. (f \o e)[i] = f[i]  BY <2>1, <2>3, <1>7
    <3>2. (f \o d)[i] = f[i]  BY <2>0, <2>3, <1>3
    <3> QED BY <3>1, <3>2, <2>2, <1>6
  <2>4. CASE ~ i <= Len(f)
    <3>1. i - Len(f) \in 1 .. k  BY <1>1, <2>4
    <3>2. (f \o e)[i] = e[i - Len(f)]  BY <2>1, <2>4, <1>7
    <3>3. (f \o d)[i] = d[i - Len(f)]  BY <2>1, <2>4, <1>3
    <3> QED BY <3>1, <3>2, <3>3, <2>2, <1>2, <1>6
  <2> QED BY <2>3, <2>4
<1>9. f \o e = u
  <2>1. Len(f \o e) = Len(u)  BY <1>2, <1>5, <1>7
  <2>2. \A i \in 1 .. Len(f \o e) : (f \o e)[i] = u[i]
    BY <1>5, <1>8, <2>1
  <2> QED BY <1>5, <1>7, <2>1, <2>2, SeqEqual
<1> QED BY <1>2, <1>4, <1>7, <1>9 DEF e, u

(* Bytes of the stream, whose length is bounded.                           *)
LEMMA BytesRange ==
  ASSUME NEW a \in Nat \ {0}, NEW b \in 0 .. MaxGiven, a <= b + 1
  PROVE  Bytes(a, b) \in Seq(1 .. MaxGiven)
<1>1. MaxGiven \in Nat /\ b \in Nat /\ b - a + 1 \in Nat
  BY BufferAssumption
<1>2. Bytes(a, b) \in [1 .. b - a + 1 -> 1 .. MaxGiven]
  BY <1>1 DEF Bytes
<1> QED BY <1>1, <1>2, SeqDef

----------------------------------------------------------------------------
(* The invariant.                                                          *)

WriterInv == WriterTypeOK /\ FileIsPrefix

(* Of an open file, the buffer holds what is missing.                      *)
LEMMA StreamTypes ==
  ASSUME WriterInv
  PROVE  /\ BufSize \in Nat \ {0} /\ MaxGiven \in Nat
         /\ taken \in Nat /\ taken <= MaxGiven
         /\ buf \in Seq(Nat) /\ Len(buf) \in Nat /\ Len(buf) < BufSize
         /\ file \in Seq(Nat) /\ Len(file) \in Nat
         /\ isOpen => Len(file) + Len(buf) = taken
<1>1. BufSize \in Nat \ {0} /\ MaxGiven \in Nat
  BY BufferAssumption
<1>2. taken \in Nat /\ taken <= MaxGiven
  BY <1>1 DEF WriterInv, WriterTypeOK
<1>3. 1 .. MaxGiven \subseteq Nat  OBVIOUS
<1>4. buf \in Seq(Nat) /\ file \in Seq(Nat)
  BY <1>3, SeqMonotonic DEF WriterInv, WriterTypeOK
<1>5. Len(buf) \in Nat /\ Len(file) \in Nat /\ Len(buf) < BufSize
  BY <1>4, LenProperties DEF WriterInv, WriterTypeOK
<1>6. ASSUME isOpen
      PROVE  Len(file) + Len(buf) = taken
  <2>1. file \o buf = Bytes(1, taken)  BY <1>6 DEF WriterInv, FileIsPrefix
  <2>2. Len(file \o buf) = Len(file) + Len(buf)  BY <1>4, ConcatProperties
  <2> QED BY <2>1, <2>2, <1>2, FirstBytes
<1> QED BY <1>1, <1>2, <1>4, <1>5, <1>6

(* What is buffered and what is handed over continue the file.             *)
LEMMA Continued ==
  ASSUME WriterInv, isOpen, NEW n \in Nat
  PROVE  LET d == buf \o Bytes(taken + 1, taken + n)
         IN  /\ d \in Seq(Nat)
             /\ Len(d) = Len(buf) + n
             /\ file \o d = Bytes(1, taken + n)
<1> DEFINE e == Bytes(taken + 1, taken + n)
<1>1. /\ taken \in Nat
      /\ buf \in Seq(Nat) /\ Len(buf) \in Nat
      /\ file \in Seq(Nat)
  BY StreamTypes
<1>2. e \in Seq(Nat) /\ Len(e) = n
  <2>1. /\ taken + 1 \in Nat /\ taken + n \in Nat
        /\ taken + 1 <= (taken + n) + 1
        /\ (taken + n) - (taken + 1) + 1 = n
    BY <1>1
  <2> QED BY <2>1, ByteRunTypes
<1>3. file \o buf = Bytes(1, taken)  BY DEF WriterInv, FileIsPrefix
<1>4. Bytes(1, taken) \o e = Bytes(1, taken + n)
  <2>1. taken + n \in Nat /\ taken <= taken + n  BY <1>1
  <2> QED BY <1>1, <2>1, BytesConcat
<1> HIDE DEF e
<1>5. file \o (buf \o e) = (file \o buf) \o e
  <2>1. file \in Seq(Nat) /\ buf \in Seq(Nat) /\ e \in Seq(Nat)
    BY <1>1, <1>2
  <2> QED BY ONLY <2>1, ConcatOfBytes
<1>6. buf \o e \in Seq(Nat) /\ Len(buf \o e) = Len(buf) + n
  BY <1>1, <1>2, ConcatProperties
<1> QED BY <1>3, <1>4, <1>5, <1>6 DEF e

(* Data that continue the file are stored as a whole.                      *)
LEMMA StoredAll ==
  ASSUME file \in Seq(Nat), NEW d \in Seq(Nat), NEW m \in Nat,
         file \o d = Bytes(1, m), Stored(d)
  PROVE  file' = Bytes(1, m) /\ Len(file') = m /\ Len(file) <= m
<1>1. file' = Bytes(1, m)  BY DEF Stored
<1>2. Len(Bytes(1, m)) = m  BY FirstBytes
<1>3. Len(file \o d) = Len(file) + Len(d)  BY ConcatProperties
<1>4. Len(file) \in Nat /\ Len(d) \in Nat  BY LenProperties
<1> QED BY <1>1, <1>2, <1>3, <1>4

(* Or up to some byte, but the last.                                       *)
LEMMA TornAt ==
  ASSUME file \in Seq(Nat), NEW d \in Seq(Nat), NEW m \in Nat,
         file \o d = Bytes(1, m), Torn(d)
  PROVE  /\ file' = Bytes(1, Len(file'))
         /\ Len(file') \in Len(file) .. m - 1
<1>1. Len(file) \in Nat /\ Len(d) \in Nat  BY LenProperties
<1>2. PICK k \in 0 .. Len(d) - 1 : file' = file \o SubSeq(d, 1, k)
  BY DEF Torn
<1>3. k \in Nat /\ k <= Len(d) /\ k < Len(d)  BY <1>1, <1>2
<1>4. /\ m = Len(file) + Len(d)
      /\ Len(file \o SubSeq(d, 1, k)) = Len(file) + k
      /\ file \o SubSeq(d, 1, k) = Bytes(1, Len(file) + k)
  <2>1. file \o d = Bytes(1, m)
    OBVIOUS
  <2>2. file \in Seq(Nat) /\ d \in Seq(Nat) /\ m \in Nat
    OBVIOUS
  <2>3. k \in Nat /\ k <= Len(d)
    BY <1>3
  <2> QED BY <2>1, <2>2, <2>3, BytesPrefix, ZenonT(60)
<1>5. /\ Len(file') = Len(file) + k
      /\ file' = Bytes(1, Len(file) + k)
  BY <1>2, <1>4, Zenon
<1>6. m = Len(file) + Len(d)  BY <1>4
<1>7. Len(file) + k \in Len(file) .. m - 1
  BY <1>1, <1>3, <1>6
<1> QED BY <1>5, <1>7, Zenon

(* The invariant, from what a step does to the file and the buffer.        *)
LEMMA Prefixed ==
  ASSUME NEW m \in 0 .. MaxGiven, file' = Bytes(1, m),
         buf' \in Seq(1 .. MaxGiven), Len(buf') < BufSize,
         isOpen' \in BOOLEAN, result' \in BOOLEAN, taken' \in 0 .. MaxGiven,
         isOpen' => file' \o buf' = Bytes(1, taken')
  PROVE  WriterInv'
<1>1. m \in Nat  BY BufferAssumption
<1>2. file' = Bytes(1, Len(file'))  BY <1>1, FirstBytes
<1>3. 1 \in Nat \ {0} /\ 1 <= m + 1  BY <1>1
<1>4. file' \in Seq(1 .. MaxGiven)  BY <1>3, BytesRange
<1> QED BY <1>2, <1>4 DEF WriterInv, WriterTypeOK, FileIsPrefix

----------------------------------------------------------------------------
(* The steps: each keeps the invariant and is a step of Output, or changes *)
(* nothing there.                                                          *)

LEMMA WriterInitInv == WriterInit => WriterInv /\ Contract!Init
<1> SUFFICES ASSUME WriterInit PROVE WriterInv /\ Contract!Init  OBVIOUS
<1>1. MaxGiven \in Nat /\ BufSize \in Nat \ {0}  BY BufferAssumption
<1>2. Bytes(1, 0) = <<>>
  <2>1. Bytes(1, 0) \in Seq(Nat) /\ Len(Bytes(1, 0)) = 0  BY FirstBytes
  <2> QED BY <2>1, EmptySeq
<1>3. <<>> \in Seq(1 .. MaxGiven) /\ Len(<<>>) = 0
  BY EmptySeq
<1>4. <<>> \o <<>> = <<>>  BY <1>3, ConcatEmptySeq
<1>5. WriterTypeOK  BY <1>1, <1>3 DEF WriterInit, WriterTypeOK
<1>6. FileIsPrefix  BY <1>2, <1>3, <1>4 DEF WriterInit, FileIsPrefix
<1>7. Contract!Init  BY <1>3 DEF WriterInit, Contract!Init
<1> QED BY <1>5, <1>6, <1>7 DEF WriterInv

(* A write that fits: nothing is stored.                                   *)
LEMMA WriteSmallStep ==
  ASSUME WriterInv, NEW n \in 0 .. MaxGiven, WriteSmall(n)
  PROVE  WriterInv' /\ Contract!Write(n)
<1> DEFINE d == buf \o Bytes(taken + 1, taken + n)
<1>1. /\ n \in Nat /\ taken \in Nat /\ MaxGiven \in Nat
      /\ taken + n \in 0 .. MaxGiven
      /\ Len(buf) \in Nat /\ Len(file) \in Nat
      /\ Len(file) + Len(buf) = taken
  BY StreamTypes DEF WriteSmall
<1>2. Len(d) = Len(buf) + n /\ file \o d = Bytes(1, taken + n)
  BY <1>1, Continued DEF WriteSmall
<1>3. d \in Seq(1 .. MaxGiven)
  <2>1. /\ taken + 1 \in Nat \ {0}
        /\ taken + 1 <= taken + n + 1
    BY <1>1
  <2>2. Bytes(taken + 1, taken + n) \in Seq(1 .. MaxGiven)
    BY <1>1, <2>1, BytesRange
  <2> QED BY <2>2, ConcatProperties DEF WriterInv, WriterTypeOK
<1>4. WriterInv'
  <2>1. /\ buf' = d /\ file' = file /\ taken' = taken + n
        /\ isOpen' = TRUE /\ result' = TRUE /\ Len(d) < BufSize
    BY <1>2 DEF WriteSmall, Done, FitsBuffer
  <2>2. Len(file) \in 0 .. MaxGiven  BY <1>1
  <2>3. file' = Bytes(1, Len(file))
    BY <2>1 DEF WriterInv, FileIsPrefix
  <2> HIDE DEF d
  <2> QED BY <1>1, <1>2, <1>3, <2>1, <2>2, <2>3, Prefixed
<1>5. Contract!Write(n)
  BY <1>1 DEF WriteSmall, Done, Contract!Write
<1> QED BY <1>4, <1>5

(* A write that fills the buffer: the file takes it, and the tail stays in *)
(* memory; or the file breaks.                                             *)
LEMMA WriteMiddleStep ==
  ASSUME WriterInv, NEW n \in 0 .. MaxGiven, WriteMiddle(n)
  PROVE  WriterInv' /\ Contract!Write(n)
<1> DEFINE m == BufSize - Len(buf)
           full == buf \o Bytes(taken + 1, taken + m)
           rest == Bytes(taken + m + 1, taken + n)
<1>1. /\ n \in Nat /\ taken \in Nat /\ MaxGiven \in Nat
      /\ taken + n \in 0 .. MaxGiven
      /\ BufSize \in Nat \ {0}
      /\ Len(buf) \in Nat /\ Len(file) \in Nat /\ Len(buf) < BufSize
      /\ Len(file) + Len(buf) = taken
      /\ buf \in Seq(Nat) /\ file \in Seq(Nat)
  <2>1. isOpen /\ taken + n <= MaxGiven /\ n \in Nat
    BY StreamTypes DEF WriteMiddle
  <2>2. taken \in Nat /\ MaxGiven \in Nat /\ BufSize \in Nat \ {0}
    BY StreamTypes
  <2> QED BY <2>1, <2>2, StreamTypes
<1>2. m \in Nat /\ m <= n /\ n - m < BufSize /\ m + Len(buf) = BufSize
  BY <1>1 DEF WriteMiddle, FitsBuffer
<1>3. full \in Seq(Nat) /\ file \o full = Bytes(1, taken + m)
  <2>1. isOpen /\ WriterInv /\ m \in Nat
    BY <1>2 DEF WriteMiddle
  <2>2. \A k \in Nat :
          LET d == buf \o Bytes(taken + 1, taken + k)
          IN  d \in Seq(Nat) /\ file \o d = Bytes(1, taken + k)
    BY <2>1, Continued
  <2> QED BY <2>1, <2>2
<1>4. \/ Stored(full) /\ buf' = rest /\ Done(n)
      \/ Torn(full) /\ Fail /\ UNCHANGED buf
  BY DEF WriteMiddle
<1>5. taken + m \in Nat /\ taken + m <= taken + n  BY <1>1, <1>2
<1> HIDE DEF m, full, rest
<1>6. CASE Stored(full) /\ buf' = rest /\ Done(n)
  <2>1. /\ file' = Bytes(1, taken + m)
        /\ Len(file') = taken + m /\ Len(file) <= taken + m
    BY <1>1, <1>3, <1>5, <1>6, StoredAll
  <2>2. /\ rest \in Seq(1 .. MaxGiven)
        /\ Len(rest) = n - m
    <3>1. /\ taken + m + 1 \in Nat \ {0} /\ taken + m + 1 \in Nat
          /\ taken + n \in Nat
          /\ taken + m + 1 <= taken + n + 1
          /\ (taken + n) - (taken + m + 1) + 1 = n - m
      BY <1>1, <1>2
    <3> QED BY <1>1, <3>1, BytesRange, ByteRunTypes DEF rest
  <2>3. file' \o buf' = Bytes(1, taken + n)
    <3>1. Bytes(1, taken + m) \o rest = Bytes(1, taken + n)
      <4>1. taken + n \in Nat  BY <1>1
      <4> QED BY <4>1, <1>5, BytesConcat DEF rest
    <3> QED BY <3>1, <2>1, <1>6
  <2>4. isOpen' = TRUE /\ result' = TRUE /\ taken' = taken + n
    BY <1>6 DEF Done
  <2>5. WriterInv'
    <3>1. taken + m \in 0 .. MaxGiven  BY <1>1, <1>5
    <3>2. Len(buf') < BufSize  BY <1>2, <1>6, <2>2
    <3> QED BY <3>1, <3>2, <2>1, <2>2, <2>3, <2>4, <1>1, <1>6, Prefixed
  <2>6. Contract!Write(n)
    <3>1. Len(file') \in Len(file) .. taken + n  BY <1>1, <1>5, <2>1
    <3>2. isOpen /\ isOpen' = isOpen  BY <2>4 DEF WriteMiddle
    <3> QED BY <3>1, <3>2, <2>4 DEF Contract!Write
  <2> QED BY <2>5, <2>6
<1>7. CASE Torn(full) /\ Fail /\ UNCHANGED buf
  <2>1. /\ file' = Bytes(1, Len(file'))
        /\ Len(file') \in Len(file) .. taken + m - 1
    <3> DEFINE g == taken + m
    <3>1. g \in Nat /\ file \o full = Bytes(1, g)  BY <1>3, <1>5
    <3> HIDE DEF g
    <3>2. /\ file' = Bytes(1, Len(file'))
          /\ Len(file') \in Len(file) .. g - 1
      BY <3>1, <1>1, <1>3, <1>7, TornAt
    <3> QED BY <3>2, <1>1, <1>2 DEF g
  <2>2. isOpen' = FALSE /\ result' = FALSE /\ taken' = taken /\ buf' = buf
    BY <1>7 DEF Fail, CloseOnFailure
  <2>3. Len(file') \in Len(file) .. taken + n - 1
    BY <2>1, <1>1, <1>2, <1>5
  <2>4. WriterInv'
    <3>1. Len(file') \in 0 .. MaxGiven  BY <2>3, <1>1
    <3>2. /\ buf' \in Seq(1 .. MaxGiven) /\ Len(buf') < BufSize
          /\ taken' \in 0 .. MaxGiven
      BY <2>2 DEF WriterInv, WriterTypeOK
    <3> QED BY <3>1, <3>2, <2>1, <2>2, Prefixed
  <2>5. Contract!Write(n)
    <3>1. isOpen  BY DEF WriteMiddle
    <3>2. Contract!Break(taken + n)
      BY <3>1, <2>2, <2>3, <1>1 DEF Contract!Break
    <3> QED BY <3>2 DEF Contract!Write
  <2> QED BY <2>4, <2>5
<1> QED BY <1>4, <1>6, <1>7

(* What is left of a step that empties the buffer, when data up to byte m  *)
(* of the stream are stored or torn.                                       *)
LEMMA Emptied ==
  ASSUME WriterInv, isOpen, TakeBuffer, NEW d \in Seq(Nat),
         NEW m \in 0 .. MaxGiven, file \o d = Bytes(1, m),
         isOpen' \in BOOLEAN, result' \in BOOLEAN,
         taken' \in 0 .. MaxGiven, isOpen' => taken' = m,
         Stored(d) \/ (Torn(d) /\ ~ isOpen')
  PROVE  /\ WriterInv'
         /\ Stored(d) => Len(file') = m /\ Len(file) <= m
         /\ Torn(d) => Len(file') \in Len(file) .. m - 1
<1>1. /\ MaxGiven \in Nat /\ m \in Nat /\ BufSize \in Nat \ {0}
      /\ Len(file) \in Nat /\ file \in Seq(Nat)
  BY StreamTypes
<1>2. /\ buf' = <<>> /\ buf' \in Seq(1 .. MaxGiven)
      /\ Len(buf') = 0 /\ Len(buf') < BufSize
  BY <1>1, EmptySeq DEF TakeBuffer
<1>3. ASSUME Stored(d)
      PROVE  /\ WriterInv'
             /\ Len(file') = m /\ Len(file) <= m
  <2>1. file' = Bytes(1, m) /\ Len(file') = m /\ Len(file) <= m
    BY <1>1, <1>3, StoredAll
  <2>2. file' \o buf' = Bytes(1, m)
    <3>1. Bytes(1, m) \in Seq(Nat)  BY <1>1, FirstBytes
    <3> QED BY <3>1, <2>1, <1>2, ConcatEmptySeq
  <2>3. WriterInv'  BY <2>1, <2>2, <1>2, Prefixed
  <2> QED BY <2>1, <2>3
<1>4. ASSUME Torn(d)
      PROVE  Len(file') \in Len(file) .. m - 1 /\ (~ isOpen' => WriterInv')
  <2>1. /\ file' = Bytes(1, Len(file'))
        /\ Len(file') \in Len(file) .. m - 1
    BY <1>1, <1>4, TornAt
  <2>2. Len(file') \in 0 .. MaxGiven  BY <2>1, <1>1
  <2>3. ASSUME ~ isOpen' PROVE WriterInv'
    BY <2>1, <2>2, <2>3, <1>2, Prefixed
  <2> QED BY <2>1, <2>3
<1> QED BY <1>3, <1>4

(* A write of two buffers or more: what is buffered and the bytes are      *)
(* stored, or torn.                                                        *)
LEMMA WriteLargeStep ==
  ASSUME WriterInv, NEW n \in 0 .. MaxGiven, WriteLarge(n)
  PROVE  WriterInv' /\ Contract!Write(n)
<1> DEFINE d == buf \o Bytes(taken + 1, taken + n)
           m == taken + n
<1>1. /\ n \in Nat /\ taken \in Nat /\ MaxGiven \in Nat
      /\ m \in 0 .. MaxGiven /\ m \in Nat /\ taken <= m
      /\ Len(buf) \in Nat /\ Len(file) \in Nat
      /\ Len(file) + Len(buf) = taken
  BY StreamTypes DEF WriteLarge
<1>2. d \in Seq(Nat) /\ file \o d = Bytes(1, m)
  BY <1>1, Continued DEF WriteLarge
<1>3. isOpen /\ TakeBuffer  BY DEF WriteLarge
<1>4. \/ Stored(d) /\ Done(n)
      \/ Torn(d) /\ Fail
  BY DEF WriteLarge
<1>5. Done(n) => isOpen' = TRUE /\ result' = TRUE /\ taken' = m
  BY DEF Done
<1>6. Fail => isOpen' = FALSE /\ result' = FALSE /\ taken' = taken
  BY DEF Fail, CloseOnFailure
<1>7. taken \in 0 .. MaxGiven  BY <1>1
<1> HIDE DEF d, m
<1>8. CASE Stored(d) /\ Done(n)
  <2>1. WriterInv' /\ Len(file') = m /\ Len(file) <= m
    BY <1>1, <1>2, <1>3, <1>5, <1>8, Emptied
  <2>2. Len(file') \in Len(file) .. m  BY <2>1, <1>1
  <2>3. Contract!Write(n)
    BY <2>2, <1>1, <1>3, <1>5, <1>8 DEF Contract!Write, m
  <2> QED BY <2>1, <2>3
<1>9. CASE Torn(d) /\ Fail
  <2>1. WriterInv' /\ Len(file') \in Len(file) .. m - 1
    BY <1>1, <1>2, <1>3, <1>6, <1>7, <1>9, Emptied
  <2>2. Contract!Break(m)
    BY <2>1, <1>1, <1>3, <1>6, <1>9 DEF Contract!Break
  <2> QED BY <2>1, <2>2 DEF Contract!Write, m
<1> QED BY <1>4, <1>8, <1>9

(* The data of a flush: they continue the file up to the last byte handed  *)
(* over.                                                                   *)
LEMMA Buffered ==
  ASSUME WriterInv, isOpen
  PROVE  /\ taken \in 0 .. MaxGiven /\ taken \in Nat
         /\ Len(file) \in Nat
         /\ buf \in Seq(Nat) /\ file \o buf = Bytes(1, taken)
  BY StreamTypes DEF WriterInv, FileIsPrefix

LEMMA FlushStep ==
  ASSUME WriterInv, Flush
  PROVE  WriterInv' /\ Contract!Flush
<1>1. isOpen /\ TakeBuffer  BY DEF Flush
<1>2. /\ taken \in 0 .. MaxGiven /\ taken \in Nat
      /\ Len(file) \in Nat
      /\ buf \in Seq(Nat) /\ file \o buf = Bytes(1, taken)
  BY <1>1, Buffered
<1>3. CASE Stored(buf) /\ Done(0)
  <2>1. isOpen' = TRUE /\ result' = TRUE /\ taken' = taken
    BY <1>2, <1>3 DEF Done
  <2>2. WriterInv' /\ Len(file') = taken
    BY <2>1, <1>1, <1>2, <1>3, Emptied
  <2> QED BY <2>1, <2>2, <1>1 DEF Contract!Flush
<1>4. CASE Torn(buf) /\ Fail
  <2>1. isOpen' = FALSE /\ result' = FALSE /\ taken' = taken
    BY <1>4 DEF Fail, CloseOnFailure
  <2>2. WriterInv' /\ Len(file') \in Len(file) .. taken - 1
    BY <2>1, <1>1, <1>2, <1>4, Emptied
  <2>3. Contract!Break(taken)
    BY <2>1, <2>2, <1>1, <1>2 DEF Contract!Break
  <2> QED BY <2>2, <2>3 DEF Contract!Flush
<1> QED BY <1>3, <1>4 DEF Flush

LEMMA DestroyStep ==
  ASSUME WriterInv, Destroy
  PROVE  WriterInv' /\ Contract!Close
<1>1. /\ isOpen /\ isOpen' = FALSE /\ TakeBuffer
      /\ taken' = taken /\ result' = result
      /\ Stored(buf) \/ Torn(buf)
  BY DEF Destroy
<1>2. /\ taken \in 0 .. MaxGiven /\ taken \in Nat
      /\ Len(file) \in Nat
      /\ buf \in Seq(Nat) /\ file \o buf = Bytes(1, taken)
  BY <1>1, Buffered
<1>3. result \in BOOLEAN  BY DEF WriterInv, WriterTypeOK
<1>4. /\ WriterInv'
      /\ Stored(buf) => Len(file') = taken /\ Len(file) <= taken
      /\ Torn(buf) => Len(file') \in Len(file) .. taken - 1
  BY <1>1, <1>2, <1>3, Emptied
<1>5. Len(file') \in Len(file) .. taken
  BY <1>1, <1>2, <1>4
<1> QED BY <1>1, <1>2, <1>4, <1>5 DEF Contract!Close

(* A call on a closed file changes the answer alone.                       *)
LEMMA RefuseStep ==
  ASSUME WriterInv, Refuse
  PROVE  WriterInv' /\ Contract!Refuse
<1>1. /\ ~ isOpen /\ result' = FALSE
      /\ buf' = buf /\ file' = file /\ isOpen' = isOpen /\ taken' = taken
  BY DEF Refuse
<1> QED BY <1>1 DEF WriterInv, WriterTypeOK, FileIsPrefix, Contract!Refuse

(* A step that changes nothing.                                            *)
LEMMA Stuttering ==
  ASSUME WriterInv, UNCHANGED fileVars
  PROVE  WriterInv' /\ UNCHANGED Contract!vars
  BY DEF fileVars, WriterInv, WriterTypeOK, FileIsPrefix, Contract!vars

LEMMA StepOfOutput ==
  WriterInv /\ [WriterNext]_fileVars =>
    WriterInv' /\ [Contract!Next]_(Contract!vars)
<1> SUFFICES ASSUME WriterInv, [WriterNext]_fileVars
             PROVE  WriterInv' /\ [Contract!Next]_(Contract!vars)
  OBVIOUS
<1>1. ASSUME NEW n \in 0 .. MaxGiven, Write(n)
      PROVE  WriterInv' /\ Contract!Next
  <2>1. WriterInv' /\ Contract!Write(n)
    BY <1>1, WriteSmallStep, WriteMiddleStep, WriteLargeStep DEF Write
  <2> QED BY <2>1 DEF Contract!Next
<1>2. ASSUME Flush
      PROVE  WriterInv' /\ Contract!Next
  BY <1>2, FlushStep DEF Contract!Next
<1>3. ASSUME Destroy
      PROVE  WriterInv' /\ Contract!Next
  BY <1>3, DestroyStep DEF Contract!Next
<1>4. ASSUME Refuse
      PROVE  WriterInv' /\ Contract!Next
  BY <1>4, RefuseStep DEF Contract!Next, Contract!Flush
<1>5. ASSUME UNCHANGED fileVars
      PROVE  WriterInv' /\ UNCHANGED Contract!vars
  BY <1>5, Stuttering
<1> QED BY <1>1, <1>2, <1>3, <1>4, <1>5 DEF WriterNext

----------------------------------------------------------------------------
(* For a buffer of any size: the variables keep their types, and the       *)
(* buffer is never left full (utils.cc:475-494).                           *)
THEOREM WriterTypeCorrect == WriterSpec => []WriterTypeOK
<1>1. WriterInit => WriterInv  BY WriterInitInv
<1>2. WriterInv /\ [WriterNext]_fileVars => WriterInv'  BY StepOfOutput
<1>3. WriterInv => WriterTypeOK  BY DEF WriterInv
<1> QED BY <1>1, <1>2, <1>3, PTL DEF WriterSpec

(* The file is a prefix of the stream, and while it is open the buffer     *)
(* holds what is missing (utils.cc:443-494).                               *)
THEOREM FileIsAlwaysPrefix == WriterSpec => []FileIsPrefix
<1>1. WriterInit => WriterInv  BY WriterInitInv
<1>2. WriterInv /\ [WriterNext]_fileVars => WriterInv'  BY StepOfOutput
<1>3. WriterInv => FileIsPrefix  BY DEF WriterInv
<1> QED BY <1>1, <1>2, <1>3, PTL DEF WriterSpec

(* FileWriter implements Output: every step is a step of a writer as a     *)
(* build sees it, or changes nothing of it (utils.cc:443-494).             *)
THEOREM WriterIsOutput == WriterSpec => IsOutput
<1>1. WriterInit => WriterInv /\ Contract!Init  BY WriterInitInv
<1>2. WriterInv /\ [WriterNext]_fileVars =>
        WriterInv' /\ [Contract!Next]_(Contract!vars)
  BY StepOfOutput
<1> QED BY <1>1, <1>2, PTL DEF WriterSpec, IsOutput, Contract!Spec


============================================================================
