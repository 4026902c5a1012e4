---------------------------- MODULE LookupProofs ----------------------------
(***************************************************************************)
(* Proofs about the pipelines and the batch lookups, for any depth, any    *)
(* number of cells, batches of any length, and any packs and patches.      *)
(***************************************************************************)
EXTENDS Lookup, FiniteSetTheorems, SequenceTheorems, TLAPS

(* The width of r rows of cells.                                           *)
Span(r) == M * r

(* The pipeline goes through rounds: in round x, stage d is for item       *)
(* x - Span(d - 1), if there is such an item.  The loops only leave out    *)
(* the calls for which there is none.                                      *)
Round ==
  CASE pc = "fill" -> Span(row - 1) + step
    [] pc = "steady" -> step
    [] OTHER -> n + Span(row - 1) + step

At(d) == Round - Span(d - 1)

(* The cell of the round.                                                  *)
Cell == IF pc = "fill" THEN step ELSE k

(* What cell c of stage d stands for, in round x with cell b, when the     *)
(* stages after st have been called in it.                                 *)
Held(x, b, st, d, c) ==
  x - Span(d - 1) + (c - b) - (IF c < b \/ (c = b /\ st < d) THEN 0 ELSE M)

Cells(ss, x, b, st) ==
  \A d \in 1 .. D - 1, c \in 0 .. M - 1 :
    Held(x, b, st, d, c) \in 0 .. n - 1 => ss[d][c] = Held(x, b, st, d, c)

InTurn == \A j \in 1 .. Len(done) : done[j] = j - 1

Piping ==
  /\ n >= Span(D - 1)
  /\ Cells(s, Round, Cell, stage)

Full == Len(done) = At(D) + (IF stage < D THEN 1 ELSE 0)

ShortInv ==
  /\ n < Span(D - 1)
  /\ step \in 0 .. n - 1 /\ stage \in 1 .. D
  /\ ctx \in [0 .. Span(D - 1) - 2 -> Int]
  /\ \A i \in 0 .. n - 1 : (stage > 1 \/ i < step) => ctx[i] = i
  /\ Len(done) = IF stage = D THEN step ELSE 0

FillInv ==
  /\ Piping /\ Len(done) = 0
  /\ k = 0 /\ step \in 0 .. M - 1
  /\ row \in 1 .. D - 1 /\ stage \in 1 .. row

SteadyInv ==
  /\ Piping /\ Full /\ row = 1
  /\ step \in Span(D - 1) .. n - 1 /\ stage \in 1 .. D

DrainInv ==
  /\ Piping /\ Full
  /\ step \in 0 .. M - 1
  /\ row \in 1 .. D - 1 /\ stage \in row + 1 .. D

DoneInv == Len(done) = n /\ step = 0 /\ stage \in 1 .. D + 1

Common ==
  /\ batch \in Batches
  /\ row \in 1 .. D /\ k \in 0 .. M - 1
  /\ s \in [1 .. D - 1 -> [0 .. M - 1 -> -2 .. n - 1]]
  /\ done \in Seq(0 .. n - 1) /\ InTurn

PipeInv ==
  /\ Common
  /\ \/ pc = "short" /\ ShortInv
     \/ pc = "fill" /\ FillInv
     \/ pc = "steady" /\ SteadyInv
     \/ pc = "drain" /\ DrainInv
     \/ pc = "done" /\ DoneInv

(* Item i has gone through stage d, in round x after the stages above st.  *)
Did(x, st, d, i) ==
  i < x - Span(d - 1) \/ (i = x - Span(d - 1) /\ st < d)

Went(d, i) ==
  CASE pc = "short" -> d < stage \/ (d = stage /\ i < step)
    [] pc = "done" -> TRUE
    [] OTHER -> Did(Round, stage, d, i)

FromPatch(key) ==
  IF key \in Content(call.patch) THEN <<"patch", key>> ELSE None2

Want(i) ==
  LET e == Expected(call.keys[i])
  IN  IF call.op = "locate" THEN <<"at", call.keys[i]>>
      ELSE IF call.op # "fetch" \/ e # None2 THEN e
      ELSE IF call.default THEN <<"default", NoKey>> ELSE Untouched

Kept(i) ==
  LET key == call.keys[i]
  IN  /\ keyAt[i] = IF i < Len(done) /\ call.inPlace THEN NoKey ELSE key
      /\ relay[i] = IF D = 7 /\ Went(4, i) THEN FromPatch(key) ELSE None2
      /\ id[i] = IF Went(1, i) /\ relay[i] = None2 THEN key ELSE NoKey
      /\ out[i] = IF i < Len(done) THEN Want(i) ELSE Untouched

Listed ==
  IF call.op = "fetch" /\ ~ call.default /\ call.misses THEN Misses ELSE {}

CallInv ==
  /\ call \in Calls
  /\ batch = [call.batch EXCEPT !.n = IF Refuses(call) THEN 0 ELSE @]
  /\ D = Depth(call)
  /\ \A f \in {keyAt, id, relay, out} : DOMAIN f = 0 .. call.batch.n - 1

ItemsInv ==
  /\ \A i \in 0 .. n - 1 : Kept(i)
  /\ \A i \in n .. call.batch.n - 1 :
       /\ keyAt[i] = call.keys[i] /\ id[i] = NoKey
       /\ relay[i] = None2 /\ out[i] = Untouched

CountsInv ==
  /\ hits \in Nat
  /\ IF call.op = "locate" THEN hits = 0
     ELSE hits + Cardinality(Misses) = Len(done)
  /\ missed \in Seq(0 .. Len(done) - 1)
  /\ \A a, b \in 1 .. Len(missed) : a < b => missed[a] < missed[b]
  /\ {missed[a] : a \in 1 .. Len(missed)} = Listed

LookupInv == PipeInv /\ CallInv /\ ItemsInv /\ CountsInv

----------------------------------------------------------------------------
LEMMA SpanFacts ==
  ASSUME batch \in Batches
  PROVE  /\ D \in Nat /\ D >= 2 /\ M \in Nat /\ M >= 1 /\ n \in Nat
         /\ Span(0) = 0 /\ Span(1) = M
         /\ \A a \in Int : /\ Span(a) \in Int
                           /\ Span(a + 1) = Span(a) + M
                           /\ Span(a - 1) = Span(a) - M
         /\ \A a, b \in Int : /\ Span(a - b) = Span(a) - Span(b)
                              /\ a <= b => Span(a) <= Span(b)
                              /\ a < b => Span(a) + M <= Span(b)
<1>1. D \in Nat /\ D >= 2 /\ M \in Nat /\ M >= 1 /\ n \in Nat
  BY BatchAssumption DEF D, M, n
<1>2. \A w \in Nat, a, b \in Int : /\ w * a \in Int
                                   /\ w * (a + 1) = w * a + w
                                   /\ w * (a - 1) = w * a - w
                                   /\ w * (a - b) = w * a - w * b
  OBVIOUS
<1>3. \A w \in Nat, a \in Nat : w * a >= 0
  OBVIOUS
<1>4. \A a \in Int : /\ Span(a) \in Int
                     /\ Span(a + 1) = Span(a) + M
                     /\ Span(a - 1) = Span(a) - M
  BY <1>1, <1>2 DEF Span
<1>5. \A a, b \in Int : Span(a - b) = Span(a) - Span(b)
  BY <1>1, <1>2 DEF Span
<1>6. \A a \in Nat : Span(a) >= 0
  BY <1>1, <1>3 DEF Span
<1>7. ASSUME NEW a \in Int, NEW b \in Int, a <= b
      PROVE  Span(a) <= Span(b)
  <2>1. b - a \in Nat /\ Span(b - a) >= 0
    BY <1>6, <1>7
  <2>2. Span(b - a) = Span(b) - Span(a) /\ Span(a) \in Int /\ Span(b) \in Int
    BY <1>4, <1>5
  <2> QED BY <2>1, <2>2
<1>8. ASSUME NEW a \in Int, NEW b \in Int, a < b
      PROVE  Span(a) + M <= Span(b)
  <2>1. a + 1 \in Int /\ a + 1 <= b
    BY <1>8
  <2>2. Span(a + 1) <= Span(b) /\ Span(a + 1) = Span(a) + M
    BY <1>4, <1>7, <2>1
  <2> QED BY <2>2
<1>9. Span(0) = 0 /\ Span(1) = M
  BY <1>1 DEF Span
<1> QED BY <1>1, <1>4, <1>5, <1>7, <1>8, <1>9

LEMMA Sizes ==
  ASSUME batch \in Batches
  PROVE  /\ D \in Nat /\ D >= 2 /\ M \in Nat /\ M >= 1 /\ n \in Nat
         /\ Span(0) = 0 /\ Span(1) = M /\ Span(D - 1) \in Int
<1>1. D \in Nat /\ D >= 2 /\ M \in Nat /\ M >= 1 /\ n \in Nat
      /\ Span(0) = 0 /\ Span(1) = M
  BY SpanFacts
<1>2. D - 1 \in Int
  BY <1>1
<1> QED BY <1>1, <1>2, SpanFacts

LEMMA SpanOrder ==
  ASSUME batch \in Batches, NEW a \in Int, NEW b \in Int
  PROVE  /\ Span(a) \in Int /\ Span(b) \in Int
         /\ a <= b => Span(a) <= Span(b)
         /\ a < b => Span(a) + M <= Span(b)
BY SpanFacts

LEMMA SpanMinus ==
  ASSUME batch \in Batches, NEW a \in Int, NEW b \in Int
  PROVE  Span(a - b) = Span(a) - Span(b)
BY SpanFacts

(* The cell that is read for an item holds the item.                       *)
LEMMA HeldBefore ==
  ASSUME batch \in Batches, NEW x \in Int, NEW b \in 0 .. M - 1,
         NEW st \in 1 .. D, st > 1
  PROVE  Held(x, b, st, st - 1, b) = x - Span(st - 1)
<1>1. D \in Nat /\ M \in Nat /\ st \in Int /\ st - 1 \in Int
  BY SpanFacts
<1>2. Span((st - 1) - 1) = Span(st - 1) - M /\ Span(st - 1) \in Int
  BY <1>1, SpanFacts
<1>3. ~ (b < b \/ (b = b /\ st < st - 1)) /\ b \in Int
  BY <1>1
<1>4. Held(x, b, st, st - 1, b) = x - Span((st - 1) - 1) + (b - b) - M
  BY <1>3 DEF Held
<1>5. x - (Span(st - 1) - M) + (b - b) - M = x - Span(st - 1)
  BY <1>1, <1>2, <1>3
<1> QED BY <1>2, <1>4, <1>5

(* A call of stage st puts its item into its cell, and reads its item from *)
(* that of the stage before.                                               *)
LEMMA CallKeeps ==
  ASSUME batch \in Batches, batch' = batch,
         s \in [1 .. D - 1 -> [0 .. M - 1 -> -2 .. n - 1]],
         NEW x \in Int, NEW b \in 0 .. M - 1, NEW st \in 1 .. D,
         Cells(s, x, b, st), Item = x - Span(st - 1), Item \in 0 .. n - 1,
         Call(st, b)
  PROVE  /\ st > 1 => s[st - 1][b] = Item
         /\ s' \in [1 .. D - 1 -> [0 .. M - 1 -> -2 .. n - 1]]
         /\ Cells(s', x, b, st - 1)
         /\ done' = IF st = D THEN Append(done, Item) ELSE done
<1>0. D \in Nat /\ D >= 2 /\ M \in Nat /\ M >= 1 /\ n \in Nat
  BY SpanFacts
<1> USE <1>0
<1>1. ASSUME st > 1 PROVE s[st - 1][b] = Item
  <2>1. st - 1 \in 1 .. D - 1 /\ ~ st < st - 1
    BY <1>1
  <2>3. Held(x, b, st, st - 1, b) = Item
    BY <1>1, HeldBefore
  <2> QED BY <2>1, <2>3 DEF Cells
<1>2. Result(st, IF st = 1 THEN None ELSE s[st - 1][b], Item) = Item
  BY <1>1 DEF Result
<1>3. CASE st = D
  <2>1. s' = s /\ done' = Append(done, Item)
    BY <1>2, <1>3 DEF Call
  <2>2. ASSUME NEW d \in 1 .. D - 1, NEW c \in 0 .. M - 1
        PROVE  Held(x, b, st - 1, d, c) = Held(x, b, st, d, c)
    <3>1. st < d <=> st - 1 < d
      BY <1>3
    <3> QED BY <3>1 DEF Held
  <2>3. Cells(s, x, b, st - 1)
    BY <2>2 DEF Cells
  <2> QED BY <1>1, <1>3, <2>1, <2>3
<1>4. CASE st # D
  <2>1. st \in 1 .. D - 1 /\ st < D
    BY <1>4
  <2>2. s' = [s EXCEPT ![st][b] = Item] /\ done' = done
    BY <1>2, <2>1 DEF Call
  <2>3. s' \in [1 .. D - 1 -> [0 .. M - 1 -> -2 .. n - 1]]
    <3>1. Item \in -2 .. n - 1
      OBVIOUS
    <3> QED BY <2>1, <2>2, <3>1
  <2>4. s'[st][b] = Item
    BY <2>1, <2>2
  <2>5. ASSUME NEW d \in 1 .. D - 1, NEW c \in 0 .. M - 1, d # st \/ c # b
        PROVE  /\ s'[d][c] = s[d][c]
               /\ Held(x, b, st - 1, d, c) = Held(x, b, st, d, c)
    <3>1. s'[d][c] = s[d][c]
      BY <2>1, <2>2, <2>5
    <3>2. (c = b /\ st < d) <=> (c = b /\ st - 1 < d)
      BY <2>1, <2>5
    <3> QED BY <3>1, <3>2 DEF Held
  <2>6. Held(x, b, st - 1, st, b) = Item
    <3>1. Span(st - 1) \in Int
      BY SpanFacts
    <3>2. st - 1 < st
      OBVIOUS
    <3> QED BY <3>1, <3>2 DEF Held
  <2>7. Cells(s', x, b, st - 1)
    BY <2>4, <2>5, <2>6 DEF Cells
  <2> QED BY <1>1, <1>4, <2>2, <2>3, <2>7
<1> QED BY <1>3, <1>4

(* After a round, the next one begins with the next cell.                  *)
LEMMA RoundEnds ==
  ASSUME batch \in Batches, NEW ss, NEW x \in Int, NEW b \in 0 .. M - 1,
         Cells(ss, x, b, 0)
  PROVE  /\ b + 1 < M => Cells(ss, x + 1, b + 1, D)
         /\ b + 1 >= M => Cells(ss, x + 1, 0, D)
         /\ \A d \in 1 .. D, i \in 0 .. n - 1 :
              Did(x + 1, D, d, i) <=> Did(x, 0, d, i)
<1>0. D \in Nat /\ D >= 2 /\ M \in Nat /\ M >= 1 /\ n \in Nat
  BY SpanFacts
<1> USE <1>0
<1>1. ASSUME NEW d \in 1 .. D - 1, NEW c \in 0 .. M - 1, b + 1 < M
      PROVE  Held(x + 1, b + 1, D, d, c) = Held(x, b, 0, d, c)
  <2>1. Span(d - 1) \in Int
    BY SpanFacts
  <2>2. ~ D < d /\ 0 < d /\ (c < b + 1 <=> c < b \/ c = b)
    OBVIOUS
  <2> QED BY <2>1, <2>2 DEF Held
<1>2. ASSUME NEW d \in 1 .. D - 1, NEW c \in 0 .. M - 1, b + 1 >= M
      PROVE  Held(x + 1, 0, D, d, c) = Held(x, b, 0, d, c)
  <2>1. Span(d - 1) \in Int
    BY SpanFacts
  <2>2. ~ D < d /\ 0 < d /\ b = M - 1 /\ ~ c < 0 /\ (c < b \/ c = b)
    BY <1>2
  <2> QED BY <2>1, <2>2 DEF Held
<1>3. ASSUME NEW d \in 1 .. D, NEW i \in 0 .. n - 1
      PROVE  Did(x + 1, D, d, i) <=> Did(x, 0, d, i)
  <2>1. Span(d - 1) \in Int
    BY SpanFacts
  <2>2. ~ D < d /\ 0 < d
    OBVIOUS
  <2> QED BY <2>1, <2>2 DEF Did
<1> QED BY <1>1, <1>2, <1>3 DEF Cells

(* Stages for which there is no item need not be called.                   *)
LEMMA Skipped ==
  ASSUME batch \in Batches, NEW ss, NEW x \in Int, NEW b \in 0 .. M - 1,
         NEW hi \in 0 .. D, NEW lo \in 0 .. hi, Cells(ss, x, b, hi),
         \A d \in lo + 1 .. hi : x - Span(d - 1) \notin 0 .. n - 1
  PROVE  /\ Cells(ss, x, b, lo)
         /\ \A d \in 1 .. D, i \in 0 .. n - 1 :
              Did(x, lo, d, i) <=> Did(x, hi, d, i)
<1>0. D \in Nat /\ D >= 2 /\ M \in Nat /\ M >= 1 /\ n \in Nat
  BY SpanFacts
<1> USE <1>0
<1>1. ASSUME NEW d \in 1 .. D - 1, NEW c \in 0 .. M - 1,
             Held(x, b, lo, d, c) \in 0 .. n - 1
      PROVE  ss[d][c] = Held(x, b, lo, d, c)
  <2>1. CASE c = b /\ d \in lo + 1 .. hi
    <3>1. Span(d - 1) \in Int
      BY SpanFacts
    <3>2. lo < d
      BY <2>1
    <3>3. Held(x, b, lo, d, c) = x - Span(d - 1)
      BY <2>1, <3>1, <3>2 DEF Held
    <3> QED BY <1>1, <2>1, <3>3
  <2>2. CASE ~ (c = b /\ d \in lo + 1 .. hi)
    <3>1. c = b => (lo < d <=> hi < d)
      BY <2>2
    <3>2. Held(x, b, lo, d, c) = Held(x, b, hi, d, c)
      BY <3>1 DEF Held
    <3> QED BY <1>1, <3>2 DEF Cells
  <2> QED BY <2>1, <2>2
<1>2. ASSUME NEW d \in 1 .. D, NEW i \in 0 .. n - 1
      PROVE  Did(x, lo, d, i) <=> Did(x, hi, d, i)
  <2>1. CASE d \in lo + 1 .. hi
    BY <2>1 DEF Did
  <2>2. CASE d \notin lo + 1 .. hi
    <3>1. lo < d <=> hi < d
      BY <2>2
    <3> QED BY <3>1 DEF Did
  <2> QED BY <2>1, <2>2
<1> QED BY <1>1, <1>2 DEF Cells

(* The stages above lo have no item yet, or those up to hi none any more.  *)
LEMMA NotBegun ==
  ASSUME batch \in Batches, NEW ss, NEW x \in Int, NEW b \in 0 .. M - 1,
         NEW lo \in 0 .. D, Cells(ss, x, b, D), x < Span(lo)
  PROVE  /\ Cells(ss, x, b, lo)
         /\ \A d \in 1 .. D, i \in 0 .. n - 1 :
              Did(x, lo, d, i) <=> Did(x, D, d, i)
<1>1. D \in Nat /\ D >= 2 /\ n \in Nat
  BY Sizes
<1>2. ASSUME NEW d \in lo + 1 .. D
      PROVE  x - Span(d - 1) \notin 0 .. n - 1
  <2>1. lo \in Int /\ d - 1 \in Int /\ lo <= d - 1
    BY <1>1
  <2>2. Span(lo) <= Span(d - 1) /\ Span(d - 1) \in Int /\ Span(lo) \in Int
    BY <2>1, SpanOrder
  <2> QED BY <2>2
<1> DEFINE Top == D
<1>3. Top \in 0 .. D /\ lo \in 0 .. Top /\ Cells(ss, x, b, Top)
      /\ \A d \in lo + 1 .. Top : x - Span(d - 1) \notin 0 .. n - 1
  BY <1>1, <1>2
<1>4. /\ Cells(ss, x, b, lo)
      /\ \A d \in 1 .. D, i \in 0 .. n - 1 :
           Did(x, lo, d, i) <=> Did(x, Top, d, i)
  <2> HIDE DEF Top
  <2> QED BY <1>3, Skipped
<1> QED BY <1>4

LEMMA AllThrough ==
  ASSUME batch \in Batches, NEW ss, NEW x \in Int, NEW b \in 0 .. M - 1,
         NEW hi \in 1 .. D, Cells(ss, x, b, hi), x - Span(hi - 1) >= n
  PROVE  /\ Cells(ss, x, b, 0)
         /\ \A d \in 1 .. D, i \in 0 .. n - 1 :
              Did(x, 0, d, i) <=> Did(x, hi, d, i)
<1>1. D \in Nat /\ D >= 2 /\ n \in Nat
  BY Sizes
<1>2. ASSUME NEW d \in 0 + 1 .. hi
      PROVE  x - Span(d - 1) \notin 0 .. n - 1
  <2>1. hi - 1 \in Int /\ d - 1 \in Int /\ d - 1 <= hi - 1
    BY <1>1
  <2>2. Span(d - 1) <= Span(hi - 1) /\ Span(d - 1) \in Int
        /\ Span(hi - 1) \in Int
    BY <2>1, SpanOrder
  <2> QED BY <1>1, <2>2
<1> DEFINE Zero == 0
<1>3. hi \in 0 .. D /\ Zero \in 0 .. hi
      /\ \A d \in Zero + 1 .. hi : x - Span(d - 1) \notin 0 .. n - 1
  BY <1>1, <1>2
<1>4. /\ Cells(ss, x, b, Zero)
      /\ \A d \in 1 .. D, i \in 0 .. n - 1 :
           Did(x, Zero, d, i) <=> Did(x, hi, d, i)
  <2> HIDE DEF Zero
  <2> QED BY <1>3, Skipped
<1> QED BY <1>4

(* A call is the last of its item so far, and of no other.                 *)
LEMMA DidNext ==
  ASSUME batch \in Batches, NEW x \in Int, NEW st \in 1 .. D,
         NEW item, item = x - Span(st - 1), item \in 0 .. n - 1
  PROVE  /\ \A d \in 1 .. D, i \in 0 .. n - 1 :
              Did(x, st - 1, d, i) <=>
                Did(x, st, d, i) \/ (d = st /\ i = item)
         /\ \A d \in 1 .. st - 1 : Did(x, st, d, item)
         /\ \A d \in st .. D : ~ Did(x, st, d, item)
<1>0. D \in Nat /\ D >= 2 /\ M \in Nat /\ M >= 1 /\ n \in Nat
  BY SpanFacts
<1>1. ASSUME NEW d \in 1 .. D, NEW i \in 0 .. n - 1
      PROVE  Did(x, st - 1, d, i) <=>
                Did(x, st, d, i) \/ (d = st /\ i = item)
  <2>1. st - 1 < d <=> st < d \/ st = d
    BY <1>0
  <2> QED BY <2>1 DEF Did
<1>2. ASSUME NEW d \in 1 .. st - 1
      PROVE  Did(x, st, d, item)
  <2>1. Span(d - 1) + M <= Span(st - 1) /\ Span(d - 1) \in Int
        /\ Span(st - 1) \in Int
    <3>1. d - 1 \in Int /\ st - 1 \in Int /\ d - 1 < st - 1
      BY <1>0
    <3> QED BY <3>1, SpanFacts
  <2>2. item < x - Span(d - 1)
    BY <1>0, <2>1
  <2> QED BY <2>2 DEF Did
<1>3. ASSUME NEW d \in st .. D
      PROVE  ~ Did(x, st, d, item)
  <2>1. d - 1 \in Int /\ st - 1 \in Int /\ st - 1 <= d - 1 /\ st \in Int
    BY <1>0
  <2>2. /\ Span(d - 1) \in Int /\ Span(st - 1) \in Int
        /\ Span(st - 1) <= Span(d - 1)
        /\ st - 1 < d - 1 => Span(st - 1) + M <= Span(d - 1)
    BY <2>1, SpanOrder
  <2>3. CASE d = st
    <3>1. ~ item < x - Span(d - 1) /\ ~ st < d
      BY <1>0, <2>1, <2>2, <2>3
    <3> QED BY <3>1 DEF Did
  <2>4. CASE d # st
    <3>1. ~ item < x - Span(d - 1) /\ item # x - Span(d - 1)
      BY <1>0, <2>1, <2>2, <2>4
    <3> QED BY <3>1 DEF Did
  <2> QED BY <2>3, <2>4
<1> QED BY <1>1, <1>2, <1>3

----------------------------------------------------------------------------
(* What a call of a stage does: it is given the result of the stage before *)
(* for its own item, and the last stage is called for the items in turn.   *)
Called ==
  /\ batch' = batch
  /\ Item \in 0 .. n - 1 /\ stage \in 1 .. D
  /\ stage > 1 => Passed = Item
  /\ done' = IF stage = D THEN Append(done, Item) ELSE done
  /\ stage = D => Item = Len(done)
  /\ \A d \in 1 .. D, i \in 0 .. n - 1 :
       Went(d, i)' <=> Went(d, i) \/ (d = stage /\ i = Item)
  /\ \A d \in 1 .. stage - 1 : Went(d, Item)
  /\ \A d \in stage .. D : ~ Went(d, Item)

(* The finished items stay in turn.                                        *)
LEMMA DoneNext ==
  ASSUME batch' = batch, n \in Nat, done \in Seq(0 .. n - 1), InTurn,
         \/ done' = done
         \/ Len(done) < n /\ done' = Append(done, Len(done))
  PROVE  /\ (done \in Seq(0 .. n - 1))' /\ InTurn'
         /\ done' = done \/ Len(done') = Len(done) + 1
<1>1. n' = n
  BY DEF n
<1>2. CASE done' = done
  BY <1>1, <1>2 DEF InTurn
<1>3. CASE Len(done) < n /\ done' = Append(done, Len(done))
  <2>1. Len(done) \in 0 .. n - 1
    BY <1>3
  <2>2. done' \in Seq(0 .. n - 1) /\ Len(done') = Len(done) + 1
    BY <1>3, <2>1
  <2>3. ASSUME NEW j \in 1 .. Len(done') PROVE done'[j] = j - 1
    <3>1. CASE j = Len(done) + 1
      BY <1>3, <3>1
    <3>2. CASE j \in 1 .. Len(done)
      BY <1>3, <3>2 DEF InTurn
    <3> QED BY <2>2, <3>1, <3>2
  <2> QED BY <1>1, <2>2, <2>3 DEF InTurn
<1> QED BY <1>2, <1>3

(* Where a round and a cell lead to.                                       *)
LEMMA PipingNext ==
  ASSUME batch' = batch, NEW x, NEW b, NEW st, n >= Span(D - 1),
         Cells(s', x, b, st), Round' = x, Cell' = b, stage' = st
  PROVE  Piping'
BY DEF Piping, Cells, Held, Span, M, D, n

LEMMA WentNext ==
  ASSUME batch' = batch, NEW x, NEW st, Round' = x, stage' = st,
         (pc \notin {"short", "done"})'
  PROVE  \A d, i : Went(d, i)' <=> Did(x, st, d, i)
BY DEF Went, Did, Span, M

LEMMA SameBatch ==
  ASSUME batch' = batch
  PROVE  /\ D' = D /\ M' = M /\ n' = n
         /\ \A r : Span(r)' = Span(r)
BY DEF D, M, n, Span

LEMMA ShortStep ==
  ASSUME PipeInv, ShortCall
  PROVE  PipeInv' /\ Called
<1>1. pc = "short" /\ Common /\ ShortInv
  BY DEF PipeInv, ShortCall
<1>2. /\ D \in Nat /\ D >= 2 /\ M \in Nat /\ M >= 1 /\ n \in Nat
      /\ Span(D - 1) \in Int
  <2>1. batch \in Batches
    BY <1>1 DEF Common
  <2>2. D \in Nat /\ D >= 2 /\ M \in Nat /\ M >= 1 /\ n \in Nat
    BY <2>1, SpanFacts
  <2> QED BY <2>1, <2>2, SpanFacts
<1>3. step \in 0 .. n - 1 /\ stage \in 1 .. D /\ n < Span(D - 1)
  BY <1>1 DEF ShortInv
<1>4. /\ batch' = batch /\ row' = row /\ k' = k /\ s' = s
      /\ D' = D /\ M' = M /\ n' = n /\ Span(D - 1)' = Span(D - 1)
  BY SameBatch DEF ShortCall
<1>5. Item = step
  BY <1>1 DEF Item
<1>6. stage > 1 => ctx[step] = step
  BY <1>1, <1>3 DEF ShortInv
<1>7. Result(stage, ctx[step], step) = step
  BY <1>3, <1>6 DEF Result
<1>8. done' = IF stage = D THEN Append(done, Item) ELSE done
  BY <1>2, <1>3, <1>5, <1>7 DEF ShortCall
<1>9. Len(done) = IF stage = D THEN step ELSE 0
  BY <1>1 DEF ShortInv
<1>10. Common' /\ (done' = done \/ Len(done') = Len(done) + 1)
  <2>1. done \in Seq(0 .. n - 1) /\ InTurn
    BY <1>1 DEF Common
  <2>2. done' = done \/ (Len(done) < n /\ done' = Append(done, Len(done)))
    BY <1>2, <1>3, <1>5, <1>8, <1>9
  <2>3. /\ (done \in Seq(0 .. n - 1))' /\ InTurn'
        /\ (done' = done \/ Len(done') = Len(done) + 1)
    BY <1>2, <1>4, <2>1, <2>2, DoneNext
  <2> QED BY <1>1, <1>4, <2>3 DEF Common
<1>11. Len(done') = IF stage = D THEN step + 1 ELSE 0
  <2>1. done \in Seq(0 .. n - 1)
    BY <1>1 DEF Common
  <2>2. Len(Append(done, Item)) = Len(done) + 1
    BY <2>1
  <2> QED BY <1>8, <1>9, <2>2
<1>12. ctx \in [0 .. Span(D - 1) - 2 -> Int]
  BY <1>1 DEF ShortInv
<1>13. /\ stage # D => ctx' = [ctx EXCEPT ![step] = step]
       /\ stage = D => ctx' = ctx
  BY <1>2, <1>3, <1>7 DEF ShortCall
<1>14. ctx' \in [0 .. Span(D - 1) - 2 -> Int]
  BY <1>3, <1>12, <1>13
<1>15. ASSUME NEW i \in 0 .. n - 1, stage > 1 \/ i < step + 1
       PROVE  ctx'[i] = i
  <2>1. i \in 0 .. Span(D - 1) - 2 /\ step \in 0 .. Span(D - 1) - 2
    BY <1>2, <1>3
  <2>2. CASE i = step /\ stage = D
    BY <1>2, <1>6, <1>13, <2>2
  <2>3. CASE i = step /\ stage # D
    BY <1>12, <1>13, <2>1, <2>3
  <2>4. CASE i # step
    <3>1. stage > 1 \/ i < step
      BY <1>3, <1>15, <2>4
    <3>2. ctx[i] = i
      BY <1>1, <3>1 DEF ShortInv
    <3> QED BY <1>12, <1>13, <2>1, <2>4, <3>2
  <2> QED BY <2>2, <2>3, <2>4
<1>16. ASSUME step + 1 < n
       PROVE  /\ PipeInv'
              /\ \A d \in 1 .. D, i \in 0 .. n - 1 :
                   Went(d, i)' <=> Went(d, i) \/ (d = stage /\ i = Item)
  <2>1. pc' = "short" /\ step' = step + 1 /\ stage' = stage
    BY <1>1, <1>16 DEF ShortCall
  <2>2. \A i \in 0 .. n - 1 : (stage > 1 \/ i < step + 1) => ctx'[i] = i
    BY <1>15
  <2>3. ShortInv'
    <3>1. (step \in 0 .. n - 1 /\ stage \in 1 .. D /\ n < Span(D - 1))'
      BY <1>2, <1>3, <1>4, <1>16, <2>1
    <3>2. (\A i \in 0 .. n - 1 : (stage > 1 \/ i < step) => ctx[i] = i)'
      BY <1>4, <2>1, <2>2
    <3>3. (Len(done) = IF stage = D THEN step ELSE 0)'
      BY <1>4, <1>11, <2>1
    <3> QED BY <1>4, <1>14, <3>1, <3>2, <3>3 DEF ShortInv
  <2>4. ASSUME NEW d \in 1 .. D, NEW i \in 0 .. n - 1
        PROVE  Went(d, i)' <=> Went(d, i) \/ (d = stage /\ i = Item)
    <3>1. Went(d, i)' <=> (d < stage \/ (d = stage /\ i < step + 1))
      BY <2>1 DEF Went
    <3>2. Went(d, i) <=> (d < stage \/ (d = stage /\ i < step))
      BY <1>1 DEF Went
    <3> QED BY <1>3, <1>5, <3>1, <3>2
  <2> QED BY <1>10, <2>1, <2>3, <2>4 DEF PipeInv
<1>17. ASSUME ~ step + 1 < n
       PROVE  /\ PipeInv'
              /\ \A d \in 1 .. D, i \in 0 .. n - 1 :
                   Went(d, i)' <=> Went(d, i) \/ (d = stage /\ i = Item)
  <2>1. step' = 0 /\ stage' = stage + 1 /\ step = n - 1
    BY <1>2, <1>3, <1>17 DEF ShortCall
  <2>2. pc' = IF stage = D THEN "done" ELSE "short"
    BY <1>1, <1>17 DEF ShortCall
  <2>3. ASSUME NEW d \in 1 .. D, NEW i \in 0 .. n - 1
        PROVE  Went(d, i) <=> (d < stage \/ (d = stage /\ i < step))
    BY <1>1 DEF Went
  <2>4. CASE stage = D
    <3>1. pc' = "done" /\ DoneInv'
      BY <1>2, <1>4, <1>11, <2>1, <2>2, <2>4 DEF DoneInv
    <3>2. ASSUME NEW d \in 1 .. D, NEW i \in 0 .. n - 1
          PROVE  Went(d, i)' <=> Went(d, i) \/ (d = stage /\ i = Item)
      <4>1. Went(d, i)'
        BY <3>1 DEF Went
      <4>2. Went(d, i) \/ (d = stage /\ i = Item)
        BY <1>2, <1>5, <2>1, <2>3, <2>4
      <4> QED BY <4>1, <4>2
    <3> QED BY <1>10, <3>1, <3>2 DEF PipeInv
  <2>5. CASE stage # D
    <3>1. pc' = "short" /\ stage' \in 1 .. D /\ step' \in 0 .. n - 1
      BY <1>2, <1>3, <2>1, <2>2, <2>5
    <3>2. \A i \in 0 .. n - 1 : ctx'[i] = i
      BY <1>2, <1>15, <2>1
    <3>3. Len(done') = IF stage' = D THEN step' ELSE 0
      BY <1>11, <2>1, <2>5
    <3>4. ShortInv'
      BY <1>3, <1>4, <1>14, <3>1, <3>2, <3>3 DEF ShortInv
    <3>5. ASSUME NEW d \in 1 .. D, NEW i \in 0 .. n - 1
          PROVE  Went(d, i)' <=> Went(d, i) \/ (d = stage /\ i = Item)
      <4>1. Went(d, i)' <=> (d < stage + 1 \/ (d = stage + 1 /\ i < 0))
        BY <2>1, <3>1 DEF Went
      <4> QED BY <1>2, <1>3, <1>5, <2>1, <2>3, <4>1
    <3> QED BY <1>10, <3>1, <3>4, <3>5 DEF PipeInv
  <2> QED BY <2>4, <2>5
<1>18. /\ \A d \in 1 .. stage - 1 : Went(d, Item)
       /\ \A d \in stage .. D : ~ Went(d, Item)
  BY <1>1, <1>3, <1>5 DEF Went
<1>19. Item \in 0 .. n - 1 /\ (stage > 1 => Passed = Item)
       /\ (stage = D => Item = Len(done))
  BY <1>1, <1>3, <1>5, <1>6, <1>9 DEF Passed
<1> QED BY <1>3, <1>4, <1>8, <1>16, <1>17, <1>18, <1>19 DEF Called

(* What a call does in any of the loops.                                   *)
LEMMA PipeCall ==
  ASSUME Common, Piping, batch' = batch, pc \in {"fill", "steady", "drain"},
         stage \in 1 .. D, Cell \in 0 .. M - 1, Round \in Int,
         Item = At(stage), Item \in 0 .. n - 1,
         stage = D => Item = Len(done), Call(stage, Cell)
  PROVE  /\ stage > 1 => Passed = Item
         /\ s' \in [1 .. D - 1 -> [0 .. M - 1 -> -2 .. n - 1]]
         /\ (done \in Seq(0 .. n - 1))' /\ InTurn'
         /\ done' = IF stage = D THEN Append(done, Item) ELSE done
         /\ Len(done') = IF stage = D THEN Len(done) + 1 ELSE Len(done)
         /\ Cells(s', Round, Cell, stage - 1)
         /\ \A d \in 1 .. D, i \in 0 .. n - 1 :
              Did(Round, stage - 1, d, i) <=>
                Went(d, i) \/ (d = stage /\ i = Item)
         /\ \A d \in 1 .. stage - 1 : Went(d, Item)
         /\ \A d \in stage .. D : ~ Went(d, Item)
<1>1. /\ batch \in Batches /\ done \in Seq(0 .. n - 1) /\ InTurn
      /\ s \in [1 .. D - 1 -> [0 .. M - 1 -> -2 .. n - 1]]
  BY DEF Common
<1>2. /\ Cells(s, Round, Cell, stage) /\ Item = Round - Span(stage - 1)
      /\ n \in Nat
  BY <1>1, SpanFacts DEF Piping, At
<1>3. /\ stage > 1 => s[stage - 1][Cell] = Item
      /\ s' \in [1 .. D - 1 -> [0 .. M - 1 -> -2 .. n - 1]]
      /\ Cells(s', Round, Cell, stage - 1)
      /\ done' = IF stage = D THEN Append(done, Item) ELSE done
  BY <1>1, <1>2, CallKeeps
<1>4. stage > 1 => Passed = Item
  BY <1>3 DEF Passed, Cell
<1>5. done' = done \/ (Len(done) < n /\ done' = Append(done, Len(done)))
  BY <1>2, <1>3
<1>6. (done \in Seq(0 .. n - 1))' /\ InTurn'
  BY <1>1, <1>2, <1>5, DoneNext
<1>7. Len(done') = IF stage = D THEN Len(done) + 1 ELSE Len(done)
  BY <1>1, <1>3
<1>8. \A d, i : Went(d, i) <=> Did(Round, stage, d, i)
  BY DEF Went
<1>9. /\ \A d \in 1 .. D, i \in 0 .. n - 1 :
           Did(Round, stage - 1, d, i) <=>
             Did(Round, stage, d, i) \/ (d = stage /\ i = Item)
      /\ \A d \in 1 .. stage - 1 : Did(Round, stage, d, Item)
      /\ \A d \in stage .. D : ~ Did(Round, stage, d, Item)
  BY <1>1, <1>2, DidNext
<1> QED BY <1>3, <1>4, <1>6, <1>7, <1>8, <1>9

(* Where a call leaves the pipeline, unless it was the last one.           *)
LEMMA Lands ==
  ASSUME batch' = batch, Piping, NEW x, NEW st,
         Cells(s', x, Cell', st), Round' = x, stage' = st,
         pc' \in {"fill", "steady", "drain"},
         NEW y, NEW sy,
         \A d \in 1 .. D, i \in 0 .. n - 1 :
           Did(x, st, d, i) <=> Did(y, sy, d, i),
         \A d \in 1 .. D, i \in 0 .. n - 1 :
           Did(y, sy, d, i) <=> Went(d, i) \/ (d = stage /\ i = Item)
  PROVE  /\ Piping'
         /\ \A d \in 1 .. D, i \in 0 .. n - 1 :
              Went(d, i)' <=> Went(d, i) \/ (d = stage /\ i = Item)
<1>1. Piping'
  BY PipingNext DEF Piping
<1>2. \A d, i : Went(d, i)' <=> Did(x, st, d, i)
  BY WentNext
<1> QED BY <1>1, <1>2

(* Where the items of a round are: every call is for one of the batch.     *)
LEMMA FillItem ==
  ASSUME PipeInv, pc = "fill"
  PROVE  /\ Round = Span(row - 1) + step /\ Cell = step
         /\ Span(row - 1) \in Int /\ Span(row) = Span(row - 1) + M
         /\ Span(stage - 1) \in Int /\ Span(stage - 1) >= 0
         /\ Item = At(stage) /\ Item \in 0 .. n - 1
<1>1. pc = "fill" /\ Common /\ FillInv /\ batch \in Batches
  BY DEF PipeInv, Common
<1>2. /\ Piping /\ Len(done) = 0 /\ k = 0 /\ step \in 0 .. M - 1
      /\ row \in 1 .. D - 1 /\ stage \in 1 .. row /\ n >= Span(D - 1)
  BY <1>1 DEF FillInv, Piping
<1>3. /\ D \in Nat /\ D >= 2 /\ M \in Nat /\ M >= 1 /\ n \in Nat
      /\ Span(D - 1) \in Int /\ stage < D /\ stage \in 1 .. D
  <2>1. /\ D \in Nat /\ D >= 2 /\ M \in Nat /\ M >= 1 /\ n \in Nat
        /\ Span(D - 1) \in Int
    BY <1>1, Sizes
  <2> QED BY <1>2, <2>1
<1>4. /\ Round = Span(row - 1) + step /\ Cell = step
      /\ Span(row - 1) \in Int /\ Span(row) = Span(row - 1) + M
      /\ Span(stage - 1) \in Int /\ Span(stage - 1) >= 0
  <2>1. row \in Int /\ row - 1 \in Int /\ stage - 1 \in Int /\ 0 <= stage - 1
    BY <1>2, <1>3
  <2>2. Span(row - 1) = Span(row) - M /\ Span(row) \in Int
    BY <1>1, <2>1, SpanFacts
  <2>3. Span(0) <= Span(stage - 1) /\ Span(0) = 0
    BY <1>1, <2>1, SpanFacts
  <2>4. Span(row - 1) \in Int /\ Span(stage - 1) \in Int
    BY <1>1, <2>1, SpanFacts
  <2> QED BY <1>1, <1>3, <2>2, <2>3, <2>4 DEF Round, Cell
<1>5. Item = At(stage) /\ Item \in 0 .. n - 1
  <2>1. row - 1 \in Int /\ stage - 1 \in Int /\ row - stage \in Int
        /\ row - stage = (row - 1) - (stage - 1)
        /\ 0 <= row - stage /\ row - stage < D - 1 /\ D - 1 \in Int
    BY <1>2, <1>3
  <2>2. Span(row - stage) = Span(row - 1) - Span(stage - 1)
    BY <1>1, <2>1, SpanFacts
  <2>3. Span(0) <= Span(row - stage) /\ Span(0) = 0
        /\ Span(row - stage) + M <= Span(D - 1)
    <3>1. Span(row - stage) + M <= Span(D - 1)
      BY <1>1, <2>1, SpanOrder
    <3>2. Span(0) <= Span(row - stage)
      BY <1>1, <2>1, SpanOrder
    <3> QED BY <1>1, <3>1, <3>2, Sizes
  <2>4. Item = Span(row - stage) + step
    BY <1>1 DEF Item, Span
  <2>5. At(stage) = Span(row - 1) + step - Span(stage - 1)
    BY <1>2, <1>3, <1>4 DEF At
  <2>6. Span(row - stage) \in Int /\ step \in Int
    BY <1>1, <1>2, <1>3, <2>1, SpanOrder
  <2>7. Item = At(stage)
    BY <1>4, <2>2, <2>4, <2>5, <2>6
  <2>8. Item \in 0 .. n - 1
    BY <1>2, <1>3, <2>3, <2>4, <2>6
  <2> QED BY <2>7, <2>8
<1> QED BY <1>4, <1>5

LEMMA FillStep ==
  ASSUME PipeInv, FillCall
  PROVE  PipeInv' /\ Called
<1>1. pc = "fill" /\ Common /\ FillInv /\ batch \in Batches
  BY DEF PipeInv, FillCall, Common
<1>2. /\ Piping /\ Len(done) = 0 /\ k = 0 /\ step \in 0 .. M - 1
      /\ row \in 1 .. D - 1 /\ stage \in 1 .. row /\ n >= Span(D - 1)
  BY <1>1 DEF FillInv, Piping
<1>3. /\ D \in Nat /\ D >= 2 /\ M \in Nat /\ M >= 1 /\ n \in Nat
      /\ Span(D - 1) \in Int /\ stage < D /\ stage \in 1 .. D
  <2>1. /\ D \in Nat /\ D >= 2 /\ M \in Nat /\ M >= 1 /\ n \in Nat
        /\ Span(D - 1) \in Int
    BY <1>1, Sizes
  <2> QED BY <1>2, <2>1
<1>4. /\ batch' = batch /\ k' = k
      /\ D' = D /\ M' = M /\ n' = n /\ Span(D - 1)' = Span(D - 1)
  BY SameBatch DEF FillCall
<1>5. /\ Round = Span(row - 1) + step /\ Cell = step
      /\ Span(row - 1) \in Int /\ Span(row) = Span(row - 1) + M
      /\ Span(stage - 1) \in Int /\ Span(stage - 1) >= 0
  BY <1>1, FillItem
<1>6. Item = At(stage) /\ Item \in 0 .. n - 1
  BY <1>1, FillItem
<1>7. Round \in Int /\ Cell \in 0 .. M - 1 /\ Call(stage, Cell)
  BY <1>2, <1>3, <1>5 DEF FillCall
<1>8. /\ stage > 1 => Passed = Item
      /\ s' \in [1 .. D - 1 -> [0 .. M - 1 -> -2 .. n - 1]]
      /\ (done \in Seq(0 .. n - 1))' /\ InTurn'
      /\ done' = IF stage = D THEN Append(done, Item) ELSE done
      /\ Len(done') = 0
      /\ Cells(s', Round, Cell, stage - 1)
      /\ \A d \in 1 .. D, i \in 0 .. n - 1 :
           Did(Round, stage - 1, d, i) <=>
             Went(d, i) \/ (d = stage /\ i = Item)
      /\ \A d \in 1 .. stage - 1 : Went(d, Item)
      /\ \A d \in stage .. D : ~ Went(d, Item)
  <2>1. stage = D => Item = Len(done)
    BY <1>3
  <2>2. pc \in {"fill", "steady", "drain"}
    BY <1>1
  <2>3. stage # D
    BY <1>3
  <2>4. stage \in 1 .. D
    BY <1>3
  <2> QED BY <1>1, <1>2, <1>4, <1>6, <1>7, <2>1, <2>2, <2>3, <2>4, PipeCall
<1>9. ASSUME row' \in 1 .. D PROVE Common'
  BY <1>1, <1>4, <1>8, <1>9 DEF Common
<1>10. \A d \in 1 .. D, i \in 0 .. n - 1 :
         Did(Round, stage - 1, d, i) <=> Did(Round, stage - 1, d, i)
  OBVIOUS
<1> DEFINE Goes == \A d \in 1 .. D, i \in 0 .. n - 1 :
                     Went(d, i)' <=> Went(d, i) \/ (d = stage /\ i = Item)
<1>11. ASSUME stage > 1 PROVE PipeInv' /\ Goes
  <2>1. pc' = "fill" /\ row' = row /\ step' = step /\ stage' = stage - 1
    BY <1>1, <1>11 DEF FillCall
  <2>2. Round' = Round /\ Cell' = Cell
    BY <1>1, <1>4, <2>1, SameBatch DEF Round, Cell
  <2>3. Piping' /\ Goes
    BY <1>2, <1>4, <1>8, <1>10, <2>1, <2>2, Lands
  <2>4. FillInv'
    BY <1>2, <1>3, <1>4, <1>8, <1>11, <2>1, <2>3 DEF FillInv
  <2> QED BY <1>2, <1>3, <1>9, <2>1, <2>3, <2>4 DEF PipeInv
<1>12. ASSUME ~ stage > 1
       PROVE  /\ step + 1 < M => Cells(s', Round + 1, step + 1, D)
              /\ step + 1 >= M => Cells(s', Round + 1, 0, D)
              /\ \A d \in 1 .. D, i \in 0 .. n - 1 :
                   Did(Round + 1, D, d, i) <=> Did(Round, stage - 1, d, i)
  <2>1. stage - 1 = 0
    BY <1>2, <1>3, <1>12
  <2> QED BY <1>1, <1>5, <1>7, <1>8, <2>1, RoundEnds
<1>13. ASSUME ~ stage > 1, step + 1 < M PROVE PipeInv' /\ Goes
  <2>1. pc' = "fill" /\ row' = row /\ step' = step + 1 /\ stage' = row
    BY <1>1, <1>13 DEF FillCall
  <2>2. Round' = Round + 1 /\ Cell' = step + 1
    <3>1. Span(row - 1)' = Span(row - 1)
      BY <1>4, <2>1, SameBatch
    <3> QED BY <1>2, <1>3, <1>5, <2>1, <3>1 DEF Round, Cell
  <2>3. Round + 1 < Span(row)
    BY <1>2, <1>3, <1>5, <1>13
  <2>4. /\ Cells(s', Round + 1, step + 1, row)
        /\ \A d \in 1 .. D, i \in 0 .. n - 1 :
             Did(Round + 1, row, d, i) <=> Did(Round + 1, D, d, i)
    <3>1. Round + 1 \in Int /\ step + 1 \in 0 .. M - 1 /\ row \in 0 .. D
      BY <1>2, <1>3, <1>7, <1>13
    <3>2. Cells(s', Round + 1, step + 1, D)
      BY <1>12, <1>13
    <3> QED BY <1>1, <2>3, <3>1, <3>2, NotBegun
  <2>5. \A d \in 1 .. D, i \in 0 .. n - 1 :
          Did(Round + 1, row, d, i) <=> Did(Round, stage - 1, d, i)
    BY <1>12, <1>13, <2>4
  <2>6. Piping' /\ Goes
    BY <1>2, <1>4, <1>8, <2>1, <2>2, <2>4, <2>5, Lands
  <2>7. FillInv'
    BY <1>2, <1>3, <1>4, <1>8, <1>13, <2>1, <2>6 DEF FillInv
  <2> QED BY <1>2, <1>3, <1>9, <2>1, <2>6, <2>7 DEF PipeInv
<1>14. ASSUME ~ stage > 1, ~ step + 1 < M, row + 1 < D
       PROVE  PipeInv' /\ Goes
  <2>1. pc' = "fill" /\ row' = row + 1 /\ step' = 0 /\ stage' = row + 1
    BY <1>1, <1>14 DEF FillCall
  <2>2. Round' = Round + 1 /\ Cell' = 0
    <3>1. row' - 1 = row
      BY <1>2, <1>3, <2>1
    <3>2. Span(row - 1)' = Span(row)
      BY <1>4, <3>1 DEF Span
    <3>3. Round' = Span(row) + 0 /\ Cell' = 0
      BY <2>1, <3>2 DEF Round, Cell
    <3>4. step + 1 = M
      BY <1>2, <1>3, <1>14
    <3>5. Round + 1 = Span(row) /\ Span(row) \in Int
      BY <1>2, <1>3, <1>5, <3>4
    <3> QED BY <3>3, <3>5
  <2>3. Round + 1 < Span(row + 1)
    <3>1. row \in Int /\ row + 1 \in Int /\ row < row + 1
      BY <1>2, <1>3
    <3>2. Span(row) + M <= Span(row + 1) /\ Span(row + 1) \in Int
      BY <1>1, <3>1, SpanOrder
    <3> QED BY <1>2, <1>3, <1>5, <1>14, <3>2
  <2>4. /\ Cells(s', Round + 1, 0, row + 1)
        /\ \A d \in 1 .. D, i \in 0 .. n - 1 :
             Did(Round + 1, row + 1, d, i) <=> Did(Round + 1, D, d, i)
    <3>1. Round + 1 \in Int /\ 0 \in 0 .. M - 1 /\ row + 1 \in 0 .. D
          /\ step + 1 >= M
      BY <1>2, <1>3, <1>7, <1>14
    <3>2. Cells(s', Round + 1, 0, D)
      BY <1>12, <1>14, <3>1
    <3> QED BY <1>1, <2>3, <3>1, <3>2, NotBegun
  <2>5. \A d \in 1 .. D, i \in 0 .. n - 1 :
          Did(Round + 1, row + 1, d, i) <=> Did(Round, stage - 1, d, i)
    BY <1>12, <1>14, <2>4
  <2>6. Piping' /\ Goes
    BY <1>2, <1>4, <1>8, <2>1, <2>2, <2>4, <2>5, Lands
  <2>7. FillInv'
    BY <1>2, <1>3, <1>4, <1>8, <1>14, <2>1, <2>6 DEF FillInv
  <2> QED BY <1>2, <1>3, <1>9, <1>14, <2>1, <2>6, <2>7 DEF PipeInv
<1>15. ASSUME ~ stage > 1, ~ step + 1 < M, ~ row + 1 < D
       PROVE  PipeInv' /\ Goes
  <2>1. /\ pc' = IF More THEN "steady" ELSE "drain"
        /\ row' = 1 /\ stage' = D
        /\ step' = IF More THEN Span(D - 1) ELSE 0
    BY <1>1, <1>15 DEF FillCall, Span
  <2>2. More <=> Span(D - 1) < n
    BY DEF More, Span
  <2>3. Round + 1 = Span(D - 1) /\ step + 1 >= M
    <3>1. row = D - 1
      BY <1>2, <1>3, <1>15
    <3> QED BY <1>2, <1>3, <1>5, <1>15, <3>1
  <2>4. Span(1 - 1)' = 0
    BY <1>3, <1>4 DEF Span
  <2>5. Round' = Round + 1 /\ Cell' = 0
    <3>1. CASE More
      BY <1>2, <1>4, <2>1, <2>3, <3>1 DEF Round, Cell
    <3>2. CASE ~ More
      <4>1. Round' = n' + Span(1 - 1)' + 0 /\ Cell' = k'
        BY <2>1, <3>2 DEF Round, Cell
      <4> QED BY <1>2, <1>3, <1>4, <2>2, <2>3, <2>4, <3>2, <4>1
    <3> QED BY <3>1, <3>2
  <2>6. Cells(s', Round + 1, 0, D)
    BY <1>12, <1>15, <2>3
  <2>7. Piping' /\ Goes
    BY <1>2, <1>4, <1>8, <1>12, <1>15, <2>1, <2>5, <2>6, Lands
  <2>8. Full'
    <3>1. At(D)' = Span(D - 1) - Span(D - 1)
      BY <1>4, <2>3, <2>5 DEF At
    <3> QED BY <1>3, <1>4, <1>8, <2>1, <3>1 DEF Full
  <2>9. CASE More
    <3>1. SteadyInv'
      BY <1>3, <1>4, <2>1, <2>2, <2>7, <2>8, <2>9 DEF SteadyInv
    <3> QED BY <1>3, <1>9, <2>1, <2>7, <2>9, <3>1 DEF PipeInv
  <2>10. CASE ~ More
    <3>1. DrainInv'
      BY <1>3, <1>4, <2>1, <2>7, <2>8, <2>10 DEF DrainInv
    <3> QED BY <1>3, <1>9, <2>1, <2>7, <2>10, <3>1 DEF PipeInv
  <2> QED BY <2>9, <2>10
<1>16. PipeInv' /\ Goes
  <2> HIDE DEF Goes
  <2> QED BY <1>11, <1>13, <1>14, <1>15
<1>17. stage = D => Item = Len(done)
  BY <1>3
<1> QED BY <1>3, <1>4, <1>6, <1>8, <1>16, <1>17 DEF Called

(* In the full pipeline, the last stage is given the next item.            *)
LEMMA FullCall ==
  ASSUME batch \in Batches, Full, Round \in Int, Item = At(stage),
         stage \in 1 .. D, NEW l,
         l = IF stage = D THEN Len(done) + 1 ELSE Len(done)
  PROVE  /\ stage = D => Item = Len(done)
         /\ l = Round - Span(D - 1) + 1
<1>1. /\ D \in Nat /\ Span(D - 1) \in Int
      /\ Len(done) = Round - Span(D - 1) + (IF stage < D THEN 1 ELSE 0)
  BY Sizes DEF Full, At
<1>2. CASE stage = D
  <2>1. Len(done) = Round - Span(D - 1)
    BY <1>1, <1>2
  <2> QED BY <1>2, <2>1 DEF At
<1>3. CASE stage # D
  BY <1>1, <1>3
<1> QED BY <1>2, <1>3

LEMMA SteadyItem ==
  ASSUME PipeInv, pc = "steady"
  PROVE  /\ Round = step /\ Cell = k
         /\ Span(stage - 1) \in Int /\ Span(stage - 1) >= 0
         /\ Span(stage - 1) <= Span(D - 1)
         /\ Item = At(stage) /\ Item \in 0 .. n - 1
<1>1. pc = "steady" /\ Common /\ SteadyInv /\ batch \in Batches
  BY DEF PipeInv, Common
<1>2. /\ Piping /\ Full /\ row = 1 /\ k \in 0 .. M - 1
      /\ step \in Span(D - 1) .. n - 1 /\ stage \in 1 .. D
      /\ n >= Span(D - 1)
  BY <1>1 DEF SteadyInv, Piping, Common
<1>3. /\ D \in Nat /\ D >= 2 /\ M \in Nat /\ M >= 1 /\ n \in Nat
      /\ Span(D - 1) \in Int
  BY <1>1, Sizes
<1>4. /\ Round = step /\ Cell = k
      /\ Span(stage - 1) \in Int /\ Span(stage - 1) >= 0
      /\ Span(stage - 1) <= Span(D - 1)
  <2>1. stage - 1 \in Int /\ 0 <= stage - 1 /\ stage - 1 <= D - 1
        /\ D - 1 \in Int
    BY <1>2, <1>3
  <2>2. Span(0) <= Span(stage - 1) /\ Span(0) = 0 /\ Span(stage - 1) \in Int
    BY <1>1, <2>1, SpanOrder, Sizes
  <2>3. Span(stage - 1) <= Span(D - 1)
    BY <1>1, <2>1, SpanOrder
  <2> QED BY <1>1, <2>2, <2>3 DEF Round, Cell
<1>5. Item = At(stage) /\ Item \in 0 .. n - 1
  <2>1. Item = step - Span(stage - 1)
    BY <1>1 DEF Item, Span
  <2>2. At(stage) = step - Span(stage - 1)
    BY <1>2, <1>3, <1>4 DEF At
  <2> QED BY <1>2, <1>3, <1>4, <2>1, <2>2
<1> QED BY <1>4, <1>5

LEMMA SteadyStep ==
  ASSUME PipeInv, SteadyCall
  PROVE  PipeInv' /\ Called
<1>1. pc = "steady" /\ Common /\ SteadyInv /\ batch \in Batches
  BY DEF PipeInv, SteadyCall, Common
<1>2. /\ Piping /\ Full /\ row = 1 /\ k \in 0 .. M - 1
      /\ step \in Span(D - 1) .. n - 1 /\ stage \in 1 .. D
      /\ n >= Span(D - 1)
  BY <1>1 DEF SteadyInv, Piping, Common
<1>3. /\ D \in Nat /\ D >= 2 /\ M \in Nat /\ M >= 1 /\ n \in Nat
      /\ Span(D - 1) \in Int
  BY <1>1, Sizes
<1>4. /\ batch' = batch /\ row' = row
      /\ D' = D /\ M' = M /\ n' = n /\ Span(D - 1)' = Span(D - 1)
  BY SameBatch DEF SteadyCall
<1>5. /\ Round = step /\ Cell = k
      /\ Span(stage - 1) \in Int /\ Span(stage - 1) >= 0
      /\ Span(stage - 1) <= Span(D - 1)
  BY <1>1, SteadyItem
<1>6. Item = At(stage) /\ Item \in 0 .. n - 1
  BY <1>1, SteadyItem
<1>7. Round \in Int /\ Cell \in 0 .. M - 1 /\ Call(stage, Cell)
  BY <1>2, <1>3, <1>5 DEF SteadyCall
<1> DEFINE l == IF stage = D THEN Len(done) + 1 ELSE Len(done)
<1>8. (stage = D => Item = Len(done)) /\ l = Round - Span(D - 1) + 1
  BY <1>1, <1>2, <1>6, <1>7, FullCall
<1>9. /\ stage > 1 => Passed = Item
      /\ s' \in [1 .. D - 1 -> [0 .. M - 1 -> -2 .. n - 1]]
      /\ (done \in Seq(0 .. n - 1))' /\ InTurn'
      /\ done' = IF stage = D THEN Append(done, Item) ELSE done
      /\ Len(done') = Round - Span(D - 1) + 1
      /\ Cells(s', Round, Cell, stage - 1)
      /\ \A d \in 1 .. D, i \in 0 .. n - 1 :
           Did(Round, stage - 1, d, i) <=>
             Went(d, i) \/ (d = stage /\ i = Item)
      /\ \A d \in 1 .. stage - 1 : Went(d, Item)
      /\ \A d \in stage .. D : ~ Went(d, Item)
  <2>1. pc \in {"fill", "steady", "drain"}
    BY <1>1
  <2> QED BY <1>1, <1>2, <1>4, <1>6, <1>7, <1>8, <2>1, PipeCall
<1>10. \A d \in 1 .. D, i \in 0 .. n - 1 :
         Did(Round, stage - 1, d, i) <=> Did(Round, stage - 1, d, i)
  OBVIOUS
<1> DEFINE Goes == \A d \in 1 .. D, i \in 0 .. n - 1 :
                     Went(d, i)' <=> Went(d, i) \/ (d = stage /\ i = Item)
<1>11. ASSUME stage > 1 PROVE PipeInv' /\ Goes
  <2>1. pc' = "steady" /\ step' = step /\ k' = k /\ stage' = stage - 1
    BY <1>1, <1>11 DEF SteadyCall
  <2>2. Round' = Round /\ Cell' = Cell
    BY <1>1, <2>1 DEF Round, Cell
  <2>3. Piping' /\ Goes
    BY <1>2, <1>4, <1>9, <1>10, <2>1, <2>2, Lands
  <2>4. Full'
    <3>1. At(D)' = Round - Span(D - 1) /\ stage' < D'
      BY <1>2, <1>3, <1>4, <2>1, <2>2 DEF At
    <3> QED BY <1>9, <3>1 DEF Full
  <2>5. SteadyInv'
    BY <1>2, <1>3, <1>4, <1>11, <2>1, <2>3, <2>4 DEF SteadyInv
  <2>6. Common'
    BY <1>1, <1>4, <1>9, <2>1 DEF Common
  <2> QED BY <2>1, <2>3, <2>5, <2>6 DEF PipeInv
<1>12. ASSUME ~ stage > 1 PROVE PipeInv' /\ Goes
  <2>1. /\ stage' = D /\ k' = NextCell
        /\ step + 1 < n => pc' = "steady" /\ step' = step + 1
        /\ ~ step + 1 < n => pc' = "drain" /\ step' = 0
    BY <1>1, <1>12 DEF SteadyCall
  <2>2. k' \in 0 .. M - 1
    BY <1>2, <1>3, <2>1 DEF NextCell
  <2>3. stage - 1 = 0
    BY <1>2, <1>3, <1>12
  <2>4. /\ k + 1 < M => Cells(s', Round + 1, k + 1, D)
        /\ k + 1 >= M => Cells(s', Round + 1, 0, D)
        /\ \A d \in 1 .. D, i \in 0 .. n - 1 :
             Did(Round + 1, D, d, i) <=> Did(Round, stage - 1, d, i)
    BY <1>1, <1>5, <1>7, <1>9, <2>3, RoundEnds
  <2>5. Cells(s', Round + 1, k', D)
    BY <1>2, <1>3, <2>1, <2>4 DEF NextCell
  <2>6. Span(row - 1)' = 0
    <3>1. row' - 1 = 0
      BY <1>2, <1>4
    <3> QED BY <1>3, <1>4, <3>1 DEF Span
  <2>7. Round' = Round + 1 /\ Cell' = k' /\ pc' \in {"fill", "steady", "drain"}
    <3>1. CASE step + 1 < n
      BY <1>5, <2>1, <3>1 DEF Round, Cell
    <3>2. CASE ~ step + 1 < n
      <4>1. pc' = "drain" /\ step' = 0 /\ n' = step + 1
        BY <1>2, <1>3, <1>4, <2>1, <3>2
      <4>2. Round' = n' + Span(row - 1)' + step' /\ Cell' = k'
        BY <4>1 DEF Round, Cell
      <4> QED BY <1>2, <1>3, <1>5, <2>6, <4>1, <4>2
    <3> QED BY <3>1, <3>2
  <2>8. Piping' /\ Goes
    BY <1>2, <1>4, <1>9, <2>1, <2>4, <2>5, <2>7, Lands
  <2>9. Full'
    <3>1. At(D)' = (Round + 1) - Span(D - 1) /\ ~ stage' < D'
      BY <1>3, <1>4, <2>1, <2>7 DEF At
    <3>2. (Round + 1) - Span(D - 1) = Len(done') + 0
      BY <1>3, <1>7, <1>9
    <3> QED BY <3>1, <3>2 DEF Full
  <2>10. Common'
    BY <1>1, <1>4, <1>9, <2>2 DEF Common
  <2>11. CASE step + 1 < n
    <3>1. SteadyInv'
      BY <1>2, <1>3, <1>4, <2>1, <2>8, <2>9, <2>11 DEF SteadyInv
    <3> QED BY <2>1, <2>8, <2>10, <2>11, <3>1 DEF PipeInv
  <2>12. CASE ~ step + 1 < n
    <3>1. DrainInv'
      BY <1>2, <1>3, <1>4, <2>1, <2>8, <2>9, <2>12 DEF DrainInv
    <3> QED BY <2>1, <2>8, <2>10, <2>12, <3>1 DEF PipeInv
  <2> QED BY <2>11, <2>12
<1>13. PipeInv' /\ Goes
  <2> HIDE DEF Goes
  <2> QED BY <1>11, <1>12
<1> QED BY <1>2, <1>4, <1>6, <1>8, <1>9, <1>13 DEF Called

LEMMA DrainItem ==
  ASSUME PipeInv, pc = "drain"
  PROVE  /\ Round = n + Span(row - 1) + step /\ Cell = k
         /\ Span(row - 1) \in Int /\ Span(row) = Span(row - 1) + M
         /\ Span(stage - 1) \in Int
         /\ Item = At(stage) /\ Item \in 0 .. n - 1
<1>1. pc = "drain" /\ Common /\ DrainInv /\ batch \in Batches
  BY DEF PipeInv, Common
<1>2. /\ Piping /\ Full /\ k \in 0 .. M - 1 /\ step \in 0 .. M - 1
      /\ row \in 1 .. D - 1 /\ stage \in row + 1 .. D /\ n >= Span(D - 1)
  BY <1>1 DEF DrainInv, Piping, Common
<1>3. /\ D \in Nat /\ D >= 2 /\ M \in Nat /\ M >= 1 /\ n \in Nat
      /\ Span(D - 1) \in Int
  BY <1>1, Sizes
<1>4. stage \in 1 .. D /\ stage > 1
  BY <1>2, <1>3
<1>5. /\ Round = n + Span(row - 1) + step /\ Cell = k
      /\ Span(row - 1) \in Int /\ Span(row) = Span(row - 1) + M
      /\ Span(stage - 1) \in Int
  <2>1. row \in Int /\ row - 1 \in Int /\ stage - 1 \in Int
    BY <1>2, <1>3
  <2>2. Span(row - 1) = Span(row) - M /\ Span(row) \in Int
    BY <1>1, <2>1, SpanFacts
  <2>3. Span(row - 1) \in Int /\ Span(stage - 1) \in Int
    BY <1>1, <2>1, SpanOrder
  <2> QED BY <1>1, <1>3, <2>2, <2>3 DEF Round, Cell
<1>6. Item = At(stage) /\ Item \in 0 .. n - 1
  <2>1. row - 1 \in Int /\ stage - 1 \in Int /\ stage - row \in Int
        /\ stage - row = (stage - 1) - (row - 1) /\ 1 \in Int
        /\ 1 <= stage - row /\ stage - row <= D - 1 /\ D - 1 \in Int
    BY <1>2, <1>3
  <2>2. Span(stage - row) = Span(stage - 1) - Span(row - 1)
    BY <1>1, <2>1, SpanMinus
  <2>3. Span(1) <= Span(stage - row) /\ Span(1) = M
    BY <1>1, <2>1, SpanOrder, Sizes
  <2>4. Span(stage - row) <= Span(D - 1)
    BY <1>1, <2>1, SpanOrder
  <2>5. Item = n - Span(stage - row) + step
    BY <1>1 DEF Item, Span
  <2>6. At(stage) = n + Span(row - 1) + step - Span(stage - 1)
    BY <1>2, <1>3, <1>5 DEF At
  <2> QED BY <1>2, <1>3, <1>5, <2>2, <2>3, <2>4, <2>5, <2>6
<1> QED BY <1>5, <1>6

LEMMA DrainStep ==
  ASSUME PipeInv, DrainCall
  PROVE  PipeInv' /\ Called
<1>1. pc = "drain" /\ Common /\ DrainInv /\ batch \in Batches
  BY DEF PipeInv, DrainCall, Common
<1>2. /\ Piping /\ Full /\ k \in 0 .. M - 1 /\ step \in 0 .. M - 1
      /\ row \in 1 .. D - 1 /\ stage \in row + 1 .. D /\ n >= Span(D - 1)
  BY <1>1 DEF DrainInv, Piping, Common
<1>3. /\ D \in Nat /\ D >= 2 /\ M \in Nat /\ M >= 1 /\ n \in Nat
      /\ Span(D - 1) \in Int
  BY <1>1, Sizes
<1>4. /\ batch' = batch
      /\ D' = D /\ M' = M /\ n' = n /\ Span(D - 1)' = Span(D - 1)
  BY SameBatch DEF DrainCall
<1>5. stage \in 1 .. D /\ stage > 1
  BY <1>2, <1>3
<1>6. /\ Round = n + Span(row - 1) + step /\ Cell = k
      /\ Span(row - 1) \in Int /\ Span(row) = Span(row - 1) + M
      /\ Span(stage - 1) \in Int
  BY <1>1, DrainItem
<1>7. Item = At(stage) /\ Item \in 0 .. n - 1
  BY <1>1, DrainItem
<1>8. Round \in Int /\ Cell \in 0 .. M - 1 /\ Call(stage, Cell)
  BY <1>2, <1>3, <1>6 DEF DrainCall
<1> DEFINE l == IF stage = D THEN Len(done) + 1 ELSE Len(done)
<1>9. (stage = D => Item = Len(done)) /\ l = Round - Span(D - 1) + 1
  BY <1>1, <1>2, <1>5, <1>7, <1>8, FullCall
<1>10. /\ stage > 1 => Passed = Item
       /\ s' \in [1 .. D - 1 -> [0 .. M - 1 -> -2 .. n - 1]]
       /\ (done \in Seq(0 .. n - 1))' /\ InTurn'
       /\ done' = IF stage = D THEN Append(done, Item) ELSE done
       /\ Len(done') = Round - Span(D - 1) + 1
       /\ Cells(s', Round, Cell, stage - 1)
       /\ \A d \in 1 .. D, i \in 0 .. n - 1 :
            Did(Round, stage - 1, d, i) <=>
              Went(d, i) \/ (d = stage /\ i = Item)
       /\ \A d \in 1 .. stage - 1 : Went(d, Item)
       /\ \A d \in stage .. D : ~ Went(d, Item)
  <2>1. pc \in {"fill", "steady", "drain"}
    BY <1>1
  <2> QED BY <1>1, <1>2, <1>4, <1>5, <1>7, <1>8, <1>9, <2>1, PipeCall
<1>11. \A d \in 1 .. D, i \in 0 .. n - 1 :
         Did(Round, stage - 1, d, i) <=> Did(Round, stage - 1, d, i)
  OBVIOUS
<1> DEFINE Goes == \A d \in 1 .. D, i \in 0 .. n - 1 :
                     Went(d, i)' <=> Went(d, i) \/ (d = stage /\ i = Item)
<1>12. ASSUME stage > row + 1 PROVE PipeInv' /\ Goes
  <2>1. /\ pc' = "drain" /\ row' = row /\ step' = step /\ k' = k
        /\ stage' = stage - 1
    BY <1>1, <1>12 DEF DrainCall
  <2>2. Round' = Round /\ Cell' = Cell
    <3>1. Span(row - 1)' = Span(row - 1)
      BY <1>4, <2>1, SameBatch
    <3> QED BY <1>1, <1>4, <2>1, <3>1 DEF Round, Cell
  <2>3. Piping' /\ Goes
    BY <1>2, <1>4, <1>10, <1>11, <2>1, <2>2, Lands
  <2>4. Full'
    <3>1. At(D)' = Round - Span(D - 1) /\ stage' < D'
      BY <1>3, <1>4, <1>5, <2>1, <2>2 DEF At
    <3> QED BY <1>10, <3>1 DEF Full
  <2>5. DrainInv'
    BY <1>2, <1>3, <1>4, <1>12, <2>1, <2>3, <2>4 DEF DrainInv
  <2>6. Common'
    BY <1>1, <1>4, <1>10, <2>1 DEF Common
  <2> QED BY <2>1, <2>3, <2>5, <2>6 DEF PipeInv
<1>13. ASSUME ~ stage > row + 1 PROVE PipeInv' /\ Goes
  <2>1. /\ stage' = D /\ k' = NextCell
        /\ step + 1 < M => pc' = "drain" /\ step' = step + 1 /\ row' = row
        /\ ~ step + 1 < M => /\ step' = 0 /\ row' = row + 1
                             /\ row + 1 < D => pc' = "drain"
                             /\ ~ row + 1 < D => pc' = "done"
    BY <1>1, <1>13 DEF DrainCall
  <2>2. k' \in 0 .. M - 1 /\ row' \in 1 .. D
    BY <1>2, <1>3, <2>1 DEF NextCell
  <2>3. stage - 1 = row /\ row \in 1 .. D
    BY <1>2, <1>3, <1>13
  <2>4. /\ Cells(s', Round, Cell, 0)
        /\ \A d \in 1 .. D, i \in 0 .. n - 1 :
             Did(Round, 0, d, i) <=> Did(Round, row, d, i)
    <3>1. Cells(s', Round, Cell, row)
      BY <1>10, <2>3
    <3>2. Round - Span(row - 1) >= n
      BY <1>2, <1>3, <1>6
    <3> QED BY <1>1, <1>8, <2>3, <3>1, <3>2, AllThrough
  <2>5. /\ k + 1 < M => Cells(s', Round + 1, k + 1, D)
        /\ k + 1 >= M => Cells(s', Round + 1, 0, D)
        /\ \A d \in 1 .. D, i \in 0 .. n - 1 :
             Did(Round + 1, D, d, i) <=> Did(Round, 0, d, i)
    BY <1>1, <1>6, <1>8, <2>4, RoundEnds
  <2>6. Cells(s', Round + 1, k', D)
    BY <1>2, <1>3, <2>1, <2>5 DEF NextCell
  <2>7. \A d \in 1 .. D, i \in 0 .. n - 1 :
          Did(Round + 1, D, d, i) <=> Did(Round, stage - 1, d, i)
    BY <2>3, <2>4, <2>5
  <2>8. Common'
    BY <1>1, <1>4, <1>10, <2>2 DEF Common
  <2>9. Len(done') = (Round + 1) - Span(D - 1)
    BY <1>3, <1>8, <1>10
  <2>10. ASSUME pc' = "drain", Round' = Round + 1
         PROVE  Full' /\ Piping' /\ Goes
    <3>1. Cell' = k'
      BY <2>10 DEF Cell
    <3>2. Piping' /\ Goes
      BY <1>2, <1>4, <1>10, <2>1, <2>6, <2>7, <2>10, <3>1, Lands
    <3>3. At(D)' = (Round + 1) - Span(D - 1) /\ ~ stage' < D'
      BY <1>3, <1>4, <2>1, <2>10 DEF At
    <3>4. (Round + 1) - Span(D - 1) = Len(done') + 0
      BY <1>3, <1>8, <2>9
    <3>5. Full'
      BY <3>3, <3>4 DEF Full
    <3> QED BY <3>2, <3>5
  <2>11. CASE step + 1 < M
    <3>1. pc' = "drain" /\ row' = row /\ step' = step + 1
      BY <2>1, <2>11
    <3>2. Round' = Round + 1
      <4>1. Span(row - 1)' = Span(row - 1)
        BY <1>4, <3>1, SameBatch
      <4> QED BY <1>2, <1>3, <1>4, <1>6, <3>1, <4>1 DEF Round
    <3>3. DrainInv'
      BY <1>2, <1>3, <1>4, <2>1, <2>10, <2>11, <3>1, <3>2 DEF DrainInv
    <3> QED BY <2>8, <2>10, <3>1, <3>2, <3>3 DEF PipeInv
  <2>12. CASE ~ step + 1 < M /\ row + 1 < D
    <3>1. pc' = "drain" /\ row' = row + 1 /\ step' = 0
      BY <2>1, <2>12
    <3>2. Round' = Round + 1
      <4>1. row' - 1 = row
        BY <1>2, <1>3, <3>1
      <4>2. Span(row - 1)' = Span(row)
        BY <1>4, <4>1 DEF Span
      <4>3. Round' = n + Span(row) + 0
        BY <1>4, <3>1, <4>2 DEF Round
      <4>4. Round + 1 = n + Span(row)
        <5>1. step + 1 = M
          BY <1>2, <1>3, <2>12
        <5> HIDE DEF Round
        <5> QED BY <1>2, <1>3, <1>6, <5>1
      <4>5. Span(row) \in Int
        BY <1>3, <1>6
      <4> QED BY <1>3, <4>3, <4>4, <4>5
    <3>3. DrainInv'
      BY <1>2, <1>3, <1>4, <2>1, <2>10, <2>12, <3>1, <3>2 DEF DrainInv
    <3> QED BY <2>8, <2>10, <3>1, <3>2, <3>3 DEF PipeInv
  <2>13. CASE ~ step + 1 < M /\ ~ row + 1 < D
    <3>1. pc' = "done" /\ step' = 0 /\ row = D - 1 /\ step + 1 = M
      BY <1>2, <1>3, <2>1, <2>13
    <3>2. Round + 1 = n + Span(D - 1)
      BY <1>2, <1>3, <1>6, <3>1
    <3>3. DoneInv'
      <4>1. Len(done') = n
        <5>1. (n + Span(D - 1)) - Span(D - 1) = n
          BY <1>3
        <5>2. Len(done') = (n + Span(D - 1)) - Span(D - 1)
          BY <2>9, <3>2
        <5> QED BY <5>1, <5>2
      <4> QED BY <1>3, <1>4, <2>1, <3>1, <4>1 DEF DoneInv
    <3>4. ASSUME NEW d \in 1 .. D, NEW i \in 0 .. n - 1
          PROVE  Went(d, i)' <=> Went(d, i) \/ (d = stage /\ i = Item)
      <4>1. d - 1 \in Int /\ D - 1 \in Int /\ d - 1 <= D - 1
        BY <1>3
      <4>2. Span(d - 1) <= Span(D - 1) /\ Span(d - 1) \in Int
        BY <1>1, <4>1, SpanOrder
      <4>3. Did(Round + 1, D, d, i)
        BY <1>3, <3>2, <4>2 DEF Did
      <4>4. Went(d, i) \/ (d = stage /\ i = Item)
        BY <1>10, <2>7, <4>3
      <4>5. Went(d, i)'
        BY <3>1 DEF Went
      <4> QED BY <4>4, <4>5
    <3> QED BY <2>8, <3>1, <3>3, <3>4 DEF PipeInv
  <2> QED BY <2>11, <2>12, <2>13
<1>14. PipeInv' /\ Goes
  <2> HIDE DEF Goes
  <2> QED BY <1>12, <1>13
<1> QED BY <1>4, <1>5, <1>7, <1>9, <1>10, <1>14 DEF Called

LEMMA PipeStarts ==
  ASSUME Init
  PROVE  PipeInv /\ done = <<>>
<1>1. /\ batch \in Batches /\ row = 1 /\ step = 0 /\ stage = 1 /\ k = 0
      /\ done = <<>>
      /\ ctx = [i \in 0 .. batch.width * (batch.depth - 1) - 2 |-> None]
      /\ s = [d \in 1 .. batch.depth - 1 |->
                [c \in 0 .. batch.width - 1 |-> None]]
      /\ pc = IF ~ Short(batch) THEN "fill"
              ELSE IF batch.n = 0 THEN "done" ELSE "short"
  BY DEF Init
<1>2. /\ D \in Nat /\ D >= 2 /\ M \in Nat /\ M >= 1 /\ n \in Nat
      /\ Span(0) = 0 /\ Span(D - 1) \in Int
  BY <1>1, Sizes
<1>3. /\ ctx = [i \in 0 .. Span(D - 1) - 2 |-> None]
      /\ s = [d \in 1 .. D - 1 |-> [c \in 0 .. M - 1 |-> None]]
      /\ Short(batch) <=> n < Span(D - 1)
      /\ batch.n = n
  BY <1>1 DEF D, M, n, Span, Short
<1>4. Common
  <2>1. None \in -2 .. n - 1
    BY <1>2 DEF None
  <2>2. s \in [1 .. D - 1 -> [0 .. M - 1 -> -2 .. n - 1]]
    BY <1>3, <2>1
  <2>3. done \in Seq(0 .. n - 1) /\ Len(done) = 0
    BY <1>1
  <2>4. InTurn
    BY <2>3 DEF InTurn
  <2>5. batch \in Batches /\ row \in 1 .. D /\ k \in 0 .. M - 1
    BY <1>1, <1>2
  <2> QED BY <2>2, <2>3, <2>4, <2>5 DEF Common
<1>5. Len(done) = 0
  BY <1>1
<1>6. CASE ~ Short(batch)
  <2>1. pc = "fill"
    BY <1>1, <1>6
  <2>2. Round = 0 /\ Cell = 0
    <3>1. row - 1 = 0
      BY <1>1
    <3> QED BY <1>1, <1>2, <2>1, <3>1 DEF Round, Cell
  <2>3. ASSUME NEW d \in 1 .. D - 1, NEW c \in 0 .. M - 1
        PROVE  Held(0, 0, 1, d, c) \notin 0 .. n - 1
    <3>1. Span(d - 1) \in Int /\ (d > 1 => M <= Span(d - 1))
          /\ (d = 1 => Span(d - 1) = 0)
      <4>1. d - 1 \in Int /\ 0 \in Int /\ d \in Int
        BY <1>2
      <4>2. Span(d - 1) \in Int /\ (0 < d - 1 => Span(0) + M <= Span(d - 1))
        BY <1>1, <4>1, SpanOrder
      <4>3. d = 1 => d - 1 = 0
        BY <4>1
      <4> QED BY <1>2, <4>1, <4>2, <4>3
    <3>2. CASE c = 0 /\ d > 1
      <4>1. Held(0, 0, 1, d, c) = 0 - Span(d - 1) + (0 - 0) - 0
        BY <3>2 DEF Held
      <4> QED BY <1>2, <3>1, <3>2, <4>1
    <3>3. CASE ~ (c = 0 /\ d > 1)
      <4>1. ~ (c < 0 \/ (c = 0 /\ 1 < d))
        BY <3>3
      <4>2. Held(0, 0, 1, d, c) = 0 - Span(d - 1) + (c - 0) - M
        BY <4>1 DEF Held
      <4>3. Span(d - 1) >= 0
        BY <1>2, <3>1
      <4> QED BY <1>2, <3>1, <4>2, <4>3
    <3> QED BY <3>2, <3>3
  <2>4. Piping
    BY <1>1, <1>2, <1>3, <1>6, <2>2, <2>3 DEF Piping, Cells
  <2>5. FillInv
    BY <1>1, <1>2, <1>5, <2>4 DEF FillInv
  <2> QED BY <1>1, <1>4, <2>1, <2>5 DEF PipeInv
<1>7. CASE Short(batch) /\ n = 0
  BY <1>1, <1>2, <1>3, <1>4, <1>5, <1>7 DEF PipeInv, DoneInv
<1>8. CASE Short(batch) /\ n # 0
  <2>1. pc = "short" /\ n < Span(D - 1) /\ step \in 0 .. n - 1
    BY <1>1, <1>2, <1>3, <1>8
  <2>2. ctx \in [0 .. Span(D - 1) - 2 -> Int]
    BY <1>3 DEF None
  <2>3. \A i \in 0 .. n - 1 : (stage > 1 \/ i < step) => ctx[i] = i
    BY <1>1, <1>2
  <2>4. ShortInv
    BY <1>1, <1>2, <1>5, <2>1, <2>2, <2>3 DEF ShortInv
  <2> QED BY <1>1, <1>4, <2>1, <2>4 DEF PipeInv
<1> QED BY <1>1, <1>6, <1>7, <1>8

LEMMA PipeStep ==
  ASSUME PipeInv, ShortCall \/ FillCall \/ SteadyCall \/ DrainCall
  PROVE  PipeInv' /\ Called
BY ShortStep, FillStep, SteadyStep, DrainStep

LEMMA PipeStays ==
  ASSUME PipeInv, UNCHANGED vars
  PROVE  PipeInv'
<1>1. /\ batch' = batch /\ pc' = pc /\ row' = row /\ step' = step
      /\ stage' = stage /\ k' = k /\ ctx' = ctx /\ s' = s /\ done' = done
  BY DEF vars
<1>2. /\ D' = D /\ M' = M /\ n' = n /\ Span(D - 1)' = Span(D - 1)
      /\ Span(row - 1)' = Span(row - 1)
  BY <1>1, SameBatch
<1>3. Round' = Round /\ Cell' = Cell
  BY <1>1, <1>2 DEF Round, Cell
<1>4. Common'
  BY <1>1, <1>2 DEF PipeInv, Common, InTurn
<1>5. ASSUME Piping PROVE Piping'
  BY <1>1, <1>3, <1>5, PipingNext DEF Piping
<1>6. Full' = Full
  BY <1>1, <1>2, <1>3 DEF Full, At
<1>7. ShortInv' = ShortInv /\ DoneInv' = DoneInv
  BY <1>1, <1>2 DEF ShortInv, DoneInv
<1>8. FillInv => FillInv'
  BY <1>1, <1>2, <1>5 DEF FillInv
<1>9. SteadyInv => SteadyInv'
  BY <1>1, <1>2, <1>5, <1>6 DEF SteadyInv
<1>10. DrainInv => DrainInv'
  BY <1>1, <1>2, <1>5, <1>6 DEF DrainInv
<1> QED BY <1>1, <1>4, <1>7, <1>8, <1>9, <1>10 DEF PipeInv

(* The variables have their types, and every call is for an item.          *)
LEMMA PipeTypes ==
  ASSUME PipeInv
  PROVE  TypeOK
<1>1. Common /\ batch \in Batches
  BY DEF PipeInv, Common
<1>2. /\ D \in Nat /\ D >= 2 /\ M \in Nat /\ M >= 1 /\ n \in Nat
      /\ Span(D - 1) \in Int /\ Span(D - 1) >= 0
  <2>1. D \in Nat /\ D >= 2 /\ M \in Nat /\ M >= 1 /\ n \in Nat
        /\ Span(0) = 0
    BY <1>1, Sizes
  <2>2. D - 1 \in Int /\ 0 \in Int /\ 0 <= D - 1
    BY <2>1
  <2> QED BY <1>1, <2>1, <2>2, SpanOrder
<1>3. /\ pc \in {"short", "fill", "steady", "drain", "done"}
      /\ step \in 0 .. n + M /\ stage \in 1 .. D + 1
  BY <1>2 DEF PipeInv, ShortInv, FillInv, SteadyInv, DrainInv, DoneInv
<1>4. \A d \in DOMAIN s : \A c \in DOMAIN s[d] : s[d][c] \in -2 .. n - 1
  BY <1>1 DEF Common
<1>5. done \in Seq(-2 .. n - 1)
  <2>1. done \in Seq(0 .. n - 1)
    BY <1>1 DEF Common
  <2>2. 0 .. n - 1 \subseteq -2 .. n - 1
    BY <1>2
  <2> QED BY <2>1, <2>2, SeqMonotonic
<1>6. pc = "short" => Item \in 0 .. n - 1 /\ step \in DOMAIN ctx
  BY <1>2 DEF PipeInv, ShortInv, Item
<1>7. pc # "done" => Item \in 0 .. n - 1
  BY <1>3, <1>6, FillItem, SteadyItem, DrainItem
<1> QED BY <1>1, <1>3, <1>4, <1>5, <1>6, <1>7 DEF TypeOK, Common

(* A call finishes the next item, or none.                                 *)
LEMMA InTurnStep ==
  ASSUME Called, n \in Nat
  PROVE  [Contract!Finish]_<<n, done>>
<1>1. n' = n
  BY SameBatch DEF Called
<1>2. CASE stage = D
  <2>1. Len(done) \in 0 .. n - 1 /\ done' = Append(done, Len(done))
    BY <1>2 DEF Called
  <2>2. Contract!Finish
    BY <1>1, <2>1 DEF Contract!Finish
  <2> QED BY <2>2
<1>3. CASE stage # D
  BY <1>1, <1>3 DEF Called
<1> QED BY <1>2, <1>3

LEMMA PipeNext ==
  ASSUME PipeInv, [Next]_vars
  PROVE  PipeInv' /\ [Contract!Finish]_<<n, done>>
<1>1. CASE ShortCall \/ FillCall \/ SteadyCall \/ DrainCall
  <2>1. n \in Nat
    BY Sizes DEF PipeInv, Common
  <2> QED BY <1>1, <2>1, PipeStep, InTurnStep
<1>2. CASE UNCHANGED vars
  BY <1>2, PipeStays, SameBatch DEF vars
<1> QED BY <1>1, <1>2 DEF Next, Terminated

(* However deep and wide a pipeline is, its short, fill, steady and drain  *)
(* loops leave neither the batch nor the window and reuse no cell too soon *)
(* (utils.h:185-366).                                                      *)
THEOREM PipelineTypeCorrect == Spec => []TypeOK
<1>1. Init => PipeInv
  BY PipeStarts
<1>2. PipeInv /\ [Next]_vars => PipeInv'
  BY PipeNext
<1>3. PipeInv => TypeOK
  BY PipeTypes
<1> QED BY <1>1, <1>2, <1>3, PTL DEF Spec

(* The order in which a pipeline of any depth and width finishes a batch   *)
(* of any length is that of a plain loop (InOrder without its fairness).   *)
THEOREM PipelineInOrder ==
  Spec => Contract!Init /\ [][Contract!Finish]_<<n, done>>
<1>1. Init => PipeInv /\ Contract!Init
  BY PipeStarts, Sizes DEF Contract!Init, Init
<1>2. PipeInv /\ [Next]_vars => PipeInv' /\ [Contract!Finish]_<<n, done>>
  BY PipeNext
<1> QED BY <1>1, <1>2, PTL DEF Spec

----------------------------------------------------------------------------
(* What the calls are made of.                                             *)
LEMMA CallFacts ==
  ASSUME CallInv, batch \in Batches
  PROVE  /\ IsCall(call) /\ n \in Nat /\ call.batch.n \in Nat
         /\ n = IF Refuses(call) THEN 0 ELSE call.batch.n
         /\ D \in {2, 3, 4, 7}
         /\ Patched(call) <=> D = 7
         /\ D = 7 => IsPack(call.patch)
         /\ \A i \in 0 .. call.batch.n - 1 : call.keys[i] \in Keys
<1>1. IsCall(call)
  BY CallAssumption DEF CallInv
<1>2. /\ call.batch \in [depth : Nat, width : Nat, n : Nat]
      /\ call.keys \in [0 .. call.batch.n - 1 -> Keys]
      /\ call.op \in {"locate", "search", "fetch", "test"}
      /\ call.op \in {"locate", "test"} => ~ Patched(call)
      /\ Patched(call) => IsPack(call.patch)
  BY <1>1 DEF IsCall, Patched
<1>3. n = IF Refuses(call) THEN 0 ELSE call.batch.n
  BY <1>2 DEF CallInv, n
<1>4. D = Depth(call)
  BY DEF CallInv
<1>5. D \in {2, 3, 4, 7} /\ (Patched(call) <=> D = 7)
  <2>1. CASE call.op = "test"
    BY <1>2, <1>4, <2>1 DEF Depth
  <2>2. CASE call.op = "locate"
    BY <1>2, <1>4, <2>2 DEF Depth
  <2>3. CASE call.op \notin {"test", "locate"}
    BY <1>2, <1>4, <2>3 DEF Depth
  <2> QED BY <2>1, <2>2, <2>3
<1>6. call.batch.n \in Nat /\ n \in Nat
  BY <1>2, <1>3
<1> QED BY <1>1, <1>2, <1>3, <1>5, <1>6

(* The line the index gives a key is its own if and only if there is one.  *)
LEMMA LineFacts ==
  ASSUME NEW p, IsPack(p), NEW key \in Keys
  PROVE  LineOf(p, key) = key <=> key \in Content(p)
<1>1. /\ p.line \in Seq(Keys) /\ p.pos \in [Keys -> 0 .. Len(p.line)]
      /\ \A j \in 1 .. Len(p.line) : p.pos[p.line[j]] = j - 1
      /\ key # NoKey /\ p.pos[key] \in 0 .. Len(p.line)
  BY CallAssumption DEF IsPack
<1>2. ASSUME key \in Content(p) PROVE LineOf(p, key) = key
  <2>1. PICK j \in 1 .. Len(p.line) : p.line[j] = key
    BY <1>2 DEF Content
  <2>2. p.pos[key] = j - 1
    BY <1>1, <2>1
  <2>3. p.pos[key] + 1 = j /\ p.pos[key] < Len(p.line)
    BY <1>1, <2>2
  <2> QED BY <2>1, <2>3 DEF LineOf
<1>3. ASSUME LineOf(p, key) = key PROVE key \in Content(p)
  <2>1. p.pos[key] < Len(p.line) /\ p.line[p.pos[key] + 1] = key
    BY <1>1, <1>3 DEF LineOf
  <2>2. p.pos[key] + 1 \in 1 .. Len(p.line)
    BY <1>1, <2>1
  <2> QED BY <2>1, <2>2 DEF Content
<1> QED BY <1>2, <1>3

(* An item is finished when it has gone through the last stage.            *)
LEMMA GoneThrough ==
  ASSUME PipeInv, NEW i \in 0 .. n - 1
  PROVE  i < Len(done) <=> Went(D, i)
<1>1. Common /\ batch \in Batches
  BY DEF PipeInv, Common
<1>2. /\ D \in Nat /\ D >= 2 /\ M \in Nat /\ M >= 1 /\ n \in Nat
      /\ Span(D - 1) \in Int
  BY <1>1, Sizes
<1>3. CASE pc = "short"
  <2>1. /\ step \in 0 .. n - 1 /\ stage \in 1 .. D
        /\ Len(done) = IF stage = D THEN step ELSE 0
    BY <1>3 DEF PipeInv, ShortInv
  <2>2. Went(D, i) <=> D < stage \/ (D = stage /\ i < step)
    BY <1>3 DEF Went
  <2> QED BY <1>2, <2>1, <2>2
<1>4. CASE pc = "fill"
  <2>1. /\ row \in 1 .. D - 1 /\ step \in 0 .. M - 1 /\ stage \in 1 .. row
        /\ Len(done) = 0
    BY <1>4 DEF PipeInv, FillInv
  <2>2. Round = Span(row - 1) + step /\ Span(row - 1) \in Int
    BY <1>4, FillItem
  <2>3. Span(row - 1) + M <= Span(D - 1)
    <3>1. row - 1 \in Int /\ D - 1 \in Int /\ row - 1 < D - 1
      BY <1>2, <2>1
    <3> QED BY <1>1, <3>1, SpanOrder
  <2>4. ~ (i < Round - Span(D - 1)) /\ i # Round - Span(D - 1)
    BY <1>2, <2>1, <2>2, <2>3
  <2>5. ~ Went(D, i)
    BY <1>4, <2>4 DEF Went, Did
  <2> QED BY <2>1, <2>5
<1>5. CASE pc \in {"steady", "drain"}
  <2>1. /\ Full /\ stage \in 1 .. D
    BY <1>2, <1>5 DEF PipeInv, SteadyInv, DrainInv
  <2>2. Round \in Int
    <3>1. Common /\ step \in Int
      BY <1>2, <1>5 DEF PipeInv, SteadyInv, DrainInv
    <3> QED BY <1>2, <1>5, <3>1, SteadyItem, DrainItem
  <2>3. Len(done) = Round - Span(D - 1) + (IF stage < D THEN 1 ELSE 0)
    BY <2>1 DEF Full, At
  <2>4. Went(D, i) <=> \/ i < Round - Span(D - 1)
                       \/ (i = Round - Span(D - 1) /\ stage < D)
    BY <1>5 DEF Went, Did
  <2> QED BY <1>2, <2>1, <2>2, <2>3, <2>4
<1>6. CASE pc = "done"
  BY <1>2, <1>6 DEF PipeInv, DoneInv, Went
<1> QED BY <1>3, <1>4, <1>5, <1>6 DEF PipeInv

(* The finished items are the first ones.                                  *)
LEMMA FinishedFirst ==
  ASSUME PipeInv
  PROVE  Len(done) \in 0 .. n /\ Finished = 0 .. Len(done) - 1
<1>1. done \in Seq(0 .. n - 1) /\ InTurn /\ batch \in Batches
  BY DEF PipeInv, Common
<1>2. n \in Nat
  BY <1>1, Sizes
<1>3. ASSUME NEW j \in 1 .. Len(done)
      PROVE  done[j] = j - 1 /\ done[j] \in 0 .. n - 1
  <2>1. done[j] \in 0 .. n - 1
    BY <1>1, ElementOfSeq
  <2> QED BY <1>1, <2>1 DEF InTurn
<1>4. Len(done) \in 0 .. n
  <2>1. Len(done) \in Nat
    BY <1>1
  <2>2. Len(done) >= 1 => Len(done) - 1 \in 0 .. n - 1
    BY <1>3, <2>1
  <2> QED BY <1>2, <2>1, <2>2
<1>5. ASSUME NEW i \in 0 .. Len(done) - 1 PROVE i \in Finished
  <2>1. i + 1 \in 1 .. Len(done) /\ (i + 1) - 1 = i
    BY <1>4
  <2> QED BY <1>3, <2>1 DEF Finished
<1>6. ASSUME NEW i \in Finished PROVE i \in 0 .. Len(done) - 1
  <2>1. PICK j \in 1 .. Len(done) : i = done[j]
    BY <1>6 DEF Finished
  <2> QED BY <1>3, <1>4, <2>1
<1> QED BY <1>4, <1>5, <1>6

(* A call of a stage changes what is kept of its item, and nothing else.   *)
LEMMA OneItem ==
  ASSUME CallInv, Called, Effect
  PROVE  /\ call' = call /\ CallInv'
         /\ \A i \in (0 .. call.batch.n - 1) \ {Item} :
              /\ keyAt'[i] = keyAt[i] /\ id'[i] = id[i]
              /\ relay'[i] = relay[i] /\ out'[i] = out[i]
<1>1. /\ DOMAIN keyAt = 0 .. call.batch.n - 1
      /\ DOMAIN id = 0 .. call.batch.n - 1
      /\ DOMAIN relay = 0 .. call.batch.n - 1
      /\ DOMAIN out = 0 .. call.batch.n - 1
  BY DEF CallInv
<1> DEFINE Dom == /\ call' = call
                  /\ DOMAIN keyAt' = 0 .. call.batch.n - 1
                  /\ DOMAIN id' = 0 .. call.batch.n - 1
                  /\ DOMAIN relay' = 0 .. call.batch.n - 1
                  /\ DOMAIN out' = 0 .. call.batch.n - 1
           Others == \A i \in (0 .. call.batch.n - 1) \ {Item} :
                       /\ keyAt'[i] = keyAt[i] /\ id'[i] = id[i]
                       /\ relay'[i] = relay[i] /\ out'[i] = out[i]
<1>2. ASSUME Identify PROVE Dom /\ Others
  BY <1>1, <1>2 DEF Identify
<1>3. ASSUME Relay PROVE Dom /\ Others
  BY <1>1, <1>3 DEF Relay
<1>4. ASSUME Answer PROVE Dom /\ Others
  <2>1. PICK w : out' = [out EXCEPT ![Item] = w]
    BY <1>4 DEF Answer
  <2>2. /\ call' = call /\ id' = id /\ relay' = relay
        /\ keyAt' = IF call.inPlace THEN [keyAt EXCEPT ![Item] = NoKey]
                    ELSE keyAt
    BY <1>4 DEF Answer
  <2> QED BY <1>1, <2>1, <2>2
<1>5. ASSUME UNCHANGED lookupVars PROVE Dom /\ Others
  BY <1>1, <1>5 DEF lookupVars
<1>6. Dom /\ Others
  <2>1. Identify \/ Relay \/ Answer \/ UNCHANGED lookupVars
    BY DEF Effect
  <2> HIDE DEF Dom, Others
  <2> QED BY <1>2, <1>3, <1>4, <1>5, <2>1
<1>7. CallInv'
  <2>1. batch' = batch /\ D' = D
    BY SameBatch DEF Called
  <2> QED BY <1>6, <2>1 DEF CallInv
<1> QED BY <1>6, <1>7

(* What is known of the item a call is for.                                *)
LEMMA ItemFacts ==
  ASSUME LookupInv, Called
  PROVE  /\ Item \in 0 .. call.batch.n - 1 /\ Item \in 0 .. n - 1
         /\ call.keys[Item] \in Keys /\ call.keys[Item] # NoKey
         /\ keyAt[Item] = call.keys[Item] /\ out[Item] = Untouched
         /\ stage = 1 => relay[Item] = None2
         /\ stage = 4 => relay[Item] = None2
         /\ stage > 1 => Passed = Item /\ IdOf(Item) =
              IF relay[Item] = None2 THEN call.keys[Item] ELSE NoKey
         /\ RelayOf(Item) = relay[Item]
         /\ stage = D => relay[Item] =
              IF D = 7 THEN FromPatch(call.keys[Item]) ELSE None2
<1>1. batch \in Batches
  BY DEF LookupInv, PipeInv, Common
<1>2. /\ n \in Nat /\ call.batch.n \in Nat
      /\ n = IF Refuses(call) THEN 0 ELSE call.batch.n
      /\ D \in {2, 3, 4, 7}
      /\ \A i \in 0 .. call.batch.n - 1 : call.keys[i] \in Keys
  BY <1>1, CallFacts DEF LookupInv
<1>3. Item \in 0 .. n - 1 /\ stage \in 1 .. D
  BY DEF Called
<1>4. Item \in 0 .. call.batch.n - 1
  BY <1>2, <1>3
<1>5. call.keys[Item] \in Keys /\ call.keys[Item] # NoKey
  BY <1>2, <1>4, CallAssumption
<1>6. /\ \A d \in 1 .. stage - 1 : Went(d, Item)
      /\ \A d \in stage .. D : ~ Went(d, Item)
  BY DEF Called
<1>7. ~ Item < Len(done)
  <2>1. ~ Went(D, Item)
    BY <1>2, <1>3, <1>6
  <2> QED BY <1>3, <2>1, GoneThrough DEF LookupInv
<1>8. Kept(Item)
  BY <1>3 DEF LookupInv, ItemsInv
<1>9. Item \in DOMAIN id /\ Item \in DOMAIN relay
  BY <1>4 DEF LookupInv, CallInv
<1>10. keyAt[Item] = call.keys[Item] /\ out[Item] = Untouched
  BY <1>7, <1>8 DEF Kept
<1>11. stage \in {1, 4} => relay[Item] = None2
  <2>1. ASSUME stage \in {1, 4}, D = 7 PROVE ~ Went(4, Item)
    BY <1>6, <2>1
  <2> QED BY <1>8, <2>1 DEF Kept
<1>12. ASSUME stage > 1
       PROVE  id[Item] = IF relay[Item] = None2 THEN call.keys[Item]
                         ELSE NoKey
  <2>1. Went(1, Item)
    BY <1>2, <1>3, <1>6, <1>12
  <2> QED BY <1>8, <2>1 DEF Kept
<1>13. IdOf(Item) = id[Item] /\ RelayOf(Item) = relay[Item]
  BY <1>9 DEF IdOf, RelayOf
<1>14. ASSUME stage = D
       PROVE  relay[Item] = IF D = 7 THEN FromPatch(call.keys[Item])
                            ELSE None2
  <2>1. D = 7 => Went(4, Item)
    BY <1>6, <1>14
  <2> QED BY <1>8, <2>1 DEF Kept
<1>15. stage > 1 => Passed = Item
  BY DEF Called
<1> QED BY <1>3, <1>4, <1>5, <1>10, <1>11, <1>12, <1>13, <1>14, <1>15

(* The last stage finds what a plain map gives.                            *)
LEMMA FoundExpected ==
  ASSUME LookupInv, Called, stage = D
  PROVE  /\ Found = Expected(call.keys[Item])
         /\ call.op = "locate" => IdOf(Passed) = call.keys[Item]
<1> DEFINE key == call.keys[Item]
<1>1. batch \in Batches
  BY DEF LookupInv, PipeInv, Common
<1>2. /\ D \in {2, 3, 4, 7} /\ (Patched(call) <=> D = 7) /\ IsCall(call)
  BY <1>1, CallFacts DEF LookupInv
<1>3. /\ key \in Keys /\ keyAt[Item] = key /\ Passed = Item
      /\ IdOf(Item) = IF relay[Item] = None2 THEN key ELSE NoKey
      /\ RelayOf(Item) = relay[Item]
      /\ relay[Item] = IF D = 7 THEN FromPatch(key) ELSE None2
  BY <1>2, ItemFacts
<1>4. ASSUME relay[Item] = None2
      PROVE  Match("base", call.base, Item, Item) =
               IF key \in Content(call.base) THEN <<"base", key>> ELSE None2
  <2>1. IsPack(call.base) /\ IdOf(Item) = key
    BY <1>2, <1>3, <1>4 DEF IsCall
  <2>2. LineOf(call.base, key) = key <=> key \in Content(call.base)
    BY <1>3, <2>1, LineFacts
  <2> HIDE DEF key
  <2> QED BY <1>3, <2>1, <2>2 DEF Match
<1>5. <<"patch", key>> # None2
  BY DEF None2
<1>6. CASE Patched(call) /\ key \in Content(call.patch)
  <2>1. relay[Item] = <<"patch", key>>
    BY <1>2, <1>3, <1>6 DEF FromPatch
  <2>2. Found = <<"patch", key>>
    BY <1>3, <1>5, <1>6, <2>1 DEF Found
  <2>3. ~ (call.op = "locate")
    BY <1>2, <1>6 DEF IsCall, Patched
  <2> QED BY <1>6, <2>2, <2>3 DEF Expected
<1>7. CASE ~ (Patched(call) /\ key \in Content(call.patch))
  <2>1. relay[Item] = None2
    BY <1>2, <1>3, <1>7 DEF FromPatch
  <2>2. Found = Match("base", call.base, Item, Item)
    BY <1>3, <2>1 DEF Found
  <2> QED BY <1>3, <1>4, <1>7, <2>1, <2>2 DEF Expected
<1> QED BY <1>6, <1>7

LEMMA SameCall ==
  ASSUME call' = call
  PROVE  /\ \A key : FromPatch(key)' = FromPatch(key)
         /\ \A key : Expected(key)' = Expected(key)
         /\ \A i : Want(i)' = Want(i)
BY DEF FromPatch, Expected, Want, Content, Patched

LEMMA DoneGrows ==
  ASSUME PipeInv, Called
  PROVE  /\ Len(done) \in Nat
         /\ Len(done') = IF stage = D THEN Len(done) + 1 ELSE Len(done)
         /\ \A i \in 0 .. n - 1 : i < Len(done') <=>
              i < Len(done) \/ (stage = D /\ i = Item)
<1>1. done \in Seq(0 .. n - 1)
  BY DEF PipeInv, Common
<1>2. /\ Item \in 0 .. n - 1 /\ (stage = D => Item = Len(done))
      /\ done' = IF stage = D THEN Append(done, Item) ELSE done
  BY DEF Called
<1>3. Len(done') = IF stage = D THEN Len(done) + 1 ELSE Len(done)
  BY <1>1, <1>2
<1>4. Len(done) \in Nat
  BY <1>1
<1> QED BY <1>2, <1>3, <1>4

(* Each item is as far as its last stage took it.                          *)
LEMMA ItemsNext ==
  ASSUME LookupInv, Called, Effect
  PROVE  ItemsInv'
<1>1. batch \in Batches /\ PipeInv /\ CallInv /\ ItemsInv
  BY DEF LookupInv, PipeInv, Common
<1>2. /\ n \in Nat /\ call.batch.n \in Nat
      /\ n = IF Refuses(call) THEN 0 ELSE call.batch.n
      /\ D \in {2, 3, 4, 7}
      /\ D = 7 => IsPack(call.patch)
  BY <1>1, CallFacts
<1>3. /\ call' = call
      /\ \A i \in (0 .. call.batch.n - 1) \ {Item} :
           /\ keyAt'[i] = keyAt[i] /\ id'[i] = id[i]
           /\ relay'[i] = relay[i] /\ out'[i] = out[i]
  BY <1>1, OneItem
<1>4. n' = n /\ D' = D
  BY SameBatch DEF Called
<1>5. /\ \A key : FromPatch(key)' = FromPatch(key)
      /\ \A i : Want(i)' = Want(i)
  BY <1>3, SameCall
<1>6. /\ Item \in 0 .. n - 1 /\ stage \in 1 .. D
      /\ \A d \in 1 .. D, i \in 0 .. n - 1 :
           Went(d, i)' <=> Went(d, i) \/ (d = stage /\ i = Item)
      /\ \A d \in 1 .. stage - 1 : Went(d, Item)
      /\ \A d \in stage .. D : ~ Went(d, Item)
  BY DEF Called
<1>7. \A i \in 0 .. n - 1 : i < Len(done') <=>
        i < Len(done) \/ (stage = D /\ i = Item)
  BY <1>1, DoneGrows
<1>8. ASSUME NEW i \in n .. call.batch.n - 1
      PROVE  /\ keyAt'[i] = call.keys[i] /\ id'[i] = NoKey
             /\ relay'[i] = None2 /\ out'[i] = Untouched
  <2>1. i \in (0 .. call.batch.n - 1) \ {Item}
    BY <1>2, <1>6
  <2> QED BY <1>1, <1>3, <2>1 DEF ItemsInv
<1>9. ASSUME NEW i \in 0 .. n - 1, i # Item PROVE Kept(i)'
  <2>1. i \in (0 .. call.batch.n - 1) \ {Item}
    BY <1>2, <1>9
  <2>2. /\ keyAt'[i] = keyAt[i] /\ id'[i] = id[i]
        /\ relay'[i] = relay[i] /\ out'[i] = out[i]
    BY <1>3, <2>1
  <2>3. /\ i < Len(done') <=> i < Len(done)
        /\ Went(1, i)' <=> Went(1, i)
        /\ D = 7 => (Went(4, i)' <=> Went(4, i))
    <3>1. 1 \in 1 .. D /\ (D = 7 => 4 \in 1 .. D)
      BY <1>2
    <3> QED BY <1>6, <1>7, <1>9, <3>1
  <2>4. Kept(i)
    BY <1>1 DEF ItemsInv
  <2> QED BY <1>3, <1>4, <1>5, <2>2, <2>3, <2>4 DEF Kept
<1> PICK it \in 0 .. n - 1 : it = Item
  BY <1>6
<1> DEFINE key == call.keys[it]
<1>10. /\ Item \in 0 .. call.batch.n - 1
       /\ key \in Keys /\ key # NoKey
       /\ keyAt[it] = key /\ out[it] = Untouched
       /\ stage = 1 => relay[it] = None2
       /\ stage = 4 => relay[it] = None2
       /\ stage > 1 => Passed = Item /\ IdOf(Item) =
            IF relay[it] = None2 THEN key ELSE NoKey
  BY ItemFacts
<1>11. /\ DOMAIN keyAt = 0 .. call.batch.n - 1
       /\ DOMAIN id = 0 .. call.batch.n - 1
       /\ DOMAIN relay = 0 .. call.batch.n - 1
       /\ DOMAIN out = 0 .. call.batch.n - 1
  BY <1>1 DEF CallInv
<1>12. /\ it < Len(done') <=> stage = D
       /\ ~ it < Len(done)
       /\ Went(1, it)'
       /\ D = 7 => (Went(4, it)' <=> stage >= 4)
  <2>1. ~ Went(D, it)
    BY <1>2, <1>6
  <2>2. ~ it < Len(done)
    BY <1>1, <1>6, <2>1, GoneThrough
  <2>3. Went(1, it)'
    <3>1. 1 \in 1 .. D /\ (stage = 1 \/ 1 \in 1 .. stage - 1)
      BY <1>2, <1>6
    <3> QED BY <1>6, <3>1
  <2>4. ASSUME D = 7 PROVE Went(4, it)' <=> stage >= 4
    <3>1. 4 \in 1 .. D /\ (4 \in stage .. D \/ 4 \in 1 .. stage - 1)
      BY <1>2, <1>6, <2>4
    <3>2. Went(4, it)' <=> Went(4, it) \/ 4 = stage
      BY <1>6, <3>1
    <3>3. 4 \in 1 .. stage - 1 => stage > 4
      BY <1>2, <1>6
    <3>4. 4 \in stage .. D => stage <= 4
      BY <1>2, <1>6
    <3> QED BY <1>2, <1>6, <3>1, <3>2, <3>3, <3>4
  <2> QED BY <1>6, <1>7, <2>2, <2>3, <2>4
<1>13. Kept(it)
  BY <1>1, <1>6 DEF ItemsInv
<1> HIDE DEF key
<1>14. ASSUME stage = 1 /\ Identify PROVE Kept(it)'
  <2>1. /\ keyAt' = keyAt /\ relay' = relay /\ out' = out
        /\ id'[it] = key
    BY <1>10, <1>11, <1>14 DEF Identify
  <2>2. ~ (it < Len(done'))
    BY <1>2, <1>12, <1>14
  <2>3. D = 7 => ~ Went(4, it)'
    BY <1>12, <1>14
  <2> QED BY <1>3, <1>4, <1>10, <1>12, <1>14, <2>1, <2>2, <2>3
          DEF Kept, key
<1>15. ASSUME stage = 4 /\ D = 7 /\ Relay PROVE Kept(it)'
  <2>1. IdOf(Item) = key /\ Passed = Item
    BY <1>10, <1>15
  <2>2. Match("patch", call.patch, Item, Passed) = FromPatch(key)
    <3>1. LineOf(call.patch, key) = key <=> key \in Content(call.patch)
      BY <1>2, <1>10, <1>15, LineFacts
    <3> QED BY <1>10, <2>1, <3>1 DEF Match, FromPatch
  <2>3. /\ keyAt' = keyAt /\ out' = out
        /\ relay'[it] = FromPatch(key)
        /\ id'[it] = IF FromPatch(key) = None2 THEN key ELSE NoKey
    BY <1>10, <1>11, <1>15, <2>2 DEF Relay
  <2>4. ~ (it < Len(done')) /\ Went(4, it)'
    BY <1>12, <1>15
  <2> QED BY <1>3, <1>4, <1>5, <1>10, <1>12, <1>15, <2>3, <2>4
          DEF Kept, key
<1>16. ASSUME stage = D /\ Answer PROVE Kept(it)'
  <2>1. /\ Found = Expected(key)
        /\ call.op = "locate" => IdOf(Passed) = key
    BY <1>16, FoundExpected DEF key
  <2>2. out'[it] = Want(it)
    <3>1. out'[it] =
            IF call.op = "locate" THEN <<"at", IdOf(Passed)>>
            ELSE IF call.op = "fetch" /\ Found = None2
            THEN IF call.default THEN <<"default", NoKey>> ELSE out[it]
            ELSE Found
      BY <1>10, <1>11, <1>16 DEF Answer
    <3>2. Want(it) =
            IF call.op = "locate" THEN <<"at", key>>
            ELSE IF call.op # "fetch" \/ Expected(key) # None2
            THEN Expected(key)
            ELSE IF call.default THEN <<"default", NoKey>> ELSE Untouched
      BY DEF Want, key
    <3> QED BY <1>10, <2>1, <3>1, <3>2
  <2>3. /\ id' = id /\ relay' = relay
        /\ keyAt'[it] = IF call.inPlace THEN NoKey ELSE key
    BY <1>10, <1>11, <1>16 DEF Answer
  <2>4. /\ Went(1, it)
        /\ D = 7 => Went(4, it) /\ Went(4, it)'
    <3>1. 1 \in 1 .. stage - 1 /\ (D = 7 => 4 \in 1 .. stage - 1)
      BY <1>2, <1>16
    <3> QED BY <1>2, <1>6, <1>12, <1>16, <3>1
  <2>5. it < Len(done')
    BY <1>12, <1>16
  <2> QED BY <1>3, <1>4, <1>5, <1>12, <1>13, <2>2, <2>3, <2>4, <2>5
          DEF Kept, key
<1>17. ASSUME stage \notin {1, D}, ~ (stage = 4 /\ D = 7),
              UNCHANGED lookupVars
       PROVE  Kept(it)'
  <2>1. keyAt' = keyAt /\ id' = id /\ relay' = relay /\ out' = out
    BY <1>17 DEF lookupVars
  <2>2. Went(1, it) /\ (D = 7 => (Went(4, it)' <=> Went(4, it)))
    <3>1. 1 \in 1 .. stage - 1 /\ (D = 7 => 4 \in 1 .. D /\ stage # 4)
      BY <1>2, <1>6, <1>17
    <3> QED BY <1>6, <3>1
  <2> QED BY <1>3, <1>4, <1>5, <1>12, <1>13, <1>17, <2>1, <2>2 DEF Kept
<1>18. Kept(it)'
  BY <1>14, <1>15, <1>16, <1>17 DEF Effect
<1>19. \A i \in 0 .. n - 1 : Kept(i)'
  BY <1>9, <1>18
<1> QED BY <1>3, <1>4, <1>8, <1>19 DEF ItemsInv

(* The finished items and the misses grow by one at a time.                *)
LEMMA MissesNext ==
  ASSUME PipeInv, Called, call' = call
  PROVE  /\ stage # D => Misses' = Misses
         /\ stage = D => Misses' =
              IF Expected(call.keys[Item]) = None2 THEN Misses \cup {Item}
              ELSE Misses
         /\ Misses \subseteq 0 .. Len(done) - 1
         /\ stage = D => Item = Len(done)
<1>1. done \in Seq(0 .. n - 1) /\ Len(done) \in Nat
  BY DEF PipeInv, Common
<1>2. /\ stage = D => Item = Len(done)
      /\ done' = IF stage = D THEN Append(done, Item) ELSE done
  BY DEF Called
<1>3. \A key : Expected(key)' = Expected(key)
  BY SameCall
<1>4. Misses \subseteq 0 .. Len(done) - 1
  BY FinishedFirst DEF Misses
<1>5. ASSUME stage # D PROVE Misses' = Misses
  <2>1. Finished' = Finished
    BY <1>2, <1>5 DEF Finished
  <2> QED BY <1>3, <2>1 DEF Misses
<1>6. ASSUME stage = D
      PROVE  Misses' = IF Expected(call.keys[Item]) = None2
                       THEN Misses \cup {Item} ELSE Misses
  <2>1. /\ Len(done') = Len(done) + 1 /\ done'[Len(done) + 1] = Item
        /\ \A j \in 1 .. Len(done) : done'[j] = done[j]
    BY <1>1, <1>2, <1>6
  <2>2. Finished' = Finished \cup {Item}
    <3>1. 1 .. Len(done') = (1 .. Len(done)) \cup {Len(done) + 1}
      BY <1>1, <2>1
    <3> QED BY <2>1, <3>1 DEF Finished
  <2> QED BY <1>3, <2>2 DEF Misses
<1> QED BY <1>2, <1>4, <1>5, <1>6

(* One more item is a hit or a miss.                                       *)
LEMMA CountOne ==
  ASSUME NEW N \in Nat, NEW S, S \subseteq 0 .. N - 1
  PROVE  /\ IsFiniteSet(S) /\ Cardinality(S) \in 0 .. N
         /\ Cardinality(S \cup {N}) = Cardinality(S) + 1
<1>1. IsFiniteSet(0 .. N - 1) /\ Cardinality(0 .. N - 1) = N
  BY FS_Interval
<1>2. IsFiniteSet(S) /\ Cardinality(S) <= N
  BY <1>1, FS_Subset
<1>3. Cardinality(S) \in Nat
  BY <1>2, FS_CardinalityType
<1>4. N \notin S
  OBVIOUS
<1>5. Cardinality(S \cup {N}) = Cardinality(S) + 1
  BY <1>2, <1>4, FS_AddElement
<1> QED BY <1>2, <1>3, <1>5

(* A miss is appended after those before.                                  *)
LEMMA AppendOne ==
  ASSUME NEW N \in Nat, NEW q \in Seq(0 .. N - 1),
         \A a, b \in 1 .. Len(q) : a < b => q[a] < q[b],
         NEW r, r = Append(q, N)
  PROVE  /\ r \in Seq(0 .. N)
         /\ \A a, b \in 1 .. Len(r) : a < b => r[a] < r[b]
         /\ {r[a] : a \in 1 .. Len(r)} =
              {q[a] : a \in 1 .. Len(q)} \cup {N}
<1>1. q \in Seq(0 .. N) /\ Len(q) \in Nat
  <2>1. 0 .. N - 1 \subseteq 0 .. N
    OBVIOUS
  <2> QED BY <2>1, SeqMonotonic
<1>2. /\ r \in Seq(0 .. N) /\ Len(r) = Len(q) + 1 /\ r[Len(q) + 1] = N
      /\ \A a \in 1 .. Len(q) : r[a] = q[a]
  <2>1. N \in 0 .. N
    OBVIOUS
  <2> QED BY <1>1, <2>1
<1>3. 1 .. Len(r) = (1 .. Len(q)) \cup {Len(q) + 1}
  BY <1>1, <1>2
<1>4. ASSUME NEW a \in 1 .. Len(r), NEW b \in 1 .. Len(r), a < b
      PROVE  r[a] < r[b]
  <2>1. a \in 1 .. Len(q)
    BY <1>1, <1>2, <1>4
  <2>2. CASE b \in 1 .. Len(q)
    <3>1. q[a] < q[b]
      BY <1>4, <2>1, <2>2
    <3>2. r[a] = q[a] /\ r[b] = q[b]
      BY <1>2, <2>1, <2>2
    <3> QED BY <3>1, <3>2
  <2>3. CASE b = Len(q) + 1
    <3>1. q[a] \in 0 .. N - 1
      BY <2>1, ElementOfSeq
    <3> QED BY <1>2, <2>1, <2>3, <3>1
  <2> QED BY <1>3, <2>2, <2>3
<1>5. {r[a] : a \in 1 .. Len(r)} = {q[a] : a \in 1 .. Len(q)} \cup {N}
  BY <1>2, <1>3
<1> QED BY <1>2, <1>4, <1>5

LEMMA CountsNext ==
  ASSUME LookupInv, Called, Effect
  PROVE  CountsInv'
<1>1. PipeInv /\ CallInv /\ CountsInv /\ call' = call
  BY OneItem DEF LookupInv
<1>2. /\ Len(done) \in Nat
      /\ Len(done') = IF stage = D THEN Len(done) + 1 ELSE Len(done)
  BY <1>1, DoneGrows
<1>3. /\ stage # D => Misses' = Misses
      /\ stage = D => Misses' =
           IF Expected(call.keys[Item]) = None2 THEN Misses \cup {Item}
           ELSE Misses
      /\ Misses \subseteq 0 .. Len(done) - 1
      /\ stage = D => Item = Len(done)
  BY <1>1, MissesNext
<1>4. Cardinality(Misses) \in Nat
      /\ Cardinality(Misses \cup {Len(done)}) = Cardinality(Misses) + 1
  <2>1. /\ Cardinality(Misses) \in 0 .. Len(done)
        /\ Cardinality(Misses \cup {Len(done)}) = Cardinality(Misses) + 1
    <3> HIDE DEF Misses
    <3> QED BY <1>2, <1>3, CountOne
  <2> QED BY <2>1
<1>5. /\ hits \in Nat
      /\ call.op = "locate" => hits = 0
      /\ call.op # "locate" => hits + Cardinality(Misses) = Len(done)
      /\ missed \in Seq(0 .. Len(done) - 1)
      /\ \A a, b \in 1 .. Len(missed) : a < b => missed[a] < missed[b]
      /\ {missed[a] : a \in 1 .. Len(missed)} = Listed
  BY <1>1 DEF CountsInv
<1>6. Listed' = IF call.op = "fetch" /\ ~ call.default /\ call.misses
                THEN Misses' ELSE {}
  BY <1>1 DEF Listed
<1>7. CASE stage # D
  <2>1. hits' = hits /\ missed' = missed
    BY <1>7 DEF Effect, Identify, Relay, lookupVars
  <2>2. Listed' = Listed
    BY <1>3, <1>6, <1>7 DEF Listed
  <2> QED BY <1>1, <1>2, <1>3, <1>5, <1>7, <2>1, <2>2 DEF CountsInv
<1>8. CASE stage = D
  <2>1. Answer
    <3>1. D \in {2, 3, 4, 7}
      BY <1>1, CallFacts DEF PipeInv, Common
    <3> QED BY <1>8, <3>1 DEF Effect
  <2>2. Found = Expected(call.keys[Item])
    BY <1>8, FoundExpected
  <2> DEFINE miss == Expected(call.keys[Item]) = None2
             list == call.op = "fetch" /\ ~ call.default /\ call.misses
  <2>3. /\ hits' = IF call.op # "locate" /\ ~ miss THEN hits + 1 ELSE hits
        /\ missed' = IF miss /\ list THEN Append(missed, Len(done))
                     ELSE missed
    BY <1>3, <1>8, <2>1, <2>2 DEF Answer, ListsMiss
  <2>4. Misses' = IF miss THEN Misses \cup {Len(done)} ELSE Misses
    BY <1>3, <1>8
  <2>5. Len(done') = Len(done) + 1
    BY <1>2, <1>8
  <2>6. Listed = (IF list THEN Misses ELSE {})
        /\ Listed' = (IF list THEN Misses' ELSE {})
    BY <1>6 DEF Listed
  <2> HIDE DEF miss, list
  <2>7. /\ hits' \in Nat
        /\ IF call.op = "locate" THEN hits' = 0
           ELSE hits' + Cardinality(Misses') = Len(done')
    <3>1. hits \in Nat /\ Cardinality(Misses) \in Nat
      BY <1>4, <1>5
    <3>2. CASE call.op = "locate"
      <4>1. hits = 0 /\ hits' = hits
        BY <1>5, <2>3, <3>2
      <4> QED BY <3>2, <4>1
    <3>3. CASE call.op # "locate"
      <4>1. hits + Cardinality(Misses) = Len(done)
        BY <1>5, <3>3
      <4>2. \/ /\ hits' = hits
               /\ Cardinality(Misses') = Cardinality(Misses) + 1
            \/ /\ hits' = hits + 1
               /\ Cardinality(Misses') = Cardinality(Misses)
        BY <1>4, <2>3, <2>4, <3>3
      <4>3. hits' \in Nat /\ hits' + Cardinality(Misses') = Len(done) + 1
        BY <3>1, <4>1, <4>2
      <4> QED BY <2>5, <3>3, <4>3
    <3> QED BY <3>2, <3>3
  <2>8. /\ missed' \in Seq(0 .. Len(done))
        /\ \A a, b \in 1 .. Len(missed') : a < b => missed'[a] < missed'[b]
        /\ {missed'[a] : a \in 1 .. Len(missed')} = Listed'
    <3>1. CASE miss /\ list
      <4>1. missed' = Append(missed, Len(done))
        BY <2>3, <3>1
      <4>2. Listed' = Listed \cup {Len(done)}
        BY <2>4, <2>6, <3>1
      <4>3. /\ missed \in Seq(0 .. Len(done) - 1)
            /\ \A a, b \in 1 .. Len(missed) : a < b => missed[a] < missed[b]
        BY <1>5
      <4>4. /\ missed' \in Seq(0 .. Len(done))
            /\ \A a, b \in 1 .. Len(missed') :
                 a < b => missed'[a] < missed'[b]
            /\ {missed'[a] : a \in 1 .. Len(missed')} =
                 {missed[a] : a \in 1 .. Len(missed)} \cup {Len(done)}
        BY <1>2, <4>1, <4>3, AppendOne
      <4> QED BY <1>5, <4>2, <4>4
    <3>2. CASE ~ (miss /\ list)
      <4>1. missed' = missed /\ Listed' = Listed
        BY <2>3, <2>4, <2>6, <3>2
      <4>2. 0 .. Len(done) - 1 \subseteq 0 .. Len(done)
        BY <1>2
      <4>3. missed \in Seq(0 .. Len(done))
        BY <1>5, <4>2, SeqMonotonic
      <4> QED BY <1>5, <4>1, <4>3
    <3> QED BY <3>1, <3>2
  <2>9. Len(done') - 1 = Len(done)
    BY <1>2, <2>5
  <2> QED BY <1>1, <2>7, <2>8, <2>9 DEF CountsInv
<1> QED BY <1>7, <1>8

(* Nothing is done of any item before the first call.                      *)
LEMMA NothingWent ==
  ASSUME Init, NEW d \in 1 .. D, NEW i \in 0 .. n - 1
  PROVE  ~ Went(d, i)
<1>1. /\ PipeInv /\ done = <<>> /\ batch \in Batches
      /\ row = 1 /\ step = 0 /\ stage = 1
  BY PipeStarts DEF Init
<1>2. /\ D \in Nat /\ M \in Nat /\ M >= 1 /\ n \in Nat /\ Span(0) = 0
  BY <1>1, Sizes
<1>3. CASE pc = "short"
  BY <1>1, <1>2, <1>3 DEF Went
<1>4. CASE pc = "done"
  BY <1>1, <1>2, <1>4 DEF PipeInv, DoneInv
<1>5. CASE pc \notin {"short", "done"}
  <2>1. pc = "fill"
    BY <1>5 DEF Init
  <2>2. Round = 0
    <3>1. row - 1 = 0
      BY <1>1
    <3> QED BY <1>1, <1>2, <2>1, <3>1 DEF Round
  <2>3. Span(d - 1) \in Int /\ Span(d - 1) >= 0
        /\ (d > 1 => Span(d - 1) >= M)
    <3>1. d - 1 \in Int /\ 0 \in Int /\ 0 <= d - 1 /\ (d > 1 => 0 < d - 1)
      BY <1>2
    <3> QED BY <1>1, <1>2, <3>1, SpanOrder
  <2>4. ~ Did(Round, stage, d, i)
    BY <1>1, <1>2, <2>2, <2>3 DEF Did
  <2> QED BY <1>5, <2>4 DEF Went
<1> QED BY <1>3, <1>4, <1>5

LEMMA LookupStarts ==
  ASSUME LookupInit
  PROVE  LookupInv
<1>1. Init /\ PipeInv /\ done = <<>> /\ batch \in Batches /\ Len(done) = 0
  BY PipeStarts DEF LookupInit, Init
<1>2. /\ call \in Calls /\ batch.depth = Depth(call)
      /\ batch = [call.batch EXCEPT !.n = IF Refuses(call) THEN 0 ELSE @]
      /\ keyAt = call.keys
      /\ id = [i \in DOMAIN keyAt |-> NoKey]
      /\ relay = [i \in DOMAIN keyAt |-> None2]
      /\ out = [i \in DOMAIN keyAt |-> Untouched]
      /\ hits = 0 /\ missed = <<>>
  BY DEF LookupInit
<1>3. DOMAIN keyAt = 0 .. call.batch.n - 1
  BY <1>2, CallAssumption DEF IsCall
<1>4. CallInv
  BY <1>2, <1>3 DEF CallInv, D
<1>5. /\ n \in Nat /\ call.batch.n \in Nat
      /\ n = IF Refuses(call) THEN 0 ELSE call.batch.n
      /\ D \in {2, 3, 4, 7}
  BY <1>1, <1>4, CallFacts
<1>6. ASSUME NEW i \in 0 .. n - 1 PROVE Kept(i)
  <2>1. i \in 0 .. call.batch.n - 1 /\ ~ i < Len(done)
    BY <1>1, <1>5
  <2>2. ~ Went(1, i) /\ (D = 7 => ~ Went(4, i))
    <3>1. 1 \in 1 .. D /\ (D = 7 => 4 \in 1 .. D)
      BY <1>5
    <3> QED BY <1>1, <3>1, NothingWent
  <2> QED BY <1>2, <1>3, <2>1, <2>2 DEF Kept
<1>7. ItemsInv
  <2>1. ASSUME NEW i \in n .. call.batch.n - 1
        PROVE  i \in 0 .. call.batch.n - 1
    BY <1>5
  <2> QED BY <1>2, <1>3, <1>6, <2>1 DEF ItemsInv
<1>8. CountsInv
  <2>1. Finished = {}
    BY <1>1 DEF Finished
  <2>2. Misses = {} /\ Cardinality(Misses) = 0
    BY <2>1, FS_EmptySet DEF Misses
  <2>3. Listed = {}
    BY <2>2 DEF Listed
  <2>4. missed \in Seq(0 .. Len(done) - 1) /\ Len(missed) = 0
    BY <1>2
  <2> QED BY <1>1, <1>2, <2>2, <2>3, <2>4 DEF CountsInv
<1> QED BY <1>1, <1>4, <1>7, <1>8 DEF LookupInv

LEMMA LookupStays ==
  ASSUME LookupInv, UNCHANGED allVars
  PROVE  LookupInv'
<1>1. UNCHANGED vars /\ UNCHANGED lookupVars /\ batch' = batch
  BY DEF allVars, vars
<1>2. PipeInv'
  BY <1>1, PipeStays DEF LookupInv
<1>3. /\ call' = call /\ keyAt' = keyAt /\ id' = id /\ relay' = relay
      /\ out' = out /\ hits' = hits /\ missed' = missed /\ done' = done
  BY <1>1 DEF lookupVars, vars
<1>4. D' = D /\ n' = n /\ M' = M
  BY <1>1, SameBatch
<1>5. CallInv'
  BY <1>1, <1>3, <1>4 DEF LookupInv, CallInv
<1>6. \A d, i : Went(d, i)' <=> Went(d, i)
  <2>1. Round' = Round
    BY <1>1, SameBatch DEF vars, Round
  <2>2. \A d : Span(d - 1)' = Span(d - 1)
    BY <1>4 DEF Span
  <2>3. \A d, i : Did(Round, stage, d, i)' <=> Did(Round, stage, d, i)
    BY <1>1, <2>1, <2>2 DEF Did, vars
  <2> QED BY <1>1, <2>3 DEF Went, vars
<1>7. /\ \A key : FromPatch(key)' = FromPatch(key)
      /\ \A key : Expected(key)' = Expected(key)
      /\ \A i : Want(i)' = Want(i)
  BY <1>3, SameCall
<1>8. \A i : Kept(i) => Kept(i)'
  BY <1>3, <1>4, <1>6, <1>7 DEF Kept
<1>9. ItemsInv'
  BY <1>3, <1>4, <1>8 DEF LookupInv, ItemsInv
<1>10. Misses' = Misses
  BY <1>3, <1>7 DEF Misses, Finished
<1>11. CountsInv'
  BY <1>3, <1>10 DEF LookupInv, CountsInv, Listed
<1> QED BY <1>2, <1>5, <1>9, <1>11 DEF LookupInv

LEMMA LookupStep ==
  ASSUME LookupInv, [LookupNext]_allVars
  PROVE  LookupInv' /\ [Contract!Finish]_<<n, done>>
<1>1. PipeInv /\ n \in Nat
  BY Sizes DEF LookupInv, PipeInv, Common
<1>2. CASE (ShortCall \/ FillCall \/ SteadyCall \/ DrainCall) /\ Effect
  <2>1. PipeInv' /\ Called
    BY <1>1, <1>2, PipeStep
  <2>2. CallInv'
    BY <1>2, <2>1, OneItem DEF LookupInv
  <2>3. ItemsInv' /\ CountsInv'
    BY <1>2, <2>1, ItemsNext, CountsNext
  <2> QED BY <1>1, <2>1, <2>2, <2>3, InTurnStep DEF LookupInv
<1>3. CASE UNCHANGED allVars
  <2>1. UNCHANGED <<n, done>>
    BY <1>3, SameBatch DEF allVars, vars
  <2> QED BY <1>3, <2>1, LookupStays
<1> QED BY <1>2, <1>3 DEF LookupNext, Terminated, allVars

(* What is kept says what the callers rely on.                             *)
LEMMA LookupAnswers ==
  ASSUME LookupInv
  PROVE  AnswersRight
<1>1. /\ PipeInv /\ CallInv /\ ItemsInv /\ CountsInv /\ batch \in Batches
  BY DEF LookupInv, PipeInv, Common
<1>2. /\ n \in Nat /\ call.batch.n \in Nat
      /\ n = IF Refuses(call) THEN 0 ELSE call.batch.n
  BY <1>1, CallFacts
<1>3. Len(done) \in 0 .. n /\ Finished = 0 .. Len(done) - 1
  BY <1>1, FinishedFirst
<1>4. ASSUME NEW i \in DOMAIN out
      PROVE  out[i] = IF i \in Finished THEN Want(i) ELSE Untouched
  <2>1. i \in 0 .. call.batch.n - 1
    BY <1>1 DEF CallInv
  <2>2. CASE i \in 0 .. n - 1
    <3>1. Kept(i)
      BY <1>1, <2>2 DEF ItemsInv
    <3>2. i \in Finished <=> i < Len(done)
      BY <1>3, <2>2
    <3> QED BY <3>1, <3>2 DEF Kept
  <2>3. CASE i \in n .. call.batch.n - 1
    <3>1. i \notin Finished
      BY <1>2, <1>3, <2>3
    <3> QED BY <1>1, <2>3, <3>1 DEF ItemsInv
  <2> QED BY <1>2, <2>1, <2>2, <2>3
<1>5. call.op # "locate" => hits + Cardinality(Misses) = Len(done)
  BY <1>1 DEF CountsInv
<1>6. ASSUME NEW a \in 1 .. Len(missed) - 1
      PROVE  missed[a] < missed[a + 1]
  <2>1. Len(missed) \in Nat
    BY <1>1 DEF CountsInv
  <2>2. a \in 1 .. Len(missed) /\ a + 1 \in 1 .. Len(missed) /\ a < a + 1
    BY <2>1
  <2> QED BY <1>1, <2>2 DEF CountsInv
<1>7. {missed[a] : a \in 1 .. Len(missed)} = Listed
  BY <1>1 DEF CountsInv
<1>8. ASSUME done # <<>> PROVE ~ Refuses(call)
  <2>1. Len(done) # 0
    BY <1>1, <1>8 DEF PipeInv, Common
  <2> QED BY <1>2, <1>3, <2>1
<1>9. done # <<>> =>
        /\ call.op = "search" => call.base.type \in {"set", "inline"}
        /\ call.op = "fetch" => call.base.type = "inline"
        /\ Patched(call) => /\ call.patch.type = call.base.type
                            /\ call.patch.format = call.base.format
  BY <1>8 DEF Refuses
<1> QED BY <1>4, <1>5, <1>6, <1>7, <1>9 DEF AnswersRight, Want, Listed

LEMMA LookupTypes ==
  ASSUME LookupInv
  PROVE  LookupTypeOK
<1>1. /\ PipeInv /\ CallInv /\ ItemsInv /\ CountsInv /\ batch \in Batches
  BY DEF LookupInv, PipeInv, Common
<1>2. /\ n \in Nat /\ call.batch.n \in Nat /\ IsCall(call)
      /\ n = IF Refuses(call) THEN 0 ELSE call.batch.n
      /\ \A i \in 0 .. call.batch.n - 1 : call.keys[i] \in Keys
  BY <1>1, CallFacts
<1>3. Len(done) \in 0 .. n /\ Finished = 0 .. Len(done) - 1
  BY <1>1, FinishedFirst
<1>4. DOMAIN out = DOMAIN call.keys
  BY <1>1, <1>2 DEF CallInv, IsCall
<1>5. ASSUME NEW key
      PROVE  /\ FromPatch(key)[1] \in {"none", "patch"}
             /\ Expected(key)[1] \in {"none", "patch", "base"}
  BY DEF FromPatch, Expected, None2
<1>6. ASSUME NEW i
      PROVE  Want(i)[1] \in {"untouched", "none", "at", "base", "patch",
                             "default"}
  BY <1>5 DEF Want, Untouched
<1>7. ASSUME NEW i \in DOMAIN out
      PROVE  /\ keyAt[i] \in {call.keys[i], NoKey}
             /\ id[i] \in Keys \cup {NoKey}
             /\ relay[i][1] \in {"none", "patch"}
             /\ out[i][1] \in
                  {"untouched", "none", "at", "base", "patch", "default"}
  <2>1. i \in 0 .. call.batch.n - 1 /\ call.keys[i] \in Keys
    BY <1>1, <1>2 DEF CallInv
  <2>2. CASE i \in 0 .. n - 1
    <3>1. Kept(i)
      BY <1>1, <2>2 DEF ItemsInv
    <3>2. None2[1] = "none" /\ Untouched[1] = "untouched"
      BY DEF None2, Untouched
    <3> QED BY <1>5, <1>6, <2>1, <3>1, <3>2 DEF Kept
  <2>3. CASE i \in n .. call.batch.n - 1
    BY <1>1, <2>3 DEF ItemsInv, None2, Untouched
  <2> QED BY <1>2, <2>1, <2>2, <2>3
<1>8. hits \in 0 .. n
  <2>1. Misses \subseteq 0 .. Len(done) - 1 /\ Len(done) \in Nat
    BY <1>3 DEF Misses
  <2>2. Cardinality(Misses) \in 0 .. Len(done)
    <3> HIDE DEF Misses
    <3> QED BY <2>1, CountOne
  <2> QED BY <1>1, <1>2, <1>3, <2>2 DEF CountsInv
<1>9. missed \in Seq(0 .. n - 1)
  <2> DEFINE S == 0 .. Len(done) - 1
             T == 0 .. n - 1
  <2>1. S \subseteq T
    BY <1>2, <1>3
  <2>2. missed \in Seq(S)
    BY <1>1 DEF CountsInv
  <2>3. missed \in Seq(T)
    <3> HIDE DEF S, T
    <3> QED BY <2>1, <2>2, SeqMonotonic
  <2> QED BY <2>3
<1> QED BY <1>1, <1>4, <1>7, <1>8, <1>9, PipeTypes DEF LookupTypeOK

(* The lookups keep the types: every key is dealt with in its own place,   *)
(* and no more hits are counted than there are keys (shd.cc:209-515).      *)
THEOREM LookupTypeCorrect == LookupSpec => []LookupTypeOK
<1>1. LookupInit => LookupInv
  BY LookupStarts
<1>2. LookupInv /\ [LookupNext]_allVars => LookupInv'
  BY LookupStep
<1>3. LookupInv => LookupTypeOK
  BY LookupTypes
<1> QED BY <1>1, <1>2, <1>3, PTL DEF LookupSpec

(* The answers, counts and lists of a batch lookup are those of looking    *)
(* its keys up one by one in a map, for any packs and patches whose        *)
(* indexes give their own keys their own lines.                            *)
THEOREM LookupAnswersRight == LookupSpec => []AnswersRight
<1>1. LookupInit => LookupInv
  BY LookupStarts
<1>2. LookupInv /\ [LookupNext]_allVars => LookupInv'
  BY LookupStep
<1>3. LookupInv => AnswersRight
  BY LookupAnswers
<1> QED BY <1>1, <1>2, <1>3, PTL DEF LookupSpec

(* The lookups finish their keys in their order.                           *)
THEOREM LookupInOrder ==
  LookupSpec => Contract!Init /\ [][Contract!Finish]_<<n, done>>
<1>1. LookupInit => LookupInv /\ Contract!Init
  BY LookupStarts DEF LookupInit, Init, Contract!Init
<1>2. LookupInv /\ [LookupNext]_allVars
        => LookupInv' /\ [Contract!Finish]_<<n, done>>
  BY LookupStep
<1> QED BY <1>1, <1>2, PTL DEF LookupSpec

============================================================================
