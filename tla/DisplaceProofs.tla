-------------------------- MODULE DisplaceProofs ---------------------------
(***************************************************************************)
(* Proofs about module Displace, for every choice of its constants: the    *)
(* types, the exactness of the bitmap, what a failed search means, and     *)
(* that a search which succeeds is a perfect hash.                         *)
(***************************************************************************)
EXTENDS Displace, Integers, FiniteSetTheorems, TLAPS

----------------------------------------------------------------------------
(* Arithmetic.                                                             *)

(* The earlier batches are among the identifiers placed: TryToMapLarge     *)
(* never clears a bit it has not set.                                      *)
LEMMA RoundDown ==
  ASSUME NEW a \in Nat, NEW b \in Nat \ {0}
  PROVE  a \div b \in Nat /\ (a \div b) * b \in 0 .. a
<1>1. /\ a \div b \in Nat
      /\ a = (b * (a \div b)) + (a % b)
      /\ a % b \in 0 .. b - 1
  BY SMT
<1> QED BY <1>1

(* A bit below another is in the same section or in an earlier one.        *)
LEMMA DivMonotone ==
  ASSUME NEW a \in Nat, NEW c \in Nat, NEW b \in Nat \ {0}, a <= c
  PROVE  a \div b <= c \div b
  BY SMT

(* SectionSize sections cover every bit.                                   *)
LEMMA DivCovers ==
  ASSUME NEW p \in Nat, NEW n \in Nat, NEW b \in Nat \ {0}, p < n
  PROVE  p \div b < (n + b - 1) \div b
  BY SMT

(* The seed counts up, and starts again at 0 after the last one.           *)
LEMMA NextSeed ==
  ASSUME NEW s \in Seeds
  PROVE  Next8(s) = IF s = Tries - 1 THEN 0 ELSE s + 1
<1>1. Tries \in Nat \ {0} /\ s \in 0 .. Tries - 1
  BY ParamAssumption DEF Seeds
<1>2. CASE s = Tries - 1
  BY <1>1, <1>2 DEF Next8
<1>3. CASE s # Tries - 1
  <2>1. s + 1 \in 0 .. Tries - 1  BY <1>1, <1>3
  <2> QED BY <1>1, <1>3, <2>1 DEF Next8
<1> QED BY <1>2, <1>3

(* The seed after a seed and the one before it are seeds.                  *)
LEMMA SeedsWrap ==
  ASSUME NEW s \in Seeds
  PROVE  Next8(s) \in Seeds /\ Prev8(s) \in Seeds
  BY ParamAssumption DEF Seeds, Next8, Prev8

----------------------------------------------------------------------------
(* Types.                                                                  *)

(* The working array is the input in another order.                        *)
SameIds ==
  \E g \in Rearrangements(1 .. Size) :
    \A i \in 1 .. Size : ids[i] = piece.ids[g[i]]

TypeInv == TypeOK /\ SameIds

(* The input of a build is a piece, and the array has its identifiers.     *)
LEMMA PieceTypes ==
  ASSUME IsPiece(piece)
  PROVE  /\ Size \in Nat \ {0}
         /\ piece.ids \in [1 .. Size -> Nat]
         /\ DOMAIN piece.ids = 1 .. Size
         /\ piece.l1 \in [{piece.ids[i] : i \in 1 .. Size}
                            -> 0 .. L1Size(Size) - 1]
         /\ piece.l2 \in [{piece.ids[i] : i \in 1 .. Size}
                            -> [Seeds -> 0 .. L2Size(Size) - 1]]
<1>1. piece.ids \in Seq(Nat) /\ piece.ids # <<>>
  BY DEF IsPiece
<1>2. Size \in Nat \ {0} /\ DOMAIN piece.ids = 1 .. Size
  BY <1>1 DEF Size
<1>3. piece.ids \in [1 .. Size -> Nat]
  BY <1>1, <1>2 DEF Size
<1> QED BY <1>2, <1>3 DEF IsPiece, Size

(* The sizes computed from a piece are natural numbers.                    *)
LEMMA SizeTypes ==
  ASSUME IsPiece(piece)
  PROVE  /\ L1Size(Size) \in Nat
         /\ L2Size(Size) \in Nat
         /\ SectionSize(Size) \in Nat
<1>1. Size \in Nat  BY PieceTypes
<1>2. \A a \in Nat, b \in Nat \ {0} : (a + b - 1) \div b \in Nat
  <2> SUFFICES ASSUME NEW a \in Nat, NEW b \in Nat \ {0}
               PROVE  (a + b - 1) \div b \in Nat
    OBVIOUS
  <2>1. a + b - 1 \in Nat  OBVIOUS
  <2> QED BY <2>1, RoundDown
<1>3. L2Size(Size) \in Nat  BY <1>1 DEF L2Size
<1> QED BY <1>1, <1>2, <1>3, ParamAssumption DEF L1Size, SectionSize

(* What the hash tables give for the identifiers of the array.             *)
LEMMA HashTypes ==
  ASSUME TypeInv, NEW i \in 1 .. Size
  PROVE  /\ ids[i] \in {piece.ids[k] : k \in 1 .. Size}
         /\ BucketOf(i) \in 0 .. L1Size(Size) - 1
         /\ \A s \in Seeds : Bit(i, s) \in 0 .. L2Size(Size) - 1
<1>1. IsPiece(piece)  BY DEF TypeInv, TypeOK
<1>2. PICK g \in Rearrangements(1 .. Size) :
             \A k \in 1 .. Size : ids[k] = piece.ids[g[k]]
  BY DEF TypeInv, SameIds
<1>3. g[i] \in 1 .. Size  BY <1>2 DEF Rearrangements
<1>4. ids[i] \in {piece.ids[k] : k \in 1 .. Size}  BY <1>2, <1>3
<1> QED BY <1>1, <1>4, PieceTypes DEF BucketOf, Bit

(* The bitmap is a finite set of bits.                                     *)
LEMMA BitmapFinite ==
  ASSUME TypeOK
  PROVE  IsFiniteSet(bitmap)
<1>1. L2Size(Size) \in Nat  BY SizeTypes DEF TypeOK
<1>2. IsFiniteSet(0 .. L2Size(Size) - 1)  BY <1>1, FS_Interval
<1> QED BY <1>2, FS_Subset DEF TypeOK

(* The first and the second call of a bucket have at most as many tries as *)
(* there are seeds.                                                        *)
LEMMA TriesTypes ==
  ASSUME NEW cnt \in Nat
  PROVE  FirstTries(cnt) \in 0 .. Tries /\ SecondTries(cnt) \in 0 .. Tries
  BY ParamAssumption DEF FirstTries, SecondTries

(* The types hold when a build starts.                                     *)
LEMMA InitTypeInv == Init => TypeInv
<1> SUFFICES ASSUME Init PROVE TypeInv  OBVIOUS
<1>1. IsPiece(piece)  BY PiecesAssumption DEF Init
<1>2. /\ Size \in Nat \ {0}
      /\ piece.ids \in [1 .. Size -> Nat]
  BY <1>1, PieceTypes
<1>3. L1Size(Size) \in Nat /\ L2Size(Size) \in Nat  BY <1>1, SizeTypes
<1>4. 0 \in Seeds  BY ParamAssumption DEF Seeds
<1>5. TypeOK
  <2>1. ids \in [1 .. Size -> Nat]  BY <1>2 DEF Init
  <2>2. cells \in [0 .. L1Size(Size) - 1 -> Seeds]
    BY <1>3, <1>4 DEF Init, Size
  <2>3. sections \in Seq(Nat)  BY DEF Init
  <2>4. left \in 0 .. Tries /\ placed \in 0 .. Size
    BY <1>2, ParamAssumption DEF Init
  <2>5. begin \in 1 .. Size + 1 /\ end \in 1 .. Size + 1
    BY <1>2 DEF Init
  <2> QED BY <1>1, <1>4, <2>1, <2>2, <2>3, <2>4, <2>5 DEF Init, TypeOK
<1>6. SameIds
  <2> DEFINE id == [i \in 1 .. Size |-> i]
  <2>1. id \in Rearrangements(1 .. Size)  BY DEF Rearrangements
  <2>2. \A i \in 1 .. Size : ids[i] = piece.ids[id[i]]  BY DEF Init
  <2> QED BY <2>1, <2>2 DEF SameIds
<1> QED BY <1>5, <1>6 DEF TypeInv

(* Only HasConflict moves identifiers, and only within the bucket.         *)
LEMMA RearrangeTypes ==
  ASSUME TypeInv, Slice \subseteq 1 .. Size, piece' = piece,
         NEW f \in Rearrangements(Slice), ids' = Rearranged(f)
  PROVE  ids' \in [1 .. Size -> Nat] /\ SameIds'
<1>1. PICK g \in Rearrangements(1 .. Size) :
             \A k \in 1 .. Size : ids[k] = piece.ids[g[k]]
  BY DEF TypeInv, SameIds
<1> DEFINE h == [i \in 1 .. Size |-> IF i \in Slice THEN g[f[i]] ELSE g[i]]
<1>2. f \in [Slice -> Slice]  BY DEF Rearrangements
<1>3. /\ \A i, j \in Slice : f[i] = f[j] => i = j
      /\ \A j \in Slice : \E i \in Slice : f[i] = j
  BY DEF Rearrangements
<1>4. /\ g \in [1 .. Size -> 1 .. Size]
      /\ \A i, j \in 1 .. Size : g[i] = g[j] => i = j
      /\ \A j \in 1 .. Size : \E i \in 1 .. Size : g[i] = j
  BY <1>1 DEF Rearrangements
<1>5. h \in [1 .. Size -> 1 .. Size]  BY <1>2, <1>4
<1>6. \A i, j \in 1 .. Size : h[i] = h[j] => i = j
  <2> TAKE i, j \in 1 .. Size
  <2>1. CASE i \in Slice /\ j \in Slice  BY <2>1, <1>2, <1>3, <1>4
  <2>2. CASE i \notin Slice /\ j \notin Slice  BY <2>2, <1>4
  <2>3. CASE i \in Slice /\ j \notin Slice
    <3>1. f[i] \in Slice /\ f[i] \in 1 .. Size  BY <2>3, <1>2
    <3>2. g[f[i]] # g[j]  BY <2>3, <3>1, <1>4
    <3> QED BY <2>3, <3>2
  <2>4. CASE i \notin Slice /\ j \in Slice
    <3>1. f[j] \in Slice /\ f[j] \in 1 .. Size  BY <2>4, <1>2
    <3>2. g[i] # g[f[j]]  BY <2>4, <3>1, <1>4
    <3> QED BY <2>4, <3>2
  <2> QED BY <2>1, <2>2, <2>3, <2>4
<1>7. \A j \in 1 .. Size : \E i \in 1 .. Size : h[i] = j
  <2> TAKE j \in 1 .. Size
  <2>1. PICK k \in 1 .. Size : g[k] = j  BY <1>4
  <2>2. CASE k \in Slice
    <3>1. PICK i \in Slice : f[i] = k  BY <2>2, <1>3
    <3> QED BY <2>1, <3>1
  <2>3. CASE k \notin Slice  BY <2>1, <2>3
  <2> QED BY <2>2, <2>3
<1>8. h \in Rearrangements(1 .. Size)  BY <1>5, <1>6, <1>7 DEF Rearrangements
<1>9. \A i \in 1 .. Size : ids'[i] = piece.ids[h[i]]
  BY <1>1, <1>2 DEF Rearranged
<1>10. ids \in [1 .. Size -> Nat]  BY DEF TypeInv, TypeOK
<1>11. ids' \in [1 .. Size -> Nat]  BY <1>10, <1>2 DEF Rearranged
<1>12. Size' = Size  BY DEF Size
<1> QED BY <1>8, <1>9, <1>11, <1>12 DEF SameIds


(* The types are preserved, action by action.                              *)
LEMMA StepTypeInv == TypeInv /\ [Next]_vars => TypeInv'
<1> SUFFICES ASSUME TypeInv, [Next]_vars PROVE TypeInv'  OBVIOUS
<1>1. IsPiece(piece)  BY DEF TypeInv, TypeOK
<1>2. Size \in Nat \ {0}  BY <1>1, PieceTypes
<1>3. /\ L1Size(Size) \in Nat /\ L2Size(Size) \in Nat
      /\ SectionSize(Size) \in Nat
  BY <1>1, SizeTypes
<1>4. piece' = piece
  BY DEF Next, vars, L1Sort, TakeBucket, PlaceOne, Collide, KeepSeed,
         HasConflict, OutOfChance, EmitSection, Finish, Terminated
<1>5. Size' = Size  BY <1>4 DEF Size
<1>6. begin \in 1 .. Size + 1 /\ end \in 1 .. Size + 1
  BY DEF TypeInv, TypeOK
<1>7. Slice \subseteq 1 .. Size  BY <1>2, <1>6 DEF Slice
<1>8. IsPiece(piece')  BY <1>1, <1>4
<1>9. (ids' = ids) => SameIds'
  BY <1>4, <1>5 DEF TypeInv, SameIds
<1>10. Count \in Nat => FirstTries(Count) \in 0 .. Tries
  BY TriesTypes
<1> USE <1>2, <1>3, <1>4, <1>5, <1>6, <1>7, <1>8, <1>9
<1>11. CASE L1Sort
  BY <1>11 DEF L1Sort, TypeInv, TypeOK
<1>12. CASE TakeBucket
  <2>1. PICK e \in begin + 1 .. Size + 1 :
               /\ end' = e
               /\ magic' = IF e <= Size THEN Prev8(magic) ELSE magic
               /\ left' = FirstTries(e - begin)
    BY <1>12 DEF TakeBucket
  <2>2. left' \in 0 .. Tries
    <3>1. e - begin \in Nat  OBVIOUS
    <3> QED BY <2>1, <3>1, TriesTypes
  <2>3. magic' \in Seeds
    BY <2>1, SeedsWrap DEF TypeInv, TypeOK
  <2>4. end' \in 1 .. Size' + 1  BY <2>1
  <2>5. sd8' \in Seeds /\ second' = FALSE /\ placed' \in 0 .. Size'
    BY <1>12 DEF TakeBucket, TypeInv, TypeOK
  <2>6. /\ UNCHANGED <<piece, ids, begin, bitmap, cells, sections, step, status>>
        /\ pc' = "try"
    BY <1>12 DEF TakeBucket
  <2> QED BY <2>2, <2>3, <2>4, <2>5, <2>6 DEF TypeInv, TypeOK
<1>13. CASE PlaceOne
  <2>1. /\ placed \in 0 .. Size /\ placed < end - begin
        /\ sd8 \in Seeds
    BY <1>13 DEF PlaceOne, Count, TypeInv, TypeOK
  <2>2. begin + placed \in 1 .. Size  BY <2>1
  <2>3. Bit(begin + placed, sd8) \in 0 .. L2Size(Size) - 1
    BY <2>1, <2>2, HashTypes
  <2>4. placed + 1 \in 0 .. Size  BY <2>1
  <2> QED BY <1>13, <2>3, <2>4 DEF PlaceOne, TypeInv, TypeOK
<1>14. CASE Collide
  <2>1. left - 1 \in 0 .. Tries /\ Next8(sd8) \in Seeds
    BY <1>14, SeedsWrap, ParamAssumption DEF Collide, TypeInv, TypeOK
  <2>2. placed' \in 0 .. Size' /\ left' \in 0 .. Tries /\ sd8' \in Seeds
    BY <1>14, <2>1 DEF Collide
  <2>3. bitmap' \subseteq 0 .. L2Size(Size') - 1
    BY <1>14 DEF Collide, TypeInv, TypeOK
  <2>4. UNCHANGED <<piece, ids, pc, begin, end, magic, second, cells,
                    sections, step, status>>
    BY <1>14 DEF Collide
  <2> QED BY <2>2, <2>3, <2>4 DEF TypeInv, TypeOK
<1>15. CASE KeepSeed
  <2>1. cells' \in [0 .. L1Size(Size) - 1 -> Seeds]
    BY <1>15 DEF KeepSeed, TypeInv, TypeOK
  <2> QED BY <1>15, <2>1 DEF KeepSeed, TypeInv, TypeOK
<1>16. CASE HasConflict
  <2>1. PICK f \in Rearrangements(Slice) : ids' = Rearranged(f)
    BY <1>16 DEF HasConflict
  <2>2. ids' \in [1 .. Size -> Nat] /\ SameIds'
    BY <2>1, RearrangeTypes
  <2>3. left' \in 0 .. Tries /\ second' \in BOOLEAN
    <3>1. Count \in Nat => SecondTries(Count) \in 0 .. Tries  BY TriesTypes
    <3>2. Count > 1  BY <1>16 DEF HasConflict
    <3>3. Count \in Nat  BY <3>2 DEF Count
    <3>4. \/ left' = left /\ second' = second
          \/ left' = SecondTries(Count) /\ second' = TRUE
      BY <1>16 DEF HasConflict
    <3> QED BY <3>1, <3>3, <3>4 DEF TypeInv, TypeOK
  <2>4. /\ pc' \in {"sort", "scan", "try", "sections", "done"}
        /\ status' \in {"running", "OK", "CONFLICT", "OUT_OF_CHANCE", "ABORT"}
    BY <1>16 DEF HasConflict, TypeInv, TypeOK
  <2> QED BY <1>16, <2>2, <2>3, <2>4 DEF HasConflict, TypeInv, TypeOK
<1>17. CASE OutOfChance
  BY <1>17 DEF OutOfChance, TypeInv, TypeOK
<1>18. CASE EmitSection
  <2>1. IsFiniteSet(BitsOfSection(Len(sections)))
    BY BitmapFinite, FS_Subset DEF BitsOfSection, TypeInv
  <2>2. Cardinality(BitsOfSection(Len(sections))) \in Nat
    BY <2>1, FS_CardinalityType
  <2>3. step' \in Nat /\ sections' \in Seq(Nat)
    BY <1>18, <2>2 DEF EmitSection, TypeInv, TypeOK
  <2> QED BY <1>18, <2>3 DEF EmitSection, TypeInv, TypeOK
<1>19. CASE Finish
  BY <1>19 DEF Finish, TypeInv, TypeOK
<1>20. CASE Terminated \/ UNCHANGED vars
  BY <1>20 DEF Terminated, vars, TypeInv, TypeOK
<1> QED
  BY <1>11, <1>12, <1>13, <1>14, <1>15, <1>16, <1>17, <1>18, <1>19, <1>20
     DEF Next

(* The state of the builder keeps its types (Build, build.cc:532-591).     *)
THEOREM TypeCorrect == Spec => []TypeOK
<1>1. TypeInv => TypeOK  BY DEF TypeInv
<1> QED BY InitTypeInv, StepTypeInv, <1>1, PTL DEF Spec

----------------------------------------------------------------------------
(* The bitmap.                                                             *)

(* Where the builder is, and what it has in hand there.                    *)
Control ==
  /\ pc = "done" <=> status # "running"
  /\ pc = "sort" => begin = 1
  /\ pc = "scan" => begin <= Size
  /\ pc = "try" =>
       /\ begin < end
       /\ placed <= Count
       /\ left = 0 => placed = 0
       /\ end <= Size => BucketOf(end) # BucketOf(begin)
       /\ \A i \in Slice : BucketOf(i) = BucketOf(begin)
  /\ pc = "sections" => begin = Size + 1
  /\ status = "OK" => begin = Size + 1

(* The array stays grouped by bucket, and the buckets that are settled     *)
(* do not come back: the seed kept for one is not written again.           *)
StillGrouped ==
  \A i, j, k \in 1 .. Size :
    (i < j /\ j < k /\ BucketOf(i) = BucketOf(k)) => BucketOf(j) = BucketOf(i)

Apart ==
  \A i \in 1 .. begin - 1, j \in begin .. Size : BucketOf(i) # BucketOf(j)

BitInv == TypeInv /\ Control /\ StillGrouped /\ Apart /\ BitmapExact

(* Nothing is placed when a build starts, and no bit is set.               *)
LEMMA InitBitInv == Init => BitInv
<1> SUFFICES ASSUME Init PROVE BitInv  OBVIOUS
<1>1. TypeInv  BY InitTypeInv
<1>2. IsPiece(piece) /\ Size \in Nat \ {0} /\ DOMAIN piece.ids = 1 .. Size
  BY <1>1, PieceTypes DEF TypeInv, TypeOK
<1>3. Control  BY <1>2 DEF Init, Control
<1>4. StillGrouped
  BY <1>2 DEF Init, StillGrouped, IsPiece, Grouped, BucketOf
<1>5. Apart  BY DEF Init, Apart
<1>6. BitmapExact
  <2>1. Placed = {}  BY DEF Init, Placed
  <2> QED BY <2>1 DEF Init, BitmapExact
<1> QED BY <1>1, <1>3, <1>4, <1>5, <1>6 DEF BitInv

(* Sorting within the bucket moves no identifier to another bucket.        *)
LEMMA RearrangeBuckets ==
  ASSUME TypeInv, Control, pc = "try", piece' = piece,
         NEW f \in Rearrangements(Slice), ids' = Rearranged(f)
  PROVE  /\ \A i \in 1 .. Size : BucketOf(i)' = BucketOf(i)
         /\ \A i \in 1 .. begin - 1, s \in Seeds : Bit(i, s)' = Bit(i, s)
<1>1. /\ Size \in Nat \ {0}
      /\ begin \in 1 .. Size + 1 /\ end \in 1 .. Size + 1
  BY PieceTypes DEF TypeInv, TypeOK
<1>2. Slice = begin .. end - 1 /\ Slice \subseteq 1 .. Size
  BY <1>1 DEF Slice
<1>3. f \in [Slice -> Slice]  BY DEF Rearrangements
<1>4. \A i \in 1 .. Size : ids'[i] = IF i \in Slice THEN ids[f[i]] ELSE ids[i]
  BY DEF Rearranged
<1>5. \A i \in Slice : BucketOf(i) = BucketOf(begin)  BY DEF Control
<1>6. \A i \in 1 .. Size : BucketOf(i)' = BucketOf(i)
  <2> TAKE i \in 1 .. Size
  <2>1. CASE i \in Slice
    <3>1. f[i] \in Slice  BY <2>1, <1>3
    <3>2. BucketOf(i)' = BucketOf(f[i])  BY <2>1, <1>4 DEF BucketOf
    <3> QED BY <3>1, <3>2, <2>1, <1>5
  <2>2. CASE i \notin Slice  BY <2>2, <1>4 DEF BucketOf
  <2> QED BY <2>1, <2>2
<1>7. \A i \in 1 .. begin - 1 : i \in 1 .. Size /\ i \notin Slice
  BY <1>1, <1>2
<1> QED BY <1>4, <1>6, <1>7 DEF Bit

(* Where the search is in the array and in its tries stays consistent.     *)
LEMMA StepControl == BitInv /\ [Next]_vars => Control'
<1> SUFFICES ASSUME BitInv, [Next]_vars PROVE Control'  OBVIOUS
<1>1. TypeInv /\ Control  BY DEF BitInv
<1>2. /\ Size \in Nat \ {0}
      /\ begin \in 1 .. Size + 1 /\ end \in 1 .. Size + 1
      /\ placed \in 0 .. Size /\ left \in 0 .. Tries
  BY <1>1, PieceTypes DEF TypeInv, TypeOK
<1>3. piece' = piece
  BY DEF Next, vars, L1Sort, TakeBucket, PlaceOne, Collide, KeepSeed,
         HasConflict, OutOfChance, EmitSection, Finish, Terminated
<1>4. Size' = Size  BY <1>3 DEF Size
<1>5. ids' = ids => \A i : BucketOf(i)' = BucketOf(i)
  BY <1>3 DEF BucketOf
<1> USE <1>1, <1>2, <1>4
<1>11. CASE L1Sort
  BY <1>11 DEF L1Sort, Control
<1>12. CASE TakeBucket
  <2>1. PICK e \in begin + 1 .. Size + 1 :
               /\ \A i \in begin .. e - 1 : BucketOf(i) = BucketOf(begin)
               /\ e <= Size => BucketOf(e) # BucketOf(begin)
               /\ end' = e
    BY <1>12 DEF TakeBucket
  <2>2. /\ pc' = "try" /\ begin' = begin /\ placed' = 0 /\ status' = status
        /\ ids' = ids /\ pc = "scan"
    BY <1>12 DEF TakeBucket
  <2>3. Slice' = begin .. e - 1 /\ Count' = e - begin
    BY <2>1, <2>2 DEF Slice, Count
  <2> QED BY <2>1, <2>2, <2>3, <1>5 DEF Control
<1>13. CASE PlaceOne
  <2>1. Slice' = Slice /\ Count' = Count
    BY <1>13 DEF PlaceOne, Slice, Count
  <2>2. placed + 1 <= Count
    BY <1>13 DEF PlaceOne, Count
  <2> QED BY <1>13, <1>5, <2>1, <2>2 DEF PlaceOne, Control
<1>14. CASE Collide
  <2>1. Slice' = Slice /\ Count' = Count /\ Count >= 0
    BY <1>14 DEF Collide, Slice, Count, Control
  <2> QED BY <1>14, <1>5, <2>1 DEF Collide, Control
<1>15. CASE KeepSeed
  BY <1>15 DEF KeepSeed, Control
<1>16. CASE HasConflict
  <2>1. PICK f \in Rearrangements(Slice) : ids' = Rearranged(f)
    BY <1>16 DEF HasConflict
  <2>2. \A i \in 1 .. Size : BucketOf(i)' = BucketOf(i)
    BY <1>16, <1>3, <2>1, RearrangeBuckets DEF HasConflict
  <2>3. Slice' = Slice /\ Count' = Count /\ Slice \subseteq 1 .. Size
    BY <1>16 DEF HasConflict, Slice, Count
  <2>4. pc = "try" /\ placed = 0 /\ placed' = 0 /\ begin' = begin /\ end' = end
    BY <1>16 DEF HasConflict, Control
  <2>5. \/ pc' = "done" /\ status' = "CONFLICT"
        \/ pc' = pc /\ status' = status
    BY <1>16 DEF HasConflict
  <2>6. begin < end /\ begin \in 1 .. Size  BY <2>4 DEF Control
  <2>7. /\ end' <= Size' => BucketOf(end)' # BucketOf(begin)'
        /\ \A i \in Slice : BucketOf(i)' = BucketOf(begin)'
    BY <2>2, <2>3, <2>4, <2>6 DEF Control
  <2> QED BY <2>3, <2>4, <2>5, <2>6, <2>7 DEF Control
<1>17. CASE OutOfChance
  BY <1>17 DEF OutOfChance, Control
<1>18. CASE EmitSection
  BY <1>18 DEF EmitSection, Control
<1>19. CASE Finish
  BY <1>19 DEF Finish, Control
<1>20. CASE Terminated \/ UNCHANGED vars
  <2>1. Slice' = Slice /\ Count' = Count
    BY <1>20 DEF Terminated, vars, Slice, Count
  <2> QED BY <1>20, <1>5, <2>1 DEF Terminated, vars, Control
<1> QED
  BY <1>11, <1>12, <1>13, <1>14, <1>15, <1>16, <1>17, <1>18, <1>19, <1>20
     DEF Next


(* No step changes the bucket of an index.                                 *)
LEMMA BucketsStay ==
  ASSUME BitInv, [Next]_vars
  PROVE  /\ piece' = piece /\ Size' = Size
         /\ \A i \in 1 .. Size : BucketOf(i)' = BucketOf(i)
         /\ \A i \in 1 .. begin - 1, s \in Seeds : Bit(i, s)' = Bit(i, s)
         /\ ids' # ids => pc = "try" /\ left = 0 /\ HasConflict
<1>1. piece' = piece
  BY DEF Next, vars, L1Sort, TakeBucket, PlaceOne, Collide, KeepSeed,
         HasConflict, OutOfChance, EmitSection, Finish, Terminated
<1>2. Size' = Size  BY <1>1 DEF Size
<1>3. CASE HasConflict
  <2>1. PICK f \in Rearrangements(Slice) : ids' = Rearranged(f)
    BY <1>3 DEF HasConflict
  <2> QED
    BY <1>1, <1>2, <1>3, <2>1, RearrangeBuckets DEF HasConflict, BitInv
<1>4. CASE ~ HasConflict
  <2>1. ids' = ids
    BY <1>4 DEF Next, vars, L1Sort, TakeBucket, PlaceOne, Collide, KeepSeed,
                OutOfChance, EmitSection, Finish, Terminated
  <2> QED BY <1>1, <1>2, <2>1 DEF BucketOf, Bit
<1> QED BY <1>3, <1>4

(* Buckets stay contiguous, and none is both settled and still to come.    *)
LEMMA StepApart == BitInv /\ [Next]_vars => StillGrouped' /\ Apart'
<1> SUFFICES ASSUME BitInv, [Next]_vars PROVE StillGrouped' /\ Apart'
  OBVIOUS
<1>1. /\ Size' = Size
      /\ \A i \in 1 .. Size : BucketOf(i)' = BucketOf(i)
  BY BucketsStay
<1>2. /\ Size \in Nat \ {0}
      /\ begin \in 1 .. Size + 1 /\ end \in 1 .. Size + 1
  BY PieceTypes DEF BitInv, TypeInv, TypeOK
<1>3. StillGrouped'
  BY <1>1 DEF BitInv, StillGrouped
<1>4. CASE begin' = begin
  <2>1. \A i \in 1 .. begin - 1 : i \in 1 .. Size  BY <1>2
  <2>2. \A i \in begin .. Size : i \in 1 .. Size  BY <1>2
  <2> QED BY <1>1, <1>3, <1>4, <2>1, <2>2 DEF BitInv, Apart
<1>5. CASE begin' # begin
  <2>1. KeepSeed
    BY <1>5 DEF Next, vars, L1Sort, TakeBucket, PlaceOne, Collide,
                HasConflict, OutOfChance, EmitSection, Finish, Terminated
  <2>2. /\ pc = "try" /\ begin' = end /\ begin < end
        /\ end <= Size => BucketOf(end) # BucketOf(begin)
        /\ \A i \in begin .. end - 1 : BucketOf(i) = BucketOf(begin)
    BY <2>1 DEF KeepSeed, BitInv, Control, Slice
  <2>3. ASSUME NEW i \in 1 .. end - 1, NEW j \in end .. Size
        PROVE  BucketOf(i) # BucketOf(j)
    <3>1. i \in 1 .. Size /\ j \in 1 .. Size /\ begin \in 1 .. Size
      BY <1>2, <2>2
    <3>2. CASE i < begin
      <4>1. i \in 1 .. begin - 1 /\ j \in begin .. Size
        BY <1>2, <2>2, <3>2
      <4> QED BY <4>1 DEF BitInv, Apart
    <3>3. CASE i >= begin
      <4>1. BucketOf(i) = BucketOf(begin)  BY <1>2, <2>2, <3>3
      <4>2. CASE j = end  BY <4>1, <4>2, <2>2
      <4>3. CASE j # end
        <5>1. end \in 1 .. Size /\ begin < end /\ end < j  BY <1>2, <2>2, <4>3
        <5>2. BucketOf(begin) = BucketOf(j) => BucketOf(end) = BucketOf(begin)
          BY <3>1, <5>1 DEF BitInv, StillGrouped
        <5> QED BY <4>1, <5>1, <5>2, <2>2
      <4> QED BY <4>2, <4>3
    <3> QED BY <3>1, <3>2, <3>3
  <2>4. \A i \in 1 .. end - 1 : i \in 1 .. Size  BY <1>2
  <2>5. \A i \in end .. Size : i \in 1 .. Size  BY <1>2
  <2> QED BY <1>1, <1>3, <2>2, <2>3, <2>4, <2>5 DEF Apart
<1> QED BY <1>3, <1>4, <1>5

(* The bits of the settled identifiers, which no step changes.             *)
LEMMA SettledStay ==
  ASSUME BitInv, [Next]_vars, cells' = cells, begin' = begin
  PROVE  \A i \in 1 .. begin - 1 : Bit(i, SeedOf(i))' = Bit(i, SeedOf(i))
<1>1. /\ begin \in 1 .. Size + 1 /\ Size \in Nat \ {0}
      /\ cells \in [0 .. L1Size(Size) - 1 -> Seeds]
  BY PieceTypes DEF BitInv, TypeInv, TypeOK
<1> TAKE i \in 1 .. begin - 1
<1>2. i \in 1 .. Size /\ i < begin  BY <1>1
<1>3. SeedOf(i)' = SeedOf(i)
  BY <1>2, BucketsStay DEF SeedOf
<1>4. SeedOf(i) \in Seeds
  <2>1. BucketOf(i) \in 0 .. L1Size(Size) - 1  BY <1>2, HashTypes DEF BitInv
  <2> QED BY <1>1, <1>2, <2>1 DEF SeedOf
<1>5. \A s \in Seeds : piece'.l2[ids'[i]][s] = piece.l2[ids[i]][s]
  BY BucketsStay DEF Bit
<1> QED BY <1>3, <1>4, <1>5 DEF Bit

(* The bitmap stays exact: a collision takes back the bits of its try.     *)
LEMMA StepBitmapExact == BitInv /\ [Next]_vars => BitmapExact'
<1> SUFFICES ASSUME BitInv, [Next]_vars PROVE BitmapExact'  OBVIOUS
<1>1. TypeInv /\ Control /\ Apart /\ BitmapExact  BY DEF BitInv
<1>2. /\ Size \in Nat \ {0}
      /\ begin \in 1 .. Size + 1 /\ end \in 1 .. Size + 1
      /\ placed \in 0 .. Size /\ left \in 0 .. Tries
      /\ sd8 \in Seeds
      /\ cells \in [0 .. L1Size(Size) - 1 -> Seeds]
  BY <1>1, PieceTypes DEF TypeInv, TypeOK
<1> DEFINE At(i) == Bit(i, SeedOf(i))
<1>3. ASSUME bitmap' = bitmap, Placed' = Placed,
             \A i \in Placed : At(i)' = At(i)
      PROVE  BitmapExact'
  BY <1>1, <1>3 DEF BitmapExact
<1>4. ASSUME Placed' = 1 .. begin - 1, cells' = cells, begin' = begin,
             bitmap' = {At(i) : i \in 1 .. begin - 1},
             1 .. begin - 1 \subseteq Placed
      PROVE  BitmapExact'
  <2>1. \A i \in 1 .. begin - 1 : At(i)' = At(i)  BY <1>4, SettledStay
  <2>2. \A i, j \in 1 .. begin - 1 : At(i) = At(j) => i = j
    BY <1>1, <1>4 DEF BitmapExact
  <2> QED BY <1>4, <2>1, <2>2 DEF BitmapExact
<1>5. pc # "try" => Placed = 1 .. begin - 1  BY DEF Placed
<1>6. CASE /\ pc # "try" /\ bitmap' = bitmap /\ cells' = cells
           /\ begin' = begin
           /\ pc' # "try" \/ placed' = 0
  <2>1. Placed' = 1 .. begin - 1  BY <1>2, <1>6 DEF Placed
  <2>2. bitmap' = {At(i) : i \in 1 .. begin - 1}
    BY <1>1, <1>5, <1>6 DEF BitmapExact
  <2> QED BY <1>4, <1>5, <1>6, <2>1, <2>2
<1>7. CASE L1Sort \/ TakeBucket \/ EmitSection \/ Finish
  BY <1>1, <1>6, <1>7
     DEF L1Sort, TakeBucket, EmitSection, Finish, Control
<1>8. CASE PlaceOne
  <2> DEFINE x == begin + placed
  <2>1. /\ pc = "try" /\ placed < end - begin /\ pc' = pc /\ begin' = begin
        /\ placed' = placed + 1 /\ cells' = cells /\ sd8' = sd8 /\ ids' = ids
        /\ piece' = piece
        /\ bitmap' = bitmap \union {Bit(x, sd8)}
        /\ Bit(x, sd8) \notin bitmap
    BY <1>8 DEF PlaceOne, Count
  <2>2. /\ Placed = 1 .. x - 1 /\ Placed' = 1 .. x /\ x \in 1 .. Size
    BY <1>2, <2>1 DEF Placed
  <2>3. \A i : At(i)' = At(i)
    BY <2>1 DEF Bit, SeedOf, BucketOf
  <2>4. At(x) = Bit(x, sd8)  BY <1>2, <2>1 DEF SeedOf
  <2>5. Placed' = Placed \union {x}  BY <1>2, <2>2
  <2>6. bitmap' = {At(i) : i \in Placed'}
    BY <1>1, <2>1, <2>4, <2>5 DEF BitmapExact
  <2>7. \A i \in Placed : At(i) # At(x)
    BY <1>1, <2>1, <2>4 DEF BitmapExact
  <2>8. \A i, j \in Placed' : At(i) = At(j) => i = j
    BY <1>1, <2>5, <2>7 DEF BitmapExact
  <2> QED BY <2>3, <2>6, <2>8 DEF BitmapExact
<1>9. CASE Collide
  <2>1. /\ pc = "try" /\ pc' = pc /\ begin' = begin /\ cells' = cells
        /\ placed' = 0
        /\ bitmap' = (bitmap \ BatchBits) \ TailBits
    BY <1>9 DEF Collide
  <2>2. Earlier \in 0 .. placed
    BY <1>2, RoundDown, ParamAssumption DEF Earlier
  <2>3. BatchBits \union TailBits
          = {Bit(i, sd8) : i \in begin .. begin + placed - 1}
    BY <1>2, <2>2 DEF BatchBits, TailBits
  <2>4. /\ Placed = 1 .. begin + placed - 1 /\ Placed' = 1 .. begin - 1
        /\ 1 .. begin - 1 \subseteq Placed
    BY <1>2, <2>1 DEF Placed
  <2>5. \A i \in begin .. begin + placed - 1 :
           i \in Placed /\ Bit(i, sd8) = At(i)
    BY <1>2, <2>4 DEF SeedOf
  <2>6. \A i \in Placed :
           i \in 1 .. begin - 1 \/ i \in begin .. begin + placed - 1
    BY <1>2, <2>4
  <2>7. bitmap' = {At(i) : i \in 1 .. begin - 1}
    <3>1. bitmap' = bitmap \ {Bit(i, sd8) : i \in begin .. begin + placed - 1}
      BY <2>1, <2>3
    <3>2. \A i \in 1 .. begin - 1, j \in begin .. begin + placed - 1 :
             At(i) # Bit(j, sd8)
      BY <1>1, <1>2, <2>4, <2>5 DEF BitmapExact
    <3> QED BY <1>1, <2>4, <2>5, <2>6, <3>1, <3>2 DEF BitmapExact
  <2> QED BY <1>4, <2>1, <2>4, <2>7
<1>10. CASE KeepSeed
  <2>1. /\ pc = "try" /\ placed = end - begin /\ pc' # "try"
        /\ begin' = end /\ begin < end
        /\ cells' = [cells EXCEPT ![BucketOf(begin)] = sd8]
        /\ ids' = ids /\ piece' = piece /\ bitmap' = bitmap
        /\ \A i \in begin .. end - 1 : BucketOf(i) = BucketOf(begin)
    BY <1>1, <1>10 DEF KeepSeed, Count, Control, Slice
  <2>2. Placed = 1 .. end - 1 /\ Placed' = 1 .. end - 1
    BY <1>2, <2>1 DEF Placed
  <2>3. ASSUME NEW i \in 1 .. end - 1 PROVE At(i)' = At(i)
    <3>1. i \in 1 .. Size /\ begin \in 1 .. Size  BY <1>2, <2>1
    <3>2. BucketOf(i)' = BucketOf(i)  BY <2>1 DEF BucketOf
    <3>3. SeedOf(i)' = cells'[BucketOf(i)]
      BY <1>2, <2>1, <3>2 DEF SeedOf
    <3>4. BucketOf(i) \in 0 .. L1Size(Size) - 1  BY <1>1, <3>1, HashTypes
    <3>5. CASE i < begin
      <4>1. BucketOf(i) # BucketOf(begin)
        BY <1>1, <1>2, <3>1, <3>5 DEF Apart
      <4>2. SeedOf(i)' = SeedOf(i)
        BY <1>2, <2>1, <3>3, <3>4, <3>5, <4>1 DEF SeedOf
      <4> QED BY <2>1, <4>2 DEF Bit
    <3>6. CASE i >= begin
      <4>1. BucketOf(i) = BucketOf(begin)  BY <1>2, <2>1, <3>6
      <4>2. SeedOf(i)' = sd8  BY <1>2, <2>1, <3>3, <3>4, <4>1
      <4>3. SeedOf(i) = sd8  BY <1>2, <3>6 DEF SeedOf
      <4> QED BY <2>1, <4>2, <4>3 DEF Bit
    <3> QED BY <1>2, <3>1, <3>5, <3>6
  <2> QED BY <1>3, <2>1, <2>2, <2>3
<1>11. CASE HasConflict \/ OutOfChance
  <2>1. /\ pc = "try" /\ placed = 0 /\ bitmap' = bitmap /\ cells' = cells
        /\ begin' = begin /\ placed' = 0
    BY <1>1, <1>11 DEF HasConflict, OutOfChance, Control
  <2>2. Placed = 1 .. begin - 1 /\ Placed' = 1 .. begin - 1
    BY <1>2, <2>1 DEF Placed
  <2>3. bitmap' = {At(i) : i \in 1 .. begin - 1}
    BY <1>1, <2>1, <2>2 DEF BitmapExact
  <2> QED BY <1>4, <2>1, <2>2, <2>3
<1>12. CASE Terminated \/ UNCHANGED vars
  <2>1. \A i : At(i)' = At(i)
    BY <1>12 DEF Terminated, vars, Bit, SeedOf, BucketOf
  <2>2. Placed' = Placed /\ bitmap' = bitmap
    BY <1>12 DEF Terminated, vars, Placed
  <2> QED BY <1>3, <2>1, <2>2
<1> QED
  BY <1>7, <1>8, <1>9, <1>10, <1>11, <1>12 DEF Next

(* The three parts together.                                               *)
LEMMA StepBitInv == BitInv /\ [Next]_vars => BitInv'
  BY StepTypeInv, StepControl, StepApart, StepBitmapExact DEF BitInv

(* The bitmap is exact at every moment: the two roll-backs of a collision  *)
(* take back the bits of the try, all of them and no other                 *)
(* (TryToMapLarge and TryToMapSmall, build.cc:88-159).                     *)
THEOREM BitmapIsExact == Spec => []BitmapExact
<1>1. BitInv => BitmapExact  BY DEF BitInv
<1> QED BY InitBitInv, StepBitInv, <1>1, PTL DEF Spec

----------------------------------------------------------------------------
(* The search.                                                             *)

(* The seed tried k tries ago.                                             *)
Back(s, k) == IF k <= s THEN s - k ELSE s + Tries - k

Tried == (IF second THEN Tries ELSE FirstTries(Count)) - left

TriedSeeds == {Back(sd8, k) : k \in 1 .. Tried}

Settled == {Bit(i, SeedOf(i)) : i \in 1 .. begin - 1}

(* Fits, in the middle of a try: the bits of the try itself do not count.  *)
FitsSettled(s) ==
  /\ \A i \in Slice : Bit(i, s) \notin Settled
  /\ \A i, j \in Slice : Bit(i, s) = Bit(j, s) => i = j

NoRepeat == \A i, j \in Slice : ids[i] = ids[j] => i = j

Searched ==
  /\ pc = "try" =>
       /\ \A s \in Seeds : s \in TriedSeeds => ~ FitsSettled(s)
       /\ second \/ Count = 1 => NoRepeat
  /\ status = "OUT_OF_CHANCE" =>
       /\ \A s \in Seeds : ~ Fits(s)
       /\ NoRepeat

SearchInv == BitInv /\ Searched

(* The seed of an earlier try is a byte.                                   *)
LEMMA BackTypes ==
  ASSUME NEW s \in Seeds, NEW k \in 1 .. Tries
  PROVE  Back(s, k) \in Seeds
  BY ParamAssumption DEF Seeds, Back

(* One more try back is one seed forward, around the end of uint8_t.       *)
LEMMA BackOne ==
  ASSUME NEW s \in Seeds
  PROVE  /\ Back(Next8(s), 1) = s
         /\ \A k \in 2 .. Tries : Back(Next8(s), k) = Back(s, k - 1)
<1>1. /\ Next8(s) = IF s = Tries - 1 THEN 0 ELSE s + 1
      /\ s \in 0 .. Tries - 1 /\ Tries \in Nat \ {0}
  BY NextSeed, ParamAssumption DEF Seeds
<1> QED BY <1>1 DEF Back

(* Going back as many tries as there are seeds meets every seed.           *)
LEMMA BackCovers ==
  ASSUME NEW s \in Seeds, NEW t \in Seeds
  PROVE  \E k \in 1 .. Tries : Back(s, k) = t
<1>1. s \in 0 .. Tries - 1 /\ t \in 0 .. Tries - 1 /\ Tries \in Nat \ {0}
  BY ParamAssumption DEF Seeds
<1>2. CASE t < s
  <2>1. s - t \in 1 .. Tries /\ Back(s, s - t) = t  BY <1>1, <1>2 DEF Back
  <2> QED BY <2>1
<1>3. CASE t >= s
  <2>1. s + Tries - t \in 1 .. Tries /\ Back(s, s + Tries - t) = t
    BY <1>1, <1>3 DEF Back
  <2> QED BY <2>1
<1> QED BY <1>1, <1>2, <1>3

(* HasConflict finds every repeat: in a sorted bucket equal identifiers    *)
(* are neighbours.                                                         *)
LEMMA SortedNeighbours ==
  ASSUME BitInv, HasConflict, ~ EqualNeighbours(ids')
  PROVE  \A i, j \in Slice : ids'[i] = ids'[j] => i = j
<1>1. /\ Size \in Nat \ {0}
      /\ begin \in 1 .. Size + 1 /\ end \in 1 .. Size + 1
      /\ ids \in [1 .. Size -> Nat]
  BY PieceTypes DEF BitInv, TypeInv, TypeOK
<1>2. Slice = begin .. end - 1 /\ Slice \subseteq 1 .. Size
  BY <1>1 DEF Slice
<1>3. PICK f \in Rearrangements(Slice) :
        /\ \A i, j \in Slice : i < j => ids[f[i]] <= ids[f[j]]
        /\ ids' = Rearranged(f)
  BY DEF HasConflict
<1>4. f \in [Slice -> Slice]  BY DEF Rearrangements
<1>5. \A i \in Slice : ids'[i] = ids[f[i]] /\ ids'[i] \in Nat
  BY <1>1, <1>2, <1>3, <1>4 DEF Rearranged
<1>6. \A i, j \in Slice : i < j => ids'[i] <= ids'[j]
  BY <1>3, <1>5
<1>7. ASSUME NEW i \in Slice, NEW j \in Slice, i < j, ids'[i] = ids'[j]
      PROVE  FALSE
  <2>1. i + 1 \in Slice /\ i + 1 > begin  BY <1>1, <1>2, <1>7
  <2>2. ids'[i + 1] # ids'[i]
    BY <1>1, <1>2, <2>1 DEF EqualNeighbours
  <2>3. ids'[i] <= ids'[i + 1]  BY <1>6, <1>2, <2>1
  <2>4. ids'[i + 1] <= ids'[j]
    BY <1>2, <1>5, <1>6, <1>7, <2>1
  <2> QED BY <1>5, <1>7, <2>1, <2>2, <2>3, <2>4
<1> QED BY <1>2, <1>7

(* A seed fits the sorted bucket only if it fits the unsorted one.         *)
LEMMA SortedFits ==
  ASSUME BitInv, [Next]_vars, HasConflict, NEW s \in Seeds, FitsSettled(s)'
  PROVE  FitsSettled(s)
<1>1. /\ Size \in Nat \ {0}
      /\ begin \in 1 .. Size + 1 /\ end \in 1 .. Size + 1
  BY PieceTypes DEF BitInv, TypeInv, TypeOK
<1>2. Slice \subseteq 1 .. Size  BY <1>1 DEF Slice
<1>3. PICK f \in Rearrangements(Slice) : ids' = Rearranged(f)
  BY DEF HasConflict
<1>4. /\ begin' = begin /\ end' = end /\ cells' = cells /\ piece' = piece
      /\ Slice' = Slice
  BY DEF HasConflict, Slice
<1>5. Settled' = Settled
  BY <1>4, SettledStay DEF Settled
<1>6. f \in [Slice -> Slice] /\ \A j \in Slice : \E i \in Slice : f[i] = j
  BY DEF Rearrangements
<1>7. \A i \in Slice : Bit(i, s)' = Bit(f[i], s)
  BY <1>2, <1>3, <1>4 DEF Bit, Rearranged
<1>8. ASSUME NEW i \in Slice PROVE Bit(i, s) \notin Settled
  <2>1. PICK k \in Slice : f[k] = i  BY <1>6
  <2> QED BY <2>1, <1>4, <1>5, <1>7 DEF FitsSettled
<1>9. ASSUME NEW i \in Slice, NEW j \in Slice, Bit(i, s) = Bit(j, s)
      PROVE  i = j
  <2>1. PICK k \in Slice, m \in Slice : f[k] = i /\ f[m] = j  BY <1>6
  <2>2. Bit(k, s)' = Bit(m, s)'  BY <2>1, <1>7, <1>9
  <2>3. k = m  BY <2>2, <1>4 DEF FitsSettled
  <2> QED BY <2>1, <2>3
<1> QED BY <1>8, <1>9 DEF FitsSettled

(* No seed has been tried when a build starts.                             *)
LEMMA InitSearchInv == Init => SearchInv
  BY InitBitInv DEF Init, SearchInv, Searched

(* Every seed that was tried does not fit over what was placed before.     *)
LEMMA StepSearched == SearchInv /\ [Next]_vars => Searched'
<1> SUFFICES ASSUME SearchInv, [Next]_vars PROVE Searched'  OBVIOUS
<1>1. BitInv /\ Searched /\ TypeInv /\ Control /\ BitmapExact
  BY DEF SearchInv, BitInv
<1>2. /\ Size \in Nat \ {0}
      /\ begin \in 1 .. Size + 1 /\ end \in 1 .. Size + 1
      /\ placed \in 0 .. Size /\ left \in 0 .. Tries
      /\ sd8 \in Seeds /\ second \in BOOLEAN
      /\ Tries \in Nat \ {0}
  BY <1>1, PieceTypes, ParamAssumption DEF TypeInv, TypeOK
<1>3. piece' = piece  BY <1>1, BucketsStay
<1>4. \A s \in Seeds : (/\ begin' = begin /\ end' = end /\ cells' = cells
                        /\ ids' = ids)
                       => (FitsSettled(s)' <=> FitsSettled(s))
  <2> SUFFICES ASSUME NEW s \in Seeds, begin' = begin, end' = end,
                      cells' = cells, ids' = ids
               PROVE  FitsSettled(s)' <=> FitsSettled(s)
    OBVIOUS
  <2>1. Settled' = Settled  BY <1>1, SettledStay DEF Settled
  <2>2. Slice' = Slice  BY DEF Slice
  <2>3. \A i : Bit(i, s)' = Bit(i, s)  BY <1>3 DEF Bit
  <2> QED BY <2>1, <2>2, <2>3 DEF FitsSettled
<1>5. CASE pc' # "try" /\ status' # "OUT_OF_CHANCE"
  BY <1>5 DEF Searched
<1>6. CASE L1Sort \/ KeepSeed \/ EmitSection \/ Finish
  <2>1. status = "running"
    BY <1>1, <1>6 DEF L1Sort, KeepSeed, EmitSection, Finish, Control
  <2>2. pc' # "try" /\ status' # "OUT_OF_CHANCE"
    BY <1>6, <2>1 DEF L1Sort, KeepSeed, EmitSection, Finish
  <2> QED BY <1>5, <2>2
<1>7. CASE TakeBucket
  <2>1. PICK e \in begin + 1 .. Size + 1 :
               end' = e /\ left' = FirstTries(e - begin)
    BY <1>7 DEF TakeBucket
  <2>2. /\ pc' = "try" /\ begin' = begin /\ second' = FALSE
        /\ status' = "running"
    BY <1>1, <1>7 DEF TakeBucket, Control
  <2>3. Count' = e - begin /\ Slice' = begin .. e - 1
    BY <2>1, <2>2 DEF Count, Slice
  <2>4. FirstTries(e - begin) \in 0 .. Tries
    <3>1. e - begin \in Nat  BY <1>2
    <3> QED BY <3>1, TriesTypes
  <2>5. TriedSeeds' = {}
    <3>1. Tried' = 0  BY <2>1, <2>2, <2>3, <2>4 DEF Tried
    <3> QED BY <3>1 DEF TriedSeeds
  <2>6. Count' = 1 => NoRepeat'
    <3>1. ASSUME Count' = 1 PROVE Slice' = {begin}
      BY <1>2, <2>3, <3>1
    <3> QED BY <3>1 DEF NoRepeat
  <2> QED BY <2>2, <2>5, <2>6 DEF Searched
<1>8. CASE PlaceOne
  <2>1. /\ pc = "try" /\ pc' = "try" /\ begin' = begin /\ end' = end
        /\ cells' = cells /\ ids' = ids /\ sd8' = sd8 /\ left' = left
        /\ second' = second /\ status' = "running"
    BY <1>1, <1>8 DEF PlaceOne, Control
  <2>2. /\ Count' = Count /\ Slice' = Slice /\ Tried' = Tried
        /\ TriedSeeds' = TriedSeeds
    BY <2>1 DEF Count, Slice, Tried, TriedSeeds, Back
  <2>3. \A s \in Seeds : s \in TriedSeeds' => ~ FitsSettled(s)'
    BY <1>1, <1>4, <2>1, <2>2 DEF Searched
  <2>4. second' \/ Count' = 1 => NoRepeat'
    BY <1>1, <2>1, <2>2 DEF Searched, NoRepeat
  <2> QED BY <2>1, <2>3, <2>4 DEF Searched
<1>9. CASE Collide
  <2> DEFINE x == begin + placed
  <2>1. /\ pc = "try" /\ pc' = "try" /\ begin' = begin /\ end' = end
        /\ cells' = cells /\ ids' = ids /\ sd8' = Next8(sd8)
        /\ left' = left - 1 /\ second' = second /\ status' = "running"
        /\ placed < end - begin /\ Bit(x, sd8) \in bitmap
    BY <1>1, <1>9 DEF Collide, Control, Count
  <2>2. Count' = Count /\ Slice' = Slice /\ Tried' = Tried + 1
    <3>1. Count \in Nat  BY <1>1, <1>2, <2>1 DEF Count, Control
    <3>2. FirstTries(Count) \in 0 .. Tries  BY <3>1, TriesTypes
    <3> QED BY <1>2, <2>1, <3>2 DEF Count, Slice, Tried
  <2>3. Tried \in Int /\ Tried + 1 <= Tries
    <3>1. Count \in Nat  BY <1>1, <1>2, <2>1 DEF Count, Control
    <3>2. FirstTries(Count) \in 0 .. Tries  BY <3>1, TriesTypes
    <3>3. left > 0  BY <1>9 DEF Collide
    <3> QED BY <1>2, <3>2, <3>3 DEF Tried
  <2>4. \A s \in TriedSeeds' : s = sd8 \/ s \in TriedSeeds
    <3> SUFFICES ASSUME NEW k \in 1 .. Tried + 1
                 PROVE  \/ Back(Next8(sd8), k) = sd8
                        \/ Back(Next8(sd8), k) \in TriedSeeds
      BY <2>1, <2>2 DEF TriedSeeds, Back
    <3>1. k = 1 => Back(Next8(sd8), k) = sd8  BY <1>2, BackOne
    <3>2. CASE k # 1
      <4>1. k \in 2 .. Tries /\ k - 1 \in 1 .. Tried  BY <1>2, <2>3, <3>2
      <4>2. Back(Next8(sd8), k) = Back(sd8, k - 1)  BY <1>2, <4>1, BackOne
      <4> QED BY <4>1, <4>2 DEF TriedSeeds
    <3> QED BY <3>1, <3>2
  <2>5. ~ FitsSettled(sd8)
    <3>1. x \in Slice  BY <1>2, <2>1 DEF Slice
    <3>2. PICK i \in Placed : Bit(x, sd8) = Bit(i, SeedOf(i))
      BY <1>1, <2>1 DEF BitmapExact
    <3>3. i \in 1 .. begin + placed - 1  BY <2>1 DEF Placed
    <3>4. CASE i < begin
      <4>1. i \in 1 .. begin - 1  BY <1>2, <3>3, <3>4
      <4>2. Bit(x, sd8) \in Settled  BY <3>2, <4>1 DEF Settled
      <4> QED BY <3>1, <4>2 DEF FitsSettled
    <3>5. CASE i >= begin
      <4>1. SeedOf(i) = sd8  BY <1>2, <3>3, <3>5 DEF SeedOf
      <4>2. i \in Slice /\ i # x  BY <1>2, <2>1, <3>3, <3>5 DEF Slice
      <4> QED BY <3>1, <3>2, <4>1, <4>2 DEF FitsSettled
    <3> QED BY <1>2, <3>3, <3>4, <3>5
  <2>6. \A s \in Seeds : s \in TriedSeeds' => ~ FitsSettled(s)'
    BY <1>1, <1>4, <2>1, <2>4, <2>5 DEF Searched
  <2>7. second' \/ Count' = 1 => NoRepeat'
    BY <1>1, <2>1, <2>2 DEF Searched, NoRepeat
  <2> QED BY <2>1, <2>6, <2>7 DEF Searched
<1>10. CASE HasConflict
  <2>1. /\ pc = "try" /\ left = 0 /\ second = FALSE /\ Count > 1
        /\ begin' = begin /\ end' = end /\ sd8' = sd8
    BY <1>2, <1>10 DEF HasConflict
  <2>2. CASE EqualNeighbours(ids')
    BY <1>5, <1>10, <2>2 DEF HasConflict
  <2>3. CASE ~ EqualNeighbours(ids')
    <3>1. /\ pc' = "try" /\ second' = TRUE /\ left' = SecondTries(Count)
          /\ status' = "running"
      BY <1>1, <1>10, <2>1, <2>3 DEF HasConflict, Control
    <3>2. Slice' = Slice /\ Count' = Count  BY <2>1 DEF Slice, Count
    <3>3. NoRepeat'
      BY <1>1, <1>10, <2>3, <3>2, SortedNeighbours DEF NoRepeat
    <3>4. TriedSeeds' = TriedSeeds
      <4>1. Count \in Nat  BY <1>2, <2>1 DEF Count
      <4>2. FirstTries(Count) \in 0 .. Tries  BY <4>1, TriesTypes
      <4>3. Tried' = Tried
        BY <1>2, <2>1, <3>1, <3>2, <4>2 DEF Tried, SecondTries
      <4> QED BY <2>1, <4>3 DEF TriedSeeds, Back
    <3>5. \A s \in Seeds : s \in TriedSeeds' => ~ FitsSettled(s)'
      BY <1>1, <1>10, <2>1, <3>4, SortedFits DEF Searched
    <3> QED BY <3>1, <3>3, <3>5 DEF Searched
  <2> QED BY <2>2, <2>3
<1>11. CASE OutOfChance
  <2>1. /\ pc = "try" /\ left = 0 /\ (second \/ Count = 1)
        /\ begin' = begin /\ end' = end /\ ids' = ids /\ bitmap' = bitmap
        /\ pc' = "done"
    BY <1>11 DEF OutOfChance
  <2>2. Tried = Tries
    BY <1>2, <2>1 DEF Tried, FirstTries
  <2>3. \A s \in Seeds : ~ FitsSettled(s)
    <3> SUFFICES ASSUME NEW s \in Seeds PROVE s \in TriedSeeds
      BY <1>1, <2>1 DEF Searched
    <3> QED BY <1>2, <2>2, BackCovers DEF TriedSeeds
  <2>4. bitmap = Settled
    <3>1. placed = 0  BY <1>1, <2>1 DEF Control
    <3>2. Placed = 1 .. begin - 1  BY <1>2, <2>1, <3>1 DEF Placed
    <3> QED BY <1>1, <3>2 DEF BitmapExact, Settled
  <2>5. \A s \in Seeds : ~ Fits(s)
    BY <2>3, <2>4 DEF Fits, FitsSettled
  <2>6. Slice' = Slice  BY <2>1 DEF Slice
  <2>7. \A s \in Seeds : ~ Fits(s)'
    BY <1>3, <2>1, <2>5, <2>6 DEF Fits, Bit
  <2>8. NoRepeat'
    BY <1>1, <2>1, <2>6 DEF Searched, NoRepeat
  <2> QED BY <2>1, <2>7, <2>8 DEF Searched
<1>12. CASE Terminated \/ UNCHANGED vars
  <2>1. /\ begin' = begin /\ end' = end /\ ids' = ids /\ bitmap' = bitmap
        /\ pc' = pc /\ status' = status /\ cells' = cells /\ sd8' = sd8
        /\ left' = left /\ second' = second
    BY <1>12 DEF Terminated, vars
  <2>2. Slice' = Slice /\ Count' = Count /\ TriedSeeds' = TriedSeeds
    BY <2>1 DEF Slice, Count, TriedSeeds, Tried, Back
  <2>3. \A s \in Seeds : Fits(s)' = Fits(s)
    BY <1>3, <2>1, <2>2 DEF Fits, Bit
  <2>4. NoRepeat' = NoRepeat  BY <2>1, <2>2 DEF NoRepeat
  <2> QED BY <1>1, <1>4, <2>1, <2>2, <2>3, <2>4 DEF Searched
<1> QED
  BY <1>6, <1>7, <1>8, <1>9, <1>10, <1>11, <1>12 DEF Next

(* A lost chance is the truth: no seed fits the bucket over what is        *)
(* already placed (Mapping, build.cc:161-217).                             *)
THEOREM OutOfChanceIsTrue == Spec => []OutOfChanceIsExhaustive
<1>1. SearchInv /\ [Next]_vars => SearchInv'
  BY StepBitInv, StepSearched DEF SearchInv
<1>2. SearchInv => OutOfChanceIsExhaustive
  BY DEF SearchInv, Searched, OutOfChanceIsExhaustive
<1> QED BY InitSearchInv, <1>1, <1>2, PTL DEF Spec

(* A repeated identifier is never taken for a lost chance: HasConflict     *)
(* finds it, in whatever order the bucket was (build.cc:67-86).            *)
THEOREM RepeatIsFound == Spec => []RepeatIsNotOutOfChance
<1>1. SearchInv /\ [Next]_vars => SearchInv'
  BY StepBitInv, StepSearched DEF SearchInv
<1>2. SearchInv => RepeatIsNotOutOfChance
  BY DEF SearchInv, Searched, NoRepeat, RepeatIsNotOutOfChance
<1> QED BY InitSearchInv, <1>1, <1>2, PTL DEF Spec

----------------------------------------------------------------------------
(* The bits below a bit, and those of the sections before a section.       *)
Below(x) == {p \in bitmap : p < x}

BelowSection(k) == {p \in bitmap : p \div SectionBits < k}

(* The sets of bits that are counted are finite.                           *)
LEMMA BelowTypes ==
  ASSUME BitInv
  PROVE  /\ IsFiniteSet(bitmap) /\ bitmap \subseteq Nat
         /\ Cardinality(bitmap) \in Nat
         /\ \A x : IsFiniteSet(Below(x)) /\ Cardinality(Below(x)) \in Nat
         /\ \A k : /\ IsFiniteSet(BelowSection(k))
                   /\ Cardinality(BelowSection(k)) \in Nat
                   /\ IsFiniteSet(BitsOfSection(k))
                   /\ Cardinality(BitsOfSection(k)) \in Nat
<1>1. TypeOK  BY DEF BitInv, TypeInv
<1>2. IsFiniteSet(bitmap)  BY <1>1, BitmapFinite
<1>3. bitmap \subseteq Nat
  <2>1. L2Size(Size) \in Nat  BY <1>1, SizeTypes DEF TypeOK
  <2> QED BY <1>1, <2>1 DEF TypeOK
<1>4. \A T \in SUBSET bitmap : IsFiniteSet(T) /\ Cardinality(T) \in Nat
  BY <1>2, FS_Subset, FS_CardinalityType
<1>5. \A x : Below(x) \in SUBSET bitmap  BY DEF Below
<1>6. \A k : BelowSection(k) \in SUBSET bitmap  BY DEF BelowSection
<1>7. \A k : BitsOfSection(k) \in SUBSET bitmap  BY DEF BitsOfSection
<1>8. bitmap \in SUBSET bitmap  OBVIOUS
<1> QED BY <1>2, <1>3, <1>4, <1>5, <1>6, <1>7, <1>8

(* The rank grows from one bit to the next, and stays below their number.  *)
LEMMA RankGrows ==
  ASSUME BitInv, NEW x \in bitmap, NEW y \in bitmap, x < y
  PROVE  Cardinality(Below(x)) < Cardinality(Below(y))
<1>1. x \in Nat /\ y \in Nat /\ bitmap \subseteq Nat  BY BelowTypes
<1>2. Below(x) \in SUBSET (Below(y) \ {x})
  <2> SUFFICES ASSUME NEW p \in Below(x) PROVE p \in Below(y) \ {x}
    OBVIOUS
  <2>1. p \in bitmap /\ p \in Nat /\ p < x  BY <1>1 DEF Below
  <2>2. p < y /\ p # x  BY <1>1, <2>1
  <2> QED BY <2>1, <2>2 DEF Below
<1>3. x \in Below(y)  BY DEF Below
<1>4. /\ IsFiniteSet(Below(y) \ {x})
      /\ Cardinality(Below(y) \ {x}) = Cardinality(Below(y)) - 1
  BY <1>3, BelowTypes, FS_RemoveElement
<1>5. Cardinality(Below(x)) <= Cardinality(Below(y)) - 1
  BY <1>2, <1>4, FS_Subset
<1> QED BY <1>5, BelowTypes

(* The rank of a bit of the bitmap is below the number of its bits.        *)
LEMMA RankBound ==
  ASSUME BitInv, NEW x \in bitmap
  PROVE  Cardinality(Below(x)) \in 0 .. Cardinality(bitmap) - 1
<1>1. x \in Nat /\ bitmap \subseteq Nat  BY BelowTypes
<1>2. Below(x) \in SUBSET (bitmap \ {x})
  BY <1>1 DEF Below
<1>3. /\ IsFiniteSet(bitmap \ {x})
      /\ Cardinality(bitmap \ {x}) = Cardinality(bitmap) - 1
  BY BelowTypes, FS_RemoveElement
<1>4. Cardinality(Below(x)) <= Cardinality(bitmap) - 1
  BY <1>2, <1>3, FS_Subset
<1> QED BY <1>4, BelowTypes

(* One section more.                                                       *)
LEMMA NextSection ==
  ASSUME BitInv, NEW k \in Nat
  PROVE  Cardinality(BelowSection(k + 1))
           = Cardinality(BelowSection(k)) + Cardinality(BitsOfSection(k))
<1>1. \A p \in bitmap : p \in Nat /\ p \div SectionBits \in Nat
  BY BelowTypes, ParamAssumption, RoundDown
<1>2. BelowSection(k + 1) = BelowSection(k) \cup BitsOfSection(k)
  BY <1>1 DEF BelowSection, BitsOfSection
<1>3. BelowSection(k) \cap BitsOfSection(k) = {}
  BY <1>1 DEF BelowSection, BitsOfSection
<1>4. Cardinality({}) = 0  BY FS_EmptySet
<1> QED BY <1>2, <1>3, <1>4, BelowTypes, FS_Union

(* The bits of the earlier sections, then those of the section of a bit    *)
(* that come before it, are the bits below it.                             *)
LEMMA RankSplits ==
  ASSUME BitInv, NEW x \in Nat
  PROVE  Cardinality(Below(x))
           = Cardinality(BelowSection(x \div SectionBits))
             + Cardinality({p \in BitsOfSection(x \div SectionBits) : p < x})
<1> DEFINE k == x \div SectionBits
           T == {p \in BitsOfSection(k) : p < x}
<1>1. k \in Nat  BY ParamAssumption, RoundDown
<1>2. \A p \in bitmap : p \in Nat /\ p \div SectionBits \in Nat
  BY BelowTypes, ParamAssumption, RoundDown
<1>3. \A p \in bitmap : p < x => p \div SectionBits <= k
  BY <1>2, ParamAssumption, DivMonotone
<1>4. \A p \in bitmap : x <= p => k <= p \div SectionBits
  BY <1>2, ParamAssumption, DivMonotone
<1> HIDE DEF k
<1>5. Below(x) = BelowSection(k) \cup T
  BY <1>1, <1>2, <1>3, <1>4 DEF Below, BelowSection, BitsOfSection
<1>6. BelowSection(k) \cap T = {}
  BY <1>1, <1>2 DEF BelowSection, BitsOfSection
<1>7. T \in SUBSET BitsOfSection(k)  OBVIOUS
<1>8. IsFiniteSet(T) /\ Cardinality(T) \in Nat
  BY <1>7, BelowTypes, FS_Subset, FS_CardinalityType
<1>9. Cardinality({}) = 0  BY FS_EmptySet
<1>10. Cardinality(Below(x)) = Cardinality(BelowSection(k)) + Cardinality(T)
  <2>1. /\ IsFiniteSet(BelowSection(k))
        /\ Cardinality(BelowSection(k)) \in Nat
    BY BelowTypes
  <2> HIDE DEF T
  <2>2. Cardinality(BelowSection(k) \cup T)
          = Cardinality(BelowSection(k)) + Cardinality(T) - Cardinality({})
    BY <1>6, <1>8, <2>1, FS_Union
  <2> QED BY <1>5, <1>8, <1>9, <2>1, <2>2
<1> QED BY <1>10 DEF k

(* When every identifier is placed, there are as many bits as identifiers. *)
LEMMA BitmapFull ==
  ASSUME BitInv, pc # "try", begin = Size + 1
  PROVE  Cardinality(bitmap) = Size
<1> DEFINE At(i) == Bit(i, SeedOf(i))
           f == [i \in 1 .. Size |-> At(i)]
<1>1. Size \in Nat  BY PieceTypes DEF BitInv, TypeInv, TypeOK
<1>2. Placed = 1 .. Size  BY <1>1 DEF Placed
<1>3. /\ bitmap = {At(i) : i \in 1 .. Size}
      /\ \A i, j \in 1 .. Size : At(i) = At(j) => i = j
  BY <1>2 DEF BitInv, BitmapExact
<1> HIDE DEF At
<1>4. f \in Surjection(1 .. Size, bitmap)
  BY <1>3 DEF Surjection
<1>5. f \in Injection(1 .. Size, bitmap)
  BY <1>3 DEF Injection, IsInjective
<1>6. IsFiniteSet(1 .. Size) /\ Cardinality(1 .. Size) = Size
  BY <1>1, FS_Interval
<1> QED BY <1>4, <1>5, <1>6, FS_Surjection

----------------------------------------------------------------------------
(* The sections written so far hold the number of bits before each.        *)
Ranked ==
  /\ pc \in {"sort", "scan", "try"} => sections = <<>> /\ step = 0
  /\ pc = "sections" => Len(sections) <= SectionSize(Size)
  /\ status = "OK" => Len(sections) = SectionSize(Size)
  /\ pc = "sections" \/ status = "OK" =>
       /\ step = Cardinality(BelowSection(Len(sections)))
       /\ \A k \in 1 .. Len(sections) :
            sections[k] = Cardinality(BelowSection(k - 1))
  /\ status # "ABORT"

RankInv == BitInv /\ Ranked

(* No section is written when a build starts.                              *)
LEMMA InitRankInv == Init => RankInv
  BY InitBitInv DEF Init, RankInv, Ranked

(* Build's loop over the sections keeps the count (build.cc:569-588), and  *)
(* the assertion that follows it holds: every section is written, and      *)
(* together they have all the bits.                                        *)
LEMMA StepRanked == RankInv /\ [Next]_vars => Ranked'
<1> SUFFICES ASSUME RankInv, [Next]_vars PROVE Ranked'  OBVIOUS
<1>1. BitInv /\ Ranked /\ Control /\ TypeOK
  BY DEF RankInv, BitInv, TypeInv
<1>2. piece' = piece /\ Size' = Size  BY <1>1, BucketsStay
<1>3. /\ SectionSize(Size) \in Nat /\ Size \in Nat
      /\ sections \in Seq(Nat) /\ Len(sections) \in Nat
  BY <1>1, SizeTypes, PieceTypes DEF TypeOK
<1>4. SectionSize(Size)' = SectionSize(Size)
  BY <1>2 DEF SectionSize, L2Size
<1>5. CASE L1Sort \/ TakeBucket \/ PlaceOne \/ Collide \/ HasConflict
           \/ OutOfChance
  <2>1. pc \in {"sort", "scan", "try"} /\ status = "running"
    BY <1>1, <1>5 DEF L1Sort, TakeBucket, PlaceOne, Collide, HasConflict,
                      OutOfChance, Control
  <2>2. sections = <<>> /\ step = 0  BY <1>1, <2>1 DEF Ranked
  <2>3. /\ sections' = sections /\ step' = step
        /\ pc' \in {"scan", "try", "done"}
        /\ status' \in {"running", "CONFLICT", "OUT_OF_CHANCE"}
    BY <1>5, <2>1 DEF L1Sort, TakeBucket, PlaceOne, Collide, HasConflict,
                      OutOfChance
  <2> QED BY <2>2, <2>3 DEF Ranked
<1>6. CASE KeepSeed
  <2>1. pc = "try" /\ status = "running"
    BY <1>1, <1>6 DEF KeepSeed, Control
  <2>2. sections = <<>> /\ step = 0  BY <1>1, <2>1 DEF Ranked
  <2>3. /\ sections' = sections /\ step' = step /\ bitmap' = bitmap
        /\ pc' \in {"scan", "sections"} /\ status' = "running"
    BY <1>6, <2>1 DEF KeepSeed
  <2>4. Cardinality(BelowSection(0))' = 0
    <3>1. \A p \in bitmap : p \div SectionBits \in Nat
      BY <1>1, BelowTypes, ParamAssumption, RoundDown
    <3>2. {p \in bitmap : p \div SectionBits < 0} = {}  BY <3>1
    <3>3. Cardinality({}) = 0  BY FS_EmptySet
    <3> QED BY <2>3, <3>2, <3>3 DEF BelowSection
  <2>5. Len(sections') = 0  BY <2>2, <2>3
  <2>6. Len(sections') <= SectionSize(Size)'  BY <1>3, <1>4, <2>5
  <2>7. step' = Cardinality(BelowSection(Len(sections)))'
    BY <2>2, <2>3, <2>4, <2>5 DEF BelowSection
  <2> QED BY <2>2, <2>3, <2>5, <2>6, <2>7 DEF Ranked
<1>7. CASE EmitSection
  <2> DEFINE n == Len(sections)
  <2>1. /\ pc = "sections" /\ pc' = "sections" /\ bitmap' = bitmap
        /\ status = "running" /\ status' = "running"
        /\ n < SectionSize(Size)
        /\ sections' = Append(sections, step)
        /\ step' = step + Cardinality(BitsOfSection(n))
    BY <1>1, <1>7 DEF EmitSection, Control
  <2>2. /\ step = Cardinality(BelowSection(n))
        /\ \A k \in 1 .. n : sections[k] = Cardinality(BelowSection(k - 1))
    BY <1>1, <2>1 DEF Ranked
  <2>3. step \in Nat  BY <1>1 DEF TypeOK
  <2>4. /\ Len(sections') = n + 1
        /\ \A k \in 1 .. n : sections'[k] = sections[k]
        /\ sections'[n + 1] = step
    BY <1>3, <2>1, <2>3
  <2>5. \A k : BelowSection(k)' = BelowSection(k)
    BY <2>1 DEF BelowSection
  <2>6. step' = Cardinality(BelowSection(n + 1))
    BY <1>1, <1>3, <2>1, <2>2, NextSection
  <2>7. ASSUME NEW k \in 1 .. n + 1
        PROVE  sections'[k] = Cardinality(BelowSection(k - 1))
    <3>1. CASE k = n + 1  BY <1>3, <2>2, <2>4, <3>1
    <3>2. CASE k # n + 1
      <4>1. k \in 1 .. n  BY <1>3, <3>2
      <4> QED BY <2>2, <2>4, <4>1
    <3> QED BY <3>1, <3>2
  <2>8. Len(sections') <= SectionSize(Size)'  BY <1>3, <1>4, <2>1, <2>4
  <2> HIDE DEF n
  <2>9. step' = Cardinality(BelowSection(Len(sections')))
    BY <2>4, <2>6
  <2>10. \A k \in 1 .. Len(sections') :
           sections'[k] = Cardinality(BelowSection(k - 1))
    BY <2>4, <2>7
  <2>11. BelowSection(Len(sections))' = BelowSection(Len(sections'))
    BY <2>1 DEF BelowSection
  <2>12. \A k : BelowSection(k - 1)' = BelowSection(k - 1)
    BY <2>1 DEF BelowSection
  <2> QED BY <2>1, <2>8, <2>9, <2>10, <2>11, <2>12 DEF Ranked
<1>8. CASE Finish
  <2>1. /\ pc = "sections" /\ pc' = "done" /\ status = "running"
        /\ bitmap' = bitmap /\ sections' = sections /\ step' = step
        /\ Len(sections) = SectionSize(Size)
        /\ status' = IF step = Size THEN "OK" ELSE "ABORT"
    BY <1>1, <1>8 DEF Finish, Control
  <2>2. begin = Size + 1  BY <1>1, <2>1 DEF Control
  <2>3. step = Cardinality(BelowSection(SectionSize(Size)))
    BY <1>1, <2>1 DEF Ranked
  <2>4. BelowSection(SectionSize(Size)) = bitmap
    <3>1. \A p \in bitmap : p \in Nat /\ p < L2Size(Size)
      <4>1. L2Size(Size) \in Nat  BY <1>1, SizeTypes DEF TypeOK
      <4> QED BY <1>1, <4>1 DEF TypeOK
    <3>2. L2Size(Size) \in Nat  BY <1>1, SizeTypes DEF TypeOK
    <3>3. \A p \in bitmap : p \div SectionBits < SectionSize(Size)
      BY <3>1, <3>2, ParamAssumption, DivCovers DEF SectionSize
    <3> QED BY <3>3 DEF BelowSection
  <2>5. step = Size  BY <1>1, <2>1, <2>2, <2>3, <2>4, BitmapFull
  <2>6. status' = "OK"  BY <2>1, <2>5
  <2>7. \A k : BelowSection(k)' = BelowSection(k)
    BY <2>1 DEF BelowSection
  <2>8. \A k \in 1 .. Len(sections) :
          sections[k] = Cardinality(BelowSection(k - 1))
    BY <1>1, <2>1 DEF Ranked
  <2>9. Len(sections)' = SectionSize(Size)'  BY <1>4, <2>1
  <2>10. step' = Cardinality(BelowSection(Len(sections)))'
    BY <2>1, <2>3 DEF BelowSection
  <2>11. (\A k \in 1 .. Len(sections) :
           sections[k] = Cardinality(BelowSection(k - 1)))'
    BY <2>1, <2>8 DEF BelowSection
  <2> QED BY <2>1, <2>6, <2>9, <2>10, <2>11 DEF Ranked
<1>9. CASE Terminated \/ UNCHANGED vars
  <2>1. /\ pc' = pc /\ status' = status /\ sections' = sections
        /\ step' = step /\ bitmap' = bitmap
    BY <1>9 DEF Terminated, vars
  <2>2. BelowSection(Len(sections))' = BelowSection(Len(sections))
    BY <2>1 DEF BelowSection
  <2>3. \A k : BelowSection(k - 1)' = BelowSection(k - 1)
    BY <2>1 DEF BelowSection
  <2> QED BY <1>1, <1>4, <2>1, <2>2, <2>3 DEF Ranked
<1> QED BY <1>5, <1>6, <1>7, <1>8, <1>9 DEF Next

----------------------------------------------------------------------------
(* The bit CalcPos looks up for an identifier.                             *)
BitOf(id) == piece.l2[id][cells[piece.l1[id]]]

PositionMap ==
  [id \in {piece.ids[i] : i \in DOMAIN piece.ids} |-> Position(id)]

(* At the end of the loop over the sections, the position of an identifier *)
(* is the rank of its bit.                                                 *)
LEMMA PositionIsRank ==
  ASSUME RankInv, pc = "sections", Len(sections) = SectionSize(Size),
         NEW i \in 1 .. Size
  PROVE  /\ BitOf(piece.ids[i]) \in bitmap
         /\ Position(piece.ids[i]) = Cardinality(Below(BitOf(piece.ids[i])))
         /\ \E a \in 1 .. Size :
              ids[a] = piece.ids[i] /\ BitOf(piece.ids[i]) = Bit(a, SeedOf(a))
<1>1. BitInv /\ Ranked /\ TypeInv /\ TypeOK /\ Control
  BY DEF RankInv, BitInv, TypeInv
<1>2. Size \in Nat /\ begin = Size + 1 /\ Placed = 1 .. Size
  BY <1>1, PieceTypes DEF TypeOK, Control, Placed
<1>3. PICK a \in 1 .. Size : ids[a] = piece.ids[i]
  <2>1. PICK g \in Rearrangements(1 .. Size) :
               \A k \in 1 .. Size : ids[k] = piece.ids[g[k]]
    BY <1>1 DEF TypeInv, SameIds
  <2>2. PICK a \in 1 .. Size : g[a] = i  BY <2>1 DEF Rearrangements
  <2> QED BY <2>1, <2>2
<1>4. BitOf(piece.ids[i]) = Bit(a, SeedOf(a))
  <2>1. a < begin  BY <1>2
  <2> QED BY <1>3, <2>1 DEF BitOf, Bit, SeedOf, BucketOf
<1>5. BitOf(piece.ids[i]) \in bitmap
  BY <1>1, <1>2, <1>4 DEF BitInv, BitmapExact
<1> DEFINE x == BitOf(piece.ids[i])
           k == x \div SectionBits
<1>6. x \in Nat  BY <1>1, <1>5, BelowTypes
<1>7. k \in Nat /\ k < SectionSize(Size)
  <2>1. L2Size(Size) \in Nat /\ x < L2Size(Size)
    <3>1. L2Size(Size) \in Nat  BY <1>1, SizeTypes DEF TypeOK
    <3>2. bitmap \subseteq 0 .. L2Size(Size) - 1  BY <1>1 DEF TypeOK
    <3> HIDE DEF x
    <3>3. x \in 0 .. L2Size(Size) - 1  BY <1>5, <3>2 DEF x
    <3> QED BY <3>1, <3>3
  <2> QED
    BY <1>6, <2>1, ParamAssumption, DivCovers, RoundDown DEF SectionSize
<1>8. sections[k + 1] = Cardinality(BelowSection(k))
  <2>1. \A j \in 1 .. Len(sections) :
          sections[j] = Cardinality(BelowSection(j - 1))
    BY <1>1 DEF Ranked
  <2>2. SectionSize(Size) \in Nat  BY <1>1, SizeTypes DEF TypeOK
  <2> HIDE DEF k
  <2>3. k + 1 \in 1 .. Len(sections) /\ (k + 1) - 1 = k
    BY <1>7, <2>2
  <2> QED BY <2>1, <2>3
<1>9. Position(piece.ids[i])
        = sections[k + 1] + Cardinality({p \in BitsOfSection(k) : p < x})
  BY DEF Position, BitOf
<1>10. Position(piece.ids[i]) = Cardinality(Below(x))
  BY <1>1, <1>6, <1>8, <1>9, RankSplits
<1> QED BY <1>3, <1>4, <1>5, <1>10

(* What a finished build leaves is a minimal perfect hash: the positions   *)
(* are below the number of identifiers and no two are the same.            *)
LEMMA FinishedIsPerfect ==
  ASSUME RankInv, pc = "sections", Len(sections) = SectionSize(Size)
  PROVE  Contract!IsMinimalPerfect(PositionMap, piece.ids)
<1>1. BitInv /\ Ranked /\ TypeInv /\ TypeOK /\ Control
  BY DEF RankInv, BitInv, TypeInv
<1>2. /\ Size \in Nat \ {0} /\ DOMAIN piece.ids = 1 .. Size
      /\ begin = Size + 1 /\ Placed = 1 .. Size
  BY <1>1, PieceTypes DEF TypeOK, Control, Placed
<1>3. Cardinality(bitmap) = Size  BY <1>1, <1>2, BitmapFull
<1>4. ASSUME NEW i \in 1 .. Size
      PROVE  Position(piece.ids[i]) \in 0 .. Size - 1
  <2>1. BitOf(piece.ids[i]) \in bitmap  BY PositionIsRank
  <2>2. Position(piece.ids[i]) = Cardinality(Below(BitOf(piece.ids[i])))
    BY PositionIsRank
  <2> QED BY <1>1, <1>3, <2>1, <2>2, RankBound
<1>5. ASSUME NEW i \in 1 .. Size, NEW j \in 1 .. Size,
             Position(piece.ids[i]) = Position(piece.ids[j])
      PROVE  i = j
  <2> DEFINE x == BitOf(piece.ids[i])
             y == BitOf(piece.ids[j])
  <2>1. x \in bitmap /\ y \in bitmap
    BY PositionIsRank
  <2>2. Cardinality(Below(x)) = Cardinality(Below(y))
    BY <1>5, PositionIsRank
  <2>3. x = y
    <3> HIDE DEF x, y
    <3>1. x \in Nat /\ y \in Nat  BY <1>1, <2>1, BelowTypes
    <3>2. Cardinality(Below(x)) \in Nat /\ Cardinality(Below(y)) \in Nat
      BY <1>1, BelowTypes
    <3>3. ~ (x < y)  BY <1>1, <2>1, <2>2, <3>2, RankGrows
    <3>4. ~ (y < x)  BY <1>1, <2>1, <2>2, <3>2, RankGrows
    <3> QED BY <3>1, <3>3, <3>4
  <2>4. PICK g \in Rearrangements(1 .. Size) :
               \A k \in 1 .. Size : ids[k] = piece.ids[g[k]]
    BY <1>1 DEF TypeInv, SameIds
  <2>5. PICK a \in 1 .. Size : g[a] = i  BY <2>4 DEF Rearrangements
  <2>6. PICK b \in 1 .. Size : g[b] = j  BY <2>4 DEF Rearrangements
  <2>7. x = Bit(a, SeedOf(a)) /\ y = Bit(b, SeedOf(b))
    <3>1. ids[a] = piece.ids[i] /\ ids[b] = piece.ids[j]
      BY <2>4, <2>5, <2>6
    <3>2. a < begin /\ b < begin  BY <1>2
    <3> QED BY <3>1, <3>2 DEF BitOf, Bit, SeedOf, BucketOf
  <2>8. a = b
    BY <1>1, <1>2, <2>3, <2>7 DEF BitInv, BitmapExact
  <2> QED BY <2>5, <2>6, <2>8
<1>6. PositionMap \in [Contract!Elements(piece.ids) -> 0 .. Len(piece.ids) - 1]
  BY <1>2, <1>4 DEF PositionMap, Contract!Elements, Size
<1>7. \A i \in 1 .. Size : PositionMap[piece.ids[i]] = Position(piece.ids[i])
  BY <1>2 DEF PositionMap
<1> QED BY <1>2, <1>5, <1>6, <1>7 DEF Contract!IsMinimalPerfect

(* A build that starts is a contract that starts.                          *)
LEMMA InitContract == Init => Contract!Init
<1> SUFFICES ASSUME Init PROVE Contract!Init  OBVIOUS
<1>1. IsPiece(piece)  BY PiecesAssumption DEF Init
<1>2. piece.ids # <<>>  BY <1>1 DEF IsPiece
<1>3. status = "running"  BY DEF Init
<1>4. Crowded \in BOOLEAN  BY DEF Crowded
<1> QED BY <1>2, <1>3, <1>4 DEF Contract!Init

(* Each step of the builder is a step of the contract, or none.            *)
LEMMA StepContract ==
  RankInv /\ Ranked' /\ TypeInv' /\ [Next]_vars
    => [Contract!Next]_(Contract!vars)
<1> SUFFICES ASSUME RankInv, Ranked', TypeInv', [Next]_vars
             PROVE  [Contract!Next]_(Contract!vars)
  OBVIOUS
<1>1. BitInv /\ Ranked /\ TypeInv /\ TypeOK /\ Control
  BY DEF RankInv, BitInv, TypeInv
<1>2. piece' = piece /\ Size' = Size  BY <1>1, BucketsStay
<1>3. Crowded' = Crowded
  <2>1. \A b : BucketSize(b)' = BucketSize(b)
    BY <1>1, <1>2, BucketsStay DEF BucketSize
  <2> QED BY <1>2, <2>1 DEF Crowded, L1Size
<1>4. CASE status' = status /\ status # "OK"
  BY <1>2, <1>3, <1>4 DEF Contract!vars
<1>5. CASE L1Sort
  <2>1. status = "running"  BY <1>1, <1>5 DEF L1Sort, Control
  <2>2. CASE Crowded
    <3>1. status' = "CONFLICT"  BY <1>5, <2>2 DEF L1Sort
    <3>2. Contract!RefuseConflict
      BY <1>2, <1>3, <2>1, <2>2, <3>1 DEF Contract!RefuseConflict
    <3> QED BY <3>2 DEF Contract!Next
  <2>3. CASE ~ Crowded  BY <1>4, <1>5, <2>1, <2>3 DEF L1Sort
  <2> QED BY <2>2, <2>3
<1>6. CASE TakeBucket \/ PlaceOne \/ Collide \/ KeepSeed \/ EmitSection
  <2>1. status' = status /\ status # "OK"
    BY <1>1, <1>6 DEF TakeBucket, PlaceOne, Collide, KeepSeed, EmitSection,
                      Control
  <2> QED BY <1>4, <2>1
<1>7. CASE HasConflict
  <2>1. status = "running"  BY <1>1, <1>7 DEF HasConflict, Control
  <2>2. CASE EqualNeighbours(ids')
    <3>1. status' = "CONFLICT"  BY <1>7, <2>2 DEF HasConflict
    <3>2. PICK i \in Slice : i > begin /\ ids'[i] = ids'[i - 1]
      BY <2>2 DEF EqualNeighbours
    <3>3. i \in 1 .. Size /\ i - 1 \in 1 .. Size /\ i # i - 1
      <4>1. begin \in 1 .. Size + 1 /\ end \in 1 .. Size + 1 /\ Size \in Nat
        BY <1>1, PieceTypes DEF TypeOK
      <4> QED BY <3>2, <4>1 DEF Slice
    <3>4. PICK g \in Rearrangements(1 .. Size) :
                 \A k \in 1 .. Size : ids'[k] = piece.ids[g[k]]
      <4>1. SameIds'  BY DEF TypeInv
      <4> QED BY <1>2, <4>1 DEF SameIds
    <3>5. g[i] \in 1 .. Size /\ g[i - 1] \in 1 .. Size /\ g[i] # g[i - 1]
      BY <3>3, <3>4 DEF Rearrangements
    <3>6. piece.ids[g[i]] = piece.ids[g[i - 1]]  BY <3>2, <3>3, <3>4
    <3>7. DOMAIN piece.ids = 1 .. Size  BY <1>1, PieceTypes DEF TypeOK
    <3>8. Contract!HasRepeat(piece.ids)
      BY <3>5, <3>6, <3>7 DEF Contract!HasRepeat
    <3>9. Contract!RefuseConflict
      BY <1>2, <1>3, <2>1, <3>1, <3>8 DEF Contract!RefuseConflict
    <3> QED BY <3>9 DEF Contract!Next
  <2>3. CASE ~ EqualNeighbours(ids')
    BY <1>4, <1>7, <2>1, <2>3 DEF HasConflict
  <2> QED BY <2>2, <2>3
<1>8. CASE OutOfChance
  <2>1. status = "running" /\ status' = "OUT_OF_CHANCE"
    BY <1>1, <1>8 DEF OutOfChance, Control
  <2>2. Contract!GiveUp
    BY <1>2, <1>3, <2>1 DEF Contract!GiveUp
  <2> QED BY <2>2 DEF Contract!Next
<1>9. CASE Finish
  <2>1. /\ pc = "sections" /\ Len(sections) = SectionSize(Size)
        /\ status = "running" /\ status' \in {"OK", "ABORT"}
        /\ bitmap' = bitmap /\ cells' = cells /\ sections' = sections
    BY <1>1, <1>9 DEF Finish, Control
  <2>2. status' = "OK"  BY <2>1 DEF Ranked
  <2>3. PositionMap' = PositionMap
    <3>1. \A id : Position(id)' = Position(id)
      BY <1>2, <2>1 DEF Position, BitsOfSection
    <3> QED BY <1>2, <3>1 DEF PositionMap
  <2>4. Contract!IsMinimalPerfect(PositionMap', piece.ids)
    BY <2>1, <2>3, FinishedIsPerfect
  <2>5. Contract!Succeed
    BY <1>2, <1>3, <2>1, <2>2, <2>4
       DEF Contract!Succeed, PositionMap
  <2> QED BY <2>5 DEF Contract!Next
<1>10. CASE Terminated \/ UNCHANGED vars
  <2>1. /\ piece' = piece /\ status' = status /\ bitmap' = bitmap
        /\ cells' = cells /\ sections' = sections
    BY <1>10 DEF Terminated, vars
  <2>2. \A id : Position(id)' = Position(id)
    BY <2>1 DEF Position, BitsOfSection
  <2> QED BY <1>3, <2>1, <2>2 DEF Contract!vars
<1> QED BY <1>5, <1>6, <1>7, <1>8, <1>9, <1>10 DEF Next

(* Build implements the contract: it leaves a minimal perfect hash, or     *)
(* reports a conflict that is there, or runs out of seeds, once, and for   *)
(* every input and every choice of the constants (Build, build.cc:532-591; *)
(* CalcPos, search.cc:76-92).                                              *)
THEOREM BuildIsPerfectHash == Spec => IsPerfectHash
<1>1. RankInv /\ [Next]_vars => RankInv'
  BY StepBitInv, StepRanked DEF RankInv
<1>2. RankInv /\ [Next]_vars => [Contract!Next]_(Contract!vars)
  BY <1>1, StepContract DEF RankInv, BitInv
<1> QED
  BY InitRankInv, InitContract, <1>1, <1>2, PTL
     DEF Spec, IsPerfectHash, Contract!Spec

============================================================================
