----------------------------- MODULE Displace ------------------------------
(***************************************************************************)
(* The build of one piece of the index: BuildStatus Build(V96 ids[], ...,  *)
(* IndexPiece&) of src/src/build.cc, with Mapping, TryToMapLarge,          *)
(* TryToMapSmall and HasConflict, and the rank lookup CalcPos of           *)
(* src/src/search.cc that reads what it leaves.                            *)
(*                                                                         *)
(* The identifiers arrive grouped by first-level bucket.  Bucket after     *)
(* bucket, the builder looks for a seed sd8 under which the identifiers of *)
(* the bucket fall on bits of the bitmap that are still clear; a collision *)
(* takes back the bits of the try and moves on to the next seed.  When     *)
(* every bucket has its seed, the bitmap is cut in sections, each with the *)
(* number of bits set before it, so that the position of an identifier is  *)
(* the rank of its bit.                                                    *)
(*                                                                         *)
(* One thread builds a piece, on a bitmap of its own: a step is one bit    *)
(* tested and set, one collision taken back, or one decision of the search.*)
(* The hash functions are abstracted to the tables l1 and l2 of the input. *)
(***************************************************************************)
EXTENDS Naturals, Sequences, FiniteSets

CONSTANTS
  Tries,        (* TOTAL_TRIES, the number of seeds: 2^8 in the code       *)
  FirstLarge,   (* FIRST_TRIES of a bucket above Batch: 56                 *)
  FirstSmall,   (* FIRST_TRIES of a bucket of 2 .. Batch identifiers: 96   *)
  Batch,        (* MINI_BATCH: 32                                          *)
  Cell,         (* L1CELL, the average size of a bucket: 5                 *)
  Slack,        (* what a bucket may have over the number of buckets: 16   *)
  CountMax,     (* UINT16_MAX                                              *)
  SectionBits,  (* BITMAP_SECTION_SIZE: 224                                *)
  Pieces        (* the inputs: [ids, l1, l2] records                       *)

Seeds == 0 .. Tries - 1

Next8(s) == (s + 1) % Tries                 (* sd8++ of a uint8_t          *)
(* Faulty variant of Prev8: wider than a byte.                             *)
Prev8NoWrap(s) == s - 1
Prev8(s) == (s + Tries - 1) % Tries         (* magic-- of a uint8_t        *)

L1Size(n) == (n + Cell - 1) \div Cell
L2Size(n) == 2 * n + 1
SectionSize(n) == (L2Size(n) + SectionBits - 1) \div SectionBits

(* The array is grouped by bucket, as L1Sort leaves it.                    *)
Grouped(p) ==
  \A i, j, k \in DOMAIN p.ids :
    (i < j /\ j < k /\ p.l1[p.ids[i]] = p.l1[p.ids[k]])
      => p.l1[p.ids[j]] = p.l1[p.ids[i]]

IsPiece(p) ==
  /\ p.ids \in Seq(Nat) \ {<<>>}
  /\ LET n == Len(p.ids)
         Ids == {p.ids[i] : i \in DOMAIN p.ids}
     IN  /\ p.l1 \in [Ids -> 0 .. L1Size(n) - 1]
         /\ p.l2 \in [Ids -> [Seeds -> 0 .. L2Size(n) - 1]]
  /\ Grouped(p)

ASSUME ParamAssumption ==
  /\ Tries \in Nat \ {0}
  /\ FirstLarge \in 0 .. Tries
  /\ FirstSmall \in 0 .. Tries
  /\ Batch \in Nat \ {0}
  /\ Cell \in Nat \ {0}
  /\ Slack \in Nat
  /\ CountMax \in Nat
  /\ SectionBits \in Nat \ {0}

ASSUME PiecesAssumption == \A p \in Pieces : IsPiece(p)

VARIABLES
  piece,     (* the input                                                  *)
  ids,       (* the array the builder works on (HasConflict sorts in it)   *)
  pc,        (* "sort", "scan", "try", "sections" or "done"                *)
  begin,     (* first index of the bucket being mapped                     *)
  end,       (* index after its last identifier                            *)
  magic,     (* the first seed to try for the next bucket                  *)
  sd8,       (* the seed under trial                                       *)
  left,      (* tries left in this call of TryToMap...                     *)
  second,    (* whether this is the second call                            *)
  placed,    (* identifiers of the bucket whose bit this try has set       *)
  bitmap,    (* the set of bits that are set                               *)
  cells,     (* bucket -> seed                                             *)
  sections,  (* bits set before each section                               *)
  step,      (* bits set in the sections emitted so far                    *)
  status     (* what Build returns                                         *)

vars == <<piece, ids, pc, begin, end, magic, sd8, left, second, placed,
          bitmap, cells, sections, step, status>>

Size == Len(piece.ids)

BucketOf(i) == piece.l1[ids[i]]

(* The bit of the i-th identifier under seed s.                            *)
Bit(i, s) == piece.l2[ids[i]][s]

Count == end - begin

Slice == begin .. end - 1

FirstTries(cnt) ==
  IF cnt = 1 THEN Tries ELSE IF cnt > Batch THEN FirstLarge ELSE FirstSmall

(* Faulty variant of SecondTries: one too few.                             *)
SecondTriesShort(cnt) == Tries - FirstTries(cnt) - 1
SecondTries(cnt) == Tries - FirstTries(cnt)

BucketSize(b) == Cardinality({i \in 1 .. Size : BucketOf(i) = b})

(* L1Sort gives up when a bucket is over this size.                        *)
Crowded ==
  \E b \in 0 .. L1Size(Size) - 1 :
    BucketSize(b) > L1Size(Size) + Slack \/ BucketSize(b) > CountMax

----------------------------------------------------------------------------
Init ==
  /\ piece \in Pieces
  /\ ids = piece.ids
  /\ pc = "sort"
  /\ begin = 1 /\ end = 1
  /\ magic = 0 /\ sd8 = 0
  /\ left = 0 /\ second = FALSE /\ placed = 0
  /\ bitmap = {}
  /\ cells = [b \in 0 .. L1Size(Len(piece.ids)) - 1 |-> 0]
  /\ sections = <<>> /\ step = 0
  /\ status = "running"

(* L1Sort and its nullptr.                                                 *)
L1Sort ==
  /\ pc = "sort"
  /\ IF Crowded THEN pc' = "done" /\ status' = "CONFLICT"
                ELSE pc' = "scan" /\ UNCHANGED status
  /\ UNCHANGED <<piece, ids, begin, end, magic, sd8, left, second, placed,
                 bitmap, cells, sections, step>>

(* The loop of Build finds where the bucket at begin ends and calls        *)
(* Mapping, with the next seed in decreasing order.                        *)
TakeBucket ==
  /\ pc = "scan"
  /\ \E e \in begin + 1 .. Size + 1 :
       /\ \A i \in begin .. e - 1 : BucketOf(i) = BucketOf(begin)
       /\ e <= Size => BucketOf(e) # BucketOf(begin)
       /\ end' = e
       /\ magic' = IF e <= Size THEN Prev8(magic) ELSE magic
       /\ left' = FirstTries(e - begin)
  /\ sd8' = magic
  /\ second' = FALSE
  /\ placed' = 0
  /\ pc' = "try"
  /\ UNCHANGED <<piece, ids, begin, bitmap, cells, sections, step, status>>

(* TestAndSetBit on a clear bit.                                           *)
PlaceOne ==
  /\ pc = "try" /\ left > 0 /\ placed < Count
  /\ Bit(begin + placed, sd8) \notin bitmap
  /\ bitmap' = bitmap \union {Bit(begin + placed, sd8)}
  /\ placed' = placed + 1
  /\ UNCHANGED <<piece, ids, pc, begin, end, magic, sd8, left, second,
                 cells, sections, step, status>>

(* A large bucket is placed batch by batch: the identifiers of the batches *)
(* that went through.                                                      *)
Earlier == IF Count > Batch THEN (placed \div Batch) * Batch ELSE 0

BatchBits == {Bit(i, sd8) : i \in begin + Earlier .. begin + placed - 1}

(* Faulty variant of TailBits: the batches that went through are left.     *)
TailBitsForgotten == {}
TailBits == {Bit(i, sd8) : i \in begin .. begin + Earlier - 1}

(* TestAndSetBit on a set bit: the batch clears the bits it has set, the   *)
(* retry clears those of the earlier batches, and the next seed is tried.  *)
Collide ==
  /\ pc = "try" /\ left > 0 /\ placed < Count
  /\ Bit(begin + placed, sd8) \in bitmap
  /\ bitmap' = (bitmap \ BatchBits) \ TailBits
  /\ sd8' = Next8(sd8)
  /\ left' = left - 1
  /\ placed' = 0
  /\ UNCHANGED <<piece, ids, pc, begin, end, magic, second, cells,
                 sections, step, status>>

(* Mapping returns the seed.                                               *)
KeepSeed ==
  /\ pc = "try" /\ placed = Count
  /\ cells' = [cells EXCEPT ![BucketOf(begin)] = sd8]
  /\ begin' = end
  /\ pc' = IF end <= Size THEN "scan" ELSE "sections"
  /\ UNCHANGED <<piece, ids, end, magic, sd8, left, second, placed,
                 bitmap, sections, step, status>>

(* The orders in which the identifiers at the indices of S may be laid.    *)
Rearrangements(S) ==
  {f \in [S -> S] : /\ \A i, j \in S : f[i] = f[j] => i = j
                    /\ \A j \in S : \E i \in S : f[i] = j}

Rearranged(f) ==
  [i \in 1 .. Size |-> IF i \in Slice THEN ids[f[i]] ELSE ids[i]]

(* Faulty variant of EqualNeighbours: the first pair is left out.          *)
EqualNeighboursButFirst(a) == \E i \in Slice : i > begin + 1 /\ a[i] = a[i - 1]
EqualNeighbours(a) == \E i \in Slice : i > begin /\ a[i] = a[i - 1]

(* HasConflict, after the first call of TryToMap... has failed: the bucket *)
(* is sorted, and two equal neighbours are a conflict; otherwise the       *)
(* search goes on with the seeds that are left.                            *)
HasConflict ==
  /\ pc = "try" /\ left = 0 /\ ~ second /\ Count > 1
  /\ \E f \in Rearrangements(Slice) :
       /\ \A i, j \in Slice : i < j => ids[f[i]] <= ids[f[j]]
       /\ ids' = Rearranged(f)
  /\ IF EqualNeighbours(ids')
     THEN /\ pc' = "done" /\ status' = "CONFLICT"
          /\ UNCHANGED <<left, second>>
     ELSE /\ second' = TRUE
          /\ left' = SecondTries(Count)
          /\ UNCHANGED <<pc, status>>
  /\ UNCHANGED <<piece, begin, end, magic, sd8, placed, bitmap, cells,
                 sections, step>>

(* Every seed has failed.                                                  *)
OutOfChance ==
  /\ pc = "try" /\ left = 0 /\ (second \/ Count = 1)
  /\ pc' = "done" /\ status' = "OUT_OF_CHANCE"
  /\ UNCHANGED <<piece, ids, begin, end, magic, sd8, left, second, placed,
                 bitmap, cells, sections, step>>

BitsOfSection(k) == {p \in bitmap : p \div SectionBits = k}

(* Faulty variant of EmitSection: the step counts its own section.         *)
EmitSectionInclusive ==
  /\ pc = "sections" /\ Len(sections) < SectionSize(Size)
  /\ step' = step + Cardinality(BitsOfSection(Len(sections)))
  /\ sections' = Append(sections, step')
  /\ UNCHANGED <<piece, ids, pc, begin, end, magic, sd8, left, second,
                 placed, bitmap, cells, status>>

EmitSection ==
  /\ pc = "sections" /\ Len(sections) < SectionSize(Size)
  /\ sections' = Append(sections, step)
  /\ step' = step + Cardinality(BitsOfSection(Len(sections)))
  /\ UNCHANGED <<piece, ids, pc, begin, end, magic, sd8, left, second,
                 placed, bitmap, cells, status>>

(* Assert(step == out.size), and the return of BUILD_STATUS_OK.            *)
Finish ==
  /\ pc = "sections" /\ Len(sections) = SectionSize(Size)
  /\ pc' = "done"
  /\ status' = IF step = Size THEN "OK" ELSE "ABORT"
  /\ UNCHANGED <<piece, ids, begin, end, magic, sd8, left, second, placed,
                 bitmap, cells, sections, step>>

Terminated == pc = "done" /\ UNCHANGED vars

Next ==
  \/ L1Sort
  \/ TakeBucket
  \/ PlaceOne
  \/ Collide
  \/ KeepSeed
  \/ HasConflict
  \/ OutOfChance
  \/ EmitSection
  \/ Finish
  \/ Terminated

Spec == Init /\ [][Next]_vars

----------------------------------------------------------------------------
(* CalcPos: the bit of the identifier under the seed of its bucket, and    *)
(* the number of set bits before it.                                       *)
Position(id) ==
  LET bit == piece.l2[id][cells[piece.l1[id]]]
      section == bit \div SectionBits
  IN  sections[section + 1]
        + Cardinality({p \in BitsOfSection(section) : p < bit})

(* The seed the i-th identifier sits under: the one kept for its bucket,   *)
(* or the one under trial.                                                 *)
SeedOf(i) == IF i < begin THEN cells[BucketOf(i)] ELSE sd8

(* The identifiers with a bit in the bitmap.                               *)
Placed ==
  1 .. (IF pc = "try" THEN begin + placed - 1 ELSE begin - 1)

----------------------------------------------------------------------------
(* The variables have their types: seeds and first seeds stay bytes,       *)
(* bucket bounds stay in the array, and every bit that is set is one of    *)
(* the bitmap Build allocates (build.cc:532-591).                          *)
TypeOK ==
  /\ IsPiece(piece)
  /\ ids \in [1 .. Size -> Nat]
  /\ pc \in {"sort", "scan", "try", "sections", "done"}
  /\ begin \in 1 .. Size + 1 /\ end \in 1 .. Size + 1
  /\ magic \in Seeds /\ sd8 \in Seeds
  /\ left \in 0 .. Tries
  /\ second \in BOOLEAN
  /\ placed \in 0 .. Size
  /\ bitmap \subseteq 0 .. L2Size(Size) - 1
  /\ cells \in [0 .. L1Size(Size) - 1 -> Seeds]
  /\ sections \in Seq(Nat)
  /\ step \in Nat
  /\ status \in {"running", "OK", "CONFLICT", "OUT_OF_CHANCE", "ABORT"}

(* At every moment the bitmap holds one bit for each identifier already    *)
(* placed, each its own, and no other bit: a collision takes back exactly  *)
(* what its try has set, and never a bit of an earlier bucket              *)
(* (TryToMapLarge and TryToMapSmall, build.cc:88-159).                     *)
BitmapExact ==
  /\ bitmap = {Bit(i, SeedOf(i)) : i \in Placed}
  /\ \A i, j \in Placed : Bit(i, SeedOf(i)) = Bit(j, SeedOf(j)) => i = j

(* A seed fits the bucket when its identifiers fall on clear bits, each on *)
(* its own.                                                                *)
Fits(s) ==
  /\ \A i \in Slice : Bit(i, s) \notin bitmap
  /\ \A i, j \in Slice : Bit(i, s) = Bit(j, s) => i = j

(* Out of chance is the truth: every one of the seeds has been tried, the  *)
(* wrap of sd8 and the two calls with their own counts of tries included,  *)
(* and none of them fits the bucket (Mapping, build.cc:161-217).           *)
OutOfChanceIsExhaustive ==
  status = "OUT_OF_CHANCE" => \A s \in Seeds : ~ Fits(s)

(* The caller retries conflicts and lost chances on different budgets: a   *)
(* bucket with a repeated identifier, which no seed can ever place, is     *)
(* never reported as a lost chance (Mapping and HasConflict).              *)
RepeatIsNotOutOfChance ==
  status = "OUT_OF_CHANCE" => \A i, j \in Slice : ids[i] = ids[j] => i = j

(* Build implements the contract of a perfect hash.                        *)
Contract == INSTANCE PerfectHash WITH
  keys <- piece.ids,
  crowded <- Crowded,
  result <- status,
  position <- IF status = "OK"
              THEN [id \in {piece.ids[i] : i \in DOMAIN piece.ids} |->
                      Position(id)]
              ELSE <<>>

IsPerfectHash == Contract!Spec

============================================================================
