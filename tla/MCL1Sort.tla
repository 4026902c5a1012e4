------------------------------ MODULE MCL1Sort ------------------------------
(***************************************************************************)
(* Six identifiers in three buckets, in every way, in place; three and     *)
(* four in two, in place and copied; and arrays of up to eleven in four to *)
(* six buckets, with empty buckets, which are divided more than once.  The *)
(* counts have up to two binary digits.                                    *)
(***************************************************************************)
EXTENDS L1Sort

(* The greatest code of a cell, but that of all codes: see MCL1SortTop.    *)
CodeIn(b, total) ==
  CHOOSE c \in 0 .. CodeMax - 1 :
    /\ CellOf(c, total) = b
    /\ c + 1 = CodeMax \/ CellOf(c + 1, total) # b

Input(f, total, copied) ==
  [total |-> total, shadow |-> copied,
   code |-> [i \in 0 .. total - 1 |-> CodeIn(f[i], total)]]

In(seq, copied) ==
  Input([i \in 0 .. Len(seq) - 1 |-> seq[i + 1]], Len(seq), copied)

AnySix == {Input(f, 6, FALSE) : f \in [0 .. 5 -> 0 .. 2]}

AnyFour == {Input(f, 4, c) : f \in [0 .. 3 -> 0 .. 1], c \in BOOLEAN}

AnyThree == {Input(f, 3, c) : f \in [0 .. 2 -> 0 .. 1], c \in BOOLEAN}

MCInputs == AnySix \union AnyFour \union AnyThree \union {
  In(<<0, 1, 0, 1, 0, 1, 1, 0>>, FALSE),
  In(<<3, 2, 2, 3, 1, 3, 0, 2>>, FALSE),
  In(<<2, 4, 0, 2, 4, 0, 2, 4, 0, 1>>, FALSE),
  In(<<4, 1, 1, 4, 3, 3, 0, 4, 1>>, FALSE),
  In(<<3, 3, 0, 1, 0, 3, 1, 0, 1, 2, 2>>, FALSE),
  In(<<0, 0, 1, 2, 2, 2>>, TRUE),
  In(<<3, 2, 2, 3, 1, 3, 0, 2>>, TRUE)}

(* The inputs are those the proofs are about.                              *)
ASSUME CellsAssumption == NoStrays

============================================================================
