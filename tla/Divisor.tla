------------------------------ MODULE Divisor ------------------------------
(***************************************************************************)
(* Division by an invariant number, by a multiplication and a shift:       *)
(* Divisor of src/include/utils.h, after Robison for 64-bit words and      *)
(* after Lemire, Kaser and Kurz for shorter ones, and FastDiv32 and        *)
(* FastDiv64 of src/src/cuda/shd.cu.  Every lookup and every step of a     *)
(* build goes through one: the piece is id % number of pieces, the cell a  *)
(* quotient, the bit and the block of a Bloom filter are remainders.       *)
(*                                                                         *)
(* The algorithms are the same for each width; Word is the number of       *)
(* values of a word, and arithmetic is modulo Word or modulo Word * Word   *)
(* (Double) where the code's is.                                           *)
(***************************************************************************)
EXTENDS Integers

CONSTANTS Bits, Word

ASSUME WordAssumption ==
  /\ Bits \in Nat \ {0}
  /\ Word \in Nat \ {0, 1}
  /\ Word = 2 ^ Bits

(* What a shift by one bit does to a power of two (the provers know the    *)
(* powers by name only).                                                   *)
ASSUME PowerAssumption ==
  \A i \in 0 .. Bits : /\ 2 ^ i \in Nat \ {0}
                       /\ i > 0 => 2 ^ i = 2 * 2 ^ (i - 1)

Words == 0 .. Word - 1
Double == Word * Word

----------------------------------------------------------------------------
(* DivisorLKK.                                                             *)
LKK(n) ==
  [val |-> n,
   fac |-> IF n = 0 THEN 0 ELSE ((Double - 1) \div n + 1) % Double]

LKKDiv(d, m) == IF d.fac = 0 THEN m ELSE (m * d.fac) \div Double
LKKMod(d, m) == (d.val * ((m * d.fac) % Double)) \div Double

(* DivisorMR: the shift is that of the highest bit of n.                   *)
Shift(n) == CHOOSE i \in 0 .. Bits - 1 : 2 ^ i <= n /\ n < 2 ^ (i + 1)

(* Is the quotient of the power of two rounded up?  (Faulty variant:       *)
(* RoundsUpAlways.)                                                        *)
RoundsUpAlways(n) == n # 2 ^ Shift(n)
RoundsUp(n) ==
  LET m == 2 ^ Shift(n)
      fac == (m * Word) \div n
  IN  m # n /\ (((fac * n) % Word) + n) % Word <= m

MR(n) ==
  IF n = 0 THEN [val |-> 0, fac |-> 0, sft |-> 0, ab |-> FALSE]
  ELSE [val |-> n, sft |-> Shift(n), ab |-> RoundsUp(n),
        fac |-> IF 2 ^ Shift(n) = n THEN Word - 1
                ELSE ((2 ^ Shift(n)) * Word) \div n]

MRDiv(d, m) ==
  ((d.fac * m + (IF d.ab THEN m ELSE d.fac)) % Double)
    \div (Word * (2 ^ d.sft))

(* The same with SHD_PACK_SIZE: the addend is kept in the divisor.         *)
MRPacked(n) ==
  LET d == MR(n)
  IN  IF n = 0 THEN [val |-> 0, fac |-> 0, sft |-> 0, tip |-> 0]
      ELSE IF d.ab
      THEN [val |-> n, sft |-> d.sft, fac |-> (d.fac + 1) % Word, tip |-> 0]
      ELSE [val |-> n, sft |-> d.sft, fac |-> d.fac, tip |-> d.fac]

MRPackedDiv(d, m) ==
  ((d.fac * m + d.tip) % Double) \div (Word * (2 ^ d.sft))

(* m - m_val * div(m)                                                      *)
MRMod(d, m) == (m - d.val * MRDiv(d, m)) % Word

(* FastDiv32 and FastDiv64: a power of two is shifted; else the two halves *)
(* of the product are added to with a carry.                               *)
FastDiv(n) ==
  [divisor |-> n, shift |-> Shift(n),
   factor |-> IF 2 ^ Shift(n) = n THEN 0 ELSE ((2 ^ Shift(n)) * Word) \div n,
   mode |-> IF 2 ^ Shift(n) = n THEN "DIVIDE_POWER_OF_TWO"
            ELSE IF RoundsUp(n) THEN "DIVIDE_ADD_NUMERATOR"
            ELSE "DIVIDE_ADD_FACTOR"]

FastDivDiv(d, m) ==
  LET low == (d.factor * m) % Word
      sum == (low + (IF d.mode = "DIVIDE_ADD_NUMERATOR" THEN m
                     ELSE d.factor)) % Word
      high == (d.factor * m) \div Word + (IF sum < low THEN 1 ELSE 0)
  IN  IF d.mode = "DIVIDE_POWER_OF_TWO" THEN m \div (2 ^ d.shift)
      ELSE (high % Word) \div (2 ^ d.shift)

FastDivMod(d, m) == (m - FastDivDiv(d, m) * d.divisor) % Word

(* Each of them divides every word by n.                                   *)
AllExact(n) ==
  LET lkk == LKK(n)  mr == MR(n)  packed == MRPacked(n)  fast == FastDiv(n)
  IN  \A m \in Words :
        /\ LKKDiv(lkk, m) = m \div n /\ LKKMod(lkk, m) = m % n
        /\ MRDiv(mr, m) = m \div n /\ MRMod(mr, m) = m % n
        /\ MRPackedDiv(packed, m) = m \div n
        /\ FastDivDiv(fast, m) = m \div n /\ FastDivMod(fast, m) = m % n

============================================================================
