--------------------------- MODULE DivisorProofs ---------------------------
(***************************************************************************)
(* Proofs about module Divisor, for every width of a word, about module    *)
(* FirstLevel, for every size of the curve, and about module Bloom, for    *)
(* any keys, any hashes, any capacities and any cuts of a file: the block  *)
(* of a key is a remainder because the division is exact.                  *)
(***************************************************************************)
EXTENDS Bloom, FirstLevel, FiniteSetTheorems, WellFoundedInduction,
        TLAPS

----------------------------------------------------------------------------
(* A dividend is made up of quotient and remainder.                        *)
LEMMA QuotientExists ==
  ASSUME NEW a \in Int, NEW b \in Nat \ {0}
  PROVE  /\ a \div b \in Int /\ a % b \in 0 .. b - 1
         /\ a = b * (a \div b) + (a % b)
  BY SMT

(* Quotient and remainder are the only numbers that make up the dividend.  *)
LEMMA QuotientUnique ==
  ASSUME NEW a \in Int, NEW b \in Nat \ {0}, NEW q \in Int, NEW r \in 0 .. b - 1,
         a = q * b + r
  PROVE  a \div b = q /\ a % b = r
<1> DEFINE p == a \div b  s == a % b
<1>1. p \in Int /\ s \in 0 .. b - 1 /\ a = b * p + s
  BY SMT
<1> HIDE DEF p, s
<1>2. b * (q - p) = s - r
  <2>1. q * b + r = b * p + s
    BY <1>1
  <2>2. b * (q - p) = b * q - b * p /\ q * b = b * q
    BY <1>1, SMT
  <2> QED BY <1>1, <2>1, <2>2, SMT
<1>3. q - p = 0
  <2>1. CASE q - p >= 1
    <3>1. b * (q - p) >= b
      BY <1>1, <2>1, SMT
    <3> QED BY <1>1, <1>2, <3>1, SMT
  <2>2. CASE q - p <= -1
    <3>1. b * (q - p) <= -b
      BY <1>1, <2>2, SMT
    <3> QED BY <1>1, <1>2, <3>1, SMT
  <2> QED BY <1>1, <2>1, <2>2, SMT
<1>4. q = p /\ r = s
  <2>1. q = p
    BY <1>1, <1>3, SMT
  <2>2. b * (q - p) = 0
    BY <1>1, <1>3, SMT
  <2> QED BY <1>1, <1>2, <2>1, <2>2, SMT
<1> QED BY <1>4 DEF p, s

(* A quotient is below a bound when the dividend is below its multiple.    *)
LEMMA QuotientBelow ==
  ASSUME NEW a \in Nat, NEW b \in Nat \ {0}, NEW n \in Nat
  PROVE  /\ a < n * b => a \div b < n
         /\ a <= n * b => a \div b <= n
<1> DEFINE q == a \div b  r == a % b
<1>1. q \in Int /\ r \in 0 .. b - 1 /\ a = b * q + r
  BY SMT
<1> HIDE DEF q, r
<1>2. ASSUME q >= n + 1 PROVE b * q >= n * b + b
  <2>1. b * (q - (n + 1)) >= 0
    BY <1>1, <1>2, SMT
  <2>2. b * (q - (n + 1)) = b * q - (n * b + b)
    BY <1>1, SMT
  <2> QED BY <1>1, <2>1, <2>2, SMT
<1>3. ASSUME q >= n PROVE b * q >= n * b
  <2>1. b * (q - n) >= 0
    BY <1>1, <1>3, SMT
  <2>2. b * (q - n) = b * q - n * b
    BY <1>1, SMT
  <2> QED BY <1>1, <2>1, <2>2, SMT
<1>4. n * b \in Int /\ b * q \in Int
  BY <1>1, SMT
<1>5. /\ a < n * b => q < n
      /\ a <= n * b => q <= n
  BY <1>1, <1>2, <1>3, <1>4, SMT
<1> QED BY <1>5 DEF q

----------------------------------------------------------------------------
LEMMA DoublePositive == Word > 1 /\ Double \in Nat /\ Double >= 2 * Word
BY WordAssumption, SMT DEF Double

(* The factor of Lemire, Kaser and Kurz is a quotient rounded up: e is     *)
(* what it has too much, less than n.                                      *)
LEMMA FactorRoundedUp ==
  ASSUME NEW n \in Words, n > 1
  PROVE  \E c \in 1 .. Double - 1, e \in 0 .. n - 1 :
           /\ LKK(n).fac = c
           /\ c * n = Double + e
<1> DEFINE q == (Double - 1) \div n  s == (Double - 1) % n
<1>0. n \in Nat \ {0} /\ Double \in Nat /\ Double > 2 * n
  BY DoublePositive, WordAssumption, SMT DEF Words
<1>1. q \in Int /\ s \in 0 .. n - 1 /\ Double - 1 = n * q + s
  BY <1>0, SMT
<1>2. LKK(n).fac = (q + 1) % Double
  BY <1>0 DEF LKK
<1> HIDE DEF q, s
<1>3. q >= 1
  <2>1. ASSUME q <= 0 PROVE FALSE
    <3>1. n * q <= 0
      BY <1>0, <1>1, <2>1, SMT
    <3> QED BY <1>0, <1>1, <3>1, SMT
  <2> QED BY <1>1, <2>1, SMT
<1>4. q + 1 < Double
  <2>1. n * q >= 2 * q
    BY <1>0, <1>1, <1>3, SMT
  <2> QED BY <1>0, <1>1, <1>3, <2>1, SMT
<1>5. (q + 1) % Double = q + 1
  BY <1>0, <1>1, <1>3, <1>4, SMT
<1>6. (q + 1) * n = Double + (n - 1 - s)
  <2>1. (q + 1) * n = n * q + n
    BY <1>0, <1>1, SMT
  <2> QED BY <1>0, <1>1, <2>1, SMT
<1>7. q + 1 \in 1 .. Double - 1 /\ n - 1 - s \in 0 .. n - 1
  BY <1>0, <1>1, <1>3, <1>4, SMT
<1> QED BY <1>2, <1>5, <1>6, <1>7

(* Division of any word by any other but zero, by a multiplication with    *)
(* the factor, is exact, and so is the remainder, in every width: the one  *)
(* of 16 bits chooses the piece of a key when a table is built and when it *)
(* is read (utils.h:282-330).                                              *)
THEOREM LKKExact ==
  ASSUME NEW n \in Words, n # 0, NEW m \in Words
  PROVE  /\ LKKDiv(LKK(n), m) = m \div n
         /\ LKKMod(LKK(n), m) = m % n
<1>0. /\ n \in Nat \ {0} /\ m \in Nat /\ Double \in Nat \ {0}
      /\ n < Word /\ m < Word /\ LKK(n).val = n
  BY DoublePositive, WordAssumption, SMT DEF Words, LKK
<1>1. CASE n = 1
  <2>1. (Double - 1) \div 1 + 1 = Double /\ Double % Double = 0
    BY <1>0, SMT
  <2>2. LKK(n).fac = 0
    BY <1>1, <2>1 DEF LKK
  <2>3. m * 0 = 0 /\ 0 % Double = 0 /\ n * 0 = 0 /\ 0 \div Double = 0
    BY <1>0, SMT
  <2>4. m \div 1 = m /\ m % 1 = 0
    BY <1>0, SMT
  <2> QED BY <1>0, <1>1, <2>2, <2>3, <2>4 DEF LKKDiv, LKKMod
<1>2. CASE n > 1
  <2>1. PICK c \in 1 .. Double - 1, e \in 0 .. n - 1 :
          LKK(n).fac = c /\ c * n = Double + e
    BY <1>2, FactorRoundedUp
  <2> DEFINE q == m \div n  r == m % n  x == q * e + r * c
  <2>2. q \in Int /\ r \in 0 .. n - 1 /\ m = n * q + r
    BY <1>0, SMT
  <2> HIDE DEF q, r
  <2>3. q >= 0
    <3>1. ASSUME q <= -1 PROVE FALSE
      <4>1. n * q <= -n
        BY <1>0, <2>2, <3>1, SMT
      <4> QED BY <1>0, <2>2, <4>1, SMT
    <3> QED BY <2>2, <3>1, SMT
  \* the product is q times Double, and a rest below Double
  <2>4. m * c = q * Double + x
    <3>1. m * c = q * (c * n) + r * c
      BY <1>0, <2>1, <2>2, SMT
    <3>2. q * (Double + e) = q * Double + q * e
      BY <1>0, <2>1, <2>2, SMT
    <3> QED BY <1>0, <2>1, <2>2, <3>1, <3>2, SMT
  <2>5. n * x = m * e + r * Double
    <3>1. n * x = (n * q) * e + r * (c * n)
      BY <1>0, <2>1, <2>2, SMT
    <3>2. r * (Double + e) = r * Double + r * e
      BY <1>0, <2>1, <2>2, SMT
    <3>3. (n * q + r) * e = (n * q) * e + r * e
      BY <1>0, <2>1, <2>2, SMT
    <3> QED BY <1>0, <2>1, <2>2, <3>1, <3>2, <3>3, SMT
  <2>6. 0 <= m * e /\ m * e < Double
    <3>1. m * e <= (Word - 1) * (Word - 1)
      <4>1. m * e <= m * (Word - 1)
        BY <1>0, <2>1, WordAssumption, SMT
      <4>2. m * (Word - 1) <= (Word - 1) * (Word - 1)
        BY <1>0, WordAssumption, SMT
      <4> QED BY <1>0, <2>1, <4>1, <4>2, WordAssumption, SMT
    <3>2. (Word - 1) * (Word - 1) < Word * Word
      BY WordAssumption, SMT
    <3>3. 0 <= m * e
      BY <1>0, <2>1, SMT
    <3> QED BY <1>0, <2>1, <3>1, <3>2, <3>3, WordAssumption, SMT DEF Double
  <2>7. x \in 0 .. Double - 1
    <3>1. x \in Int /\ x >= 0
      BY <1>0, <2>1, <2>2, <2>3, SMT
    <3>2. n * x < n * Double
      <4>1. (r + 1) * Double <= n * Double
        BY <1>0, <2>2, SMT
      <4>2. (r + 1) * Double = r * Double + Double
        BY <1>0, <2>2, SMT
      <4> QED BY <1>0, <2>1, <2>2, <2>5, <2>6, <4>1, <4>2, SMT
    <3>3. ASSUME x >= Double PROVE FALSE
      <4>1. n * x >= n * Double
        BY <1>0, <3>1, <3>3, SMT
      <4> HIDE DEF x
      <4> QED BY <1>0, <3>1, <3>2, <4>1, SMT
    <3> HIDE DEF x
    <3> QED BY <1>0, <3>1, <3>3, SMT
  <2>8. (m * c) \div Double = q /\ (m * c) % Double = x
    <3>1. m * c \in Int
      BY <1>0, <2>1, SMT
    <3> HIDE DEF x
    <3> QED BY <1>0, <2>2, <2>4, <2>7, <3>1, QuotientUnique
  <2>9. (n * x) \div Double = r
    <3>1. m * e \in 0 .. Double - 1 /\ n * x \in Int
      BY <1>0, <2>1, <2>6, <2>7, SMT
    <3>2. n * x = r * Double + m * e
      BY <1>0, <2>1, <2>2, <2>5, <3>1, SMT
    <3> HIDE DEF x
    <3> QED BY <1>0, <2>2, <3>1, <3>2, QuotientUnique
  <2>10. LKKDiv(LKK(n), m) = q
    BY <1>0, <2>1, <2>8 DEF LKKDiv
  <2>11. LKKMod(LKK(n), m) = r
    BY <1>0, <2>1, <2>8, <2>9 DEF LKKMod
  <2> QED BY <2>10, <2>11 DEF q, r
<1> QED BY <1>0, <1>1, <1>2

----------------------------------------------------------------------------
(* Powers of two.                                                          *)

(* A set of natural numbers that is not empty has a least element.         *)
LEMMA LeastNumber ==
  ASSUME NEW T \in SUBSET Nat, T # {}
  PROVE  \E m \in T : \A k \in T : m <= k
<1> DEFINE R == OpToRel(<, Nat)
<1>1. IsWellFoundedOn(R, Nat)
  BY NatLessThanWellFounded
<1>2. \A k, m \in Nat : <<k, m>> \in R <=> k < m
  BY DEF OpToRel
<1> HIDE DEF R
<1>3. PICK m \in T : \A k \in T : ~ (<<k, m>> \in R)
  BY <1>1, WFMin
<1>4. ASSUME NEW k \in T
      PROVE  m <= k
  <2>1. k \in Nat /\ m \in Nat /\ ~ (k < m)
    BY <1>2, <1>3, <1>4
  <2> QED BY <2>1
<1> QED BY <1>4

LEMMA PowerFacts ==
  /\ Bits \in Nat \ {0} /\ Word = 2 ^ Bits
  /\ \A i \in Nat : i = 0 => 2 ^ i = 1
  /\ \A i \in 0 .. Bits : 2 ^ i \in Nat \ {0}
  /\ \A i \in 0 .. Bits - 1 : 2 ^ (i + 1) = 2 * 2 ^ i
<1>1. Bits \in Nat \ {0} /\ Word = 2 ^ Bits
  BY WordAssumption
<1>2. \A i \in Nat : i = 0 => 2 ^ i = 1
  <2>1. 2 ^ 0 = 1
    BY SMT
  <2> QED BY <2>1, Zenon
<1>3. ASSUME NEW i \in 0 .. Bits - 1
      PROVE  2 ^ (i + 1) = 2 * 2 ^ i
  <2>1. i + 1 \in 0 .. Bits /\ i + 1 > 0 /\ (i + 1) - 1 = i
    BY <1>1
  <2>2. 2 ^ (i + 1) = 2 * 2 ^ ((i + 1) - 1)
    BY <2>1, PowerAssumption
  <2> QED BY <2>1, <2>2
<1> QED BY <1>1, <1>2, <1>3, PowerAssumption

(* The shift is that of the highest bit.                                   *)
LEMMA ShiftIs ==
  ASSUME NEW n \in Words, n # 0
  PROVE  /\ Shift(n) \in 0 .. Bits - 1
         /\ 2 ^ Shift(n) \in Nat \ {0}
         /\ 2 ^ Shift(n) <= n /\ n < 2 * 2 ^ Shift(n)
<1>1. n \in Nat /\ n >= 1 /\ n < Word
  BY WordAssumption DEF Words
<1> DEFINE T == {j \in 0 .. Bits : n < 2 ^ j}
<1>2. Bits \in T /\ T \in SUBSET Nat
  BY <1>1, PowerFacts
<1>3. PICK j \in T : \A k \in T : j <= k
  BY <1>2, LeastNumber
<1>4. j \in 0 .. Bits /\ n < 2 ^ j /\ j # 0
  BY <1>1, <1>3, PowerFacts
<1>5. /\ j - 1 \in 0 .. Bits - 1 /\ j - 1 \in 0 .. Bits
      /\ (j - 1) + 1 = j /\ ~ (j - 1 \in T)
  BY <1>3, <1>4, PowerFacts
<1>6. 2 ^ (j - 1) \in Nat /\ ~ (n < 2 ^ (j - 1))
  BY <1>5, PowerFacts
<1>7. 2 ^ (j - 1) <= n /\ n < 2 ^ ((j - 1) + 1)
  BY <1>1, <1>4, <1>5, <1>6
<1>8. /\ Shift(n) \in 0 .. Bits - 1
      /\ 2 ^ Shift(n) <= n /\ n < 2 ^ (Shift(n) + 1)
  BY <1>5, <1>7 DEF Shift
<1>9. Shift(n) \in 0 .. Bits
  BY <1>8, PowerFacts
<1> QED BY <1>8, <1>9, PowerFacts

LEMMA EvenFactor ==
  ASSUME NEW a \in Nat, NEW b \in Nat, NEW p \in Nat, a * b = 2 * p
  PROVE  (\E h \in Nat : a = 2 * h) \/ (\E h \in Nat : b = 2 * h)
<1>1. PICK g \in Nat : a = 2 * g \/ a = 2 * g + 1
  <2>1. a \div 2 \in Nat /\ (a = 2 * (a \div 2) \/ a = 2 * (a \div 2) + 1)
    BY SMT
  <2> QED BY <2>1
<1>2. PICK h \in Nat : b = 2 * h \/ b = 2 * h + 1
  <2>1. b \div 2 \in Nat /\ (b = 2 * (b \div 2) \/ b = 2 * (b \div 2) + 1)
    BY SMT
  <2> QED BY <2>1
<1>3. ASSUME a = 2 * g + 1, b = 2 * h + 1
      PROVE  FALSE
  <2>1. a * b = 2 * (2 * (g * h) + g + h) + 1
    BY <1>3, SMT
  <2>2. g * h \in Nat
    BY SMT
  <2> QED BY <2>1, <2>2, SMT
<1> QED BY <1>1, <1>2, <1>3

(* A number between two powers of two divides no product of two powers of  *)
(* two.                                                                    *)
LEMMA NotADivisor ==
  ASSUME NEW i \in 0 .. Bits - 1, NEW n \in Nat, 2 ^ i < n, n < 2 ^ (i + 1),
         NEW s \in 0 .. Bits, NEW t \in 0 .. Bits, NEW f \in Nat
  PROVE  f * n # 2 ^ s * 2 ^ t
<1> DEFINE Bad(k, ii, nn, ss, tt, ff) ==
             /\ 2 ^ ii < nn /\ nn < 2 ^ (ii + 1)
             /\ k = ss + tt /\ ff * nn = 2 ^ ss * 2 ^ tt
           T == {k \in Nat : \E ii \in 0 .. Bits - 1, nn \in Nat,
                                ss \in 0 .. Bits, tt \in 0 .. Bits,
                                ff \in Nat :
                               Bad(k, ii, nn, ss, tt, ff)}
<1>0. Bits \in Nat \ {0}
  BY PowerFacts
<1> SUFFICES ASSUME f * n = 2 ^ s * 2 ^ t
             PROVE  FALSE
  OBVIOUS
<1>1. T # {}
  <2>1. s + t \in Nat /\ Bad(s + t, i, n, s, t, f)
    BY <1>0
  <2>2. s + t \in T
    BY <2>1
  <2> QED BY <2>2
<1>2. T \in SUBSET Nat
  OBVIOUS
<1>3. PICK k \in T : \A l \in T : k <= l
  BY <1>1, <1>2, LeastNumber
<1>4. PICK ii \in 0 .. Bits - 1, nn \in Nat, ss \in 0 .. Bits,
           tt \in 0 .. Bits, ff \in Nat : Bad(k, ii, nn, ss, tt, ff)
  BY <1>3
<1> HIDE DEF T, Bad
<1>5. /\ 2 ^ ii < nn /\ nn < 2 ^ (ii + 1)
      /\ k = ss + tt /\ ff * nn = 2 ^ ss * 2 ^ tt
      /\ ii \in Nat /\ ss \in Nat /\ tt \in Nat
      /\ 2 ^ ii \in Nat \ {0} /\ 2 ^ ss \in Nat \ {0} /\ 2 ^ tt \in Nat \ {0}
      /\ 2 ^ (ii + 1) = 2 * 2 ^ ii
  BY <1>0, <1>4, PowerFacts DEF Bad
<1>6. ASSUME NEW jj \in 0 .. Bits - 1, NEW mm \in Nat, NEW uu \in 0 .. Bits,
             NEW vv \in 0 .. Bits, NEW gg \in Nat,
             2 ^ jj < mm, mm < 2 ^ (jj + 1),
             uu + vv = k - 1, gg * mm = 2 ^ uu * 2 ^ vv
      PROVE  FALSE
  <2>1. k - 1 \in Nat /\ ~ (k <= k - 1)
    BY <1>2, <1>3, <1>6
  <2>2. Bad(k - 1, jj, mm, uu, vv, gg)
    BY <1>6 DEF Bad
  <2>3. k - 1 \in T
    BY <1>6, <2>1, <2>2 DEF T
  <2> QED BY <1>3, <2>1, <2>3
<1>7. CASE ss = 0 /\ tt = 0
  <2>1. ff * nn = 1
    BY <1>5, <1>7, PowerFacts
  <2>2. nn >= 2
    BY <1>5
  <2>3. ff # 0 => ff * nn >= nn
    BY <1>5
  <2>4. ff = 0 => ff * nn = 0
    BY <1>5
  <2> QED BY <2>1, <2>2, <2>3, <2>4
<1>8. CASE ss # 0 \/ tt # 0
  <2>1. \E uu, vv \in 0 .. Bits : /\ uu + vv = k - 1
                                  /\ 2 ^ ss * 2 ^ tt = 2 * (2 ^ uu * 2 ^ vv)
    <3>1. CASE ss # 0
      <4>1. /\ ss - 1 \in 0 .. Bits /\ ss - 1 \in 0 .. Bits - 1
            /\ (ss - 1) + 1 = ss /\ (ss - 1) + tt = k - 1
        BY <1>0, <1>5, <3>1
      <4>2. 2 ^ ss = 2 * 2 ^ (ss - 1) /\ 2 ^ (ss - 1) \in Nat
        BY <4>1, PowerFacts
      <4>3. (2 * 2 ^ (ss - 1)) * 2 ^ tt = 2 * (2 ^ (ss - 1) * 2 ^ tt)
        BY <1>5, <4>2, SMT
      <4> QED BY <4>1, <4>2, <4>3
    <3>2. CASE tt # 0
      <4>1. /\ tt - 1 \in 0 .. Bits /\ tt - 1 \in 0 .. Bits - 1
            /\ (tt - 1) + 1 = tt /\ ss + (tt - 1) = k - 1
        BY <1>0, <1>5, <3>2
      <4>2. 2 ^ tt = 2 * 2 ^ (tt - 1) /\ 2 ^ (tt - 1) \in Nat
        BY <4>1, PowerFacts
      <4>3. 2 ^ ss * (2 * 2 ^ (tt - 1)) = 2 * (2 ^ ss * 2 ^ (tt - 1))
        BY <1>5, <4>2, SMT
      <4> QED BY <4>1, <4>2, <4>3
    <3> QED BY <1>8, <3>1, <3>2
  <2>2. PICK uu \in 0 .. Bits, vv \in 0 .. Bits :
          uu + vv = k - 1 /\ 2 ^ ss * 2 ^ tt = 2 * (2 ^ uu * 2 ^ vv)
    BY <2>1
  <2> DEFINE p == 2 ^ uu * 2 ^ vv
  <2>3. p \in Nat /\ ff * nn = 2 * p
    <3>1. 2 ^ uu \in Nat /\ 2 ^ vv \in Nat
      BY PowerFacts
    <3> QED BY <1>5, <2>2, <3>1, SMT
  <2>4. \/ \E h \in Nat : ff = 2 * h
        \/ \E h \in Nat : nn = 2 * h
    BY <2>3, EvenFactor
  <2>5. ASSUME NEW h \in Nat, ff = 2 * h
        PROVE  FALSE
    <3>1. h * nn = p
      <4> HIDE DEF p
      <4>1. ff * nn = 2 * (h * nn) /\ h * nn \in Nat
        BY <2>5, SMT
      <4> QED BY <2>3, <4>1
    <3> QED BY <1>5, <1>6, <2>2, <3>1
  <2>6. ASSUME NEW h \in Nat, nn = 2 * h
        PROVE  FALSE
    <3>1. ff * h = p
      <4> HIDE DEF p
      <4>1. ff * nn = 2 * (ff * h) /\ ff * h \in Nat
        BY <2>6, SMT
      <4> QED BY <2>3, <4>1
    <3>2. ii # 0
      <4>1. ii = 0 => 1 < nn /\ nn < 2
        BY <1>5, PowerFacts
      <4> QED BY <4>1
    <3>3. /\ ii - 1 \in 0 .. Bits - 1 /\ ii - 1 \in 0 .. Bits
          /\ (ii - 1) + 1 = ii
      BY <1>0, <1>5, <3>2
    <3>4. 2 ^ ii = 2 * 2 ^ (ii - 1) /\ 2 ^ (ii - 1) \in Nat
      BY <3>3, PowerFacts
    <3>5. 2 ^ (ii - 1) < h /\ h < 2 ^ ((ii - 1) + 1)
      BY <1>5, <2>6, <3>3, <3>4
    <3> QED BY <1>6, <2>2, <3>1, <3>3, <3>5
  <2> QED BY <2>4, <2>5, <2>6
<1> QED BY <1>5, <1>7, <1>8

----------------------------------------------------------------------------
(* Robison's division.                                                     *)

LEMMA Products ==
  ASSUME NEW a \in Int, NEW b \in Int
  PROVE  a * b \in Int /\ a * b = b * a
BY SMT

LEMMA WithinModulus ==
  ASSUME NEW w \in Nat \ {0}, NEW a \in 0 .. w - 1
  PROVE  a % w = a
<1>1. a \in Int /\ 0 \in Int /\ a = 0 * w + a
  BY SMT
<1> QED BY <1>1, QuotientUnique

LEMMA TimesNext ==
  ASSUME NEW n \in Nat, NEW f \in Nat, NEW x \in Nat
  PROVE  n * (f * x + f) = (f * n) * (x + 1)
BY SMT

(* A product that is K times x, and less than K more, divided by n.        *)
LEMMA Scaled ==
  ASSUME NEW n \in Nat \ {0}, NEW K \in Nat \ {0}, NEW q \in Int,
         NEW r \in 0 .. n - 1, NEW p \in Int, NEW z \in 0 .. K - 1,
         n * p = K * (n * q + r) + z
  PROVE  p \div K = q
<1> DEFINE y == p - q * K
<1>1. y \in Int /\ p = q * K + y
  BY SMT
<1>2. n * y = K * r + z
  <2>1. n * y = n * p - n * (q * K)
    BY SMT
  <2>2. K * (n * q + r) = n * (q * K) + K * r
    BY SMT
  <2>3. n * (q * K) \in Int /\ K * r \in Int /\ n * p \in Int
    BY SMT
  <2> HIDE DEF y
  <2> QED BY <2>1, <2>2, <2>3, SMT
<1> HIDE DEF y
<1>3. K * r >= 0 /\ K * (r + 1) <= K * n /\ K * (r + 1) = K * r + K
  BY SMT
<1>4. 0 <= n * y /\ n * y < n * K
  <2>1. K * r \in Int /\ K * n \in Int /\ K * n = n * K
    BY SMT
  <2> QED BY <1>2, <1>3, <2>1, SMT
<1>5. y >= 0
  <2>1. y <= -1 => n * y <= -n
    BY <1>1, SMT
  <2>2. n * y \in Int
    BY <1>1, SMT
  <2> QED BY <1>1, <1>4, <2>1, <2>2, SMT
<1>6. y < K
  <2>1. y >= K => n * y >= n * K
    BY <1>1, SMT
  <2>2. n * y \in Int /\ n * K \in Int
    BY <1>1, SMT
  <2> QED BY <1>1, <1>4, <2>1, <2>2, SMT
<1>7. y \in 0 .. K - 1
  BY <1>1, <1>5, <1>6
<1> QED BY <1>1, <1>7, QuotientUnique

(* Two divisions, one after the other, divide by the product.              *)
LEMMA Nested ==
  ASSUME NEW W \in Nat \ {0}, NEW m \in Nat \ {0}, NEW h \in Nat,
         NEW l \in 0 .. W - 1, NEW p, p = W * h + l
  PROVE  p \div (W * m) = h \div m
<1> DEFINE q == h \div m  r == h % m
<1>1. q \in Int /\ r \in 0 .. m - 1 /\ h = m * q + r
  BY SMT
<1> HIDE DEF q, r
<1>2. p = q * (W * m) + (W * r + l)
  <2>1. W * h = q * (W * m) + W * r
    BY <1>1, SMT
  <2>2. W * h \in Int /\ q * (W * m) \in Int /\ W * r \in Int
    BY <1>1, SMT
  <2> QED BY <2>1, <2>2, SMT
<1>3. W * r + l \in 0 .. W * m - 1
  <2>1. W * r >= 0 /\ W * (r + 1) <= W * m /\ W * (r + 1) = W * r + W
    BY <1>1, SMT
  <2>2. W * r \in Int /\ W * m \in Int
    BY <1>1, SMT
  <2> QED BY <2>1, <2>2, SMT
<1>4. W * m \in Nat \ {0} /\ p \in Int
  <2>1. W * m \in Nat \ {0} /\ W * h \in Int
    BY SMT
  <2> QED BY <2>1
<1>5. p \div (W * m) = q
  BY <1>1, <1>2, <1>3, <1>4, QuotientUnique
<1> QED BY <1>5 DEF q

(* The quotient and the remainder of a dividend.                           *)
LEMMA Divided ==
  ASSUME NEW x \in Nat, NEW n \in Nat \ {0}
  PROVE  /\ x \div n \in Nat /\ x % n \in 0 .. n - 1
         /\ x = n * (x \div n) + (x % n)
<1> DEFINE q == x \div n  r == x % n
<1>1. q \in Int /\ r \in 0 .. n - 1 /\ x = n * q + r
  BY SMT
<1>2. q >= 0
  <2> HIDE DEF q, r
  <2>1. q <= -1 => n * q <= -n
    BY <1>1, SMT
  <2>2. n * q \in Int
    BY <1>1, SMT
  <2> QED BY <1>1, <2>1, <2>2, SMT
<1> QED BY <1>1, <1>2

(* The factor of a number that is no power of two is a quotient rounded    *)
(* down; e is what it lacks.  It is rounded up when what it has too much   *)
(* then is no more than the power of two below.                            *)
LEMMA FactorRoundedDown ==
  ASSUME NEW n \in Words, n # 0, NEW m, m = 2 ^ Shift(n), m # n,
         NEW f, f = (m * Word) \div n
  PROVE  /\ f \in 1 .. Word - 1
         /\ \E e \in 1 .. n - 1 : /\ f * n = m * Word - e
                                  /\ RoundsUp(n) <=> n - e <= m
         /\ RoundsUp(n) => f + 1 <= Word - 1
<1>1. /\ Shift(n) \in 0 .. Bits - 1 /\ m \in Nat \ {0}
      /\ m < n /\ n < 2 * m /\ n \in Nat \ {0} /\ n < Word
      /\ Word \in Nat \ {0}
  <2>1. n \in Nat \ {0} /\ n < Word /\ Word \in Nat \ {0}
    BY WordAssumption DEF Words
  <2> QED BY <2>1, ShiftIs
<1> DEFINE a == m * Word  r == a % n
<1>2. a \in Nat
  BY <1>1, SMT
<1>3. f \in Nat /\ r \in 0 .. n - 1 /\ a = n * f + r
  BY <1>1, <1>2, Divided
<1> HIDE DEF r, a
<1>4. r # 0
  <2>1. Shift(n) \in 0 .. Bits /\ Bits \in 0 .. Bits /\ m < n
        /\ n < 2 ^ (Shift(n) + 1)
    BY <1>1, PowerFacts
  <2>2. f * n # 2 ^ Shift(n) * 2 ^ Bits
    BY <1>1, <1>3, <2>1, NotADivisor
  <2>3. f * n # a
    BY <2>2, PowerFacts DEF a
  <2>4. f \in Int /\ n \in Int
    BY <1>1, <1>3
  <2>5. f * n = n * f /\ n * f \in Int
    BY <2>4, Products, Zenon
  <2> QED BY <1>3, <2>3, <2>5
<1>5. f * n = a - r /\ f * n \in Int
  <2>1. f * n = n * f /\ n * f \in Int
    BY <1>1, <1>3, Products
  <2> QED BY <1>2, <1>3, <2>1
<1>6. f # 0
  <2>1. m * Word >= Word
    BY <1>1, SMT
  <2>2. f = 0 => f * n = 0
    BY <1>1
  <2> QED BY <1>1, <1>2, <1>3, <1>5, <2>1, <2>2 DEF a
<1>7. f < Word
  <2>1. f >= Word => f * n >= Word * n
    BY <1>1, <1>3, SMT
  <2>2. Word * n > Word * m
    BY <1>1, SMT
  <2>3. a = Word * m /\ Word * n \in Int /\ Word * m \in Int
    BY <1>1, SMT DEF a
  <2> QED BY <1>1, <1>3, <1>5, <2>1, <2>2, <2>3
<1>8. (f * n) % Word = Word - r
  <2>1. f * n = (m - 1) * Word + (Word - r)
    <3>1. m * Word = (m - 1) * Word + Word
      BY <1>1, SMT
    <3>2. (m - 1) * Word \in Int
      BY <1>1, SMT
    <3> QED BY <1>1, <1>3, <1>5, <3>1, <3>2 DEF a
  <2>2. Word - r \in 0 .. Word - 1 /\ m - 1 \in Int
    BY <1>1, <1>3, <1>4
  <2> QED BY <1>1, <1>5, <2>1, <2>2, QuotientUnique
<1>9. ((Word - r) + n) % Word = n - r
  <2>1. (Word - r) + n = 1 * Word + (n - r)
    BY <1>1, <1>3
  <2>2. n - r \in 0 .. Word - 1 /\ (Word - r) + n \in Int /\ 1 \in Int
    BY <1>1, <1>3, <1>4
  <2> QED BY <1>1, <2>1, <2>2, QuotientUnique
<1>10. RoundsUp(n) <=> n - r <= m
  <2>1. RoundsUp(n) <=> (((f * n) % Word) + n) % Word <= m
    BY DEF RoundsUp
  <2> QED BY <1>8, <1>9, <2>1
<1>11. RoundsUp(n) => f + 1 <= Word - 1
  <2>1. f = Word - 1 => f * n = Word * n - n
    BY <1>1, SMT
  <2>2. Word * n >= Word * (m + 1) /\ Word * (m + 1) = m * Word + Word
    BY <1>1, SMT
  <2>3. Word * n \in Int /\ m * Word \in Int
    BY <1>1, SMT
  <2>4. n - r <= m => f # Word - 1
    BY <1>1, <1>3, <1>5, <2>1, <2>2, <2>3 DEF a
  <2> QED BY <1>1, <1>3, <1>7, <1>10, <2>4
<1>12. r \in 1 .. n - 1 /\ f \in 1 .. Word - 1
  BY <1>1, <1>3, <1>4, <1>6, <1>7
<1> QED BY <1>5, <1>10, <1>11, <1>12 DEF a

(* The fields of the divisor.                                              *)
LEMMA RobisonFields ==
  ASSUME NEW n \in Words, n # 0
  PROVE  /\ MR(n).val = n /\ MR(n).sft = Shift(n) /\ MR(n).ab = RoundsUp(n)
         /\ MR(n).fac = IF 2 ^ Shift(n) = n THEN Word - 1
                        ELSE ((2 ^ Shift(n)) * Word) \div n
         /\ RoundsUp(n) \in BOOLEAN
         /\ 2 ^ Shift(n) = n => ~ RoundsUp(n)
<1>1. RoundsUp(n) \in BOOLEAN /\ (2 ^ Shift(n) = n => ~ RoundsUp(n))
  BY DEF RoundsUp
<1>2. MR(n) = [val |-> n, sft |-> Shift(n), ab |-> RoundsUp(n),
               fac |-> IF 2 ^ Shift(n) = n THEN Word - 1
                       ELSE ((2 ^ Shift(n)) * Word) \div n]
  BY DEF MR
<1> QED BY <1>1, <1>2

(* The sum of the product and the addend does not leave the double word,   *)
(* and its high bits are the quotient.                                     *)
LEMMA RobisonSum ==
  ASSUME NEW n \in Words, n # 0, NEW x \in Words,
         NEW f, f = MR(n).fac,
         NEW b, b = (IF RoundsUp(n) THEN x ELSE f)
  PROVE  /\ f \in 0 .. Word - 1 /\ b \in 0 .. Word - 1
         /\ RoundsUp(n) => f + 1 <= Word - 1
         /\ f * x + b \in 0 .. Double - 1
         /\ (f * x + b) \div (Word * (2 ^ Shift(n))) = x \div n
<1> DEFINE m == 2 ^ Shift(n)
           K == Word * m
           q == x \div n
           r == x % n
<1>1. /\ n \in Nat \ {0} /\ n < Word /\ x \in Nat /\ x < Word
      /\ Word \in Nat \ {0} /\ m \in Nat \ {0} /\ m <= n /\ n < 2 * m
  <2>1. /\ n \in Nat \ {0} /\ n < Word /\ Word \in Nat \ {0}
        /\ x \in Nat /\ x < Word
    BY WordAssumption DEF Words
  <2> QED BY <2>1, ShiftIs
<1>2. q \in Nat /\ r \in 0 .. n - 1 /\ x = n * q + r
  BY <1>1, Divided
<1>3. f = IF m = n THEN Word - 1 ELSE (m * Word) \div n
  BY RobisonFields
<1>4. m = n => ~ RoundsUp(n)
  BY RobisonFields
<1>5. m # n => /\ f \in 1 .. Word - 1
               /\ \E e \in 1 .. n - 1 : /\ f * n = m * Word - e
                                        /\ RoundsUp(n) <=> n - e <= m
               /\ RoundsUp(n) => f + 1 <= Word - 1
  BY <1>3, FactorRoundedDown
<1> HIDE DEF m, q, r
<1>6. f \in 0 .. Word - 1 /\ b \in 0 .. Word - 1
      /\ (RoundsUp(n) => f + 1 <= Word - 1)
  <2>1. f \in 0 .. Word - 1
    BY <1>1, <1>3, <1>5
  <2> QED BY <1>1, <1>4, <1>5, <2>1
<1>7. f \in Nat /\ f <= Word - 1 /\ f * x \in Nat /\ f * x + b \in Nat
  <2>1. f \in Nat /\ f <= Word - 1 /\ b \in Nat
    BY <1>1, <1>6
  <2>2. f * x \in Nat
    BY <1>1, <2>1, SMT
  <2> QED BY <2>1, <2>2
<1>8. f * x + b < Double
  <2>1. f * x <= (Word - 1) * x /\ (Word - 1) * x <= (Word - 1) * (Word - 1)
    BY <1>1, <1>7, SMT
  <2>2. (Word - 1) * (Word - 1) + (Word - 1) < Word * Word
    BY <1>1, SMT
  <2>3. /\ (Word - 1) * x \in Int /\ (Word - 1) * (Word - 1) \in Int
        /\ Word * Word \in Int /\ b \in Nat /\ b <= Word - 1
    <3>1. b \in Nat /\ b <= Word - 1
      BY <1>1, <1>6
    <3> QED BY <1>1, <3>1, SMT
  <2> QED BY <1>1, <1>7, <2>1, <2>2, <2>3, SMT DEF Double
<1>9. f * x + b \in 0 .. Double - 1
  <2>1. Double \in Nat
    BY DoublePositive
  <2> QED BY <1>7, <1>8, <2>1
<1>10. K \in Nat \ {0} /\ K = m * Word
  BY <1>1, SMT
<1> HIDE DEF K
<1>11. (f * x + b) \div K = q
  <2>1. CASE RoundsUp(n)
    <3>1. m # n /\ b = x
      BY <1>4, <2>1
    <3>2. PICK e \in 1 .. n - 1 : f * n = m * Word - e /\ n - e <= m
      BY <1>5, <2>1, <3>1
    <3>3. e \in Nat /\ n - e \in Nat
      BY <1>1, <3>2
    <3> DEFINE z == (n - e) * x
    <3>4. n * (f * x + x) = K * x + z
      <4>1. n * (f * x + x) = (f * n) * x + n * x
        BY <1>1, <1>7, SMT
      <4>2. (K - e) * x = K * x - e * x
        BY <1>1, <1>10, <3>3, SMT
      <4>3. z = n * x - e * x
        BY <1>1, <3>3, SMT
      <4>4. n * x \in Int /\ e * x \in Int /\ K * x \in Int
        BY <1>1, <1>10, <3>3, SMT
      <4> HIDE DEF z
      <4> QED BY <1>10, <3>2, <4>1, <4>2, <4>3, <4>4
    <3>5. z \in 0 .. K - 1
      <4>1. (n - e) * x <= m * x /\ m * x <= m * (Word - 1)
        BY <1>1, <3>2, <3>3, SMT
      <4>2. m * (Word - 1) = m * Word - m
        BY <1>1, SMT
      <4>3. z \in Nat /\ m * x \in Int /\ m * Word \in Int
        BY <1>1, <3>3, SMT
      <4> HIDE DEF z
      <4>4. z <= m * x
        BY <4>1 DEF z
      <4> QED BY <1>1, <1>10, <4>1, <4>2, <4>3, <4>4
    <3> HIDE DEF z
    <3>6. n * (f * x + b) = K * (n * q + r) + z
      BY <1>2, <3>1, <3>4
    <3>7. f * x + b \in Int /\ q \in Int
      BY <1>2, <1>7
    <3> QED BY <1>1, <1>2, <1>10, <3>5, <3>6, <3>7, Scaled
  <2>2. CASE ~ RoundsUp(n) /\ m # n
    <3>1. b = f
      BY <2>2
    <3>2. PICK e \in 1 .. n - 1 : f * n = m * Word - e /\ ~ (n - e <= m)
      BY <1>5, <2>2
    <3>3. e \in Nat \ {0} /\ e < m
      BY <1>1, <3>2
    <3> DEFINE z == K - e * (x + 1)
    <3>4. n * (f * x + f) = K * x + z
      <4>1. n * (f * x + f) = (f * n) * (x + 1)
        <5>1. n \in Nat /\ f \in Nat /\ x \in Nat
          BY <1>1, <1>7
        <5> QED BY <5>1, TimesNext, Zenon
      <4>2. (K - e) * (x + 1) = K * x + K - e * (x + 1)
        BY <1>1, <1>10, <3>3, SMT
      <4>3. f * n = K - e
        BY <1>10, <3>2
      <4>4. K * x \in Int /\ e * (x + 1) \in Int
        BY <1>1, <1>10, <3>3, SMT
      <4> QED BY <1>10, <4>1, <4>2, <4>3, <4>4
    <3>5. z \in 0 .. K - 1
      <4>1. e * (x + 1) <= m * (x + 1) /\ m * (x + 1) <= m * Word
        BY <1>1, <3>3, SMT
      <4>2. e * (x + 1) >= 1 /\ e * (x + 1) \in Int /\ m * (x + 1) \in Int
        BY <1>1, <3>3, SMT
      <4> QED BY <1>10, <4>1, <4>2
    <3> HIDE DEF z
    <3>6. n * (f * x + b) = K * (n * q + r) + z
      BY <1>2, <3>1, <3>4
    <3>7. f * x + b \in Int /\ q \in Int
      BY <1>2, <1>7
    <3> QED BY <1>1, <1>2, <1>10, <3>5, <3>6, <3>7, Scaled
  <2>3. CASE m = n
    <3>1. f = Word - 1 /\ b = Word - 1
      BY <1>3, <1>4, <2>3
    <3>2. f * x + b = Word * x + (Word - 1 - x)
      <4>1. (Word - 1) * x = Word * x - x /\ Word * x \in Int
        BY <1>1, SMT
      <4> QED BY <1>1, <3>1, <4>1
    <3>3. Word - 1 - x \in 0 .. Word - 1
      BY <1>1
    <3>4. (f * x + b) \div (Word * m) = x \div m
      BY <1>1, <3>2, <3>3, Nested
    <3> QED BY <2>3, <3>4 DEF K, q
  <2> QED BY <2>1, <2>2, <2>3
<1> QED BY <1>6, <1>9, <1>11 DEF K, m, q

(* The remainder is what is left, in a word.                               *)
LEMMA RemainderIs ==
  ASSUME NEW n \in Words, n # 0, NEW x \in Words
  PROVE  /\ (x - n * (x \div n)) % Word = x % n
         /\ (x - (x \div n) * n) % Word = x % n
<1> DEFINE q == x \div n
           r == x % n
<1>1. n \in Nat \ {0} /\ n < Word /\ x \in Nat /\ Word \in Nat \ {0}
  BY WordAssumption DEF Words
<1>2. q \in Nat /\ r \in 0 .. n - 1 /\ x = n * q + r
  BY <1>1, Divided
<1> HIDE DEF q, r
<1>3. n * q \in Int /\ n * q = q * n
  <2>1. n \in Int /\ q \in Int
    BY <1>1, <1>2
  <2> QED BY <2>1, Products, Zenon
<1>4. x - n * q = r /\ x - q * n = r
  BY <1>2, <1>3
<1>5. r % Word = r
  <2>1. r \in 0 .. Word - 1 /\ r \in Int /\ 0 \in Int /\ r = 0 * Word + r
    BY <1>1, <1>2
  <2> QED BY <1>1, <2>1, QuotientUnique
<1>6. (x - n * q) % Word = r /\ (x - q * n) % Word = r
  BY <1>4, <1>5
<1> QED BY <1>6 DEF q, r

(* Robison's division is exact in every width: the 64-bit one chooses the  *)
(* cell and the bit of a key, and the block of a Bloom filter              *)
(* (utils.h:187-280).                                                      *)
THEOREM MRExact ==
  ASSUME NEW n \in Words, n # 0, NEW x \in Words
  PROVE  /\ MRDiv(MR(n), x) = x \div n
         /\ MRMod(MR(n), x) = x % n
<1> DEFINE f == MR(n).fac
           b == IF RoundsUp(n) THEN x ELSE f
<1>1. /\ f * x + b \in 0 .. Double - 1
      /\ (f * x + b) \div (Word * (2 ^ Shift(n))) = x \div n
  BY RobisonSum
<1>2. MR(n).val = n /\ MR(n).sft = Shift(n) /\ MR(n).ab = RoundsUp(n)
  BY RobisonFields
<1>3. MRDiv(MR(n), x) =
        ((f * x + b) % Double) \div (Word * (2 ^ Shift(n)))
  BY <1>2 DEF MRDiv
<1> HIDE DEF f, b
<1>4. (f * x + b) % Double = f * x + b
  BY <1>1, DoublePositive, WithinModulus
<1>5. MRDiv(MR(n), x) = x \div n
  BY <1>1, <1>3, <1>4
<1>6. MRMod(MR(n), x) = x % n
  BY <1>2, <1>5, RemainderIs DEF MRMod
<1> QED BY <1>5, <1>6

(* So is the form with the addend kept in the divisor (SHD_PACK_SIZE).     *)
LEMMA MRPackedExact ==
  ASSUME NEW n \in Words, n # 0, NEW x \in Words
  PROVE  MRPackedDiv(MRPacked(n), x) = x \div n
<1> DEFINE f == MR(n).fac
           b == IF RoundsUp(n) THEN x ELSE f
           K == Word * (2 ^ Shift(n))
<1>1. /\ f \in 0 .. Word - 1 /\ f * x + b \in 0 .. Double - 1
      /\ (RoundsUp(n) => f + 1 <= Word - 1)
      /\ (f * x + b) \div K = x \div n
  BY RobisonSum
<1>2. /\ MR(n).val = n /\ MR(n).sft = Shift(n) /\ MR(n).ab = RoundsUp(n)
      /\ RoundsUp(n) \in BOOLEAN
  BY RobisonFields
<1>3. MRPacked(n) =
        IF RoundsUp(n)
        THEN [val |-> n, sft |-> Shift(n), fac |-> (f + 1) % Word, tip |-> 0]
        ELSE [val |-> n, sft |-> Shift(n), fac |-> f, tip |-> f]
  BY <1>2 DEF MRPacked
<1>4. x \in Nat /\ Word \in Nat \ {0}
  BY WordAssumption DEF Words
<1>5. (f * x + b) % Double = f * x + b
  <2> HIDE DEF f, b
  <2> QED BY <1>1, DoublePositive, WithinModulus
<1>6. CASE RoundsUp(n)
  <2>1. b = x
    BY <1>6
  <2>2. /\ MRPacked(n).fac = (f + 1) % Word /\ MRPacked(n).tip = 0
        /\ MRPacked(n).sft = Shift(n)
    BY <1>3, <1>6
  <2> HIDE DEF f, b, K
  <2>3. (f + 1) % Word = f + 1
    <3>1. f + 1 \in 0 .. Word - 1
      BY <1>1, <1>4, <1>6
    <3> QED BY <1>4, <3>1, WithinModulus
  <2>4. f \in Nat
    BY <1>1, <1>4
  <2>5. (f + 1) * x + 0 = f * x + b
    <3>1. (f + 1) * x + 0 = f * x + x
      BY <1>4, <2>4, SMT
    <3> QED BY <2>1, <3>1
  <2> QED BY <1>1, <1>5, <2>2, <2>3, <2>5 DEF MRPackedDiv, K
<1>7. CASE ~ RoundsUp(n)
  <2>1. b = f
    BY <1>7
  <2>2. /\ MRPacked(n).fac = f /\ MRPacked(n).tip = f
        /\ MRPacked(n).sft = Shift(n)
    BY <1>3, <1>7
  <2> HIDE DEF f, b, K
  <2> QED BY <1>1, <1>5, <2>1, <2>2 DEF MRPackedDiv, K
<1> QED BY <1>6, <1>7

(* And the form of the device, which adds to the low half and carries.     *)
LEMMA FastDivExact ==
  ASSUME NEW n \in Words, n # 0, NEW x \in Words
  PROVE  /\ FastDivDiv(FastDiv(n), x) = x \div n
         /\ FastDivMod(FastDiv(n), x) = x % n
<1> DEFINE m == 2 ^ Shift(n)
           d == FastDiv(n)
<1>1. d.divisor = n /\ d.shift = Shift(n)
  BY DEF FastDiv
<1>2. n \in Nat \ {0} /\ x \in Nat /\ x < Word /\ Word \in Nat \ {0}
      /\ m \in Nat \ {0}
  <2>1. n \in Nat \ {0} /\ x \in Nat /\ x < Word /\ Word \in Nat \ {0}
    BY WordAssumption DEF Words
  <2> QED BY <2>1, ShiftIs
<1>3. FastDivDiv(d, x) = x \div n
  <2>1. CASE m = n
    <3>1. d.mode = "DIVIDE_POWER_OF_TWO"
      BY <2>1 DEF FastDiv
    <3>2. FastDivDiv(d, x) = x \div (2 ^ d.shift)
      BY <3>1 DEF FastDivDiv
    <3> QED BY <1>1, <2>1, <3>2
  <2>2. CASE m # n
    <3> DEFINE f == MR(n).fac
               b == IF RoundsUp(n) THEN x ELSE f
               low == (f * x) % Word
               h == (f * x) \div Word
               sum == (low + b) % Word
               high == h + (IF sum < low THEN 1 ELSE 0)
    <3>1. f = (m * Word) \div n
      BY <2>2, RobisonFields
    <3>2. /\ d.factor = f /\ d.mode # "DIVIDE_POWER_OF_TWO"
          /\ (d.mode = "DIVIDE_ADD_NUMERATOR") = RoundsUp(n)
      <4>1. RoundsUp(n) \in BOOLEAN
        BY RobisonFields
      <4>2. /\ d.factor = (m * Word) \div n
            /\ d.mode = IF RoundsUp(n) THEN "DIVIDE_ADD_NUMERATOR"
                        ELSE "DIVIDE_ADD_FACTOR"
        BY <2>2 DEF FastDiv
      <4> QED BY <3>1, <4>1, <4>2
    <3>3. FastDivDiv(d, x) = (high % Word) \div m
      BY <1>1, <3>2 DEF FastDivDiv
    <3>4. /\ f \in 0 .. Word - 1 /\ b \in 0 .. Word - 1
          /\ f * x + b \in 0 .. Double - 1
          /\ (f * x + b) \div (Word * m) = x \div n
      BY RobisonSum
    <3> HIDE DEF f, b
    <3>5. f * x \in Nat
      BY <1>2, <3>4, SMT
    <3> DEFINE g == f * x
    <3>6. h \in Nat /\ low \in 0 .. Word - 1 /\ g = Word * h + low
      BY <1>2, <3>5, Divided
    <3> HIDE DEF low, h, g
    <3>7. sum \in 0 .. Word - 1 /\ high \in Nat /\ g + b = Word * high + sum
      <4>1. low \in Nat /\ b \in Nat /\ low < Word /\ b < Word
        BY <1>2, <3>4, <3>6
      <4>2. CASE low + b < Word
        <5>1. low + b \in 0 .. Word - 1
          BY <1>2, <4>1, <4>2
        <5>2. sum = low + b
          BY <1>2, <5>1, WithinModulus
        <5>3. high = h
          BY <3>6, <4>1, <5>2
        <5>4. Word * h \in Int
          BY <1>2, <3>6, SMT
        <5> QED BY <3>6, <4>1, <5>1, <5>2, <5>3, <5>4
      <4>3. CASE ~ (low + b < Word)
        <5>1. /\ low + b - Word \in 0 .. Word - 1 /\ low + b \in Int
              /\ low + b = 1 * Word + (low + b - Word) /\ 1 \in Int
          BY <1>2, <4>1, <4>3
        <5>2. sum = low + b - Word
          BY <1>2, <5>1, QuotientUnique
        <5>3. high = h + 1
          BY <1>2, <3>6, <4>1, <5>2
        <5>4. Word * (h + 1) = Word * h + Word /\ Word * h \in Int
          BY <1>2, <3>6, SMT
        <5> QED BY <1>2, <3>6, <4>1, <5>1, <5>2, <5>3, <5>4
      <4> QED BY <4>2, <4>3
    <3> HIDE DEF sum, high
    <3>8. high % Word = high
      <4>1. high < Word
        <5>1. high >= Word => Word * high >= Word * Word
          BY <1>2, <3>7, SMT
        <5>2. Word * high \in Int /\ Word * Word \in Int
          BY <1>2, <3>7, SMT
        <5>3. g + b < Word * Word /\ g + b \in Int
          BY <3>4, DoublePositive DEF g, Double
        <5> QED BY <1>2, <3>7, <5>1, <5>2, <5>3
      <4>2. high \in 0 .. Word - 1
        BY <1>2, <3>7, <4>1
      <4> QED BY <1>2, <4>2, WithinModulus
    <3>9. (g + b) \div (Word * m) = high \div m
      BY <1>2, <3>7, Nested
    <3>10. (g + b) \div (Word * m) = x \div n
      BY <3>4 DEF g
    <3> QED BY <3>3, <3>8, <3>9, <3>10
  <2> QED BY <2>1, <2>2
<1>4. FastDivMod(d, x) = x % n
  BY <1>1, <1>3, RemainderIs DEF FastDivMod
<1> QED BY <1>3, <1>4

(* Every division by an invariant number that the code makes is exact: for *)
(* any divisor but zero, any dividend and any width of a word, powers of   *)
(* two, one and the greatest word included (utils.h:187-330,               *)
(* shd.cu:38-129).                                                         *)
THEOREM EveryDivisionExact ==
  ASSUME NEW n \in Words, n # 0
  PROVE  AllExact(n)
BY LKKExact, MRExact, MRPackedExact, FastDivExact DEF AllExact

----------------------------------------------------------------------------
LEMMA CurveGrows ==
  ASSUME NEW x \in 0 .. CodeMax
  PROVE  /\ L1TIP \in Nat /\ Curve(x) \in Nat /\ Curve(CodeMax) \in Nat \ {0}
         /\ x < CodeMax => Curve(x) < Curve(CodeMax)
<1>1. CodeMax \in Nat \ {0} /\ PerCell \in Nat \ {0}
  BY LevelAssumption
<1>2. L1TIP \in Nat
  BY <1>1, SMT DEF L1TIP
<1> DEFINE t == L1TIP  M == CodeMax
<1>3. /\ x * (x + t) \in Nat /\ M * (M + t) \in Nat /\ M * (M + t) > 0
      /\ x < M => x * (x + t) < M * (M + t)
  <2> HIDE DEF t, M
  <2>0. t \in Nat /\ M \in Nat \ {0} /\ x \in 0 .. M
    BY <1>1, <1>2 DEF t, M
  <2>1. x * (x + t) \in Nat /\ M * (M + t) \in Nat /\ M * (M + t) > 0
    BY <2>0, SMT
  <2>2. ASSUME x < M PROVE x * (x + t) < M * (M + t)
    <3>1. x * (x + t) <= x * (M + t)
      BY <2>0, <2>2, SMT
    <3>2. x * (M + t) < M * (M + t)
      BY <2>0, <2>2, SMT
    <3> QED BY <2>0, <2>1, <3>1, <3>2, SMT
  <2> QED BY <2>1, <2>2
<1> QED BY <1>2, <1>3 DEF Curve

(* The band times the number of cells reaches the end of the curve.        *)
LEMMA BandCovers ==
  ASSUME NEW items \in Nat \ {0}
  PROVE  /\ L1Size(items) \in Nat \ {0} /\ L1Band(items) \in Nat \ {0}
         /\ Curve(CodeMax) <= L1Size(items) * L1Band(items)
<1>1. PerCell \in Nat \ {0} /\ 0 \in 0 .. CodeMax
  BY LevelAssumption, SMT
<1>2. L1Size(items) \in Nat \ {0}
  <2> DEFINE a == items + (PerCell - 1)  q == a \div PerCell  r == a % PerCell
  <2>1. q \in Int /\ r \in 0 .. PerCell - 1 /\ a = PerCell * q + r
    <3>1. a \in Int
      BY <1>1, SMT
    <3> HIDE DEF a
    <3> QED BY <1>1, <3>1, QuotientExists
  <2>2. ASSUME q <= 0 PROVE FALSE
    <3> HIDE DEF q, r
    <3>1. PerCell * q <= 0
      BY <1>1, <2>1, <2>2, SMT
    <3> QED BY <1>1, <2>1, <3>1, SMT
  <2> QED BY <2>1, <2>2, SMT DEF L1Size
<1>3. Curve(CodeMax) \in Nat \ {0}
  BY <1>1, CurveGrows
<1> DEFINE l == L1Size(items)  C == Curve(CodeMax)
           q == (C + (l - 1)) \div l  r == (C + (l - 1)) % l
<1>4. l \in Nat \ {0} /\ C \in Nat \ {0}
  BY <1>2, <1>3
<1> HIDE DEF l, C
<1>5. q \in Int /\ r \in 0 .. l - 1 /\ C + (l - 1) = l * q + r
  BY <1>4, SMT
<1> HIDE DEF q, r
<1>6. C <= l * q
  BY <1>4, <1>5, SMT
<1>7. q >= 1
  <2>1. ASSUME q <= 0 PROVE FALSE
    <3>1. l * q <= 0
      BY <1>4, <1>5, <2>1, SMT
    <3> QED BY <1>4, <1>5, <1>6, <3>1, SMT
  <2> QED BY <1>5, <2>1, SMT
<1>8. q \in Nat \ {0}
  BY <1>5, <1>7, SMT
<1> QED BY <1>2, <1>6, <1>8 DEF l, C, q, L1Band

(* Every code but the greatest has one of the cells of the index, whatever *)
(* the number of items; the greatest has one of them or the one after the  *)
(* last (internal.h:184-187, pack_format.h:19-30).                         *)
THEOREM CellInside ==
  ASSUME NEW items \in Nat \ {0}, NEW code \in 0 .. CodeMax
  PROVE  /\ code # CodeMax => SkewMap(code, L1Band(items)) < L1Size(items)
         /\ SkewMap(code, L1Band(items)) <= L1Size(items)
<1> DEFINE l == L1Size(items)  d == L1Band(items)
           C == Curve(CodeMax)  c == Curve(code)
<1>1. /\ l \in Nat \ {0} /\ d \in Nat \ {0} /\ C <= l * d
      /\ c \in Nat /\ C \in Nat
      /\ code < CodeMax => c < C
  BY BandCovers, CurveGrows
<1>2. CodeMax \in Nat
  BY LevelAssumption
<1>3. code # CodeMax => code < CodeMax
  BY <1>2, SMT
<1>4. code = CodeMax => c = C
  OBVIOUS
<1> HIDE DEF l, d, C, c
<1>5. /\ code # CodeMax => c < l * d
      /\ c <= l * d
  <2>1. l * d \in Int
    BY <1>1, SMT
  <2> QED BY <1>1, <1>3, <1>4, <2>1, SMT
<1>6. /\ c < l * d => c \div d < l
      /\ c <= l * d => c \div d <= l
  BY <1>1, QuotientBelow
<1> QED BY <1>5, <1>6 DEF l, d, c, SkewMap

(* It has the one after the last whenever the number of cells divides the  *)
(* end of the curve: such an index has no cell for that code               *)
(* (pack_format.h:27-30).                                                  *)
THEOREM TopCodeOutside ==
  ASSUME NEW items \in Nat \ {0}, NEW k \in Nat,
         Curve(CodeMax) = k * L1Size(items)
  PROVE  SkewMap(CodeMax, L1Band(items)) = L1Size(items)
<1> DEFINE l == L1Size(items)  C == Curve(CodeMax)
<1>1. l \in Nat \ {0} /\ C \in Nat \ {0} /\ C = k * l
  <2>1. 0 \in 0 .. CodeMax
    BY LevelAssumption, SMT
  <2> QED BY <2>1, BandCovers, CurveGrows
<1>2. L1Band(items) = (C + (l - 1)) \div l
  BY DEF L1Band
<1>3. SkewMap(CodeMax, L1Band(items)) = C \div L1Band(items)
  BY DEF SkewMap
<1> HIDE DEF l, C
<1>4. (C + (l - 1)) \div l = k
  <2>1. /\ C + (l - 1) \in Int /\ l - 1 \in 0 .. l - 1
        /\ C + (l - 1) = k * l + (l - 1)
    BY <1>1, SMT
  <2> QED BY <1>1, <2>1, QuotientUnique
<1>5. k # 0
  BY <1>1, SMT
<1>6. C \div k = l
  <2>1. C = l * k + 0 /\ 0 \in 0 .. k - 1 /\ k \in Nat \ {0} /\ l \in Int
    BY <1>1, <1>5, SMT
  <2> QED BY <1>1, <2>1, QuotientUnique
<1> QED BY <1>2, <1>3, <1>4, <1>6 DEF l

----------------------------------------------------------------------------
(* What a memory of so many blocks, and a whole file, have in them: every  *)
(* key that was set has its bits in its block, and the counter counts no   *)
(* more than those keys.                                                   *)
Contents(blocks, count, words, keys) ==
  /\ blocks \in Words /\ blocks # 0
  /\ count \in Nat
  /\ words \in [0 .. blocks - 1 -> SUBSET (0 .. 63)]
  /\ keys = Damaged \/ keys \subseteq Keys
  /\ keys # Damaged =>
       /\ IsFiniteSet(keys) /\ count <= Cardinality(keys)
       /\ \A key \in keys :
            HashOf[key].bits \subseteq words[HashOf[key].h % blocks]

(* The inductive invariant: a filter without memory holds nothing; the     *)
(* divisor is that of the blocks of the memory, and of those of the file.  *)
Inv ==
  /\ block.val \in Words /\ block = MR(block.val)
  /\ answer \in BOOLEAN
  /\ ~ Usable => size = 0 /\ item = 0 /\ space = Empty(0) /\ known = {}
  /\ Usable => /\ size = WordSize + block.val * WordSize
               /\ Contents(block.val, item, space, known)
  /\ file # NoFile =>
       /\ file.size = WordSize + BlocksIn(file.size) * WordSize
       /\ Contents(BlocksIn(file.size), file.item, file.space, file.known)

----------------------------------------------------------------------------
(* A divisor keeps its number.                                             *)
LEMMA DivisorOf ==
  ASSUME NEW n \in Words
  PROVE  MR(n).val = n /\ MR(MR(n).val) = MR(n)
<1>1. MR(n).val = n
  BY DEF MR
<1> QED BY <1>1

(* A number of bytes that is a counter and blocks gives the blocks back.   *)
LEMMA BlocksBack ==
  ASSUME NEW n \in Nat
  PROVE  /\ BlocksIn(WordSize + n * WordSize) = n
         /\ WordSize + n * WordSize >= WordSize * 2 <=> n # 0
<1>1. ((8 + n * 8) - 8) \div 8 = n
  OBVIOUS
<1> QED BY <1>1 DEF BlocksIn, WordSize

(* The block of a key is one of the memory, the remainder of its hash.     *)
LEMMA BlockIs ==
  ASSUME Inv, Usable, NEW key \in Keys
  PROVE  /\ BlockOf(key) = HashOf[key].h % block.val
         /\ BlockOf(key) \in 0 .. block.val - 1
<1>1. block.val \in Words /\ block.val # 0 /\ block = MR(block.val)
  BY DEF Inv, Contents
<1>2. HashOf[key].h \in Words
  BY BloomAssumption
<1>3. MRMod(MR(block.val), HashOf[key].h) = HashOf[key].h % block.val
  BY <1>1, <1>2, MRExact
<1>4. block.val \in Nat \ {0} /\ HashOf[key].h \in Nat
  BY <1>1, <1>2, WordAssumption DEF Words
<1>5. HashOf[key].h % block.val \in 0 .. block.val - 1
  BY <1>4
<1> QED BY <1>1, <1>3, <1>5 DEF BlockOf

----------------------------------------------------------------------------
LEMMA InitInv == Init => Inv
<1> SUFFICES ASSUME Init PROVE Inv
  OBVIOUS
<1>1. 0 \in Words
  BY WordAssumption DEF Words
<1>2. block = MR(0) /\ block.val = 0
  BY <1>1, DivisorOf DEF Init
<1>3. ~ Usable
  BY DEF Init, Usable, WordSize
<1> QED BY <1>1, <1>2, <1>3 DEF Init, Inv

(* A new filter has the blocks its capacity is rounded up to.              *)
LEMMA CreateInv ==
  ASSUME Inv, NEW capacity \in Capacities, Create(capacity)
  PROVE  Inv'
<1> DEFINE n == (capacity + 7) \div WordSize
<1>1. n \in Words /\ n # 0
  <2>1. capacity \in 0 .. 8 * (Word - 1) /\ capacity # 0 /\ Word \in Nat
    BY BloomAssumption, WordAssumption DEF Create
  <2> QED BY <2>1 DEF WordSize, Words
<1>2. block' = MR(n) /\ block'.val = n /\ block' = MR(block'.val)
  BY <1>1, DivisorOf DEF Create
<1>3. n \in Nat
  BY <1>1, WordAssumption DEF Words
<1>4. file' = file /\ answer' = answer /\ file = NoFile
  BY DEF Create
<1>5. item' = 0 /\ known' = {}
  BY DEF Create
<1> HIDE DEF n
<1>6. CASE size' = 0 /\ space' = Empty(0)
  <2>1. ~ Usable'
    BY <1>6 DEF Usable, WordSize
  <2> QED BY <1>1, <1>2, <1>4, <1>5, <1>6, <2>1 DEF Inv
<1>7. CASE size' = WordSize + n * WordSize /\ space' = Empty(n)
  <2>1. Usable'
    BY <1>1, <1>3, <1>7, BlocksBack DEF Usable
  <2>2. space' \in [0 .. n - 1 -> SUBSET (0 .. 63)]
    BY <1>7 DEF Empty
  <2>3. Contents(n, item', space', known')
    <3>1. IsFiniteSet({}) /\ 0 <= Cardinality({})
      BY FS_EmptySet
    <3> QED BY <1>1, <1>5, <2>2, <3>1 DEF Contents
  <2> QED BY <1>1, <1>2, <1>4, <1>7, <2>1, <2>3 DEF Inv
<1>8. \/ size' = WordSize + n * WordSize /\ space' = Empty(n)
      \/ size' = 0 /\ space' = Empty(0)
  BY <1>2 DEF Create
<1> QED BY <1>6, <1>7, <1>8

(* A key that is set has its bits in its block, and no other key loses any *)
(* of its own.  The counter counts a key only when it was not set before.  *)
LEMMA SetInv ==
  ASSUME Inv, NEW key \in Keys, Set(key)
  PROVE  Inv'
<1> DEFINE at == BlockOf(key)
           n == block.val
<1>1. Usable /\ Contents(n, item, space, known)
  BY DEF Inv, Set
<1>2. at = HashOf[key].h % n /\ at \in 0 .. n - 1
  BY <1>1, BlockIs
<1>3. /\ block' = block /\ size' = size /\ file' = file
      /\ Usable' /\ answer' \in BOOLEAN
  BY <1>1 DEF Set, Usable
<1>4. space' = [space EXCEPT ![at] = space[at] \union HashOf[key].bits]
  BY DEF Set, Merged
<1>5. HashOf[key].bits \subseteq 0 .. 63
  BY BloomAssumption
<1>6. Has(key) <=> HashOf[key].bits \subseteq space[at]
  BY DEF Has
<1> HIDE DEF at, n
<1>7. space \in [0 .. n - 1 -> SUBSET (0 .. 63)]
  BY <1>1 DEF Contents
<1>8. space' \in [0 .. n - 1 -> SUBSET (0 .. 63)]
  BY <1>2, <1>4, <1>5, <1>7
<1>9. \A b \in 0 .. n - 1 : space[b] \subseteq space'[b]
  BY <1>2, <1>4, <1>7
<1>10. HashOf[key].bits \subseteq space'[at]
  BY <1>2, <1>4, <1>7
<1>11. Contents(n, item', space', known')
  <2>1. item' \in Nat
    BY <1>1 DEF Set, Contents
  <2>2. CASE known = Damaged
    <3>1. known' = Damaged
      BY <2>2 DEF Set
    <3> QED BY <1>1, <1>8, <2>1, <3>1 DEF Contents
  <2>3. CASE known # Damaged
    <3>1. known' = known \union {key} /\ known' \subseteq Keys
      BY <1>1, <2>3 DEF Set, Contents
    <3>2. IsFiniteSet(known) /\ item <= Cardinality(known) /\ item \in Nat
      BY <1>1, <2>3 DEF Contents
    <3>3. /\ IsFiniteSet(known')
          /\ Cardinality(known') = IF key \in known THEN Cardinality(known)
                                   ELSE Cardinality(known) + 1
          /\ Cardinality(known) \in Nat
      BY <3>1, <3>2, FS_AddElement, FS_CardinalityType
    <3>4. \A k \in known : HashOf[k].bits \subseteq space[HashOf[k].h % n]
      BY <1>1, <2>3 DEF Contents
    <3>5. key \in known => Has(key)
      BY <1>2, <1>6, <3>4
    <3>6. item' <= Cardinality(known')
      BY <3>2, <3>3, <3>5 DEF Set
    <3>7. \A k \in known' :
            HashOf[k].bits \subseteq space'[HashOf[k].h % n]
      <4> SUFFICES ASSUME NEW k \in known'
                   PROVE  HashOf[k].bits \subseteq space'[HashOf[k].h % n]
        OBVIOUS
      <4>1. CASE k = key
        BY <1>2, <1>10, <4>1
      <4>2. CASE k \in known
        <5>1. HashOf[k].h % n \in 0 .. n - 1
          <6>1. k \in Keys
            BY <3>1
          <6> QED BY <1>1, <6>1, BlockIs DEF n
        <5> QED BY <1>9, <3>4, <4>2, <5>1
      <4> QED BY <3>1, <4>1, <4>2
    <3> QED BY <1>1, <1>8, <2>1, <3>1, <3>3, <3>6, <3>7 DEF Contents
  <2> QED BY <2>2, <2>3
<1> QED BY <1>1, <1>3, <1>11 DEF Inv, n

(* What is dumped is what the filter holds, in a file of its size.         *)
LEMMA DumpInv ==
  ASSUME Inv, Dump
  PROVE  Inv'
<1>1. Usable /\ size = WordSize + block.val * WordSize
      /\ Contents(block.val, item, space, known)
  BY DEF Inv, Dump
<1>2. /\ file'.size = size /\ file'.item = item
      /\ file'.space = space /\ file'.known = known
  BY DEF Dump
<1>3. BlocksIn(file'.size) = block.val
  <2>1. block.val \in Nat
    BY <1>1, WordAssumption DEF Contents, Words
  <2> QED BY <1>1, <1>2, <2>1, BlocksBack
<1>4. UNCHANGED <<block, size, item, space, known>> /\ answer' = TRUE
  BY DEF Dump
<1>5. Usable'
  BY <1>1, <1>4 DEF Usable
<1>6. /\ file'.size = WordSize + BlocksIn(file'.size) * WordSize
      /\ Contents(BlocksIn(file'.size), file'.item, file'.space, file'.known)
  BY <1>1, <1>2, <1>3
<1>7. /\ block'.val \in Words /\ block' = MR(block'.val)
      /\ answer' \in BOOLEAN
      /\ size' = WordSize + block'.val * WordSize
      /\ Contents(block'.val, item', space', known')
  BY <1>1, <1>4 DEF Inv
<1> QED BY <1>5, <1>6, <1>7 DEF Inv

(* A file that is taken gives a filter of its blocks, and of the keys the  *)
(* file knows when it is whole; one that is refused gives none.            *)
LEMMA LoadInv ==
  ASSUME Inv, NEW bytes \in CutSizes \union {file.size}, Load(bytes)
  PROVE  Inv'
<1> DEFINE n == BlocksIn(bytes)
           v == BlocksIn(file.size)
<1>1. file # NoFile /\ bytes <= file.size /\ file' = file /\ answer' = answer
  BY DEF Load
<1>2. /\ file.size = WordSize + v * WordSize
      /\ Contents(v, file.item, file.space, file.known)
  BY <1>1 DEF Inv
<1>3. v \in Nat /\ v # 0 /\ v < Word /\ Word \in Nat
  BY <1>2, WordAssumption DEF Contents, Words
<1>4. bytes \in Nat
  BY <1>2, <1>3, BloomAssumption DEF WordSize
<1>5. /\ file' # NoFile =>
           /\ file'.size = WordSize + BlocksIn(file'.size) * WordSize
           /\ Contents(BlocksIn(file'.size), file'.item, file'.space,
                       file'.known)
      /\ answer' \in BOOLEAN
  BY <1>1 DEF Inv
<1>6. CASE Refused(bytes)
  <2>1. /\ block' = MR(0) /\ size' = 0 /\ item' = 0
        /\ space' = Empty(0) /\ known' = {}
    BY <1>6 DEF Load
  <2>2. block'.val \in Words /\ block' = MR(block'.val)
    <3>1. 0 \in Words
      BY WordAssumption DEF Words
    <3> QED BY <2>1, <3>1, DivisorOf
  <2>3. ~ Usable'
    BY <2>1 DEF Usable, WordSize
  <2> QED BY <1>5, <2>1, <2>2, <2>3 DEF Inv
<1>7. CASE ~ Refused(bytes)
  <2>1. /\ block' = MR(n) /\ size' = bytes /\ item' = file.item
        /\ space' = [b \in 0 .. bytes \div WordSize - 2 |-> file.space[b]]
        /\ known' = IF bytes = file.size THEN file.known ELSE Damaged
    BY <1>7 DEF Load
  <2>2. /\ bytes = WordSize + n * WordSize /\ n \in Nat /\ n # 0
        /\ n <= v /\ bytes \div WordSize - 2 = n - 1
        /\ bytes >= WordSize * 2
    BY <1>2, <1>3, <1>4, <1>1, <1>7 DEF Refused, WordSize, BlocksIn
  <2> HIDE DEF n, v
  <2>3. n \in Words
    BY <1>3, <2>2 DEF Words
  <2>4. block'.val = n /\ block' = MR(block'.val)
    BY <2>1, <2>3, DivisorOf
  <2>5. Usable'
    BY <2>1, <2>2 DEF Usable
  <2>6. space' \in [0 .. n - 1 -> SUBSET (0 .. 63)]
    <3>1. file.space \in [0 .. v - 1 -> SUBSET (0 .. 63)]
      BY <1>2 DEF Contents
    <3>2. \A b \in 0 .. n - 1 : b \in 0 .. v - 1
      BY <1>3, <2>2
    <3> QED BY <2>1, <2>2, <3>1, <3>2
  <2>7. Contents(n, item', space', known')
    <3>1. CASE bytes = file.size
      <4>1. n = v
        BY <3>1 DEF n, v
      <4>2. space' = file.space
        <5>1. file.space \in [0 .. v - 1 -> SUBSET (0 .. 63)]
          BY <1>2 DEF Contents
        <5>2. space' = [b \in 0 .. v - 1 |-> file.space[b]]
          BY <2>1, <2>2, <4>1
        <5> QED BY <5>1, <5>2
      <4> QED BY <1>2, <2>1, <3>1, <4>1, <4>2
    <3>2. CASE bytes # file.size
      <4>1. known' = Damaged /\ item' \in Nat
        BY <1>2, <2>1, <3>2 DEF Contents
      <4> QED BY <2>2, <2>3, <2>6, <4>1 DEF Contents
    <3> QED BY <3>1, <3>2
  <2> QED BY <1>5, <2>1, <2>2, <2>3, <2>4, <2>5, <2>7 DEF Inv
<1> QED BY <1>6, <1>7

(* Every step keeps the invariant.                                         *)
LEMMA StepInv == Inv /\ [Next]_vars => Inv'
<1> SUFFICES ASSUME Inv, [Next]_vars PROVE Inv'
  OBVIOUS
<1>1. ASSUME NEW capacity \in Capacities, Create(capacity) PROVE Inv'
  BY <1>1, CreateInv
<1>2. ASSUME NEW key \in Keys, Set(key) PROVE Inv'
  BY <1>2, SetInv
<1>3. ASSUME NEW key \in Keys, Test(key) PROVE Inv'
  <2>1. UNCHANGED <<block, size, item, space, file, known>>
        /\ answer' \in BOOLEAN
    BY <1>3 DEF Test, Has
  <2> QED BY <2>1 DEF Inv, Usable
<1>4. CASE Dump
  BY <1>4, DumpInv
<1>5. ASSUME NEW bytes \in CutSizes \union {file.size}, Load(bytes)
      PROVE  Inv'
  BY <1>5, LoadInv
<1>6. CASE UNCHANGED vars
  BY <1>6 DEF vars, Inv, Usable
<1> QED BY <1>1, <1>2, <1>3, <1>4, <1>5, <1>6 DEF Next

LEMMA InvHolds == Spec => []Inv
BY InitInv, StepInv, PTL DEF Spec

----------------------------------------------------------------------------
(* The memory is that of the blocks the divisor stands for, and no key has *)
(* a block outside of it: a set or a test reads and writes inside the      *)
(* allocation, of a new filter and of one loaded from any file             *)
(* (bbf.cc:33-100).                                                        *)
THEOREM TypeCorrect == Spec => []TypeOK
<1>1. Inv => TypeOK
  <2> SUFFICES ASSUME Inv PROVE TypeOK
    OBVIOUS
  <2>1. CASE Usable
    <3>1. /\ block.val \in Words /\ answer \in BOOLEAN
          /\ size = WordSize + block.val * WordSize
          /\ Contents(block.val, item, space, known)
      BY <2>1 DEF Inv
    <3>2. block.val \in Nat
      BY <3>1, WordAssumption DEF Words
    <3>3. \A key \in Keys : BlockOf(key) \in 0 .. block.val - 1
      BY <2>1, BlockIs
    <3>4. size \in Nat
      BY <3>1, <3>2 DEF WordSize
    <3>5. /\ item \in Nat /\ (known = Damaged \/ known \subseteq Keys)
          /\ space \in [0 .. block.val - 1 -> SUBSET (0 .. 63)]
      BY <3>1 DEF Contents
    <3> QED BY <3>1, <3>3, <3>4, <3>5 DEF TypeOK
  <2>2. CASE ~ Usable
    <3>1. /\ block.val \in Words /\ answer \in BOOLEAN
          /\ size = 0 /\ item = 0 /\ space = Empty(0) /\ known = {}
      BY <2>2 DEF Inv
    <3>2. DOMAIN space = {}
      BY <3>1 DEF Empty
    <3> QED BY <2>2, <3>1, <3>2 DEF TypeOK
  <2> QED BY <2>1, <2>2
<1> QED BY <1>1, InvHolds, PTL

(* No false negatives: a key that was set is found ever after, in the      *)
(* filter and in every one loaded from a whole dump, and the counter never *)
(* exceeds the number of keys set (bbf.cc:33-100).                         *)
THEOREM NothingForgotten == Spec => []NeverForgets
<1>1. Inv => NeverForgets
  <2> SUFFICES ASSUME Inv, known # Damaged
               PROVE  /\ \A key \in known : Has(key)
                      /\ item <= Cardinality(known)
    BY DEF NeverForgets
  <2>1. CASE Usable
    <3>1. /\ known \subseteq Keys /\ item <= Cardinality(known)
          /\ \A key \in known : HashOf[key].bits
                                  \subseteq space[HashOf[key].h % block.val]
      BY <2>1 DEF Inv, Contents
    <3>2. \A key \in known : BlockOf(key) = HashOf[key].h % block.val
      BY <2>1, <3>1, BlockIs
    <3> QED BY <3>1, <3>2 DEF Has
  <2>2. CASE ~ Usable
    BY <2>2, FS_EmptySet DEF Inv
  <2> QED BY <2>1, <2>2
<1> QED BY <1>1, InvHolds, PTL

(* Every division by the number of blocks is exact, whatever that number   *)
(* is and however wide the word (utils.h:187-330, shd.cu:38-129).          *)
THEOREM DivisionsExact == Spec => []DivisionExact
<1>1. Inv => DivisionExact
  BY EveryDivisionExact DEF Inv, Contents, DivisionExact
<1> QED BY <1>1, InvHolds, PTL

============================================================================
