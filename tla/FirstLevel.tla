----------------------------- MODULE FirstLevel -----------------------------
(***************************************************************************)
(* The skewed first level of the index: the 31 low bits of a hash choose a *)
(* cell along a parabola, so that the first cells get more keys than the   *)
(* last (src/src/pack_format.h, SkewMap of src/src/internal.h, and         *)
(* LocateOne of src/src/cuda/shd.cu).  The division by the band is exact   *)
(* (module Divisor).                                                       *)
(***************************************************************************)
EXTENDS Integers

CONSTANTS
  CodeMax,   (* L1H_MAX: 2^31 - 1                                          *)
  PerCell    (* L1CELL: 5                                                  *)

ASSUME LevelAssumption ==
  CodeMax \in Nat \ {0} /\ PerCell \in Nat \ {0}

L1TIP == CodeMax \div PerCell

(* The number of cells of a piece.                                         *)
L1Size(item) == (item + (PerCell - 1)) \div PerCell

Curve(x) == x * (x + L1TIP)

L1Band(item) == (Curve(CodeMax) + (L1Size(item) - 1)) \div L1Size(item)

(* The cell of a code (the hash & L1H_MAX).                                *)
SkewMap(code, band) == Curve(code) \div band

============================================================================
