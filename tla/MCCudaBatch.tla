---------------------------- MODULE MCCudaBatch ----------------------------
(***************************************************************************)
(* Two calls on one wrapper: batches of one chunk, of two, and of four     *)
(* with the last one short, of the same and of different operations, the   *)
(* second larger than the first or smaller, with hits in every chunk, in   *)
(* some and in none; and calls that are refused.                           *)
(***************************************************************************)
EXTENDS CudaBatch

On(type, calls, hit) == [type |-> type, hits |-> hit, calls |-> calls]
C(op, n) == [op |-> op, batch |-> n, null |-> FALSE]

MCInputs == {
  On("KV_INLINE", <<C("TRY_FETCH", 7), C("CHECK", 4)>>, {1, 2, 5}),
  On("KV_INLINE", <<C("FETCH", 2), C("TRY_FETCH", 4)>>, {0}),
  On("KV_INLINE", <<C("CHECK", 1), C("CHECK", 3)>>, {0, 1}),
  On("KV_INLINE", <<C("CHECK", 5), C("FETCH", 5)>>, {0, 1, 2, 3, 4}),
  On("KV_INLINE", <<C("TRY_FETCH", 2), C("TRY_FETCH", 3)>>, {2}),
  On("KV_INLINE", <<C("TRY_FETCH", 6), C("LOCATE", 4)>>, {3, 4}),
  On("KEY_SET", <<C("FETCH", 1), C("CHECK", 5)>>, {3, 4}),
  On("KEY_SET",
     <<[op |-> "CHECK", batch |-> 2, null |-> TRUE], C("CHECK", 0)>>, {}),
  On("KV_INLINE", <<C("TRY_FETCH", 8), C("FETCH", 0)>>, {}),
  On("INDEX_ONLY", <<C("LOCATE", 3), C("LOCATE", 6)>>, {})}

============================================================================
