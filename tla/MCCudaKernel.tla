---------------------------- MODULE MCCudaKernel ----------------------------
(***************************************************************************)
(* Blocks of four threads, two blocks at most: batches of no key, of part  *)
(* of a block, of a whole one, and of nine and ten keys, for which the     *)
(* threads go round.  Tables of one and two segments, of up to two         *)
(* sections of three words of two bits; keys of the table, strangers with  *)
(* the bit of a key of the table, with a bit that is not set, and with one *)
(* behind the last that is.  Each call finds the buffers as the one before *)
(* has left them.                                                          *)
(***************************************************************************)
EXTENDS CudaKernel

Bits == <<{0, 3, 4, 7}, {1, 5, 9, 10}>>

In(s, x) == [seg |-> s, bit |-> x, member |-> TRUE]
Out(s, x) == [seg |-> s, bit |-> x, member |-> FALSE]

Nine == <<In(2, 9), Out(2, 11), In(1, 4), Out(1, 4), Out(1, 2), In(2, 1),
          In(1, 0), Out(2, 0), In(2, 10)>>
Ten == <<In(1, 7), In(1, 0), In(1, 3), In(1, 4), In(2, 5), In(2, 1), In(2, 9),
         In(2, 10), In(1, 7), In(1, 3)>>
Five == <<Out(2, 11), Out(1, 5), In(1, 3), In(2, 5), Out(1, 0)>>
Four == <<In(2, 5), In(2, 1), Out(2, 8), In(1, 7)>>
Two == <<Out(1, 1), In(2, 10)>>

C(op, keys) ==
  [op |-> op, keys |-> keys, null |-> FALSE, counted |-> TRUE,
   flagged |-> FALSE, fallback |-> FALSE, capacity |-> 9]

On(type, calls) == [type |-> type, bits |-> Bits, calls |-> calls]

MCInputs == {
  On("KV_INLINE", <<C("CHECK", Nine), C("TRY_FETCH", Five)>>),
  On("KV_INLINE", <<[C("FETCH", Nine) EXCEPT !.flagged = TRUE],
                    C("FETCH", Two)>>),
  On("KV_INLINE", <<[C("FETCH", Five) EXCEPT !.fallback = TRUE,
                                             !.counted = FALSE],
                    C("CHECK", Ten)>>),
  On("KV_INLINE", <<C("TRY_FETCH", Nine), C("TRY_FETCH", Two),
                    C("TRY_FETCH", Ten), C("TRY_FETCH", <<>>)>>),
  On("KEY_SET", <<C("CHECK", Four), [C("CHECK", Ten) EXCEPT !.counted = FALSE],
                  C("FETCH", Two), C("CHECK", Two), C("CHECK", <<>>)>>),
  On("INDEX_ONLY", <<C("LOCATE", Nine), C("CHECK", Two),
                     [C("LOCATE", Two) EXCEPT !.null = TRUE]>>)}

============================================================================
