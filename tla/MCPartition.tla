---------------------------- MODULE MCPartition ----------------------------
(***************************************************************************)
(* Three readers and three segments: inputs that are scattered by one, two *)
(* and three heads, with readers of unequal length (one empty), segments   *)
(* that come in runs so that a head meets full ranges, a bad key, an empty *)
(* segment and a segment that is too large; all six-key inputs with and    *)
(* without extra memory; and inputs that make one piece, of one reader and *)
(* of few keys.                                                            *)
(***************************************************************************)
EXTENDS Partition

Input(seq, c, extra) ==
  LET n == Cardinality(DOMAIN c) - 1
  IN  [n |-> n, extra |-> extra,
       total |-> c[n + 1],
       keys |-> [i \in 0 .. c[n + 1] - 1 |-> seq[i + 1]],
       cut |-> [r \in 0 .. n |-> c[r + 1]]]

(* Any six identifiers.                                                    *)
AnySix ==
  {Input(k, <<0, 1, 4, 6>>, extra) :
     k \in [1 .. 6 -> 0 .. 2], extra \in BOOLEAN}

Both(seq, c) == {Input(seq, c, TRUE), Input(seq, c, FALSE)}

MCInputs == AnySix \union UNION {
  \* three heads
  Both(<<0, 0, 0, 1, 1, 1, 2, 2, 2>>, <<0, 3, 6, 9>>),
  {Input(<<0, 1, 2, 2, 1, 0, 1, 0, 2>>, <<0, 1, 7, 9>>, TRUE),
   Input(<<2, 1, 1, 2, 0, 2, 0, 1, 0, 2>>, <<0, 0, 5, 10>>, TRUE),
   \* two heads
   Input(<<0, 0, 1, 1, 2, 2>>, <<0, 2, 4, 6>>, TRUE),
   Input(<<1, 2, 0, 2, 2, 1, 0>>, <<0, 4, 4, 7>>, TRUE),
   Input(<<2, 0, 0, 1, 1, 1, 2, 1>>, <<0, 1, 3, 8>>, TRUE)},
  \* one head
  Both(<<2, 1, 0, 2, 1>>, <<0, 2, 4, 5>>),
  Both(<<0, 2, 1>>, <<0, 1, 2, 3>>),
  \* one piece
  Both(<<1, 0>>, <<0, 1, 1, 2>>),
  Both(<<2, Bad>>, <<0, 0, 2, 2>>),
  Both(<<0, 0, 0, 0>>, <<0, 4>>),
  Both(<<0, Bad, 0>>, <<0, 3>>),
  Both(<<0, 0, 0, 0, 0>>, <<0, 5>>),
  \* bad input
  Both(<<0, Bad, 2, 1>>, <<0, 2, 3, 4>>),
  Both(<<Bad, 1, Bad, 2>>, <<0, 1, 3, 4>>),
  Both(<<0, 2, 2, 0>>, <<0, 1, 2, 4>>),
  Both(<<0, 2, 2, 2, 2, 2, 1>>, <<0, 3, 5, 7>>)}

============================================================================
