---------------------------- MODULE MCDisplace -----------------------------
(***************************************************************************)
(* Small pieces for Displace.  A layout fixes the array of identifiers, the*)
(* bucket of each, and the bits each may fall on; a piece adds one choice  *)
(* of a bit for every identifier and seed, so that the search succeeds,    *)
(* backtracks and gives up in every way.                                   *)
(***************************************************************************)
EXTENDS Displace

Ran(s) == {s[i] : i \in DOMAIN s}

(* Buckets are laid by decreasing size, as L1Sort does.                    *)
Layouts == {
  \* a large bucket (two batches) and a single identifier
  [ids |-> <<1, 2, 3, 4>>, l1 |-> <<1, 1, 1, 0>>,
   bits |-> <<{0, 1}, {1, 2}, {2, 3}, {3, 8}>>],
  \* two small buckets
  [ids |-> <<1, 2, 3, 4>>, l1 |-> <<0, 0, 1, 1>>,
   bits |-> <<{0, 1}, {1, 5}, {1, 5}, {5, 6}>>],
  \* a small bucket and two single identifiers: magic wraps twice
  [ids |-> <<1, 2, 3, 4, 5>>, l1 |-> <<2, 2, 0, 0, 1>>,
   bits |-> <<{3}, {4, 10}, {4, 3}, {6}, {6, 10}>>],
  \* repeats, which the bucket's order hides until it is sorted
  [ids |-> <<2, 1, 1, 3>>, l1 |-> <<0, 0, 1>>,
   bits |-> <<{0, 1}, {1, 2}, {1, 4}>>],
  [ids |-> <<1, 2, 1>>, l1 |-> <<1, 1>>, bits |-> <<{0, 1}, {0, 6}>>],
  [ids |-> <<3, 3, 1>>, l1 |-> <<0, 0, 1>>, bits |-> <<{0, 1}, {0}, {2, 4}>>],
  \* one bucket over the accepted size
  [ids |-> <<1, 2, 3, 4>>, l1 |-> <<0, 0, 0, 0>>,
   bits |-> <<{0}, {1}, {2}, {3}>>]}

MCPieces ==
  UNION {
    {[ids |-> y.ids,
      l1 |-> [x \in Ran(y.ids) |-> y.l1[x]],
      l2 |-> [x \in Ran(y.ids) |-> [s \in Seeds |-> c[s][x]]]] :
        c \in [Seeds ->
                {f \in [Ran(y.ids) -> UNION {y.bits[x] : x \in Ran(y.ids)}] :
                   \A x \in Ran(y.ids) : f[x] \in y.bits[x]}]} :
    y \in Layouts}

============================================================================
