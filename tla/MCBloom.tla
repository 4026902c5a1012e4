------------------------------ MODULE MCBloom ------------------------------
(***************************************************************************)
(* Words of eight bits, the shortest Divisor has, and a filter of each     *)
(* number of blocks a word can hold.  Two keys that may or may not share a *)
(* block, and that share a bit; a dump is cut within the counter, after    *)
(* it, within a block and between blocks.                                  *)
(***************************************************************************)
EXTENDS Bloom, TLC

CONSTANTS k1, k2

MCKeys == {k1, k2}

MCHashOf == k1 :> [h |-> 201, bits |-> {1, 5, 9}]
            @@ k2 :> [h |-> 254, bits |-> {5, 7}]

(* The capacity of n blocks, rounded up from 8n - 7 .. 8n.                 *)
MCCapacities == {0} \union {8 * n - (n % 8) : n \in 1 .. 255}

MCCutSizes == {4, 8, 20, 40}

============================================================================
