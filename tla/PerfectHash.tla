---------------------------- MODULE PerfectHash ----------------------------
(***************************************************************************)
(* What one attempt to build the index of a piece (a segment of the keys)  *)
(* promises, whatever the algorithm.  The attempt ends in one of three     *)
(* ways:                                                                   *)
(*   - "OK": it leaves a minimal perfect hash of the identifiers;          *)
(*   - "CONFLICT": an identifier is repeated, or the first-level hash puts *)
(*     more identifiers in one bucket than the builder accepts;            *)
(*   - "OUT_OF_CHANCE": the displacement search ran out of seeds.          *)
(* Module Displace is the algorithm, and implements this module.           *)
(***************************************************************************)
EXTENDS Naturals, Sequences

VARIABLES
  keys,      (* the identifiers given to the attempt                       *)
  crowded,   (* whether a first-level bucket is over the accepted size     *)
  result,    (* "running", or how the attempt ended                        *)
  position   (* identifier -> item number, once the attempt has succeeded  *)

vars == <<keys, crowded, result, position>>

Elements(s) == {s[i] : i \in DOMAIN s}

HasRepeat(s) == \E i, j \in DOMAIN s : i # j /\ s[i] = s[j]

(* The n identifiers take n different item numbers, all below n.           *)
IsMinimalPerfect(f, s) ==
  /\ f \in [Elements(s) -> 0 .. Len(s) - 1]
  /\ \A i, j \in DOMAIN s : f[s[i]] = f[s[j]] => i = j

Init ==
  /\ keys # <<>>
  /\ crowded \in BOOLEAN
  /\ result = "running"
  /\ position = <<>>

Succeed ==
  /\ result = "running"
  /\ IsMinimalPerfect(position', keys)
  /\ result' = "OK"
  /\ UNCHANGED <<keys, crowded>>

RefuseConflict ==
  /\ result = "running"
  /\ crowded \/ HasRepeat(keys)
  /\ result' = "CONFLICT"
  /\ UNCHANGED <<keys, crowded, position>>

GiveUp ==
  /\ result = "running"
  /\ result' = "OUT_OF_CHANCE"
  /\ UNCHANGED <<keys, crowded, position>>

Next == Succeed \/ RefuseConflict \/ GiveUp

Spec == Init /\ [][Next]_vars

============================================================================
