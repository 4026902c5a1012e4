------------------------------- MODULE Output -------------------------------
(***************************************************************************)
(* What a build relies on when it writes its pack through an IDataWriter   *)
(* on a file: the file is always a prefix of the stream of bytes the build *)
(* hands over, and a call that answers FALSE is the last one to have any   *)
(* effect.  A call that answers TRUE says little: its bytes may still be   *)
(* in memory.  Module FileWriter implements this module.                   *)
(***************************************************************************)
EXTENDS Integers

CONSTANT Lengths   (* the lengths of a write                                *)

VARIABLES
  given,    (* number of bytes the writer has answered TRUE for            *)
  stored,   (* number of bytes in the file                                 *)
  open,     (* whether the file is still open                              *)
  answer    (* what the last call returned                                 *)

vars == <<given, stored, open, answer>>

Init == given = 0 /\ stored = 0 /\ open = TRUE /\ answer = TRUE

(* The file does not take the stream up to its end.                        *)
Break(end) ==
  /\ open /\ open' = FALSE
  /\ stored' \in stored .. end - 1
  /\ answer' = FALSE
  /\ UNCHANGED given

Refuse == ~ open /\ answer' = FALSE /\ UNCHANGED <<given, stored, open>>

Write(n) ==
  \/ /\ open
     /\ given' = given + n
     /\ stored' \in stored .. given + n
     /\ answer' = TRUE
     /\ UNCHANGED open
  \/ Break(given + n)
  \/ Refuse

Flush ==
  \/ open /\ stored' = given /\ answer' = TRUE /\ UNCHANGED <<given, open>>
  \/ Break(given)
  \/ Refuse

(* The destructor, which can tell nobody that it failed.                   *)
Close ==
  /\ open /\ open' = FALSE
  /\ stored' \in stored .. given
  /\ UNCHANGED <<given, answer>>

Next == (\E n \in Lengths : Write(n)) \/ Flush \/ Close

Spec == Init /\ [][Next]_vars

============================================================================
