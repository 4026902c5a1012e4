------------------------------- MODULE InOrder -------------------------------
(***************************************************************************)
(* What a batch operation takes a pipeline for: the items of the batch are *)
(* finished one by one, in their order, each from its own intermediate     *)
(* results.  The last stage may count and append as a plain loop would.    *)
(* Module Pipeline implements this module.                                 *)
(***************************************************************************)
EXTENDS Naturals, Sequences

VARIABLES
  total,    (* number of items                                             *)
  done      (* the items finished                                          *)

Init == done = <<>>

(* The next item is finished.                                              *)
Finish ==
  /\ Len(done) < total
  /\ done' = Append(done, Len(done))
  /\ UNCHANGED total

Spec == Init /\ [][Finish]_<<total, done>> /\ WF_<<total, done>>(Finish)

============================================================================
