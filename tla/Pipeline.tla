------------------------------ MODULE Pipeline ------------------------------
(***************************************************************************)
(* The software pipelines of src/src/pipeline.h, which the batch lookups   *)
(* run their stages in (search.cc, bbf.cc): n items go through the stages  *)
(* p1 .. pD, and between two stages of an item come those of others, so    *)
(* that a line of memory is there when it is needed.  The four templates   *)
(* are what the generator quoted in the file makes of the depths 2, 3, 4   *)
(* and 7.                                                                  *)
(*                                                                         *)
(* A stage is a function of the item's index and of the result of the      *)
(* stage before; a result is told apart by the item it stands for, and one *)
(* made from another item's result stands for none.                        *)
(***************************************************************************)
EXTENDS Integers, Sequences

CONSTANT Batches   (* [depth, width, n] records; width is Bubble + 1       *)

ASSUME BatchAssumption ==
  \A b \in Batches :
    b.depth \in Nat \ {0, 1} /\ b.width \in Nat \ {0} /\ b.n \in Nat

VARIABLES
  batch,
  pc,      (* "short", "fill", "steady", "drain" or "done"                 *)
  row,     (* which of the loops of this kind is running, from 1           *)
  step,    (* its counter, j or i                                          *)
  stage,   (* the stage to be called next                                  *)
  k,       (* the next of the cells, k in the code                         *)
  ctx,     (* item -> what its union holds, for a short batch              *)
  s,       (* stage -> cell -> what s1, s2, ... hold                       *)
  done     (* the items the last stage was called for, in order            *)

vars == <<batch, pc, row, step, stage, k, ctx, s, done>>

D == batch.depth
M == batch.width
n == batch.n

None == -1
Mixed == -2

(* Too few items to fill the pipeline.  (Faulty variant: ShortByOneRow.)   *)
ShortByOneRow(b) == b.n < b.width
Short(b) == b.n < b.width * (b.depth - 1)

Init ==
  /\ batch \in Batches
  /\ row = 1 /\ step = 0 /\ stage = 1
  /\ k = 0
  /\ ctx = [i \in 0 .. batch.width * (batch.depth - 1) - 2 |-> None]
  /\ s = [d \in 1 .. batch.depth - 1 |->
            [c \in 0 .. batch.width - 1 |-> None]]
  /\ done = <<>>
  /\ pc = IF ~ Short(batch) THEN "fill"
          ELSE IF batch.n = 0 THEN "done" ELSE "short"

(* What stage d makes of item i and of a result of stage d - 1.            *)
Result(d, in, i) == IF d = 1 \/ in = i THEN i ELSE Mixed

(* The item the next call is for.                                          *)
Item ==
  CASE pc = "short" -> step
    [] pc = "fill" -> M * (row - stage) + step
    [] pc = "steady" -> step - M * (stage - 1)
    [] pc = "drain" -> n - M * (stage - row) + step

(* A short batch goes through the stages one after the other; the results  *)
(* of an item share their place.                                           *)
ShortCall ==
  /\ pc = "short"
  /\ LET r == Result(stage, ctx[step], step)
     IN  IF stage < D
         THEN ctx' = [ctx EXCEPT ![step] = r] /\ UNCHANGED done
         ELSE done' = Append(done, r) /\ UNCHANGED ctx
  /\ IF step + 1 < n
     THEN step' = step + 1 /\ UNCHANGED <<pc, stage>>
     ELSE /\ step' = 0
          /\ stage' = stage + 1
          /\ pc' = IF stage = D THEN "done" ELSE pc
  /\ UNCHANGED <<batch, row, k, s>>

(* Stage d of an item, in cell c: the result of the stage before is in the *)
(* same cell of the array of that stage.                                   *)
Call(d, c) ==
  LET r == Result(d, IF d = 1 THEN None ELSE s[d - 1][c], Item)
  IN  IF d < D THEN s' = [s EXCEPT ![d][c] = r] /\ UNCHANGED done
               ELSE done' = Append(done, r) /\ UNCHANGED s

(* Fill hands over to the loop that keeps the pipeline full if there is    *)
(* another item, and else to the loops that empty it.  (Faulty variant:    *)
(* MoreOrNone.)                                                            *)
MoreOrNone == M * (D - 1) <= n
More == M * (D - 1) < n

(* The first D - 1 loops: the stages up to that of the loop, the last one  *)
(* first.                                                                  *)
FillCall ==
  /\ pc = "fill"
  /\ Call(stage, step)
  /\ IF stage > 1
     THEN stage' = stage - 1 /\ UNCHANGED <<pc, row, step>>
     ELSE IF step + 1 < M
     THEN step' = step + 1 /\ stage' = row /\ UNCHANGED <<pc, row>>
     ELSE IF row + 1 < D
     THEN row' = row + 1 /\ step' = 0 /\ stage' = row + 1 /\ UNCHANGED pc
     ELSE /\ pc' = IF More THEN "steady" ELSE "drain"
          /\ row' = 1
          /\ step' = IF More THEN M * (D - 1) ELSE 0
          /\ stage' = D
  /\ UNCHANGED <<batch, k, ctx>>

(* if (++k >= M) k = 0.                                                    *)
NextCell == IF k + 1 >= M THEN 0 ELSE k + 1

(* The loop that keeps the pipeline full: every stage, on items M apart.   *)
SteadyCall ==
  /\ pc = "steady"
  /\ Call(stage, k)
  /\ IF stage > 1
     THEN stage' = stage - 1 /\ UNCHANGED <<pc, step, k>>
     ELSE /\ stage' = D
          /\ k' = NextCell
          /\ IF step + 1 < n
             THEN step' = step + 1 /\ UNCHANGED pc
             ELSE pc' = "drain" /\ step' = 0
  /\ UNCHANGED <<batch, row, ctx>>

(* The last D - 1 loops: the stages after that of the loop.                *)
DrainCall ==
  /\ pc = "drain"
  /\ Call(stage, k)
  /\ IF stage > row + 1
     THEN stage' = stage - 1 /\ UNCHANGED <<pc, row, step, k>>
     ELSE /\ stage' = D
          /\ k' = NextCell
          /\ IF step + 1 < M
             THEN step' = step + 1 /\ UNCHANGED <<pc, row>>
             ELSE /\ step' = 0 /\ row' = row + 1
                  /\ pc' = IF row + 1 < D THEN "drain" ELSE "done"
  /\ UNCHANGED <<batch, ctx>>

Terminated == pc = "done" /\ UNCHANGED vars

Next == ShortCall \/ FillCall \/ SteadyCall \/ DrainCall \/ Terminated

(* One thread runs the loops, and no stage blocks.                         *)
Spec == Init /\ [][Next]_vars /\ WF_vars(Next)

----------------------------------------------------------------------------
(* The variables have their types; every call is for an item of the batch, *)
(* and a short batch fits its array: a lookup reads keys and writes        *)
(* results at this index.                                                  *)
TypeOK ==
  /\ batch \in Batches
  /\ pc \in {"short", "fill", "steady", "drain", "done"}
  /\ row \in 1 .. D /\ step \in 0 .. n + M /\ stage \in 1 .. D + 1
  /\ k \in 0 .. M - 1
  /\ \A d \in DOMAIN s : \A c \in DOMAIN s[d] : s[d][c] \in -2 .. n - 1
  /\ done \in Seq(-2 .. n - 1)
  /\ pc # "done" => Item \in 0 .. n - 1
  /\ pc = "short" => step \in DOMAIN ctx

(* The pipeline is a plain loop to the stages that count hits and append   *)
(* misses (BatchFetch, search.cc:160-195 and 266-324): a call that read the *)
(* result of another item, at a seam of the loops, would not finish its    *)
(* own, and a cell overwritten too early would lose an item.               *)
Contract == INSTANCE InOrder WITH total <- n

IsInOrder == Contract!Spec

============================================================================
