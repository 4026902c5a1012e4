----------------------------- MODULE MCRebuild -----------------------------
(***************************************************************************)
(* One, two and three readers of a patch over bases of up to seven lines,  *)
(* two lines to a byte of the bitmap, windows of two keys.  The patches    *)
(* have keys of the same byte, line and shard in one and in several        *)
(* readers, new keys, bad keys, and empty readers.                         *)
(***************************************************************************)
EXTENDS Rebuild

In(item, patch) == [item |-> item, indexOnly |-> FALSE, patch |-> patch]

(* Any three keys in two readers over three lines; 4 is not in the base.   *)
AnyThree ==
  {In(3, <<<<a, b>>, <<c>>>>) : a, b, c \in {Bad, 0, 1, 2, 4}}

MCInputs == AnyThree \union {
  \* three readers, with lines that share bytes across shards
  In(7, <<<<0, 3>>, <<1, 9>>, <<2>>>>),
  In(5, <<<<4>>, <<>>, <<1, 0>>>>),
  In(4, <<<<2>>, <<3, 3>>, <<0>>>>),
  In(6, <<<<5, 8, 4>>, <<2, 3>>, <<>>>>),
  In(3, <<<<0>>, <<1>>, <<2>>>>),
  \* one reader
  In(5, <<<<1, 7, 4, 0>>>>),
  In(2, <<<<0, 5, 0>>>>),
  In(3, <<<<5, 5>>>>),
  In(1, <<<<>>>>),
  \* refused at once
  In(2, <<<<0>>, <<>>, <<1>>>>),
  In(3, <<>>),
  In(5, <<<<0>>, <<>>, <<>>, <<>>>>),
  [item |-> 3, indexOnly |-> TRUE, patch |-> <<<<0>>>>]}

============================================================================
