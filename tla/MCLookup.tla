------------------------------ MODULE MCLookup ------------------------------
(***************************************************************************)
(* Keys of the pack only, of the patch only, of both and of neither; an    *)
(* absent key is given the position of a line or the one past the last.    *)
(* The depths of the lookups, one to four cells per stage, and batches of  *)
(* every length up to a round over a full pipeline.                        *)
(***************************************************************************)
EXTENDS Lookup, TLC

CONSTANTS inBase, inPatch, inBoth, nearby, beyond

MCKeys == {inBase, inPatch, inBoth, nearby, beyond}

MCBase(type) ==
  [type |-> type, format |-> 1, line |-> <<inBase, inBoth>>,
   pos |-> (inBase :> 0 @@ inBoth :> 1 @@ inPatch :> 1
             @@ nearby :> 0 @@ beyond :> 2)]

MCPatch(type, format) ==
  [type |-> type, format |-> format, line |-> <<inPatch, inBoth>>,
   pos |-> (inPatch :> 0 @@ inBoth :> 1 @@ inBase :> 2
             @@ nearby :> 1 @@ beyond :> 2)]

MCNoPatch == [type |-> "none"]

MCPatterns == {<<inBase, inPatch, inBoth, nearby, beyond>>,
               <<beyond, inBoth, inBoth, inPatch, nearby, inBase, inBase>>}

MCBatches ==
  UNION {{[depth |-> d, width |-> w, n |-> c] : c \in 0 .. w * d + w + 1} :
           d \in {2, 3, 4, 7}, w \in 1 .. 4}

(* [op, type of the pack, patch, default, misses, inPlace]                 *)
MCKinds ==
  {<<"test", "set", MCNoPatch, FALSE, FALSE, FALSE>>}
  \cup {<<"locate", t, MCNoPatch, FALSE, FALSE, FALSE>> :
          t \in {"illegal", "index", "inline"}}
  \cup {<<"search", t, p, FALSE, FALSE, a>> :
          t \in {"set", "separated"}, p \in {MCNoPatch, MCPatch("set", 1)},
          a \in BOOLEAN}
  \cup {<<"fetch", "inline", p, d, m, FALSE>> :
          p \in {MCNoPatch, MCPatch("inline", 1)}, d \in BOOLEAN, m \in BOOLEAN}
  \cup {<<"fetch", t, p, FALSE, TRUE, FALSE>> :
          t \in {"set", "inline"},
          p \in {MCPatch("inline", 2), MCPatch("set", 1)}}

MCDepth(x) ==
  CASE x[1] = "test" -> 2
    [] x[1] = "locate" -> 3
    [] OTHER -> IF x[3].type = "none" THEN 4 ELSE 7

MCCalls ==
  {[op |-> x[1], base |-> MCBase(x[2]), patch |-> x[3], batch |-> b,
    keys |-> [i \in 0 .. b.n - 1 |-> p[(i % Len(p)) + 1]],
    default |-> x[4], misses |-> x[5], inPlace |-> x[6]] :
     <<x, b, p>> \in {y \in MCKinds \X MCBatches \X MCPatterns :
                        y[2].depth = MCDepth(y[1])}}

============================================================================
