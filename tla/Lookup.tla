------------------------------- MODULE Lookup -------------------------------
(***************************************************************************)
(* The batch lookups of a pack, with or without a patch laid over it:      *)
(* batch_locate, batch_search, batch_fetch and batch_try_fetch of shd.cc,  *)
(* whose stages are in search.cc, and batch_test of the Bloom filter.  The *)
(* stages run in a pipeline (module Pipeline); those that read the keys or *)
(* write an answer are told apart here.                                    *)
(*                                                                         *)
(* A pack is its lines, in the order of their positions, and the position  *)
(* its index gives every key: an absent key gets that of any line, or one  *)
(* past the last.  A line is told apart by its key.                        *)
(***************************************************************************)
EXTENDS Pipeline, FiniteSets

CONSTANTS
  Keys,
  NoKey,   (* what is no key: an answer written over it, or no line        *)
  Calls    (* [op, base, patch, batch, keys, default, misses, inPlace]     *)

Types == {"illegal", "index", "set", "inline", "separated"}

IsPack(p) ==
  /\ p.type \in Types
  /\ p.format \in Nat                        (* key_len and val_len        *)
  /\ p.line \in Seq(Keys)
  /\ p.pos \in [Keys -> 0 .. Len(p.line)]
  /\ \A j \in 1 .. Len(p.line) : p.pos[p.line[j]] = j - 1

(* No patch is a patch of type "none"; inPlace is keys == out.             *)
IsCall(c) ==
  /\ c.op \in {"locate", "search", "fetch", "test"}
  /\ IsPack(c.base)
  /\ c.patch.type # "none" => IsPack(c.patch)
  /\ c.batch \in [depth : Nat, width : Nat, n : Nat]
  /\ c.keys \in [0 .. c.batch.n - 1 -> Keys]
  /\ {c.default, c.misses, c.inPlace} \subseteq BOOLEAN
  /\ c.inPlace => c.op = "search"
  /\ c.op \in {"locate", "test"} => c.patch.type = "none"

ASSUME CallAssumption == NoKey \notin Keys /\ \A c \in Calls : IsCall(c)

VARIABLES
  call,
  keyAt,   (* item -> the key at keys[i], until an answer is written there *)
  id,      (* item -> the key its identifier was made from last            *)
  relay,   (* item -> the line of the patch that answers it                *)
  out,     (* item -> what was written for it                              *)
  hits,
  missed   (* what was appended to miss                                    *)

lookupVars == <<call, keyAt, id, relay, out, hits, missed>>
allVars == <<vars, lookupVars>>

None2 == <<"none", NoKey>>
Untouched == <<"untouched", NoKey>>

Patched(c) == c.patch.type # "none"

(* A call on a pack of the wrong kind, or on one and a patch that do not   *)
(* agree, returns at once.  (A pack that failed to load is "illegal".)     *)
Refuses(c) ==
  \/ c.op = "locate" /\ c.base.type = "illegal"
  \/ c.op = "search" /\ c.base.type \notin {"set", "inline"}
  \/ c.op = "fetch" /\ c.base.type # "inline"
  \/ /\ Patched(c)
     /\ \/ c.patch.type # c.base.type
        \/ c.patch.format # c.base.format

Depth(c) ==
  CASE c.op = "test" -> 2
    [] c.op = "locate" -> 3
    [] OTHER -> IF Patched(c) THEN 7 ELSE 4

(* A refused call goes through no stage, as one without items.             *)
LookupInit ==
  /\ call \in Calls
  /\ Init
  /\ batch = [call.batch EXCEPT !.n = IF Refuses(call) THEN 0 ELSE @]
  /\ batch.depth = Depth(call)
  /\ keyAt = call.keys
  /\ id = [i \in DOMAIN keyAt |-> NoKey]
  /\ relay = [i \in DOMAIN keyAt |-> None2]
  /\ out = [i \in DOMAIN keyAt |-> Untouched]
  /\ hits = 0
  /\ missed = <<>>

----------------------------------------------------------------------------
(* CalcPos and Process3: the key of the line the index gives a key, if any.*)
LineOf(p, key) ==
  IF key \in Keys /\ p.pos[key] < Len(p.line)
  THEN p.line[p.pos[key] + 1] ELSE NoKey

(* The item whose result the next call is given, after the first stage.    *)
Passed ==
  IF pc = "short" THEN ctx[Item]
  ELSE s[stage - 1][IF pc = "fill" THEN step ELSE k]

IdOf(r) == IF r \in DOMAIN id THEN id[r] ELSE NoKey

(* The line of a pack that has the key of item i, as identified for r.     *)
Match(name, p, i, r) ==
  IF keyAt[i] \in Keys /\ LineOf(p, IdOf(r)) = keyAt[i]
  THEN <<name, keyAt[i]>> ELSE None2

(* The first stage makes the identifier, from the key as it is then.       *)
Identify ==
  /\ id' = [id EXCEPT ![Item] = keyAt[Item]]
  /\ UNCHANGED <<call, keyAt, relay, out, hits, missed>>

(* The stage between patch and base: a hit is passed on, and a miss starts *)
(* again with the other pack.                                              *)
Relay ==
  LET v == Match("patch", call.patch, Item, Passed)
  IN  /\ relay' = [relay EXCEPT ![Item] = v]
      /\ id' = [id EXCEPT ![Item] = IF v = None2 THEN keyAt[Item] ELSE NoKey]
      /\ UNCHANGED <<call, keyAt, out, hits, missed>>

RelayOf(r) == IF r \in DOMAIN relay THEN relay[r] ELSE None2

(* What the last stage has found.                                          *)
Found ==
  IF Patched(call) /\ RelayOf(Passed) # None2 THEN RelayOf(Passed)
  ELSE Match("base", call.base, Item, Passed)

(* Faulty variant: MissAlways lists a miss the default value stands in for.*)
MissAlways == call.misses
ListsMiss == ~ call.default /\ call.misses

(* The last stage: the position; or the line, or nullptr, over the key if  *)
(* the caller wants so; or the value, the default value, the list.         *)
Answer ==
  LET v == Found
      w == IF call.op = "locate" THEN <<"at", IdOf(Passed)>>
           ELSE IF call.op = "fetch" /\ v = None2
           THEN IF call.default THEN <<"default", NoKey>> ELSE out[Item]
           ELSE v
  IN  /\ out' = [out EXCEPT ![Item] = w]
      /\ keyAt' = IF call.inPlace THEN [keyAt EXCEPT ![Item] = NoKey]
                  ELSE keyAt
      /\ hits' = IF call.op # "locate" /\ v # None2 THEN hits + 1 ELSE hits
      /\ missed' = IF call.op = "fetch" /\ v = None2 /\ ListsMiss
                   THEN Append(missed, Item) ELSE missed
      /\ UNCHANGED <<call, id, relay>>

Effect ==
  \/ stage = 1 /\ Identify
  \/ stage = 4 /\ D = 7 /\ Relay
  \/ stage = D /\ Answer
  \/ stage \notin {1, D} /\ ~ (stage = 4 /\ D = 7) /\ UNCHANGED lookupVars

LookupNext ==
  \/ (ShortCall \/ FillCall \/ SteadyCall \/ DrainCall) /\ Effect
  \/ Terminated /\ UNCHANGED lookupVars

LookupSpec == LookupInit /\ [][LookupNext]_allVars /\ WF_allVars(LookupNext)

----------------------------------------------------------------------------
(* The variables have their types; and the pipeline's have theirs: no call *)
(* of a stage is for an item outside of the batch.                         *)
LookupTypeOK ==
  /\ TypeOK
  /\ DOMAIN out = DOMAIN call.keys
  /\ \A i \in DOMAIN out :
       /\ keyAt[i] \in {call.keys[i], NoKey} /\ id[i] \in Keys \cup {NoKey}
       /\ relay[i][1] \in {"none", "patch"}
       /\ out[i][1] \in {"untouched", "none", "at", "base", "patch", "default"}
  /\ hits \in 0 .. n
  /\ missed \in Seq(0 .. n - 1)

(* The keys a pack has.                                                    *)
Content(p) == {p.line[j] : j \in 1 .. Len(p.line)}

(* The answer a plain map gives: a key of the patch is answered by the     *)
(* patch, another one of the pack by the pack.                             *)
Expected(key) ==
  IF Patched(call) /\ key \in Content(call.patch) THEN <<"patch", key>>
  ELSE IF key \in Content(call.base) THEN <<"base", key>>
  ELSE None2

Finished == {done[j] : j \in 1 .. Len(done)}
Misses == {i \in Finished : Expected(call.keys[i]) = None2}

(* What a batch lookup has written so far is what looking up the finished  *)
(* items one by one in a map, the patch before the pack, would write: the  *)
(* answer of each in its own place, the number of hits, and the misses in  *)
(* ascending order when there is no default value (shd.h: keys == out is   *)
(* OK).  The places of other items, and of misses to be listed or ignored, *)
(* are left alone, and so are all places by a call that is refused.        *)
AnswersRight ==
  LET want(i) ==
        LET e == Expected(call.keys[i])
        IN  IF i \notin Finished THEN Untouched
            ELSE IF call.op = "locate" THEN <<"at", call.keys[i]>>
            ELSE IF call.op # "fetch" \/ e # None2 THEN e
            ELSE IF call.default THEN <<"default", NoKey>> ELSE Untouched
  IN  /\ \A i \in DOMAIN out : out[i] = want(i)
      /\ call.op # "locate" => hits + Cardinality(Misses) = Len(done)
      /\ \A a \in 1 .. Len(missed) - 1 : missed[a] < missed[a + 1]
      /\ {missed[a] : a \in 1 .. Len(missed)} =
           (IF call.op = "fetch" /\ ~ call.default /\ call.misses
            THEN Misses ELSE {})
      /\ done # <<>> =>
           /\ call.op = "search" => call.base.type \in {"set", "inline"}
           /\ call.op = "fetch" => call.base.type = "inline"
           /\ Patched(call) => /\ call.patch.type = call.base.type
                              /\ call.patch.format = call.base.format

============================================================================
