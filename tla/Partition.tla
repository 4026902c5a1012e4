----------------------------- MODULE Partition -----------------------------
(***************************************************************************)
(* The concurrent part of an index build, src/src/build.cc: n readers are  *)
(* read by n threads, which hash the keys and count those of each segment; *)
(* the identifiers are then scattered to n segments, by one thread or by   *)
(* several (the multi-head shuffle), or moved in place when there is no    *)
(* extra memory; and n threads build one segment each.  A single reader,   *)
(* or several with few keys, are read by the caller's thread and make one  *)
(* piece.  These are Build(bool, uint32_t, DataReaders, ...), Build(V96*,  *)
(* V96*, vector<size_t>&, ...), Build(V96*, V96*, vector<IndexPiece>&) and *)
(* the two forms of Shuffle they use.                                      *)
(*                                                                         *)
(* A key is only told apart by its segment (L0Hash % n) or by being one    *)
(* the builder rejects, an identifier by its index in the array.           *)
(***************************************************************************)
EXTENDS Integers, FiniteSets

CONSTANTS
  Few,       (* keys per reader below which one piece is made: 8192        *)
  HeadUnit,  (* items of the smallest segment per head: 2^20               *)
  MaxPiece,  (* UINT32_MAX, the largest segment                            *)
  Inputs     (* the inputs: [n, total, keys, cut, extra] records           *)

Bad == -1      (* a key with a null pointer, or of a length out of range    *)
Empty == -1    (* nothing stored, nothing claimed                           *)

(* Reader r of n delivers the keys from cut[r] on, up to cut[r + 1]; extra *)
(* is use_extra_mem.                                                       *)
IsInput(in) ==
  /\ in.n \in Nat \ {0} /\ in.total \in Nat \ {0}
  /\ in.keys \in [0 .. in.total - 1 -> {Bad} \union (0 .. in.n - 1)]
  /\ in.cut \in [0 .. in.n -> 0 .. in.total]
  /\ in.cut[0] = 0 /\ in.cut[in.n] = in.total
  /\ \A r, q \in 0 .. in.n : r <= q => in.cut[r] <= in.cut[q]
  /\ in.extra \in BOOLEAN

ASSUME ParamAssumption == {Few, HeadUnit, MaxPiece} \subseteq Nat \ {0}

ASSUME InputAssumption == \A in \in Inputs : IsInput(in)

VARIABLES
  input,
  phase,    (* "start", "whole", "read", "check", "layout",                *)
            (* "inplace", "single", "scatter", "build", "merge" or "done"  *)
  status,   (* what is returned                                            *)
  ids,      (* the array: the segment of each identifier generated so far  *)
  next,     (* reader thread -> index of its next key                      *)
  temp,     (* reader thread -> its counts                                 *)
  added,    (* reader thread -> how many of its counts it has added        *)
  stopped,  (* the reader threads that returned early                      *)
  fail,     (* the flag they set                                           *)
  shuffle,  (* counts of the segments, later their offsets                 *)
  size,     (* sizes of the pieces                                         *)
  loop,     (* counter of the loop the main thread is in                   *)
  offset,   (* its running offset                                          *)
  border,   (* where each segment ends, for the in-place shuffle           *)
  heads,    (* number of scatter threads                                   *)
  ctx,      (* head -> segment -> range [off, end] it still may fill       *)
  pos,      (* scatter thread -> index of the identifier at hand           *)
  idx,      (* scatter thread -> segment -> head it fills                  *)
  probed,   (* scatter thread -> heads found full for this identifier      *)
  slot,     (* scatter thread -> slot claimed, not yet written             *)
  hand,     (* index of the identifier an in-place cycle has in hand       *)
  shadow,   (* slot -> index of the identifier stored there, in the array  *)
            (* the pieces are built from                                   *)
  part      (* piece -> what its thread returned, or "running"             *)

readVars == <<ids, next, temp, added, stopped, fail>>
layVars == <<offset, border>>
scatterVars == <<ctx, pos, idx, probed, slot>>
arrayVars == <<hand, shadow>>
vars == <<input, phase, status, readVars, shuffle, size, loop, layVars,
          heads, scatterVars, arrayVars, part>>

N == input.n
Segments == 0 .. N - 1
Readers == 0 .. N - 1
Total == input.total
Items == 0 .. Total - 1
Heads == 0 .. heads - 1

(* How the loops that share sz things between h heads cut them: head i     *)
(* gets those from Cut(sz, h, i) to Cut(sz, h, i + 1), one more for each   *)
(* of the first sz % h.                                                    *)
Cut(sz, h, i) == i * (sz \div h) + (IF i < sz % h THEN i ELSE sz % h)

PieceStatus == {"OK", "CONFLICT", "OUT_OF_CHANCE"}

----------------------------------------------------------------------------
Init ==
  /\ input \in Inputs
  /\ phase = "start" /\ status = "running"
  /\ ids = [i \in 0 .. input.total - 1 |-> Empty]
  /\ next = [r \in Readers |-> input.cut[r]]
  /\ temp = [r \in Readers |-> [s \in Segments |-> 0]]
  /\ added = [r \in Readers |-> 0]
  /\ stopped = {} /\ fail = FALSE
  /\ shuffle = [s \in Segments |-> 0]
  /\ size = [s \in Segments |-> 0]
  /\ loop = 0 /\ offset = 0
  /\ border = [s \in Segments |-> 0]
  /\ heads = 0
  /\ ctx = <<>> /\ pos = <<>> /\ idx = <<>> /\ probed = <<>> /\ slot = <<>>
  /\ hand = Empty
  /\ shadow = [x \in 0 .. input.total - 1 |-> Empty]
  /\ part = [s \in Segments |-> "running"]

(* A single reader, or few keys: one piece is made of all.                 *)
Whole == N = 1 \/ Total < Few * N

Start ==
  /\ phase = "start"
  /\ IF Whole /\ Total > MaxPiece
     THEN phase' = "done" /\ status' = "BAD_INPUT"
     ELSE phase' = (IF Whole THEN "whole" ELSE "read") /\ UNCHANGED status
  /\ UNCHANGED <<input, readVars, shuffle, size, loop, layVars, heads,
                 scatterVars, arrayVars, part>>

(* The readers are read one after the other, up to a bad key.              *)
ReadWhole ==
  /\ phase = "whole" /\ loop < Total
  /\ IF input.keys[loop] = Bad
     THEN phase' = "done" /\ status' = "BAD_INPUT" /\ UNCHANGED <<ids, loop>>
     ELSE /\ ids' = [ids EXCEPT ![loop] = input.keys[loop]]
          /\ loop' = loop + 1
          /\ UNCHANGED <<phase, status>>
  /\ UNCHANGED <<input, next, temp, added, stopped, fail, shuffle, size,
                 layVars, heads, scatterVars, arrayVars, part>>

BuildWhole ==
  /\ phase = "whole" /\ loop = Total
  /\ size' = [size EXCEPT ![0] = Total]
  /\ \E result \in PieceStatus :
       /\ part' = [part EXCEPT ![0] = result]
       /\ status' = result
  /\ phase' = "done"
  /\ UNCHANGED <<input, readVars, shuffle, loop, layVars, heads, scatterVars,
                 arrayVars>>

(* A reader thread reads a good key, writes its identifier and counts it.  *)
ReadKey(r) ==
  /\ phase = "read" /\ r \notin stopped
  /\ next[r] < input.cut[r + 1]
  /\ LET key == input.keys[next[r]]
     IN  /\ key # Bad
         /\ ids' = [ids EXCEPT ![next[r]] = key]
         /\ temp' = [temp EXCEPT ![r][key] = @ + 1]
  /\ next' = [next EXCEPT ![r] = @ + 1]
  /\ UNCHANGED <<input, phase, status, added, stopped, fail, shuffle, size,
                 loop, layVars, heads, scatterVars, arrayVars, part>>

(* A bad key: the thread raises the flag and returns without its counts.   *)
RejectKey(r) ==
  /\ phase = "read" /\ r \notin stopped
  /\ next[r] < input.cut[r + 1]
  /\ input.keys[next[r]] = Bad
  /\ fail' = TRUE
  /\ stopped' = stopped \union {r}
  /\ UNCHANGED <<input, phase, status, ids, next, temp, added, shuffle,
                 size, loop, layVars, heads, scatterVars, arrayVars, part>>

(* AddRelaxed: the thread adds its counts, one segment after the other.    *)
AddCount(r) ==
  /\ phase = "read" /\ r \notin stopped
  /\ next[r] = input.cut[r + 1] /\ added[r] < N
  /\ shuffle' = [shuffle EXCEPT ![added[r]] = @ + temp[r][added[r]]]
  /\ added' = [added EXCEPT ![r] = @ + 1]
  /\ UNCHANGED <<input, phase, status, ids, next, temp, stopped, fail, size,
                 loop, layVars, heads, scatterVars, arrayVars, part>>

(* The thread has returned.                                                *)
ReaderDone(r) == r \in stopped \/ added[r] = N

JoinReaders ==
  /\ phase = "read"
  /\ \A r \in Readers : ReaderDone(r)
  /\ IF fail THEN phase' = "done" /\ status' = "BAD_INPUT"
             ELSE phase' = "check" /\ UNCHANGED status
  /\ UNCHANGED <<input, readVars, shuffle, size, loop, layVars, heads,
                 scatterVars, arrayVars, part>>

Unbuildable(s) == shuffle[s] = 0 \/ shuffle[s] > MaxPiece

(* A segment that is empty or too large ends the build, with no retry.     *)
CheckPieces ==
  /\ phase = "check"
  /\ IF \E s \in Segments : Unbuildable(s)
     THEN /\ phase' = "done" /\ status' = "BAD_INPUT"
          /\ UNCHANGED <<size, loop, offset>>
     ELSE /\ phase' = "layout"
          /\ size' = shuffle
          /\ loop' = 0 /\ offset' = 0
          /\ UNCHANGED status
  /\ UNCHANGED <<input, readVars, shuffle, border, heads, scatterVars,
                 arrayVars, part>>

(* The counts become offsets; the in-place shuffle notes where each ends.  *)
LayOutPiece ==
  /\ phase = "layout" /\ loop < N
  /\ shuffle' = [shuffle EXCEPT ![loop] = offset]
  /\ offset' = offset + size[loop]
  /\ border' = IF input.extra THEN border
               ELSE [border EXCEPT ![loop] = offset + size[loop]]
  /\ loop' = loop + 1
  /\ UNCHANGED <<input, phase, status, readVars, size, heads, scatterVars,
                 arrayVars, part>>

(* Without extra memory, the one array is shuffled.                        *)
StartInPlace ==
  /\ phase = "layout" /\ loop = N /\ ~ input.extra
  /\ phase' = "inplace" /\ loop' = 0
  /\ shadow' = [x \in Items |-> x]
  /\ UNCHANGED <<input, status, readVars, shuffle, size, layVars, heads,
                 scatterVars, hand, part>>

SegmentAt(x) == ids[shadow[x]]

NextSegment ==
  /\ phase = "inplace" /\ loop < N /\ shuffle[loop] >= border[loop]
  /\ loop' = loop + 1
  /\ UNCHANGED <<input, phase, status, readVars, shuffle, size, layVars, heads,
                 scatterVars, arrayVars, part>>

(* The identifier stays, or is taken in hand.                              *)
KeepOrTake ==
  /\ phase = "inplace" /\ hand = Empty
  /\ loop < N /\ shuffle[loop] < border[loop]
  /\ IF SegmentAt(shuffle[loop]) = loop
     THEN shuffle' = [shuffle EXCEPT ![loop] = @ + 1] /\ UNCHANGED hand
     ELSE hand' = shadow[shuffle[loop]] /\ UNCHANGED shuffle
  /\ UNCHANGED <<input, phase, status, readVars, size, loop, layVars, heads,
                 scatterVars, shadow, part>>

(* It is swapped with the next one in its segment that does not belong     *)
(* there, or ends the cycle where that began.                              *)
Displace ==
  /\ phase = "inplace" /\ hand # Empty
  /\ LET s == ids[hand]
     IN  IF s = loop
         THEN /\ shadow' = [shadow EXCEPT ![shuffle[s]] = hand]
              /\ shuffle' = [shuffle EXCEPT ![s] = @ + 1]
              /\ hand' = Empty
         ELSE \E x \in Items :
                /\ shuffle[s] <= x /\ SegmentAt(x) # s
                /\ \A y \in shuffle[s] .. x - 1 : SegmentAt(y) = s
                /\ shadow' = [shadow EXCEPT ![x] = hand]
                /\ hand' = shadow[x]
                /\ shuffle' = [shuffle EXCEPT ![s] = x + 1]
  /\ UNCHANGED <<input, phase, status, readVars, size, loop, layVars, heads,
                 scatterVars, part>>

(* One thread scatters, or the segments are cut in ranges, one per head,   *)
(* the array in runs, one per thread, and the threads start.               *)
StartScatter ==
  /\ phase = "layout" /\ loop = N /\ input.extra
  /\ \E min \in {size[s] : s \in Segments} :
       /\ \A s \in Segments : min <= size[s]
       /\ heads' = LET h == min \div HeadUnit IN IF h > N THEN N ELSE h
  /\ IF heads' <= 1
     THEN /\ phase' = "single" /\ loop' = 0
          /\ UNCHANGED scatterVars
     ELSE /\ phase' = "scatter" /\ UNCHANGED loop
          /\ LET H == 0 .. heads' - 1
                 RangeOf(h, s) ==
                   [off |-> shuffle[s] + Cut(size[s], heads', h),
                    end |-> shuffle[s] + Cut(size[s], heads', h + 1)]
             IN  /\ ctx' = [h \in H |-> [s \in Segments |-> RangeOf(h, s)]]
                 /\ pos' = [h \in H |-> Cut(Total, heads', h)]
                 /\ idx' = [h \in H |-> [s \in Segments |-> h]]
                 /\ probed' = [h \in H |-> 0]
                 /\ slot' = [h \in H |-> Empty]
  /\ UNCHANGED <<input, status, readVars, shuffle, size, layVars, arrayVars,
                 part>>

(* The shuffle by one thread.                                              *)
StoreNext ==
  /\ phase = "single" /\ loop < Total
  /\ LET s == ids[loop]
     IN  /\ shadow' = [shadow EXCEPT ![shuffle[s]] = loop]
         /\ shuffle' = [shuffle EXCEPT ![s] = @ + 1]
  /\ loop' = loop + 1
  /\ UNCHANGED <<input, phase, status, readVars, size, layVars, heads,
                 scatterVars, hand, part>>

(* The run of the array scatter thread h works on ends here.               *)
RunEnd(h) == Cut(Total, heads, h + 1)

(* Faulty variant of HasRoom: off by one.                                  *)
HasRoomPastEnd(range) == range.off <= range.end
HasRoom(range) == range.off < range.end

(* Faulty variant of NextHead: no wrap.                                    *)
NextHeadNoWrap(k) == k + 1
NextHead(k) == (k + 1) % heads

(* Faulty variant of LastProbe: one head is not probed.                    *)
LastProbeTooSoon(n) == n + 2 = heads
LastProbe(n) == n + 1 = heads

(* AddRelaxed on the range thread h fills: a slot below the end is its     *)
(* own; otherwise the range is full and the thread goes to the next head,  *)
(* and leaves the identifier when it has probed them all.                  *)
Claim(h) ==
  /\ phase = "scatter"
  /\ slot[h] = Empty /\ pos[h] < RunEnd(h)
  /\ LET s == ids[pos[h]]
         k == idx[h][s]
         range == ctx[k][s]
     IN  /\ ctx' = [ctx EXCEPT ![k][s].off = @ + 1]
         /\ IF HasRoom(range)
            THEN /\ slot' = [slot EXCEPT ![h] = range.off]
                 /\ UNCHANGED <<pos, idx, probed>>
            ELSE /\ idx' = [idx EXCEPT ![h][s] = NextHead(k)]
                 /\ LET last == LastProbe(probed[h])
                    IN  /\ probed' = [probed EXCEPT
                                        ![h] = IF last THEN 0 ELSE @ + 1]
                        /\ pos' = [pos EXCEPT
                                     ![h] = IF last THEN @ + 1 ELSE @]
                 /\ UNCHANGED slot
  /\ UNCHANGED <<input, phase, status, readVars, shuffle, size, loop, layVars,
                 heads, arrayVars, part>>

(* The thread writes the identifier in the slot it claimed.                *)
Store(h) ==
  /\ phase = "scatter" /\ slot[h] # Empty
  /\ shadow' = [shadow EXCEPT ![slot[h]] = pos[h]]
  /\ slot' = [slot EXCEPT ![h] = Empty]
  /\ pos' = [pos EXCEPT ![h] = @ + 1]
  /\ probed' = [probed EXCEPT ![h] = 0]
  /\ UNCHANGED <<input, phase, status, readVars, shuffle, size, loop, layVars,
                 heads, ctx, idx, hand, part>>

(* The array is ready, the arrays swapped when there are two, and a thread *)
(* per piece is started on its part of it.                                 *)
StartBuild ==
  /\ \/ phase = "single" /\ loop = Total
     \/ phase = "inplace" /\ loop = N
     \/ phase = "scatter" /\ \A h \in Heads : pos[h] = RunEnd(h)
  /\ phase' = "build"
  /\ loop' = 0
  /\ UNCHANGED <<input, status, readVars, shuffle, size, layVars, heads,
                 scatterVars, arrayVars, part>>

(* Build of a piece (module Displace) on its part of the array, the slots  *)
(* of its segment; only how it ends matters here.                          *)
BuildPiece(s) ==
  /\ phase = "build" /\ part[s] = "running"
  /\ \E result \in PieceStatus : part' = [part EXCEPT ![s] = result]
  /\ UNCHANGED <<input, phase, status, readVars, shuffle, size, loop, layVars,
                 heads, scatterVars, arrayVars>>

JoinPieces ==
  /\ phase = "build"
  /\ \A s \in Segments : part[s] # "running"
  /\ phase' = "merge" /\ status' = "OK"
  /\ loop' = 0
  /\ UNCHANGED <<input, readVars, shuffle, size, layVars, heads, scatterVars,
                 arrayVars, part>>

(* Faulty variant of Worse: the last failure wins.                         *)
WorseOfLast(st, p) == IF p = "OK" THEN st ELSE p

(* A conflict outweighs a lost chance, and both outweigh success.          *)
Worse(st, p) ==
  IF p = "CONFLICT" THEN "CONFLICT"
  ELSE IF p = "OUT_OF_CHANCE" /\ st # "CONFLICT" THEN "OUT_OF_CHANCE"
  ELSE st

MergePart ==
  /\ phase = "merge" /\ loop < N
  /\ status' = Worse(status, part[loop])
  /\ loop' = loop + 1
  /\ UNCHANGED <<input, phase, readVars, shuffle, size, layVars, heads,
                 scatterVars, arrayVars, part>>

Return ==
  /\ phase = "merge" /\ loop = N
  /\ phase' = "done"
  /\ UNCHANGED <<input, status, readVars, shuffle, size, loop, layVars, heads,
                 scatterVars, arrayVars, part>>

Terminated == phase = "done" /\ UNCHANGED vars

ReaderStep(r) == ReadKey(r) \/ RejectKey(r) \/ AddCount(r)
ScatterStep(h) == Claim(h) \/ Store(h)
MainStep ==
  \/ Start \/ ReadWhole \/ BuildWhole
  \/ StartInPlace \/ NextSegment \/ KeepOrTake \/ Displace
  \/ JoinReaders \/ CheckPieces \/ LayOutPiece \/ StartScatter \/ StoreNext
  \/ StartBuild \/ JoinPieces \/ MergePart \/ Return

Next ==
  \/ \E r \in Readers : ReaderStep(r)
  \/ \E h \in Heads : ScatterStep(h)
  \/ \E s \in Segments : BuildPiece(s)
  \/ MainStep
  \/ Terminated

Spec == Init /\ [][Next]_vars

----------------------------------------------------------------------------
(* The identifiers of a segment, and of the segments before it.            *)
OfSegment(s) == {i \in Items : input.keys[i] = s}
Before(s) == {i \in Items : input.keys[i] \in 0 .. s - 1}

(* The slots of a segment in the array its piece is built from.            *)
SlotsOf(s) ==
  LET first == Cardinality(Before(s))
  IN  first .. first + Cardinality(OfSegment(s)) - 1

----------------------------------------------------------------------------
(* The variables have their types: no thread leaves its run of the array   *)
(* or the heads there are, and no slot it claims lies outside the array    *)
(* (build.cc:653-719 and 784-816).                                         *)
TypeOK ==
  /\ IsInput(input)
  /\ phase \in {"start", "whole", "read", "check", "layout", "inplace",
                "single", "scatter", "build", "merge", "done"}
  /\ status \in PieceStatus \union {"running", "BAD_INPUT"}
  /\ ids \in [Items -> Segments \union {Empty}]
  /\ next \in [Readers -> 0 .. Total]
  /\ temp \in [Readers -> [Segments -> Nat]]
  /\ added \in [Readers -> 0 .. N]
  /\ stopped \subseteq Readers /\ fail \in BOOLEAN
  /\ shuffle \in [Segments -> Nat]
  /\ size \in [Segments -> Nat]
  /\ loop \in Nat /\ offset \in Nat
  /\ border \in [Segments -> Nat]
  /\ heads \in 0 .. N
  /\ hand \in Items \union {Empty}
  /\ shadow \in [Items -> Items \union {Empty}]
  /\ part \in [Segments -> PieceStatus \union {"running"}]
  /\ phase = "scatter" =>
       /\ heads > 1
       /\ ctx \in [Heads -> [Segments -> [off : Nat, end : Nat]]]
       /\ pos \in [Heads -> 0 .. Total]
       /\ idx \in [Heads -> [Segments -> Heads]]
       /\ probed \in [Heads -> 0 .. heads - 1]
       /\ slot \in [Heads -> Items \union {Empty}]

(* A slot has one owner: no two scatter threads hold the same slot, and    *)
(* none is claimed again once it is written (build.cc:711-717).            *)
OneOwner ==
  phase = "scatter" =>
    \A h \in Heads : slot[h] # Empty =>
      /\ slot[h] \in Items
      /\ shadow[slot[h]] = Empty
      /\ \A g \in Heads \ {h} : slot[g] # slot[h]

(* The array each piece is built from holds the identifiers of its segment *)
(* and no other, none lost and none twice, whatever thread moved them and  *)
(* with or without extra memory: the heads that run out are made up for by *)
(* the others, and no count of a reader thread is lost or doubled, in      *)
(* whatever order the threads add theirs (build.cc:633-720 and 784-812).   *)
Partitioned ==
  phase \in {"build", "merge"} =>
    \A s \in Segments :
      /\ size[s] = Cardinality(OfSegment(s))
      /\ \A x \in SlotsOf(s) : shadow[x] \in OfSegment(s)
      /\ \A i \in OfSegment(s) : \E x \in SlotsOf(s) : shadow[x] = i

(* What the caller acts on: bad input, which it does not retry, is told    *)
(* exactly for a key the builder rejects or a piece it cannot build; a     *)
(* conflict in any piece counts, whatever the others return and in         *)
(* whatever order they end; success is that of all pieces (build.cc,       *)
(* 610-630 and 747-816).                                                   *)
StatusExact ==
  phase = "done" =>
    LET Sizes == IF Whole THEN {Total}
                 ELSE {Cardinality(OfSegment(s)) : s \in Segments}
        Pieces == IF Whole THEN {0} ELSE Segments
    IN  /\ status = "BAD_INPUT" <=>
             \/ \E i \in Items : input.keys[i] = Bad
             \/ ~ Sizes \subseteq 1 .. MaxPiece
        /\ status # "BAD_INPUT" =>
             /\ status = "CONFLICT" <=> \E s \in Pieces : part[s] = "CONFLICT"
             /\ status = "OK" <=> \A s \in Pieces : part[s] = "OK"

============================================================================
