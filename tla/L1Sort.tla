------------------------------- MODULE L1Sort -------------------------------
(***************************************************************************)
(* L1Sort of src/src/build.cc: the identifiers of a piece are put in order *)
(* of first-level bucket, the largest bucket first, before Build (module   *)
(* Displace) looks for its seeds.  The buckets are counted and ordered by  *)
(* a radix sort of their counts; the identifiers then are copied to a      *)
(* second array, or moved in place along cycles.  A large array is first   *)
(* partitioned, again and again, into tiles that fit a cache.              *)
(*                                                                         *)
(* One thread sorts an array of its own.  An identifier is told apart by   *)
(* its first index in the array; its code, the 31 low bits of a hash,      *)
(* gives its bucket (module FirstLevel).                                   *)
(***************************************************************************)
EXTENDS FirstLevel, Sequences, FiniteSets

CONSTANTS
  Slack,        (* what a bucket may have over the number of buckets: 16   *)
  CountMax,     (* UINT16_MAX                                              *)
  Radix,        (* values of a digit of the radix sort: 2^8                *)
  Tile,         (* TILE_ITEMS: 2^16                                        *)
  LocalizeMin,  (* LOCALIZE_MIN_ITEMS: 2^18                                *)
  Inputs        (* [total, code, shadow] records                           *)

CellOf(code, total) == SkewMap(code, L1Band(total))

(* The greatest code of all may be given the cell after the last: such a   *)
(* stray identifier is followed as far as the first partition of a large   *)
(* array in place.                                                         *)
IsInput(in) ==
  /\ in.total \in Nat \ {0}
  /\ in.code \in [0 .. in.total - 1 -> 0 .. CodeMax]
  /\ in.shadow \in BOOLEAN
  /\ (\E i \in 0 .. in.total - 1 :
        CellOf(in.code[i], in.total) >= L1Size(in.total))
       => ~ in.shadow /\ in.total >= LocalizeMin /\ in.total > Tile

(* The largest count fits a tile: the partition depends on it.             *)
ASSUME ParamAssumption ==
  /\ {Slack, CountMax, LocalizeMin} \subseteq Nat
  /\ Radix \in Nat \ {0, 1}
  /\ Tile \in Nat \ {0} /\ CountMax <= Tile

(* What the proofs need to know of powers.                                 *)
ASSUME PowerAssumption ==
  /\ Radix ^ 0 = 1
  /\ \A d \in 0 .. CountMax : /\ Radix ^ d \in Nat \ {0}
                              /\ Radix ^ (d + 1) = Radix * Radix ^ d

ASSUME InputAssumption == \A in \in Inputs : IsInput(in)

(* Every code has a cell of the table: so it has but for the greatest one. *)
(* The proofs are about such inputs; run l1sort_top_code has another.      *)
NoStrays ==
  \A in \in Inputs : \A i \in 0 .. in.total - 1 :
    CellOf(in.code[i], in.total) < L1Size(in.total)

VARIABLES
  input,
  cell,      (* identifier -> its bucket, which the code recomputes        *)
  pc,        (* "count", "digits", "ranges", "copy", "tasks", "part",      *)
             (* "shuffle", "carry", "done", "refused" or "abort"           *)
  table,     (* counts and numbers of the buckets, [val, idx] records      *)
  digit,     (* digits the radix sort has gone through                     *)
  range,     (* bucket -> [idx, val], its next free slot and its end       *)
  ids,       (* the array                                                  *)
  shadow,    (* the second array                                           *)
  loop,      (* identifiers copied to it                                   *)
  tasks,     (* pending calls of L1SortLocalize, the next one first        *)
  queue,     (* buckets ShuffleInOrder has yet to go through               *)
  q,         (* bucket of the identifier in hand                           *)
  tmp,       (* the identifier in hand                                     *)
  hole       (* the slot it will be made up for in                         *)

sortVars == <<table, digit, range>>
moveVars == <<tasks, queue, q, tmp, hole>>
inputVars == <<input, cell>>
vars == <<inputVars, pc, sortVars, ids, shadow, loop, moveVars>>

Total == input.total
NBuckets == L1Size(Total)
Buckets == 0 .. NBuckets - 1
Items == 0 .. Total - 1
Bucket(id) == cell[id]
CountOf(b) == Cardinality({i \in Items : Bucket(i) = b})

None == -1

(* Faulty variant: LimitByBuckets forgets the greatest count.              *)
LimitByBuckets(n) == n + Slack
Limit(n) == IF n + Slack < CountMax THEN n + Slack ELSE CountMax

----------------------------------------------------------------------------
Init ==
  /\ input \in Inputs
  /\ cell = [i \in 0 .. input.total - 1 |-> CellOf(input.code[i], input.total)]
  /\ pc = "count"
  /\ table = <<>> /\ digit = 0 /\ range = <<>>
  /\ ids = [i \in 0 .. input.total - 1 |-> i]
  /\ shadow = [i \in 0 .. input.total - 1 |-> None]
  /\ loop = 0
  /\ tasks = <<>> /\ queue = <<>>
  /\ q = None /\ tmp = None /\ hole = None

Strays == {i \in Items : Bucket(i) \notin Buckets}

(* L1SortMarking, and the nullptr L1Sort returns.  The count of strays     *)
(* starts from what the memory after the table held.                       *)
Marking ==
  /\ pc = "count"
  /\ table' = [b \in Buckets |-> [val |-> CountOf(b), idx |-> b]]
  /\ \/ /\ \A b \in Buckets : CountOf(b) <= Limit(NBuckets)
        /\ pc' = "digits"
     \/ /\ \/ \E b \in Buckets : CountOf(b) > Limit(NBuckets)
           \/ Strays # {}
        /\ pc' = "refused"
  /\ UNCHANGED <<inputVars, digit, range, ids, shadow, loop, moveVars>>

DigitOf(i) == (table[i].val \div Radix ^ digit) % Radix

(* (1 << sft) <= max.  (Faulty variant: MoreDigitsBelow stops when equal.) *)
MoreDigitsBelow == \E i \in Buckets : Radix ^ digit < table[i].val
MoreDigits == \E i \in Buckets : Radix ^ digit <= table[i].val

(* A stable pass of the radix sort: an entry goes after those of a lower   *)
(* digit and those of its own that it comes after.                         *)
SortByDigit ==
  /\ pc = "digits" /\ MoreDigits
  /\ LET Before(i) == {k \in Buckets : \/ DigitOf(k) < DigitOf(i)
                                       \/ DigitOf(k) = DigitOf(i) /\ k < i}
     IN  table' = [j \in Buckets |->
                     table[CHOOSE i \in Buckets : Cardinality(Before(i)) = j]]
  /\ digit' = digit + 1
  /\ UNCHANGED <<inputVars, pc, range, ids, shadow, loop, moveVars>>

(* L1BucketAt: the bucket of a rank, the largest first.                    *)
AtRank(r) == table[NBuckets - 1 - r].idx

(* The start of each bucket, after those of lower rank.  (Faulty variant:  *)
(* StartOfInclusive counts the bucket itself.)                             *)
StartOfInclusive ==
  LET at[r \in 0 .. NBuckets] ==
        IF r = 0 THEN CountOf(AtRank(0))
        ELSE at[r - 1] + (IF r \in Buckets THEN CountOf(AtRank(r)) ELSE 0)
      rank(b) == CHOOSE r \in Buckets : AtRank(r) = b
  IN  [b \in Buckets |-> at[rank(b)]]

StartOf ==
  LET at[r \in 0 .. NBuckets] ==
        IF r = 0 THEN 0 ELSE at[r - 1] + CountOf(AtRank(r - 1))
      rank(b) == CHOOSE r \in Buckets : AtRank(r) = b
  IN  [b \in Buckets |-> at[rank(b)]]

Task(first, last, begin, end) ==
  [first |-> first, last |-> last, begin |-> begin, end |-> end]

(* The end of L1SortReorder, and the choice of the way to move.            *)
MakeRanges ==
  /\ pc = "digits" /\ ~ MoreDigits
  /\ LET start == StartOf
     IN  range' = [b \in Buckets |->
                     [idx |-> start[b], val |-> start[b] + CountOf(b)]]
  /\ IF input.shadow THEN pc' = "copy" /\ UNCHANGED <<tasks, queue>>
     ELSE IF Total < LocalizeMin
     THEN /\ pc' = "shuffle"
          /\ queue' = [i \in 1 .. NBuckets |-> i - 1]
          /\ UNCHANGED tasks
     ELSE /\ pc' = "tasks"
          /\ tasks' = <<Task(0, NBuckets, 0, Total)>>
          /\ UNCHANGED queue
  /\ UNCHANGED <<inputVars, table, digit, ids, shadow, loop, q, tmp, hole>>

(* The shuffle to another array.                                           *)
Copy ==
  /\ pc = "copy" /\ loop < Total
  /\ LET b == Bucket(ids[loop])
     IN  /\ shadow' = [shadow EXCEPT ![range[b].idx] = ids[loop]]
         /\ range' = [range EXCEPT ![b].idx = @ + 1]
  /\ loop' = loop + 1
  /\ UNCHANGED <<inputVars, pc, table, digit, ids, moveVars>>

CopyDone ==
  /\ pc = "copy" /\ loop = Total
  /\ pc' = "done"
  /\ UNCHANGED <<inputVars, sortVars, ids, shadow, loop, moveVars>>

(* The first rank after the task's first whose bucket starts in the second *)
(* half, or the last rank.                                                 *)
RankMid(t) ==
  LET midpoint == t.begin + (t.end - t.begin) \div 2
      search[w \in (t.first .. t.last) \X (t.first .. t.last)] ==
        LET low == w[1]
            high == w[2]
            mid == low + (high - low) \div 2
        IN  IF low >= high THEN low
            ELSE IF range[AtRank(mid)].idx < midpoint
                 THEN search[<<mid + 1, high>>] ELSE search[<<low, mid>>]
      found == search[<<t.first + 1, t.last>>]
  IN  IF found < t.last - 1 THEN found ELSE t.last - 1

Split(t) == range[AtRank(RankMid(t))].idx

Undivided(t) == t.end - t.begin <= Tile \/ t.last - t.first <= 1

(* L1SortLocalize of a range that is small, or of one bucket.              *)
ShuffleTile ==
  /\ pc = "tasks" /\ tasks # <<>>
  /\ LET t == Head(tasks)
     IN  /\ Undivided(t)
         /\ queue' = [i \in 1 .. t.last - t.first |-> AtRank(t.first + i - 1)]
  /\ tasks' = Tail(tasks)
  /\ pc' = "shuffle"
  /\ UNCHANGED <<inputVars, sortVars, ids, shadow, loop, q, tmp, hole>>

(* Of a larger one: Assert(split > begin && split < end).                  *)
ChooseSplit ==
  /\ pc = "tasks" /\ tasks # <<>>
  /\ LET t == Head(tasks)
     IN  /\ ~ Undivided(t)
         /\ pc' = IF t.begin < Split(t) /\ Split(t) < t.end
                  THEN "part" ELSE "abort"
  /\ UNCHANGED <<inputVars, sortVars, ids, shadow, loop, moveVars>>

(* The place of a stray is read where the sorted table begins: it follows  *)
(* that of the ranges, after an odd number of digits (bound: one).         *)
PlaceOf(b) == IF b \in Buckets THEN range[b].idx ELSE table[0].idx

GoesLeft(id, t) == PlaceOf(Bucket(id)) < Split(t)

(* The indices of a task's identifiers that go left, or do not.            *)
Lefts(t) == {i \in t.begin .. t.end - 1 : GoesLeft(ids[i], t)}
Cut(t) == t.begin + Cardinality(Lefts(t))
WrongLeft(t) == {i \in t.begin .. Cut(t) - 1 : i \notin Lefts(t)}
WrongRight(t) == {i \in Cut(t) .. t.end - 1 : i \in Lefts(t)}

(* std::partition swaps an identifier that goes right with one after it    *)
(* that goes left.                                                         *)
SwapPair ==
  /\ pc = "part"
  /\ LET t == Head(tasks)
     IN  \E i \in WrongLeft(t), j \in WrongRight(t) :
           ids' = [ids EXCEPT ![i] = ids[j], ![j] = ids[i]]
  /\ UNCHANGED <<inputVars, pc, sortVars, shadow, loop, moveVars>>

(* Faulty variant: HalvesOverlap gives the left half one bucket too many.  *)
HalvesOverlap(t) ==
  <<Task(t.first, RankMid(t) + 1, t.begin, Split(t)),
    Task(RankMid(t), t.last, Split(t), t.end)>>
Halves(t) ==
  <<Task(t.first, RankMid(t), t.begin, Split(t)),
    Task(RankMid(t), t.last, Split(t), t.end)>>

(* Assert(cut == ids + split), and the two calls.                          *)
Divide ==
  /\ pc = "part"
  /\ LET t == Head(tasks)
     IN  /\ WrongLeft(t) = {}
         /\ IF Cut(t) = Split(t)
            THEN pc' = "tasks" /\ tasks' = Halves(t) \o Tail(tasks)
            ELSE pc' = "abort" /\ UNCHANGED tasks
  /\ UNCHANGED <<inputVars, sortVars, ids, shadow, loop, queue, q, tmp, hole>>

TasksDone ==
  /\ pc = "tasks" /\ tasks = <<>>
  /\ pc' = "done"
  /\ UNCHANGED <<inputVars, sortVars, ids, shadow, loop, moveVars>>

(* ShuffleInOrder: the bucket at hand is full.                             *)
NextBucket ==
  /\ pc = "shuffle" /\ queue # <<>>
  /\ range[Head(queue)].idx >= range[Head(queue)].val
  /\ queue' = Tail(queue)
  /\ UNCHANGED <<inputVars, pc, sortVars, ids, shadow, loop, tasks, q, tmp,
                 hole>>

Unfilled ==
  /\ pc = "shuffle" /\ queue # <<>>
  /\ range[Head(queue)].idx < range[Head(queue)].val

SkipAndStay ==
  /\ Unfilled
  /\ Bucket(ids[range[Head(queue)].idx]) = Head(queue)
  /\ UNCHANGED vars

(* The identifier is where it belongs.  (Faulty variant: SkipAndStay.)     *)
Skip ==
  /\ Unfilled
  /\ LET p == Head(queue)
     IN  /\ Bucket(ids[range[p].idx]) = p
         /\ range' = [range EXCEPT ![p].idx = @ + 1]
  /\ UNCHANGED <<inputVars, pc, table, digit, ids, shadow, loop, moveVars>>

(* It is not: it is taken in hand, and leaves a hole.                      *)
OpenCycle ==
  /\ Unfilled
  /\ LET i == range[Head(queue)].idx
     IN  /\ Bucket(ids[i]) # Head(queue)
         /\ tmp' = ids[i] /\ q' = Bucket(ids[i]) /\ hole' = i
  /\ pc' = "carry"
  /\ UNCHANGED <<inputVars, sortVars, ids, shadow, loop, tasks, queue>>

(* The next slot of the bucket it belongs to: one that holds another of    *)
(* the bucket is passed, else the two are swapped.                         *)
Carry ==
  /\ pc = "carry" /\ q # Head(queue)
  /\ range' = [range EXCEPT ![q].idx = @ + 1]
  /\ LET j == range[q].idx
     IN  IF Bucket(ids[j]) = q
         THEN UNCHANGED <<ids, tmp, q>>
         ELSE /\ ids' = [ids EXCEPT ![j] = tmp]
              /\ tmp' = ids[j] /\ q' = Bucket(ids[j])
  /\ UNCHANGED <<inputVars, pc, table, digit, shadow, loop, tasks, queue,
                 hole>>

CloseCycleHoleLeft ==
  /\ pc = "carry" /\ q = Head(queue)
  /\ range' = [range EXCEPT ![q].idx = @ + 1]
  /\ tmp' = None /\ q' = None /\ hole' = None
  /\ pc' = "shuffle"
  /\ UNCHANGED <<inputVars, table, digit, ids, shadow, loop, tasks, queue>>

(* The identifier in hand belongs to the bucket the cycle began with.      *)
(* (Faulty variant: CloseCycleHoleLeft.)                                   *)
CloseCycle ==
  /\ pc = "carry" /\ q = Head(queue)
  /\ ids' = [ids EXCEPT ![hole] = tmp]
  /\ range' = [range EXCEPT ![q].idx = @ + 1]
  /\ tmp' = None /\ q' = None /\ hole' = None
  /\ pc' = "shuffle"
  /\ UNCHANGED <<inputVars, table, digit, shadow, loop, tasks, queue>>

ShuffleDone ==
  /\ pc = "shuffle" /\ queue = <<>>
  /\ pc' = "tasks"
  /\ UNCHANGED <<inputVars, sortVars, ids, shadow, loop, moveVars>>

Terminated == pc \in {"done", "refused", "abort"} /\ UNCHANGED vars

Next ==
  \/ Marking \/ SortByDigit \/ MakeRanges
  \/ Copy \/ CopyDone
  \/ ShuffleTile \/ ChooseSplit \/ SwapPair \/ Divide \/ TasksDone
  \/ NextBucket \/ Skip \/ OpenCycle \/ Carry \/ CloseCycle \/ ShuffleDone
  \/ Terminated

Spec == Init /\ [][Next]_vars

(* One thread runs the sort to its end, and nothing blocks it.             *)
FairSpec == Spec /\ WF_vars(Next)

----------------------------------------------------------------------------
(* The variables have their types.                                         *)
TypeOK ==
  /\ cell \in [Items -> Buckets]
  /\ pc \in {"count", "digits", "copy", "tasks", "part", "shuffle", "carry",
             "done", "refused", "abort"}
  /\ pc # "count" => table \in [Buckets -> [val : 0 .. Total, idx : Buckets]]
  /\ pc \in {"copy", "tasks", "part", "shuffle", "carry"} =>
       range \in [Buckets -> [idx : 0 .. Total, val : 0 .. Total]]
  /\ ids \in [Items -> Items]
  /\ shadow \in [Items -> Items \union {None}]
  /\ loop \in 0 .. Total
  /\ queue \in Seq(Buckets)
  /\ pc = "carry" => q \in Buckets /\ tmp \in Items /\ hole \in Items

(* No identifier is lost and none is doubled by the cycles: with the one   *)
(* in hand in the hole, the array holds each of them once, at every step   *)
(* (ShuffleInOrder, build.cc:238-273, and std::partition).  And no cursor  *)
(* ever runs past the end of its bucket, whatever the order in which       *)
(* cycles and tiles move them, and what it has passed is settled: the      *)
(* inner loop of ShuffleInOrder has no bound but this.                     *)
NoneLost ==
  LET held(i) == IF pc = "carry" /\ i = hole THEN tmp ELSE ids[i]
  IN  \A x \in Items : \E i \in Items : held(i) = x

CursorsInside ==
  pc \in {"tasks", "part", "shuffle", "carry"} =>
    \A b \in Buckets :
      /\ range[b].idx <= range[b].val
      /\ \A x \in range[b].val - CountOf(b) .. range[b].idx - 1 :
           Bucket(ids[x]) = b

CyclesSound == NoneLost /\ CursorsInside

(* The asserts of L1SortLocalize hold: a range over a tile has at least    *)
(* two buckets with identifiers, because no bucket is over CountMax, and   *)
(* the smallest of them starts in its second half (build.cc:482 and 488).  *)
(* It takes that no identifier is a stray: run l1sort_top_code.            *)
AssertsHold == pc # "abort"

(* A pending call finds in its part of the array the identifiers of its    *)
(* buckets, all of them untouched and no others.                           *)
TasksApart ==
  pc \in {"tasks", "shuffle", "carry"} =>
    \A k \in DOMAIN tasks :
      LET t == tasks[k]
          Own == {AtRank(r) : r \in t.first .. t.last - 1}
      IN  /\ \A i \in t.begin .. t.end - 1 : Bucket(ids[i]) \in Own
          /\ \A b \in Own : /\ range[b].idx = range[b].val - CountOf(b)
                            /\ CountOf(b) > 0 => /\ t.begin <= range[b].idx
                                                 /\ range[b].val <= t.end

Sorted == IF input.shadow THEN shadow ELSE ids

(* What Build is given: the identifiers of a bucket follow one another,    *)
(* and none comes after one of a smaller bucket.                           *)
GroupedLargestFirst ==
  pc = "done" =>
    /\ \A x \in Items : \E i \in Items : Sorted[i] = x
    /\ \A i, k \in Items : i < k =>
         /\ CountOf(Bucket(Sorted[i])) >= CountOf(Bucket(Sorted[k]))
         /\ Bucket(Sorted[i]) = Bucket(Sorted[k]) =>
              \A j \in i .. k : Bucket(Sorted[j]) = Bucket(Sorted[i])

(* The sort ends, sorted or refused.                                       *)
Termination == <>(pc \in {"done", "refused"})

============================================================================
