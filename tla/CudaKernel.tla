----------------------------- MODULE CudaKernel -----------------------------
(***************************************************************************)
(* The asynchronous batch lookups of the CUDA backend and their kernels,   *)
(* src/src/cuda/shd.cu: BatchLocateAsync, BatchCheckAsync, BatchFetchAsync *)
(* and BatchTryFetchAsync, LocateKernel, CheckKernel and FetchKernel with  *)
(* LocateOne and AddBlockHits.  The threads of a kernel deal with the keys *)
(* of a batch in whatever order, each with every stride-th key, and when   *)
(* hits are counted those of a block add up their counts in memory they    *)
(* share, between barriers.                                                *)
(*                                                                         *)
(* A stream does its work in order, so a call is taken to be made when the *)
(* work of the one before is done (module CudaBatch has the other side);   *)
(* what it writes stays in the caller's buffers for the next call to find. *)
(*                                                                         *)
(* A table is given by the bits that are set in the bitmap of each of its  *)
(* segments.  A key is told apart by its segment, by the bit it hashes to, *)
(* and by being in the table or not; hashing and division are those of     *)
(* modules Displace and Divisor.                                           *)
(***************************************************************************)
EXTENDS Integers, Sequences, FiniteSets, Functions

CONSTANTS
  BlockSize,    (* BLOCK_SIZE, threads of a block: 256                     *)
  Steps,        (* halvings of a block down to one thread: 8               *)
  MaxBlocks,    (* MAX_BLOCKS: 65535                                       *)
  WordBits,     (* bits of a word of a bitmap section: 32                  *)
  SectionWords, (* words of a section: 7                                   *)
  Inputs        (* [type, bits, calls] records                             *)

(* keys are those of the batch; null is whether an argument is refused, as *)
(* a null pointer is; counted and flagged are whether the caller wants the *)
(* number of hits and the flags; fallback is whether it has a default      *)
(* value; capacity is that of the workspace.                               *)
IsCall(c, bits) ==
  /\ c.op \in {"LOCATE", "CHECK", "FETCH", "TRY_FETCH"}
  /\ \A k \in DOMAIN c.keys :
       LET key == c.keys[k]
       IN  /\ key.seg \in DOMAIN bits /\ key.bit \in Nat
           /\ key.member => key.bit \in bits[key.seg]
  /\ {c.null, c.counted, c.flagged, c.fallback} \subseteq BOOLEAN
  /\ c.capacity \in Nat

IsInput(in) ==
  /\ in.type \in {"INDEX_ONLY", "KEY_SET", "KV_INLINE"}
  /\ \A s \in DOMAIN in.bits : in.bits[s] \subseteq Nat /\ in.bits[s] # {}
  /\ \A c \in DOMAIN in.calls : IsCall(in.calls[c], in.bits)

ASSUME ParamAssumption ==
  /\ {MaxBlocks, WordBits, SectionWords} \subseteq Nat \ {0}
  /\ Steps \in Nat /\ BlockSize = 2 ^ Steps

ASSUME InputAssumption == \A in \in Inputs : IsInput(in)

VARIABLES
  input,
  call,     (* the call that is running, or the last one                   *)
  status,   (* what it returned                                            *)
  queue,    (* the work it has queued on the stream                        *)
  grid,     (* blocks of the kernel that runs, 0 when none does            *)
  pos,      (* block -> thread -> i, the index of its next key             *)
  local,    (* block -> thread -> local_hits                               *)
  barrier,  (* block -> thread -> barriers it has come to; Gone at its end *)
  hits,     (* block -> thread -> block_hits                               *)
  flag,     (* the miss flags of the workspace                             *)
  memory,   (* the caller's buffers: [output, flags, misses, count]        *)
  before    (* the same when the call was made                             *)

threadVars == <<pos, local, barrier, hits>>
vars == <<input, call, status, queue, grid, threadVars, flag, memory, before>>

Call == input.calls[call]
Op == Call.op
Batch == Len(Call.keys)
Key(i) == Call.keys[i + 1]

Threads == 0 .. BlockSize - 1
Blocks == 0 .. grid - 1
Gone == Steps + 2

(* A count that is wanted is that of batch_check and batch_fetch.          *)
Counting == Op \in {"CHECK", "FETCH"} /\ Call.counted

----------------------------------------------------------------------------
(* The sections of a segment, as they were built: how many bits are set    *)
(* before a section, and those that are set in one of its words.           *)
Step(s, section) ==
  Cardinality({x \in input.bits[s] : x < section * SectionWords * WordBits})

Word(s, section, w) ==
  {x \in 0 .. WordBits - 1 :
     (section * SectionWords + w) * WordBits + x \in input.bits[s]}

Total(f, S) == FoldFunctionOnSet(+, 0, f, S)

ItemOffset(s) ==
  Total([t \in DOMAIN input.bits |-> Cardinality(input.bits[t])], 1 .. s - 1)
Item == ItemOffset(Len(input.bits) + 1)

(* LocateOne, once the key is hashed: the whole words before the bit and   *)
(* what its own word has before it.                                        *)
LocateOne(key) ==
  LET section == key.bit \div (SectionWords * WordBits)
      offset == key.bit % (SectionWords * WordBits)
      complete == offset \div WordBits
      popc == [i \in 1 .. SectionWords - 1 |->
                 IF i - 1 < complete
                 THEN Cardinality(Word(key.seg, section, i - 1)) ELSE 0]
      below == {x \in Word(key.seg, section, complete) : x < offset % WordBits}
  IN  ItemOffset(key.seg) + Step(key.seg, section)
        + Total(popc, DOMAIN popc) + Cardinality(below)

(* Where a key is, by what the bitmap means; the line there is that of the *)
(* key of the table whose position it is.                                  *)
Position(s, x) == ItemOffset(s) + Cardinality({y \in input.bits[s] : y < x})

LineAt(p) ==
  CHOOSE line \in UNION {{<<s, x>> : x \in input.bits[s]} :
                           s \in DOMAIN input.bits} :
    Position(line[1], line[2]) = p

(* The key is at its position; one past the last line is not read.         *)
Hit(key) ==
  LET p == LocateOne(key)
  IN  p < Item /\ key.member /\ LineAt(p) = <<key.seg, key.bit>>

----------------------------------------------------------------------------
Init ==
  /\ input \in Inputs
  /\ call = 0 /\ status = "OK" /\ queue = <<>> /\ grid = 0
  /\ pos = <<>> /\ local = <<>> /\ barrier = <<>>
  /\ hits = [b \in 0 .. MaxBlocks - 1 |-> [t \in Threads |-> 0]]
  /\ LET Cells == UNION {1 .. Len(input.calls[c].keys) :
                         c \in DOMAIN input.calls}
         Old(x) == [i \in {k - 1 : k \in Cells} |-> x]
     IN  /\ flag = Old(FALSE)
         /\ memory = [output |-> Old(<<"old">>), flags |-> Old("old"),
                      misses |-> Old(-1), count |-> -1]
  /\ before = memory

(* What a call is answered at once.                                        *)
Verdict(c) ==
  LET n == Len(c.keys)
      unsupported ==
        \/ c.op = "CHECK" /\ input.type = "INDEX_ONLY"
        \/ c.op \in {"FETCH", "TRY_FETCH"} /\ input.type # "KV_INLINE"
      narrow == c.op = "TRY_FETCH" /\ (n > c.capacity \/ ~ c.counted)
  IN  IF unsupported THEN "UNSUPPORTED_TYPE"
      ELSE IF narrow \/ (n # 0 /\ c.null) THEN "INVALID_ARGUMENT"
      ELSE "OK"

(* What it queues.  A count is cleared first, that of batch_try_fetch only *)
(* when there is no other work.                                            *)
Work(c) ==
  LET n == Len(c.keys)
      clear == IF c.op = "TRY_FETCH" THEN n = 0
               ELSE c.op # "LOCATE" /\ c.counted
  IN  (IF clear THEN <<"clear">> ELSE <<>>)
        \o (IF n # 0 THEN <<"kernel">> ELSE <<>>)
        \o (IF n # 0 /\ c.op = "TRY_FETCH" THEN <<"select">> ELSE <<>>)

(* A call of one of the four; the runtime may refuse any piece of work,    *)
(* and what was queued before it is done all the same.                     *)
BatchAsync ==
  /\ queue = <<>> /\ call < Len(input.calls)
  /\ call' = call + 1
  /\ LET c == input.calls[call + 1]
     IN  \/ /\ status' = Verdict(c)
            /\ queue' = IF Verdict(c) = "OK" THEN Work(c) ELSE <<>>
         \/ /\ Verdict(c) = "OK" /\ status' = "CUDA_ERROR"
            /\ \E k \in 0 .. Len(Work(c)) - 1 : queue' = SubSeq(Work(c), 1, k)
  /\ before' = memory
  /\ UNCHANGED <<input, grid, threadVars, flag, memory>>

Clear ==
  /\ queue # <<>> /\ Head(queue) = "clear"
  /\ queue' = Tail(queue)
  /\ memory' = [memory EXCEPT !.count = 0]
  /\ UNCHANGED <<input, call, status, grid, threadVars, flag, before>>

(* GridSize.                                                               *)
GridSize(n) ==
  LET required == (n + BlockSize - 1) \div BlockSize
  IN  IF required < MaxBlocks THEN required ELSE MaxBlocks

(* The kernel starts, its threads at their first keys.                     *)
Launch ==
  /\ queue # <<>> /\ Head(queue) = "kernel" /\ grid = 0
  /\ grid' = GridSize(Batch)
  /\ LET B == 0 .. grid' - 1
     IN  /\ pos' = [b \in B |-> [t \in Threads |-> b * BlockSize + t]]
         /\ local' = [b \in B |-> [t \in Threads |-> 0]]
         /\ barrier' = [b \in B |-> [t \in Threads |-> 0]]
  /\ UNCHANGED <<input, call, status, queue, hits, flag, memory, before>>

(* What a key's thread leaves in the output.                               *)
Answer(i) ==
  LET key == Key(i)
  IN  CASE Op = "LOCATE" -> <<"at", LocateOne(key)>>
        [] Op = "CHECK" -> <<"found", Hit(key)>>
        [] Op \in {"FETCH", "TRY_FETCH"} /\ Hit(key) ->
             <<"value", LineAt(LocateOne(key))>>
        [] Op = "FETCH" /\ ~ Hit(key) /\ Call.fallback -> <<"default">>
        [] OTHER -> memory.output[i]

(* The stride of the loop.  (Faulty variant: StrideOfBlock.)               *)
StrideOfBlock == BlockSize
Stride == BlockSize * grid

(* A round of the loop of a thread.                                        *)
Lookup(b, t) ==
  /\ barrier[b][t] = 0 /\ pos[b][t] < Batch
  /\ LET i == pos[b][t]
         hit == Op # "LOCATE" /\ Hit(Key(i))
     IN  /\ memory' =
              [memory EXCEPT
                 !.output[i] = Answer(i),
                 !.flags[i] = IF Op = "FETCH" /\ Call.flagged
                              THEN IF hit THEN "hit" ELSE "miss" ELSE @]
         /\ flag' = IF Op = "TRY_FETCH" THEN [flag EXCEPT ![i] = ~ hit]
                     ELSE flag
         /\ local' = [local EXCEPT ![b][t] = @ + (IF hit THEN 1 ELSE 0)]
  /\ pos' = [pos EXCEPT ![b][t] = @ + Stride]
  /\ UNCHANGED <<input, call, status, queue, grid, barrier, hits, before>>

(* The loop is over: without a count so is the thread, and with one it     *)
(* leaves its own in the memory of the block and comes to a barrier, also  *)
(* when it had no key.                                                     *)
EndLoop(b, t) ==
  /\ barrier[b][t] = 0 /\ pos[b][t] >= Batch
  /\ IF Counting
     THEN /\ hits' = [hits EXCEPT ![b][t] = local[b][t]]
          /\ barrier' = [barrier EXCEPT ![b][t] = 1]
     ELSE /\ barrier' = [barrier EXCEPT ![b][t] = Gone]
          /\ UNCHANGED hits
  /\ UNCHANGED <<input, call, status, queue, grid, pos, local, flag, memory,
                 before>>

(* __syncthreads lets a thread on when all of its block have come to the   *)
(* barrier.  (Faulty variant: PassedByWarp does not wait for the threads   *)
(* of the other half of the block.)                                        *)
PassedByWarp(b, t) ==
  \A u \in Threads :
    u \div (BlockSize \div 2) = t \div (BlockSize \div 2) =>
      barrier[b][u] >= barrier[b][t]
Passed(b, t) == \A u \in Threads : barrier[b][u] >= barrier[b][t]

(* AddBlockHits halves the counts of a block: a thread of the first half   *)
(* adds that of the second to its own.                                     *)
AddHalf(b, t) ==
  /\ barrier[b][t] \in 1 .. Steps /\ Passed(b, t)
  /\ LET stride == BlockSize \div (2 ^ barrier[b][t])
     IN  hits' = IF t < stride
                 THEN [hits EXCEPT ![b][t] = @ + hits[b][t + stride]]
                 ELSE hits
  /\ barrier' = [barrier EXCEPT ![b][t] = @ + 1]
  /\ UNCHANGED <<input, call, status, queue, grid, pos, local, flag, memory,
                 before>>

(* Behind the last barrier the first thread adds what has come together.   *)
AddTotal(b, t) ==
  /\ barrier[b][t] = Steps + 1 /\ Passed(b, t)
  /\ memory' = IF t = 0 THEN [memory EXCEPT !.count = @ + hits[b][0]]
                        ELSE memory
  /\ barrier' = [barrier EXCEPT ![b][t] = Gone]
  /\ UNCHANGED <<input, call, status, queue, grid, pos, local, hits, flag,
                 before>>

EndKernel ==
  /\ grid # 0
  /\ \A b \in Blocks, t \in Threads : barrier[b][t] = Gone
  /\ grid' = 0 /\ pos' = <<>> /\ local' = <<>> /\ barrier' = <<>>
  /\ queue' = Tail(queue)
  /\ UNCHANGED <<input, call, status, hits, flag, memory, before>>

(* cub::DeviceSelect::Flagged of the indices of the batch: those that are  *)
(* flagged, in order, and how many they are.                               *)
Select ==
  /\ queue # <<>> /\ Head(queue) = "select"
  /\ LET Flagged == {i \in 0 .. Batch - 1 : flag[i]}
         rank(i) == Cardinality({j \in Flagged : j < i})
     IN  memory' = [memory EXCEPT
                      !.misses = [k \in DOMAIN @ |->
                                    IF \E i \in Flagged : rank(i) = k
                                    THEN CHOOSE i \in Flagged : rank(i) = k
                                    ELSE @[k]],
                      !.count = Cardinality(Flagged)]
  /\ queue' = Tail(queue)
  /\ UNCHANGED <<input, call, status, grid, threadVars, flag, before>>

Terminated ==
  queue = <<>> /\ call = Len(input.calls) /\ UNCHANGED vars

Thread(b, t) ==
  Lookup(b, t) \/ EndLoop(b, t) \/ AddHalf(b, t) \/ AddTotal(b, t)

Next ==
  \/ BatchAsync \/ Clear \/ Launch \/ EndKernel \/ Select
  \/ \E b \in Blocks, t \in Threads : Thread(b, t)
  \/ Terminated

Spec == Init /\ [][Next]_vars

----------------------------------------------------------------------------
(* The variables have their types; a thread that runs is on one of its own *)
(* keys, and no more hits are counted than there are keys (shd.cu:366-467).*)
TypeOK ==
  /\ input \in Inputs /\ call \in 0 .. Len(input.calls)
  /\ status \in {"OK", "UNSUPPORTED_TYPE", "INVALID_ARGUMENT", "CUDA_ERROR"}
  /\ queue \in Seq({"clear", "kernel", "select"})
  /\ grid \in 0 .. MaxBlocks
  /\ \A b \in Blocks, t \in Threads :
       /\ pos[b][t] < Batch + Stride
       /\ pos[b][t] % (BlockSize * grid) = b * BlockSize + t
       /\ local[b][t] \in 0 .. Batch
       /\ barrier[b][t] \in 0 .. Gone
  /\ \A i \in DOMAIN flag : flag[i] \in BOOLEAN
  /\ memory.count \in Nat \union {-1}
  /\ grid # 0 /\ Counting => memory.count \in 0 .. Batch

(* A call that succeeds leaves the answer for each key in its place,       *)
(* whichever threads dealt with the keys and in whatever order, and leaves *)
(* alone what it was not asked for: the position, whether the key is in    *)
(* the table, its value or the default; the exact number of hits, the      *)
(* threads of a block adding theirs between barriers and the blocks adding *)
(* up in any order; and for batch_try_fetch the misses in input order.     *)
(* What earlier calls have left in the buffers and in the shared memory    *)
(* does not show (shd.cu:366-467 and 702-860; shd_cuda.h:81-84).           *)
AnswersExact ==
  queue = <<>> /\ call > 0 /\ status = "OK" =>
    LET M == {i \in 0 .. Batch - 1 : ~ Key(i).member}
        Output(i) ==
          IF i >= Batch THEN before.output[i]
          ELSE LET key == Key(i)
               IN  CASE Op = "LOCATE" -> <<"at", Position(key.seg, key.bit)>>
                     [] Op = "CHECK" -> <<"found", key.member>>
                     [] OTHER -> IF key.member
                                 THEN <<"value", <<key.seg, key.bit>>>>
                                 ELSE IF Op = "FETCH" /\ Call.fallback
                                 THEN <<"default">> ELSE before.output[i]
        Flag(i) ==
          IF Op = "FETCH" /\ Call.flagged /\ i < Batch
          THEN IF Key(i).member THEN "hit" ELSE "miss" ELSE before.flags[i]
    IN  /\ \A i \in DOMAIN memory.output :
             memory.output[i] = Output(i) /\ memory.flags[i] = Flag(i)
        /\ memory.count = (CASE Counting -> Batch - Cardinality(M)
                             [] Op = "TRY_FETCH" -> Cardinality(M)
                             [] OTHER -> before.count)
        /\ \A k \in DOMAIN memory.misses :
             IF Op = "TRY_FETCH" /\ k < Cardinality(M)
             THEN /\ memory.misses[k] \in M
                  /\ Cardinality({i \in M : i < memory.misses[k]}) = k
             ELSE memory.misses[k] = before.misses[k]

============================================================================
