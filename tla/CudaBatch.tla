----------------------------- MODULE CudaBatch -----------------------------
(***************************************************************************)
(* Batch lookups of the CUDA wrapper, src/src/cuda/shd_host.cc: RunBatch   *)
(* with Reserve, Submit and Collect, and the entry points batch_locate,    *)
(* batch_check, batch_fetch and batch_try_fetch.  A batch is cut in chunks *)
(* that go through one or two lanes, each with a staging buffer on the     *)
(* host, one on the device, and a stream, on which the device works behind *)
(* the back of the host.                                                   *)
(*                                                                         *)
(* A call is made on a stream that may have work of the caller's queued,   *)
(* on which the table depends.  Any call of the CUDA runtime may fail, and *)
(* so may the work queued on a stream, after which nothing succeeds.       *)
(*                                                                         *)
(* A key is told apart by the call and its index, and so is its answer;    *)
(* the kernels (src/src/cuda/shd.cu) are taken for their results.          *)
(***************************************************************************)
EXTENDS Integers, Sequences, FiniteSets

CONSTANTS
  MaxChunk,      (* PIPELINE_CHUNK: 32768                                  *)
  MinChunk,      (* 256                                                    *)
  PipelineBytes, (* PIPELINE_BYTES: 2^22                                   *)
  IntMax,        (* INT_MAX                                                *)
  KeyLength,     (* key_length                                             *)
  ValueLength,   (* value_length                                           *)
  Word,          (* sizeof(uint64_t): 8                                    *)
  Unsigned,      (* sizeof(unsigned): 4                                    *)
  Inputs         (* [type, hits, calls] records                            *)

Ops == {"LOCATE", "CHECK", "FETCH", "TRY_FETCH"}

(* hits are the indices at which a call has a key of the table; null is    *)
(* whether it is called with a null pointer.                               *)
IsInput(in) ==
  /\ in.type \in {"INDEX_ONLY", "KEY_SET", "KV_INLINE", "KV_SEPARATED"}
  /\ in.hits \subseteq Nat
  /\ in.calls \in Seq([op : Ops, batch : Nat, null : BOOLEAN])

ASSUME ParamAssumption ==
  /\ {MaxChunk, MinChunk, KeyLength, ValueLength, Word, Unsigned}
       \subseteq Nat \ {0}
  /\ {PipelineBytes, IntMax} \subseteq Nat
  /\ MinChunk <= MaxChunk

ASSUME InputAssumption == \A in \in Inputs : IsInput(in)

VARIABLES
  input,
  call,      (* the call that is running, or the last one                  *)
  pc,        (* "idle", "streams", "reserve", "record", "wait", "collect", *)
             (* "submit", "last" or "drain"                                *)
  result,    (* "OK", or "ERROR" for any error of the running call         *)
  status,    (* last_status                                                *)
  returned,  (* what the last call returned                                *)
  auxiliary, (* whether the private stream exists                          *)
  ready,     (* the event: "none", "created", "recorded" or "done"         *)
  begin,     (* keys submitted                                             *)
  hits,      (* hits collected                                             *)
  lane,      (* the next lane                                              *)
  loop,      (* counter of the loop the host is in                         *)
  slot,      (* lane -> [begin, count, pending]                            *)
  capacity,  (* lane -> bytes of its buffers                               *)
  workspace, (* lane -> keys its workspace is for                          *)
  host,      (* lane -> contents of the staging buffer on the host         *)
  device,    (* lane -> of the one on the device                           *)
  queue,     (* lane -> work queued on its stream                          *)
  prepared,  (* whether the caller's work on the bound stream is done      *)
  sick,      (* whether the device has failed                              *)
  output,    (* the caller's output                                        *)
  misses     (* the caller's miss array                                    *)

callVars == <<call, result, status, returned>>
loopVars == <<begin, hits, lane, loop>>
laneVars == <<slot, capacity, workspace>>
gpuVars == <<host, device, queue, prepared, sick>>
outVars == <<output, misses>>
vars == <<input, pc, callVars, auxiliary, ready, loopVars, laneVars, gpuVars,
          outVars>>

None == <<>>
Blank ==
  [keys |-> None, out |-> <<>>, flags |-> {}, count |-> 0, miss |-> <<>>]

Call == input.calls[call]
Op == Call.op
Batch == Call.batch

AlignTo(n, a) == ((n + a - 1) \div a) * a
Min2(x, y) == IF x < y THEN x ELSE y
Max2(x, y) == IF x > y THEN x ELSE y

(* BatchLayout: the bytes a chunk of n keys takes in a buffer.             *)
LayoutTotal(op, n) ==
  LET in == n * KeyLength + (IF op = "FETCH" THEN ValueLength ELSE 0)
      out == AlignTo(in, Word)
      width == CASE op = "LOCATE" -> Word [] op = "CHECK" -> 1
                 [] OTHER -> ValueLength
      miss == AlignTo(out + n * width, Unsigned)
      count == miss + (IF op = "TRY_FETCH" THEN n * Unsigned ELSE 0)
  IN  IF op = "LOCATE" THEN out + n * width ELSE count + Unsigned

(* GrowCapacity.  (Faulty variant: GrownByHalf may still be too small.)    *)
GrownByHalf(requested, current) == current + current \div 2
Grown(requested, current) == Max2(requested, current + current \div 2)

Chunk ==
  LET width == KeyLength + (CASE Op = "LOCATE" -> Word [] Op = "CHECK" -> 1
                              [] OTHER -> ValueLength + Unsigned)
  IN  Min2(MaxChunk, Max2(MinChunk, PipelineBytes \div width))

Lanes == IF Batch >= 2 * Chunk THEN 2 ELSE 1
AllLanes == 0 .. 1
UsedLanes == 0 .. Lanes - 1

(* The keys a lane is to hold.                                             *)
Capacity == IF Lanes = 1 THEN Batch ELSE Chunk

(* What the entry points answer without a lookup.                          *)
Verdict(c) ==
  LET unsupported ==
        \/ c.op = "CHECK" /\ input.type \notin {"KEY_SET", "KV_INLINE"}
        \/ c.op \in {"FETCH", "TRY_FETCH"} /\ input.type # "KV_INLINE"
      long == c.op = "TRY_FETCH" /\ c.batch > IntMax
  IN  IF unsupported THEN "UNSUPPORTED_TYPE"
      ELSE IF c.batch = 0 THEN "OK"
      ELSE IF c.null \/ long THEN "INVALID_ARGUMENT"
      ELSE "RUN"

----------------------------------------------------------------------------
Init ==
  /\ input \in Inputs
  /\ call = 0 /\ pc = "idle"
  /\ result = "OK" /\ status = "OK" /\ returned = 0
  /\ auxiliary = FALSE /\ ready = "none"
  /\ begin = 0 /\ hits = 0 /\ lane = 0 /\ loop = 0
  /\ slot = [l \in AllLanes |-> [begin |-> 0, count |-> 0, pending |-> FALSE]]
  /\ capacity = [l \in AllLanes |-> 0]
  /\ workspace = [l \in AllLanes |-> 0]
  /\ host = [l \in AllLanes |-> Blank]
  /\ device = [l \in AllLanes |-> Blank]
  /\ queue = [l \in AllLanes |-> <<>>]
  /\ prepared = TRUE /\ sick = FALSE
  /\ output = <<>> /\ misses = <<>>

Fail == pc' = "drain" /\ result' = "ERROR"

Go(next) == pc' = next /\ UNCHANGED result

(* A call that is answered at once.                                        *)
Refuse ==
  /\ pc = "idle" /\ call < Len(input.calls)
  /\ LET v == Verdict(input.calls[call + 1])
     IN  v # "RUN" /\ status' = v
  /\ call' = call + 1 /\ returned' = 0
  /\ UNCHANGED <<input, pc, result, auxiliary, ready, loopVars, laneVars,
                 gpuVars, outVars>>

(* A call that runs; the caller may have queued work before.               *)
Start ==
  /\ pc = "idle" /\ call < Len(input.calls)
  /\ LET c == input.calls[call + 1]
     IN  /\ Verdict(c) = "RUN"
         /\ output' = [i \in 0 .. c.batch - 1 |-> None]
         /\ misses' = [i \in 0 .. c.batch - 1 |-> -1]
  /\ call' = call + 1
  /\ \/ UNCHANGED <<queue, prepared>>
     \/ /\ queue' = [queue EXCEPT ![0] = Append(@, "prepare")]
        /\ prepared' = FALSE
  /\ pc' = "streams" /\ result' = "OK"
  /\ begin' = 0 /\ hits' = 0 /\ lane' = 0 /\ loop' = 0
  /\ UNCHANGED <<input, status, returned, auxiliary, ready, laneVars, host,
                 device, sick>>

(* The private stream and the event are created when first needed.         *)
CreateStreams ==
  /\ pc = "streams"
  /\ LET needed == Lanes = 2 /\ (~ auxiliary \/ ready = "none")
     IN  \/ /\ sick => ~ needed
            /\ auxiliary' = (auxiliary \/ needed)
            /\ ready' = IF needed /\ ready = "none" THEN "created" ELSE ready
            /\ Go("reserve")
         \/ /\ needed
            /\ auxiliary' \in {auxiliary, TRUE}
            /\ UNCHANGED ready
            /\ Fail
  /\ UNCHANGED <<input, call, status, returned, loopVars, laneVars, gpuVars,
                 outVars>>

(* Reserve, for each lane in turn: larger buffers, of which the new one on *)
(* the device is to be cleared, and a larger workspace.                    *)
Reserve ==
  /\ pc = "reserve"
  /\ LET need == LayoutTotal(Op, Capacity)
         short == need > capacity[loop]
         size == IF Op = "TRY_FETCH" THEN Capacity ELSE 0
         narrow == size > workspace[loop]
         Enlarge ==
           /\ short => ~ sick
           /\ capacity' = [capacity EXCEPT
                             ![loop] = IF short THEN Grown(need, @) ELSE @]
           /\ IF short
              THEN /\ host' = [host EXCEPT ![loop] = Blank]
                   /\ device' = [device EXCEPT ![loop] = Blank]
                   /\ queue' = [queue EXCEPT ![loop] = Append(@, "zero")]
              ELSE UNCHANGED <<host, device, queue>>
     IN  \/ /\ Enlarge
            /\ narrow => ~ sick
            /\ workspace' = [workspace EXCEPT
                               ![loop] = IF narrow THEN Grown(size, @) ELSE @]
            /\ IF loop + 1 < Lanes
               THEN loop' = loop + 1 /\ UNCHANGED <<pc, result>>
               ELSE loop' = 0 /\ Go(IF Lanes = 2 THEN "record" ELSE "collect")
         \/ Enlarge /\ narrow /\ Fail /\ UNCHANGED <<workspace, loop>>
         \/ /\ short /\ Fail
            /\ UNCHANGED <<capacity, workspace, loop, host, device, queue>>
  /\ UNCHANGED <<input, call, status, returned, auxiliary, ready, begin, hits,
                 lane, slot, prepared, sick, outVars>>

(* The private stream is to wait for what the bound one has queued.        *)
RecordReady ==
  /\ pc = "record"
  /\ \/ /\ ~ sick
        /\ queue' = [queue EXCEPT ![0] = Append(@, "record")]
        /\ ready' = "recorded"
        /\ Go("wait")
     \/ Fail /\ UNCHANGED <<queue, ready>>
  /\ UNCHANGED <<input, call, status, returned, auxiliary, loopVars, laneVars,
                 host, device, prepared, sick, outVars>>

(* Faulty variant: WaitReadyForgotten does not make it wait.               *)
WaitReadyForgotten ==
  /\ pc = "wait"
  /\ Go("collect")
  /\ UNCHANGED <<input, call, status, returned, auxiliary, ready, loopVars,
                 laneVars, gpuVars, outVars>>
WaitReady ==
  /\ pc = "wait"
  /\ \/ /\ ~ sick
        /\ queue' = [queue EXCEPT ![1] = Append(@, "wait")]
        /\ Go("collect")
     \/ Fail /\ UNCHANGED queue
  /\ UNCHANGED <<input, call, status, returned, auxiliary, ready, loopVars,
                 laneVars, host, device, prepared, sick, outVars>>

(* cudaStreamSynchronize returns.  (Faulty variant: SynchronizedNever.)    *)
SynchronizedNever(l) == TRUE
Synchronized(l) == queue[l] = <<>>

(* Collect, of a lane with a chunk pending.                                *)
CollectLane(l) ==
  LET s == slot[l]
      h == host[l]
      good == ~ sick /\ (Op # "LOCATE" => h.count <= s.count)
      chunk == s.begin .. s.begin + s.count - 1
      \* chunks are collected in input order: so many misses were collected
      at == s.begin - hits
  IN  /\ Synchronized(l)
      /\ slot' = IF sick THEN slot ELSE [slot EXCEPT ![l].pending = FALSE]
      /\ IF good
         THEN /\ output' = [i \in DOMAIN output |->
                              IF i \in chunk /\ i - s.begin < Len(h.out)
                              THEN h.out[i - s.begin + 1] ELSE output[i]]
              /\ misses' = IF Op # "TRY_FETCH" THEN misses
                           ELSE [i \in DOMAIN misses |->
                                   IF i \in at .. at + h.count - 1
                                   THEN s.begin + h.miss[i - at + 1]
                                   ELSE misses[i]]
              /\ hits' = hits + (CASE Op = "LOCATE" -> 0
                                   [] Op = "TRY_FETCH" -> s.count - h.count
                                   [] OTHER -> h.count)
         ELSE UNCHANGED <<outVars, hits>>
      /\ IF good THEN UNCHANGED result ELSE result' = "ERROR"

(* The loop, when the next lane is busy with an earlier chunk, or free.    *)
CollectBusy ==
  /\ pc = "collect" /\ begin < Batch /\ slot[lane].pending
  /\ CollectLane(lane)
  /\ pc' = IF result' = "OK" THEN "submit" ELSE "drain"
  /\ UNCHANGED <<input, call, status, returned, auxiliary, ready, begin, lane,
                 loop, capacity, workspace, gpuVars>>

LaneFree ==
  /\ pc = "collect" /\ begin < Batch /\ ~ slot[lane].pending
  /\ Go("submit")
  /\ UNCHANGED <<input, call, status, returned, auxiliary, ready, loopVars,
                 laneVars, gpuVars, outVars>>

AllSubmitted ==
  /\ pc = "collect" /\ begin >= Batch
  /\ Go("last") /\ loop' = 0
  /\ UNCHANGED <<input, call, status, returned, auxiliary, ready, begin, hits,
                 lane, laneVars, gpuVars, outVars>>

(* What Submit queues for a chunk.                                         *)
Work ==
  CASE Op = "LOCATE" -> <<"in", "kernel", "out">>
    [] Op = "TRY_FETCH" -> <<"in", "kernel", "select", "out">>
    [] OTHER -> <<"in", "reset", "kernel", "out">>

(* The keys of the next chunk.                                             *)
NextCount == Min2(Capacity, Batch - begin)

(* The next lane in turn.  (Faulty variant: LaneAfter.)                    *)
LaneAfter == lane + 1
NextInTurn == (lane + 1) % Lanes

(* Submit: the keys are staged, and the work is queued, or some of it.     *)
Submit ==
  /\ pc = "submit"
  /\ LET n == NextCount
     IN  /\ slot' = [slot EXCEPT ![lane] =
                       [begin |-> begin, count |-> n, pending |-> TRUE]]
         /\ host' = [host EXCEPT ![lane].keys = <<call, begin, n>>]
         /\ begin' = begin + n
  /\ lane' = NextInTurn
  /\ \/ /\ ~ sick
        /\ queue' = [queue EXCEPT ![lane] = @ \o Work]
        /\ Go("collect")
     \/ \E k \in 0 .. Len(Work) :
          /\ queue' = [queue EXCEPT
                         ![lane] = @ \o SubSeq(Work, 1, IF sick THEN 0 ELSE k)]
          /\ Fail
  /\ UNCHANGED <<input, call, status, returned, auxiliary, ready, hits, loop,
                 capacity, workspace, device, prepared, sick, outVars>>

NextLane(i) == (lane + i) % Lanes

(* The chunks that are left, the oldest first.                             *)
CollectLast ==
  /\ pc = "last" /\ loop < Lanes
  /\ IF slot[NextLane(loop)].pending THEN CollectLane(NextLane(loop))
     ELSE UNCHANGED <<slot, outVars, hits, result>>
  /\ pc' = IF result' = "OK" THEN "last" ELSE "drain"
  /\ loop' = loop + 1
  /\ UNCHANGED <<input, call, status, returned, auxiliary, ready, begin, lane,
                 capacity, workspace, gpuVars>>

Return ==
  /\ pc = "last" /\ loop = Lanes
  /\ pc' = "idle"
  /\ status' = "OK" /\ returned' = hits
  /\ UNCHANGED <<input, call, result, auxiliary, ready, loopVars, laneVars,
                 gpuVars, outVars>>

(* After a failure, the streams are drained before buffers are used again. *)
Drain ==
  /\ pc = "drain"
  /\ \A l \in UsedLanes : Synchronized(l)
  /\ slot' = [l \in AllLanes |->
                IF l \in UsedLanes THEN [slot[l] EXCEPT !.pending = FALSE]
                                   ELSE slot[l]]
  /\ pc' = "idle"
  /\ status' = result /\ returned' = 0
  /\ UNCHANGED <<input, call, result, auxiliary, ready, loopVars, capacity,
                 workspace, gpuVars, outVars>>

----------------------------------------------------------------------------
Ascending(S) ==
  [k \in 1 .. Cardinality(S) |->
     CHOOSE x \in S : Cardinality({y \in S : y < x}) = k - 1]

(* What a kernel makes of the keys in a buffer: a table that is not        *)
(* prepared has none of them.                                              *)
HitsOf(keys) ==
  {i \in 0 .. keys[3] - 1 : prepared /\ keys[2] + i \in input.hits}

Looked(keys) ==
  [k \in 1 .. keys[3] |->
     IF prepared THEN <<keys[1], keys[2] + k - 1>> ELSE None]

(* The device does the next piece of work of a stream.                     *)
Execute(l) ==
  LET d == device[l]
      op == Head(queue[l])
  IN  /\ queue[l] # <<>>
      /\ op = "wait" => sick \/ ready = "done"
      /\ queue' = [queue EXCEPT ![l] = Tail(@)]
      /\ prepared' = (prepared \/ (op = "prepare" /\ ~ sick))
      /\ ready' = IF op = "record" THEN "done" ELSE ready
      /\ device' =
           IF sick THEN device
           ELSE [device EXCEPT ![l] =
             CASE op = "zero" -> Blank
               [] op = "in" -> [d EXCEPT !.keys = host[l].keys]
               [] op = "reset" -> [d EXCEPT !.count = 0]
               [] op = "kernel" /\ Op \in {"CHECK", "FETCH"} ->
                    [d EXCEPT !.out = Looked(d.keys),
                              !.count = @ + Cardinality(HitsOf(d.keys))]
               [] op = "kernel" /\ Op \notin {"CHECK", "FETCH"} ->
                    [d EXCEPT !.out = Looked(d.keys),
                              !.flags = (0 .. d.keys[3] - 1) \ HitsOf(d.keys)]
               [] op = "select" -> [d EXCEPT !.miss = Ascending(d.flags),
                                             !.count = Cardinality(d.flags)]
               [] OTHER -> d]
      /\ host' = IF op = "out" /\ ~ sick
                 THEN [host EXCEPT ![l] = [d EXCEPT !.keys = host[l].keys]]
                 ELSE host
      /\ UNCHANGED <<input, pc, callVars, auxiliary, loopVars, laneVars, sick,
                     outVars>>

(* It fails, and does nothing more.                                        *)
Break ==
  /\ ~ sick /\ \E l \in AllLanes : queue[l] # <<>>
  /\ sick' = TRUE
  /\ UNCHANGED <<input, pc, callVars, auxiliary, ready, loopVars, laneVars,
                 host, device, queue, prepared, outVars>>

Terminated == pc = "idle" /\ call = Len(input.calls) /\ UNCHANGED vars

Host ==
  \/ Refuse \/ Start \/ CreateStreams \/ Reserve \/ RecordReady \/ WaitReady
  \/ CollectBusy \/ LaneFree \/ AllSubmitted \/ Submit \/ CollectLast
  \/ Return \/ Drain

Next == Host \/ (\E l \in AllLanes : Execute(l)) \/ Break \/ Terminated

Spec == Init /\ [][Next]_vars

----------------------------------------------------------------------------
(* The variables have their types, and the counts stay within the batch.   *)
TypeOK ==
  /\ input \in Inputs
  /\ call \in 0 .. Len(input.calls)
  /\ pc \in {"idle", "streams", "reserve", "record", "wait", "collect",
             "submit", "last", "drain"}
  /\ result \in {"OK", "ERROR"}
  /\ status \in {"OK", "ERROR", "UNSUPPORTED_TYPE", "INVALID_ARGUMENT"}
  /\ auxiliary \in BOOLEAN /\ prepared \in BOOLEAN /\ sick \in BOOLEAN
  /\ ready \in {"none", "created", "recorded", "done"}
  /\ lane \in AllLanes /\ loop \in 0 .. 2
  /\ pc # "idle" => begin \in 0 .. Batch /\ hits \in 0 .. begin
  /\ \A l \in AllLanes : capacity[l] \in Nat /\ workspace[l] \in Nat
  /\ DOMAIN misses = DOMAIN output

(* The last call has run, without an error.                                *)
Answered ==
  /\ pc = "idle" /\ call > 0 /\ status = "OK"
  /\ Batch > 0 /\ Verdict(Call) = "RUN"

(* A batch that succeeds has an answer for each of its keys, in its place, *)
(* of a lookup made after the caller's earlier work on the stream, and the *)
(* number of hits; the misses of batch_try_fetch are in input order        *)
(* (shd_cuda.h:64-66 and 81-84; RunBatch, shd_host.cc:226-279).            *)
AnswersInPlace ==
  Answered =>
    LET Missed == {i \in 0 .. Batch - 1 : i \notin input.hits}
    IN  /\ \A i \in 0 .. Batch - 1 : output[i] = <<call, i>>
        /\ Op # "LOCATE" => returned = Batch - Cardinality(Missed)
        /\ Op = "TRY_FETCH" =>
             \A k \in 1 .. Cardinality(Missed) :
               misses[k - 1] = Ascending(Missed)[k]

(* Both streams are finished when a call returns, even one that failed     *)
(* half-way, and a buffer is written by the host only when no work that    *)
(* uses it is queued (shd_cuda.h:65-66; shd_host.cc:269-275).              *)
BothFinished ==
  /\ pc = "idle" => \A l \in AllLanes : queue[l] = <<>> /\ ~ slot[l].pending
  /\ pc = "submit" =>
       \A k \in DOMAIN queue[lane] :
         queue[lane][k] \in {"prepare", "record", "wait", "zero"}

(* A chunk in flight fits the buffers and the workspace of its lane,       *)
(* whatever operations and batches the lane has served before (Reserve and *)
(* BatchLayout, shd_host.cc:48-122).                                       *)
ChunkFits ==
  \A l \in AllLanes : slot[l].pending =>
    /\ LayoutTotal(Op, slot[l].count) <= capacity[l]
    /\ Op = "TRY_FETCH" => slot[l].count <= workspace[l]

============================================================================
