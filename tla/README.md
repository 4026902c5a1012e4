# fastCHD in TLA+

TLA+ specifications of fastCHD, a C++ library of static hash tables: a set of
keys, with or without values, becomes a file (a *pack*) in which each key has a
line of its own, found through a minimal perfect hash computed by the CHD
algorithm (compress, hash, displace). Packs are read in memory or by mapping,
one key at a time or in batches, on the CPU or through CUDA; a pack and a patch
make a new pack.

The specifications are written from the sources (paths below are those of the
repository, lines as `build.cc:532` for `src/build.cc`). They are checked by TLC
on small instances. What matters most is also proved by TLAPS, for all values of
the parameters: the displacement search, which is the core, and the sort of the
identifiers before it; the partition by parallel threads; the rebuild; what is written to a pack and what is loaded from it,
whole or cut; the file writer; the pipelines and the batch lookups on top of them; the
batches on a CUDA device; the Bloom filter; and the divisions and the choice of the
cell that every lookup starts with.

Contents: [the system](#the-system), [modules](#modules), [runs](#runs),
[fairness](#fairness), [proofs](#proofs), [findings](#findings),
[not modelled](#not-modelled), [plan](#plan).

## The system

### Components

**Piece builder** (`build.cc:40-217, 532-591`, `internal.h`, `pack_format.h`,
`CalcPos` in `search.cc:76-92`). Builds the index of one segment of the keys.
*State*: the array of identifiers (128-bit hashes, grouped by first-level
bucket), the bitmap of taken second-level bits, the seed (a byte) of each
bucket, the running seed `magic`, the sections with their prefix counts.
*Operations*: take the next bucket, place its identifiers one by one (in batches
of 32 for a large bucket), take the bits back on a collision and try the next
seed, after the first tries sort the bucket to look for a repeated key, write
the sections. *Correct when* the bitmap has exactly the bits of the placed
identifiers at every step; when a build that succeeds gives each of n
identifiers its own number below n; and when a build that fails has the reason
it gives: a repeated key or an oversized bucket, or no seed that fits.

**First-level sort** (`build.cc:219-530`, `SkewMap` in `internal.h:184-187`,
`L1Band` in `pack_format.h`). Puts the identifiers of a piece in
bucket order, largest bucket first. A bucket (or cell) is where the 31 low bits of a
hash fall on a parabola. *State*: table of counts, cursors of the
buckets, the array, a second array, the identifier in hand. *Operations*: count,
radix sort of the counts, in-place cyclic shuffle, recursive division of a large
array in tiles, copy. *Correct when* the array is grouped, largest first, with
no identifier lost, and the two `Assert`s of the division hold.

**Parallel partition** (`build.cc:596-822`). *State*: readers, the array, the
shared counts per segment, a flag, slot cursors per head and segment, a status
per piece. n reader threads hash the keys and add their counts; the identifiers
are scattered to segments by one thread or by several *heads*, which take slots
of each other's ranges (`fetch_add`) when their own are full, or moved along cycles
in the one array there is; n threads build a segment each. A single reader, or few
keys, make one piece without threads. *Correct when*, in any interleaving, each segment ends up with its
identifiers and no other, and the status returned is the one the caller must act
on.

**Build and dump of a pack** (`build.cc:824-1203`, `shd.h`). The entry points
look at the first record, try seeds on two retry budgets, dump the index, fill
the lines and dump them, then (values of varied length) the values. *Correct
when* attempts keep to their budgets, and a file is loadable only when it holds
what it should.

**Pack loader and separated values** (`shd.cc`, `pack_format.h`; `Attach` in
`cuda/shd.cu:511-649`). Checks sizes and finds the parts of a pack; decodes varint
lengths. `Attach` does the first again, in code of its own, for a pack on a device.
*Correct when* both find each part where the builder wrote it, and reject or survive
what a cut-off file lacks.

**File writer** (`utils.cc:420-494`, `utils.h:151-180`). A buffer in front of a
file. *Correct when* the file is always a prefix of the stream.

**Rebuild** (`build.cc:1205-1402`, `BatchFindPos` in `search.cc`,
`AtomicTestAndSetBit` in `internal.h:138-166`). Threads mark the base lines that a
patch replaces, in a shared bitmap, by compare-and-exchange on bytes; readers
then deliver the clean lines of a shard and the patch. *Correct when* a key
given twice is always found, `total()` is what `read()` delivers, and every pass
delivers the same.

**Software pipelines** (`pipeline.h`). Loops that overlap the stages of the items
of a batch so that memory is prefetched. *Correct when* each stage gets the
state of its own item, for a batch of any length, and the last stage runs in
item order.

**Lookup** (`search.cc`, `shd.cc`). Single and batch locate, search and fetch, and
search and fetch with a patch, as stages over a pipeline: an item that misses in the
patch starts again, half-way, with the base. *State* of a call: what each stage
leaves for the next, the answers (which may be written over the keys), the hits, the
list of misses. *Correct when* each item is answered as a map would, patch first, in
its own place.

**CUDA batch host** (`cuda/shd_host.cc`). Cuts a batch in chunks that go
alternately through two lanes, each with its buffers and its stream; collects
hits, and misses in input order. *Correct when* answers are in place, both
streams are finished on return, also on failure, and no buffer is refilled or
outgrown in flight.

**CUDA kernels** (`cuda/shd.cu`). The asynchronous calls that work on device memory,
and the kernels they launch: blocks of threads that stride over the keys and add up
their hits. *State*: each thread's next key and count, the memory a block shares, the
caller's buffers, the flags of a workspace. *Correct when* each key is answered once,
hits are exact, and what an earlier call left does not show.

**Bloom filter** (`bbf.cc`, `bbf.h`). A counter and blocks of one word. *Correct when*
a key that was set is found, also after a dump and a load.

**Divisor** (`utils.h:187-369`, `cuda/shd.cu:38-120`). Division by an invariant number
as a multiplication and a shift, in four codings. *Correct when* exact.

**Hash**, **memory blocks, mapping, logger**: see [not modelled](#not-modelled).

### How they interact

```
 readers --> Partition (threads) --> L1Sort --> Displace    one attempt
                  ^                                |
                  |  again, another seed           v status
               Pack: retry budgets, DumpIndex, fills --> FileWriter --> file
                  ^                                                      |
 base + patch --> Rebuild (readers)                     Pack: CreatePackView
                                                                         |
                                  Pipeline <-- Lookup (CalcPos) <-- table, patch
                                   CudaBatch <-- CudaKernel <-- attached copy
```

Components call each other; shared memory between threads exists in the
partition (counts, slots), the rebuild (dirty bits, counts of the shards), between
the threads of a kernel's block and, between host and device, in the CUDA lanes. What must survive a process is the
file alone.

### What is hard

- *Interleavings*: counters added by all readers; slots claimed by several
  heads; two threads on one byte of the dirty bitmap; host and device on one
  buffer.
- *Failure half-way*: one thread of several meets a bad key; a write fails, or
  the process dies, between the parts of a pack; a CUDA call fails with a chunk
  in flight.
- *Retries*: two budgets that share a `switch` with a fall-through; 256 seeds
  split in two calls, from a running byte that wraps.
- *Two codings of one thing*: the loader and `Attach`, three divisions, a pipeline for
  each depth.
- *Edges*: the greatest code of a hash, section borders, powers of the radix, batches shorter than the
  pipeline, values whose length takes one digit more, empty segments.
- *Loops without bound*: the inner loop of the in-place shuffle ends only
  because of an invariant.

`PROJECT.json` lists each of these hazards with its line and the properties that
cover it.

## Modules

Every module starts with a comment that says what it stands for and how keys,
bytes and identifiers are told apart. Names are those of the code where TLA+
allows. Definitions whose comment begins "Faulty variant" are what a plausible
mistake would make of the definition that follows; no specification uses them,
they serve to show that each property can fail.

| Module | Stands for | Notes |
|---|---|---|
| `PerfectHash` | what one attempt on a piece promises | abstract |
| `Displace` | `Mapping`, `TryToMapLarge/Small`, `HasConflict`, `Build` of a piece, `CalcPos` | implements `PerfectHash` |
| `DisplaceProofs` | proofs about `Displace`, that it implements `PerfectHash` among them | TLAPS |
| `FirstLevel` | `SkewMap`, `L1Band`, `L1Size` | |
| `L1Sort` | `L1SortMarking`, `ShuffleInOrder`, `L1SortLocalize`, `L1Sort` | |
| `L1SortProofs` | proofs of the invariants of `L1Sort` | TLAPS |
| `Partition` | the three `Build` functions around that of a piece, both forms of `Shuffle` | |
| `PartitionProofs` | proofs of the invariants of `Partition` | TLAPS |
| `Output` | a writer on a file, as a build sees it | abstract |
| `FileWriter` | `FileWriter` | implements `Output` |
| `Pack` | entry points, `BuildAndDump`, `DumpIndex`, the fills, `CreatePackView`, `SeparatedValueAt`, `Attach` | instance of `Output` |
| `PackProofs` | proofs about `Pack` and `FileWriter`, that this implements `Output` among them | TLAPS |
| `Rebuild` | `PrepareForRebuild`, `RebuildReader`, `BatchFindPos`, `AtomicTestAndSetBit` | |
| `RebuildProofs` | proofs of the invariants of `Rebuild` | TLAPS |
| `InOrder` | a plain loop | abstract |
| `Pipeline` | the four pipeline templates | implements `InOrder` |
| `Lookup` | `BatchLocate`, `BatchSearch`, `BatchFetch`, with and without a patch | on top of `Pipeline` |
| `LookupProofs` | proofs about `Pipeline` and `Lookup` | TLAPS |
| `CudaBatch` | `RunBatch`, `Reserve`, `Submit`, `Collect`, the four entry points | |
| `CudaBatchProofs` | proofs of the invariants of `CudaBatch` | TLAPS |
| `CudaKernel` | the four asynchronous calls and their kernels | |
| `Divisor` | `DivisorLKK`, `DivisorMR`, `FastDiv32`, `FastDiv64` | no state |
| `Bloom` | `BloomFilter` | uses `Divisor` |
| `DivisorProofs` | proofs about `Divisor`, `FirstLevel` and `Bloom` | TLAPS |
| `MC*` | the instances TLC checks | |

How state and actions correspond to the code:

- **Displace.** A piece gives the identifiers, the bucket of each and, for each
  seed, the bit it falls on: the hash functions are a table of the input, so that
  "for every input" means "whatever the hash values". One action per step of the
  search: `L1Sort` (the size check), `TakeBucket`, `PlaceOne` (one identifier on
  a clear bit), `Collide` (the bits of the try taken back, next seed, or the
  second call), `KeepSeed`, `HasConflict` (sorts, and looks at neighbours),
  `OutOfChance`, `EmitSection`, `Finish` (with its `Assert`: status `"ABORT"`
  when it fails). `Position` is `CalcPos`.
- **L1Sort.** The recursion of `L1SortLocalize` is a stack `tasks` of pending
  calls. `std::partition` may swap any pair that is out of place. The in-place
  shuffle is a loop over a queue of buckets with one identifier in hand (`tmp`)
  and a `hole`. Identifiers have codes, whose cells `FirstLevel` computes; one with the
  cell after the last (a *stray*, see [findings](#findings)) counts in the memory after
  the table and is followed up to the assert it breaks.
- **Partition.** Each reader thread reads, counts, then adds its counts segment
  by segment; each head takes a key of its run, claims a slot of its range or of
  the next head's, then writes it (two steps, so that another head may come in
  between). `KeepOrTake`, `Displace` and `NextSegment` are the in-place cycles;
  `ReadWhole` and `BuildWhole` the path without threads. What a piece's build returns
  is nondeterministic: that is `Displace`'s contract.
- **Pack.** The stream is a table of contents (`toc`): which part was written
  where; bytes have no content but the digits of a varint. Between any two calls
  of the writer it may fail at any byte, and the process may die; the file is
  then loaded, and attached. Offsets are full width but for the mask of `AlignUp`,
  which keeps to `Word32`. An attempt of `Build` ends with any status, and success gives each
  record a line of its own (`PerfectHash`).
- **FileWriter.** The bytes of the stream are numbered, so a byte lost, doubled
  or out of place shows. The operating system may refuse a write after any number
  of bytes (`WriteAll`).
- **Rebuild.** `AtomicTestAndSetBit` is a load and an exchange, which fails if the
  byte has changed, or for no reason (it is a weak exchange). The build is a
  caller that makes `Passes` passes over the readers.
- **Pipeline.** One action per loop, one step per call of a stage; a cell holds
  the item its content stands for, or `Mixed` once a stage was given
  the result of another item.
- **Lookup.** One step per call of a stage, as in `Pipeline`, of which it takes the
  item and the result that stage is given. The stages that read a key or write an
  answer (`Identify`, `Relay`, `Answer`) read and write what the code does at that
  moment: so a key that an answer was written over is not there any more.
- **CudaBatch.** Each stream is a queue of operations that run behind the back of
  the host (`Execute`); `Break` makes the device fail once and for all; each
  runtime call of the host may fail.
- **CudaKernel.** The stream's work is a queue; a kernel's threads each take a step at
  a time: a key, then, when hits are counted, the halvings of `AddBlockHits` between
  barriers. The rank of a bit is computed word by word as `LocateOne` does, and
  compared with what the bitmap means.
- **Bloom**, **Divisor.** Operators of `Divisor` compute modulo the word or the double
  word where the code does; the filter's blocks are remainders by them.

## Runs

All runs finish on their own; none is cut by a depth bound. Deadlock is checked
in every run: each specification has a `Terminated` action that is enabled
only at the end, and a `FileWriter` or a `Bloom` filter can always be called again.

| Run | Checks | Distinct states |
|---|---|---|
| `displace` | `BitmapExact`, `OutOfChanceIsExhaustive`, `RepeatIsNotOutOfChance`, `IsPerfectHash` | 134,934 |
| `partition` | `OneOwner`, `Partitioned`, `StatusExact` | 551,345 |
| `l1sort` | `CyclesSound`, `AssertsHold`, `TasksApart`, `GroupedLargestFirst`, `Termination` | 20,756 |
| `l1sort_top_code` | `AssertsHold`, which is violated: see [findings](#findings) | |
| `file_writer` | `FileIsPrefix`, `IsOutput` | 233 |
| `pack` | `RetryBudget`, `LoadedIsWritten`, `ValuesNeverTorn`, `OkIsComplete` | 139,580 |
| `pack_wide` | `SectionsAligned`, which is violated: see [findings](#findings) | |
| `rebuild` | `RefusedExactly`, `ValidExact`, `DeliversTheSame`, `Termination` | 6,127 |
| `lookup` | `AnswersRight`, `IsInOrder` | 120,540 |
| `cuda_batch` | `AnswersInPlace`, `BothFinished`, `ChunkFits` | 90,931 |
| `cuda_kernel` | `AnswersExact` | 162,322 |
| `bloom` | `NeverForgets`, `DivisionExact` | 16,935 |

Each passing run checks the module's type invariant too. The longest takes half a minute.

**What the runs show, and why the bounds are enough**

- *displace*. Seven layouts of three to five identifiers, each with all the
  choices of bits for all seeds out of small sets. Three seeds, of which two
  (large) or one (small) are tried before the check for repeats; batches of two, so that
  a bucket of three is "large" and a collision in its second batch takes back the
  first; sections of four bits, so that there are two or three; `CountMax` 3, so
  that one layout is refused at once. With three seeds, which the two calls share
  as two and one or as one and two, the wrap of the byte falls in the first call,
  in the second, and between them. What more seeds
  or keys would add is what the [proofs](#proofs) cover.
- *partition*. Three readers, three segments; one, two and three heads, and in place;
  all inputs of six keys with one distribution over the readers, with extra memory and
  without, and nine to ten keys chosen so that a head finds the ranges of others full;
  empty readers, bad keys in two readers, an empty and an oversized segment; one
  reader, and few keys in two, for the path without threads. Two heads would not meet
  "the next one's range is full as well"; three do.
- *l1sort*. All assignments of six identifiers to three buckets in place, of
  three and four to two buckets both ways, and arrays of up to eleven in five buckets that
  are divided twice. Radix 2 makes counts of up to two digits (16 in `l1sort_top_code`, where
all counts have one); tile 3
  and a largest count of 3 keep the relation of the code (65,535 to 65,536). Each
  bucket is given the greatest code of its cell.
- *file_writer*. A buffer of three bytes, and writes of 0 to 12 bytes to 12
  bytes in total: all three kinds of write (less than the free space, less than
  two buffers, more), at each of their borders, with failures after any byte.
- *pack*. Nineteen jobs: each type, in one piece and in more, with and without
  padding, with records refused before the first write and after; lengths of one
  and two digits (the digit's radix is 4), the greatest and one above; a retry
  budget of 0 to 4. Failures and crashes at any byte. The file is loaded and a copy
  of it attached.
- *rebuild*. All patches of three keys in two readers over three lines, and
  chosen ones with three readers over up to seven lines; two lines to a byte, so
  that threads meet on a byte with the same line and with different lines, and
  shard borders fall within a byte. Two passes: what a restart needs.
- *lookup*. The four depths, one to four cells, and for each all lengths from 0 to
  one item more than a full pipeline and a round: that is every way the loops meet.
  A pack and a patch of two lines each, that share a key, and absent keys whose
  position is that of another line or past the last; every type that is refused; each
  combination of default value, list of misses and patch; keys and answers in one
  array.
- *cuda_batch*. Two calls on one wrapper, of the same and of different
  operations, growing and shrinking, of one to four chunks; hits in all, some,
  and no chunks; refused calls; failures anywhere.
- *cuda_kernel*. Blocks of four threads, two of them: batches of up to ten keys, so
  that threads go round, of part of a block, and empty; two segments, two sections,
  sections of three words. Sequences of up to five calls on the same buffers. With
  four threads `AddBlockHits` halves twice: a thread that reads a count added in one
  halving, and is read in the next, is there.
- *bloom*. Words of eight bits, which `Divisor` has (`uint8_t`), and every number of
  blocks from 1 to 255; for each, every dividend. Two keys that share a bit.

**Bounds by name.** `Tries`, `FirstLarge`, `FirstSmall`, `Batch`, `Cell`, `Slack`,
`CountMax`, `SectionBits`, `Radix`, `Tile`, `LocalizeMin`, `HeadUnit`, `MaxPiece`,
`BufSize`, `Align`, `Window`, `ByteBits`, `MaxReaders`, `MaxChunk`, `MinChunk`,
`PipelineBytes`, `BlockSize`, `MaxBlocks`, `WordBits`, `Few`, `CodeMax`, `Word32` and
the like are constants of the code, given small values; their
values in the code are in the comments of the declarations. `MaxGiven`
(bytes handed to a writer) and `Passes` (passes over the readers) bound what the
code does not; a `Bloom` filter is created once and then loaded from its dumps. The
inputs are given by `Pieces`, `Inputs`, `Jobs`, `Batches`, `Calls`, `Capacities`.

## Fairness

- `L1Sort`, `Pipeline` and `Lookup` run in one thread that waits for nothing:
  `WF(Next)`. Termination there is about loops that end, not about scheduling; `IsInOrder`
  includes that the loop a pipeline stands for comes to its end.
- `Rebuild`: weak fairness for each thread and for the caller, which joins them,
  and strong fairness for the exchange of a thread. An
  exchange that fails because the byte changed means that another thread has got
  on; but `compare_exchange_weak` may by its specification fail for no reason, any
  number of times, and it is assumed not to do so for ever. That is why the code's
  loop is a loop, and no weaker assumption makes it end.
- The other modules state no fairness and no liveness property: their
  loops count to a bound, and nothing waits but for a join, a barrier or the device.
  That none of them is stuck before its end is the check for deadlock.

## Proofs

### The displacement search

`DisplaceProofs` holds for all values of the constants that satisfy two assumptions
of `Displace`:

- `ParamAssumption`: the constants are natural numbers, those one divides by are
  positive, and neither count of first tries is above `Tries`;
- `PiecesAssumption`: the inputs are pieces (`IsPiece`): a sequence of
  identifiers, not empty, grouped by bucket as the first-level sort leaves them,
  with some bucket and some bit per seed for each. Nothing is assumed of the
  hashes, nor that identifiers are different.

| Theorem | States |
|---|---|
| `TypeCorrect` | `Spec => []TypeOK` |
| `BitmapIsExact` | `Spec => []BitmapExact` |
| `OutOfChanceIsTrue` | `Spec => []OutOfChanceIsExhaustive` |
| `RepeatIsFound` | `Spec => []RepeatIsNotOutOfChance` |
| `BuildIsPerfectHash` | `Spec => IsPerfectHash` (refinement of `PerfectHash`) |

**The argument.** Four invariants, each inductive, each on top of the one before.

1. `TypeInv` = `TypeOK` and `SameIds` (the array is the input in another order).
   Only `HasConflict` moves identifiers; without `SameIds` the hash tables would
   not be known to be defined on what it leaves.
2. `BitInv` adds `Control` (where the search is: the try is within one whole
   bucket), `StillGrouped` and `Apart` (the array stays grouped, and a bucket that
   is settled does not come back, so that the seed kept for it is not written
   again), and `BitmapExact` itself. `BitmapExact` alone is not inductive: that a
   collision removes its own bits and no others needs that the bits of the try are
   different from all those before (the second conjunct), and that `KeepSeed` does
   not change the bits of earlier buckets needs `Apart`. `Collide` takes back the bits of
   whole batches only, those `TryToMapLarge` has set in earlier rounds, and of the
   round it is in: lemma `RoundDown`.
3. `SearchInv` adds `Searched`: every seed that was tried does not fit over the
   settled bits, and after the check, or for a single identifier, the bucket has
   no repeat. The tried seeds are those `Tried` steps back from `sd8` around the
   byte; lemma `BackCovers` says that `Tries` steps back meet every seed. Sorting
   the bucket changes the order of the identifiers, not which seeds fit (`SortedFits`),
   and brings equal identifiers next to each other (`SortedNeighbours`).
   `OutOfChanceIsTrue` and `RepeatIsFound` follow.
4. `RankInv` adds `Ranked`: a section's prefix is the number of bits of the
   earlier sections, and the status is never `"ABORT"`, so the `Assert` of
   `build.cc:589` holds. Then the position `CalcPos` computes is the rank of the
   bit (`PositionIsRank`, from `RankSplits`), ranks of different bits differ
   (`RankGrows`) and are below their number (`RankBound`), which is that of the
   identifiers (`BitmapFull`): a build that succeeds is a minimal perfect hash
   (`FinishedIsPerfect`). Every other step maps to a step of `PerfectHash` or to
   none (`StepContract`).

### The first-level sort

`L1SortProofs` assumes that the limits are natural numbers, that the largest count fits a
tile and the radix is above one (`ParamAssumption`), that a power of the radix is the radix
times the one before (`PowerAssumption`), and that an input is one (`InputAssumption`: any
number of identifiers, any codes, copied or in place). The theorems have one hypothesis
more, `NoStrays`: every code has a cell of the table. By `CellInside` that is so for every
code but possibly the greatest, and run `l1sort` evaluates it on its inputs; with a stray
the assert does fail (see [findings](#findings)).

| Theorem | States |
|---|---|
| `SortTypeCorrect` | `Spec => []TypeOK`, if `NoStrays` |
| `CyclesAreSound` | `Spec => []CyclesSound`, if `NoStrays` |
| `SortAssertsHold` | `Spec => []AssertsHold`, if `NoStrays` |
| `TasksStayApart` | `Spec => []TasksApart`, if `NoStrays` |
| `SortedIsGrouped` | `Spec => []GroupedLargestFirst`, if `NoStrays` |

**The argument.** One inductive invariant, `IInv`, with a part for each phase.

- `SortInv`. After some digits the table is a permutation of the buckets with their counts
  (`Numbered`), in the order of what those digits make of a count (`Sorting`): `DigitSplit`
  and `PlacesByDigit`, which shows that a stable pass gives each entry a place of its own.
  When the digits are used up a count is what they make of it, so the order is that of the
  counts (`Ordered`). Then buckets have ranks, and starts that follow each other without
  gap or overlap (`RankFacts`, `StartFacts`, `SlotFacts`); `StartOfIs` shows that the code's
  running sums are those starts.
- `CopyInv`. An identifier goes to the slot after those of its bucket that come before it
  (`SlotOf`), no two to the same (`SlotOfFacts`).
- `MoveInv`. `Cursors`: what is before a cursor, in its bucket, is settled. `Carrying`: the
  hole of a cycle is at the cursor of the bucket it began with. With the identifier in hand
  put there the array is a permutation (`NoneLost`). That the cursor of the
  bucket of the one in hand is not at its end (`RoomInBucket`) is a matter of counting, as
  in the partition: the places of the bucket would hold all of its identifiers, and the one
  in hand is one more.
- `Pending`: the part of the array of a pending call holds the identifiers of its buckets
  and no others, and their cursors are where they began; calls follow each other, so that
  no cycle of one leaves its part (`Own`, `SlotRegion`). `Waiting`: a bucket that is not full
  is in the queue or in some pending call, hence all are full in the end.
- The asserts. `RankMidIs`: the binary search, of which `SearchExists` gives a function and
  `SearchFinds` shows what it finds, stops at a bucket that is not the first, and the one
  before starts in the first half or is the first. It starts after the begin, as the first is the largest
  and not empty; and before the end, or the one before would reach from the first half to
  the end: as the largest of all it would be the whole range, which no bucket is
  (`CountMax <= Tile`), and any other would be larger than the largest, which lies before
  it in the first half (`DivisionFacts`). That is the first assert. The identifiers that
  `std::partition` takes to the left are those of the buckets before it (`LeftsFacts`), and
  counted they end where it starts: the second.

### Divisions and cells

`DivisorProofs` rests on `WordAssumption` (`Word = 2 ^ Bits`), on `PowerAssumption`
(a power of two is twice the one before: the provers know powers by name only), and on
`LevelAssumption` (the greatest code and the number of items per cell are positive); the
code's words have 8 to 64 bits, and its `L1H_MAX` and `L1CELL` are `2^31 - 1` and 5.

| Theorem | States |
|---|---|
| `LKKExact` | `DivisorLKK` gives quotient and remainder for every divisor but zero and every dividend of a word, of any width |
| `MRExact` | so does `DivisorMR` |
| `EveryDivisionExact` | so do all of them: also `DivisorMR` with its addend kept (`SHD_PACK_SIZE`), and `FastDiv32`, `FastDiv64` |
| `CellInside` | a code below the greatest has a cell below `L1Size`, the greatest one at most `L1Size`, for any number of items |
| `TopCodeOutside` | the greatest code has cell `L1Size` whenever that divides the end of the curve |

`LKKExact`: the factor exceeds `Double / n` by less than one (`FactorRoundedUp`), so the
product exceeds the quotient by less than a unit (`QuotientBelow`); quotients are unique
(`QuotientUnique`). The division is that of `uint16_t` and `uint32_t`, by the number of
segments among others.
`MRExact`: unless `n` is a power of two, the factor is `m * Word / n` rounded down, with
`m` the power of two below `n` (`ShiftIs`), so `n` times the factor lacks some `e`, `0 < e < n`. It is not 0 because a
number strictly between two powers of two divides no product of powers of two
(`NotADivisor`, by the least exponent for which it would). The code adds the dividend when
`n - e <= m` (`RoundsUp`, read off the low word, `FactorRoundedDown`), the factor when
not, hence `e <= m`; either way the error of the sum stays below a unit of the quotient, and
the sum within the double word (`RobisonSum`), so nothing wraps. The packed form adds
the same; `FastDivDiv` adds the low halves first, and its carry is that of the sum
(`FastDivExact`).
`CellInside`: the curve grows (`CurveGrows`) and the band times the cells covers it
(`BandCovers`). The equality that `TopCodeOutside` is about is the case the rounding of
the band leaves out.

### The Bloom filter

The theorems about `Bloom`, in `DivisorProofs` too, assume that hashes are words, that the
bits of a key are among 64, and that the blocks of a capacity can be counted in a word
(`BloomAssumption`), besides what `Divisor` assumes.

| Theorem | States |
|---|---|
| `TypeCorrect` | `Spec => []TypeOK` |
| `NothingForgotten` | `Spec => []NeverForgets` |
| `DivisionsExact` | `Spec => []DivisionExact` |

**The argument.** `Inv` says of the memory and of the file alike what they contain
(`Contents`): as many blocks as the divisor, or the size of the file, stands for; each key
known has its bits in the block of its remainder; and the counter is no more than the
number of those keys. `NeverForgets` alone is not inductive: a load needs it of the file, and
the block of a key must be the same in the filter loaded as in the one dumped, hence the
same number of blocks (`BlocksBack`) and the same remainder (`BlockIs`, by `MRExact`). A
set only adds bits, and counts a key only if some bit was missing, so only one not known.

### The file writer

The theorems about `FileWriter`, in `PackProofs` too, assume that the buffer is not empty
(`BufferAssumption`); how much is written, in what portions, and at which byte the operating
system refuses, is arbitrary.

| Theorem | States |
|---|---|
| `WriterTypeCorrect` | `WriterSpec => []WriterTypeOK` |
| `FileIsAlwaysPrefix` | `WriterSpec => []FileIsPrefix` |
| `WriterIsOutput` | `WriterSpec => IsOutput` (refinement of `Output`) |

**The argument.** `WriterTypeOK` and `FileIsPrefix` are inductive together: the file and the
buffer after it are what was given, so the data of any of the three kinds of write
continue the file (`Continued`); stored as a whole they make it longer by their length
(`StoredAll`), torn they leave it a prefix that is shorter (`TornAt`). Every write, failed
write, flush and close is then the step of the same name of `Output`, or a stutter.

### Packs

`PackProofs` assumes that sizes and limits are natural numbers, and positive where one
divides by them or something has to be there (`ParamAssumption`), that a power of the
radix of lengths is the radix times the one before (`PowerAssumption`), and that a job is
one (`JobAssumption`: any records, any pieces that are not empty and share them, any
budgets). Where the writer fails, where the process dies and how an attempt ends are
arbitrary.

| Theorem | States |
|---|---|
| `PackTypeCorrect` | `Spec => []TypeOK` |
| `RetryWithinBudget` | `Spec => []RetryBudget` |
| `LoadedAsWritten` | `Spec => []LoadedIsWritten`, if `Narrow` |
| `ValuesNeverTornHolds` | `Spec => []ValuesNeverTorn`, if `Narrow` |
| `OkIsCompleteHolds` | `Spec => []OkIsComplete`, if `Narrow` |

`Narrow` says that the size of every index, with the alignment, is below `Word32`. The
code does not check it, and run `pack_wide` shows what happens where it fails (see
[findings](#findings)); it holds in run `pack`, and for every pack below some 21.5 billion
items. What is below 2^32 here is the index up to its padding, not the pack.

**The argument.** The properties speak of what is loaded in the end; three inductive
invariants, each on top of the one before, carry them there.

- `TypeInv` adds to `TypeOK` where the build is (`Control`): which records have their
  line, what `loop` counts in each phase, and what follows from having got so far.
- `Budgets`: while attempts are made, outcomes so far and what is left of a budget are
  what `Retry` gave, for conflicts likewise.
- `LayInv` relates the stream to what the loader will take it for. `Due`: the end of
  what was handed over is the offset at which the loader expects the part that is due
  (`CellsAt`, `SectionsAt`, `ContentAt`, the value of the record), and the size that
  `DumpIndex` counts is that offset. `Layout`: each part is where the loader looks for it,
  or the stream ends before it; this form survives a failure at any byte, as nothing is
  handed over afterwards. `Reach`: the stream goes beyond the index only when
  every record has filled its line; then every line is filled, as there are as many
  records as lines and no two on one line (`EveryLine`). `Complete` is what `OK` means, and `Judged` what loader and `Attach`
  have decided.

The parts follow each other (`IndexOrder`, `SpacedFacts`), so a file that is as long as
the loader needs (`Needed`) has them all: `LoadedAsWritten`. The size that `Attach` asks
for is the same one (`NeededFacts`), by `NarrowFacts`: its mask has 64 bits, and that of
the builder and the loader 32.

A value is read through the length before it, whose digits may be cut. `VarIntSize` and
the decoder's loop are recursive functions: that there are such functions
(`VarintsExist`, `DigitsExist`), and that the decoder gives back the length that was
written (`Decoded`), is shown by the least number for which it would not be so. No other length
reaches into the bytes of one (`BytesOf`), so `SeparatedValueAt` reads the digits of its
own record or finds the file at its end (`ValueRead`): `ValuesNeverTornHolds`.
`OkIsCompleteHolds` needs also that the offset of each record's value is before the end
of all that was handed over (`CompleteNeeds`).

### The parallel partition

`PartitionProofs` assumes that the three constants are positive (`ParamAssumption`) and
that an input is one (`InputAssumption`: any number of segments and items, any keys and
bad keys, split in any way among the readers).

| Theorem | States |
|---|---|
| `PartitionTypeCorrect` | `Spec => []TypeOK` |
| `SlotHasOneOwner` | `Spec => []OneOwner` |
| `EverySegmentPartitioned` | `Spec => []Partitioned` |
| `StatusIsExact` | `Spec => []StatusExact` |

**The argument.** One inductive invariant, `IInv`, with a part for each phase; all hold by
themselves outside their phase, and the step from one phase to the next proves the next
part from the last.

- `Reading`: the shared count of a segment is the number of its items in the shares of the
  readers that have added it, however they interleave. At the join it is the size of
  the segment (`Sized`), as the shares cover the items (`Shares`).
- `LaidOut`: the pieces follow each other without a gap, so they are disjoint
  (`Layout`, `Apart`).
- `Scattering`. Each head has a range of slots of each segment; `HeadLayout` and
  `CutParts` show that the ranges, as the code cuts them, are disjoint and leave nothing
  over. A slot below a cursor holds an item of its segment that no other slot has, or is
  claimed by one head that has yet to write it (`StoredOnce`, `Pending`).
  `OneOwner` follows. That a head which finds its range full, and the next one's, always
  finds room with some head (`RoomLeft`) is a matter of counting: the head holds an item
  of the segment that is not stored, hence fewer slots are taken than the segment has.
  `Probing` (the ranges it has passed are full, and stay full) is what makes it stop
  before it is round.
- `InPlace`. While a key is displaced the array is a permutation of the items but for the
  slot where the cycle began. The cursor of the segment of the key in hand cannot be at
  its end: all its places would be taken by items of the segment, and the one in hand is
  one more (`NoPlaceFree`). So the loop of the in-place shuffle stays within the segment.
- `Merging`: the status kept is the worst of the pieces merged so far.

### The rebuild

`RebuildProofs` assumes that the window, the lines per byte, the passes and the most
readers are positive (`ParamAssumption`) and that an input is one (`InputAssumption`: a
base that is not empty, any number of readers of a patch, each with any keys and bad
keys).

| Theorem | States |
|---|---|
| `RebuildTypeCorrect` | `Spec => []TypeOK` |
| `RefusedIsExact` | `Spec => []RefusedExactly` |
| `ValidIsExact` | `Spec => []ValidExact` |
| `PassesDeliverTheSame` | `Spec => []DeliversTheSame` |

**The argument.** `RefusedExactly` and `ValidExact` say something of the join, and
`DeliversTheSame` of the end of a pass; the parts of `IInv` carry them there.

- `Marks`: the bits set are those of the keys of the base that some thread has dealt with,
  and no two keys dealt with are the same key of the base. The step that could break it is
  the exchange (`Exchanged`): a byte that a thread has loaded lacks the bit of the key in
  hand (the last part of `Marks`), so if the byte still is as it was loaded, nobody else
  has marked that line. The bits of the other lines in the byte are stored back as they
  are for the same reason. A thread that finds its bit set has a key which another, dealt
  with before, repeats.
- `Counts`: what a thread has counted for a shard is the number of lines it marked there,
  and what is missing from the shard's count is what the threads that are past that shard
  have marked (`TakenOff`). No line is marked by two threads (`MarkedOnce`), so each
  subtraction takes off lines that are still counted, and no count wraps.
- `ShardOfIs`: the binary search finds the shard of a line. `ShardOf` is a
  recursive function; `SearchExists` gives one that satisfies its equation, and
  `SearchFinds` shows of any that does, by the shortest interval for which it would
  fail, that it finds the first shard that ends after the line.
- `Turns` and `Order`: a reader delivers the clean lines of its shard, then its keys,
  and readers follow each other. So each record has a place in the pass that can
  be told by counting (`LineIndex`, `KeyIndex`: the clean lines and the keys before it), from
  the bitmap and the input alone, which a pass does not change; `Holds` says that every
  record delivered is at its place. Two complete passes are then the same sequence
  (`SameHeld`). That a reader which has delivered its total has nothing left is
  `ReadOut`; it needs the counts of the shards to be exact.

`IInv` also says where `derive` is (`Stages`): reading only what can be used.

### Pipelines and lookups

`LookupProofs` assumes that a pipeline has two stages or more and at least one cell
(`BatchAssumption`) and that a call is one (`CallAssumption`, `IsCall`: any pack and patch
whose lines hold their own keys, any keys asked for, on a batch of their number and of any
width; a locate or test has no patch).

| Theorem | States |
|---|---|
| `PipelineTypeCorrect` | `Spec => []TypeOK`, of `Pipeline` |
| `PipelineInOrder` | `Spec =>` the initial state and the steps of `InOrder` |
| `LookupTypeCorrect` | `LookupSpec => []LookupTypeOK` |
| `LookupAnswersRight` | `LookupSpec => []AnswersRight` |
| `LookupInOrder` | `LookupSpec =>` the initial state and the steps of `InOrder` |

**The argument.** The fill, steady and drain loops are one loop of which the calls
without an item are left out: in `Round` x stage d is called for item
x - M * (d - 1), with M cells to a stage. The invariant `PipeInv` has a part
for each loop; the last three share `Piping`.

- `Cells`: cell c of stage d holds the item that stage was called for when
  the round was last at c, which is this round or up to M - 1 rounds ago (`Held`).
  So a stage which reads the cell finds what the one before has left for
  the same item, M rounds ago (`HeldBefore`), and not what is `Mixed`; the call puts the next
  one in (`CallKeeps`), after the next stage has read it, as a round calls its
  last stage first.
- `Full`: as many items are done as the rounds have brought to the last stage. With
  `InTurn` each finishes in its turn (`InTurnStep`), which is `PipelineInOrder`.
  `Span`, the product of M and a number of rows, is all the arithmetic there is;
  its lemmas (`SpanFacts`, `SpanOrder`) keep the products away from the provers.
- `ItemsInv` says of each item what the stages it `Went` through have made of its key,
  identifier, relay and answer (`Kept`); `Called` says what one call changes, and that the
  stage before was called for the same item and the one after was not.
  An answer may be written over the key: only the last stage
  writes, and no stage reads the key of an item that is done.
- `CountsInv`: hits and misses are those of the items done. As they are done in order,
  what is appended to the misses is above all that is there.

`IsInOrder` itself also says that the loop comes to its end (`WF` of `Finish`), and stays
with TLC.

### Batches on a CUDA device

`CudaBatchProofs` assumes that lengths and chunk sizes are positive and the least chunk
is no longer than the longest (`ParamAssumption`), and that an input is any sequence of
calls, with batches of any size, on a table of any type, and any set of positions that
hit (`InputAssumption`).

| Theorem | States |
|---|---|
| `CudaTypeCorrect` | `Spec => []TypeOK` |
| `CudaAnswersInPlace` | `Spec => []AnswersInPlace` |
| `CudaStreamsFinished` | `Spec => []BothFinished` |
| `CudaChunkFits` | `Spec => []ChunkFits` |

**The argument.** `AnswersInPlace` speaks of the end of a call; what carries it there:

- `Turns`: the chunks in flight follow each other, that of the lane which is to be
  collected next first; what is before them is collected, and `Gathered` says of those
  keys what `AnswersInPlace` says of all.
- `InFlight`: in each lane, what remains queued is the end of the chunk's work, after what
  is left of the set-up, and the buffers are what the work done so far makes of them
  (`Chained`, `Stage`). A collect that waits for its stream finds the queue empty, so the
  answers of the whole chunk in the host's buffer; without `Chained` a stage might run
  on the keys of the chunk before. The misses of successive chunks, each ascending and
  moved by its begin, concatenate to the misses of all (`ChunkMisses`,
  `AscendingAfter`).
- `Behind`: the second lane's stream waits for the event recorded in the first one after
  the caller's earlier work, so no kernel runs before that.
- `Roomy`: the lanes have room for a chunk of this call. They may have served another
  operation before; `LayoutGrows` (a layout for fewer keys is no larger, alignment
  included) makes a last, shorter chunk fit too.
- `Running`: a lane that is not used is clean, and everything queued before the loop is
  set-up. It gives `BothFinished` on every way out, since `Drain` waits for both.

A device that fails (`Break`) stops its streams' effects but no queue: the claims of
`Stage` are then about a device that has not failed, while `Turns`, `Roomy` and
`BothFinished` hold all the same; a failed device is reported by the wait before a collect.

### Only model-checked

- `CudaKernel`: its properties, on the instances of the run.
- What the sort does with a stray: the theorems about `L1Sort` leave it out, and run
  `l1sort_top_code` has one.
- `SectionsAligned`, which is false: it is what run `pack_wide` refutes.
- Liveness (`Termination` in `L1Sort` and `Rebuild`, and that the loop of `InOrder` comes to its end): theorems about
  fairness and `ENABLED` are out of the prover's reach.
- What a recursively defined function computes for every input, in general: the library's
  induction theorems take an operator as a parameter. Where a proof needs an induction
  over numbers it uses that a set of numbers that is not empty has a least element
  (lemmas `Least` and `LeastNumber`, from the well-foundedness of the order): so for the
  search of `ShardOf`, for sums of sizes, for the digits of a length, and for powers of
  two.

## Findings

**The greatest code can have a cell past the last** (run `l1sort_top_code`, property
`AssertsHold`; theorem `TopCodeOutside`). `L1Band` (`pack_format.h:27-30`) divides the
end of the curve, `L1H_MAX * (L1H_MAX + L1TIP)`, by the number of cells and rounds up,
so that the last code still falls in the last cell. When there is nothing to round,
because the number of cells divides the end of the curve
(2147483647 * 2576980376), code `0x7fffffff` falls in cell `l1sz`. That is so for 100007
cells, that is for a piece of 500031 to 500035 items. One key in 2^31 has this code. An
in-place build of 2^18 items or more then fails `Assert(cut == ids+split)`
(`build.cc:488`), which throws the exception that "this should never occur"
(`build.cc:52`). On the other paths, the key's counts, seeds and lookups go through
the entry after the last. The run shows it with 127 for the greatest code and two cells.

**Sections are not aligned in a pack of many billions of items** (run `pack_wide`,
property `SectionsAligned`). `size = (size+31U)&(~31U)` (`build.cc:844`, and
`shd.cc:78`) masks 64 bits with 32, which clears the high half. Once header, counts
and cells need 2^32 bytes, no padding is written, although the format says "32-byte
aligned BitmapSection sections[]" (`pack_format.h:64`), and the loader looks for the
sections at the offset modulo 2^32. 256 segments and `item_high` allow such packs,
from about 21.5 billion items. `Attach` has the mask in full width (`cuda/shd.cu:602`). In
run `pack`, whose `Word32` is out of reach, loader and `Attach` agree with the builder;
theorem `LoadedAsWritten` says so of every pack whose index is `Narrow`.

**What OK means.** `BuildAndDump` answers `BUILD_STATUS_OK` (`build.cc:942`) without a
`flush`, and the destructor of `FileWriter` cannot report a failure. `OkIsComplete` says what
holds then: every byte was handed over, and once all are stored the pack loads, with all
of its values (theorem `OkIsCompleteHolds`). A caller who writes through `FileWriter` can call `flush` after the build
and look at its answer.

## Not modelled

- **Hash** (`hash.cc`, `common.h`): a mixing function; its quality is statistical.
  Everything is checked for any hash values.
- **Memory blocks, mapping, logger** (`utils.cc`): wrappers of the operating
  system. That a file cannot be read, mapped or allocated is an outcome of `Load` and
  `Create`.
- **Tests, benchmark, tools, build files**: they use the library.
- **Within modelled components**: failure to allocate memory elsewhere; the threads of
  `FillInlineKeyValue`, taken one after the other, as each line has one writer by
  the contract of `PerfectHash`; packs and filters that no build or dump wrote (the
  loader checks sizes, never contents); a Bloom filter cut at a word is loaded
  (`known` becomes `Damaged`), and `NeverForgets` promises nothing of it: the format
  has no count of its blocks; concurrent `set`, which the filter does not promise;
  creating and destroying tables and workspaces on the device, which only allocates;
  moving a `FileWriter` (`utils.h:157`, which leaves `m_off` behind), as nothing moves
  one in use; prefetching; the batches by which `Counting` and the out-of-place
  `Shuffle` prefetch, taken for the plain loops they unroll.

## Plan

A proof that is left is that of `CudaKernel`: that the strides of the threads meet every
key once, and that `AddBlockHits` adds every thread's count once.

A model that would add to these: one build from its readers to its file, composed of
`Partition`, the contract of `Displace` and the retries of `Pack`. Each interface is a
status or a contract that the modules on both sides share now.
