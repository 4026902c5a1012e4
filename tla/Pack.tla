-------------------------------- MODULE Pack --------------------------------
(***************************************************************************)
(* From a set of records to a file, and from the file to a table: the      *)
(* entry points of src/src/build.cc (BuildIndex, BuildSet, BuildDict,      *)
(* BuildDictWithVariedValue), which try seeds until an attempt of Build    *)
(* succeeds, dump the index, fill the lines and dump them; the writer,     *)
(* which module Output abstracts; and the loader CreatePackView of         *)
(* src/src/shd.cc, with SeparatedValueAt, which reads back a value of      *)
(* varied length, and the loader of the CUDA backend, Attach of            *)
(* src/src/cuda/shd.cu.  The writer may fail at any byte, and the process  *)
(* may die between any two calls; what is left in the file is then loaded, *)
(* and attached on a device.                                               *)
(*                                                                         *)
(* The stream is told apart by its parts (toc): bytes have no content but  *)
(* those of a varint.  An attempt of Build is what modules Partition and   *)
(* Displace make of it: a status, and a place of its own for each record.  *)
(***************************************************************************)
EXTENDS Integers, Sequences, FiniteSets

CONSTANTS
  HeaderSize,    (* sizeof(Header): 20                                     *)
  CountSize,     (* sizeof(uint32_t): 4                                    *)
  Align,         (* alignment of the sections: 32                          *)
  Word32,        (* values of an unsigned: 2^32                            *)
  Cell,          (* L1CELL: 5                                              *)
  SectionBits,   (* BITMAP_SECTION_SIZE: 224                               *)
  SectionBytes,  (* sizeof(BitmapSection): 32                              *)
  Radix,         (* values of a digit of a varint: 2^7                     *)
  ValueDigits,   (* digits of the longest length: 5                        *)
  OffsetSize,    (* OFFSET_FIELD_SIZE: 6                                   *)
  MaxOffset,     (* MAX_OFFSET: 2^48 - 1                                   *)
  MaxKeyLen,     (* 255                                                    *)
  MaxInlineLen,  (* MAX_INLINE_VALUE_LEN: 2^16 - 1                         *)
  Jobs           (* [type, records, pieces, conflict, total] records       *)

Types == {"INDEX_ONLY", "KEY_SET", "KV_INLINE", "KV_SEPARATED"}

(* A record is told apart by the lengths of its key (0 for a null one) and *)
(* of its value (-1 for a null one that is not empty).                     *)
Record == [klen : Nat, vlen : Nat \union {-1}]

SumTo(f, n) ==
  LET s[k \in 0 .. n] == IF k = 0 THEN 0 ELSE s[k - 1] + f[k] IN s[n]

(* The pieces of a build have no empty one (Partition) and share the       *)
(* records; conflict and total are those of Retry.                         *)
IsJob(j) ==
  /\ j.type \in Types
  /\ j.records \in Seq(Record)
  /\ j.pieces \in Seq(Nat \ {0})
  /\ SumTo(j.pieces, Len(j.pieces)) = Len(j.records)
  /\ j.conflict \in Nat /\ j.total \in Nat

ASSUME ParamAssumption ==
  /\ {CountSize, OffsetSize, MaxOffset, MaxKeyLen, MaxInlineLen} \subseteq Nat
  /\ {HeaderSize, Align, Word32, Cell, SectionBits, SectionBytes, ValueDigits}
       \subseteq Nat \ {0}
  /\ Radix \in Nat \ {0, 1}

(* What the proofs need to know of powers.                                 *)
ASSUME PowerAssumption ==
  /\ Radix ^ 0 = 1
  /\ \A d \in 1 .. ValueDigits :
       Radix ^ d \in Nat \ {0} /\ Radix ^ d = Radix * Radix ^ (d - 1)

ASSUME JobAssumption == \A j \in Jobs : IsJob(j)

VARIABLES
  job,
  phase,      (* "detect", "build", "header", "items", "cells", "pad",     *)
              (* "sections", "fill", "varint", "value", "close", "load",   *)
              (* "loaded", "rejected" or "failed"                          *)
  keyLen,     (* info.key_len                                              *)
  valLen,     (* info.val_len                                              *)
  conflict,   (* retry.conflict                                            *)
  total,      (* retry.total                                               *)
  outcomes,   (* how the attempts ended                                    *)
  place,      (* record -> its line                                        *)
  loop,       (* counter of the loop the thread is in                      *)
  size,       (* the size DumpIndex counts                                 *)
  offset,     (* the offset FillSeparatedKeyValue counts                   *)
  lines,      (* line -> the offset in its field                           *)
  toc,        (* the parts handed over: [part, of, start, len] records     *)
  status,     (* what is returned                                          *)
  attached,   (* what Attach has returned, or "none"                       *)
  given, stored, open, answer     (* the writer                            *)

inert == <<job, attached>>
buildVars == <<keyLen, valLen, conflict, total, outcomes, place>>
writerVars == <<given, stored, open, answer>>
vars == <<job, phase, buildVars, loop, size, offset, lines, toc, status,
          attached, writerVars>>

Writer == INSTANCE Output WITH Lengths <- Nat

Items == Len(job.records)
Pieces == Len(job.pieces)
Lines == 0 .. Items - 1
LineSize == keyLen + valLen

L1Size(n) == (n + Cell - 1) \div Cell
SectionSize(n) == (2 * n + 1 + SectionBits - 1) \div SectionBits

(* (n + 31U) & (~31U): the mask is an unsigned, and clears the bits above. *)
AlignUp(n) == (((n + Align - 1) % Word32) \div Align) * Align

MaxValueLen == Radix ^ ValueDigits - 1

(* WriteVarInt: digits, the lowest first, all but the last marked.         *)
VarInt[n \in Nat] ==
  IF n < Radix THEN <<n>> ELSE <<Radix + (n % Radix)>> \o VarInt[n \div Radix]

VarIntSize(n) == Len(VarInt[n])

----------------------------------------------------------------------------
Init ==
  /\ job \in Jobs
  /\ phase = "detect"
  /\ keyLen = 0 /\ valLen = 0
  /\ conflict = job.conflict /\ total = job.total
  /\ outcomes = <<>>
  /\ place = <<>>
  /\ loop = 1 /\ size = 0 /\ offset = 0
  /\ lines = [x \in 0 .. Len(job.records) - 1 |-> -1]
  /\ toc = <<>>
  /\ status = "running" /\ attached = "none"
  /\ Writer!Init

Return(st) == phase' = "close" /\ status' = st

Continue(ph) == phase' = ph /\ UNCHANGED status

(* DetectKeyValueLen takes the lengths of the first record for those of    *)
(* all; BuildAndDump refuses an input with no record.                      *)
Detect ==
  /\ phase = "detect"
  /\ IF Items = 0 THEN Return("BAD_INPUT") /\ UNCHANGED <<keyLen, valLen>>
     ELSE LET first == job.records[1]
              good == /\ job.type # "INDEX_ONLY" =>
                           first.klen \in 1 .. MaxKeyLen
                      /\ job.type = "KV_INLINE" =>
                           first.vlen \in 1 .. MaxInlineLen
          IN  IF ~ good
              THEN Return("BAD_INPUT") /\ UNCHANGED <<keyLen, valLen>>
              ELSE /\ Continue("build")
                   /\ keyLen' = IF job.type = "INDEX_ONLY" THEN 0
                                ELSE first.klen
                   /\ valLen' = CASE job.type = "KV_INLINE" -> first.vlen
                                  [] job.type = "KV_SEPARATED" -> OffsetSize
                                  [] OTHER -> 0
  /\ UNCHANGED <<inert, conflict, total, outcomes, place, loop, size, offset,
                 lines, toc, writerVars>>

BadKey == \E i \in 1 .. Items : job.records[i].klen \notin 1 .. MaxKeyLen

(* How an attempt ends; an empty segment is bad input too.                 *)
Outcomes ==
  IF BadKey THEN {"BAD_INPUT"}
  ELSE {"OK", "CONFLICT", "OUT_OF_CHANCE"}
         \union (IF Pieces > 1 THEN {"BAD_INPUT"} ELSE {})

Places ==
  {f \in [1 .. Items -> Lines] : \A i, k \in 1 .. Items : f[i] = f[k] => i = k}

Succeed ==
  /\ phase = "build"
  /\ "OK" \in Outcomes
  /\ place' \in Places
  /\ outcomes' = Append(outcomes, "OK")
  /\ Continue("header")
  /\ UNCHANGED <<inert, keyLen, valLen, conflict, total, loop, size, offset,
                 lines, toc, writerVars>>

BadInput ==
  /\ phase = "build"
  /\ "BAD_INPUT" \in Outcomes
  /\ outcomes' = Append(outcomes, "BAD_INPUT")
  /\ Return("BAD_INPUT")
  /\ UNCHANGED <<inert, keyLen, valLen, conflict, total, place, loop, size,
                 offset, lines, toc, writerVars>>

(* Faulty variant of SpendTotal: the budget is tested after it is spent.   *)
SpendTotalOnceMore(st) ==
  IF total = -1 THEN Return(st) /\ UNCHANGED total
                ELSE total' = total - 1 /\ UNCHANGED <<phase, status>>

(* retry.total-- == 0                                                      *)
SpendTotal(st) ==
  IF total = 0 THEN Return(st) /\ UNCHANGED total
               ELSE total' = total - 1 /\ UNCHANGED <<phase, status>>

(* Faulty variant of Conflict: the other budget is not charged.            *)
ConflictOnItsOwnBudget ==
  /\ phase = "build"
  /\ "CONFLICT" \in Outcomes
  /\ outcomes' = Append(outcomes, "CONFLICT")
  /\ IF conflict = 0 THEN Return("CONFLICT") /\ UNCHANGED <<conflict, total>>
     ELSE conflict' = conflict - 1 /\ UNCHANGED <<total, phase, status>>
  /\ UNCHANGED <<inert, keyLen, valLen, place, loop, size, offset, lines, toc,
                 writerVars>>

(* A conflict is spent on its budget, and falls through to the other's.    *)
Conflict ==
  /\ phase = "build"
  /\ "CONFLICT" \in Outcomes
  /\ outcomes' = Append(outcomes, "CONFLICT")
  /\ IF conflict = 0 THEN Return("CONFLICT") /\ UNCHANGED <<conflict, total>>
     ELSE conflict' = conflict - 1 /\ SpendTotal("CONFLICT")
  /\ UNCHANGED <<inert, keyLen, valLen, place, loop, size, offset, lines, toc,
                 writerVars>>

OutOfChance ==
  /\ phase = "build"
  /\ "OUT_OF_CHANCE" \in Outcomes
  /\ outcomes' = Append(outcomes, "OUT_OF_CHANCE")
  /\ SpendTotal("OUT_OF_CHANCE")
  /\ UNCHANGED <<inert, keyLen, valLen, conflict, place, loop, size, offset,
                 lines, toc, writerVars>>

(* Faulty variant of Put: the answer of the writer is ignored.             *)
PutUnchecked(part, of, len, ph, k) ==
  /\ Writer!Write(len)
  /\ toc' = Append(toc, [part |-> part, of |-> of,
                         start |-> given, len |-> len])
  /\ loop' = k
  /\ IF ph = "close" THEN Return("OK") ELSE Continue(ph)
  /\ UNCHANGED <<inert, buildVars, offset, lines>>

(* A call of write: the part is handed over, and then follows phase ph     *)
(* with counter k, or the output has failed.                               *)
Put(part, of, len, ph, k) ==
  /\ Writer!Write(len)
  /\ toc' = Append(toc, [part |-> part, of |-> of,
                         start |-> given, len |-> len])
  /\ IF answer'
     THEN /\ loop' = k
          /\ IF ph = "close" THEN Return("OK") ELSE Continue(ph)
     ELSE Return("FAIL_TO_OUTPUT") /\ UNCHANGED loop
  /\ UNCHANGED <<inert, buildVars, offset, lines>>

Header ==
  /\ phase = "header"
  /\ Put("header", 0, HeaderSize, "items", 1)
  /\ UNCHANGED size

Counts ==
  /\ phase = "items"
  /\ Put("items", 0, Pieces * CountSize, "cells", 1)
  /\ size' = HeaderSize + Pieces * CountSize

Cells ==
  /\ phase = "cells"
  /\ LET sz == L1Size(job.pieces[loop])
     IN  /\ size' = size + sz
         /\ IF loop < Pieces THEN Put("cells", loop, sz, "cells", loop + 1)
                             ELSE Put("cells", loop, sz, "pad", 1)

(* Faulty variant of Padding: an aligned index is padded too.              *)
PaddingWhenAligned == Align - (size % Align)
Padding == AlignUp(size) - size

Pad ==
  /\ phase = "pad"
  /\ size' = AlignUp(size)
  /\ IF Padding > 0 THEN Put("pad", 0, Padding, "sections", 1)
     ELSE /\ Continue("sections")
          /\ UNCHANGED <<inert, buildVars, loop, offset, lines, toc,
                         writerVars>>

AfterIndex == IF job.type = "INDEX_ONLY" THEN "close" ELSE "fill"

Sections ==
  /\ phase = "sections"
  /\ LET sz == SectionSize(job.pieces[loop]) * SectionBytes
     IN  /\ size' = size + sz
         /\ IF loop < Pieces
            THEN Put("sections", loop, sz, "sections", loop + 1)
            ELSE Put("sections", loop, sz, AfterIndex, 1)

(* A record the fill refuses: Build has not looked at its value, nor       *)
(* compared the length of its key with the first one's.                    *)
Unfit(r) ==
  \/ r.klen # keyLen
  \/ job.type = "KV_INLINE" /\ r.vlen # valLen
  \/ job.type = "KV_SEPARATED" /\ (\/ offset > MaxOffset
                                   \/ r.vlen \notin 0 .. MaxValueLen)

OffsetStep(r) == VarIntSize(r.vlen) + r.vlen

(* FillKeyValue and FillSeparatedKeyValue: the line of a record.           *)
FillLine ==
  /\ phase = "fill" /\ loop <= Items
  /\ LET r == job.records[loop]
     IN  IF Unfit(r)
         THEN /\ Return(IF job.type = "KV_SEPARATED" /\ offset > MaxOffset
                        THEN "FAIL_TO_OUTPUT" ELSE "BAD_INPUT")
              /\ UNCHANGED <<loop, offset, lines>>
         ELSE /\ lines' = [lines EXCEPT ![place[loop]] = offset]
              /\ offset' = IF job.type = "KV_SEPARATED"
                           THEN offset + OffsetStep(r) ELSE offset
              /\ loop' = loop + 1
              /\ UNCHANGED <<phase, status>>
  /\ UNCHANGED <<inert, buildVars, size, toc, writerVars>>

Content ==
  /\ phase = "fill" /\ loop > Items
  /\ Put("content", 0, Items * LineSize,
         IF job.type = "KV_SEPARATED" THEN "varint" ELSE "close", 1)
  /\ UNCHANGED size

NextValue == IF loop < Items THEN "varint" ELSE "close"

WriteVarInt ==
  /\ phase = "varint"
  /\ LET len == job.records[loop].vlen
     IN  IF len = 0
         THEN Put("varint", loop, VarIntSize(len), NextValue, loop + 1)
         ELSE Put("varint", loop, VarIntSize(len), "value", loop)
  /\ UNCHANGED size

WriteValue ==
  /\ phase = "value"
  /\ Put("value", loop, job.records[loop].vlen, NextValue, loop + 1)
  /\ UNCHANGED size

(* The build has returned, and the caller destroys the writer.             *)
Close ==
  /\ phase = "close" /\ phase' = "load"
  /\ IF open THEN Writer!Close ELSE UNCHANGED writerVars
  /\ UNCHANGED <<inert, buildVars, loop, size, offset, lines, toc, status>>

(* The process dies: what the writer has in memory is lost.                *)
Die ==
  /\ phase \notin {"load", "loaded", "rejected", "failed"}
  /\ phase' = "load"
  /\ open' = FALSE
  /\ UNCHANGED <<inert, buildVars, loop, size, offset, lines, toc, status,
                 given, stored, answer>>

----------------------------------------------------------------------------
(* CreatePackView: where it takes each part to be.                         *)
CellsAt(i) ==
  HeaderSize + Pieces * CountSize
    + SumTo([k \in 1 .. i - 1 |-> L1Size(job.pieces[k])], i - 1)

SectionsAt(i) ==
  AlignUp(CellsAt(Pieces + 1))
    + SumTo([k \in 1 .. i - 1 |-> SectionSize(job.pieces[k]) * SectionBytes],
            i - 1)

ContentAt == SectionsAt(Pieces + 1)

ExtendAt == ContentAt + LineSize * Items

(* The offset only grows, but for the alignment: its last tests against    *)
(* the size of the file, and the one of the values, which have a byte or   *)
(* more each.                                                              *)
Needed ==
  CASE job.type = "INDEX_ONLY" -> ContentAt
    [] job.type = "KV_SEPARATED" -> ExtendAt + Items
    [] OTHER -> ExtendAt

(* The constructors: the file is read or mapped, which may fail, and the   *)
(* view made of it.                                                        *)
Load ==
  /\ phase = "load"
  /\ \/ phase' = IF stored >= CellsAt(Pieces + 1) /\ stored >= Needed
                  THEN "loaded" ELSE "rejected"
     \/ phase' = "failed"
  /\ UNCHANGED <<inert, buildVars, loop, size, offset, lines, toc, status,
                 writerVars>>

(* Attach aligns with a mask of full width.                                *)
DeviceSectionsAt == ((CellsAt(Pieces + 1) + Align - 1) \div Align) * Align

DeviceNeeded ==
  (IF job.type = "INDEX_ONLY" THEN ContentAt ELSE ExtendAt)
    - SectionsAt(1) + DeviceSectionsAt

(* A copy of the file is attached; the CUDA runtime may fail.              *)
Attach ==
  /\ phase \in {"loaded", "rejected"} /\ attached = "none"
  /\ attached' \in {"ERROR",
                    IF stored < HeaderSize THEN "INVALID_ARGUMENT"
                    ELSE IF job.type = "KV_SEPARATED" THEN "UNSUPPORTED_TYPE"
                    ELSE IF stored < DeviceNeeded THEN "INVALID_PACK"
                    ELSE "OK"}
  /\ UNCHANGED <<job, phase, buildVars, loop, size, offset, lines, toc, status,
                 writerVars>>

Terminated == (phase = "failed" \/ attached # "none") /\ UNCHANGED vars

Dump == Header \/ Counts \/ Cells \/ Pad \/ Sections
Fill == FillLine \/ Content \/ WriteVarInt \/ WriteValue

Next ==
  \/ Detect
  \/ Succeed \/ BadInput \/ Conflict \/ OutOfChance
  \/ Dump \/ Fill
  \/ Close \/ Die \/ Load \/ Attach
  \/ Terminated

Spec == Init /\ [][Next]_vars

----------------------------------------------------------------------------
(* SeparatedValueAt on the loaded file.                                    *)
Empty == [start |-> 0, len |-> 0]

(* The byte at x: a digit, where a varint was written.                     *)
ByteAt(x) ==
  IF \E c \in DOMAIN toc :
       /\ toc[c].part = "varint"
       /\ x \in toc[c].start .. toc[c].start + toc[c].len - 1
  THEN LET c == CHOOSE c \in DOMAIN toc :
                  /\ toc[c].part = "varint"
                  /\ x \in toc[c].start .. toc[c].start + toc[c].len - 1
       IN  VarInt[job.records[toc[c].of].vlen][x - toc[c].start + 1]
  ELSE 0

(* The length at x, and the number of its digits, none if the file ends or *)
(* the digits do not.                                                      *)
LengthAt(x) ==
  LET digits[k \in 0 .. ValueDigits] ==
        IF k = ValueDigits \/ x + k >= stored THEN [len |-> 0, size |-> 0]
        ELSE LET b == ByteAt(x + k)
                 rest == digits[k + 1]
             IN  IF b < Radix THEN [len |-> b, size |-> 1]
                 ELSE IF rest.size = 0 THEN rest
                 ELSE [len |-> b - Radix + Radix * rest.len,
                       size |-> rest.size + 1]
  IN  digits[0]

(* Faulty variant of PastEnd: the end of the file is not looked at.        *)
PastEndNever(x) == FALSE
PastEnd(x) == x > stored

SeparatedValueAt(line) ==
  LET at == ExtendAt + lines[line]
      l == LengthAt(at)
  IN  IF at >= stored \/ l.size = 0 \/ PastEnd(at + l.size + l.len)
      THEN Empty
      ELSE [start |-> at + l.size, len |-> l.len]

----------------------------------------------------------------------------
Statuses == {"running", "OK", "BAD_INPUT", "FAIL_TO_OUTPUT", "CONFLICT",
             "OUT_OF_CHANCE"}

(* The variables have their types: the budgets of Retry never go below     *)
(* zero, and a line number is one of the table (build.cc:894-943).         *)
TypeOK ==
  /\ IsJob(job)
  /\ phase \in {"detect", "build", "header", "items", "cells", "pad",
                "sections", "fill", "varint", "value", "close", "load",
                "loaded", "rejected", "failed"}
  /\ keyLen \in 0 .. MaxKeyLen /\ valLen \in Nat
  /\ conflict \in 0 .. job.conflict /\ total \in 0 .. job.total
  /\ outcomes \in Seq(Statuses)
  /\ place = <<>> \/ place \in Places
  /\ loop \in 1 .. Items + Pieces + 1
  /\ size \in Nat /\ offset \in Nat
  /\ lines \in [Lines -> Nat \union {-1}]
  /\ \A c \in DOMAIN toc : toc[c].start \in Nat /\ toc[c].len \in Nat
  /\ status \in Statuses
  /\ attached \in {"none", "OK", "ERROR", "INVALID_ARGUMENT",
                   "UNSUPPORTED_TYPE", "INVALID_PACK"}
  /\ given \in Nat /\ stored \in Nat
  /\ open \in BOOLEAN /\ answer \in BOOLEAN

Conflicts == {i \in DOMAIN outcomes : outcomes[i] = "CONFLICT"}

(* The two budgets of Retry bound the attempts together: a conflict counts *)
(* on both, there is never an attempt more than either allows, and an      *)
(* attempt that failed is returned only when its budget is spent           *)
(* (BuildAndDump, build.cc:912-932).                                       *)
RetryBudget ==
  /\ Len(outcomes) <= job.total + 1
  /\ Cardinality(Conflicts) <= job.conflict + 1
  /\ status \in {"CONFLICT", "OUT_OF_CHANCE"} =>
       \/ Len(outcomes) = job.total + 1
       \/ status = "CONFLICT" /\ Cardinality(Conflicts) = job.conflict + 1

(* Where a part was written, for the parts the loader looks for.           *)
WrittenAt(part, of, x) ==
  \E c \in DOMAIN toc :
    toc[c].part = part /\ toc[c].of = of /\ toc[c].start = x

(* The loader and DumpIndex count the same: a table that loads has each of *)
(* its parts where it was written, and all of them are in the file.  And   *)
(* what a build that failed or died half-way leaves never loads: a table   *)
(* with its values in its lines loads only if all of it was written.  With *)
(* values of varied length this is not so, and ValuesNeverTorn holds.      *)
(* What the host loads can be attached, and nothing else, but for values   *)
(* of varied length (DumpIndex, build.cc:824-856; CreatePackView,          *)
(* shd.cc:25-98; Attach, cuda/shd.cu:511-649).                             *)
LoadedIsWritten ==
  /\ attached = "OK" => phase = "loaded"
  /\ phase = "loaded" =>
      /\ \A i \in 1 .. Pieces : /\ WrittenAt("cells", i, CellsAt(i))
                                /\ WrittenAt("sections", i, SectionsAt(i))
      /\ ContentAt <= stored
      /\ job.type # "INDEX_ONLY" =>
           WrittenAt("content", 0, ContentAt) /\ ExtendAt <= stored
      /\ job.type # "KV_SEPARATED" => stored = ExtendAt
      /\ job.type \notin {"INDEX_ONLY", "KV_SEPARATED"} =>
           \A x \in Lines : lines[x] # -1
      /\ attached \notin {"none", "ERROR"} =>
           attached = (IF job.type = "KV_SEPARATED" THEN "UNSUPPORTED_TYPE"
                                                    ELSE "OK")

(* A value read back is the one that was written or none at all, even if   *)
(* the file ends in the middle of the values or of a length                *)
(* (FillSeparatedKeyValue, build.cc:1050-1121; shd.cc:177-206).            *)
ValuesNeverTorn ==
  phase = "loaded" /\ job.type = "KV_SEPARATED" =>
    \A i \in 1 .. Items :
      LET v == SeparatedValueAt(place[i])
          len == job.records[i].vlen
      IN  \/ v = Empty
          \/ /\ v.len = len /\ v.start + len <= stored
             /\ len # 0 => WrittenAt("value", i, v.start)

(* Success is told only for a pack that was handed over to the last byte,  *)
(* and such a pack loads, with all of its values, when the writer has      *)
(* stored it (BuildAndDump, build.cc:934-942, and the fills).              *)
OkIsComplete ==
  status = "OK" =>
    /\ phase = "rejected" => stored < given
    /\ phase = "loaded" /\ stored = given /\ job.type = "KV_SEPARATED" =>
         \A i \in 1 .. Items :
           job.records[i].vlen # 0 => SeparatedValueAt(place[i]) # Empty

(* The sections are 32-byte aligned in the file, for any number of items   *)
(* the header can tell (pack_format.h:57-65, build.cc:843-848).            *)
SectionsAligned ==
  \A c \in DOMAIN toc : toc[c].part = "sections" => toc[c].start % Align = 0

============================================================================
