------------------------------ MODULE Rebuild ------------------------------
(***************************************************************************)
(* PerfectHashtable::derive: a new table from a base table and a patch     *)
(* (PrepareForRebuild and RebuildReader of src/src/build.cc, BatchFindPos  *)
(* of src/src/search.cc, AtomicTestAndSetBit of src/src/internal.h).       *)
(*                                                                         *)
(* Each of n threads reads one reader of the patch and marks as dirty the  *)
(* lines of the base whose keys it meets; a line marked twice is an error. *)
(* Then n readers, each over a shard of the base that skips its dirty      *)
(* lines and over one reader of the patch, are the input of a build, which *)
(* reads them more than once.                                              *)
(*                                                                         *)
(* A key of the base is told apart by its line, 0 .. item - 1; a key that  *)
(* is not in the base is a greater number.  With one reader there is no    *)
(* thread but the caller's, and the bits need not be atomic: the actions   *)
(* are the same, with nobody in between.                                   *)
(***************************************************************************)
EXTENDS Integers, Sequences, FiniteSets

CONSTANTS
  Window,     (* WINDOW_SIZE, the keys BatchFindPos reads ahead: 32        *)
  ByteBits,   (* lines whose bits share a byte: 8                          *)
  Passes,     (* how often the build reads its input                       *)
  MaxReaders, (* MAX_SEGMENT, readers a build takes at most: 256           *)
  Inputs      (* [item, indexOnly, patch] records                          *)

Bad == -1     (* a null key, or one of another length than the base's      *)

(* The patch is a sequence of readers, each a sequence of keys.            *)
IsInput(in) ==
  /\ in.item \in Nat \ {0} /\ in.indexOnly \in BOOLEAN
  /\ in.patch \in Seq(Seq(Nat \union {Bad}))

ASSUME ParamAssumption ==
  {Window, ByteBits, Passes, MaxReaders} \subseteq Nat \ {0}

ASSUME InputAssumption == \A in \in Inputs : IsInput(in)

VARIABLES
  input,
  phase,     (* "prepare", "mark", "read" or "done"                        *)
  status,    (* "running", "BAD_INPUT", or "OK" when the input is read     *)
  dirty,     (* the set of marked lines                                    *)
  valid,     (* shard -> count of its clean lines                          *)
  read,      (* thread -> keys read from the patch                         *)
  at,        (* thread -> keys dealt with                                  *)
  byte,      (* thread -> the byte AtomicTestAndSetBit loaded, or NoByte   *)
  temp,      (* thread -> shard -> lines it marked there                   *)
  subbed,    (* thread -> shards its counts are taken off                  *)
  stopped,   (* threads that have met an error                             *)
  pass,      (* passes completed over the input                            *)
  reader,    (* the reader being read                                      *)
  pos,       (* reader -> m_pos                                            *)
  taken,     (* reader -> keys of the patch delivered in this pass         *)
  out,       (* what this pass has delivered: [key, from] records          *)
  first      (* what the first pass has delivered                          *)

markVars == <<read, at, byte, temp, subbed, stopped>>
readVars == <<pass, reader, pos, taken, out, first>>
vars == <<input, phase, status, dirty, valid, markVars, readVars>>

NoByte == {-1}

N == Len(input.patch)
Readers == 0 .. N - 1
Patch(r) == input.patch[r + 1]

(* The first item % N shards have one line more than the others.  (Faulty  *)
(* variant: BeginEven gives the remainder to nobody.)                      *)
BeginEven(j) == j * (input.item \div N)
Begin(j) ==
  j * (input.item \div N) + (IF j < input.item % N THEN j ELSE input.item % N)
End(j) == Begin(j + 1)

(* The binary search for the first shard that ends after line p.  (Faulty  *)
(* variant: PastEndLate takes a shard's end for its last line.)            *)
PastEndLate(p, m) == p <= End(m)
BeforeEnd(p, m) == p < End(m)

ShardOf(p) ==
  LET search[w \in (0 .. N) \X (0 .. N)] ==
        LET a == w[1]
            b == w[2]
            m == (a + b) \div 2
        IN  IF a >= b THEN a
            ELSE IF BeforeEnd(p, m) THEN search[<<a, m>>]
            ELSE search[<<m + 1, b>>]
  IN  search[<<0, N>>]

----------------------------------------------------------------------------
Init ==
  /\ input \in Inputs
  /\ phase = "prepare" /\ status = "running"
  /\ dirty = {}
  /\ valid = <<>>
  /\ LET R == 0 .. Len(input.patch) - 1
     IN  /\ read = [r \in R |-> 0] /\ at = [r \in R |-> 0]
         /\ byte = [r \in R |-> NoByte]
         /\ temp = [r \in R |-> [j \in R |-> 0]]
         /\ subbed = [r \in R |-> 0]
         /\ stopped = {}
         /\ pos = [r \in R |-> 0] /\ taken = [r \in R |-> 0]
  /\ pass = 0 /\ reader = 0
  /\ out = <<>> /\ first = <<>>

(* A base without keys to read, a patch without readers or with too many,  *)
(* or with more than the base has lines, is refused.                       *)
Refused == input.indexOnly \/ N = 0 \/ N > MaxReaders \/ input.item < N

(* The base is cut in shards and the threads start.                        *)
Prepare ==
  /\ phase = "prepare"
  /\ IF Refused
     THEN phase' = "done" /\ status' = "BAD_INPUT" /\ UNCHANGED valid
     ELSE /\ phase' = "mark"
          /\ valid' = [j \in Readers |-> End(j) - Begin(j)]
          /\ UNCHANGED status
  /\ UNCHANGED <<input, dirty, markVars, readVars>>

Marking(r) == phase = "mark" /\ r \notin stopped

(* Faulty variant: AheadOrNone never reads a last window that is not full. *)
AheadOrNone(r) ==
  IF read[r] + Window > Len(Patch(r)) THEN read[r] ELSE read[r] + Window
Ahead(r) ==
  IF read[r] + Window > Len(Patch(r)) THEN Len(Patch(r)) ELSE read[r] + Window

(* BatchFindPos reads a window of keys before it deals with any of them; a *)
(* bad one ends the thread.                                                *)
ReadWindow(r) ==
  /\ Marking(r)
  /\ at[r] = read[r] /\ read[r] < Len(Patch(r))
  /\ IF \E i \in read[r] + 1 .. Ahead(r) : Patch(r)[i] = Bad
     THEN stopped' = stopped \union {r} /\ UNCHANGED read
     ELSE read' = [read EXCEPT ![r] = Ahead(r)] /\ UNCHANGED stopped
  /\ UNCHANGED <<input, phase, status, dirty, valid, at, byte, temp, subbed,
                 readVars>>

Key(r) == Patch(r)[at[r] + 1]

AtKey(r) == Marking(r) /\ at[r] < read[r]

(* The key is not in the base.                                             *)
SkipKey(r) ==
  /\ AtKey(r) /\ Key(r) >= input.item
  /\ at' = [at EXCEPT ![r] = @ + 1]
  /\ UNCHANGED <<input, phase, status, dirty, valid, read, byte, temp, subbed,
                 stopped, readVars>>

ByteOf(p) == {x \in dirty : x \div ByteBits = p \div ByteBits}

(* AtomicTestAndSetBit loads the byte: a bit that is set ends the thread.  *)
LoadByte(r) ==
  /\ AtKey(r) /\ Key(r) < input.item /\ byte[r] = NoByte
  /\ IF Key(r) \in dirty
     THEN stopped' = stopped \union {r} /\ UNCHANGED byte
     ELSE byte' = [byte EXCEPT ![r] = ByteOf(Key(r))] /\ UNCHANGED stopped
  /\ UNCHANGED <<input, phase, status, dirty, valid, read, at, temp, subbed,
                 readVars>>

(* The compare and exchange finds the byte as it was loaded.  (Faulty      *)
(* variant: UnchangedUnchecked stores without comparing.)                  *)
UnchangedUnchecked(r) == TRUE
Unchanged(r) == ByteOf(Key(r)) = byte[r]

SwapByte(r) ==
  /\ AtKey(r) /\ byte[r] # NoByte
  /\ byte' = [byte EXCEPT ![r] = NoByte]
  /\ IF Unchanged(r)
     THEN /\ dirty' = (dirty \ ByteOf(Key(r))) \union byte[r] \union {Key(r)}
          /\ temp' = [temp EXCEPT ![r][ShardOf(Key(r))] = @ + 1]
          /\ at' = [at EXCEPT ![r] = @ + 1]
     ELSE UNCHANGED <<dirty, temp, at>>
  /\ UNCHANGED <<input, phase, status, valid, read, subbed, stopped, readVars>>

(* The exchange is a weak one: it may fail although the byte is the same.  *)
FailSpuriously(r) ==
  /\ AtKey(r) /\ byte[r] # NoByte
  /\ byte' = [byte EXCEPT ![r] = NoByte]
  /\ UNCHANGED <<input, phase, status, dirty, valid, read, at, temp, subbed,
                 stopped, readVars>>

(* SubRelaxed: the thread takes its counts off, one shard after the other. *)
Subtract(r) ==
  /\ Marking(r)
  /\ at[r] = Len(Patch(r)) /\ subbed[r] < N
  /\ valid' = [valid EXCEPT ![subbed[r]] = @ - temp[r][subbed[r]]]
  /\ subbed' = [subbed EXCEPT ![r] = @ + 1]
  /\ UNCHANGED <<input, phase, status, dirty, read, at, byte, temp, stopped,
                 readVars>>

MarkedByAll == \A r \in Readers : r \in stopped \/ subbed[r] = N

(* The threads are joined: an error of any of them is bad input.  The      *)
(* readers start at their shards.                                          *)
Join ==
  /\ phase = "mark" /\ MarkedByAll
  /\ IF stopped # {}
     THEN phase' = "done" /\ status' = "BAD_INPUT" /\ UNCHANGED pos
     ELSE /\ phase' = "read"
          /\ pos' = [r \in Readers |-> Begin(r)]
          /\ UNCHANGED status
  /\ UNCHANGED <<input, dirty, valid, markVars, pass, reader, taken, out,
                 first>>

(* The lines of its shard a reader has yet to deliver.                     *)
Clean(r) == {p \in pos[r] .. End(r) - 1 : p \notin dirty}

Delivered(r) ==
  Cardinality({p \in Begin(r) .. pos[r] - 1 : p \notin dirty}) + taken[r]

(* total() of the reader has not been read yet.                            *)
Reading ==
  /\ phase = "read" /\ reader < N
  /\ Delivered(reader) < valid[reader] + Len(Patch(reader))

(* read(): the next clean line of the shard, or else a key of the patch.   *)
ReadLine ==
  /\ Reading /\ Clean(reader) # {}
  /\ \E p \in Clean(reader) :
       /\ \A q \in Clean(reader) : p <= q
       /\ out' = Append(out, [key |-> p, from |-> "base"])
       /\ pos' = [pos EXCEPT ![reader] = p + 1]
  /\ UNCHANGED <<input, phase, status, dirty, valid, markVars, pass, reader,
                 taken, first>>

ReadPatch ==
  /\ Reading /\ Clean(reader) = {}
  /\ taken[reader] < Len(Patch(reader))
  /\ out' = Append(out, [key |-> Patch(reader)[taken[reader] + 1],
                         from |-> "patch"])
  /\ taken' = [taken EXCEPT ![reader] = @ + 1]
  /\ pos' = [pos EXCEPT ![reader] = End(reader)]
  /\ UNCHANGED <<input, phase, status, dirty, valid, markVars, pass, reader,
                 first>>

NextReader ==
  /\ phase = "read" /\ reader < N /\ ~ Reading
  /\ reader' = reader + 1
  /\ UNCHANGED <<input, phase, status, dirty, valid, markVars, pass, pos,
                 taken, out, first>>

ShardStart == [r \in Readers |-> Begin(r)]

(* The pass is over, and the next one starts with reset().                 *)
EndPass ==
  /\ phase = "read" /\ reader = N
  /\ pass' = pass + 1
  /\ first' = IF pass = 0 THEN out ELSE first
  /\ IF pass' = Passes
     THEN /\ phase' = "done" /\ status' = "OK"
          /\ UNCHANGED <<reader, pos, taken, out>>
     ELSE /\ reader' = 0
          /\ pos' = ShardStart
          /\ taken' = [r \in Readers |-> 0]
          /\ out' = <<>>
          /\ UNCHANGED <<phase, status>>
  /\ UNCHANGED <<input, dirty, valid, markVars>>

Terminated == phase = "done" /\ UNCHANGED vars

Mark(r) ==
  \/ ReadWindow(r) \/ SkipKey(r) \/ Subtract(r)
  \/ LoadByte(r) \/ SwapByte(r) \/ FailSpuriously(r)

Main == Prepare \/ Join \/ ReadLine \/ ReadPatch \/ NextReader \/ EndPass

Next == (\E r \in Readers : Mark(r)) \/ Main \/ Terminated

Spec == Init /\ [][Next]_vars

(* Every thread that can run is scheduled again and again, and a weak      *)
(* exchange that is retried for ever is not refused for ever.              *)
FairSpec ==
  /\ Spec
  /\ WF_vars(Main)
  /\ \A r \in 0 .. MaxReaders - 1 :
       /\ WF_vars(r \in Readers /\ Mark(r))
       /\ SF_vars(r \in Readers /\ SwapByte(r))

----------------------------------------------------------------------------
(* The variables have their types; a thread deals with no key it has not   *)
(* read, and a reader never leaves its shard (build.cc, 1218-1262).        *)
TypeOK ==
  /\ input \in Inputs
  /\ phase \in {"prepare", "mark", "read", "done"}
  /\ status \in {"running", "BAD_INPUT", "OK"}
  /\ dirty \subseteq 0 .. input.item - 1
  /\ phase \in {"mark", "read"} => valid \in [Readers -> 0 .. input.item]
  /\ stopped \subseteq Readers
  /\ \A r \in Readers :
       /\ 0 <= at[r] /\ at[r] <= read[r] /\ read[r] <= Len(Patch(r))
       /\ byte[r] = NoByte \/ byte[r] \subseteq 0 .. input.item - 1
       /\ temp[r] \in [Readers -> 0 .. input.item]
       /\ subbed[r] \in 0 .. N
       /\ taken[r] \in 0 .. Len(Patch(r))
       /\ phase = "read" => pos[r] \in Begin(r) .. End(r)
  /\ pass \in 0 .. Passes /\ reader \in 0 .. N

AllKeys == UNION {{<<r, i>> : i \in 1 .. Len(Patch(r))} : r \in Readers}
KeyAt(a) == Patch(a[1])[a[2]]

Patched == {KeyAt(a) : a \in AllKeys} \cap (0 .. input.item - 1)

(* What the caller did wrong.                                              *)
Unusable ==
  \/ input.indexOnly \/ N \notin 1 .. MaxReaders \/ input.item < N
  \/ \E a \in AllKeys : KeyAt(a) = Bad
  \/ \E a, b \in AllKeys :
       a # b /\ KeyAt(a) = KeyAt(b) /\ KeyAt(a) < input.item

(* derive answers BAD_INPUT for all the inputs it cannot use and for no    *)
(* other: a base key given twice is met whichever threads read it, in      *)
(* whatever order, even when another thread changes the same byte between  *)
(* the load and the exchange (build.cc, 1343-1348, internal.h, 138-166).   *)
RefusedExactly ==
  phase \in {"read", "done"} => (status = "BAD_INPUT" <=> Unusable)

(* Once the threads are joined, the count of a shard is that of its lines  *)
(* no thread has marked: total() of its reader is what read() delivers     *)
(* (build.cc, 1231 and 1353-1355).                                         *)
ValidExact ==
  phase = "read" =>
    \A j \in Readers :
      valid[j] = Cardinality({p \in Begin(j) .. End(j) - 1 : p \notin dirty})

Occurs(k, s) == {i \in 1 .. Len(s) : s[i].key = k}

(* A pass over the readers delivers every key of the base once, from the   *)
(* patch when the patch has it and from the base otherwise, and every new  *)
(* key as often as the patch has it; and a build that starts again with    *)
(* another seed gets the same records again, in the same order (read and   *)
(* reset of RebuildReader, build.cc:1218-1262).                            *)
DeliversTheSame ==
  phase = "read" /\ reader = N =>
    /\ \A k \in 0 .. input.item - 1 :
         \E i \in 1 .. Len(out) :
           /\ Occurs(k, out) = {i}
           /\ out[i].from = (IF k \in Patched THEN "patch" ELSE "base")
    /\ \A k \in {KeyAt(a) : a \in AllKeys} \ Patched :
         Cardinality(Occurs(k, out)) =
           Cardinality({a \in AllKeys : KeyAt(a) = k})
    /\ pass > 0 => out = first

(* derive gets through: no thread waits for another before the join, and   *)
(* an exchange that fails for a reason means that another has succeeded.   *)
Termination == <>(phase = "done")

============================================================================
