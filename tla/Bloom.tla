------------------------------- MODULE Bloom -------------------------------
(***************************************************************************)
(* The blocked Bloom filter of src/src/bbf.cc: a counter word, and blocks  *)
(* of one word each.  A key has one block, a remainder of its hash, and up *)
(* to five bits of it.  A filter is created empty, or loaded from what     *)
(* another one was dumped as; nothing but the size of a file is checked,   *)
(* and it gives the number of blocks.  A size is in bytes.                 *)
(*                                                                         *)
(* The first stage of the batch operations reads no memory (bbf.cc:102 and *)
(* 119), and the second is run for the keys in their order (module         *)
(* Pipeline): one of their keys is a step of Set or Test.                  *)
(***************************************************************************)
EXTENDS Divisor, FiniteSets

CONSTANTS
  Keys,
  HashOf,       (* key -> [h, bits], the block's hash and the mask         *)
  Capacities,   (* arguments of the constructor                            *)
  CutSizes      (* sizes a file may be cut to                              *)

ASSUME BloomAssumption ==
  /\ \A key \in Keys : /\ HashOf[key].h \in Words
                       /\ HashOf[key].bits \subseteq 0 .. 63
  /\ Capacities \subseteq 0 .. 8 * (Word - 1)
  /\ CutSizes \subseteq Nat

VARIABLES
  block,    (* m_block, a divisor                                          *)
  size,     (* m_mem.size(), 0 without memory                              *)
  item,     (* the counter                                                 *)
  space,    (* block -> its bits that are set                              *)
  file,     (* the size of a dump and the words of it, if any              *)
  answer,   (* what the last operation returned                            *)
  known     (* history: the keys set, while the filter is one that has     *)
            (* seen no damaged file                                        *)

vars == <<block, size, item, space, file, answer, known>>

WordSize == 8
NoFile == [size |-> 0, item |-> 0, space |-> <<>>, known |-> {}]
Damaged == {"damaged"}

Usable == size >= WordSize * 2

Empty(blocks) == [b \in 0 .. blocks - 1 |-> {}]

Init ==
  /\ block = MR(0) /\ size = 0
  /\ item = 0 /\ space = Empty(0)
  /\ file = NoFile
  /\ answer = FALSE
  /\ known = {}

(* BloomFilter(capacity); the memory may not be had.  (Bound: one filter   *)
(* is created, the others are loaded from its dumps.)                      *)
Create(capacity) ==
  /\ ~ Usable /\ capacity # 0
  /\ file = NoFile
  /\ block' = MR((capacity + 7) \div WordSize)
  /\ \/ /\ size' = WordSize + block'.val * WordSize
        /\ space' = Empty(block'.val)
     \/ size' = 0 /\ space' = Empty(0)
  /\ item' = 0
  /\ known' = {}
  /\ UNCHANGED <<file, answer>>

(* Calc: the block of a key.                                               *)
BlockOf(key) == MRMod(block, HashOf[key].h)

Has(key) == HashOf[key].bits \subseteq space[BlockOf(key)]

(* The block with the bits of a key.  (Faulty variant: Overwritten.)       *)
Overwritten(key) == HashOf[key].bits
Merged(key) == space[BlockOf(key)] \union HashOf[key].bits

(* set, or a key of batch_set: false when all bits are there already.      *)
Set(key) ==
  /\ Usable
  /\ answer' = ~ Has(key)
  /\ space' = [space EXCEPT ![BlockOf(key)] = Merged(key)]
  /\ item' = IF Has(key) THEN item ELSE item + 1
  /\ known' = IF known = Damaged THEN known ELSE known \union {key}
  /\ UNCHANGED <<block, size, file>>

(* test, or a key of batch_test.                                           *)
Test(key) ==
  /\ Usable
  /\ answer' = Has(key)
  /\ UNCHANGED <<block, size, item, space, file, known>>

(* dump; the filter goes on living, or another one is loaded next.         *)
Dump ==
  /\ Usable
  /\ file' = [size |-> size, item |-> item, space |-> space, known |-> known]
  /\ answer' = TRUE
  /\ UNCHANGED <<block, size, item, space, known>>

(* The number of blocks in a file.  (Faulty variant: BlocksAndCounter.)    *)
BlocksAndCounter(bytes) == bytes \div WordSize
BlocksIn(bytes) == (bytes - WordSize) \div WordSize

Refused(bytes) == bytes < WordSize * 2 \/ bytes % WordSize # 0

(* A filter from the first bytes of the file: one that holds a counter and *)
(* whole blocks is taken, be it the whole or not.                          *)
Load(bytes) ==
  /\ file # NoFile /\ bytes \in CutSizes \union {file.size}
  /\ bytes <= file.size
  /\ IF Refused(bytes)
     THEN /\ block' = MR(0) /\ size' = 0
          /\ item' = 0 /\ space' = Empty(0)
          /\ known' = {}
     ELSE /\ block' = MR(BlocksIn(bytes)) /\ size' = bytes
          /\ item' = file.item
          /\ space' = [b \in 0 .. bytes \div WordSize - 2 |-> file.space[b]]
          /\ known' = IF bytes = file.size THEN file.known ELSE Damaged
  /\ UNCHANGED <<file, answer>>

Next ==
  \/ \E capacity \in Capacities : Create(capacity)
  \/ \E key \in Keys : Set(key) \/ Test(key)
  \/ Dump
  \/ \E bytes \in CutSizes \union {file.size} : Load(bytes)

Spec == Init /\ [][Next]_vars

----------------------------------------------------------------------------
(* The variables have their types; the memory is that of the blocks the    *)
(* divisor stands for, and no key has a block outside of it.               *)
TypeOK ==
  /\ block.val \in Words
  /\ size \in Nat /\ item \in Nat
  /\ \A b \in DOMAIN space : space[b] \subseteq 0 .. 63
  /\ answer \in BOOLEAN
  /\ known = Damaged \/ known \subseteq Keys
  /\ Usable => /\ size = WordSize + block.val * WordSize
               /\ DOMAIN space = 0 .. block.val - 1
               /\ \A key \in Keys : BlockOf(key) \in DOMAIN space

(* A key that was set is found ever after, in the filter and in every one  *)
(* loaded from a whole dump of it, whatever else is set: no false          *)
(* negatives.  The counter never exceeds the number of different keys.     *)
NeverForgets ==
  known # Damaged =>
    /\ \A key \in known : Has(key)
    /\ item <= Cardinality(known)

(* The block of every hash is its remainder: the division by a             *)
(* multiplication is exact, as all those of the code are, for any dividend *)
(* of the word and the number of blocks at hand, powers of two, one and    *)
(* the greatest word included (utils.h:187-330, shd.cu:38-129).            *)
DivisionExact == Usable => AllExact(block.val)

============================================================================
