----------------------------- MODULE FileWriter -----------------------------
(***************************************************************************)
(* FileWriter of src/include/utils.h and src/src/utils.cc: a buffer of     *)
(* BufSize bytes in front of a file.  A short write goes to the buffer, a  *)
(* longer one fills it and leaves its tail there, and one of two buffers   *)
(* or more goes straight to the file after what is buffered.  The file is  *)
(* closed by the first write the operating system refuses.                 *)
(*                                                                         *)
(* The bytes of the stream are told apart by their numbers: a caller hands *)
(* over bytes taken + 1, taken + 2, ...                                    *)
(***************************************************************************)
EXTENDS Naturals, Sequences

CONSTANTS
  BufSize,    (* BUFSZ: 8192                                               *)
  MaxGiven    (* bound: bytes handed over in a behaviour                   *)

ASSUME BufferAssumption == BufSize \in Nat \ {0} /\ MaxGiven \in Nat

VARIABLES
  buf,       (* the first m_off bytes of m_buf                             *)
  file,      (* what the file holds                                        *)
  isOpen,    (* m_fd >= 0                                                  *)
  taken,     (* number of bytes write has answered TRUE for                *)
  result     (* what the last call returned                                *)

fileVars == <<buf, file, isOpen, taken, result>>

Bytes(first, last) == [i \in 1 .. last - first + 1 |-> first + i - 1]

WriterInit ==
  /\ buf = <<>> /\ file = <<>>
  /\ isOpen = TRUE
  /\ taken = 0
  /\ result = TRUE

(* WriteAll takes all of data, or fails after some of it.                  *)
Stored(data) == file' = file \o data

Torn(data) ==
  \E k \in 0 .. Len(data) - 1 : file' = file \o SubSeq(data, 1, k)

(* Faulty variant of CloseOnFailure: the file stays open.                  *)
CloseOnFailureForgotten == isOpen' = TRUE
CloseOnFailure == isOpen' = FALSE

Fail == CloseOnFailure /\ result' = FALSE /\ UNCHANGED taken

Done(n) == isOpen' = TRUE /\ result' = TRUE /\ taken' = taken + n

(* Faulty variant of FitsBuffer: a buffer may be left full.                *)
FitsExactlyToo(n) == Len(buf) + n <= BufSize
FitsBuffer(n) == Len(buf) + n < BufSize

(* write, when the bytes fit in the buffer.                                *)
WriteSmall(n) ==
  /\ isOpen /\ taken + n <= MaxGiven
  /\ FitsBuffer(n)
  /\ buf' = buf \o Bytes(taken + 1, taken + n)
  /\ Done(n)
  /\ UNCHANGED file

(* write, when they fill it and less than another buffer is left.          *)
WriteMiddle(n) ==
  /\ isOpen /\ taken + n <= MaxGiven
  /\ ~ FitsBuffer(n) /\ Len(buf) + n < 2 * BufSize
  /\ LET m == BufSize - Len(buf)
         full == buf \o Bytes(taken + 1, taken + m)
     IN  \/ /\ Stored(full)
            /\ buf' = Bytes(taken + m + 1, taken + n)
            /\ Done(n)
         \/ Torn(full) /\ Fail /\ UNCHANGED buf

(* Faulty variant of TakeBuffer: the offset is not reset.                  *)
TakeBufferAndKeep == UNCHANGED buf
TakeBuffer == buf' = <<>>

(* write, when they are longer: what is buffered, then the bytes, and a    *)
(* failure of the one or of the other.                                     *)
WriteLarge(n) ==
  /\ isOpen /\ taken + n <= MaxGiven
  /\ Len(buf) + n >= 2 * BufSize
  /\ TakeBuffer
  /\ \/ Stored(buf \o Bytes(taken + 1, taken + n)) /\ Done(n)
     \/ Torn(buf \o Bytes(taken + 1, taken + n)) /\ Fail

Flush ==
  /\ isOpen
  /\ TakeBuffer
  /\ \/ Stored(buf) /\ Done(0)
     \/ Torn(buf) /\ Fail

(* Any call on a file that is closed.                                      *)
Refuse ==
  /\ ~ isOpen
  /\ result' = FALSE
  /\ UNCHANGED <<buf, file, isOpen, taken>>

(* The destructor flushes, and closes the file whatever that gives.        *)
Destroy ==
  /\ isOpen /\ isOpen' = FALSE
  /\ TakeBuffer
  /\ Stored(buf) \/ Torn(buf)
  /\ UNCHANGED <<taken, result>>

Write(n) == WriteSmall(n) \/ WriteMiddle(n) \/ WriteLarge(n)

WriterNext ==
  (\E n \in 0 .. MaxGiven : Write(n)) \/ Flush \/ Refuse \/ Destroy

WriterSpec == WriterInit /\ [][WriterNext]_fileVars

----------------------------------------------------------------------------
(* The variables have their types: the buffer is never left full, which is *)
(* what write counts on when it tests for room (utils.cc:475-494).         *)
WriterTypeOK ==
  /\ buf \in Seq(1 .. MaxGiven) /\ Len(buf) < BufSize
  /\ file \in Seq(1 .. MaxGiven)
  /\ isOpen \in BOOLEAN /\ result \in BOOLEAN
  /\ taken \in 0 .. MaxGiven

(* The file holds the stream in its order, from its first byte on, with no *)
(* hole and no byte twice, whatever mix of short and long writes, flushes  *)
(* and failures there has been; while it is open, what is missing is what  *)
(* is buffered (write, _flush and _write, utils.cc:443-494).               *)
FileIsPrefix ==
  /\ file = Bytes(1, Len(file))
  /\ isOpen => file \o buf = Bytes(1, taken)

(* FileWriter is what a build takes a writer for.                          *)
Contract == INSTANCE Output WITH
  given <- taken,
  stored <- Len(file),
  open <- isOpen,
  answer <- result,
  Lengths <- 0 .. MaxGiven

IsOutput == Contract!Spec

============================================================================
