---------------------------- MODULE MCFileWriter ----------------------------
(***************************************************************************)
(* A buffer of three bytes and writes of up to three buffers, so that each *)
(* kind of write meets an empty, a partly filled and a full buffer.        *)
(***************************************************************************)
EXTENDS FileWriter

============================================================================
