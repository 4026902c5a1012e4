---------------------------- MODULE MCL1SortTop ----------------------------
(***************************************************************************)
(* Identifiers by their codes, in the cells the first level gives them:    *)
(* eight in two cells, one of them with the greatest code.  The curve ends *)
(* at 127 * 152, which two divides, as 2147483647 * 2576980376 is divided  *)
(* by 100007, the number of cells of 500031 to 500035 identifiers.         *)
(***************************************************************************)
EXTENDS L1Sort

InByCode(codes) ==
  [total |-> Len(codes), shadow |-> FALSE,
   code |-> [i \in 0 .. Len(codes) - 1 |-> codes[i + 1]]]

MCInputs == {
  InByCode(<<126, 0, 100, 5, 110, 9, 120, 11>>),
  InByCode(<<127, 0, 100, 5, 110, 9, 120, 11>>)}

============================================================================
