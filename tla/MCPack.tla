------------------------------- MODULE MCPack -------------------------------
(***************************************************************************)
(* Packs of a few bytes: each type of table, in one piece and in two, with *)
(* an index that needs padding and one that does not, with records that    *)
(* are refused before the index is written or after, and with values of    *)
(* one and of two digits, of the greatest length, above it, and beyond the *)
(* greatest offset.                                                        *)
(***************************************************************************)
EXTENDS Pack

Job(type, records, pieces, c, t) ==
  [type |-> type, records |-> records, pieces |-> pieces,
   conflict |-> c, total |-> t]

Records(klen, vlens) ==
  [i \in DOMAIN vlens |-> [klen |-> klen, vlen |-> vlens[i]]]

Mixed(klens, vlens) ==
  [i \in DOMAIN vlens |-> [klen |-> klens[i], vlen |-> vlens[i]]]

MCJobs == {
  Job("INDEX_ONLY", Mixed(<<1, 2, 1>>, <<0, 0, 0>>), <<1, 2>>, 1, 4),
  Job("INDEX_ONLY", Records(1, <<0>>), <<1>>, 2, 1),
  Job("INDEX_ONLY", Mixed(<<1, 3>>, <<0, 0>>), <<2>>, 0, 0),
  Job("INDEX_ONLY", <<>>, <<>>, 1, 1),
  Job("KEY_SET", Records(2, <<0, 0, 0>>), <<2, 1>>, 0, 2),
  Job("KEY_SET", Records(1, <<0, 0>>), <<2>>, 1, 0),
  Job("KEY_SET", Mixed(<<1, 2>>, <<0, 0>>), <<1, 1>>, 0, 1),
  Job("KEY_SET", Records(3, <<0>>), <<1>>, 0, 1),
  Job("KV_INLINE", Records(1, <<2, 2>>), <<2>>, 1, 1),
  Job("KV_INLINE", Records(2, <<1, 1, 1>>), <<1, 2>>, 0, 1),
  Job("KV_INLINE", Records(1, <<1, 2>>), <<2>>, 0, 1),
  Job("KV_INLINE", Records(1, <<2, -1>>), <<1, 1>>, 0, 0),
  Job("KV_INLINE", Records(1, <<4, 4>>), <<2>>, 0, 0),
  Job("KV_SEPARATED", Records(1, <<5, 0>>), <<2>>, 1, 2),
  Job("KV_SEPARATED", Records(1, <<3, 15, 4>>), <<1, 2>>, 0, 1),
  Job("KV_SEPARATED", Records(1, <<0, 0>>), <<1, 1>>, 0, 0),
  Job("KV_SEPARATED", Records(2, <<1, 16>>), <<2>>, 0, 0),
  Job("KV_SEPARATED", Records(1, <<12, 9, 1>>), <<3>>, 0, 0),
  Job("KV_SEPARATED", Records(1, <<12, 2>>), <<2>>, 0, 0)}

============================================================================
