-------------------------- MODULE MCFileReassembler --------------------------
(* Files of up to seven bytes, every offset and chunk length that can      *)
(* straddle a boundary, and a cap of three spans, so that a chunk can fall *)
(* between, bridge or abut several.                                        *)
EXTENDS SpanReassembler

MCTotals == {0, 1, 3, 7, 8}
MCAddrs == 0 .. 8
MCChunks == {<<>>} \cup {<<v>> : v \in Values} \cup {<<v, w>> : v, w \in Values}
=============================================================================
