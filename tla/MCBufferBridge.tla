--------------------------- MODULE MCBufferBridge ---------------------------
(***************************************************************************)
(* Instances of BufferBridge for TLC.                                      *)
(***************************************************************************)
EXTENDS BufferBridge, TLC

CONSTANTS n1, n2, v1, v2, b1, b2, b3, vertex

MCNames == {n1, n2}
MCValues == {v1, v2}
MCBlocks == {b1, b2, b3}
MCPatches == {<<v>> : v \in MCValues}
OneArray  == {vertex}

\* Names, blocks and values are only ever compared.
Alike == Permutations(MCNames) \cup Permutations(MCBlocks) \cup Permutations(MCValues)
=============================================================================
