---------------------------- MODULE MCMol2Source ----------------------------
(* Small blocks for the reader: texts that agree on a prefix, some longer  *)
(* than a cache or a comparison buffer.                                    *)
EXTENDS Mol2Source

FewBlocks == {<<>>, <<4, 5>>, <<4, 3, 3, 1>>}
MCBufLens == {1, 2, 3}
=============================================================================
