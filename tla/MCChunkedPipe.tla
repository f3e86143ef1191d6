---------------------------- MODULE MCChunkedPipe ---------------------------
(* ChunkedPipe for TLC: two cells per chunk, blocks are interchangeable.   *)
EXTENDS ChunkedPipe, TLC
Blocks == Permutations(Chunk)
=============================================================================
