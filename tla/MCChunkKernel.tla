--------------------------- MODULE MCChunkKernel ----------------------------
(* ChunkPasses over texts of up to eight tokens, three to a tile.           *)
EXTENDS ChunkPasses

MCTokens == 0 .. 8
=============================================================================
