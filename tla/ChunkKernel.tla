---------------------------- MODULE ChunkKernel ----------------------------
(***************************************************************************)
(* What one dispatch of the chunk kernels of streaming_1m_kernels.metal    *)
(* does to the online-softmax state: mode A ("A", causal streaming) and    *)
(* mode B ("B", verification of a speculative burst).  The running maximum,*)
(* normaliser and unnormalised output of a query are represented by how    *)
(* often each key has been accumulated into them; the rescaling that keeps *)
(* the sum exact is not modelled.                                          *)
(***************************************************************************)
EXTENDS Integers

CONSTANTS Tokens,  \* token positions, 0 .. n
          Tile     \* BQ = BK, 64 in the kernels

ASSUME KernelAssumption == Tile \in Nat \ {0} /\ Tokens \subseteq Nat

Smaller(a, b) == IF a < b THEN a ELSE b

\* A pass p is one dispatch with the constants the host sets for it: mode,
\* the queries first .. total-1, the chunk's start and len, isFirst, isLast.
Nothing == [t \in Tokens |-> 0]
Queries(p) == p.first .. p.total - 1
Keys(p) == p.start .. p.start + p.len - 1

\* K tiles a query's threadgroup loads.  Mode A stops at the tile of the last
\* query of the threadgroup; mode B runs over the whole chunk.
TileEnd(p, q) == Smaller((q \div Tile + 1) * Tile, p.total)
LastCausalTile(p, q) ==
  IF TileEnd(p, q) > p.start THEN (TileEnd(p, q) - 1 - p.start) \div Tile ELSE 0
ChunkTiles(p) == (p.len + Tile - 1) \div Tile
\* Fault: the tile of the last query itself is left out.
LoadedTilesShort(p, q) ==
  IF p.mode = "A" THEN Smaller(LastCausalTile(p, q), ChunkTiles(p))
  ELSE ChunkTiles(p)

LoadedTiles(p, q) ==
  IF p.mode = "A" THEN Smaller(LastCausalTile(p, q) + 1, ChunkTiles(p))
  ELSE ChunkTiles(p)

\* Fault: no causal mask inside a tile.
ScoredUnmasked(p, q) ==
  {t \in Keys(p) : (t - p.start) \div Tile < LoadedTiles(p, q)}

\* Keys whose score is not masked to -1e30.
Scored(p, q) == {t \in Keys(p) : /\ (t - p.start) \div Tile < LoadedTiles(p, q)
                                 /\ t <= q}

\* Fault: every pass starts afresh.
AccumulatedAfresh(p, q, acc, valid) ==
  [t \in Tokens |-> IF valid /\ t \in Scored(p, q) THEN 1 ELSE 0]

\* The first pass starts from -inf/0/0 instead of the state buffers.
Accumulated(p, q, acc, valid) ==
  LET prev == IF p.isFirst THEN Nothing ELSE acc[q]
  IN [t \in Tokens |-> prev[t] + (IF valid /\ t \in Scored(p, q) THEN 1 ELSE 0)]

\* Mode A leaves the queries before the chunk alone and finishes a query as
\* soon as the chunk that contains it has been read.  Mode B has one
\* threadgroup, and so one tile, of queries.
Touched(p, q) ==
  /\ q \in Queries(p)
  /\ IF p.mode = "A" THEN q >= p.start ELSE q - p.first < Tile
Finished(p, q) ==
  p.isLast \/ (p.mode = "A" /\ q < p.start + p.len)

StateAfter(p, acc, valid) ==
  [q \in Tokens |-> IF Touched(p, q) /\ ~Finished(p, q)
                      THEN Accumulated(p, q, acc, valid) ELSE acc[q]]
OutputAfter(p, acc, out, valid) ==
  [q \in Tokens |-> IF Touched(p, q) /\ Finished(p, q)
                      THEN Accumulated(p, q, acc, valid) ELSE out[q]]
=============================================================================
