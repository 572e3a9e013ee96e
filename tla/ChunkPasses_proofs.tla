------------------------- MODULE ChunkPasses_proofs -------------------------
(***************************************************************************)
(* The chunk kernels by themselves, for every tile, length of text and     *)
(* burst of at most a tile: however the keys are cut into passes, every    *)
(* query attends to each key up to it exactly once.  The lemmas are those  *)
(* of StreamEngine_proofs, where the kernels run inside the engine.        *)
(***************************************************************************)
EXTENDS ChunkPasses, TLAPS

Dispatch == [mode : {"A", "B"}, first : Nat, total : Nat, start : Nat, len : Nat,
             isFirst : BOOLEAN, isLast : BOOLEAN]

-----------------------------------------------------------------------------
(* The index arithmetic of a pass.                                         *)

LEMMA DivMonotone ==
  ASSUME NEW d \in Nat \ {0}, NEW a \in Nat, NEW b \in Nat, a <= b
  PROVE  a \div d <= b \div d
<1> DEFINE x == a \div d
           y == b \div d
<1>1. x \in Int /\ y \in Int /\ d * x <= a /\ b < d * (y + 1)
  <2>1. /\ a = d * x + (a % d) /\ x \in Int /\ a % d \in 0 .. d - 1
        /\ b = d * y + (b % d) /\ y \in Int /\ b % d \in 0 .. d - 1
    OBVIOUS
  <2>2. d * (y + 1) = d * y + d
    BY <2>1
  <2>3. QED BY <2>1, <2>2
<1> HIDE DEF x, y
<1>2. ASSUME x > y PROVE FALSE
  <2>1. d * (y + 1) <= d * x
    BY <1>1, <1>2
  <2>2. QED BY <1>1, <2>1
<1>3. x <= y
  BY <1>1, <1>2
<1>4. QED BY <1>3 DEF x, y

LEMMA TilePositive == Tile \in Nat \ {0}
BY KernelAssumption

\* The tile that holds the last of n items is the last of the tiles.
LEMMA TileOfLast ==
  ASSUME NEW n \in Nat \ {0}, NEW k \in 0 .. n - 1
  PROVE  k \div Tile < (n + Tile - 1) \div Tile
<1> DEFINE x == k \div Tile
           y == (n + Tile - 1) \div Tile
           u == n + Tile - 1
<1>1. k \in Nat /\ u \in Nat /\ k + Tile <= u
  BY TilePositive
<1>2. /\ x \in Int /\ Tile * x <= k
      /\ y \in Int /\ u < Tile * (y + 1)
  <2>1. /\ k = Tile * x + (k % Tile) /\ x \in Int /\ k % Tile \in 0 .. Tile - 1
        /\ u = Tile * y + (u % Tile) /\ y \in Int /\ u % Tile \in 0 .. Tile - 1
    BY <1>1, TilePositive
  <2> HIDE DEF x, y, u
  <2>2. Tile * (y + 1) = Tile * y + Tile
    BY <2>1, TilePositive
  <2>3. QED BY <1>1, <2>1, <2>2, TilePositive
<1> HIDE DEF x, y, u
<1>3. ASSUME x >= y PROVE FALSE
  <2>1. Tile * y <= Tile * x
    BY <1>2, <1>3, TilePositive
  <2>2. Tile * (y + 1) = Tile * y + Tile
    BY <1>2, TilePositive
  <2>3. QED BY <1>1, <1>2, <2>1, <2>2, TilePositive
<1>4. x < y
  BY <1>2, <1>3
<1>5. QED BY <1>4 DEF x, y, u

\* The end of a query's tile lies behind the query.
LEMMA QueryBeforeTileEnd ==
  ASSUME NEW q \in Nat PROVE q < (q \div Tile + 1) * Tile
<1> DEFINE x == q \div Tile
<1>1. q = Tile * x + (q % Tile) /\ x \in Int /\ q % Tile \in 0 .. Tile - 1
  BY TilePositive
<1> HIDE DEF x
<1>2. (x + 1) * Tile = Tile * x + Tile
  BY <1>1, TilePositive
<1>3. q < (x + 1) * Tile
  BY <1>1, <1>2, TilePositive
<1>4. QED BY <1>3 DEF x

\* No tile that a query needs is skipped: the keys scored for it are exactly
\* those of the chunk up to the query.
LEMMA NoTileIsSkipped ==
  ASSUME NEW p \in Dispatch, NEW q \in Nat, q \in Queries(p), Touched(p, q)
  PROVE  Scored(p, q) = {t \in Keys(p) : t <= q}
<1>1. /\ p.start \in Nat /\ p.len \in Nat /\ p.total \in Nat /\ p.first \in Nat
      /\ p.mode \in {"A", "B"}
  BY DEF Dispatch
<1>2. ASSUME NEW t \in Keys(p), t <= q
      PROVE  (t - p.start) \div Tile < LoadedTiles(p, q)
  <2>1. /\ t \in Int /\ t - p.start \in Nat /\ t - p.start \in 0 .. p.len - 1
        /\ p.len \in Nat \ {0}
    BY <1>1, <1>2 DEF Keys
  <2>2. (t - p.start) \div Tile < ChunkTiles(p)
    BY <2>1, TileOfLast DEF ChunkTiles
  <2>3. CASE p.mode = "A"
    <3> DEFINE end == TileEnd(p, q)
    <3>1. (q \div Tile + 1) * Tile \in Int /\ q < (q \div Tile + 1) * Tile /\ q < p.total
      BY <1>1, TilePositive, QueryBeforeTileEnd DEF Queries
    <3>2. end \in Int /\ q < end
      BY <1>1, <3>1 DEF TileEnd, Smaller
    <3>3. p.start <= q
      BY <2>3 DEF Touched
    <3> HIDE DEF end
    <3>4. end - 1 - p.start \in Nat /\ t - p.start <= end - 1 - p.start /\ end > p.start
      BY <1>1, <1>2, <2>1, <3>2, <3>3
    <3>5. (t - p.start) \div Tile <= (end - 1 - p.start) \div Tile
      BY <2>1, <3>4, TilePositive, DivMonotone
    <3>6. LastCausalTile(p, q) = (end - 1 - p.start) \div Tile
      BY <3>4 DEF LastCausalTile, end
    <3>7. /\ (t - p.start) \div Tile \in Int /\ (end - 1 - p.start) \div Tile \in Int
          /\ ChunkTiles(p) \in Int
      BY <1>1, <2>1, <3>4, TilePositive DEF ChunkTiles
    <3>8. QED
      BY <2>2, <2>3, <3>5, <3>6, <3>7 DEF LoadedTiles, Smaller
  <2>4. CASE p.mode = "B"
    BY <2>2, <2>4 DEF LoadedTiles
  <2>5. QED BY <1>1, <2>3, <2>4
<1>3. QED BY <1>2 DEF Scored

\* A pass adds the keys of its chunk to those its state holds.
LEMMA PassExtendsSeen ==
  ASSUME NEW p \in Dispatch, NEW q \in Tokens, q \in Queries(p),
         Touched(p, q), NEW a,
         p.isFirst <=> p.start = 0, p.start > 0 => a[q] = Seen(q, p.start)
  PROVE  Accumulated(p, q, a, TRUE) = Seen(q, p.start + p.len)
<1>1. p.start \in Nat /\ p.len \in Nat /\ q \in Nat /\ Tokens \subseteq Nat
  BY KernelAssumption DEF Dispatch
<1> DEFINE prev == IF p.isFirst THEN Nothing ELSE a[q]
<1>2. prev = Seen(q, p.start)
  <2>1. CASE p.start = 0
    BY <1>1, <2>1 DEF Nothing, Seen
  <2>2. CASE p.start # 0
    <3>1. p.start > 0 /\ ~p.isFirst
      BY <1>1, <2>2
    <3>2. QED BY <3>1
  <2>3. QED BY <2>1, <2>2
<1>3. Scored(p, q) = {t \in Keys(p) : t <= q}
  BY <1>1, NoTileIsSkipped
<1>4. ASSUME NEW t \in Tokens
      PROVE  prev[t] + (IF TRUE /\ t \in Scored(p, q) THEN 1 ELSE 0)
               = Seen(q, p.start + p.len)[t]
  <2>1. t \in Scored(p, q) <=> p.start <= t /\ t < p.start + p.len /\ t <= q
    BY <1>1, <1>3 DEF Keys
  <2>2. prev[t] = IF t < p.start /\ t <= q THEN 1 ELSE 0
    BY <1>2 DEF Seen
  <2> HIDE DEF prev
  <2>3. QED BY <1>1, <2>1, <2>2 DEF Seen
<1>5. QED BY <1>4 DEF Accumulated, Seen

-----------------------------------------------------------------------------
(* The invariant.                                                          *)

LEMMA AskedAreTokens ==
  ASSUME Call PROVE Asked \subseteq Tokens /\ Asked \subseteq Nat
<1>1. total \in Nat /\ first \in Nat /\ 0 .. total \subseteq Tokens
  BY KernelAssumption, PassesAssumption DEF Call
<1>2. QED BY <1>1 DEF Asked

LEMMA CallInit == Init => Call
<1> SUFFICES ASSUME Init PROVE Call
  OBVIOUS
<1>1. total \in Nat /\ MaxBurst \in Nat /\ MaxBurst <= Tile /\ Tile \in Nat
  BY KernelAssumption, PassesAssumption DEF Init
<1>2. first \in Nat
  BY <1>1 DEF Init
<1>3. mode = "B" => total - first <= Tile
  BY <1>1, <1>2 DEF Init
<1>4. start \in 0 .. total
  BY <1>1 DEF Init
<1>5. QED BY <1>2, <1>3, <1>4 DEF Init, Call

LEMMA HandedInit == Init => Handed
<1> SUFFICES ASSUME Init, NEW q \in Asked
             PROVE IF (mode = "A" /\ q < start) \/ start = total
                     THEN out[q] = Seen(q, start)
                     ELSE start > 0 => acc[q] = Seen(q, start)
  BY DEF Handed
<1>1. q \in Nat /\ total \in Nat \ {0} /\ start = 0
  BY CallInit, AskedAreTokens, KernelAssumption DEF Init
<1>2. QED BY <1>1

\* A pass leaves every query either finished with its answer or holding the
\* keys handed over by then.
LEMMA PassKeepsHanded ==
  ASSUME Call, Handed, NEW len \in 1 .. total - start, Pass(len)
  PROVE  Handed'
<1> DEFINE p == [mode |-> mode, first |-> first, total |-> total, start |-> start,
                 len |-> len, isFirst |-> start = 0, isLast |-> start + len = total]
           d == start + len
<1>1. /\ acc' = StateAfter(p, acc, TRUE) /\ out' = OutputAfter(p, acc, out, TRUE)
      /\ start' = d /\ mode' = mode /\ first' = first /\ total' = total
  BY DEF Pass
<1>2. /\ mode \in {"A", "B"} /\ first \in Nat /\ total \in Nat /\ total > 0
      /\ start \in Nat /\ start < total /\ len \in Nat /\ len > 0 /\ Tile \in Nat
  BY KernelAssumption DEF Call
<1>3. d \in Nat /\ start < d /\ d <= total
  BY <1>2
<1>4. /\ p \in Dispatch /\ p.mode = mode /\ p.first = first /\ p.total = total
      /\ p.start = start /\ p.len = len /\ (p.isFirst <=> start = 0)
      /\ (p.isLast <=> d = total)
  BY <1>2 DEF Dispatch
<1>5. Asked' = Asked
  BY <1>1 DEF Asked
<1> SUFFICES ASSUME NEW q \in Asked
             PROVE  IF (mode = "A" /\ q < d) \/ d = total
                      THEN out'[q] = Seen(q, d) ELSE d > 0 => acc'[q] = Seen(q, d)
  BY <1>1, <1>5 DEF Handed, Seen
<1> HIDE DEF p, d
<1>6. q \in Tokens /\ q \in Nat /\ q \in Queries(p) /\ first <= q /\ q < total
  <2>1. q \in Tokens /\ q \in Nat
    BY AskedAreTokens
  <2>2. QED BY <1>2, <1>4, <2>1 DEF Asked, Queries
<1>7. /\ acc'[q] = IF Touched(p, q) /\ ~Finished(p, q)
                     THEN Accumulated(p, q, acc, TRUE) ELSE acc[q]
      /\ out'[q] = IF Touched(p, q) /\ Finished(p, q)
                     THEN Accumulated(p, q, acc, TRUE) ELSE out[q]
  BY <1>1, <1>6 DEF StateAfter, OutputAfter
<1>8. CASE mode = "A" /\ q < start
  <2>1. ~Touched(p, q)
    BY <1>2, <1>4, <1>6, <1>8 DEF Touched
  <2>2. out[q] = Seen(q, start)
    BY <1>8 DEF Handed
  <2>3. Seen(q, start) = Seen(q, d)
    <3>1. \A t \in Tokens : (t < start /\ t <= q) <=> (t < d /\ t <= q)
      BY <1>2, <1>3, <1>6, <1>8, KernelAssumption
    <3>2. QED BY <3>1 DEF Seen
  <2>4. QED BY <1>2, <1>3, <1>6, <1>7, <1>8, <2>1, <2>2, <2>3
<1>9. CASE ~(mode = "A" /\ q < start)
  <2>1. start > 0 => acc[q] = Seen(q, start)
    BY <1>2, <1>9 DEF Handed
  <2>2. Touched(p, q)
    <3>1. CASE mode = "A"
      BY <1>2, <1>4, <1>6, <1>9, <3>1 DEF Touched
    <3>2. CASE mode = "B"
      <4>1. q - first < Tile
        BY <1>2, <1>6, <3>2 DEF Call
      <4>2. QED BY <1>4, <1>6, <3>2, <4>1 DEF Touched
    <3>3. QED BY <1>2, <3>1, <3>2
  <2>3. Accumulated(p, q, acc, TRUE) = Seen(q, p.start + p.len)
    BY <1>4, <1>6, <2>1, <2>2, PassExtendsSeen
  <2>4. Accumulated(p, q, acc, TRUE) = Seen(q, d)
    BY <1>4, <2>3 DEF d
  <2>5. Finished(p, q) <=> d = total \/ (mode = "A" /\ q < d)
    BY <1>4 DEF Finished, d
  <2>6. QED BY <1>7, <2>2, <2>4, <2>5
<1>10. QED BY <1>8, <1>9

LEMMA PassesNext == PassesInv /\ [Next]_vars => PassesInv'
<1> SUFFICES ASSUME PassesInv, [Next]_vars PROVE PassesInv'
  OBVIOUS
<1>1. ASSUME NEW len \in 1 .. total - start, Pass(len) PROVE PassesInv'
  <2>1. Handed'
    BY <1>1, PassKeepsHanded DEF PassesInv
  <2>2. start + len \in 0 .. total
    BY <1>1, KernelAssumption DEF PassesInv, Call
  <2>3. Call'
    BY <1>1, <2>2 DEF PassesInv, Call, Pass
  <2>4. QED BY <2>1, <2>3 DEF PassesInv
<1>2. CASE UNCHANGED vars
  BY <1>2 DEF vars, PassesInv, Call, Handed, Asked, Seen
<1>3. QED BY <1>1, <1>2 DEF Next

\* The inductive invariant of a causal range cut into passes.
THEOREM PassesInvariant == Spec => []PassesInv
<1>1. Init => PassesInv
  BY CallInit, HandedInit DEF PassesInv
<1>2. QED BY <1>1, PassesNext, PTL DEF Spec

\* However the keys are cut, tile-aligned or not, the output of every query
\* after the last pass is the attention over the keys up to it.
THEOREM KernelsAreExact == Spec => []ExactAfterLastPass
<1>1. PassesInv => ExactAfterLastPass
  <2> SUFFICES ASSUME PassesInv, start = total, NEW q \in Asked
               PROVE  out[q] = UpTo(q)
    BY DEF ExactAfterLastPass
  <2>1. out[q] = Seen(q, total)
    BY DEF PassesInv, Handed
  <2>2. q \in Nat /\ q < total /\ total \in Nat /\ Tokens \subseteq Nat
    BY KernelAssumption DEF PassesInv, Call, Asked
  <2>3. \A t \in Tokens : (t < total /\ t <= q) <=> t <= q
    BY <2>2
  <2>4. QED BY <2>1, <2>3 DEF Seen, UpTo
<1>2. QED BY <1>1, PassesInvariant, PTL

\* Between two passes a query that is not finished holds the keys handed over
\* so far, each once, so that the next pass may continue from its state.
THEOREM KernelStateCarriesOver == Spec => []StateCarriesOver
<1>1. PassesInv => StateCarriesOver
  <2> SUFFICES ASSUME PassesInv, NEW q \in Asked, start \in 1 .. total - 1,
                      mode = "A" => q >= start
               PROVE  acc[q] = Seen(q, start)
    BY DEF StateCarriesOver, Seen
  <2>1. /\ q \in Nat /\ total \in Nat /\ start \in Nat /\ start > 0 /\ start # total
        /\ ~(mode = "A" /\ q < start)
    BY KernelAssumption DEF PassesInv, Call, Asked
  <2>2. QED BY <2>1 DEF PassesInv, Handed
<1>2. QED BY <1>1, PassesInvariant, PTL
=============================================================================
