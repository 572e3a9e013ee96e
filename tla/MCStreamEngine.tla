--------------------------- MODULE MCStreamEngine ---------------------------
(***************************************************************************)
(* Instances of StreamEngine for TLC.  A tile is 2 tokens and a slot is    *)
(* one tile, so a file of 7 tokens has four chunks, the last one partial,  *)
(* and a RAM window of 3 tokens starts in the middle of a tile.            *)
(***************************************************************************)
EXTENDS StreamEngine

MCTokens == 0 .. 6

ModeA(total, ram) ==
  [mode |-> "A", first |-> 0, total |-> total, ram |-> ram, buffers |-> ram > 0]
\* `burst` speculative tokens after total - burst past ones.
ModeB(total, burst, ram) ==
  [mode |-> "B", first |-> total - burst, total |-> total, ram |-> ram,
   buffers |-> ram > 0]

MCPrepares == {2, 5, 7}
MCErrorPrepares == {2, 5}
MCCalls == {ModeA(7, 0), ModeA(5, 0), ModeA(7, 3), ModeA(4, 4), ModeA(2, 0),
            ModeB(7, 2, 0), ModeB(7, 2, 2)}
\* With a call whose window has no buffers, and an in-RAM-only one of that kind.
MCErrorCalls == {ModeA(2, 0), ModeA(5, 0), ModeB(5, 2, 1),
                 [ModeA(4, 2) EXCEPT !.buffers = FALSE],
                 [ModeA(3, 3) EXCEPT !.buffers = FALSE]}
=============================================================================
