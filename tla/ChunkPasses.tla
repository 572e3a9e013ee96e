---------------------------- MODULE ChunkPasses ----------------------------
(***************************************************************************)
(* The chunk kernels by themselves: a causal range of keys is handed to    *)
(* them in consecutive passes of any lengths, aligned to tiles or not (the *)
(* engine's last pass, over the RAM window, starts anywhere).              *)
(***************************************************************************)
EXTENDS ChunkKernel

CONSTANT MaxBurst  \* bound: speculative queries of a mode B call

ASSUME PassesAssumption ==
  /\ \A t \in Tokens : 0 .. t \subseteq Tokens
  \* The mode B kernels take at most one tile of speculative queries.
  /\ MaxBurst \in 1 .. Tile

VARIABLES mode, first, total, \* the call
          start,              \* keys handed to the kernels so far
          acc, out

vars == <<mode, first, total, start, acc, out>>

Untouched == [q \in Tokens |-> Nothing]

Init ==
  /\ mode \in {"A", "B"}
  /\ total \in Tokens \ {0}
  /\ IF mode = "A" THEN first = 0 ELSE first \in total - MaxBurst .. total - 1
  /\ first >= 0 /\ start = 0
  /\ acc = Untouched /\ out = Untouched

Pass(len) ==
  LET p == [mode |-> mode, first |-> first, total |-> total, start |-> start,
            len |-> len, isFirst |-> start = 0, isLast |-> start + len = total]
  IN /\ acc' = StateAfter(p, acc, TRUE)
     /\ out' = OutputAfter(p, acc, out, TRUE)
     /\ start' = start + len
     /\ UNCHANGED <<mode, first, total>>

Next == \/ \E len \in 1 .. total - start : Pass(len)
        \/ start = total /\ UNCHANGED vars
Spec == Init /\ [][Next]_vars

Asked == first .. total - 1
UpTo(n) == [t \in Tokens |-> IF t <= n THEN 1 ELSE 0]

\* However the keys are cut into passes, a query's output is the attention
\* over the keys up to it, each accumulated once: no tile is skipped, no
\* masked key slips in, and no later pass reopens a finished query.
ExactAfterLastPass == start = total => \A q \in Asked : out[q] = UpTo(q)

\* Between passes the state of a query that is not finished holds the keys
\* handed over so far, so that the next pass may continue from it.
StateCarriesOver ==
  \A q \in Asked :
    start \in 1 .. total - 1 /\ (mode = "A" => q >= start) =>
      acc[q] = [t \in Tokens |-> IF t < start /\ t <= q THEN 1 ELSE 0]

-----------------------------------------------------------------------------
(* The inductive invariant behind both.                                    *)
Call ==
  /\ mode \in {"A", "B"}
  /\ total \in Tokens \ {0} /\ first \in Nat
  /\ mode = "B" => total - first <= Tile
  /\ start \in 0 .. total

\* The keys below d that query q may see, each of them once.
Seen(q, d) == [t \in Tokens |-> IF t < d /\ t <= q THEN 1 ELSE 0]

\* A finished query holds its answer, any other the keys handed over so far.
Handed ==
  \A q \in Asked :
    IF (mode = "A" /\ q < start) \/ start = total THEN out[q] = Seen(q, start)
                                                 ELSE start > 0 => acc[q] = Seen(q, start)

PassesInv == Call /\ Handed
=============================================================================
