------------------------------ MODULE KVCache ------------------------------
(***************************************************************************)
(* One KV cache of modules.py: M4KVCache in its modes in_ram (a buffer     *)
(* allocated ahead, with an offset) and out_of_core (a window in RAM over  *)
(* a stream on the NVMe disk), and the MLXKVCache baseline, which          *)
(* concatenates.  A row stands for the key and the value of one token,     *)
(* with the position RoPE rotated the key by.  Batch, heads and layout of  *)
(* the tensors are left out; TransformerBlock always passes heads first.   *)
(***************************************************************************)
EXTENDS Integers, Sequences

CONSTANTS Vocab, NoToken,
          MaxSeqLen,    \* max_seq_len, the rows allocated ahead
          Slack,        \* 1024: what growth adds beyond the need
          RamCapacity   \* ram_capacity, the window of an out-of-core cache

ASSUME CacheAssumption ==
  /\ NoToken \notin Vocab
  /\ MaxSeqLen \in Nat \ {0} /\ Slack \in Nat \ {0} /\ RamCapacity \in Nat \ {0}

Modes == {"in_ram", "out_of_core", "mlx"}

Row(t, p) == [tok |-> t, pos |-> p]
Rows == [tok : Vocab, pos : Nat \ {0}]
Unwritten == Row(NoToken, 0)      \* mx.zeros

Caches == [buf : Seq(Rows \cup {Unwritten}), capacity : Nat, offset : Nat,
           streamed : Nat, fileK : Seq(Rows), fileV : Seq(Rows)]

\* After __init__ and after reset(), which also empties the file.
Empty == [buf |-> <<>>, capacity |-> 0, offset |-> 0,
          streamed |-> 0, fileK |-> <<>>, fileV |-> <<>>]

Larger(m, n) == IF m < n THEN n ELSE m

\* Fault: RoPE counts from the last position instead of the next one.
NewRowsAtLast(c, tokens) ==
  [i \in 1 .. Len(tokens) |-> Row(tokens[i], c.offset + i - 1)]

\* The rows of the tokens, rotated by their position: RoPE takes the offset
\* the cache has before it is updated.
NewRows(c, tokens) == [i \in 1 .. Len(tokens) |-> Row(tokens[i], c.offset + i)]

-----------------------------------------------------------------------------
(* update_and_fetch, mode in_ram.                                          *)

NextCapacity(c, n) ==
  LET cap == IF c.capacity = 0 THEN Larger(MaxSeqLen, n) ELSE c.capacity
  IN IF c.offset + n > cap THEN Larger(2 * cap, c.offset + n + Slack) ELSE cap

\* Fault: the rows kept by a growth are one short.
WrittenShort(c, rows) ==
  LET cap == NextCapacity(c, Len(rows))
      at(i) == IF i \in c.offset + 1 .. c.offset + Len(rows) THEN rows[i - c.offset]
               ELSE IF cap # c.capacity /\ i >= c.offset THEN Unwritten ELSE c.buf[i]
  IN [i \in 1 .. cap |-> at(i)]

\* A new buffer is zeros, with the rows below the offset copied over.
Written(c, rows) ==
  LET cap == NextCapacity(c, Len(rows))
      at(i) == IF i \in c.offset + 1 .. c.offset + Len(rows) THEN rows[i - c.offset]
               ELSE IF cap # c.capacity /\ i > c.offset THEN Unwritten ELSE c.buf[i]
  IN [i \in 1 .. cap |-> at(i)]

UpdateInRam(c, rows) ==
  [c EXCEPT !.buf = Written(c, rows), !.capacity = NextCapacity(c, Len(rows)),
            !.offset = c.offset + Len(rows)]

-----------------------------------------------------------------------------
(* update_and_fetch, mode out_of_core.                                     *)

Window(s) ==
  IF Len(s) <= RamCapacity THEN s ELSE SubSeq(s, Len(s) - RamCapacity + 1, Len(s))

UpdateOutOfCore(c, rows) ==
  [c EXCEPT !.fileK = @ \o rows, !.fileV = @ \o rows, !.streamed = @ + Len(rows),
            !.offset = @ + Len(rows), !.buf = Window(@ \o rows)]

\* A write that fails (a full disk) raises before the counters change; either
\* half may or may not reach the file.
WriteFailures(c, rows) ==
  {[c EXCEPT !.fileK = k, !.fileV = v] :
     k \in {c.fileK, c.fileK \o rows}, v \in {c.fileV, c.fileV \o rows}}

-----------------------------------------------------------------------------
\* MLXKVCache.update_and_fetch.
UpdateMlx(c, rows) == [c EXCEPT !.buf = @ \o rows, !.offset = Len(c.buf) + Len(rows)]

Update(mode, c, tokens) ==
  LET rows == NewRows(c, tokens)
  IN CASE mode = "in_ram"      -> UpdateInRam(c, rows)
       [] mode = "out_of_core" -> UpdateOutOfCore(c, rows)
       [] mode = "mlx"         -> UpdateMlx(c, rows)

\* The states an update that raises may leave behind.
FailedUpdates(mode, c, tokens) ==
  {c} \cup IF mode = "out_of_core" THEN WriteFailures(c, NewRows(c, tokens)) ELSE {}

\* Fault: only the offset is set, whatever the cache.
TruncateOffset(mode, c, len) == [c EXCEPT !.offset = len]

\* _spec_caches_truncate on one cache: the arrays of an MLX cache are sliced.
Truncate(mode, c, len) ==
  IF mode = "mlx"
    THEN [c EXCEPT !.offset = len, !.buf = SubSeq(@, 1, IF len < Len(@) THEN len ELSE Len(@))]
    ELSE [c EXCEPT !.offset = len]

\* What attention is given: the rows below the offset, or the whole window.
View(mode, c) == IF mode = "in_ram" THEN SubSeq(c.buf, 1, c.offset) ELSE c.buf

\* read_all_tokens, read_stream and fetch_out_of_core; <<>> for (None, None).
ReadAllTokens(mode, c) ==
  IF mode # "out_of_core" \/ c.streamed = 0 THEN <<>> ELSE c.buf
=============================================================================
