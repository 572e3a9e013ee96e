----------------------------- MODULE CacheStack -----------------------------
(***************************************************************************)
(* The KV caches of all layers under an InferenceEngine: every forward     *)
(* pass (TransformerModel.__call__) takes the tokens through the layers in *)
(* order and updates the cache of each, the engine counts the tokens when  *)
(* the pass is over, and a speculative burst is cut back afterwards.  An   *)
(* exception in any layer leaves the caches above it behind.               *)
(* TokenLog is what a caller may rely on; SpecDecode relies on it.         *)
(***************************************************************************)
EXTENDS KVCache

CONSTANTS NumLayers,
          MaxBatch,    \* bound: tokens of one forward pass
          MaxRows,     \* bound: rows of a cache
          MaxFailures  \* bound: failures between two resets

ASSUME StackAssumption ==
  /\ NumLayers \in Nat \ {0}
  /\ MaxBatch \in Nat /\ MaxRows \in Nat /\ MaxFailures \in Nat

Layers == 1 .. NumLayers

VARIABLES mode,     \* config.backend and config.kv_mode
          caches,   \* layer.kv_cache, by layer
          seqLen,   \* _sequence_length
          input,    \* the tokens of the last forward pass
          verifying, \* they were a burst, and its logits are being looked at
          closed,
          failures  \* history: passes and resets that failed since the last completed reset

vars == <<mode, caches, seqLen, input, verifying, closed, failures>>

sound == failures = 0
Batches == UNION {[1 .. n -> Vocab] : n \in 1 .. MaxBatch}
Bounded(tokens) == \A l \in Layers : caches[l].offset + Len(tokens) <= MaxRows
MayFeed(tokens) == ~closed /\ ~verifying /\ seqLen + Len(tokens) <= MaxSeqLen /\ Bounded(tokens)

Init ==
  /\ mode \in Modes /\ caches = [l \in Layers |-> Empty]
  /\ seqLen = 0 /\ input = <<>> /\ verifying = FALSE /\ closed = FALSE /\ failures = 0

\* The layers run in order; each one updates its cache.
Forward(tokens) ==
  /\ input' = tokens
  /\ caches' = [l \in Layers |-> Update(mode, caches[l], tokens)]

\* prefill, and decode_step for a single token: the counter follows the pass.
Feed(tokens) ==
  /\ MayFeed(tokens)
  /\ Forward(tokens)
  /\ seqLen' = seqLen + Len(tokens)
  /\ UNCHANGED <<mode, verifying, closed, failures>>

\* A kernel or a write fails after n layers have updated their caches (the LM
\* head when n is NumLayers); the exception leaves prefill, decode_step or the
\* burst before anything is counted.
ForwardFails(tokens, n) ==
  /\ failures < MaxFailures /\ failures' = failures + 1 /\ input' = tokens
  /\ \E c \in IF n < NumLayers THEN FailedUpdates(mode, caches[n + 1], tokens) ELSE {Empty} :
       caches' = [l \in Layers |-> IF l <= n THEN Update(mode, caches[l], tokens)
                                   ELSE IF l = n + 1 THEN c ELSE caches[l]]

\* Fault: the pass is counted before it is known to succeed.
FeedFailsCounted(tokens, n) ==
  /\ MayFeed(tokens)
  /\ ForwardFails(tokens, n)
  /\ seqLen' = seqLen + Len(tokens)
  /\ UNCHANGED <<mode, verifying, closed>>

FeedFails(tokens, n) ==
  /\ MayFeed(tokens)
  /\ ForwardFails(tokens, n)
  /\ UNCHANGED <<mode, seqLen, verifying, closed>>

\* Fault: bursts are not disabled for out-of-core caches.
BurstInAnyMode(tokens) ==
  /\ MayFeed(tokens)
  /\ Forward(tokens)
  /\ verifying' = TRUE
  /\ UNCHANGED <<mode, seqLen, closed, failures>>

\* The forward pass of generate_ngram_speculative.  It has no check of its own:
\* that a burst stays within the context follows from the checks of the call
\* and from clipping the draft to the room left (SpecDecode).
Burst(tokens) ==
  /\ mode # "out_of_core"      \* _spec_uses_out_of_core
  /\ MayFeed(tokens)
  /\ Forward(tokens)
  /\ verifying' = TRUE
  /\ UNCHANGED <<mode, seqLen, closed, failures>>

\* A mismatch, or an EOS, keeps some of the tokens fed.
CutBack(keep) ==
  /\ verifying /\ keep \in 1 .. Len(input)
  /\ caches' = [l \in Layers |-> Truncate(mode, caches[l], seqLen + keep)]
  /\ seqLen' = seqLen + keep /\ verifying' = FALSE
  /\ UNCHANGED <<mode, input, closed, failures>>

\* A burst accepted to the end, without EOS, leaves counter and caches alone.
AcceptAll ==
  /\ verifying /\ verifying' = FALSE
  /\ UNCHANGED <<mode, caches, seqLen, input, closed, failures>>

Reset ==
  /\ ~closed /\ ~verifying
  /\ caches' = [l \in Layers |-> Empty] /\ seqLen' = 0 /\ failures' = 0
  /\ UNCHANGED <<mode, input, verifying, closed>>

\* Bytes that a failed write left in the file's buffer make the seek(0) of
\* M4KVCache.reset raise again while the disk is full: the layers before are
\* empty, layer n + 1 is but for its file, and the exception spares the layers
\* after it and _sequence_length.
ResetFails(n) ==
  /\ mode = "out_of_core" /\ ~sound /\ ~closed /\ ~verifying
  /\ failures < MaxFailures /\ failures' = failures + 1
  /\ caches' = [l \in Layers |->
                  IF l <= n THEN Empty
                  ELSE IF l = n + 1
                    THEN [Empty EXCEPT !.fileK = caches[l].fileK, !.fileV = caches[l].fileV]
                    ELSE caches[l]]
  /\ UNCHANGED <<mode, seqLen, input, verifying, closed>>

\* close(), from __del__ or __exit__, removes the files; the caches are gone.
Close ==
  /\ ~closed /\ ~verifying /\ closed' = TRUE
  /\ caches' = [l \in Layers |-> [caches[l] EXCEPT !.fileK = <<>>, !.fileV = <<>>]]
  /\ UNCHANGED <<mode, seqLen, input, verifying, failures>>

Next ==
  \/ \E tokens \in Batches : Feed(tokens) \/ Burst(tokens)
  \/ \E tokens \in Batches, n \in 0 .. NumLayers : FeedFails(tokens, n)
  \/ \E keep \in 1 .. Len(input) : CutBack(keep)
  \/ \E n \in 0 .. NumLayers - 1 : ResetFails(n)
  \/ AcceptAll \/ Reset \/ Close

Spec == Init /\ [][Next]_vars

-----------------------------------------------------------------------------
TypeOK ==
  /\ mode \in Modes /\ caches \in [Layers -> Caches]
  /\ seqLen \in Nat /\ input \in Seq(Vocab)
  /\ verifying \in BOOLEAN /\ closed \in BOOLEAN /\ failures \in Nat

ViewOf(l) == View(mode, caches[l])

\* No layer ever attends to a row nobody wrote, although the counter lags
\* behind after accepted bursts, layers differ after failures, and a cut sets
\* the offset of every layer from the one counter: no layer of a cache that may
\* be cut holds less than it.  (An out-of-core cache is never cut; a reset that
\* failed leaves its counter ahead of the layers that are already empty.)
NoUnwrittenRows ==
  \A l \in Layers :
    /\ mode # "out_of_core" => seqLen <= caches[l].offset
    /\ mode = "in_ram" => caches[l].offset <= Len(caches[l].buf)
    /\ \A i \in 1 .. Len(ViewOf(l)) : ViewOf(l)[i] # Unwritten

\* Unless a pass or a reset has failed since the last completed reset, the key at each place
\* was rotated by that place's position in the text, through growth, cuts,
\* overwriting and the eviction of the window's oldest rows.
RowsAtTheirPositions ==
  sound => \A l \in Layers : \A i \in 1 .. Len(ViewOf(l)) :
             ViewOf(l)[i].pos = caches[l].offset - Len(ViewOf(l)) + i

\* Nothing is lost between window and disk: the stream of every layer has the
\* keys and values of all tokens counted, and the window is its end.
StreamKeepsEverything ==
  sound /\ mode = "out_of_core" /\ ~closed =>
    \A l \in Layers :
      /\ caches[l].fileK = caches[l].fileV
      /\ Len(caches[l].fileK) = caches[l].streamed /\ caches[l].streamed = seqLen
      /\ caches[l].buf = Window(caches[l].fileK)

\* The tokens of the text, as layer l has them: on disk if it has left RAM.
Text(l) ==
  LET rows == IF mode = "out_of_core" THEN caches[l].fileK ELSE ViewOf(l)
  IN [i \in 1 .. Len(rows) |-> rows[i].tok]

\* Whatever the kind of cache, all layers are the same log of tokens: an input
\* that reaches one layer and not another is no step of the log.
Log == IF \A l \in Layers : Text(l) = Text(1) THEN Text(1) ELSE <<NoToken>>
TheLog == INSTANCE TokenLog WITH log <- Log, sound <- sound /\ ~closed
ImplementsTokenLog == TheLog!LogSpec

\* read_all_tokens gives back all streamed tokens.
ReadsAllStreamed ==
  sound /\ mode = "out_of_core" /\ ~closed =>
    \A l \in Layers : ReadAllTokens(mode, caches[l]) = caches[l].fileK

-----------------------------------------------------------------------------
(* The inductive invariant behind the properties above.                    *)

\* Whatever failed before, the rows below the offset of a buffer allocated
\* ahead are written, and an MLX cache has no others.
WellFormed(m, c) ==
  /\ m = "in_ram" => /\ Len(c.buf) = c.capacity /\ c.offset <= c.capacity
                     /\ \A i \in 1 .. c.offset : c.buf[i] \in Rows
  /\ m # "in_ram" => c.buf \in Seq(Rows)
  /\ m = "mlx" => Len(c.buf) = c.offset

\* Where a cut may follow, the counter lags behind every layer, by a burst at
\* least while one is verified; the cut never sets an offset beyond a layer's rows.
Lagging ==
  /\ \A l \in Layers : /\ WellFormed(mode, caches[l])
                       /\ mode # "out_of_core" => seqLen <= caches[l].offset
  /\ verifying => /\ mode # "out_of_core" /\ ~closed
                  /\ \A l \in Layers : seqLen + Len(input) <= caches[l].offset

LayersAgree == sound /\ ~closed => \A l, k \in Layers : Text(l) = Text(k)

StackInv == TypeOK /\ Lagging /\ RowsAtTheirPositions /\ StreamKeepsEverything /\ LayersAgree
=============================================================================
