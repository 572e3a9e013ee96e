---------------------------- MODULE BonsaiEngine ----------------------------
(***************************************************************************)
(* bonsai_engine.py: one token goes through all layers, whose weights the  *)
(* streamer brings in one after the other; three layers of four fold it    *)
(* into a recurrent state, the fourth writes a row of a KV cache of fixed  *)
(* size.  generate_stream checks a draft token by token against the model  *)
(* and feeds each token it emits; its consumer may drop it at any yield.   *)
(***************************************************************************)
EXTENDS LayerStreamer, NGramDrafter

CONSTANTS Vocab, StopTokens,
          Cap,        \* max_cached_tokens = min(context_length, 8192)
          Calls,      \* [prompt, maxTokens, speculate]
          MaxCalls    \* bound: calls per engine

ASSUME EngineAssumption ==
  /\ StopTokens \subseteq Vocab /\ Cap \in Nat \ {0} /\ MaxCalls \in Nat
  /\ \A cl \in Calls : /\ cl.prompt \in Seq(Vocab) \ {<<>>}
                       /\ cl.maxTokens \in Nat /\ cl.speculate \in BOOLEAN

IsGqa(l) == l % 4 = 0
GqaLayers == {l \in Layers : IsGqa(l)}
LinearLayers == Layers \ GqaLayers

Row(t, p) == [tok |-> t, pos |-> p]
Rows == [tok : Vocab, pos : 1 .. Cap]
Zero == [tok |-> {}, pos |-> 0]

VARIABLES rec,       \* what recurrent_states and conv_states of a layer hold:
                     \*   all tokens folded in since the reset, in order
          kv,        \* kv_k and kv_v
          kvLen,     \* kv_len, and _sequence_length, which never differs
          pc, call, served,
          layer,     \* lyr of the running pass
          feeding,   \* its tokens: the prompt, or the token of forward_step
          generated,
          draft      \* the candidates of the for loop not yet looked at

state == <<rec, kv, kvLen>>
vars == <<streamer, state, pc, call, served, layer, feeding, generated, draft>>

ZeroRec == [l \in LinearLayers |-> <<>>]
ZeroKv == [l \in GqaLayers |-> [i \in 1 .. Cap |-> Zero]]

Context == call.prompt \o generated
Room == call.maxTokens - Len(generated)

Init ==
  /\ StreamerInit
  /\ rec = ZeroRec /\ kv = ZeroKv /\ kvLen = 0
  /\ pc = "idle" /\ call \in Calls /\ served = 0
  /\ layer = 1 /\ feeding = <<>> /\ generated = <<>> /\ draft = <<>>

\* Fault: the recurrent states are those of the call before.
ResetCachesOnly == kv' = ZeroKv /\ kvLen' = 0 /\ UNCHANGED rec

ResetState == rec' = ZeroRec /\ kv' = ZeroKv /\ kvLen' = 0

\* generate_stream up to the prefill, which starts from nothing.
Start(cl) ==
  /\ pc = "idle" /\ served < MaxCalls
  /\ ResetState
  /\ pc' = "prefill" /\ call' = cl /\ served' = served + 1
  /\ layer' = 1 /\ feeding' = cl.prompt
  /\ generated' = <<>> /\ draft' = <<>>
  /\ UNCHANGED streamer

-----------------------------------------------------------------------------
(* prefill and forward_step, one layer per step.                           *)

\* Fault: the row of the last token is overwritten.
StepRowLast == IF kvLen < Cap THEN kvLen ELSE Cap

\* current_kv_pos: when the cache is full, the last row is overwritten.
StepRow == IF kvLen < Cap THEN kvLen + 1 ELSE Cap

\* The rows of a layer when the pass has been through it; a prefill that is
\* longer than the cache has filled it when it fails.
Written(l) ==
  IF pc = "step"
    THEN [kv[l] EXCEPT ![StepRow] = Row(feeding[1], StepRow)]
    ELSE [i \in 1 .. Cap |-> IF i <= Len(feeding) THEN Row(feeding[i], i) ELSE kv[l][i]]

FoldIn == rec' = [rec EXCEPT ![layer] = @ \o feeding] /\ UNCHANGED kv
CacheRows == kv' = [kv EXCEPT ![layer] = Written(layer)] /\ UNCHANGED rec

\* The logits go to the next candidate of the draft, or to the loop.
AfterPass == IF draft # <<>> \/ Room > 0 THEN "sample" ELSE "idle"

\* Fault: the layer counter is not set back after the last layer.
AdvancePast ==
  /\ layer' = layer + 1
  /\ IF layer < NumLayers
       THEN UNCHANGED <<pc, kvLen>>
       ELSE /\ kvLen' = kvLen + Len(feeding)
            /\ pc' = AfterPass

\* To the next layer, or back to the loop with the logits.
Advance ==
  IF layer < NumLayers
    THEN layer' = layer + 1 /\ UNCHANGED <<pc, kvLen>>
    ELSE /\ layer' = 1 /\ kvLen' = kvLen + Len(feeding)
         /\ pc' = AfterPass

RunLayer ==
  /\ pc \in {"prefill", "step"}
  /\ AcquireLayer(layer)
  /\ IF IsGqa(layer) THEN CacheRows /\ (pc = "prefill" => Len(feeding) <= Cap)
                     ELSE FoldIn
  /\ Advance
  /\ UNCHANGED <<call, served, feeding, generated, draft>>

\* Fault: a prefill that fails is tried again.
PrefillRetried ==
  /\ pc = "prefill" /\ IsGqa(layer) /\ Len(feeding) > Cap
  /\ AcquireLayer(layer)
  /\ rec' = ZeroRec /\ kv' = ZeroKv /\ layer' = 1
  /\ UNCHANGED <<kvLen, pc, call, served, feeding, generated, draft>>

\* The prompt does not fit in the cache: IndexError in the first GQA layer.
PrefillOverflows ==
  /\ pc = "prefill" /\ IsGqa(layer) /\ Len(feeding) > Cap
  /\ AcquireLayer(layer) /\ CacheRows
  /\ pc' = "idle" /\ layer' = 1
  /\ UNCHANGED <<kvLen, call, served, feeding, generated, draft>>

-----------------------------------------------------------------------------
(* The loop of generate_stream.                                            *)

\* Fault: the draft is not clipped to the room left.
CandidatesUnclipped ==
  IF draft # <<>> THEN draft
  ELSE IF call.speculate /\ Room > 1 THEN Propose(Context) ELSE <<>>

\* What is left of the draft, or a new one; nothing if none is proposed or
\* there is no room for one.
Candidates ==
  IF draft # <<>> THEN draft
  ELSE IF call.speculate /\ Room > 1 THEN Clipped(Propose(Context), Room) ELSE <<>>

\* The model's token is emitted, be it the candidate or not, and fed, except
\* for a stop token or the last one without a draft.
Emit(t) ==
  /\ pc = "sample"
  /\ generated' = Append(generated, t)
  /\ draft' = IF Candidates # <<>> /\ Head(Candidates) = t /\ t \notin StopTokens
                THEN Tail(Candidates) ELSE <<>>
  /\ pc' = IF t \in StopTokens \/ (Candidates = <<>> /\ Room = 1) THEN "idle" ELSE "step"
  /\ feeding' = <<t>>
  /\ UNCHANGED <<streamer, state, call, served, layer>>

\* Greedy, or drawn from the probabilities: any token there is.
Sample == \E t \in Vocab : Emit(t)

\* The generator is closed at the yield before the pass, for instance since
\* the client of the server is gone.
Abandon ==
  /\ pc = "step" /\ layer = 1 /\ pc' = "idle"
  /\ UNCHANGED <<streamer, state, call, served, layer, feeding, generated, draft>>

\* No further call is made.
Stop == pc = "idle" /\ UNCHANGED vars

Next ==
  \/ \E cl \in Calls : Start(cl)
  \/ RunLayer \/ PrefillOverflows \/ Sample \/ Abandon \/ Stop

Spec == /\ Init /\ [][Next]_vars
        /\ WF_vars(RunLayer \/ PrefillOverflows) /\ WF_vars(Sample)

-----------------------------------------------------------------------------
TypeOK ==
  /\ StreamerTypeOK
  /\ rec \in [LinearLayers -> Seq(Vocab)]
  /\ kv \in [GqaLayers -> [1 .. Cap -> Rows \cup {Zero}]]
  /\ kvLen \in Nat /\ served \in Nat /\ call \in Calls
  /\ pc \in {"idle", "prefill", "step", "sample"}
  /\ layer \in Layers /\ (layer > 1 => pc \in {"prefill", "step"})
  /\ feeding \in Seq(Vocab) /\ generated \in Seq(Vocab) /\ draft \in Seq(Vocab)

\* What the rows of a cache are for a text: its tokens at their positions, and
\* once the cache is full the newest token in the last row.
NumRows(text) == IF Len(text) < Cap THEN Len(text) ELSE Cap
RowsOf(text) ==
  [i \in 1 .. NumRows(text) |-> Row(text[IF i < Cap THEN i ELSE Len(text)], i)]

\* The logits a token is sampled from come from the whole text and nothing
\* else: every recurrent state has folded in each token once and in order,
\* after drafts that were accepted or not, streams that were dropped between
\* two layers' passes, and prefills that failed half-way through the layers.
RecurrentSawContext ==
  pc = "sample" => \A l \in LinearLayers : rec[l] = Context

\* The same for attention, as far as the cache reaches: running over its end
\* costs the rows after the first Cap - 1 and never one of these.
AttentionSawContext ==
  pc = "sample" =>
    /\ kvLen = Len(Context)
    /\ \A l \in GqaLayers : \A i \in 1 .. NumRows(Context) : kv[l][i] = RowsOf(Context)[i]

\* A stream never has more tokens than were asked for, drafted or not, and none
\* after a stop token.
StreamWithinBudget ==
  /\ Len(generated) <= call.maxTokens
  /\ \A i \in 1 .. Len(generated) - 1 : generated[i] \notin StopTokens

\* Every stream ends: at a stop token, at its budget, or with an exception.
EveryStreamEnds == pc # "idle" ~> pc = "idle"
=============================================================================
