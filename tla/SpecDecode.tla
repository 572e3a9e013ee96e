----------------------------- MODULE SpecDecode -----------------------------
(***************************************************************************)
(* InferenceEngine.generate and generate_ngram_speculative                 *)
(* (inference_engine.py) with the drafter of ngram_drafter.py.  A burst    *)
(* feeds the last token and a draft through the model in one forward pass, *)
(* keeps the drafts the model agrees with and cuts the KV caches back.     *)
(* All layers append and truncate alike, so `cache` is the sequence of     *)
(* tokens any one of them holds.                                           *)
(***************************************************************************)
EXTENDS NGramDrafter

CONSTANTS Vocab, Eos,
          Models,      \* the language models: next token from the last one
          Period,      \*   and the position modulo Period
          Calls,       \* [prompt, maxNew, speculate, greedy, reset]
          MaxContext,  \* config.max_context_length
          MaxCalls     \* bound: calls per engine

ASSUME DecodeAssumption ==
  /\ Eos \subseteq Vocab
  /\ Period \in Nat \ {0}
  /\ Models \subseteq [Vocab -> [0 .. Period - 1 -> Vocab]]
  /\ MaxContext \in Nat /\ MaxCalls \in Nat
  \* `speculate` is FALSE for generate(), and for a model with out-of-core
  \* caches, whose bursts are disabled.
  /\ \A cl \in Calls :
       /\ cl.prompt \in Seq(Vocab) \ {<<>>} /\ cl.maxNew \in Nat \ {0}
       /\ {cl.speculate, cl.greedy, cl.reset} \subseteq BOOLEAN

VARIABLES model,
          cache,      \* tokens fed into every layer's KV cache
          seqLen,     \* _sequence_length
          pc, call, served,
          before,     \* what the cache held when the call's prefill began
          generated,
          draft,      \* the burst being verified
          modelCalls, \* stats.spec_model_calls
          proposed,   \* stats.draft_tokens_proposed
          accepted    \* stats.tokens_accepted

stats == <<modelCalls, proposed, accepted>>
vars == <<model, cache, seqLen, pc, call, served, before, generated, draft, stats>>

Last(s) == s[Len(s)]
Front(s) == SubSeq(s, 1, Len(s) - 1)

-----------------------------------------------------------------------------
(* The model, and the next draft.                                          *)

\* Fault: token ids are counted from one.
PredictOneBased(context) == model[Last(context)][Len(context) % Period] + 1

\* The token sample() may pick after the context: the model's argmax for
\* greedy decoding, any token otherwise.
Predict(context) == model[Last(context)][Len(context) % Period]
Sample(cl, context) == IF cl.greedy THEN {Predict(context)} ELSE Vocab

Context == call.prompt \o generated
Room == call.maxNew - Len(generated)

\* Fault: the draft is not clipped for the extra token.
NextDraftUnclipped ==
  IF call.speculate /\ Room > 1 THEN Propose(Context) ELSE <<>>

\* The draft of the next burst, clipped so that the extra token still fits.
NextDraft ==
  IF call.speculate /\ Room > 1
    THEN Clipped(Propose(Context), Room - 1) ELSE <<>>

\* Tokens up to and with the first EOS.
HasEos(tokens) == \E i \in 1 .. Len(tokens) : tokens[i] \in Eos
\* Fault: the EOS itself is cut off.
BeforeEos(tokens) ==
  IF HasEos(tokens)
    THEN SubSeq(tokens, 1, Min({i \in 1 .. Len(tokens) : tokens[i] \in Eos}) - 1)
    ELSE tokens

UpToEos(tokens) ==
  IF HasEos(tokens)
    THEN SubSeq(tokens, 1, Min({i \in 1 .. Len(tokens) : tokens[i] \in Eos}))
    ELSE tokens

AfterEmit(cl, tokens) ==
  IF HasEos(tokens) \/ Len(tokens) >= cl.maxNew THEN "ready" ELSE "decode"

-----------------------------------------------------------------------------
Init ==
  /\ model \in Models /\ call \in Calls
  /\ cache = <<>> /\ seqLen = 0 /\ pc = "ready" /\ served = 0
  /\ before = <<>> /\ generated = <<>> /\ draft = <<>>
  /\ modelCalls = 0 /\ proposed = 0 /\ accepted = 0

\* The checks of generate*, the reset, the prefill and the first sample.
Start(cl) ==
  /\ pc = "ready" /\ served < MaxCalls
  /\ (IF cl.reset THEN 0 ELSE seqLen) + Len(cl.prompt) + cl.maxNew - 1 <= MaxContext
  /\ served' = served + 1 /\ call' = cl
  /\ before' = IF cl.reset THEN <<>> ELSE cache
  /\ cache' = before' \o cl.prompt
  /\ seqLen' = (IF cl.reset THEN 0 ELSE seqLen) + Len(cl.prompt)
  /\ \E t \in Sample(cl, cache') : generated' = <<t>>
  /\ pc' = AfterEmit(cl, generated')
  /\ draft' = <<>> /\ modelCalls' = 0 /\ proposed' = 0 /\ accepted' = 0
  /\ UNCHANGED model

\* decode_step, when there is no draft or no room for one.
DecodeStep ==
  /\ pc = "decode" /\ NextDraft = <<>>
  /\ cache' = Append(cache, Last(generated)) /\ seqLen' = seqLen + 1
  /\ \E t \in Sample(call, cache') : generated' = Append(generated, t)
  /\ modelCalls' = modelCalls + 1
  /\ pc' = AfterEmit(call, generated')
  /\ UNCHANGED <<model, call, served, before, draft, proposed, accepted>>

\* Fault: the forward pass of a burst is not counted.
FeedBurstUncounted ==
  /\ pc = "decode" /\ NextDraft # <<>>
  /\ draft' = NextDraft
  /\ cache' = Append(cache, Last(generated)) \o draft'
  /\ proposed' = proposed + Len(draft')
  /\ pc' = "verify"
  /\ UNCHANGED <<model, seqLen, call, served, before, generated, modelCalls, accepted>>

\* One forward pass over the last token and the draft.
FeedBurst ==
  /\ pc = "decode" /\ NextDraft # <<>>
  /\ draft' = NextDraft
  /\ cache' = Append(cache, Last(generated)) \o draft'
  /\ modelCalls' = modelCalls + 1 /\ proposed' = proposed + Len(draft')
  /\ pc' = "verify"
  /\ UNCHANGED <<model, seqLen, call, served, before, generated, accepted>>

\* The context the burst's i-th logits are conditioned on.
Fed(i) == SubSeq(cache, 1, Len(cache) - Len(draft) + i)

Truncate(len) == cache' = SubSeq(cache, 1, len) /\ seqLen' = len

\* Fault: a fed EOS stays in the caches.
KeptWithEos(emit, n) == seqLen + 1 + Min({Len(emit), n})

\* How much of the cache stays when the tokens `emit` are emitted after n
\* accepted drafts: an EOS that was fed is cut off again.
KeptAtEos(emit, n) ==
  LET eosWasFed == Len(emit) - 1 < n
  IN Max({seqLen, seqLen + 1 + Min({Len(emit), n}) - (IF eosWasFed THEN 1 ELSE 0)})

VerifyBurst ==
  /\ pc = "verify"
  /\ \E n \in 0 .. Len(draft), t \in Vocab :
       LET new == Append(SubSeq(draft, 1, n), t)
           emit == UpToEos(new)
       IN /\ \A i \in 1 .. n : draft[i] \in Sample(call, Fed(i - 1))
          /\ t \in Sample(call, Fed(n)) /\ (n < Len(draft) => t # draft[n + 1])
          /\ CASE HasEos(new) -> Truncate(KeptAtEos(emit, n))
               [] n < Len(draft) /\ ~HasEos(new) -> Truncate(seqLen + 1 + n)
               [] OTHER -> UNCHANGED <<cache, seqLen>>
          /\ accepted' = accepted + n
          /\ generated' = generated \o emit
  /\ pc' = AfterEmit(call, generated')
  /\ draft' = <<>>
  /\ UNCHANGED <<model, call, served, before, modelCalls, proposed>>

\* The client makes no further call.
Stop == pc = "ready" /\ UNCHANGED vars

Loop == DecodeStep \/ FeedBurst \/ VerifyBurst
Next == (\E cl \in Calls : Start(cl)) \/ Loop \/ Stop
Spec == Init /\ [][Next]_vars

-----------------------------------------------------------------------------
TypeOK ==
  /\ model \in Models /\ call \in Calls
  /\ cache \in Seq(Vocab) /\ before \in Seq(Vocab)
  /\ generated \in Seq(Vocab) /\ draft \in Seq(Vocab)
  /\ seqLen \in Nat /\ served \in Nat
  /\ pc \in {"ready", "decode", "verify"}
  /\ modelCalls \in Nat /\ proposed \in Nat /\ accepted \in Nat

\* Greedy decoding emits what the model predicts token by token.
Lossless ==
  call.greedy =>
    \A i \in 1 .. Len(generated) :
      generated[i] = Predict(before \o call.prompt \o SubSeq(generated, 1, i - 1))

\* The comment of the loop: the cache holds everything but the last token.
FedText == before \o call.prompt \o Front(generated)
CacheExact ==
  IF pc = "verify" THEN cache = Append(FedText, Last(generated)) \o draft
                   ELSE cache = FedText
InStep == served > 0 /\ CacheExact /\ seqLen = Len(FedText)

\* A step of the loop that finds the counter and the caches in step leaves the
\* right tokens in the caches, accepted or rejected, with or without EOS, and
\* keeps greedy output exact.
LoopKeepsCachesExact ==
  [][InStep /\ Loop => CacheExact' /\ (Lossless => Lossless')]_vars

\* A call never emits more than it was asked for, and even in the middle of a
\* burst no cache grows past the context the model was built for.  A follow-up
\* call (reset_cache=False) trusts the counter that accepted bursts left behind
\* the caches, and may overrun it.
StaysWithinContext ==
  /\ Len(generated) <= call.maxNew
  /\ call.reset => Len(cache) <= MaxContext
  /\ pc = "decode" => seqLen + 1 <= MaxContext

\* The statistics explain the output: one token per forward pass plus the
\* accepted drafts, less what an EOS inside a burst cut off.
StatsExplainOutput ==
  /\ accepted <= proposed
  /\ pc # "verify" /\ served > 0 =>
       /\ Len(generated) <= 1 + modelCalls + accepted
       /\ pc = "decode" => Len(generated) = 1 + modelCalls + accepted

\* Bursts never cost more forward passes than decoding token by token, so a
\* call ends: every pass emits at least one of at most maxNew tokens.
NeverSlowerThanSequential ==
  pc # "verify" /\ served > 0 => modelCalls <= Len(generated) - 1
-----------------------------------------------------------------------------
(* The inductive invariant behind these.  A burst in flight has put        *)
(* InFlight tokens into the caches that the counter and the output do not  *)
(* know of yet.                                                            *)

InFlight == IF pc = "verify" THEN 1 + Len(draft) ELSE 0
Concluded == IF pc = "verify" THEN modelCalls - 1 ELSE modelCalls

Budget ==
  /\ Len(generated) <= call.maxNew
  /\ pc = "verify" => Len(draft) < Room
  /\ pc # "ready" => Len(generated) >= 1 /\ Room >= 1 /\ seqLen + Room <= MaxContext

\* The counter never runs ahead of the caches, and the caches of a call that
\* reset them hold nothing but its text.
Lengths ==
  /\ seqLen + InFlight <= Len(cache)
  /\ call.reset => Len(cache) < Len(call.prompt) + Len(generated) + InFlight
  /\ call.reset /\ served > 0 => Len(call.prompt) + call.maxNew - 1 <= MaxContext

Unserved == served = 0 => pc = "ready" /\ cache = <<>> /\ generated = <<>>

Tally ==
  /\ accepted + Len(draft) <= proposed
  /\ served > 0 => /\ Concluded < Len(generated)
                   /\ Len(generated) <= 1 + Concluded + accepted
  /\ pc # "ready" => Len(generated) = 1 + Concluded + accepted
  /\ pc # "verify" => draft = <<>>

DecodeInv == TypeOK /\ Budget /\ Lengths /\ Unserved /\ Tally
=============================================================================
