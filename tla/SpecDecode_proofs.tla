------------------------- MODULE SpecDecode_proofs -------------------------
(***************************************************************************)
(* The speculative decoding loop, proved for every model, every call and   *)
(* every drafter length.                                                   *)
(***************************************************************************)
EXTENDS SpecDecode, NGramDrafter_proofs

LEMMA CallFacts ==
  ASSUME NEW cl \in Calls
  PROVE  /\ cl.prompt \in Seq(Vocab) /\ Len(cl.prompt) \in Nat \ {0}
         /\ cl.maxNew \in Nat \ {0}
         /\ cl.speculate \in BOOLEAN /\ cl.greedy \in BOOLEAN /\ cl.reset \in BOOLEAN
<1>1. cl.prompt \in Seq(Vocab) /\ cl.prompt # <<>>
  BY DecodeAssumption
<1>2. Len(cl.prompt) \in Nat \ {0}
  BY <1>1
<1> QED
  BY <1>1, <1>2, DecodeAssumption

LEMMA PredictType ==
  ASSUME model \in Models, NEW context \in Seq(Vocab), Len(context) > 0
  PROVE  Predict(context) \in Vocab
<1>1. Last(context) \in Vocab
  BY DEF Last
<1>2. Len(context) % Period \in 0 .. Period - 1
  <2>1. Period \in Nat \ {0} /\ Len(context) \in Nat
    BY DecodeAssumption
  <2> HIDE DEF Last
  <2> QED
    BY <2>1
<1>3. model \in [Vocab -> [0 .. Period - 1 -> Vocab]]
  BY DecodeAssumption
<1> QED
  BY <1>1, <1>2, <1>3, Zenon DEF Predict

LEMMA SampleType ==
  ASSUME model \in Models, NEW cl, NEW context \in Seq(Vocab), Len(context) > 0
  PROVE  Sample(cl, context) \subseteq Vocab
BY PredictType DEF Sample

-----------------------------------------------------------------------------
(* Sequences.                                                              *)

LEMMA AppendIs ==
  ASSUME NEW S, NEW s \in Seq(S), NEW e \in S
  PROVE  /\ Append(s, e) \in Seq(S) /\ Len(Append(s, e)) = Len(s) + 1
         /\ \A i \in 1 .. Len(s) : Append(s, e)[i] = s[i]
         /\ Append(s, e)[Len(s) + 1] = e
OBVIOUS

LEMMA ConcatIs ==
  ASSUME NEW S, NEW s \in Seq(S), NEW r \in Seq(S)
  PROVE  /\ s \o r \in Seq(S) /\ Len(s \o r) = Len(s) + Len(r)
         /\ \A i \in 1 .. Len(s) : (s \o r)[i] = s[i]
         /\ \A i \in 1 .. Len(r) : (s \o r)[Len(s) + i] = r[i]
OBVIOUS

LEMMA SameSequence ==
  ASSUME NEW S, NEW s \in Seq(S), NEW r \in Seq(S), Len(s) = Len(r),
         \A i \in 1 .. Len(s) : s[i] = r[i]
  PROVE  s = r
OBVIOUS

\* What is emitted after a burst: everything up to the first EOS, never nothing.
LEMMA UpToEosIs ==
  ASSUME NEW new \in Seq(Vocab), Len(new) > 0
  PROVE  /\ UpToEos(new) \in Seq(Vocab) /\ Len(UpToEos(new)) \in 1 .. Len(new)
         /\ \A i \in 1 .. Len(UpToEos(new)) : UpToEos(new)[i] = new[i]
         /\ HasEos(UpToEos(new)) <=> HasEos(new)
         /\ ~HasEos(new) => UpToEos(new) = new
<1>1. CASE ~HasEos(new)
  BY <1>1 DEF UpToEos
<1>2. CASE HasEos(new)
  <2> DEFINE E == {i \in 1 .. Len(new) : new[i] \in Eos}
             k == Min(E)
  <2>1. E \subseteq Nat /\ E # {}
    BY <1>2 DEF HasEos
  <2>2. k \in E
    BY <2>1, MinOfNaturals
  <2>3. UpToEos(new) = SubSeq(new, 1, k)
    BY <1>2 DEF UpToEos
  <2>4. k \in 1 .. Len(new) /\ new[k] \in Eos
    BY <2>2
  <2> HIDE DEF E, k
  <2>5. /\ SubSeq(new, 1, k) \in Seq(Vocab) /\ Len(SubSeq(new, 1, k)) = k
        /\ \A i \in 1 .. k : SubSeq(new, 1, k)[i] = new[i]
    BY <2>4, PrefixOf
  <2>6. k \in 1 .. Len(SubSeq(new, 1, k)) /\ SubSeq(new, 1, k)[k] \in Eos
    BY <2>4, <2>5
  <2>7. HasEos(UpToEos(new))
    BY <2>3, <2>6 DEF HasEos
  <2> QED
    BY <1>2, <2>3, <2>4, <2>5, <2>7
<1> QED
  BY <1>1, <1>2

-----------------------------------------------------------------------------
(* The steps of the loop.                                                  *)

\* The next draft leaves room for the extra token.
LEMMA NextDraftIs ==
  ASSUME TypeOK
  PROVE  /\ NextDraft \in Seq(Vocab)
         /\ NextDraft # <<>> => Len(NextDraft) < Room
<1>1. Context \in Seq(Vocab) /\ Room \in Int
  BY CallFacts, ConcatIs DEF TypeOK, Context, Room
<1>2. CASE call.speculate /\ Room > 1
  <2> DEFINE d == Propose(Context)
             r == Room - 1
  <2>1. d \in Seq(Vocab) /\ r \in Nat /\ r < Room
    BY <1>1, <1>2, ProposeFollowsLatestMatch
  <2>2. NextDraft = Clipped(d, r)
    BY <1>2 DEF NextDraft
  <2> HIDE DEF d, r
  <2>3. /\ Clipped(d, r) \in Seq(Vocab)
        /\ Len(Clipped(d, r)) = IF Len(d) <= r THEN Len(d) ELSE r
    BY <2>1, ClippedIs
  <2>4. Len(Clipped(d, r)) <= r /\ Len(Clipped(d, r)) \in Nat
    BY <2>1, <2>3
  <2> QED
    BY <1>1, <2>1, <2>2, <2>3, <2>4
<1>3. CASE ~(call.speculate /\ Room > 1)
  <2>1. NextDraft = <<>>
    BY <1>3 DEF NextDraft
  <2> QED
    BY <2>1
<1> QED
  BY <1>2, <1>3

\* What a verification does, whichever of its branches is taken: some accepted
\* drafts and one token of the model, cut at the first EOS, are emitted; the
\* caches are cut so that they hold one token less than was emitted, or left.
Emits(n, t, emit) ==
  /\ emit \in Seq(Vocab) /\ Len(emit) \in 1 .. n + 1
  /\ \A i \in 1 .. Len(emit) : emit[i] = IF i <= n THEN draft[i] ELSE t
  /\ ~HasEos(emit) => Len(emit) = n + 1
  /\ \/ Truncate(seqLen + Len(emit))
     \/ UNCHANGED <<cache, seqLen>> /\ n = Len(draft) /\ Len(emit) = n + 1

LEMMA VerifyEmits ==
  ASSUME TypeOK, VerifyBurst
  PROVE  \E n \in 0 .. Len(draft), t \in Vocab, emit \in Seq(Vocab) :
           /\ Emits(n, t, emit)
           /\ \A i \in 1 .. n : draft[i] \in Sample(call, Fed(i - 1))
           /\ t \in Sample(call, Fed(n))
           /\ generated' = generated \o emit /\ accepted' = accepted + n
<1>1. PICK n \in 0 .. Len(draft), t \in Vocab :
        LET new == Append(SubSeq(draft, 1, n), t)
            emit == UpToEos(new)
        IN /\ \A i \in 1 .. n : draft[i] \in Sample(call, Fed(i - 1))
           /\ t \in Sample(call, Fed(n)) /\ (n < Len(draft) => t # draft[n + 1])
           /\ CASE HasEos(new) -> Truncate(KeptAtEos(emit, n))
                [] n < Len(draft) /\ ~HasEos(new) -> Truncate(seqLen + 1 + n)
                [] OTHER -> UNCHANGED <<cache, seqLen>>
           /\ accepted' = accepted + n
           /\ generated' = generated \o emit
  BY DEF VerifyBurst
<1> DEFINE new == Append(SubSeq(draft, 1, n), t)
           emit == UpToEos(new)
<1>2. draft \in Seq(Vocab) /\ seqLen \in Nat /\ n \in Nat
  BY DEF TypeOK
<1>3. /\ new \in Seq(Vocab) /\ Len(new) = n + 1
      /\ \A i \in 1 .. n : new[i] = draft[i]
      /\ new[n + 1] = t
  <2> DEFINE d == SubSeq(draft, 1, n)
  <2>1. d \in Seq(Vocab) /\ Len(d) = n /\ \A i \in 1 .. n : d[i] = draft[i]
    BY <1>2, PrefixOf
  <2> HIDE DEF d
  <2>2. /\ Append(d, t) \in Seq(Vocab) /\ Len(Append(d, t)) = Len(d) + 1
        /\ \A i \in 1 .. Len(d) : Append(d, t)[i] = d[i]
        /\ Append(d, t)[Len(d) + 1] = t
    BY <2>1, AppendIs
  <2>3. new = Append(d, t)
    BY DEF d
  <2> HIDE DEF new
  <2> QED
    BY <2>1, <2>2, <2>3
<1>4. /\ \A i \in 1 .. n : draft[i] \in Sample(call, Fed(i - 1))
      /\ t \in Sample(call, Fed(n))
      /\ accepted' = accepted + n /\ generated' = generated \o emit
  BY <1>1
<1>5. /\ HasEos(new) => Truncate(KeptAtEos(emit, n))
      /\ n < Len(draft) /\ ~HasEos(new) => Truncate(seqLen + 1 + n)
      /\ ~(n < Len(draft)) /\ ~HasEos(new) => UNCHANGED <<cache, seqLen>>
  BY <1>1
<1> HIDE DEF new
<1>6. /\ emit \in Seq(Vocab) /\ Len(emit) \in 1 .. n + 1
      /\ \A i \in 1 .. Len(emit) : emit[i] = new[i]
      /\ HasEos(emit) <=> HasEos(new)
      /\ ~HasEos(new) => emit = new
  BY <1>2, <1>3, UpToEosIs
<1> HIDE DEF emit
<1>7. \A i \in 1 .. Len(emit) : emit[i] = IF i <= n THEN draft[i] ELSE t
  <2> SUFFICES ASSUME NEW i \in 1 .. Len(emit)
               PROVE  emit[i] = IF i <= n THEN draft[i] ELSE t
    OBVIOUS
  <2>1. i \in 1 .. n \/ i = n + 1
    BY <1>2, <1>6
  <2> QED
    BY <1>2, <1>3, <1>6, <2>1
<1>8. CASE HasEos(new)
  <2> DEFINE k == seqLen + 1 + Min({Len(emit), n}) - (IF Len(emit) - 1 < n THEN 1 ELSE 0)
  <2>1. Len(emit) \in Nat /\ Len(emit) >= 1 /\ Len(emit) <= n + 1
    BY <1>2, <1>6
  <2>2. Min({Len(emit), n}) = IF Len(emit) <= n THEN Len(emit) ELSE n
    BY <1>2, <2>1, MinOfTwo
  <2>3. k = seqLen + Len(emit)
    BY <1>2, <2>1, <2>2
  <2>4. KeptAtEos(emit, n) = Max({seqLen, k})
    BY DEF KeptAtEos
  <2> HIDE DEF k
  <2>5. Max({seqLen, k}) = k
    BY <1>2, <2>1, <2>3, MaxOfTwo
  <2>6. Truncate(seqLen + Len(emit))
    BY <1>5, <1>8, <2>3, <2>4, <2>5
  <2>7. Emits(n, t, emit)
    BY <1>6, <1>7, <1>8, <2>6 DEF Emits
  <2> QED
    BY <1>4, <1>6, <2>7
<1>9. CASE ~HasEos(new)
  <2>1. Len(emit) = n + 1 /\ seqLen + Len(emit) = seqLen + 1 + n
    BY <1>2, <1>3, <1>6, <1>9
  <2>2. CASE n < Len(draft)
    <3>1. Emits(n, t, emit)
      BY <1>5, <1>6, <1>7, <1>9, <2>1, <2>2 DEF Emits
    <3> QED
      BY <1>4, <1>6, <3>1
  <2>3. CASE ~(n < Len(draft))
    <3>1. n = Len(draft)
      BY <1>2, <2>3
    <3>2. Emits(n, t, emit)
      BY <1>5, <1>6, <1>7, <1>9, <2>1, <2>3, <3>1 DEF Emits
    <3> QED
      BY <1>4, <1>6, <3>2
  <2> QED
    BY <2>2, <2>3
<1> QED
  BY <1>8, <1>9

-----------------------------------------------------------------------------
(* The invariant, action by action.                                        *)

LEMMA InitInv == Init => DecodeInv
<1> SUFFICES ASSUME Init PROVE DecodeInv
  OBVIOUS
<1>1. /\ call.prompt \in Seq(Vocab) /\ Len(call.prompt) \in Nat \ {0}
      /\ call.maxNew \in Nat \ {0} /\ MaxContext \in Nat
  BY CallFacts, DecodeAssumption DEF Init
<1>2. TypeOK
  BY <1>1 DEF Init, TypeOK
<1>3. Budget /\ Unserved /\ Tally
  BY <1>1 DEF Init, Budget, Unserved, Tally, Room, Concluded
<1>4. Lengths
  BY <1>1 DEF Init, Lengths, InFlight
<1> QED
  BY <1>2, <1>3, <1>4 DEF DecodeInv

LEMMA StartInv ==
  ASSUME DecodeInv, NEW cl \in Calls, Start(cl) PROVE DecodeInv'
<1>1. /\ cl.prompt \in Seq(Vocab) /\ Len(cl.prompt) \in Nat \ {0}
      /\ cl.maxNew \in Nat \ {0} /\ cl.reset \in BOOLEAN
      /\ MaxContext \in Nat
  BY CallFacts, DecodeAssumption
<1>2. TypeOK
  BY DEF DecodeInv
<1>3. before' \in Seq(Vocab) /\ Len(before') \in Nat
  <2>1. before' = IF cl.reset THEN <<>> ELSE cache
    BY DEF Start
  <2>2. <<>> \in Seq(Vocab) /\ cache \in Seq(Vocab)
    BY <1>2 DEF TypeOK
  <2>3. before' \in Seq(Vocab)
    BY <2>1, <2>2
  <2> QED
    BY <2>3
<1>4. cache' = before' \o cl.prompt
  BY DEF Start
<1>5. cache' \in Seq(Vocab) /\ Len(cache') = Len(before') + Len(cl.prompt)
  BY <1>1, <1>3, <1>4, ConcatIs
<1>6. Len(cache') > 0
  BY <1>1, <1>3, <1>5
<1>7. PICK t \in Sample(cl, cache') : generated' = <<t>>
  BY DEF Start
<1>8. t \in Vocab
  BY <1>2, <1>5, <1>6, <1>7, SampleType DEF TypeOK
<1>9. generated' \in Seq(Vocab) /\ Len(generated') = 1
  BY <1>7, <1>8
<1>10. /\ seqLen' \in Nat /\ seqLen' + cl.maxNew - 1 <= MaxContext
       /\ seqLen' <= Len(cache')
       /\ cl.reset => Len(cache') = Len(cl.prompt) /\ seqLen' = Len(cl.prompt)
  <2>1. pc = "ready"
    BY DEF Start
  <2>2. seqLen <= Len(cache)
    BY <1>2, <2>1 DEF DecodeInv, Lengths, InFlight, TypeOK
  <2> DEFINE base == IF cl.reset THEN 0 ELSE seqLen
  <2>3. base \in Nat /\ base <= Len(before') /\ (cl.reset => base = 0 /\ Len(before') = 0)
    BY <1>2, <1>3, <2>2 DEF Start, TypeOK
  <2>4. seqLen' = base + Len(cl.prompt) /\ base + Len(cl.prompt) + cl.maxNew - 1 <= MaxContext
    BY DEF Start
  <2> HIDE DEF base
  <2> QED
    BY <1>1, <1>3, <1>5, <2>3, <2>4
<1>11. /\ call' = cl /\ served' = served + 1 /\ served \in Nat
       /\ draft' = <<>> /\ modelCalls' = 0 /\ proposed' = 0 /\ accepted' = 0
       /\ model' = model /\ pc' = AfterEmit(cl, generated')
  BY <1>2 DEF Start, TypeOK
<1>12. /\ pc' \in {"ready", "decode"}
       /\ pc' = "decode" => 1 < cl.maxNew
  BY <1>1, <1>9, <1>11 DEF AfterEmit
<1>13. TypeOK'
  BY <1>1, <1>2, <1>3, <1>5, <1>9, <1>10, <1>11, <1>12 DEF TypeOK
<1>14. Budget'
  <2>1. Room' = cl.maxNew - 1 /\ call'.maxNew = cl.maxNew
    BY <1>9, <1>11 DEF Room
  <2>2. pc' # "verify"
    BY <1>12
  <2> QED
    BY <1>1, <1>9, <1>10, <1>12, <2>1, <2>2 DEF Budget
<1>15. Lengths'
  <2>1. InFlight' = 0
    BY <1>12 DEF InFlight
  <2>2. /\ cl.reset => Len(cache') < Len(cl.prompt) + Len(generated')
        /\ cl.reset => Len(cl.prompt) + cl.maxNew - 1 <= MaxContext
    BY <1>1, <1>9, <1>10
  <2>3. Len(cache') \in Nat /\ Len(generated') \in Nat
    BY <1>5, <1>9
  <2> QED
    BY <1>1, <1>10, <1>11, <2>1, <2>2, <2>3 DEF Lengths
<1>16. Unserved'
  BY <1>11 DEF Unserved
<1>17. Tally'
  BY <1>9, <1>11, <1>12 DEF Tally, Concluded
<1> QED
  BY <1>13, <1>14, <1>15, <1>16, <1>17 DEF DecodeInv

LEMMA DecodeStepInv == ASSUME DecodeInv, DecodeStep PROVE DecodeInv'
<1>1. TypeOK
  BY DEF DecodeInv
<1>2. /\ call.prompt \in Seq(Vocab) /\ Len(call.prompt) \in Nat \ {0}
      /\ call.maxNew \in Nat \ {0} /\ MaxContext \in Nat
  BY <1>1, CallFacts, DecodeAssumption DEF TypeOK
<1>3. pc = "decode" /\ Len(generated) \in Nat /\ Len(generated) >= 1
  BY <1>1 DEF DecodeStep, DecodeInv, Budget, TypeOK
<1>4. Last(generated) \in Vocab
  BY <1>1, <1>3 DEF Last, TypeOK
<1>5. cache' \in Seq(Vocab) /\ Len(cache') = Len(cache) + 1 /\ Len(cache) \in Nat
  BY <1>1, <1>4, AppendIs DEF DecodeStep, TypeOK
<1>6. PICK t \in Sample(call, cache') : generated' = Append(generated, t)
  BY DEF DecodeStep
<1>7. t \in Vocab
  <2>1. Len(cache') > 0
    BY <1>5
  <2> QED
    BY <1>1, <1>5, <1>6, <2>1, SampleType DEF TypeOK
<1>8. generated' \in Seq(Vocab) /\ Len(generated') = Len(generated) + 1
  BY <1>1, <1>6, <1>7, AppendIs DEF TypeOK
<1>9. /\ seqLen' = seqLen + 1 /\ modelCalls' = modelCalls + 1
      /\ pc' = AfterEmit(call, generated')
      /\ UNCHANGED <<model, call, served, before, draft, proposed, accepted>>
  BY DEF DecodeStep
<1>10. /\ pc' \in {"ready", "decode"}
       /\ pc' = "decode" => Len(generated') < call.maxNew
  BY <1>2, <1>3, <1>8, <1>9 DEF AfterEmit
<1>11. TypeOK'
  BY <1>1, <1>5, <1>8, <1>9, <1>10 DEF TypeOK
<1>12. Budget'
  <2>1. Len(generated) < call.maxNew /\ seqLen + (call.maxNew - Len(generated)) <= MaxContext
    BY <1>2, <1>3 DEF DecodeInv, Budget, Room
  <2>2. seqLen \in Nat
    BY <1>1 DEF TypeOK
  <2> QED
    BY <1>2, <1>3, <1>8, <1>9, <1>10, <2>1, <2>2 DEF Budget, Room
<1>13. Lengths'
  <2>1. /\ seqLen <= Len(cache) /\ seqLen \in Nat
        /\ call.reset => Len(cache) < Len(call.prompt) + Len(generated)
        /\ call.reset /\ served > 0 => Len(call.prompt) + call.maxNew - 1 <= MaxContext
    BY <1>1, <1>2, <1>3, <1>5 DEF DecodeInv, Lengths, InFlight, TypeOK
  <2>2. InFlight' = 0
    BY <1>10 DEF InFlight
  <2>3. seqLen' + InFlight' <= Len(cache')
    BY <1>5, <1>9, <2>1, <2>2
  <2>4. call.reset => Len(cache') < Len(call.prompt) + Len(generated') + InFlight'
    <3>1. ASSUME call.reset PROVE Len(cache) < Len(call.prompt) + Len(generated)
      BY <2>1, <3>1
    <3>2. Len(cache) < Len(call.prompt) + Len(generated) =>
            Len(cache') < Len(call.prompt) + Len(generated') + InFlight'
      <4> DEFINE p == Len(call.prompt)
                 g == Len(generated)
                 n == Len(cache)
      <4>1. p \in Nat /\ g \in Nat /\ n \in Nat
        BY <1>2, <1>3, <1>5
      <4>2. Len(cache') = n + 1 /\ Len(generated') = g + 1
        BY <1>5, <1>8
      <4> HIDE DEF p, g, n
      <4>3. n < p + g => n + 1 < p + (g + 1) + 0
        BY <4>1
      <4> QED
        BY <2>2, <4>2, <4>3 DEF p, g, n
    <3> QED
      BY <3>1, <3>2
  <2>5. call' = call /\ served' = served
    BY <1>9
  <2> QED
    BY <2>1, <2>3, <2>4, <2>5 DEF Lengths
<1>14. Unserved'
  BY <1>3, <1>9 DEF Unserved, DecodeInv
<1>15. Tally'
  <2>1. /\ accepted + Len(draft) <= proposed /\ draft = <<>>
        /\ modelCalls < Len(generated)
        /\ Len(generated) = 1 + modelCalls + accepted
    BY <1>1, <1>3 DEF DecodeInv, Tally, Concluded, Unserved, TypeOK
  <2>2. modelCalls \in Nat /\ accepted \in Nat
    BY <1>1 DEF TypeOK
  <2>3. Concluded' = modelCalls + 1
    BY <1>9, <1>10 DEF Concluded
  <2>4. Concluded' < Len(generated') /\ Len(generated') = 1 + Concluded' + accepted'
    BY <1>3, <1>8, <1>9, <2>1, <2>2, <2>3
  <2>5. Len(generated') <= 1 + Concluded' + accepted'
    BY <1>3, <1>8, <2>4
  <2> QED
    BY <1>9, <2>1, <2>4, <2>5 DEF Tally
<1> QED
  BY <1>11, <1>12, <1>13, <1>14, <1>15 DEF DecodeInv

LEMMA FeedBurstInv == ASSUME DecodeInv, FeedBurst PROVE DecodeInv'
<1>1. TypeOK
  BY DEF DecodeInv
<1>2. /\ call.prompt \in Seq(Vocab) /\ Len(call.prompt) \in Nat \ {0}
      /\ call.maxNew \in Nat \ {0} /\ MaxContext \in Nat
  BY <1>1, CallFacts, DecodeAssumption DEF TypeOK
<1>3. pc = "decode" /\ Len(generated) \in Nat /\ Len(generated) >= 1
  BY <1>1 DEF FeedBurst, DecodeInv, Budget, TypeOK
<1>4. Last(generated) \in Vocab
  BY <1>1, <1>3 DEF Last, TypeOK
<1>5. draft' \in Seq(Vocab) /\ Len(draft') < Room /\ Len(draft') \in Nat
  BY <1>1, NextDraftIs DEF FeedBurst
<1>6. cache' \in Seq(Vocab) /\ Len(cache') = Len(cache) + 1 + Len(draft') /\ Len(cache) \in Nat
  <2> DEFINE fed == Append(cache, Last(generated))
  <2>1. fed \in Seq(Vocab) /\ Len(fed) = Len(cache) + 1 /\ Len(cache) \in Nat
    BY <1>1, <1>4, AppendIs DEF TypeOK
  <2>2. cache' = fed \o draft'
    BY DEF FeedBurst
  <2> HIDE DEF fed
  <2>3. fed \o draft' \in Seq(Vocab) /\ Len(fed \o draft') = Len(fed) + Len(draft')
    BY <1>5, <2>1, ConcatIs
  <2> QED
    BY <2>1, <2>2, <2>3
<1>7. /\ modelCalls' = modelCalls + 1 /\ proposed' = proposed + Len(draft')
      /\ pc' = "verify"
      /\ UNCHANGED <<model, seqLen, call, served, before, generated, accepted>>
  BY DEF FeedBurst
<1>8. TypeOK'
  BY <1>1, <1>5, <1>6, <1>7 DEF TypeOK
<1>9. Budget'
  BY <1>1, <1>2, <1>3, <1>5, <1>7 DEF Budget, Room, DecodeInv, TypeOK
<1>10. Lengths'
  <2>1. /\ seqLen <= Len(cache) /\ seqLen \in Nat
        /\ call.reset => Len(cache) < Len(call.prompt) + Len(generated)
        /\ call.reset /\ served > 0 => Len(call.prompt) + call.maxNew - 1 <= MaxContext
    BY <1>1, <1>2, <1>3, <1>6 DEF DecodeInv, Lengths, InFlight, TypeOK
  <2>2. InFlight' = 1 + Len(draft')
    BY <1>7 DEF InFlight
  <2>3. seqLen' + InFlight' <= Len(cache')
    BY <1>5, <1>6, <1>7, <2>1, <2>2
  <2>4. call.reset => Len(cache') < Len(call.prompt) + Len(generated) + InFlight'
    <3>1. ASSUME call.reset PROVE Len(cache) < Len(call.prompt) + Len(generated)
      BY <2>1, <3>1
    <3>2. Len(cache) < Len(call.prompt) + Len(generated) =>
            Len(cache') < Len(call.prompt) + Len(generated) + InFlight'
      <4> DEFINE p == Len(call.prompt)
                 g == Len(generated)
                 n == Len(cache)
                 d == Len(draft')
      <4>1. p \in Nat /\ g \in Nat /\ n \in Nat /\ d \in Nat
        BY <1>2, <1>3, <1>5, <1>6
      <4>2. Len(cache') = n + 1 + d
        BY <1>6
      <4> HIDE DEF p, g, n, d
      <4>3. n < p + g => n + 1 + d < p + g + (1 + d)
        BY <4>1
      <4> QED
        BY <2>2, <4>2, <4>3 DEF p, g, n, d
    <3> QED
      BY <3>1, <3>2
  <2>5. call' = call /\ served' = served /\ generated' = generated
    BY <1>7
  <2> QED
    BY <2>1, <2>3, <2>4, <2>5 DEF Lengths
<1>11. Unserved'
  BY <1>3, <1>7 DEF Unserved, DecodeInv
<1>12. Tally'
  BY <1>1, <1>3, <1>5, <1>7 DEF Tally, Concluded, DecodeInv, TypeOK, Unserved
<1> QED
  BY <1>8, <1>9, <1>10, <1>11, <1>12 DEF DecodeInv

LEMMA VerifyBurstInv == ASSUME DecodeInv, VerifyBurst PROVE DecodeInv'
<1>1. TypeOK
  BY DEF DecodeInv
<1>2. PICK n \in 0 .. Len(draft), t \in Vocab, emit \in Seq(Vocab) :
        /\ Emits(n, t, emit)
        /\ generated' = generated \o emit /\ accepted' = accepted + n
  BY <1>1, VerifyEmits
<1> DEFINE e == Len(emit)
           g == Len(generated)
           d == Len(draft)
<1>3. /\ e \in Nat /\ e >= 1 /\ e <= n + 1 /\ n \in Nat /\ n <= d
      /\ ~HasEos(emit) => e = n + 1
      /\ g \in Nat /\ d \in Nat
  BY <1>1, <1>2 DEF Emits, TypeOK
<1>4. generated' \in Seq(Vocab) /\ Len(generated') = g + e
      /\ \A i \in 1 .. e : generated'[g + i] = emit[i]
  BY <1>1, <1>2, ConcatIs DEF TypeOK
<1>5. /\ pc = "verify" /\ pc' = AfterEmit(call, generated') /\ draft' = <<>>
      /\ UNCHANGED <<model, call, served, before, modelCalls, proposed>>
  BY DEF VerifyBurst
<1>6. /\ call.prompt \in Seq(Vocab) /\ Len(call.prompt) \in Nat \ {0}
      /\ call.maxNew \in Nat \ {0} /\ MaxContext \in Nat
  BY <1>1, CallFacts, DecodeAssumption DEF TypeOK
<1>7. /\ seqLen \in Nat /\ Len(cache) \in Nat /\ seqLen + 1 + d <= Len(cache)
      /\ cache \in Seq(Vocab)
  BY <1>1, <1>3, <1>5 DEF DecodeInv, Lengths, InFlight, TypeOK
<1>8. \/ /\ cache' = SubSeq(cache, 1, seqLen + e) /\ seqLen' = seqLen + e
      \/ cache' = cache /\ seqLen' = seqLen /\ n = d /\ e = n + 1
  BY <1>2 DEF Emits, Truncate
<1> HIDE DEF e, g, d
<1>9. /\ cache' \in Seq(Vocab) /\ Len(cache') \in Nat /\ seqLen' \in Nat
      /\ seqLen' <= Len(cache') /\ seqLen' <= seqLen + e
      /\ Len(cache') = seqLen + e \/ (Len(cache') = Len(cache) /\ e = d + 1)
  <2>1. CASE cache' = SubSeq(cache, 1, seqLen + e) /\ seqLen' = seqLen + e
    <3>1. seqLen + e \in 0 .. Len(cache)
      BY <1>3, <1>7
    <3>2. cache' \in Seq(Vocab) /\ Len(cache') = seqLen + e
      BY <1>7, <2>1, <3>1, PrefixOf
    <3>3. seqLen' = seqLen + e /\ seqLen \in Nat
      BY <1>7, <2>1
    <3>4. seqLen + e \in Nat /\ Len(cache') \in Nat
      BY <1>3, <3>2, <3>3
    <3> QED
      BY <3>2, <3>3, <3>4
  <2>2. CASE cache' = cache /\ seqLen' = seqLen /\ n = d /\ e = n + 1
    BY <1>3, <1>7, <2>2
  <2> QED
    BY <1>8, <2>1, <2>2
<1>10. pc' \in {"ready", "decode"}
  BY <1>5 DEF AfterEmit
<1>11. pc' = "decode" => g + e < call.maxNew /\ e = n + 1
  <2> SUFFICES ASSUME pc' = "decode" PROVE g + e < call.maxNew /\ e = n + 1
    OBVIOUS
  <2>1. ~HasEos(generated') /\ ~(Len(generated') >= call.maxNew)
    BY <1>5 DEF AfterEmit
  <2>2. ~HasEos(emit)
    <3> SUFFICES ASSUME NEW i \in 1 .. Len(emit), emit[i] \in Eos PROVE FALSE
      BY DEF HasEos
    <3>1. i \in 1 .. e /\ g + i \in 1 .. Len(generated')
      BY <1>3, <1>4 DEF e
    <3>2. generated'[g + i] \in Eos
      BY <1>4, <3>1
    <3> QED
      BY <2>1, <3>1, <3>2 DEF HasEos
  <2> QED
    BY <1>3, <1>4, <1>6, <2>1, <2>2
<1>12. TypeOK'
  BY <1>1, <1>3, <1>2, <1>4, <1>5, <1>9, <1>10 DEF TypeOK
<1>13. Budget'
  <2>1. /\ g + d < call.maxNew /\ seqLen + (call.maxNew - g) <= MaxContext /\ g >= 1
    BY <1>3, <1>5, <1>6 DEF DecodeInv, Budget, Room, g, d
  <2>2. g + e <= call.maxNew /\ Len(generated') <= call.maxNew
    BY <1>3, <1>4, <1>6, <2>1
  <2>3. Room' = call.maxNew - (g + e) /\ call' = call
    BY <1>4, <1>5 DEF Room
  <2>4. seqLen' + (call.maxNew - (g + e)) <= MaxContext /\ g + e >= 1
    <3>1. seqLen \in Nat /\ seqLen' \in Nat /\ seqLen' <= seqLen + e
      BY <1>7, <1>9
    <3> QED
      BY <1>3, <1>6, <2>1, <3>1
  <2>5. pc' = "decode" => Room' >= 1
    BY <1>3, <1>6, <1>11, <2>3
  <2>6. Len(generated') >= 1 /\ seqLen' + Room' <= MaxContext
    BY <1>4, <2>3, <2>4
  <2> QED
    BY <1>10, <2>2, <2>3, <2>5, <2>6 DEF Budget
<1>14. Lengths'
  <2> DEFINE p == Len(call.prompt)
             s == Len(cache)
             f == seqLen
  <2>1. InFlight' = 0 /\ Len(draft) = d /\ Len(generated) = g /\ Len(generated') = g + e
    BY <1>4, <1>10 DEF InFlight, d, g
  <2>2. InFlight = 1 + d
    BY <1>5, <2>1 DEF InFlight
  <2>3. call.reset => s < p + g + (1 + d)
    BY <2>1, <2>2 DEF DecodeInv, Lengths
  <2>4. call.reset /\ served > 0 => p + call.maxNew - 1 <= MaxContext
    BY DEF DecodeInv, Lengths
  <2>5. p \in Nat /\ s \in Nat /\ f \in Nat /\ f + 1 + d <= s
    BY <1>6, <1>7
  <2>6. Len(cache') = f + e \/ (Len(cache') = s /\ e = d + 1)
    BY <1>9
  <2>7. seqLen' + InFlight' <= Len(cache')
    BY <1>9, <2>1
  <2> HIDE DEF p, s, f
  <2>8. s < p + g + (1 + d) => Len(cache') < p + (g + e) + 0
    BY <1>3, <2>5, <2>6
  <2>9. call' = call /\ served' = served
    BY <1>5
  <2>10. call.reset => Len(cache') < Len(call.prompt) + Len(generated') + InFlight'
    BY <2>1, <2>3, <2>8 DEF p
  <2>11. call.reset /\ served > 0 => Len(call.prompt) + call.maxNew - 1 <= MaxContext
    BY <2>4 DEF p
  <2> QED
    BY <2>7, <2>9, <2>10, <2>11 DEF Lengths
<1>15. Unserved'
  BY <1>5 DEF Unserved, DecodeInv
<1>16. Tally'
  <2>1. /\ accepted + d <= proposed
        /\ modelCalls - 1 < g /\ g = 1 + (modelCalls - 1) + accepted
    BY <1>1, <1>5 DEF DecodeInv, Tally, Concluded, Unserved, TypeOK, d, g
  <2>2. /\ modelCalls \in Nat /\ accepted \in Nat /\ proposed \in Nat
        /\ accepted' = accepted + n
    BY <1>1, <1>2 DEF TypeOK
  <2>3. Concluded' = modelCalls /\ Len(draft') = 0
    BY <1>5, <1>10 DEF Concluded
  <2>4. /\ modelCalls < g + e /\ g + e <= 1 + modelCalls + (accepted + n)
        /\ e = n + 1 => g + e = 1 + modelCalls + (accepted + n)
        /\ accepted + n + 0 <= proposed
    BY <1>3, <2>1, <2>2
  <2> QED
    BY <1>4, <1>5, <1>10, <1>11, <2>2, <2>3, <2>4 DEF Tally
<1> QED
  BY <1>12, <1>13, <1>14, <1>15, <1>16 DEF DecodeInv

LEMMA StutterInv == ASSUME DecodeInv, UNCHANGED vars PROVE DecodeInv'
BY DEF vars, stats, DecodeInv, TypeOK, Budget, Lengths, Unserved, Tally, Room, InFlight,
       Concluded

\* The inductive invariant: how far counter, caches, output and statistics may
\* be apart at each point of the loop.
THEOREM DecodeInvariant == Spec => []DecodeInv
<1>1. Init => DecodeInv
  BY InitInv
<1>2. DecodeInv /\ [Next]_vars => DecodeInv'
  <2> SUFFICES ASSUME DecodeInv, [Next]_vars PROVE DecodeInv'
    OBVIOUS
  <2>1. CASE \E cl \in Calls : Start(cl)
    BY <2>1, StartInv
  <2>2. CASE DecodeStep
    BY <2>2, DecodeStepInv
  <2>3. CASE FeedBurst
    BY <2>3, FeedBurstInv
  <2>4. CASE VerifyBurst
    BY <2>4, VerifyBurstInv
  <2>5. CASE Stop \/ UNCHANGED vars
    BY <2>5, StutterInv DEF Stop
  <2> QED
    BY <2>1, <2>2, <2>3, <2>4, <2>5 DEF Next, Loop
<1> QED
  BY <1>1, <1>2, PTL DEF Spec

\* No call, model or draft takes a variable out of its type: in particular a
\* cut never asks for more tokens than the caches hold.
THEOREM SpecTypeOK == Spec => []TypeOK
<1>1. DecodeInv => TypeOK
  BY DEF DecodeInv
<1> QED
  BY <1>1, DecodeInvariant, PTL

\* No call emits more tokens than it was asked for, and no burst takes the
\* caches of a call that reset them past max_context_length.
THEOREM SpecStaysWithinContext == Spec => []StaysWithinContext
<1>1. DecodeInv => StaysWithinContext
  <2> SUFFICES ASSUME DecodeInv PROVE StaysWithinContext
    OBVIOUS
  <2>1. /\ call.prompt \in Seq(Vocab) /\ Len(call.prompt) \in Nat \ {0}
        /\ call.maxNew \in Nat \ {0} /\ MaxContext \in Nat
    BY CallFacts, DecodeAssumption DEF DecodeInv, TypeOK
  <2>2. Len(generated) \in Nat /\ Len(cache) \in Nat /\ Len(draft) \in Nat /\ seqLen \in Nat
    BY DEF DecodeInv, TypeOK
  <2>3. Len(generated) <= call.maxNew
    BY DEF DecodeInv, Budget
  <2>4. pc = "decode" => seqLen + 1 <= MaxContext
    BY <2>1, <2>2 DEF DecodeInv, Budget, Room
  <2>5. ASSUME call.reset PROVE Len(cache) <= MaxContext
    <3> DEFINE p == Len(call.prompt)
               g == Len(generated)
               n == Len(cache)
               m == call.maxNew
               f == InFlight
    <3>1. n < p + g + f
      BY <2>5 DEF DecodeInv, Lengths
    <3>2. CASE served = 0
      BY <2>1, <3>2 DEF DecodeInv, Unserved
    <3>3. CASE served # 0
      <4>1. served > 0
        BY <3>3 DEF DecodeInv, TypeOK
      <4>2. p + m - 1 <= MaxContext
        BY <2>5, <4>1 DEF DecodeInv, Lengths
      <4>3. f \in Nat /\ g + f <= m
        BY <2>1, <2>2, <2>3 DEF InFlight, DecodeInv, Budget, Room
      <4>4. p \in Nat /\ g \in Nat /\ n \in Nat /\ m \in Nat /\ MaxContext \in Nat
        BY <2>1, <2>2
      <4> HIDE DEF p, g, n, m, f
      <4>5. n <= MaxContext
        BY <3>1, <4>2, <4>3, <4>4
      <4> QED
        BY <4>5 DEF n
    <3> QED
      BY <3>2, <3>3
  <2> QED
    BY <2>3, <2>4, <2>5 DEF StaysWithinContext
<1> QED
  BY <1>1, DecodeInvariant, PTL

\* spec_model_calls, draft_tokens_proposed and tokens_accepted always explain
\* the number of tokens emitted.
THEOREM SpecStatsExplainOutput == Spec => []StatsExplainOutput
<1>1. DecodeInv => StatsExplainOutput
  <2> SUFFICES ASSUME DecodeInv PROVE StatsExplainOutput
    OBVIOUS
  <2>1. accepted <= proposed
    BY DEF DecodeInv, Tally, TypeOK
  <2>2. pc # "verify" => Concluded = modelCalls
    BY DEF Concluded
  <2> QED
    BY <2>1, <2>2 DEF DecodeInv, Tally, StatsExplainOutput
<1> QED
  BY <1>1, DecodeInvariant, PTL

\* However badly the drafter guesses, a call takes no more forward passes than
\* decoding token by token.
THEOREM SpecNeverSlower == Spec => []NeverSlowerThanSequential
<1>1. DecodeInv => NeverSlowerThanSequential
  BY DEF DecodeInv, Tally, Concluded, NeverSlowerThanSequential, TypeOK
<1> QED
  BY <1>1, DecodeInvariant, PTL

-----------------------------------------------------------------------------
(* What the loop leaves in the caches, and greedy output.                  *)

LEMMA ConcatAssoc ==
  ASSUME NEW S, NEW r \in Seq(S), NEW s \in Seq(S), NEW u \in Seq(S)
  PROVE  (r \o s) \o u = r \o (s \o u)
OBVIOUS

LEMMA PrefixOfConcat1 ==
  ASSUME NEW S, NEW s \in Seq(S), NEW r \in Seq(S), NEW k \in 0 .. Len(s)
  PROVE  SubSeq(s \o r, 1, k) = SubSeq(s, 1, k)
<1>1. /\ s \o r \in Seq(S) /\ Len(s \o r) = Len(s) + Len(r)
      /\ \A i \in 1 .. Len(s) : (s \o r)[i] = s[i]
  BY ConcatIs
<1>2. k \in 0 .. Len(s \o r)
  BY <1>1
<1> DEFINE a == SubSeq(s \o r, 1, k)
           b == SubSeq(s, 1, k)
<1>3. a \in Seq(S) /\ Len(a) = k /\ \A i \in 1 .. k : a[i] = (s \o r)[i]
  BY <1>1, <1>2, PrefixOf
<1>4. b \in Seq(S) /\ Len(b) = k /\ \A i \in 1 .. k : b[i] = s[i]
  BY PrefixOf
<1> HIDE DEF a, b
<1>5. \A i \in 1 .. Len(a) : a[i] = b[i]
  BY <1>1, <1>3, <1>4
<1>6. a = b
  BY <1>3, <1>4, <1>5, SameSequence
<1> QED
  BY <1>6 DEF a, b

LEMMA PrefixOfConcat2 ==
  ASSUME NEW S, NEW s \in Seq(S), NEW r \in Seq(S), NEW k \in 0 .. Len(r)
  PROVE  SubSeq(s \o r, 1, Len(s) + k) = s \o SubSeq(r, 1, k)
<1>1. /\ s \o r \in Seq(S) /\ Len(s \o r) = Len(s) + Len(r)
      /\ \A i \in 1 .. Len(s) : (s \o r)[i] = s[i]
      /\ \A i \in 1 .. Len(r) : (s \o r)[Len(s) + i] = r[i]
  BY ConcatIs
<1>2. Len(s) + k \in 0 .. Len(s \o r)
  BY <1>1
<1> DEFINE a == SubSeq(s \o r, 1, Len(s) + k)
           p == SubSeq(r, 1, k)
           b == s \o p
<1>3. a \in Seq(S) /\ Len(a) = Len(s) + k /\ \A i \in 1 .. Len(s) + k : a[i] = (s \o r)[i]
  BY <1>1, <1>2, PrefixOf
<1>4. p \in Seq(S) /\ Len(p) = k /\ \A i \in 1 .. k : p[i] = r[i]
  BY PrefixOf
<1> HIDE DEF a, p
<1>5. /\ b \in Seq(S) /\ Len(b) = Len(s) + k
      /\ \A i \in 1 .. Len(s) : b[i] = s[i]
      /\ \A i \in 1 .. k : b[Len(s) + i] = p[i]
  <2>1. p \in Seq(S)
    BY <1>4
  <2>2. /\ s \o p \in Seq(S) /\ Len(s \o p) = Len(s) + Len(p)
        /\ \A i \in 1 .. Len(s) : (s \o p)[i] = s[i]
        /\ \A i \in 1 .. Len(p) : (s \o p)[Len(s) + i] = p[i]
    BY <2>1, ConcatIs
  <2> QED
    BY <1>4, <2>2
<1> HIDE DEF b
<1>6. ASSUME NEW i \in 1 .. Len(a) PROVE a[i] = b[i]
  <2>1. CASE i <= Len(s)
    BY <1>1, <1>3, <1>5, <2>1
  <2>2. CASE i > Len(s)
    <3> DEFINE j == i - Len(s)
    <3>1. j \in 1 .. k /\ j \in 1 .. Len(r) /\ Len(s) + j = i
      BY <1>3, <2>2
    <3> HIDE DEF j
    <3>2. (s \o r)[i] = r[j] /\ b[i] = p[j] /\ p[j] = r[j]
      BY <1>1, <1>4, <1>5, <3>1
    <3> QED
      BY <1>3, <3>2
  <2> QED
    BY <2>1, <2>2, <1>3
<1>7. a = b
  BY <1>3, <1>5, <1>6, SameSequence
<1> QED
  BY <1>7 DEF a, b, p

LEMMA FrontAndLast ==
  ASSUME NEW S, NEW r \in Seq(S), NEW s \in Seq(S), Len(s) > 0
  PROVE  /\ Front(s) \in Seq(S) /\ Len(Front(s)) = Len(s) - 1
         /\ r \o Front(s) \in Seq(S) /\ Len(r \o Front(s)) = Len(r) + Len(s) - 1
         /\ Append(r \o Front(s), Last(s)) = r \o s
<1> DEFINE f == Front(s)
           l == Last(s)
           a == Append(r \o f, l)
           b == r \o s
<1>1. /\ f \in Seq(S) /\ Len(f) = Len(s) - 1 /\ Len(s) \in Nat
      /\ \A i \in 1 .. Len(s) - 1 : f[i] = s[i]
  <2>1. Len(s) - 1 \in 0 .. Len(s)
    OBVIOUS
  <2>2. f = SubSeq(s, 1, Len(s) - 1)
    BY DEF Front
  <2> HIDE DEF f
  <2>3. f \in Seq(S) /\ Len(f) = Len(s) - 1 /\ \A i \in 1 .. Len(s) - 1 : f[i] = s[i]
    BY <2>1, <2>2, PrefixOf, Zenon
  <2>4. Len(s) \in Nat
    OBVIOUS
  <2> QED
    BY <2>3, <2>4
<1>2. l \in S /\ l = s[Len(s)]
  BY DEF Last
<1> HIDE DEF f, l
<1>3. /\ r \o f \in Seq(S) /\ Len(r \o f) = Len(r) + Len(f)
      /\ \A i \in 1 .. Len(r) : (r \o f)[i] = r[i]
      /\ \A i \in 1 .. Len(f) : (r \o f)[Len(r) + i] = f[i]
  <2>1. f \in Seq(S)
    BY <1>1
  <2> QED
    BY <2>1, ConcatIs
<1>4. /\ b \in Seq(S) /\ Len(b) = Len(r) + Len(s)
      /\ \A i \in 1 .. Len(r) : b[i] = r[i]
      /\ \A i \in 1 .. Len(s) : b[Len(r) + i] = s[i]
  BY ConcatIs
<1>5. /\ a \in Seq(S) /\ Len(a) = Len(r \o f) + 1
      /\ \A i \in 1 .. Len(r \o f) : a[i] = (r \o f)[i]
      /\ a[Len(r \o f) + 1] = l
  BY <1>2, <1>3, AppendIs
<1> HIDE DEF a, b
<1>6. Len(a) = Len(b) /\ Len(a) = Len(r) + Len(s) /\ Len(r) \in Nat /\ Len(a) \in Nat
  BY <1>1, <1>3, <1>4, <1>5
<1>7. ASSUME NEW i \in 1 .. Len(a) PROVE a[i] = b[i]
  <2>1. CASE i <= Len(r)
    <3>1. i \in 1 .. Len(r) /\ i \in 1 .. Len(r \o f)
      BY <1>1, <1>3, <1>6, <2>1
    <3> QED
      BY <1>3, <1>4, <1>5, <3>1, Zenon
  <2>2. CASE i > Len(r) /\ i < Len(r) + Len(s)
    <3> DEFINE j == i - Len(r)
    <3>1. j \in 1 .. Len(f) /\ j \in 1 .. Len(s) /\ j \in 1 .. Len(s) - 1 /\ Len(r) + j = i
      BY <1>1, <1>3, <1>6, <2>2
    <3>2. i \in 1 .. Len(r \o f)
      BY <1>1, <1>3, <1>6, <2>2
    <3> HIDE DEF j
    <3>3. a[i] = f[j] /\ b[i] = s[j] /\ f[j] = s[j]
      BY <1>1, <1>3, <1>4, <1>5, <3>1, <3>2
    <3> QED
      BY <3>3
  <2>3. CASE i = Len(r) + Len(s)
    <3>1. i = Len(r \o f) + 1 /\ Len(s) \in 1 .. Len(s)
      BY <1>1, <1>3, <2>3
    <3> QED
      BY <1>2, <1>4, <1>5, <2>3, <3>1
  <2>4. i \in Int /\ i <= Len(r) + Len(s)
    BY <1>6
  <2>5. Len(r) \in Int /\ Len(s) \in Int
    OBVIOUS
  <2>6. i <= Len(r) \/ (i > Len(r) /\ i < Len(r) + Len(s)) \/ i = Len(r) + Len(s)
    BY <2>4, <2>5
  <2> QED
    BY <2>1, <2>2, <2>3, <2>6, Zenon
<1>8. a = b
  BY <1>4, <1>5, <1>6, <1>7, SameSequence
<1> QED
  BY <1>1, <1>3, <1>8 DEF a, b, f, l

\* The text that precedes the output of the call.
Text == before \o call.prompt

LEMMA TextFacts ==
  ASSUME TypeOK, Len(generated) > 0
  PROVE  /\ Text \in Seq(Vocab)
         /\ FedText \in Seq(Vocab) /\ Len(FedText) = Len(Text) + Len(generated) - 1
         /\ Append(FedText, Last(generated)) = Text \o generated
         /\ Text \o generated \in Seq(Vocab)
         /\ Len(Text \o generated) = Len(Text) + Len(generated)
         /\ Last(generated) \in Vocab
<1>1. call.prompt \in Seq(Vocab) /\ before \in Seq(Vocab) /\ generated \in Seq(Vocab)
  BY CallFacts DEF TypeOK
<1>2. Text \in Seq(Vocab)
  BY <1>1, ConcatIs DEF Text
<1>3. FedText = Text \o Front(generated)
  BY DEF FedText, Text
<1>4. /\ Text \o Front(generated) \in Seq(Vocab)
      /\ Len(Text \o Front(generated)) = Len(Text) + Len(generated) - 1
      /\ Append(Text \o Front(generated), Last(generated)) = Text \o generated
  <2>1. Text \in Seq(Vocab) /\ generated \in Seq(Vocab) /\ Len(generated) > 0
    BY <1>1, <1>2
  <2>2. Text \o Front(generated) \in Seq(Vocab)
    BY <2>1, FrontAndLast
  <2>3. Len(Text \o Front(generated)) = Len(Text) + Len(generated) - 1
    BY <2>1, FrontAndLast
  <2>4. Append(Text \o Front(generated), Last(generated)) = Text \o generated
    BY <2>1, FrontAndLast
  <2> QED
    BY <2>2, <2>3, <2>4
<1>5. Text \o generated \in Seq(Vocab) /\ Len(Text \o generated) = Len(Text) + Len(generated)
  BY <1>1, <1>2, ConcatIs
<1>6. Last(generated) \in Vocab
  BY <1>1 DEF Last
<1> QED
  BY <1>2, <1>3, <1>4, <1>5, <1>6

\* Greedy output stays exact when every token added is the model's prediction
\* after the text so far.
LEMMA LosslessExtends ==
  ASSUME TypeOK, NEW emit \in Seq(Vocab), generated' = generated \o emit,
         UNCHANGED <<model, call, before>>, Lossless,
         call.greedy => \A j \in 1 .. Len(emit) :
           emit[j] = Predict((Text \o generated) \o SubSeq(emit, 1, j - 1))
  PROVE  Lossless'
<1> DEFINE T == before \o call.prompt
<1>1. generated \in Seq(Vocab) /\ T \in Seq(Vocab) /\ T = Text
  BY CallFacts, ConcatIs DEF TypeOK, Text
<1>2. T' = T /\ call' = call /\ \A x : Predict(x)' = Predict(x)
  BY DEF Predict
<1> SUFFICES ASSUME call.greedy, NEW i \in 1 .. Len(generated')
             PROVE  generated'[i] = Predict(T \o SubSeq(generated', 1, i - 1))
  BY <1>2 DEF Lossless, Predict
<1> HIDE DEF T
<1>3. /\ generated' \in Seq(Vocab) /\ Len(generated') = Len(generated) + Len(emit)
      /\ \A k \in 1 .. Len(generated) : generated'[k] = generated[k]
      /\ \A k \in 1 .. Len(emit) : generated'[Len(generated) + k] = emit[k]
  BY <1>1, ConcatIs
<1>4. i \in Int /\ Len(generated) \in Nat /\ Len(emit) \in Nat
      /\ 1 <= i /\ i <= Len(generated) + Len(emit)
  BY <1>1, <1>3
<1>5. CASE i <= Len(generated)
  <2>1. i \in 1 .. Len(generated) /\ i - 1 \in 0 .. Len(generated)
    BY <1>4, <1>5
  <2>2. generated[i] = Predict(T \o SubSeq(generated, 1, i - 1))
    BY <2>1 DEF Lossless, T
  <2>3. SubSeq(generated', 1, i - 1) = SubSeq(generated, 1, i - 1)
    BY <1>1, <2>1, PrefixOfConcat1
  <2> QED
    BY <1>3, <2>1, <2>2, <2>3
<1>6. CASE i > Len(generated)
  <2> DEFINE j == i - Len(generated)
  <2>1. j \in 1 .. Len(emit) /\ j - 1 \in 0 .. Len(emit) /\ i = Len(generated) + j
        /\ i - 1 = Len(generated) + (j - 1)
    BY <1>4, <1>6
  <2> HIDE DEF j
  <2> DEFINE k == j - 1
             p == SubSeq(emit, 1, k)
  <2>2. generated'[i] = emit[j] /\ emit[j] = Predict((T \o generated) \o p)
    BY <1>1, <1>3, <2>1
  <2>3. SubSeq(generated \o emit, 1, Len(generated) + k) = generated \o p
    <3>1. k \in 0 .. Len(emit)
      BY <2>1
    <3> HIDE DEF k
    <3> QED
      BY <1>1, <3>1, PrefixOfConcat2
  <2>4. p \in Seq(Vocab)
    BY <2>1, PrefixOf
  <2>5. SubSeq(generated', 1, i - 1) = generated \o p
    BY <2>1, <2>3
  <2> HIDE DEF k, p
  <2>6. (T \o generated) \o p = T \o (generated \o p)
    <3>1. generated \in Seq(Vocab) /\ T \in Seq(Vocab)
      BY <1>1
    <3> QED
      BY <2>4, <3>1, ConcatAssoc
  <2> QED
    BY <2>2, <2>5, <2>6
<1> QED
  BY <1>4, <1>5, <1>6

LEMMA DecodeStepExact ==
  ASSUME DecodeInv, InStep, DecodeStep
  PROVE  CacheExact' /\ (Lossless => Lossless')
<1>1. TypeOK /\ pc = "decode" /\ Len(generated) > 0 /\ Len(generated) \in Nat
  BY DEF DecodeInv, Budget, DecodeStep, TypeOK
<1>2. cache = FedText
  BY <1>1 DEF InStep, CacheExact
<1>3. /\ FedText \in Seq(Vocab)
      /\ Append(FedText, Last(generated)) = Text \o generated
      /\ Text \in Seq(Vocab) /\ Text \o generated \in Seq(Vocab)
      /\ Len(Text \o generated) = Len(Text) + Len(generated)
      /\ generated \in Seq(Vocab)
  BY <1>1, TextFacts DEF TypeOK
<1>4. cache' = Text \o generated
  BY <1>2, <1>3 DEF DecodeStep
<1>5. PICK t \in Sample(call, cache') : generated' = Append(generated, t)
  BY DEF DecodeStep
<1>6. t \in Vocab
  <2>1. Len(cache') > 0 /\ cache' \in Seq(Vocab)
    BY <1>1, <1>3, <1>4
  <2> QED
    BY <1>1, <1>5, <2>1, SampleType DEF TypeOK
<1>7. /\ generated' \in Seq(Vocab) /\ Len(generated') = Len(generated) + 1
      /\ \A i \in 1 .. Len(generated) : generated'[i] = generated[i]
      /\ <<t>> \in Seq(Vocab) /\ Len(<<t>>) = 1 /\ <<t>>[1] = t
      /\ generated' = generated \o <<t>>
  BY <1>3, <1>5, <1>6
<1>8. UNCHANGED <<model, call, before>> /\ pc' # "verify"
  BY DEF DecodeStep, AfterEmit
<1>9. CacheExact'
  <2>1. Front(generated') = generated
    <3> DEFINE f == SubSeq(generated', 1, Len(generated))
    <3>1. Front(generated') = f
      BY <1>1, <1>7 DEF Front
    <3>2. Len(generated) \in 0 .. Len(generated')
      BY <1>1, <1>7
    <3>3. f \in Seq(Vocab) /\ Len(f) = Len(generated)
          /\ \A i \in 1 .. Len(generated) : f[i] = generated'[i]
      BY <1>7, <3>2, PrefixOf
    <3> HIDE DEF f
    <3>4. f = generated
      BY <1>3, <1>7, <3>3, SameSequence
    <3> QED
      BY <3>1, <3>4
  <2>2. FedText' = Text \o Front(generated')
    BY <1>8 DEF FedText, Text
  <2> QED
    BY <1>4, <1>8, <2>1, <2>2 DEF CacheExact
<1>10. ASSUME Lossless PROVE Lossless'
  <2>1. ASSUME call.greedy, NEW j \in 1 .. Len(<<t>>)
        PROVE  <<t>>[j] = Predict((Text \o generated) \o SubSeq(<<t>>, 1, j - 1))
    <3>1. j = 1 /\ SubSeq(<<t>>, 1, j - 1) = <<>>
      BY <1>7, <2>1
    <3>2. (Text \o generated) \o <<>> = Text \o generated
      BY <1>3
    <3>3. t = Predict(cache')
      BY <1>5, <2>1 DEF Sample
    <3> QED
      BY <1>4, <1>7, <3>1, <3>2, <3>3
  <2>2. call.greedy => \A j \in 1 .. Len(<<t>>) :
          <<t>>[j] = Predict((Text \o generated) \o SubSeq(<<t>>, 1, j - 1))
    BY <2>1
  <2> DEFINE emit == <<t>>
  <2>3. emit \in Seq(Vocab) /\ generated' = generated \o emit
    BY <1>7
  <2>4. call.greedy => \A j \in 1 .. Len(emit) :
          emit[j] = Predict((Text \o generated) \o SubSeq(emit, 1, j - 1))
    BY <2>2
  <2> HIDE DEF emit
  <2> QED
    BY <1>1, <1>8, <1>10, <2>3, <2>4, LosslessExtends
<1> QED
  BY <1>9, <1>10

LEMMA FeedBurstExact ==
  ASSUME DecodeInv, InStep, FeedBurst
  PROVE  CacheExact' /\ (Lossless => Lossless')
<1>1. pc = "decode" /\ cache = FedText
  BY DEF FeedBurst, InStep, CacheExact
<1>2. UNCHANGED <<model, call, before, generated>> /\ pc' = "verify"
  BY DEF FeedBurst
<1>3. cache' = Append(FedText, Last(generated)) \o draft'
  BY <1>1 DEF FeedBurst
<1>4. FedText' = FedText
  BY <1>2 DEF FedText, Front
<1>5. CacheExact'
  BY <1>2, <1>3, <1>4 DEF CacheExact, Last
<1>6. Lossless => Lossless'
  BY <1>2 DEF Lossless, Predict, Last
<1> QED
  BY <1>5, <1>6

LEMMA VerifyBurstExact ==
  ASSUME DecodeInv, InStep, VerifyBurst
  PROVE  CacheExact' /\ (Lossless => Lossless')
<1>1. /\ TypeOK /\ pc = "verify" /\ Len(generated) > 0 /\ Len(generated) \in Nat
      /\ draft \in Seq(Vocab) /\ generated \in Seq(Vocab)
  BY DEF DecodeInv, Budget, VerifyBurst, TypeOK
<1>2. PICK n \in 0 .. Len(draft), t \in Vocab, emit \in Seq(Vocab) :
        /\ Emits(n, t, emit)
        /\ \A i \in 1 .. n : draft[i] \in Sample(call, Fed(i - 1))
        /\ t \in Sample(call, Fed(n))
        /\ generated' = generated \o emit
  BY <1>1, VerifyEmits
<1> DEFINE B == Text \o generated
           e == Len(emit)
<1>3. /\ B \in Seq(Vocab) /\ Len(B) \in Nat
      /\ cache = B \o draft /\ Len(B) = seqLen + 1
      /\ Text \in Seq(Vocab) /\ seqLen \in Nat
  <2>1. /\ FedText \in Seq(Vocab) /\ Len(FedText) = Len(Text) + Len(generated) - 1
        /\ Append(FedText, Last(generated)) = B
        /\ Text \in Seq(Vocab) /\ B \in Seq(Vocab)
        /\ Len(B) = Len(Text) + Len(generated)
    BY <1>1, TextFacts
  <2>2. cache = Append(FedText, Last(generated)) \o draft /\ seqLen = Len(FedText)
    BY <1>1 DEF InStep, CacheExact
  <2> HIDE DEF B
  <2>3. Len(B) \in Nat /\ Len(Text) \in Nat /\ seqLen \in Nat
    BY <1>1, <2>1 DEF TypeOK
  <2> QED
    BY <1>1, <2>1, <2>2, <2>3
<1>4. UNCHANGED <<model, call, before>> /\ pc' # "verify"
  BY DEF VerifyBurst, AfterEmit
<1>5. /\ e \in Nat /\ e >= 1 /\ e <= n + 1 /\ n \in Nat /\ n <= Len(draft)
      /\ Len(draft) \in Nat
      /\ \A i \in 1 .. e : emit[i] = IF i <= n THEN draft[i] ELSE t
  BY <1>1, <1>2 DEF Emits
<1> HIDE DEF B
<1>6. ASSUME NEW k \in 0 .. e - 1
      PROVE  k \in 0 .. Len(draft) /\ SubSeq(emit, 1, k) = SubSeq(draft, 1, k)
  <2> DEFINE a == SubSeq(emit, 1, k)
             b == SubSeq(draft, 1, k)
  <2>1. k \in 0 .. Len(emit) /\ k \in 0 .. Len(draft) /\ k <= n
    BY <1>5
  <2>2. a \in Seq(Vocab) /\ Len(a) = k /\ \A i \in 1 .. k : a[i] = emit[i]
    BY <2>1, PrefixOf
  <2>3. b \in Seq(Vocab) /\ Len(b) = k /\ \A i \in 1 .. k : b[i] = draft[i]
    BY <1>1, <2>1, PrefixOf
  <2>4. \A i \in 1 .. k : emit[i] = draft[i]
    BY <1>5, <2>1
  <2> HIDE DEF a, b
  <2>5. a = b
    BY <2>2, <2>3, <2>4, SameSequence
  <2> QED
    BY <2>1, <2>5 DEF a, b
\* The context of the burst's logits.
<1>7. ASSUME NEW k \in 0 .. Len(draft)
      PROVE  Fed(k) = B \o SubSeq(draft, 1, k)
  <2>1. Len(cache) - Len(draft) + k = Len(B) + k
    <3>1. Len(B \o draft) = Len(B) + Len(draft)
      BY <1>1, <1>3, ConcatIs
    <3> QED
      BY <1>3, <1>5, <3>1
  <2>2. Fed(k) = SubSeq(B \o draft, 1, Len(B) + k)
    BY <1>3, <2>1 DEF Fed
  <2> QED
    BY <1>1, <1>3, <2>2, PrefixOfConcat2
<1>8. CacheExact'
  <2> DEFINE k == e - 1
             d == SubSeq(draft, 1, k)
  <2>1. k \in 0 .. e - 1 /\ k \in 0 .. Len(emit) /\ k \in 0 .. Len(draft)
    BY <1>5
  <2>2. SubSeq(emit, 1, k) = d
    BY <1>6, <2>1
  <2>3. d \in Seq(Vocab)
    BY <1>1, <2>1, PrefixOf
  <2>4. cache' = B \o d
    <3>1. CASE cache' = SubSeq(cache, 1, seqLen + e)
      <4>1. seqLen + e = Len(B) + k
        BY <1>3, <1>5
      <4>2. cache' = SubSeq(B \o draft, 1, Len(B) + k)
        BY <1>3, <3>1, <4>1
      <4> QED
        BY <1>1, <1>3, <2>1, <4>2, PrefixOfConcat2
    <3>2. CASE cache' = cache /\ n = Len(draft) /\ e = n + 1
      <4>1. k = Len(draft)
        BY <1>5, <3>2
      <4>2. SubSeq(draft, 1, Len(draft)) = draft
        BY <1>1
      <4> QED
        BY <1>3, <3>2, <4>1, <4>2
    <3> QED
      BY <1>2, <3>1, <3>2 DEF Emits, Truncate
  <2>5. FedText' = Text \o Front(generated')
    BY <1>4 DEF FedText, Text
  <2>6. Front(generated') = generated \o SubSeq(emit, 1, k)
    <3>1. Len(generated') = Len(generated) + e
      BY <1>1, <1>2, ConcatIs
    <3>2. Len(generated') - 1 = Len(generated) + k
      BY <1>1, <1>5, <3>1
    <3>3. Front(generated') = SubSeq(generated \o emit, 1, Len(generated) + k)
      BY <1>2, <3>2 DEF Front
    <3> HIDE DEF k
    <3> QED
      BY <1>1, <2>1, <3>3, PrefixOfConcat2
  <2> HIDE DEF d, k
  <2>7. (Text \o generated) \o d = Text \o (generated \o d)
    <3> DEFINE T == Text
    <3>1. T \in Seq(Vocab) /\ generated \in Seq(Vocab)
      BY <1>1, <1>3
    <3> HIDE DEF T
    <3>2. (T \o generated) \o d = T \o (generated \o d)
      BY <2>3, <3>1, ConcatAssoc
    <3> QED
      BY <3>2 DEF T
  <2>8. cache' = FedText'
    BY <2>2, <2>4, <2>5, <2>6, <2>7 DEF B
  <2> QED
    BY <1>4, <2>8 DEF CacheExact
<1>9. ASSUME Lossless PROVE Lossless'
  <2>1. ASSUME call.greedy, NEW j \in 1 .. Len(emit)
        PROVE  emit[j] = Predict(B \o SubSeq(emit, 1, j - 1))
    <3> DEFINE k == j - 1
    <3>1. k \in 0 .. e - 1 /\ j \in Nat /\ j >= 1 /\ j <= n + 1
      BY <1>5
    <3>2. k \in 0 .. Len(draft) /\ SubSeq(emit, 1, k) = SubSeq(draft, 1, k)
      BY <1>6, <3>1
    <3>3. Fed(k) = B \o SubSeq(draft, 1, k)
      BY <1>7, <3>2
    <3>4. emit[j] \in Sample(call, Fed(k))
      <4>1. CASE j <= n
        BY <1>2, <1>5, <3>1, <4>1
      <4>2. CASE j = n + 1
        BY <1>2, <1>5, <3>1, <4>2
      <4> QED
        BY <1>5, <3>1, <4>1, <4>2
    <3>5. emit[j] = Predict(Fed(k))
      BY <2>1, <3>4 DEF Sample
    <3> QED
      BY <3>2, <3>3, <3>5
  <2>2. call.greedy => \A j \in 1 .. Len(emit) :
          emit[j] = Predict((Text \o generated) \o SubSeq(emit, 1, j - 1))
    BY <2>1 DEF B
  <2> QED
    BY <1>1, <1>2, <1>4, <1>9, <2>2, LosslessExtends
<1> QED
  BY <1>8, <1>9

\* Every branch of the loop, accepted or rejected, with an EOS or without,
\* leaves all tokens but the last in the caches and keeps greedy output what
\* the model predicts, if the counter and the caches were in step before.
THEOREM SpecLoopKeepsCachesExact == Spec => LoopKeepsCachesExact
<1>1. DecodeInv /\ [Next]_vars =>
        [InStep /\ Loop => CacheExact' /\ (Lossless => Lossless')]_vars
  BY DecodeStepExact, FeedBurstExact, VerifyBurstExact DEF Loop
<1> QED
  BY <1>1, DecodeInvariant, PTL DEF Spec, LoopKeepsCachesExact
=============================================================================
