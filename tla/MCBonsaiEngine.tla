--------------------------- MODULE MCBonsaiEngine ---------------------------
(* Instances of BonsaiEngine for TLC: eight layers, two of them with a cache *)
(* of four rows; prompts that fill it, overrun it while decoding, and are   *)
(* too long for it.  With eight resident layers nothing is ever evicted.    *)
EXTENDS BonsaiEngine

CONSTANTS a, b, eos
MCVocab == {a, b, eos}
MCStopTokens == {eos}
MCLayerBytes == [l \in 1 .. NumLayers |-> IF l % 4 = 0 THEN 3 ELSE 4]
MCCounts == {1, 2, 8}

MCPrompts == {<<a>>, <<a, b, a>>, <<a, b, a, b, a>>}
MCCalls == [prompt : MCPrompts, maxTokens : {4}, speculate : {TRUE}]
             \cup {[prompt |-> <<a, b, b, a>>, maxTokens |-> m, speculate |-> s] :
                     m \in {0, 2}, s \in BOOLEAN}
=============================================================================
