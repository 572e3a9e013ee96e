---------------------------- MODULE MCSpecDecode ----------------------------
(***************************************************************************)
(* Instances of SpecDecode for TLC: two words and an EOS, every model that *)
(* looks at the last token and the position modulo Period.                 *)
(***************************************************************************)
EXTENDS SpecDecode

a == 0
b == 1
eos == 2
MCVocab == {a, b, eos}
MCEos == {eos}

\* After an EOS the models say `a`.
AfterEos == [p \in 0 .. Period - 1 |-> a]
AllModels ==
  {[t \in MCVocab |-> IF t = eos THEN AfterEos ELSE m[t]] :
     m \in [{a, b} -> [0 .. Period - 1 -> MCVocab]]}

Call(prompt, maxNew, greedy, speculate, reset) ==
  [prompt |-> prompt, maxNew |-> maxNew, greedy |-> greedy,
   speculate |-> speculate, reset |-> reset]

\* The last prompt makes the drafter propose an EOS.
Prompts == {<<a, b, a>>, <<b, a>>, <<a>>, <<b, eos, a>>}
GreedyCalls == {Call(p, 8, TRUE, TRUE, TRUE) : p \in Prompts}
MCCalls == GreedyCalls \cup {Call(<<b, eos, a>>, 4, FALSE, TRUE, TRUE),
                             Call(<<b>>, 1, TRUE, TRUE, TRUE),
                             Call(<<b>>, 3, TRUE, FALSE, TRUE),
                             Call(<<a>>, 3, TRUE, TRUE, FALSE)}
=============================================================================
