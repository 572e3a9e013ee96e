---------------------------- MODULE NGramDrafter ----------------------------
(* The prompt-lookup drafter of ngram_drafter.py, used by both engines. *)
EXTENDS Integers, Sequences, FiniteSetsExt

CONSTANTS NGram,     \* n, the length of the window that is looked up
          MaxDraft   \* k

ASSUME DrafterAssumption == NGram \in Nat \ {0} /\ MaxDraft \in Nat \ {0}

\* Where the last n tokens of the context have occurred before.
Matches(context) ==
  LET window(s) == SubSeq(context, s + 1, s + NGram) IN
    {s \in 0 .. Len(context) - NGram - 1 :
       window(s) = window(Len(context) - NGram)}

\* Up to k tokens that followed the latest of these.
Propose(context) ==
  IF Matches(context) = {} THEN <<>>
  ELSE LET from == Max(Matches(context)) + NGram
       IN SubSeq(context, from + 1, Min({from + MaxDraft, Len(context)}))

\* A draft clipped to n tokens.
Clipped(d, n) == SubSeq(d, 1, Min({Len(d), n}))
=============================================================================
