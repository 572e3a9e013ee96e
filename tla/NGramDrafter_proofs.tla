------------------------ MODULE NGramDrafter_proofs ------------------------
(***************************************************************************)
(* What the prompt-lookup drafter returns, for every context, and the      *)
(* facts about least and greatest elements both engines' proofs rest on.   *)
(***************************************************************************)
EXTENDS NGramDrafter, WellFoundedInduction, TLAPS

LEMMA LessThanPairs ==
  ASSUME NEW a \in Nat, NEW b \in Nat, a < b
  PROVE  <<a, b>> \in OpToRel(<, Nat)
BY DEF OpToRel

\* Every non-empty set of natural numbers has a least element.  Proofs about
\* all natural numbers go through the least counterexample.
LEMMA LeastNatural ==
  ASSUME NEW T, T \subseteq Nat, T # {}
  PROVE  \E x \in T : \A y \in T : x <= y
<1>1. PICK x \in T : \A y \in T : ~ (<<y, x>> \in OpToRel(<, Nat))
  BY NatLessThanWellFounded, WFMin, Zenon
<1>2. ASSUME NEW y \in T PROVE x <= y
  <2>1. y \in Nat /\ x \in Nat
    OBVIOUS
  <2>2. ~ (y < x)
    BY <1>1, <2>1, LessThanPairs, Zenon
  <2> QED
    BY <2>1, <2>2
<1> QED
  BY <1>2

LEMMA MinOfNaturals ==
  ASSUME NEW T, T \subseteq Nat, T # {}
  PROVE  Min(T) \in T /\ \A y \in T : Min(T) <= y
BY LeastNatural DEF Min

\* The greatest element of a bounded set is the least distance to the bound.
LEMMA MaxOfBounded ==
  ASSUME NEW n \in Nat, NEW T, T \subseteq 0 .. n, T # {}
  PROVE  Max(T) \in T /\ \A y \in T : Max(T) >= y
<1> DEFINE D == {d \in 0 .. n : n - d \in T}
<1>1. D \subseteq Nat /\ D # {}
  <2>1. PICK y \in T : TRUE
    OBVIOUS
  <2>2. n - y \in 0 .. n /\ n - (n - y) = y
    BY <2>1
  <2>3. n - y \in D
    BY <2>1, <2>2
  <2>4. D \subseteq 0 .. n /\ 0 .. n \subseteq Nat
    OBVIOUS
  <2> QED
    BY <2>3, <2>4, Zenon
<1>2. PICK d \in D : \A e \in D : d <= e
  BY <1>1, LeastNatural
<1>3. ASSUME NEW y \in T PROVE n - d >= y
  <2>1. y \in Int /\ n - y \in 0 .. n /\ n - (n - y) = y
    OBVIOUS
  <2>2. d <= n - y
    BY <1>2, <2>1
  <2> QED
    BY <1>2, <2>1, <2>2
<1>4. \E x \in T : \A y \in T : x >= y
  BY <1>2, <1>3
<1> QED
  BY <1>4 DEF Max

LEMMA MinOfTwo ==
  ASSUME NEW a \in Nat, NEW b \in Nat
  PROVE  Min({a, b}) = IF a <= b THEN a ELSE b
<1>1. Min({a, b}) \in {a, b} /\ \A y \in {a, b} : Min({a, b}) <= y
  BY MinOfNaturals
<1> QED
  BY <1>1

LEMMA MaxOfTwo ==
  ASSUME NEW a \in Nat, NEW b \in Nat
  PROVE  Max({a, b}) = IF a <= b THEN b ELSE a
<1>1. {a, b} \subseteq 0 .. a + b /\ a + b \in Nat
  OBVIOUS
<1>2. Max({a, b}) \in {a, b} /\ \A y \in {a, b} : Max({a, b}) >= y
  BY <1>1, MaxOfBounded
<1> QED
  BY <1>2

-----------------------------------------------------------------------------
(* Sequences.                                                              *)

LEMMA PrefixOf ==
  ASSUME NEW S, NEW s \in Seq(S), NEW n \in 0 .. Len(s)
  PROVE  /\ SubSeq(s, 1, n) \in Seq(S) /\ Len(SubSeq(s, 1, n)) = n
         /\ \A i \in 1 .. n : SubSeq(s, 1, n)[i] = s[i]
OBVIOUS

LEMMA PartOf ==
  ASSUME NEW S, NEW s \in Seq(S), NEW m \in 1 .. Len(s) + 1, NEW n \in m - 1 .. Len(s)
  PROVE  /\ SubSeq(s, m, n) \in Seq(S) /\ Len(SubSeq(s, m, n)) = n - m + 1
         /\ \A i \in 1 .. n - m + 1 : SubSeq(s, m, n)[i] = s[m + i - 1]
OBVIOUS

LEMMA ClippedIs ==
  ASSUME NEW S, NEW d \in Seq(S), NEW n \in Nat
  PROVE  /\ Clipped(d, n) \in Seq(S)
         /\ Len(Clipped(d, n)) = IF Len(d) <= n THEN Len(d) ELSE n
         /\ \A i \in 1 .. Len(Clipped(d, n)) : Clipped(d, n)[i] = d[i]
<1> DEFINE k == Min({Len(d), n})
<1>1. k = IF Len(d) <= n THEN Len(d) ELSE n
  BY MinOfTwo
<1>2. k \in 0 .. Len(d)
  BY <1>1
<1> HIDE DEF k
<1>3. /\ SubSeq(d, 1, k) \in Seq(S) /\ Len(SubSeq(d, 1, k)) = k
      /\ \A i \in 1 .. k : SubSeq(d, 1, k)[i] = d[i]
  BY <1>2, PrefixOf
<1>4. Clipped(d, n) = SubSeq(d, 1, k)
  BY DEF Clipped, k
<1> QED
  BY <1>1, <1>3, <1>4
-----------------------------------------------------------------------------
(* The drafter.                                                            *)

LEMMA MatchesAreEarlier ==
  ASSUME NEW V, NEW context \in Seq(V)
  PROVE  Matches(context) \subseteq 0 .. Len(context) - NGram - 1
BY DEF Matches

\* For every text: a draft is at most k tokens long, is made of tokens of the
\* text, and is what followed the latest earlier occurrence of its last n
\* tokens; whenever there is one, something is drafted (NGramDrafter.propose).
THEOREM ProposeFollowsLatestMatch ==
  ASSUME NEW V, NEW context \in Seq(V)
  PROVE  /\ Propose(context) \in Seq(V) /\ Len(Propose(context)) <= MaxDraft
         /\ Matches(context) = {} <=> Propose(context) = <<>>
         /\ Matches(context) # {} =>
              \E s \in Matches(context) :
                /\ \A r \in Matches(context) : r <= s
                /\ \A i \in 1 .. Len(Propose(context)) :
                     Propose(context)[i] = context[s + NGram + i]
<1>1. CASE Matches(context) = {}
  <2>1. Propose(context) = <<>>
    BY <1>1 DEF Propose
  <2>2. <<>> \in Seq(V) /\ Len(<<>>) = 0 /\ MaxDraft \in Nat
    BY DrafterAssumption
  <2> QED
    BY <1>1, <2>1, <2>2
<1>2. CASE Matches(context) # {}
  <2> DEFINE M == Matches(context)
             n == Len(context) - NGram - 1
             top == Max(M)
             from == top + NGram
             to == Min({from + MaxDraft, Len(context)})
  <2>1. M \subseteq 0 .. n
    BY MatchesAreEarlier
  <2>2. n \in Nat /\ NGram \in Nat /\ MaxDraft \in Nat \ {0} /\ Len(context) \in Nat
    BY <1>2, <2>1, DrafterAssumption
  <2>3. top \in M /\ \A r \in M : r <= top
    <3>1. Max(M) \in M /\ \A r \in M : Max(M) >= r
      BY <1>2, <2>1, <2>2, MaxOfBounded
    <3> QED
      BY <2>1, <2>2, <3>1
  <2>4. top \in 0 .. n
    BY <2>1, <2>3
  <2>5. from \in Nat /\ from < Len(context)
    BY <2>2, <2>4
  <2>6. to = IF from + MaxDraft <= Len(context) THEN from + MaxDraft ELSE Len(context)
    <3>1. from + MaxDraft \in Nat
      BY <2>2, <2>5
    <3> QED
      BY <2>2, <3>1, MinOfTwo
  <2>7. Propose(context) = SubSeq(context, from + 1, to)
    BY <1>2 DEF Propose
  <2> HIDE DEF M, n, top, from, to
  <2>8. from + 1 \in 1 .. Len(context) + 1 /\ to \in from + 1 .. Len(context)
        /\ to - from <= MaxDraft
    BY <2>2, <2>5, <2>6
  <2>9. /\ Propose(context) \in Seq(V)
        /\ Len(Propose(context)) = to - (from + 1) + 1
        /\ \A i \in 1 .. to - (from + 1) + 1 : Propose(context)[i] = context[from + 1 + i - 1]
    <3>1. to \in (from + 1) - 1 .. Len(context)
      BY <2>2, <2>5, <2>8
    <3> QED
      BY <2>7, <2>8, <3>1, PartOf
  <2>10. Len(Propose(context)) = to - from /\ Len(Propose(context)) > 0
    BY <2>5, <2>8, <2>9
  <2>11. Propose(context) # <<>>
    BY <2>10
  <2>12. ASSUME NEW i \in 1 .. Len(Propose(context))
         PROVE  Propose(context)[i] = context[top + NGram + i]
    <3>1. i \in 1 .. to - (from + 1) + 1 /\ from + 1 + i - 1 = from + i
      BY <2>5, <2>8, <2>10
    <3>2. from = top + NGram
      BY DEF from
    <3> QED
      BY <2>9, <3>1, <3>2
  <2>13. M = Matches(context)
    BY DEF M
  <2> QED
    BY <1>2, <2>3, <2>8, <2>9, <2>10, <2>11, <2>12, <2>13
<1> QED
  BY <1>1, <1>2
=============================================================================
