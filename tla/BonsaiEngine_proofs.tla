------------------------- MODULE BonsaiEngine_proofs -------------------------
(***************************************************************************)
(* Theorems about LayerStreamer and BonsaiEngine, for any number of layers,*)
(* size of the caches and vocabulary: the residency bound, and that every  *)
(* token is sampled from the whole text.                                   *)
(***************************************************************************)
EXTENDS BonsaiEngine, NGramDrafter_proofs, FiniteSetTheorems

-----------------------------------------------------------------------------
(* The table of resident layers.                                           *)

Distinct(s) == \A i, j \in 1 .. Len(s) : s[i] = s[j] => i = j
Table == /\ count \in Counts /\ resident \in Seq(Layers)
         /\ Len(resident) <= count /\ Distinct(resident)

LEMMA CountIsPositive == Table => count \in Nat \ {0} /\ Len(resident) \in Nat
  BY StreamerAssumption DEF Table

LEMMA TouchKeepsTable ==
  ASSUME Table, NEW l \in Layers, Touch(l)
  PROVE  Table'
  <1> DEFINE n == Len(resident)
  <1>1. PICK m \in 1 .. n : resident[m] = l
    BY DEF Touch, ResidentSet, Table
  <1> DEFINE at == CHOOSE i \in DOMAIN resident : resident[i] = l
  <1>2. at \in 1 .. n /\ resident[at] = l
    BY <1>1 DEF Table
  <1>3. resident' = [i \in 1 .. n |-> IF i < at THEN resident[i]
                                      ELSE IF i = n THEN l ELSE resident[i + 1]]
    BY DEF Touch, ToEnd, Table
  <1> HIDE DEF at
  <1>4. n \in Nat /\ \A i \in 1 .. n : resident[i] \in Layers
    BY DEF Table
  <1>5. resident' \in Seq(Layers) /\ Len(resident') = n
    <2>1. resident' \in [1 .. n -> Layers]
      BY <1>2, <1>3, <1>4
    <2> QED
      BY <2>1, <1>4
  <1>6. ASSUME NEW i \in 1 .. n, NEW j \in 1 .. n, i # j
        PROVE  resident'[i] # resident'[j]
    <2> DEFINE src(k) == IF k < at THEN k ELSE IF k = n THEN at ELSE k + 1
    <2>1. \A k \in 1 .. n : src(k) \in 1 .. n /\ resident'[k] = resident[src(k)]
      BY <1>2, <1>3, <1>4
    <2>2. src(i) # src(j)
      BY <1>2, <1>4, <1>6
    <2> HIDE DEF src
    <2> QED
      BY <2>1, <2>2 DEF Table, Distinct
  <1> QED
    BY <1>5, <1>6 DEF Table, Distinct, Touch

LEMMA LoadKeepsTable ==
  ASSUME Table, NEW l \in Layers, Load(l)
  PROVE  Table'
  <1> DEFINE n == Len(resident)
             e == NumEvicted
  <1>1. n \in Nat /\ e \in 0 .. n /\ n - e <= count - 1 /\ count \in Nat \ {0}
    BY CountIsPositive DEF NumEvicted, Table
  <1>2. /\ Kept \in Seq(Layers) /\ Len(Kept) = n - e
        /\ \A i \in 1 .. n - e : Kept[i] = resident[i + e]
    BY <1>1 DEF Kept, Table
  <1>3. resident' = Append(Kept, l)
    BY DEF Load
  <1> HIDE DEF e
  <1>4. /\ resident' \in Seq(Layers) /\ Len(resident') = n - e + 1
        /\ \A i \in 1 .. n - e : resident'[i] = resident[i + e]
        /\ resident'[n - e + 1] = l
    BY <1>1, <1>2, <1>3
  <1>5. \A i \in 1 .. n : resident[i] # l
    BY DEF Load, ResidentSet, Table
  <1>6. Distinct(resident)'
    <2> SUFFICES ASSUME NEW i \in 1 .. n - e + 1, NEW j \in 1 .. n - e + 1,
                        i < j, resident'[i] = resident'[j]
                 PROVE  FALSE
      BY <1>1, <1>4 DEF Distinct
    <2>0. i \in 1 .. n - e /\ i + e \in 1 .. n /\ resident'[i] = resident[i + e]
      BY <1>1, <1>4
    <2>1. CASE j = n - e + 1
      <3>1. resident'[j] = l
        BY <1>4, <2>1
      <3> QED
        BY <1>5, <2>0, <3>1
    <2>2. CASE j # n - e + 1
      <3>1. /\ i + e \in 1 .. n /\ j + e \in 1 .. n /\ i + e # j + e
            /\ resident[i + e] = resident[j + e]
        <4>1. j \in 1 .. n - e
          BY <1>1, <2>2
        <4>2. j + e \in 1 .. n /\ resident'[j] = resident[j + e] /\ i + e # j + e
          BY <1>1, <1>4, <4>1
        <4> QED
          BY <2>0, <4>2
      <3> QED
        BY <3>1 DEF Table, Distinct
    <2> QED
      BY <2>1, <2>2
  <1> QED
    BY <1>1, <1>4, <1>6 DEF Table, Load

LEMMA TableMeansBudget == Table => ResidencyBudget
  BY DEF Table, Distinct, ResidencyBudget

LEMMA StreamerInitTable == StreamerInit => Table
  BY StreamerAssumption DEF StreamerInit, Table, Distinct

\* However a client takes the layers, no more than the allowed number of them
\* is resident, and none twice.
THEOREM StreamerBounded == StreamerSpec => []ResidencyBudget
  <1>1. Table /\ [StreamerNext]_streamer => Table'
    BY TouchKeepsTable, LoadKeepsTable DEF StreamerNext, AcquireLayer, streamer, Table, Distinct
  <1> QED
    BY <1>1, StreamerInitTable, TableMeansBudget, PTL DEF StreamerSpec
-----------------------------------------------------------------------------
(* What the resident layers weigh.  Bytes is a fold over a set in an order *)
(* of TLC's choosing; that it is the sum of the layers' bytes in any order *)
(* is proved through the smallest set for which it would not be.           *)

\* One step of the fold, with f in place of the fold itself.
Unrolled(f, s) ==
  IF s = {} THEN 0 ELSE LET x == CHOOSE y \in s : TRUE IN LayerBytes[x] + f[s \ {x}]

LEMMA BytesIsFold ==
  ASSUME NEW S
  PROVE  Bytes(S) = (CHOOSE f : f = [s \in SUBSET S |-> Unrolled(f, s)])[S]
  BY DEF Bytes, MapThenSumSet, MapThenFoldSet, Unrolled

LEMMA ChooseIn == ASSUME NEW s, s # {} PROVE (CHOOSE y \in s : TRUE) \in s
  OBVIOUS

LEMMA LayerSets ==
  ASSUME NEW s \in SUBSET Layers
  PROVE  /\ IsFiniteSet(s) /\ Cardinality(s) \in Nat /\ Cardinality(s) <= NumLayers
         /\ Cardinality(s) = 0 <=> s = {}
         /\ \A x \in s : /\ s \ {x} \in SUBSET Layers
                         /\ Cardinality(s \ {x}) = Cardinality(s) - 1
                         /\ LayerBytes[x] \in Nat
  <1>1. IsFiniteSet(Layers) /\ Cardinality(Layers) = NumLayers
    <2>1. NumLayers \in Int /\ 1 \in Int /\ ~(1 > NumLayers) /\ NumLayers - 1 + 1 = NumLayers
      BY StreamerAssumption
    <2>2. IsFiniteSet(1 .. NumLayers)
      BY <2>1, FS_Interval
    <2>3. Cardinality(1 .. NumLayers) = IF 1 > NumLayers THEN 0 ELSE NumLayers - 1 + 1
      BY <2>1, FS_Interval
    <2> QED
      BY <2>1, <2>2, <2>3 DEF Layers
  <1>2. IsFiniteSet(s) /\ Cardinality(s) <= Cardinality(Layers)
    BY <1>1, FS_Subset
  <1>3. Cardinality(s) \in Nat
    BY <1>2, FS_CardinalityType
  <1>4. Cardinality(s) = 0 <=> s = {}
    BY <1>2, FS_EmptySet
  <1>5. ASSUME NEW x \in s
        PROVE  /\ s \ {x} \in SUBSET Layers
               /\ Cardinality(s \ {x}) = Cardinality(s) - 1
               /\ LayerBytes[x] \in Nat
    <2>1. Cardinality(s \ {x}) = IF x \in s THEN Cardinality(s) - 1 ELSE Cardinality(s)
      BY <1>2, FS_RemoveElement
    <2>2. LayerBytes[x] \in Nat
      BY StreamerAssumption DEF Layers
    <2> QED
      BY <2>1, <2>2
  <1> QED
    BY <1>1, <1>2, <1>3, <1>4, <1>5

\* The recursion has a solution for sets of at most n layers, for every n.
LEMMA FoldUpTo ==
  ASSUME NEW n \in Nat
  PROVE  \E f \in [SUBSET Layers -> Nat] :
           \A s \in SUBSET Layers : Cardinality(s) <= n => f[s] = Unrolled(f, s)
  <1> DEFINE Solved(m) == \E f \in [SUBSET Layers -> Nat] :
               \A s \in SUBSET Layers : Cardinality(s) <= m => f[s] = Unrolled(f, s)
             Bad == {m \in Nat : ~Solved(m)}
  <1>1. Solved(0)
    <2> DEFINE f == [s \in SUBSET Layers |-> 0]
    <2>1. f \in [SUBSET Layers -> Nat]
      OBVIOUS
    <2>2. ASSUME NEW s \in SUBSET Layers, Cardinality(s) <= 0 PROVE f[s] = Unrolled(f, s)
      <3>1. s = {}
        BY <2>2, LayerSets
      <3> QED
        BY <3>1 DEF Unrolled
    <2> QED
      BY <2>1, <2>2
  <1>2. ASSUME NEW m \in Nat \ {0}, Solved(m - 1) PROVE Solved(m)
    <2>1. PICK f \in [SUBSET Layers -> Nat] :
            \A s \in SUBSET Layers : Cardinality(s) <= m - 1 => f[s] = Unrolled(f, s)
      BY <1>2
    <2> DEFINE g == [s \in SUBSET Layers |-> IF Cardinality(s) <= m - 1 THEN f[s] ELSE Unrolled(f, s)]
    <2>2. ASSUME NEW s \in SUBSET Layers PROVE Unrolled(f, s) \in Nat
      <3>1. CASE s = {}
        BY <3>1 DEF Unrolled
      <3>2. CASE s # {}
        <4> DEFINE x == CHOOSE y \in s : TRUE
        <4>1. x \in s
          BY <3>2, ChooseIn
        <4>2. Unrolled(f, s) = LayerBytes[x] + f[s \ {x}]
          BY <3>2 DEF Unrolled
        <4> HIDE DEF x
        <4>3. LayerBytes[x] \in Nat /\ f[s \ {x}] \in Nat
          BY <4>1, LayerSets
        <4> QED
          BY <4>2, <4>3
      <3> QED
        BY <3>1, <3>2
    <2>3. g \in [SUBSET Layers -> Nat]
      BY <2>2
    <2>4. ASSUME NEW s \in SUBSET Layers, Cardinality(s) <= m PROVE g[s] = Unrolled(g, s)
      <3>1. g[s] = Unrolled(f, s)
        BY <2>1
      <3>2. CASE s = {}
        BY <3>1, <3>2 DEF Unrolled
      <3>3. CASE s # {}
        <4> DEFINE x == CHOOSE y \in s : TRUE
        <4>1. x \in s
          BY <3>3, ChooseIn
        <4>2. Unrolled(f, s) = LayerBytes[x] + f[s \ {x}]
          BY <3>3 DEF Unrolled
        <4>3. Unrolled(g, s) = LayerBytes[x] + g[s \ {x}]
          BY <3>3 DEF Unrolled
        <4> HIDE DEF x
        <4>4. s \ {x} \in SUBSET Layers /\ Cardinality(s \ {x}) <= m - 1
          BY <2>4, <4>1, LayerSets
        <4>5. g[s \ {x}] = f[s \ {x}]
          BY <4>4
        <4> QED
          BY <3>1, <4>2, <4>3, <4>5
      <3> QED
        BY <3>2, <3>3
    <2> HIDE DEF g
    <2> QED
      BY <2>3, <2>4
  <1>3. ASSUME Bad # {} PROVE FALSE
    <2> HIDE DEF Solved
    <2>1. PICK m \in Bad : \A k \in Bad : m <= k
      BY <1>3, LeastNatural
    <2>2. m \in Nat /\ m # 0 /\ ~Solved(m)
      BY <1>1, <2>1
    <2>3. m - 1 \in Nat /\ m - 1 \notin Bad
      BY <2>1, <2>2
    <2>4. Solved(m - 1)
      BY <2>3
    <2> QED
      BY <1>2, <2>2, <2>4
  <1> HIDE DEF Solved
  <1>4. Solved(n)
    BY <1>3
  <1> QED
    BY <1>4 DEF Solved

\* The fold satisfies its recursion, on one function for all sets of layers.
LEMMA BytesRecursion ==
  /\ \A S \in SUBSET Layers : Bytes(S) \in Nat
  /\ Bytes({}) = 0
  /\ \A S \in SUBSET Layers : S # {} =>
       \E x \in S : Bytes(S) = LayerBytes[x] + Bytes(S \ {x})
  <1>1. PICK G \in [SUBSET Layers -> Nat] :
          \A s \in SUBSET Layers : Cardinality(s) <= NumLayers => G[s] = Unrolled(G, s)
    BY FoldUpTo, StreamerAssumption
  <1>2. \A s \in SUBSET Layers : G[s] = Unrolled(G, s)
    BY <1>1, LayerSets
  <1>3. ASSUME NEW S \in SUBSET Layers PROVE Bytes(S) = G[S]
    <2> DEFINE F == CHOOSE f : f = [s \in SUBSET S |-> Unrolled(f, s)]
               H == [s \in SUBSET S |-> G[s]]
    <2>1. H = [s \in SUBSET S |-> Unrolled(H, s)]
      <3>1. ASSUME NEW s \in SUBSET S PROVE G[s] = Unrolled(H, s)
        <4>1. s \in SUBSET Layers
          BY <1>3
        <4>2. G[s] = Unrolled(G, s)
          BY <1>2, <4>1
        <4>3. CASE s = {}
          BY <4>2, <4>3 DEF Unrolled
        <4>4. CASE s # {}
          <5> DEFINE x == CHOOSE y \in s : TRUE
          <5>1. Unrolled(G, s) = LayerBytes[x] + G[s \ {x}]
            BY <4>4 DEF Unrolled
          <5>2. Unrolled(H, s) = LayerBytes[x] + H[s \ {x}]
            BY <4>4 DEF Unrolled
          <5> HIDE DEF x
          <5>3. H[s \ {x}] = G[s \ {x}]
            OBVIOUS
          <5> QED
            BY <4>2, <5>1, <5>2, <5>3
        <4> QED
          BY <4>3, <4>4
      <3>2. \A s \in SUBSET S : G[s] = Unrolled(H, s)
        BY <3>1
      <3> DEFINE U(s) == Unrolled(H, s)
      <3>3. \A s \in SUBSET S : G[s] = U(s)
        BY <3>2
      <3> HIDE DEF U
      <3>4. [s \in SUBSET S |-> G[s]] = [s \in SUBSET S |-> U(s)]
        BY <3>3
      <3> QED
        BY <3>4 DEF U
    <2>2. F = [s \in SUBSET S |-> Unrolled(F, s)]
      <3>1. \E f : f = [s \in SUBSET S |-> Unrolled(f, s)]
        <4> HIDE DEF H
        <4> QED
          BY <2>1
      <3> QED
        BY <3>1
    <2>3. Bytes(S) = F[S]
      BY BytesIsFold
    <2> HIDE DEF F, H
    <2>4. \A s \in SUBSET S : F[s] = Unrolled(F, s)
      <3> DEFINE U(s) == Unrolled(F, s)
      <3>1. F = [s \in SUBSET S |-> U(s)]
        BY <2>2
      <3> HIDE DEF U
      <3>2. \A s \in SUBSET S : F[s] = U(s)
        BY <3>1
      <3> QED
        BY <3>2 DEF U
    <2> DEFINE Differ == {s \in SUBSET S : F[s] # G[s]}
               Sizes == {Cardinality(s) : s \in Differ}
    <2>5. ASSUME Differ # {} PROVE FALSE
      <3>1. Sizes # {} /\ Sizes \subseteq Nat
        <4>1. \A s \in Differ : s \in SUBSET Layers
          BY <1>3
        <4>2. \A s \in Differ : Cardinality(s) \in Nat
          BY <4>1, LayerSets
        <4> QED
          BY <2>5, <4>2
      <3>2. PICK k \in Sizes : \A j \in Sizes : k <= j
        BY <3>1, LeastNatural
      <3>3. PICK s \in Differ : Cardinality(s) = k
        BY <3>2
      <3>4. s \in SUBSET S /\ s \in SUBSET Layers /\ F[s] # G[s]
        BY <1>3, <3>3
      <3>5. F[s] = Unrolled(F, s) /\ G[s] = Unrolled(G, s)
        BY <1>2, <2>4, <3>4
      <3>6. s # {}
        BY <3>4, <3>5 DEF Unrolled
      <3> DEFINE x == CHOOSE y \in s : TRUE
      <3>7. Unrolled(F, s) = LayerBytes[x] + F[s \ {x}] /\ Unrolled(G, s) = LayerBytes[x] + G[s \ {x}]
        BY <3>6 DEF Unrolled
      <3>8. x \in s
        BY <3>6, ChooseIn
      <3> HIDE DEF x
      <3>9. s \ {x} \in Differ
        <4>1. F[s \ {x}] # G[s \ {x}]
          BY <3>4, <3>5, <3>7
        <4> QED
          BY <3>4, <4>1
      <3>10. k <= Cardinality(s \ {x})
        BY <3>2, <3>9
      <3>11. Cardinality(s) \in Nat /\ Cardinality(s \ {x}) = Cardinality(s) - 1
        BY <3>4, <3>8, LayerSets
      <3> QED
        BY <3>3, <3>10, <3>11
    <2>6. F[S] = G[S]
      <3>1. S \notin Differ
        BY <2>5
      <3> QED
        BY <3>1
    <2> QED
      BY <2>3, <2>6
  <1>4. \A S \in SUBSET Layers : Bytes(S) \in Nat
    BY <1>3
  <1>5. Bytes({}) = 0
    <2>1. {} \in SUBSET Layers
      OBVIOUS
    <2> QED
      BY <1>2, <1>3, <2>1 DEF Unrolled
  <1>6. ASSUME NEW S \in SUBSET Layers, S # {}
        PROVE  \E x \in S : Bytes(S) = LayerBytes[x] + Bytes(S \ {x})
    <2> DEFINE x == CHOOSE y \in S : TRUE
    <2>1. Unrolled(G, S) = LayerBytes[x] + G[S \ {x}]
      BY <1>6 DEF Unrolled
    <2>2. x \in S
      BY <1>6, ChooseIn
    <2> HIDE DEF x
    <2>3. S \ {x} \in SUBSET Layers
      BY <1>6
    <2>4. Bytes(S) = LayerBytes[x] + Bytes(S \ {x})
      BY <1>2, <1>3, <2>1, <2>3
    <2> QED
      BY <2>2, <2>4
  <1> QED
    BY <1>4, <1>5, <1>6

\* A non-empty set of layer sets has a member with the fewest layers.
LEMMA SmallestLayerSet ==
  ASSUME NEW Q, Q \subseteq SUBSET Layers, Q # {}
  PROVE  \E s \in Q : \A r \in Q : Cardinality(s) <= Cardinality(r)
  <1> DEFINE Sizes == {Cardinality(s) : s \in Q}
  <1>1. Sizes \subseteq Nat /\ Sizes # {}
    BY LayerSets
  <1>2. PICK k \in Sizes : \A j \in Sizes : k <= j
    BY <1>1, LeastNatural
  <1> QED
    BY <1>2

\* Whichever layer is taken out, its bytes are what the sum loses.
LEMMA BytesWithout ==
  \A S \in SUBSET Layers : \A y \in S : Bytes(S) = LayerBytes[y] + Bytes(S \ {y})
  <1> DEFINE Q == {S \in SUBSET Layers : \E y \in S : Bytes(S) # LayerBytes[y] + Bytes(S \ {y})}
  <1>1. ASSUME Q # {} PROVE FALSE
    <2>1. PICK S \in Q : \A r \in Q : Cardinality(S) <= Cardinality(r)
      BY <1>1, SmallestLayerSet
    <2>2. S \in SUBSET Layers
      BY <2>1
    <2>3. PICK y \in S : Bytes(S) # LayerBytes[y] + Bytes(S \ {y})
      BY <2>1
    <2>4. PICK x \in S : Bytes(S) = LayerBytes[x] + Bytes(S \ {x})
      BY <2>2, <2>3, BytesRecursion
    <2>5. x # y
      BY <2>3, <2>4
    <2>6. /\ S \ {x} \in SUBSET Layers /\ S \ {y} \in SUBSET Layers
          /\ y \in S \ {x} /\ x \in S \ {y}
          /\ LayerBytes[x] \in Nat /\ LayerBytes[y] \in Nat
          /\ Cardinality(S) \in Nat
          /\ Cardinality(S \ {x}) = Cardinality(S) - 1
          /\ Cardinality(S \ {y}) = Cardinality(S) - 1
      BY <2>2, <2>5, LayerSets
    <2>7. S \ {x} \notin Q /\ S \ {y} \notin Q
      <3> HIDE DEF Q
      <3>1. ASSUME NEW r \in Q PROVE Cardinality(S) <= Cardinality(r)
        BY <2>1
      <3>2. ~(Cardinality(S) <= Cardinality(S) - 1)
        BY <2>6
      <3> QED
        BY <2>6, <3>1, <3>2
    <2>8. Bytes(S \ {x}) = LayerBytes[y] + Bytes((S \ {x}) \ {y})
      BY <2>6, <2>7
    <2>9. Bytes(S \ {y}) = LayerBytes[x] + Bytes((S \ {y}) \ {x})
      BY <2>6, <2>7
    <2>10. (S \ {x}) \ {y} = (S \ {y}) \ {x}
      OBVIOUS
    <2>11. Bytes((S \ {y}) \ {x}) \in Nat
      <3>1. (S \ {y}) \ {x} \in SUBSET Layers
        BY <2>2
      <3> QED
        BY <3>1, BytesRecursion
    <2> DEFINE b == Bytes((S \ {y}) \ {x})
    <2>12. /\ Bytes(S) = LayerBytes[x] + (LayerBytes[y] + b)
           /\ Bytes(S \ {y}) = LayerBytes[x] + b
      BY <2>4, <2>8, <2>9, <2>10
    <2> HIDE DEF b
    <2>13. b \in Nat
      BY <2>11 DEF b
    <2>14. Bytes(S) = LayerBytes[y] + Bytes(S \ {y})
      BY <2>6, <2>12, <2>13
    <2> QED
      BY <2>3, <2>14
  <1> QED
    BY <1>1

\* The bytes of a set are those of any part of it and of the rest.
LEMMA BytesOfParts ==
  ASSUME NEW S \in SUBSET Layers, NEW T \in SUBSET S
  PROVE  Bytes(S) = Bytes(T) + Bytes(S \ T)
  <1> DEFINE Q == {R \in SUBSET S : Bytes(S) # Bytes(R) + Bytes(S \ R)}
  <1>1. ASSUME Q # {} PROVE FALSE
    <2>1. Q \subseteq SUBSET Layers
      OBVIOUS
    <2>2. PICK R \in Q : \A r \in Q : Cardinality(R) <= Cardinality(r)
      BY <1>1, <2>1, SmallestLayerSet
    <2>3. R \in SUBSET S /\ R \in SUBSET Layers /\ Bytes(S) # Bytes(R) + Bytes(S \ R)
      BY <2>2
    <2>4. R # {}
      <3>1. S \ {} = S
        OBVIOUS
      <3>2. Bytes(S) \in Nat /\ Bytes({}) = 0
        BY BytesRecursion
      <3> QED
        BY <2>3, <3>1, <3>2
    <2>5. PICK y \in R : TRUE
      BY <2>4
    <2> DEFINE P == R \ {y}
               A == S \ R
               B == S \ P
    <2>6. /\ P \in SUBSET S /\ P \in SUBSET Layers /\ A \in SUBSET Layers /\ B \in SUBSET Layers
          /\ y \in B /\ B \ {y} = A
      BY <2>3
    <2>7. Cardinality(R) \in Nat /\ Cardinality(P) = Cardinality(R) - 1 /\ LayerBytes[y] \in Nat
      BY <2>3, LayerSets
    <2> HIDE DEF Q
    <2>8. P \notin Q
      BY <2>2, <2>7
    <2>9. Bytes(S) = Bytes(P) + Bytes(B)
      BY <2>6, <2>8 DEF Q
    <2>10. Bytes(R) = LayerBytes[y] + Bytes(P)
      BY <2>3, BytesWithout
    <2> HIDE DEF P, A, B
    <2>11. Bytes(B) = LayerBytes[y] + Bytes(A)
      BY <2>6, BytesWithout
    <2>12. Bytes(P) \in Nat /\ Bytes(A) \in Nat
      BY <2>6, BytesRecursion
    <2>13. Bytes(S) = Bytes(R) + Bytes(A)
      BY <2>7, <2>9, <2>10, <2>11, <2>12
    <2> QED
      BY <2>3, <2>13 DEF A
  <1> QED
    BY <1>1

Heaviest == Max({LayerBytes[l] : l \in Layers})

LEMMA HeaviestIs == Heaviest \in Nat /\ \A l \in Layers : LayerBytes[l] <= Heaviest
  <1> DEFINE T == {LayerBytes[l] : l \in Layers}
             n == Bytes(Layers)
  <1>1. Layers \in SUBSET Layers /\ n \in Nat
    BY BytesRecursion
  <1>2. ASSUME NEW l \in Layers PROVE LayerBytes[l] \in 0 .. n
    <2>1. n = LayerBytes[l] + Bytes(Layers \ {l})
      BY <1>1, BytesWithout
    <2>2. Bytes(Layers \ {l}) \in Nat /\ LayerBytes[l] \in Nat
      BY <1>1, BytesRecursion, LayerSets
    <2> QED
      BY <2>1, <2>2
  <1>3. T \subseteq 0 .. n /\ T # {}
    <2>1. 1 \in Layers
      BY StreamerAssumption DEF Layers
    <2> HIDE DEF n
    <2> QED
      BY <1>2, <2>1
  <1> HIDE DEF n
  <1>4. Max(T) \in T /\ \A y \in T : Max(T) >= y
    <2> HIDE DEF T
    <2> QED
      BY <1>1, <1>3, MaxOfBounded
  <1>5. \A l \in Layers : LayerBytes[l] \in T
    OBVIOUS
  <1> HIDE DEF T
  <1>6. Max(T) \in Nat /\ \A y \in T : y \in Nat
    <2>1. \A y \in 0 .. n : y \in Nat
      BY <1>1
    <2>2. \A y \in T : y \in Nat
      BY <1>3, <2>1
    <2> QED
      BY <1>4, <2>2
  <1>7. \A l \in Layers : LayerBytes[l] <= Max(T)
    BY <1>4, <1>5, <1>6
  <1> QED
    BY <1>6, <1>7 DEF Heaviest, T

\* A set of layers weighs at most as much as so many of the heaviest.
LEMMA BytesBounded ==
  \A S \in SUBSET Layers : Bytes(S) <= Cardinality(S) * Heaviest
  <1> DEFINE Q == {S \in SUBSET Layers : ~(Bytes(S) <= Cardinality(S) * Heaviest)}
  <1>1. ASSUME Q # {} PROVE FALSE
    <2>1. PICK S \in Q : \A r \in Q : Cardinality(S) <= Cardinality(r)
      BY <1>1, SmallestLayerSet
    <2>2. S \in SUBSET Layers /\ ~(Bytes(S) <= Cardinality(S) * Heaviest)
      BY <2>1
    <2>3. S # {}
      <3>1. Bytes({}) = 0 /\ Cardinality({}) = 0
        BY BytesRecursion, FS_EmptySet
      <3>2. 0 <= 0 * Heaviest
        BY HeaviestIs
      <3> QED
        BY <2>2, <3>1, <3>2
    <2>4. PICK x \in S : Bytes(S) = LayerBytes[x] + Bytes(S \ {x})
      BY <2>2, <2>3, BytesRecursion
    <2> DEFINE P == S \ {x}
               c == Cardinality(S)
               b == Bytes(P)
    <2>5. /\ P \in SUBSET Layers /\ c \in Nat /\ Cardinality(P) = c - 1
          /\ LayerBytes[x] \in Nat
      BY <2>2, LayerSets
    <2>6. P \notin Q
      <3> HIDE DEF Q, P
      <3> QED
        BY <2>1, <2>5
    <2>7. b <= (c - 1) * Heaviest
      BY <2>5, <2>6
    <2>8. b \in Nat
      BY <2>5, BytesRecursion
    <2>9. LayerBytes[x] <= Heaviest /\ Heaviest \in Nat
      BY <2>2, HeaviestIs
    <2>10. Bytes(S) = LayerBytes[x] + b
      BY <2>4
    <2>11. (c - 1) * Heaviest + Heaviest = c * Heaviest
      <3> HIDE DEF c
      <3> QED
        BY <2>5, <2>9
    <2>12. (c - 1) * Heaviest \in Int /\ c * Heaviest \in Int
      <3> HIDE DEF c
      <3> QED
        BY <2>5, <2>9
    <2> DEFINE u == (c - 1) * Heaviest
               v == c * Heaviest
    <2> HIDE DEF b, u, v
    <2>13. LayerBytes[x] + b <= v
      BY <2>5, <2>7, <2>8, <2>9, <2>11, <2>12 DEF u, v
    <2> QED
      BY <2>2, <2>10, <2>13 DEF v
  <1> QED
    BY <1>1

\* The byte count of the streamer, as an inductive invariant.
Account ==
  /\ Table
  /\ current = SharedBytes + Bytes(ResidentSet)
  /\ peak \in Nat /\ current <= peak /\ peak <= SharedBytes + count * Heaviest

LEMMA ResidentLayers ==
  ASSUME NEW c \in Nat, NEW r \in Seq(Layers), Len(r) <= c
  PROVE  /\ {r[i] : i \in DOMAIN r} \in SUBSET Layers
         /\ Cardinality({r[i] : i \in DOMAIN r}) <= c
  <1> DEFINE n == Len(r)
             R == {r[i] : i \in DOMAIN r}
  <1>1. n \in Nat /\ n <= c /\ r \in [1 .. n -> Layers] /\ DOMAIN r = 1 .. n
    OBVIOUS
  <1>2. R = {r[i] : i \in 1 .. n}
    BY <1>1
  <1>3. R \in SUBSET Layers
    BY <1>1, <1>2
  <1>4. r \in Surjection(1 .. n, R)
    BY <1>1, <1>2 DEF Surjection
  <1>5. ExistsSurjection(1 .. n, R)
    BY <1>4 DEF ExistsSurjection
  <1>6. Cardinality(R) <= n
    BY <1>1, <1>5, FS_SurjCardinalityBound
  <1>7. Cardinality(R) \in Nat
    BY <1>3, LayerSets
  <1> QED
    BY <1>1, <1>3, <1>6, <1>7

\* As many layers as are allowed weigh no more than so many of the heaviest.
LEMMA ResidentBytes ==
  ASSUME NEW c \in Nat, NEW r \in Seq(Layers), Len(r) <= c
  PROVE  Bytes({r[i] : i \in DOMAIN r}) <= c * Heaviest
  <1> DEFINE R == {r[i] : i \in DOMAIN r}
             b == Bytes(R)
             k == Cardinality(R)
             u == k * Heaviest
             v == c * Heaviest
  <1>1. R \in SUBSET Layers /\ k <= c
    BY ResidentLayers
  <1> HIDE DEF R
  <1>2. b \in Nat /\ k \in Nat
    BY <1>1, BytesRecursion, LayerSets
  <1>3. b <= u
    BY <1>1, BytesBounded
  <1>4. Heaviest \in Nat
    BY HeaviestIs
  <1> HIDE DEF b, k
  <1>5. u \in Nat /\ v \in Nat /\ u <= v
    <2>1. c - k \in Nat
      BY <1>1, <1>2
    <2>2. (c - k) * Heaviest \in Nat /\ u \in Nat /\ v \in Nat
      BY <1>2, <1>4, <2>1
    <2>3. v = u + (c - k) * Heaviest
      BY <1>2, <1>4
    <2> DEFINE w == (c - k) * Heaviest
    <2> HIDE DEF u, v, w
    <2>4. u <= v
      BY <2>2, <2>3 DEF w
    <2> QED
      BY <2>2, <2>4
  <1> HIDE DEF u, v
  <1>6. b <= v
    BY <1>2, <1>3, <1>5
  <1> QED
    BY <1>6 DEF b, v, R

\* move_to_end changes the order and not the set.
LEMMA TouchKeepsSet == ASSUME Table, NEW l \in Layers, Touch(l) PROVE ResidentSet' = ResidentSet
  <1> DEFINE n == Len(resident)
             at == CHOOSE i \in DOMAIN resident : resident[i] = l
  <1>1. PICK m \in 1 .. n : resident[m] = l
    BY DEF Touch, ResidentSet, Table
  <1>2. at \in 1 .. n /\ resident[at] = l
    BY <1>1 DEF Table
  <1>3. resident' = [i \in 1 .. n |-> IF i < at THEN resident[i]
                                      ELSE IF i = n THEN l ELSE resident[i + 1]]
    BY DEF Touch, ToEnd, Table
  <1>4. n \in Nat /\ DOMAIN resident = 1 .. n
    BY DEF Table
  <1> HIDE DEF at
  <1>5. DOMAIN resident' = 1 .. n
    BY <1>3
  <1>6. ASSUME NEW i \in 1 .. n PROVE \E j \in 1 .. n : resident'[i] = resident[j]
    <2>1. CASE i < at
      BY <1>3, <2>1
    <2>2. CASE ~(i < at) /\ i = n
      BY <1>2, <1>3, <2>2
    <2>3. CASE ~(i < at) /\ i # n
      <3>1. i + 1 \in 1 .. n
        <4>1. i # n
          BY <2>3
        <4> HIDE DEF n
        <4> QED
          BY <1>4, <4>1
      <3>2. resident'[i] = resident[i + 1]
        BY <1>3, <2>3
      <3> QED
        BY <3>1, <3>2
    <2> QED
      BY <2>1, <2>2, <2>3
  <1>7. ASSUME NEW j \in 1 .. n PROVE \E i \in 1 .. n : resident'[i] = resident[j]
    <2>1. CASE j < at
      BY <1>3, <2>1
    <2>2. CASE j = at
      <3>1. n \in 1 .. n /\ ~(n < at)
        BY <1>2, <1>4
      <3>2. resident'[n] = l
        BY <1>3, <3>1
      <3> QED
        BY <1>2, <2>2, <3>1, <3>2
    <2>3. CASE j > at
      <3>1. j - 1 \in 1 .. n /\ ~(j - 1 < at) /\ j - 1 # n /\ j - 1 + 1 = j
        BY <1>2, <1>4, <2>3
      <3>2. resident'[j - 1] = resident[j]
        BY <1>3, <3>1
      <3> QED
        BY <3>1, <3>2
    <2> QED
      BY <1>2, <1>4, <2>1, <2>2, <2>3
  <1>8. ResidentSet = {resident[i] : i \in 1 .. n} /\ ResidentSet' = {resident'[i] : i \in 1 .. n}
    BY <1>4, <1>5 DEF ResidentSet
  <1>9. \A x \in ResidentSet' : x \in ResidentSet
    BY <1>6, <1>8
  <1>10. \A x \in ResidentSet : x \in ResidentSet'
    <2> SUFFICES ASSUME NEW x \in ResidentSet PROVE x \in ResidentSet'
      OBVIOUS
    <2>1. PICK j \in 1 .. n : x = resident[j]
      BY <1>8
    <2>2. PICK i \in 1 .. n : resident'[i] = resident[j]
      BY <1>7
    <2> QED
      BY <1>8, <2>1, <2>2
  <1> QED
    BY <1>9, <1>10

\* What a load leaves is what was resident without the evicted, and the layer.
LEMMA LoadChangesSet ==
  ASSUME Table, NEW l \in Layers, Load(l)
  PROVE  /\ Evicted \in SUBSET ResidentSet
         /\ ResidentSet' = (ResidentSet \ Evicted) \cup {l}
         /\ l \notin ResidentSet
  <1> DEFINE n == Len(resident)
             e == NumEvicted
  <1>1. n \in Nat /\ e \in 0 .. n /\ n - e <= count - 1 /\ count \in Nat \ {0}
    BY CountIsPositive DEF NumEvicted, Table
  <1>2. /\ Kept \in Seq(Layers) /\ Len(Kept) = n - e
        /\ \A i \in 1 .. n - e : Kept[i] = resident[i + e]
    BY <1>1 DEF Kept, Table
  <1>3. resident' = Append(Kept, l) /\ l \notin ResidentSet
    BY DEF Load
  <1>4. ResidentSet = {resident[i] : i \in 1 .. n}
    BY DEF ResidentSet, Table
  <1>5. Evicted = {resident[i] : i \in 1 .. e}
    BY DEF Evicted
  <1> HIDE DEF e
  <1>6. /\ DOMAIN resident' = 1 .. n - e + 1
        /\ \A i \in 1 .. n - e : resident'[i] = resident[i + e]
        /\ resident'[n - e + 1] = l
    BY <1>1, <1>2, <1>3
  <1>7. Evicted \in SUBSET ResidentSet
    <2>1. \A i \in 1 .. e : i \in 1 .. n
      BY <1>1
    <2> QED
      BY <1>4, <1>5, <2>1
  <1>8. ASSUME NEW x \in ResidentSet' PROVE x \in (ResidentSet \ Evicted) \cup {l}
    <2>1. PICK i \in 1 .. n - e + 1 : x = resident'[i]
      BY <1>6, <1>8 DEF ResidentSet
    <2>2. CASE i = n - e + 1
      BY <1>6, <2>1, <2>2
    <2>3. CASE i # n - e + 1
      <3>1. i \in 1 .. n - e /\ i + e \in 1 .. n
        BY <1>1, <2>3
      <3>2. x = resident[i + e]
        BY <1>6, <2>1, <3>1
      <3>3. ASSUME NEW j \in 1 .. e PROVE resident[j] # x
        <4>1. j \in 1 .. n /\ j # i + e
          BY <1>1, <3>1
        <4> QED
          BY <3>1, <3>2, <4>1 DEF Table, Distinct
      <3> QED
        BY <1>4, <1>5, <3>1, <3>2, <3>3
    <2> QED
      BY <2>2, <2>3
  <1>9. ASSUME NEW x \in ResidentSet, x \notin Evicted PROVE x \in ResidentSet'
    <2>1. PICK i \in 1 .. n : x = resident[i]
      BY <1>4
    <2>2. i > e
      <3>1. i \notin 1 .. e
        BY <1>5, <1>9, <2>1
      <3> QED
        BY <1>1, <3>1
    <2>3. i - e \in 1 .. n - e /\ i - e \in 1 .. n - e + 1 /\ (i - e) + e = i
      BY <1>1, <2>2
    <2>4. resident'[i - e] = x
      BY <1>6, <2>1, <2>3
    <2> QED
      BY <1>6, <2>3, <2>4 DEF ResidentSet
  <1>10. l \in ResidentSet'
    <2>1. n - e + 1 \in 1 .. n - e + 1
      BY <1>1
    <2> QED
      BY <1>6, <2>1 DEF ResidentSet
  <1> QED
    BY <1>3, <1>7, <1>8, <1>9, <1>10

LEMMA LoadKeepsAccount == ASSUME Account, NEW l \in Layers, Load(l) PROVE Account'
  <1> DEFINE R == ResidentSet
             E == Evicted
             K == R \ E
             h == LayerBytes[l]
  <1>1. Table /\ Table' /\ count' = count
    BY LoadKeepsTable DEF Account, Load
  <1>2. E \in SUBSET R /\ R' = K \cup {l} /\ l \notin R
    BY <1>1, LoadChangesSet
  <1>3. R \in SUBSET Layers /\ K \in SUBSET Layers /\ R' \in SUBSET Layers
    <2>1. R \in SUBSET Layers
      BY <1>1 DEF ResidentSet, Table
    <2> QED
      BY <1>2, <2>1
  <1>4. Bytes(R) = Bytes(E) + Bytes(K)
    BY <1>2, <1>3, BytesOfParts
  <1>5. Bytes(R') = h + Bytes(K)
    <2>1. l \in R' /\ R' \ {l} = K
      BY <1>2
    <2> QED
      BY <1>3, <2>1, BytesWithout
  <1>6. /\ Bytes(E) \in Nat /\ Bytes(K) \in Nat /\ h \in Nat /\ SharedBytes \in Nat
    BY <1>2, <1>3, BytesRecursion, StreamerAssumption DEF Layers
  <1>7. Bytes(R') <= count * Heaviest /\ count * Heaviest \in Nat
    <2>1. Bytes(R') <= count' * Heaviest
      <3>1. count' \in Nat /\ resident' \in Seq(Layers) /\ Len(resident') <= count'
        BY <1>1, StreamerAssumption DEF Table
      <3>2. Bytes({resident'[i] : i \in DOMAIN resident'}) <= count' * Heaviest
        BY <3>1, ResidentBytes
      <3> QED
        BY <3>2 DEF ResidentSet
    <2>2. count \in Nat /\ Heaviest \in Nat
      BY <1>1, CountIsPositive, HeaviestIs
    <2> QED
      BY <1>1, <2>1, <2>2
  <1>8. /\ current' = current - Bytes(E) + h
        /\ peak' = IF current' > peak THEN current' ELSE peak
    BY DEF Load
  <1>9. /\ current = SharedBytes + Bytes(R)
        /\ peak \in Nat /\ current <= peak /\ peak <= SharedBytes + count * Heaviest
    BY DEF Account
  <1> DEFINE v == count * Heaviest
             be == Bytes(E)
             bk == Bytes(K)
             bn == Bytes(R')
  <1> HIDE DEF v, be, bk, bn, h
  <1>10. be \in Nat /\ bk \in Nat /\ v \in Nat /\ h \in Nat /\ bn = h + bk /\ bn <= v
    BY <1>5, <1>6, <1>7 DEF v, be, bk, bn
  <1>11. current = SharedBytes + (be + bk) /\ current' = current - be + h /\ peak <= SharedBytes + v
    BY <1>4, <1>8, <1>9 DEF be, bk, v
  <1>12. current' = SharedBytes + bn
    BY <1>6, <1>10, <1>11
  <1>13. peak' \in Nat /\ current' <= peak' /\ peak' <= SharedBytes + v
    BY <1>6, <1>8, <1>9, <1>10, <1>11, <1>12
  <1> QED
    BY <1>1, <1>12, <1>13 DEF Account, bn, v

LEMMA TouchKeepsAccount == ASSUME Account, NEW l \in Layers, Touch(l) PROVE Account'
  <1>1. Table' /\ ResidentSet' = ResidentSet /\ UNCHANGED <<count, current, peak>>
    BY TouchKeepsTable, TouchKeepsSet DEF Account, Touch
  <1> QED
    BY <1>1 DEF Account

LEMMA StreamerInitAccount == StreamerInit => Account
  <1> SUFFICES ASSUME StreamerInit PROVE Account
    OBVIOUS
  <1>1. Table /\ current = SharedBytes /\ peak = SharedBytes /\ ResidentSet = {}
    BY StreamerInitTable DEF StreamerInit, ResidentSet
  <1>2. Bytes({}) = 0 /\ SharedBytes \in Nat
    BY BytesRecursion, StreamerAssumption
  <1>3. count * Heaviest \in Nat
    BY <1>1, CountIsPositive, HeaviestIs
  <1> QED
    BY <1>1, <1>2, <1>3 DEF Account

LEMMA AccountMeansExact == Account => AccountingExact
  BY DEF Account, AccountingExact, Heaviest

\* However a client takes the layers, the bytes counted are those resident.
THEOREM StreamerCountsBytes == StreamerSpec => []AccountingExact
  <1>1. Account /\ [StreamerNext]_streamer => Account'
    <2> SUFFICES ASSUME Account, [StreamerNext]_streamer PROVE Account'
      OBVIOUS
    <2>1. CASE StreamerNext
      BY <2>1, TouchKeepsAccount, LoadKeepsAccount DEF StreamerNext, AcquireLayer
    <2>2. CASE UNCHANGED streamer
      BY <2>2 DEF streamer, Account, Table, Distinct, ResidentSet
    <2> QED
      BY <2>1, <2>2
  <1> QED
    BY <1>1, StreamerInitAccount, AccountMeansExact, PTL DEF StreamerSpec

-----------------------------------------------------------------------------
(* What the layers have seen.                                              *)

EngineTypes ==
  /\ rec \in [LinearLayers -> Seq(Vocab)]
  /\ kv \in [GqaLayers -> [1 .. Cap -> Rows \cup {Zero}]]
  /\ kvLen \in Nat /\ call \in Calls
  /\ pc \in {"idle", "prefill", "step", "sample"}
  /\ layer \in Layers /\ (pc \notin {"prefill", "step"} => layer = 1)
  /\ feeding \in Seq(Vocab) /\ generated \in Seq(Vocab)

\* A cache holds the first n tokens of the text, the n-th in the last row if
\* they do not fit.
HoldsRows(l, n) ==
  \A i \in 1 .. IF n < Cap THEN n ELSE Cap :
    kv[l][i] = Row(Context[IF i < Cap THEN i ELSE n], i)

\* A pass: the layers behind it have seen the whole text, those before it the
\* text without what is fed.
LinearSeen ==
  \A l \in LinearLayers : /\ l < layer => rec[l] = Context
                          /\ ~(l < layer) => rec[l] \o feeding = Context
CachesSeen ==
  \A l \in GqaLayers : /\ l < layer => HoldsRows(l, Len(Context))
                       /\ l >= layer /\ pc = "step" => HoldsRows(l, kvLen)
Fed ==
  /\ kvLen + Len(feeding) = Len(Context)
  /\ pc = "prefill" => kvLen = 0 /\ feeding = Context
  /\ pc = "step" => Len(feeding) = 1 /\ feeding[1] = Context[Len(Context)]
Passing == LinearSeen /\ CachesSeen /\ Fed

Sampling ==
  /\ kvLen = Len(Context)
  /\ \A l \in LinearLayers : rec[l] = Context
  /\ \A l \in GqaLayers : HoldsRows(l, Len(Context))

SawInv ==
  /\ EngineTypes
  /\ pc \in {"prefill", "step"} => Passing
  /\ pc = "sample" => Sampling

LEMMA LayerKinds ==
  /\ Layers = LinearLayers \cup GqaLayers
  /\ \A l \in Layers : l \in GqaLayers <=> IsGqa(l)
  /\ \A l \in Layers : l \in LinearLayers <=> ~IsGqa(l)
  BY DEF LinearLayers, GqaLayers

LEMMA ContextType == EngineTypes => Context \in Seq(Vocab) /\ call.prompt \in Seq(Vocab)
  <1>1. ASSUME NEW p \in Seq(Vocab), NEW g \in Seq(Vocab) PROVE p \o g \in Seq(Vocab)
    OBVIOUS
  <1> QED
    BY <1>1, EngineAssumption DEF EngineTypes, Context

\* The text of one more token.
LEMMA ContextGrows ==
  ASSUME NEW S, NEW p \in Seq(S), NEW g \in Seq(S), NEW t \in S
  PROVE  /\ p \o Append(g, t) = (p \o g) \o <<t>>
         /\ Len(p \o Append(g, t)) = Len(p \o g) + 1
         /\ \A i \in 1 .. Len(p \o g) : (p \o Append(g, t))[i] = (p \o g)[i]
         /\ (p \o Append(g, t))[Len(p \o g) + 1] = t
  OBVIOUS

LEMMA EmptyJoins ==
  ASSUME NEW S, NEW p \in Seq(S)
  PROVE  <<>> \o p = p /\ p \o <<>> = p
  OBVIOUS

LEMMA StartStep ==
  ASSUME SawInv, NEW cl \in Calls, Start(cl)
  PROVE  SawInv'
  <1>1. /\ pc' = "prefill" /\ call' = cl /\ layer' = 1 /\ feeding' = cl.prompt
        /\ generated' = <<>> /\ kvLen' = 0 /\ rec' = ZeroRec /\ kv' = ZeroKv
    BY DEF Start, ResetState
  <1>2. cl.prompt \in Seq(Vocab) /\ 1 \in Layers /\ Cap \in Nat
    BY EngineAssumption, StreamerAssumption DEF Layers
  <1>3. Context' = cl.prompt
    BY <1>1, <1>2, EmptyJoins DEF Context
  <1>4. rec' \in [LinearLayers -> Seq(Vocab)]
    BY <1>1 DEF ZeroRec
  <1>5. kv' \in [GqaLayers -> [1 .. Cap -> Rows \cup {Zero}]]
    BY <1>1 DEF ZeroKv
  <1>6. EngineTypes'
    BY <1>1, <1>2, <1>4, <1>5 DEF EngineTypes
  <1>7. \A l \in LinearLayers : rec'[l] \o feeding' = Context'
    BY <1>1, <1>2, <1>3, EmptyJoins DEF ZeroRec
  <1>8. Passing'
    <2>1. \A l \in Layers : ~(l < layer')
      BY <1>1 DEF Layers
    <2>2. \A l \in LinearLayers \cup GqaLayers : ~(l < layer')
      BY <2>1, LayerKinds
    <2>3. kvLen' + Len(feeding') = Len(Context')
      BY <1>1, <1>2, <1>3
    <2> QED
      BY <1>1, <1>3, <1>7, <2>2, <2>3 DEF Passing, LinearSeen, CachesSeen, Fed
  <1> QED
    BY <1>1, <1>6, <1>8 DEF SawInv

LEMMA EmitStep ==
  ASSUME SawInv, NEW t \in Vocab, Emit(t)
  PROVE  SawInv'
  <1>1. /\ generated' = Append(generated, t) /\ feeding' = <<t>> /\ pc' \in {"idle", "step"}
        /\ UNCHANGED <<rec, kv, kvLen, call, layer>> /\ pc = "sample"
    BY DEF Emit, state
  <1>2. EngineTypes /\ Sampling /\ layer = 1
    BY <1>1 DEF SawInv, EngineTypes
  <1>3. generated \in Seq(Vocab) /\ call.prompt \in Seq(Vocab) /\ Context \in Seq(Vocab)
    BY <1>2, ContextType DEF EngineTypes
  <1>4. EngineTypes'
    BY <1>1, <1>2, <1>3 DEF EngineTypes
  <1>5. /\ Context' = Context \o <<t>> /\ Len(Context') = Len(Context) + 1
        /\ \A i \in 1 .. Len(Context) : Context'[i] = Context[i]
        /\ Context'[Len(Context) + 1] = t
    <2>1. Context' = call.prompt \o Append(generated, t)
      BY <1>1 DEF Context
    <2>2. Context = call.prompt \o generated
      BY DEF Context
    <2> DEFINE p == call.prompt
               w == p \o Append(generated, t)
               v == p \o generated
    <2>3. p \in Seq(Vocab) /\ generated \in Seq(Vocab) /\ t \in Vocab
      BY <1>3
    <2> HIDE DEF p
    <2>4. /\ w = v \o <<t>> /\ Len(w) = Len(v) + 1
          /\ \A i \in 1 .. Len(v) : w[i] = v[i]
          /\ w[Len(v) + 1] = t
      BY <2>3, ContextGrows
    <2> HIDE DEF w, v
    <2>5. Context' = w /\ Context = v
      BY <2>1, <2>2 DEF w, v, p
    <2> QED
      BY <2>4, <2>5
  <1>6. Len(Context) \in Nat /\ Cap \in Nat \ {0}
    BY <1>3, EngineAssumption
  <1>7. \A l \in GqaLayers : HoldsRows(l, kvLen)'
    <2> SUFFICES ASSUME NEW l \in GqaLayers,
                        NEW i \in 1 .. IF kvLen < Cap THEN kvLen ELSE Cap
                 PROVE  kv'[l][i] = Row(Context'[IF i < Cap THEN i ELSE kvLen], i)
      BY <1>1 DEF HoldsRows
    <2>1. kv[l][i] = Row(Context[IF i < Cap THEN i ELSE kvLen], i)
      BY <1>2 DEF Sampling, HoldsRows
    <2>2. (IF i < Cap THEN i ELSE kvLen) \in 1 .. Len(Context)
      BY <1>2, <1>6 DEF Sampling
    <2> QED
      BY <1>1, <1>5, <2>1, <2>2
  <1>8. ASSUME pc' = "step" PROVE Passing'
    <2>1. \A l \in Layers : ~(l < layer)
      BY <1>2 DEF Layers
    <2>2. \A l \in LinearLayers : rec'[l] \o feeding' = Context'
      BY <1>1, <1>2, <1>5 DEF Sampling
    <2>3. kvLen' + Len(feeding') = Len(Context')
      BY <1>1, <1>2, <1>5, <1>6 DEF Sampling
    <2>4. Len(feeding') = 1 /\ feeding'[1] = Context'[Len(Context')]
      BY <1>1, <1>5
    <2> QED
      BY <1>1, <1>7, <1>8, <2>1, <2>2, <2>3, <2>4, LayerKinds DEF Passing, LinearSeen, CachesSeen, Fed
  <1> QED
    BY <1>1, <1>4, <1>8 DEF SawInv

\* Rows that are written are rows.
LEMMA WrittenType ==
  ASSUME EngineTypes, NEW l \in GqaLayers, pc = "step" => feeding # <<>>
  PROVE  Written(l) \in [1 .. Cap -> Rows \cup {Zero}]
  <1>1. /\ kv[l] \in [1 .. Cap -> Rows \cup {Zero}] /\ feeding \in Seq(Vocab)
        /\ kvLen \in Nat /\ Cap \in Nat \ {0}
    BY EngineAssumption DEF EngineTypes
  <1>2. \A t \in Vocab, i \in 1 .. Cap : Row(t, i) \in Rows
    BY DEF Row, Rows
  <1>3. CASE pc = "step"
    <2>1. StepRow \in 1 .. Cap /\ feeding[1] \in Vocab
      BY <1>1, <1>3 DEF StepRow
    <2>2. Row(feeding[1], StepRow) \in Rows
      BY <1>2, <2>1
    <2> QED
      BY <1>1, <1>3, <2>2 DEF Written
  <1>4. CASE pc # "step"
    <2>1. \A i \in 1 .. Cap : i <= Len(feeding) => Row(feeding[i], i) \in Rows
      <3> SUFFICES ASSUME NEW i \in 1 .. Cap, i <= Len(feeding) PROVE feeding[i] \in Vocab
        BY <1>2
      <3> QED
        BY <1>1
    <2> QED
      BY <1>1, <1>4, <2>1 DEF Written
  <1> QED
    BY <1>3, <1>4

\* A row more in a cache that holds the text so far, full or not.
LEMMA RowsAdvance ==
  ASSUME EngineTypes, Passing, pc \in {"prefill", "step"}, NEW l \in GqaLayers, l >= layer,
         pc = "prefill" => Len(feeding) <= Cap,
         NEW i \in 1 .. IF Len(Context) < Cap THEN Len(Context) ELSE Cap
  PROVE  Written(l)[i] = Row(Context[IF i < Cap THEN i ELSE Len(Context)], i)
  <1>1. /\ kv[l] \in [1 .. Cap -> Rows \cup {Zero}] /\ feeding \in Seq(Vocab)
        /\ kvLen \in Nat /\ Cap \in Nat \ {0}
    BY EngineAssumption DEF EngineTypes
  <1>2. Len(Context) \in Nat /\ Len(feeding) \in Nat /\ kvLen + Len(feeding) = Len(Context)
    BY <1>1, ContextType DEF Passing, LinearSeen, CachesSeen, Fed
  <1>3. CASE pc = "step"
    <2>1. /\ Len(Context) = kvLen + 1 /\ feeding[1] = Context[Len(Context)]
          /\ HoldsRows(l, kvLen)
      BY <1>1, <1>2, <1>3 DEF Passing, LinearSeen, CachesSeen, Fed
    <2>2. StepRow \in 1 .. Cap /\ Written(l) = [kv[l] EXCEPT ![StepRow] = Row(feeding[1], StepRow)]
      BY <1>1, <1>3 DEF Written, StepRow
    <2>3. i \in 1 .. Cap
      BY <1>1, <1>2
    <2>4. CASE i = StepRow
      <3>1. Written(l)[i] = Row(Context[Len(Context)], i)
        BY <1>1, <2>1, <2>2, <2>4
      <3>2. (IF i < Cap THEN i ELSE Len(Context)) = Len(Context)
        BY <1>1, <2>1, <2>4 DEF StepRow
      <3> QED
        BY <3>1, <3>2
    <2>5. CASE i # StepRow
      <3>1. Written(l)[i] = kv[l][i]
        BY <1>1, <2>2, <2>3, <2>5
      <3>2. i < Cap /\ i \in 1 .. IF kvLen < Cap THEN kvLen ELSE Cap
        BY <1>1, <2>1, <2>5 DEF StepRow
      <3>3. kv[l][i] = Row(Context[i], i)
        BY <2>1, <3>2 DEF HoldsRows
      <3> QED
        BY <3>1, <3>2, <3>3
    <2> QED
      BY <2>4, <2>5
  <1>4. CASE pc = "prefill"
    <2>1. feeding = Context /\ Len(Context) <= Cap
      BY <1>4 DEF Passing, LinearSeen, CachesSeen, Fed
    <2>2. i \in 1 .. Cap /\ i <= Len(Context)
      BY <1>1, <1>2, <2>1
    <2>3. Written(l)[i] = Row(Context[i], i)
      BY <1>4, <2>1, <2>2 DEF Written
    <2>4. (IF i < Cap THEN i ELSE Len(Context)) = i
      BY <1>1, <1>2, <2>1, <2>2
    <2> QED
      BY <2>3, <2>4
  <1> QED
    BY <1>3, <1>4

\* One layer of a pass: that layer sees the whole text, the others stay.
LEMMA LayerSees ==
  ASSUME EngineTypes, Passing, RunLayer
  PROVE  /\ \A l \in LinearLayers : rec'[l] = IF l = layer THEN Context ELSE rec[l]
         /\ \A l \in GqaLayers : l # layer => kv'[l] = kv[l]
         /\ \A l \in GqaLayers : l = layer =>
              \A i \in 1 .. IF Len(Context) < Cap THEN Len(Context) ELSE Cap :
                kv'[l][i] = Row(Context[IF i < Cap THEN i ELSE Len(Context)], i)
         /\ rec' \in [LinearLayers -> Seq(Vocab)]
         /\ kv' \in [GqaLayers -> [1 .. Cap -> Rows \cup {Zero}]]
  <1>1. /\ pc \in {"prefill", "step"} /\ layer \in Layers
        /\ rec \in [LinearLayers -> Seq(Vocab)]
        /\ kv \in [GqaLayers -> [1 .. Cap -> Rows \cup {Zero}]]
        /\ Context \in Seq(Vocab)
    BY ContextType DEF RunLayer, EngineTypes
  <1>2. ~(layer < layer) /\ layer >= layer
    BY <1>1 DEF Layers
  <1>3. CASE IsGqa(layer)
    <2>1. layer \in GqaLayers /\ layer \notin LinearLayers
      BY <1>1, <1>3, LayerKinds
    <2>2. /\ rec' = rec /\ kv' = [kv EXCEPT ![layer] = Written(layer)]
          /\ pc = "prefill" => Len(feeding) <= Cap
      BY <1>3 DEF RunLayer, CacheRows
    <2>3. pc = "step" => feeding # <<>>
      BY DEF Passing, LinearSeen, CachesSeen, Fed
    <2>4. Written(layer) \in [1 .. Cap -> Rows \cup {Zero}]
      BY <2>1, <2>3, WrittenType
    <2>5. kv' \in [GqaLayers -> [1 .. Cap -> Rows \cup {Zero}]]
      BY <1>1, <2>2, <2>4
    <2>6. \A i \in 1 .. IF Len(Context) < Cap THEN Len(Context) ELSE Cap :
            Written(layer)[i] = Row(Context[IF i < Cap THEN i ELSE Len(Context)], i)
      BY <1>1, <1>2, <2>1, <2>2, RowsAdvance
    <2>7. kv'[layer] = Written(layer) /\ \A l \in GqaLayers : l # layer => kv'[l] = kv[l]
      BY <1>1, <2>1, <2>2
    <2> QED
      BY <1>1, <2>1, <2>2, <2>5, <2>6, <2>7
  <1>4. CASE ~IsGqa(layer)
    <2>1. layer \notin GqaLayers /\ layer \in LinearLayers
      BY <1>1, <1>4, LayerKinds
    <2>2. kv' = kv /\ rec' = [rec EXCEPT ![layer] = rec[layer] \o feeding]
      BY <1>4 DEF RunLayer, FoldIn
    <2>3. rec[layer] \o feeding = Context
      BY <1>2, <2>1 DEF Passing, LinearSeen, CachesSeen, Fed
    <2>4. rec' = [rec EXCEPT ![layer] = Context]
      BY <2>2, <2>3
    <2> QED
      BY <1>1, <2>1, <2>2, <2>4
  <1> QED
    BY <1>3, <1>4

LEMMA RunLayerStep ==
  ASSUME SawInv, RunLayer
  PROVE  SawInv'
  <1>1. /\ pc \in {"prefill", "step"} /\ UNCHANGED <<call, feeding, generated>> /\ Advance
        /\ EngineTypes /\ Passing
    BY DEF RunLayer, SawInv
  <1>2. /\ Context' = Context /\ layer \in 1 .. NumLayers /\ NumLayers \in Nat
        /\ Len(Context) \in Nat /\ kvLen \in Nat /\ feeding \in Seq(Vocab)
    BY <1>1, ContextType, StreamerAssumption DEF Context, EngineTypes, Layers
  <1>3. rec' \in [LinearLayers -> Seq(Vocab)] /\ kv' \in [GqaLayers -> [1 .. Cap -> Rows \cup {Zero}]]
    BY <1>1, LayerSees
  <1>4. \A l \in LinearLayers : l <= layer => rec'[l] = Context
    <2>1. \A l \in LinearLayers : l \in 1 .. NumLayers
      BY LayerKinds DEF Layers
    <2>2. \A l \in LinearLayers : l < layer => rec[l] = Context
      BY <1>1 DEF Passing, LinearSeen, CachesSeen, Fed
    <2>3. \A l \in LinearLayers : rec'[l] = IF l = layer THEN Context ELSE rec[l]
      BY <1>1, LayerSees
    <2> QED
      BY <1>2, <2>1, <2>2, <2>3
  <1>5. \A l \in GqaLayers : l <= layer =>
          \A i \in 1 .. IF Len(Context) < Cap THEN Len(Context) ELSE Cap :
            kv'[l][i] = Row(Context[IF i < Cap THEN i ELSE Len(Context)], i)
    <2> SUFFICES ASSUME NEW l \in GqaLayers, l <= layer,
                        NEW i \in 1 .. IF Len(Context) < Cap THEN Len(Context) ELSE Cap
                 PROVE  kv'[l][i] = Row(Context[IF i < Cap THEN i ELSE Len(Context)], i)
      OBVIOUS
    <2>1. CASE l = layer
      BY <1>1, <2>1, LayerSees
    <2>2. CASE l # layer
      <3>1. l \in 1 .. NumLayers
        BY LayerKinds DEF Layers
      <3>2. l < layer
        BY <1>2, <2>2, <3>1
      <3>3. HoldsRows(l, Len(Context)) /\ kv'[l] = kv[l]
        BY <1>1, <2>2, <3>2, LayerSees DEF Passing, LinearSeen, CachesSeen, Fed
      <3> QED
        BY <3>3 DEF HoldsRows
    <2> QED
      BY <2>1, <2>2
  <1>6. CASE layer < NumLayers
    <2>1. layer' = layer + 1 /\ UNCHANGED <<pc, kvLen>>
      BY <1>1, <1>6 DEF Advance
    <2>2. EngineTypes'
      BY <1>1, <1>2, <1>3, <1>6, <2>1 DEF EngineTypes, Layers
    <2>3. \A l \in LinearLayers \cup GqaLayers : l \in 1 .. NumLayers /\ (l < layer' <=> l <= layer)
      <3>1. \A l \in LinearLayers \cup GqaLayers : l \in 1 .. NumLayers
        BY LayerKinds DEF Layers
      <3> QED
        BY <1>2, <2>1, <3>1
    <2>4. LinearSeen'
      <3>1. \A l \in LinearLayers : ~(l < layer') => ~(l < layer) /\ l # layer
        BY <1>2, <2>3
      <3>2. \A l \in LinearLayers : ~(l < layer) => rec[l] \o feeding = Context
        BY <1>1 DEF Passing, LinearSeen, CachesSeen, Fed
      <3>3. \A l \in LinearLayers : l # layer => rec'[l] = rec[l]
        BY <1>1, LayerSees
      <3> QED
        BY <1>1, <1>2, <1>4, <2>3, <3>1, <3>2, <3>3 DEF LinearSeen
    <2>5. CachesSeen'
      <3> SUFFICES ASSUME NEW l \in GqaLayers
                   PROVE  (/\ l < layer => HoldsRows(l, Len(Context))
                           /\ l >= layer /\ pc = "step" => HoldsRows(l, kvLen))'
        BY DEF CachesSeen
      <3>1. ASSUME l < layer' PROVE HoldsRows(l, Len(Context))'
        BY <1>2, <1>5, <2>3, <3>1 DEF HoldsRows
      <3>2. ASSUME l >= layer', pc' = "step" PROVE HoldsRows(l, kvLen)'
        <4>1. l # layer /\ l >= layer
          BY <1>2, <2>1, <2>3, <3>2
        <4>2. kv'[l] = kv[l] /\ HoldsRows(l, kvLen)
          BY <1>1, <2>1, <3>2, <4>1, LayerSees DEF Passing, LinearSeen, CachesSeen, Fed
        <4> QED
          BY <1>2, <2>1, <4>2 DEF HoldsRows
      <3> QED
        BY <3>1, <3>2
    <2>6. Passing'
      <3>1. Fed'
        BY <1>1, <1>2, <2>1 DEF Passing, Fed
      <3> QED
        BY <2>4, <2>5, <3>1 DEF Passing
    <2> QED
      BY <1>1, <2>1, <2>2, <2>6 DEF SawInv
  <1>7. CASE ~(layer < NumLayers)
    <2>1. layer = NumLayers /\ layer' = 1 /\ kvLen' = kvLen + Len(feeding) /\ pc' = AfterPass
      BY <1>1, <1>2, <1>7 DEF Advance
    <2>2. kvLen' = Len(Context') /\ pc' \in {"sample", "idle"}
      BY <1>1, <1>2, <2>1 DEF Passing, LinearSeen, CachesSeen, Fed, AfterPass
    <2>3. EngineTypes'
      BY <1>1, <1>2, <1>3, <2>1, <2>2 DEF EngineTypes, Layers
    <2>4. \A l \in LinearLayers \cup GqaLayers : l <= layer
      <3>1. \A l \in LinearLayers \cup GqaLayers : l \in 1 .. NumLayers
        BY LayerKinds DEF Layers
      <3> QED
        BY <2>1, <3>1
    <2>5. \A l \in GqaLayers : HoldsRows(l, Len(Context))'
      BY <1>2, <1>5, <2>4 DEF HoldsRows
    <2>6. Sampling'
      BY <1>2, <1>4, <2>2, <2>4, <2>5 DEF Sampling
    <2> QED
      BY <2>2, <2>3, <2>6 DEF SawInv
  <1> QED
    BY <1>6, <1>7

LEMMA PrefillOverflowsStep == ASSUME SawInv, PrefillOverflows PROVE SawInv'
  <1>1. /\ pc = "prefill" /\ pc' = "idle" /\ layer' = 1
        /\ UNCHANGED <<kvLen, call, feeding, generated, rec>>
        /\ kv' = [kv EXCEPT ![layer] = Written(layer)] /\ IsGqa(layer)
    BY DEF PrefillOverflows, CacheRows
  <1>2. EngineTypes
    BY DEF SawInv
  <1>3. Written(layer) \in [1 .. Cap -> Rows \cup {Zero}]
    BY <1>1, <1>2, LayerKinds, WrittenType DEF EngineTypes
  <1>4. kv' \in [GqaLayers -> [1 .. Cap -> Rows \cup {Zero}]] /\ 1 \in Layers
    <2>1. kv \in [GqaLayers -> [1 .. Cap -> Rows \cup {Zero}]]
      BY <1>2 DEF EngineTypes
    <2>2. kv' \in [GqaLayers -> [1 .. Cap -> Rows \cup {Zero}]]
      BY <1>1, <1>3, <2>1
    <2>3. 1 \in Layers
      BY StreamerAssumption DEF Layers
    <2> QED
      BY <2>2, <2>3
  <1>5. EngineTypes'
    BY <1>1, <1>2, <1>4 DEF EngineTypes
  <1> QED
    BY <1>1, <1>5 DEF SawInv

\* Nothing that a step to a place outside passes can disturb.
LEMMA AbandonStep == ASSUME SawInv, Abandon PROVE SawInv'
  <1>1. /\ pc' = "idle" /\ layer = 1 /\ UNCHANGED <<rec, kv, kvLen, call, layer, feeding, generated>>
    BY DEF Abandon, state
  <1>2. EngineTypes'
    BY <1>1 DEF SawInv, EngineTypes
  <1> QED
    BY <1>1, <1>2 DEF SawInv

LEMMA SawInit == Init => SawInv
  <1> SUFFICES ASSUME Init PROVE SawInv
    OBVIOUS
  <1>1. 1 \in Layers
    BY StreamerAssumption DEF Layers
  <1>2. EngineTypes
    BY <1>1 DEF Init, EngineTypes, ZeroRec, ZeroKv
  <1> QED
    BY <1>2 DEF Init, SawInv

LEMMA SawStep == SawInv /\ [Next]_vars => SawInv'
  <1> SUFFICES ASSUME SawInv, [Next]_vars PROVE SawInv'
    OBVIOUS
  <1>1. CASE UNCHANGED vars
    <2>1. UNCHANGED <<rec, kv, kvLen, call, pc, layer, feeding, generated>>
      BY <1>1 DEF vars, state
    <2>2. Context' = Context /\ EngineTypes'
      BY <2>1 DEF Context, SawInv, EngineTypes
    <2>4. Sampling => Sampling'
      <3>1. ASSUME NEW l, HoldsRows(l, Len(Context)) PROVE HoldsRows(l, Len(Context))'
        BY <3>1, <2>1, <2>2 DEF HoldsRows
      <3> QED
        BY <3>1, <2>1, <2>2 DEF Sampling
    <2>5. LinearSeen /\ Fed => LinearSeen' /\ Fed'
      BY <2>1, <2>2 DEF LinearSeen, Fed
    <2>6. CachesSeen => CachesSeen'
      <3>1. ASSUME NEW l, HoldsRows(l, Len(Context)) PROVE HoldsRows(l, Len(Context))'
        BY <3>1, <2>1, <2>2 DEF HoldsRows
      <3>2. ASSUME NEW l, HoldsRows(l, kvLen) PROVE HoldsRows(l, kvLen)'
        BY <3>2, <2>1, <2>2 DEF HoldsRows
      <3> QED
        BY <3>1, <3>2, <2>1, <2>2 DEF CachesSeen
    <2> QED
      BY <2>1, <2>2, <2>4, <2>5, <2>6 DEF SawInv, Passing
  <1> QED
    BY <1>1, StartStep, RunLayerStep, PrefillOverflowsStep, EmitStep, AbandonStep DEF Next, Sample, Stop

\* The inductive invariant: how far each layer is, at each place of a pass.
THEOREM SawInvariant == Spec => []SawInv
  BY SawInit, SawStep, PTL DEF Spec

\* The recurrent states a token is sampled from have folded in the whole text,
\* each token once and in order: for any layers, drafts, failures and streams
\* that are dropped.
THEOREM RecurrentStatesAreExact == Spec => []RecurrentSawContext
  <1>1. SawInv => RecurrentSawContext
    BY DEF SawInv, Sampling, RecurrentSawContext
  <1> QED
    BY <1>1, SawInvariant, PTL

\* The caches it is sampled from hold the whole text as far as they reach, and
\* an overrun has cost their last row only.
THEOREM CachesAreExact == Spec => []AttentionSawContext
  <1>1. SawInv => AttentionSawContext
    <2> SUFFICES ASSUME SawInv, pc = "sample" PROVE AttentionSawContext
      BY DEF AttentionSawContext
    <2>1. Sampling /\ Len(Context) \in Nat /\ Cap \in Nat
      BY ContextType, EngineAssumption DEF SawInv
    <2>2. \A i \in 1 .. NumRows(Context) :
            RowsOf(Context)[i] = Row(Context[IF i < Cap THEN i ELSE Len(Context)], i)
      BY DEF RowsOf
    <2> QED
      BY <2>1, <2>2 DEF Sampling, HoldsRows, NumRows, AttentionSawContext
  <1> QED
    BY <1>1, SawInvariant, PTL

\* The engine stays within its resident layers.
THEOREM EngineBounded == Spec => []ResidencyBudget
  <1>1. Init => Table
    BY StreamerInitTable DEF Init
  <1>2. Table /\ EngineTypes /\ [Next]_vars => Table'
    <2> SUFFICES ASSUME Table, EngineTypes, [Next]_vars PROVE Table'
      OBVIOUS
    <2>1. ASSUME AcquireLayer(layer) PROVE Table'
      BY <2>1, TouchKeepsTable, LoadKeepsTable DEF AcquireLayer, EngineTypes
    <2>2. ASSUME UNCHANGED streamer PROVE Table'
      BY <2>2 DEF streamer, Table, Distinct
    <2> QED
      BY <2>1, <2>2 DEF Next, Start, RunLayer, PrefillOverflows, Sample, Emit, Abandon, Stop, vars
  <1>3. SawInv => EngineTypes
    BY DEF SawInv
  <1> QED
    BY <1>1, <1>2, <1>3, SawInvariant, TableMeansBudget, PTL DEF Spec

LEMMA AccountStep == Account /\ EngineTypes /\ [Next]_vars => Account'
  <1> SUFFICES ASSUME Account, EngineTypes, [Next]_vars PROVE Account'
    OBVIOUS
  <1>1. ASSUME AcquireLayer(layer) PROVE Account'
    BY <1>1, TouchKeepsAccount, LoadKeepsAccount DEF AcquireLayer, EngineTypes
  <1>2. ASSUME UNCHANGED streamer PROVE Account'
    BY <1>2 DEF streamer, Account, Table, Distinct, ResidentSet
  <1> QED
    BY <1>1, <1>2 DEF Next, Start, RunLayer, PrefillOverflows, Sample, Emit, Abandon, Stop, vars

\* The byte count stays exact while the engine streams layers.
THEOREM EngineCountsBytes == Spec => []AccountingExact
  <1>1. Init => Account
    BY StreamerInitAccount DEF Init
  <1>2. Account /\ EngineTypes /\ [Next]_vars => Account'
    BY AccountStep
  <1>3. SawInv => EngineTypes
    BY DEF SawInv
  <1> QED
    BY <1>1, <1>2, <1>3, SawInvariant, AccountMeansExact, PTL DEF Spec

-----------------------------------------------------------------------------
(* What is streamed.                                                       *)

\* A draft never exceeds the room left, so that there is room for whatever
\* comes of a pass; while a stream goes on, no stop token has been emitted.
Streaming ==
  /\ served \in Nat /\ draft \in Seq(Vocab)
  /\ Len(generated) <= call.maxTokens /\ Len(draft) <= Room
  /\ \A i \in 1 .. Len(generated) - 1 : generated[i] \notin StopTokens
  /\ pc = "prefill" => generated = <<>> /\ draft = <<>>
  /\ pc = "sample" => Room > 0
  /\ pc \in {"step", "sample"} =>
       \A i \in 1 .. Len(generated) : generated[i] \notin StopTokens

LEMMA RoomIs ==
  ASSUME EngineTypes, Len(generated) <= call.maxTokens
  PROVE  /\ Len(generated) \in Nat /\ call.maxTokens \in Nat
         /\ Room = call.maxTokens - Len(generated) /\ Room \in Nat
  <1>1. Len(generated) \in Nat /\ call.maxTokens \in Nat
    BY EngineAssumption DEF EngineTypes
  <1> QED
    BY <1>1 DEF Room

LEMMA CandidatesFit ==
  ASSUME EngineTypes, Streaming
  PROVE  Candidates \in Seq(Vocab) /\ Len(Candidates) \in Nat /\ Len(Candidates) <= Room
  <1>1. Room \in Nat
    BY RoomIs DEF Streaming
  <1>2. CASE draft # <<>>
    BY <1>2 DEF Candidates, Streaming
  <1>3. CASE draft = <<>> /\ call.speculate /\ Room > 1
    <2> DEFINE p == Propose(Context)
    <2>1. Context \in Seq(Vocab)
      BY ContextType
    <2>2. p \in Seq(Vocab)
      BY <2>1, ProposeFollowsLatestMatch
    <2>3. Candidates = Clipped(p, Room)
      BY <1>3 DEF Candidates
    <2> HIDE DEF p
    <2>4. Len(p) \in Nat
      BY <2>2
    <2>5. Clipped(p, Room) \in Seq(Vocab)
      BY <1>1, <2>2, ClippedIs
    <2>6. Len(Clipped(p, Room)) = IF Len(p) <= Room THEN Len(p) ELSE Room
      BY <1>1, <2>2, ClippedIs
    <2> QED
      BY <1>1, <2>3, <2>4, <2>5, <2>6
  <1>4. CASE draft = <<>> /\ ~(call.speculate /\ Room > 1)
    <2>1. Candidates = <<>>
      BY <1>4 DEF Candidates
    <2> QED
      BY <1>1, <2>1
  <1> QED
    BY <1>2, <1>3, <1>4

\* One more token, and what is left of the draft.
LEMMA EmitStreams ==
  ASSUME EngineTypes, Streaming, NEW t \in Vocab, Emit(t)
  PROVE  Streaming'
  <1> DEFINE n == Len(generated)
             m == call.maxTokens
             cand == Candidates
  <1>1. /\ pc = "sample" /\ generated' = Append(generated, t)
        /\ draft' = IF cand # <<>> /\ Head(cand) = t /\ t \notin StopTokens THEN Tail(cand) ELSE <<>>
        /\ pc' = IF t \in StopTokens \/ (cand = <<>> /\ Room = 1) THEN "idle" ELSE "step"
        /\ call' = call /\ served' = served
    BY DEF Emit
  <1>2. n \in Nat /\ m \in Nat /\ Room = m - n /\ Room > 0 /\ generated \in Seq(Vocab)
    BY <1>1, RoomIs DEF Streaming, EngineTypes
  <1>3. cand \in Seq(Vocab) /\ Len(cand) \in Nat /\ Len(cand) <= Room
    BY CandidatesFit
  <1> HIDE DEF cand
  <1>4. Len(generated') = n + 1 /\ (\A i \in 1 .. n : generated'[i] = generated[i]) /\ generated'[n + 1] = t
    BY <1>1, <1>2
  <1>5. \A i \in 1 .. n : generated[i] \notin StopTokens
    BY <1>1 DEF Streaming
  <1>6. draft' \in Seq(Vocab) /\ (draft' = <<>> \/ Len(draft') = Len(cand) - 1)
    <2>1. CASE cand # <<>> /\ Head(cand) = t /\ t \notin StopTokens
      <3>1. draft' = Tail(cand)
        BY <1>1, <2>1
      <3>2. Tail(cand) \in Seq(Vocab) /\ Len(Tail(cand)) = Len(cand) - 1
        BY <1>3, <2>1
      <3> QED
        BY <3>1, <3>2
    <2>2. CASE ~(cand # <<>> /\ Head(cand) = t /\ t \notin StopTokens)
      <3>1. draft' = <<>>
        BY <1>1, <2>2
      <3> QED
        BY <3>1
    <2> QED
      BY <2>1, <2>2
  <1>7. Len(generated') <= call'.maxTokens /\ Len(draft') <= Room'
    <2>1. Room' = m - (n + 1)
      BY <1>1, <1>4 DEF Room
    <2>2. Len(<<>>) = 0
      OBVIOUS
    <2>3. n + 1 <= m
      BY <1>2
    <2>4. Len(draft') <= m - (n + 1)
      <3>1. CASE draft' = <<>>
        <4> HIDE DEF n, m
        <4> QED
          BY <1>2, <2>2, <2>3, <3>1
      <3>2. CASE Len(draft') = Len(cand) - 1
        <4> HIDE DEF n, m
        <4> QED
          BY <1>2, <1>3, <3>2
      <3> QED
        BY <1>6, <3>1, <3>2
    <2> QED
      BY <1>1, <1>4, <2>1, <2>3, <2>4
  <1>8. \A i \in 1 .. Len(generated') - 1 : generated'[i] \notin StopTokens
    BY <1>2, <1>4, <1>5
  <1>9. pc' \in {"step", "sample"} => \A i \in 1 .. Len(generated') : generated'[i] \notin StopTokens
    <2>1. ASSUME pc' \in {"step", "sample"}, NEW i \in 1 .. n + 1 PROVE generated'[i] \notin StopTokens
      <3>1. t \notin StopTokens
        BY <1>1, <2>1
      <3>2. CASE i = n + 1
        BY <1>4, <3>1, <3>2
      <3>3. CASE i # n + 1
        <4>1. i \in 1 .. n
          <5> HIDE DEF n
          <5> QED
            BY <1>2, <3>3
        <4> QED
          BY <1>4, <1>5, <4>1
      <3> QED
        BY <3>2, <3>3
    <2> QED
      BY <1>4, <2>1
  <1>10. pc' # "prefill" /\ pc' # "sample" /\ served' \in Nat
    BY <1>1 DEF Streaming
  <1> QED
    BY <1>6, <1>7, <1>8, <1>9, <1>10 DEF Streaming

LEMMA StreamingStep == EngineTypes /\ Streaming /\ [Next]_vars => Streaming'
  <1> SUFFICES ASSUME EngineTypes, Streaming, [Next]_vars PROVE Streaming'
    OBVIOUS
  <1>0. Room \in Nat
    BY RoomIs DEF Streaming
  <1>1. ASSUME NEW cl \in Calls, Start(cl) PROVE Streaming'
    <2>1. /\ generated' = <<>> /\ draft' = <<>> /\ pc' = "prefill" /\ call' = cl
          /\ served' = served + 1
      BY <1>1 DEF Start
    <2>2. cl.maxTokens \in Nat /\ served' \in Nat
      BY <2>1, EngineAssumption DEF Streaming
    <2>3. Room' = cl.maxTokens
      <3>1. Room' = cl.maxTokens - Len(<<>>)
        BY <2>1 DEF Room
      <3> QED
        BY <2>2, <3>1
    <2>4. <<>> \in Seq(Vocab) /\ Len(<<>>) = 0
      OBVIOUS
    <2> QED
      BY <2>1, <2>2, <2>3, <2>4 DEF Streaming
  <1>2. ASSUME UNCHANGED <<call, served, generated, draft>>,
               pc' \in {"idle", "sample", pc}, pc' = "sample" /\ pc # "sample" => AfterPass = "sample",
               pc' = "sample" => pc \in {"prefill", "step", "sample"}
        PROVE  Streaming'
    <2>1. Room' = Room
      BY <1>2 DEF Room
    <2>2. pc' = "sample" => Room > 0
      <3>1. ASSUME pc' = "sample", pc # "sample" PROVE Room > 0
        <4>1. draft # <<>> \/ Room > 0
          BY <1>2, <3>1 DEF AfterPass
        <4>2. draft # <<>> => Len(draft) > 0
          BY DEF Streaming
        <4>3. Len(draft) \in Nat /\ Len(draft) <= Room
          BY DEF Streaming
        <4> QED
          BY <1>0, <4>1, <4>2, <4>3
      <3> QED
        BY <3>1 DEF Streaming
    <2>3. pc' \in {"step", "sample"} =>
            \A i \in 1 .. Len(generated') : generated'[i] \notin StopTokens
      <3>1. ASSUME pc' \in {"step", "sample"}
            PROVE  \A i \in 1 .. Len(generated) : generated[i] \notin StopTokens
        <4>1. CASE pc = "prefill"
          <5>1. Len(generated) = 0
            BY <4>1 DEF Streaming
          <5> QED
            BY <5>1
        <4>2. CASE pc \in {"step", "sample"}
          BY <4>2 DEF Streaming
        <4> QED
          BY <1>2, <3>1, <4>1, <4>2
      <3> QED
        BY <1>2, <3>1
    <2>4. pc' = "prefill" => generated' = <<>> /\ draft' = <<>>
      BY <1>2 DEF Streaming
    <2> QED
      BY <1>2, <2>1, <2>2, <2>3, <2>4 DEF Streaming
  <1>3. CASE RunLayer
    <2>1. UNCHANGED <<call, served, generated, draft>> /\ pc \in {"prefill", "step"}
      BY <1>3 DEF RunLayer
    <2>2. pc' = pc \/ pc' = AfterPass
      BY <1>3 DEF RunLayer, Advance
    <2>3. AfterPass \in {"sample", "idle"}
      BY DEF AfterPass
    <2> QED
      BY <1>2, <2>1, <2>2, <2>3
  <1>4. CASE PrefillOverflows \/ Abandon
    <2>1. UNCHANGED <<call, served, generated, draft>> /\ pc' = "idle"
      BY <1>4 DEF PrefillOverflows, Abandon
    <2> QED
      BY <1>2, <2>1
  <1>5. CASE UNCHANGED vars
    <2>1. UNCHANGED <<call, served, generated, draft>> /\ pc' = pc
      BY <1>5 DEF vars
    <2> QED
      BY <1>2, <2>1
  <1> QED
    BY <1>1, <1>3, <1>4, <1>5, EmitStreams DEF Next, Sample, Stop

LEMMA InitStreaming == Init => Streaming
  <1> SUFFICES ASSUME Init PROVE Streaming
    OBVIOUS
  <1>1. /\ generated = <<>> /\ draft = <<>> /\ pc = "idle" /\ served = 0 /\ call \in Calls
    BY DEF Init
  <1>2. call.maxTokens \in Nat
    BY <1>1, EngineAssumption
  <1>3. <<>> \in Seq(Vocab) /\ Len(<<>>) = 0
    OBVIOUS
  <1>4. Room = call.maxTokens
    <2>1. Room = call.maxTokens - Len(<<>>)
      BY <1>1 DEF Room
    <2> QED
      BY <1>2, <1>3, <2>1
  <1> QED
    BY <1>1, <1>2, <1>3, <1>4 DEF Streaming

LEMMA StreamsAlways == Spec => [](EngineTypes /\ Streaming)
  <1>1. SawInv => EngineTypes
    BY DEF SawInv
  <1> QED
    BY <1>1, SawInvariant, InitStreaming, StreamingStep, PTL DEF Spec

\* No stream has more tokens than were asked for, or goes on after a stop
\* token, for any drafts, vocabulary and calls.
THEOREM StreamsStayWithinBudget == Spec => []StreamWithinBudget
  <1>1. EngineTypes /\ Streaming => StreamWithinBudget
    BY DEF Streaming, StreamWithinBudget
  <1> QED
    BY <1>1, StreamsAlways, PTL

\* Type correctness, of the streamer, the caches and the loop.
THEOREM EngineTypeCorrect == Spec => []TypeOK
  <1>1. EngineTypes /\ Streaming /\ Account => TypeOK
    <2> SUFFICES ASSUME EngineTypes, Streaming, Account PROVE TypeOK
      OBVIOUS
    <2>1. StreamerTypeOK
      <3>1. ResidentSet \in SUBSET Layers
        BY DEF Account, Table, ResidentSet
      <3>2. Bytes(ResidentSet) \in Nat /\ SharedBytes \in Nat
        BY <3>1, BytesRecursion, StreamerAssumption
      <3> QED
        BY <3>2 DEF StreamerTypeOK, Account, Table
    <2>2. layer > 1 => pc \in {"prefill", "step"}
      BY DEF EngineTypes
    <2> QED
      BY <2>1, <2>2 DEF EngineTypes, Streaming, TypeOK
  <1>2. Init => Account
    BY StreamerInitAccount DEF Init
  <1>3. Account /\ EngineTypes /\ [Next]_vars => Account'
    BY AccountStep
  <1> QED
    BY <1>1, <1>2, <1>3, StreamsAlways, PTL DEF Spec
=============================================================================
