------------------------- MODULE CacheStack_proofs -------------------------
(***************************************************************************)
(* Proofs about the stack of KV caches: type correctness, the three safety *)
(* properties, and that the stack implements TokenLog.  First what each    *)
(* operation does to one cache, for every mode.                            *)
(***************************************************************************)
EXTENDS CacheStack, SequenceTheorems, TLAPS

\* Equality of sequences, without naming the set they are over.
LEMMA SameSequence ==
  ASSUME NEW S, NEW s \in Seq(S), NEW t \in Seq(S), Len(s) = Len(t),
         \A i \in 1 .. Len(s) : s[i] = t[i]
  PROVE  s = t
  BY SeqEqual

-----------------------------------------------------------------------------
(* The window of an out-of-core cache.                                     *)

\* The window holds the last rows of the stream, as many as fit.
LEMMA WindowOf ==
  ASSUME NEW S, NEW s \in Seq(S)
  PROVE  /\ Window(s) \in Seq(S)
         /\ Len(Window(s)) = IF Len(s) <= RamCapacity THEN Len(s) ELSE RamCapacity
         /\ \A i \in 1 .. Len(Window(s)) :
              Window(s)[i] = s[Len(s) - Len(Window(s)) + i]
  <1> DEFINE n == Len(s)
             R == RamCapacity
  <1>1. n \in Nat /\ R \in Nat /\ R > 0
    BY LenProperties, CacheAssumption
  <1>2. CASE n <= R
    BY <1>1, <1>2 DEF Window
  <1>3. CASE ~(n <= R)
    <2>1. Window(s) = SubSeq(s, n - R + 1, n)
      BY <1>3 DEF Window
    <2>2. \A i \in n - R + 1 .. n : s[i] \in S
      BY <1>1, <1>3, ElementOfSeq
    <2> DEFINE w == SubSeq(s, n - R + 1, n)
    <2>3. w \in Seq(S)
      BY <1>1, <2>2, SubSeqProperties
    <2>4. Len(w) = IF n - R + 1 <= n THEN n - (n - R + 1) + 1 ELSE 0
      BY <1>1, <2>2, SubSeqProperties
    <2>5. \A i \in 1 .. n - (n - R + 1) + 1 : w[i] = s[(n - R + 1) + i - 1]
      BY <1>1, <2>2, SubSeqProperties
    <2>6. Len(w) = R
      BY <1>1, <2>4
    <2>7. \A i \in 1 .. R : w[i] = s[n - R + i]
      BY <1>1, <2>5
    <2> HIDE DEF w
    <2>8. Window(s) = w
      BY <2>1 DEF w
    <2> QED
      BY <1>3, <2>3, <2>6, <2>7, <2>8
  <1> QED
    BY <1>2, <1>3

\* Evicting as rows arrive, or all at once, leaves the same rows in RAM.
LEMMA WindowOfWindow ==
  ASSUME NEW S, NEW s \in Seq(S), NEW r \in Seq(S)
  PROVE  Window(Window(s) \o r) = Window(s \o r)
  <1> DEFINE w == Window(s)
             n == Len(s)
             k == Len(w)
             m == Len(r)
             R == RamCapacity
  <1>1. w \in Seq(S) /\ k = (IF n <= R THEN n ELSE R)
    BY WindowOf
  <1>2. \A i \in 1 .. k : w[i] = s[n - k + i]
    BY WindowOf
  <1>3. n \in Nat /\ m \in Nat /\ R \in Nat /\ R > 0 /\ k \in Nat /\ k <= n
    <2>1. n \in Nat /\ m \in Nat /\ R \in Nat /\ R > 0
      BY LenProperties, CacheAssumption
    <2> QED
      BY <1>1, <2>1
  <1> DEFINE x == w \o r
             y == s \o r
  <1>4. /\ x \in Seq(S) /\ Len(x) = k + m
        /\ \A i \in 1 .. k + m : x[i] = IF i <= k THEN w[i] ELSE r[i - k]
    <2> HIDE DEF w
    <2> QED
      BY <1>1, ConcatProperties
  <1>5. /\ y \in Seq(S) /\ Len(y) = n + m
        /\ \A i \in 1 .. n + m : y[i] = IF i <= n THEN s[i] ELSE r[i - n]
    BY ConcatProperties
  <1>6. \A i \in 1 .. k + m : x[i] = y[n - k + i]
    <2> SUFFICES ASSUME NEW i \in 1 .. k + m PROVE x[i] = y[n - k + i]
      OBVIOUS
    <2> HIDE DEF x, y, w, n, k, m
    <2>1. n - k + i \in 1 .. n + m
      BY <1>3
    <2>2. CASE i <= k
      BY <1>2, <1>3, <1>4, <1>5, <2>1, <2>2
    <2>3. CASE i > k
      <3>1. x[i] = r[i - k]
        BY <1>3, <1>4, <2>3
      <3>2. y[n - k + i] = r[n - k + i - n]
        BY <1>3, <1>5, <2>1, <2>3
      <3>3. n - k + i - n = i - k
        BY <1>3
      <3> QED
        BY <3>1, <3>2, <3>3
    <2> QED
      BY <1>3, <2>2, <2>3
  <1> HIDE DEF x, y, w
  <1> DEFINE p == Window(x)
             q == Window(y)
  <1>7. /\ p \in Seq(S) /\ Len(p) = (IF k + m <= R THEN k + m ELSE R)
        /\ \A i \in 1 .. Len(p) : p[i] = x[k + m - Len(p) + i]
    <2>1. x \in Seq(S)
      BY <1>4
    <2>2. /\ Window(x) \in Seq(S)
          /\ Len(Window(x)) = IF Len(x) <= RamCapacity THEN Len(x) ELSE RamCapacity
          /\ \A i \in 1 .. Len(Window(x)) :
               Window(x)[i] = x[Len(x) - Len(Window(x)) + i]
      BY <2>1, WindowOf
    <2>3. Len(x) = k + m
      BY <1>4
    <2> QED
      BY <2>2, <2>3
  <1>8. /\ q \in Seq(S) /\ Len(q) = (IF n + m <= R THEN n + m ELSE R)
        /\ \A i \in 1 .. Len(q) : q[i] = y[n + m - Len(q) + i]
    <2>1. y \in Seq(S)
      BY <1>5
    <2>2. /\ Window(y) \in Seq(S)
          /\ Len(Window(y)) = IF Len(y) <= RamCapacity THEN Len(y) ELSE RamCapacity
          /\ \A i \in 1 .. Len(Window(y)) :
               Window(y)[i] = y[Len(y) - Len(Window(y)) + i]
      BY <2>1, WindowOf
    <2>3. Len(y) = n + m
      BY <1>5
    <2> QED
      BY <2>2, <2>3
  <1> HIDE DEF p, q, n, k, m
  <1>9. Len(p) = Len(q) /\ Len(p) \in Nat /\ Len(p) <= k + m
    BY <1>1, <1>3, <1>7, <1>8
  <1>10. \A i \in 1 .. Len(p) : p[i] = q[i]
    <2> SUFFICES ASSUME NEW i \in 1 .. Len(p) PROVE p[i] = q[i]
      OBVIOUS
    <2> DEFINE j == k + m - Len(p) + i
    <2>1. j \in 1 .. k + m /\ n - k + j = n + m - Len(p) + i
      BY <1>3, <1>9
    <2>2. p[i] = x[j] /\ q[i] = y[n + m - Len(p) + i]
      BY <1>7, <1>8, <1>9
    <2> QED
      BY <1>6, <2>1, <2>2
  <1>11. p = q
    BY <1>7, <1>8, <1>9, <1>10, SameSequence
  <1> QED
    BY <1>11 DEF p, q, x, y, w

-----------------------------------------------------------------------------
(* One cache.                                                              *)

LEMMA CacheFields ==
  ASSUME NEW c \in Caches
  PROVE  /\ c.buf \in Seq(Rows \cup {Unwritten}) /\ Len(c.buf) \in Nat
         /\ c.capacity \in Nat /\ c.offset \in Nat /\ c.streamed \in Nat
         /\ c.fileK \in Seq(Rows) /\ c.fileV \in Seq(Rows)
  BY LenProperties DEF Caches

\* A row of a token is never the zeros of a fresh buffer.
LEMMA RowsAreWritten == Unwritten \notin Rows
  BY CacheAssumption DEF Unwritten, Row, Rows

LEMMA NewRowsAre ==
  ASSUME NEW c \in Caches, NEW tokens \in Seq(Vocab)
  PROVE  /\ NewRows(c, tokens) \in Seq(Rows)
         /\ Len(NewRows(c, tokens)) = Len(tokens)
         /\ \A i \in 1 .. Len(tokens) :
              /\ NewRows(c, tokens)[i].tok = tokens[i]
              /\ NewRows(c, tokens)[i].pos = c.offset + i
  <1>1. c.offset \in Nat /\ Len(tokens) \in Nat
    BY CacheFields, LenProperties
  <1>2. \A i \in 1 .. Len(tokens) : Row(tokens[i], c.offset + i) \in Rows
    <2> SUFFICES ASSUME NEW i \in 1 .. Len(tokens)
                 PROVE  Row(tokens[i], c.offset + i) \in Rows
      OBVIOUS
    <2>1. tokens[i] \in Vocab
      BY ElementOfSeq
    <2>2. c.offset + i \in Nat \ {0}
      BY <1>1
    <2> QED
      BY <2>1, <2>2 DEF Row, Rows
  <1>3. \A i \in 1 .. Len(tokens) :
          /\ Row(tokens[i], c.offset + i).tok = tokens[i]
          /\ Row(tokens[i], c.offset + i).pos = c.offset + i
    BY DEF Row
  <1> QED
    BY <1>1, <1>2, <1>3 DEF NewRows

\* What attention is given: only written rows, and all of them unless a window
\* evicts.
LEMMA ViewIs ==
  ASSUME NEW m \in Modes, NEW c \in Caches, WellFormed(m, c)
  PROVE  /\ View(m, c) \in Seq(Rows)
         /\ m # "out_of_core" => Len(View(m, c)) = c.offset
         /\ \A i \in 1 .. Len(View(m, c)) : View(m, c)[i] = c.buf[i]
  <1> USE CacheFields
  <1>1. CASE m = "in_ram"
    <2> DEFINE n == c.offset
               v == SubSeq(c.buf, 1, n)
    <2>1. n \in Nat /\ \A i \in 1 .. n : c.buf[i] \in Rows
      BY <1>1 DEF WellFormed
    <2>2. v \in Seq(Rows)
      BY <2>1, SubSeqProperties
    <2>3. Len(v) = IF 1 <= n THEN n - 1 + 1 ELSE 0
      BY <2>1, SubSeqProperties
    <2>4. \A i \in 1 .. n - 1 + 1 : v[i] = c.buf[1 + i - 1]
      BY <2>1, SubSeqProperties
    <2>5. Len(v) = n
      BY <2>1, <2>3
    <2>6. \A i \in 1 .. n : v[i] = c.buf[i]
      BY <2>1, <2>4
    <2>7. View(m, c) = v
      BY <1>1 DEF View
    <2> QED
      BY <2>2, <2>5, <2>6, <2>7
  <1>2. CASE m # "in_ram"
    <2>1. m = "mlx" \/ m = "out_of_core"
      BY <1>2 DEF Modes
    <2> QED
      BY <1>2, <2>1 DEF WellFormed, View
  <1> QED
    BY <1>1, <1>2

\* Growth leaves room for the new rows and never shrinks the buffer.
LEMMA CapacityHolds ==
  ASSUME NEW c \in Caches, NEW n \in Nat
  PROVE  /\ NextCapacity(c, n) \in Nat
         /\ c.offset + n <= NextCapacity(c, n)
         /\ c.capacity <= NextCapacity(c, n)
  <1> DEFINE cap == IF c.capacity = 0 THEN Larger(MaxSeqLen, n) ELSE c.capacity
             need == c.offset + n
  <1>1. c.capacity \in Nat /\ c.offset \in Nat /\ MaxSeqLen \in Nat /\ Slack \in Nat
    BY CacheFields, CacheAssumption
  <1>2. cap \in Nat /\ c.capacity <= cap
    BY <1>1 DEF Larger
  <1>3. need \in Nat
    BY <1>1
  <1> HIDE DEF cap
  <1>4. NextCapacity(c, n) = IF need > cap THEN Larger(2 * cap, need + Slack) ELSE cap
    BY DEF NextCapacity, cap
  <1> HIDE DEF need
  <1>5. /\ NextCapacity(c, n) \in Nat /\ need <= NextCapacity(c, n)
        /\ c.capacity <= NextCapacity(c, n)
    BY <1>1, <1>2, <1>3, <1>4 DEF Larger
  <1> QED
    BY <1>5 DEF need

\* A write to a buffer allocated ahead, grown or not, appends the rows to those
\* below the offset.
LEMMA UpdatedInRam ==
  ASSUME NEW c \in Caches, WellFormed("in_ram", c), NEW rows \in Seq(Rows)
  PROVE  /\ UpdateInRam(c, rows) \in Caches
         /\ WellFormed("in_ram", UpdateInRam(c, rows))
         /\ UpdateInRam(c, rows).offset = c.offset + Len(rows)
         /\ View("in_ram", UpdateInRam(c, rows)) = View("in_ram", c) \o rows
  <1> DEFINE n == c.offset
             k == Len(rows)
             cap == NextCapacity(c, k)
             S == Rows \cup {Unwritten}
             at(i) == IF i \in n + 1 .. n + k THEN rows[i - n]
                      ELSE IF cap # c.capacity /\ i > n THEN Unwritten ELSE c.buf[i]
             w == Written(c, rows)
             d == UpdateInRam(c, rows)
  <1>1. n \in Nat /\ k \in Nat /\ c.capacity \in Nat /\ c.buf \in Seq(S)
    BY CacheFields, LenProperties
  <1>2. Len(c.buf) = c.capacity /\ n <= c.capacity /\ \A i \in 1 .. n : c.buf[i] \in Rows
    BY DEF WellFormed
  <1>3. cap \in Nat /\ n + k <= cap /\ c.capacity <= cap
    BY <1>1, CapacityHolds
  <1>4. w = [i \in 1 .. cap |-> at(i)]
    BY DEF Written
  <1> HIDE DEF cap
  <1>5. ASSUME NEW i \in 1 .. n + k PROVE at(i) \in Rows /\ at(i) = IF i <= n THEN c.buf[i] ELSE rows[i - n]
    <2>1. CASE i <= n
      <3>1. i \notin n + 1 .. n + k /\ ~(i > n) /\ i \in 1 .. n
        BY <1>1, <2>1
      <3>2. at(i) = c.buf[i]
        BY <3>1
      <3> QED
        BY <1>2, <2>1, <3>1, <3>2
    <2>2. CASE i > n
      <3>1. i \in n + 1 .. n + k /\ i - n \in 1 .. k /\ ~(i <= n)
        BY <1>1, <2>2
      <3>2. at(i) = rows[i - n]
        BY <3>1
      <3>3. rows[i - n] \in Rows
        BY <3>1, ElementOfSeq
      <3> QED
        BY <3>1, <3>2, <3>3
    <2> QED
      BY <1>1, <2>1, <2>2
  <1>6. ASSUME NEW i \in 1 .. cap PROVE at(i) \in S
    <2>1. CASE i \in 1 .. n + k
      BY <1>5, <2>1
    <2>2. CASE i \notin 1 .. n + k
      <3>1. i > n /\ i \notin n + 1 .. n + k
        BY <1>1, <1>3, <2>2
      <3>2. CASE cap # c.capacity
        BY <3>1, <3>2
      <3>3. CASE cap = c.capacity
        <4>1. i \in 1 .. Len(c.buf)
          BY <1>2, <3>3
        <4>2. c.buf[i] \in S
          BY <1>1, <4>1, ElementOfSeq
        <4> QED
          BY <3>1, <3>3, <4>2
      <3> QED
        BY <3>2, <3>3
    <2> QED
      BY <2>1, <2>2
  <1>7. \A i \in 1 .. n + k : w[i] \in Rows /\ w[i] = IF i <= n THEN c.buf[i] ELSE rows[i - n]
    <2> SUFFICES ASSUME NEW i \in 1 .. n + k
                 PROVE  w[i] \in Rows /\ w[i] = IF i <= n THEN c.buf[i] ELSE rows[i - n]
      OBVIOUS
    <2>1. i \in 1 .. cap
      BY <1>1, <1>3
    <2>2. w[i] = at(i)
      BY <1>4, <2>1
    <2> QED
      BY <1>5, <2>2
  <1>8. w \in Seq(S) /\ Len(w) = cap
    <2> HIDE DEF at, S
    <2>1. w \in [1 .. cap -> S]
      BY <1>4, <1>6
    <2> QED
      BY <1>3, <2>1
  <1> HIDE DEF w
  <1>9. /\ d.buf = w /\ d.capacity = cap /\ d.offset = n + k
        /\ d.streamed = c.streamed /\ d.fileK = c.fileK /\ d.fileV = c.fileV
    BY DEF UpdateInRam, Caches, w, cap
  <1>10. d \in Caches
    <2>1. n + k \in Nat
      BY <1>1
    <2> QED
      BY <1>3, <1>8, <2>1 DEF UpdateInRam, Caches, w, cap
  <1> HIDE DEF d
  <1>11. WellFormed("in_ram", d)
    BY <1>3, <1>7, <1>8, <1>9 DEF WellFormed
  <1>12. View("in_ram", d) = View("in_ram", c) \o rows
    <2> DEFINE u == View("in_ram", c)
               v == View("in_ram", d)
    <2>1. "in_ram" \in Modes
      BY DEF Modes
    <2>2. u \in Seq(Rows) /\ Len(u) = n /\ \A i \in 1 .. Len(u) : u[i] = c.buf[i]
      BY <2>1, ViewIs
    <2>3. v \in Seq(Rows) /\ Len(v) = n + k /\ \A i \in 1 .. Len(v) : v[i] = w[i]
      BY <1>9, <1>10, <1>11, <2>1, ViewIs
    <2> HIDE DEF u, v
    <2>4. /\ u \o rows \in Seq(Rows) /\ Len(u \o rows) = n + k
          /\ \A i \in 1 .. n + k : (u \o rows)[i] = IF i <= n THEN u[i] ELSE rows[i - n]
      <3>1. u \in Seq(Rows)
        BY <2>2
      <3>2. /\ u \o rows \in Seq(Rows) /\ Len(u \o rows) = Len(u) + Len(rows)
            /\ \A i \in 1 .. Len(u) + Len(rows) :
                 (u \o rows)[i] = IF i <= Len(u) THEN u[i] ELSE rows[i - Len(u)]
        BY <3>1, ConcatProperties
      <3> QED
        BY <2>2, <3>2
    <2>5. \A i \in 1 .. n + k : v[i] = (u \o rows)[i]
      BY <1>1, <1>7, <2>2, <2>3, <2>4
    <2>6. v = u \o rows
      BY <2>3, <2>4, <2>5, SameSequence
    <2> QED
      BY <2>6 DEF u, v
  <1> QED
    BY <1>9, <1>10, <1>11, <1>12 DEF d

\* What a cache shows of a sequence of rows: the end of it, or all.
Shown(m, s) == IF m = "out_of_core" THEN Window(s) ELSE s

LEMMA UpdatedOutOfCore ==
  ASSUME NEW c \in Caches, WellFormed("out_of_core", c), NEW rows \in Seq(Rows)
  PROVE  LET d == UpdateOutOfCore(c, rows)
         IN /\ d \in Caches /\ WellFormed("out_of_core", d)
            /\ d.offset = c.offset + Len(rows) /\ d.streamed = c.streamed + Len(rows)
            /\ d.fileK = c.fileK \o rows /\ d.fileV = c.fileV \o rows
            /\ d.buf = Window(c.buf \o rows)
  <1> DEFINE d == UpdateOutOfCore(c, rows)
             S == Rows \cup {Unwritten}
  <1>1. /\ d.offset = c.offset + Len(rows) /\ d.streamed = c.streamed + Len(rows)
        /\ d.fileK = c.fileK \o rows /\ d.fileV = c.fileV \o rows
        /\ d.buf = Window(c.buf \o rows) /\ d.capacity = c.capacity
    BY DEF UpdateOutOfCore, Caches
  <1>2. c.buf \in Seq(Rows)
    BY DEF WellFormed
  <1>3. Window(c.buf \o rows) \in Seq(Rows)
    <2>1. c.buf \o rows \in Seq(Rows)
      BY <1>2, ConcatProperties
    <2> QED
      BY <2>1, WindowOf
  <1>4. Window(c.buf \o rows) \in Seq(S)
    BY <1>3, SeqMonotonic
  <1>5. c.fileK \o rows \in Seq(Rows) /\ c.fileV \o rows \in Seq(Rows)
    BY CacheFields, ConcatProperties
  <1>6. c.offset + Len(rows) \in Nat /\ c.streamed + Len(rows) \in Nat
    BY CacheFields, LenProperties
  <1>7. d \in Caches
    <2> HIDE DEF S
    <2>1. d = [c EXCEPT !.fileK = c.fileK \o rows, !.fileV = c.fileV \o rows,
                        !.streamed = c.streamed + Len(rows),
                        !.offset = c.offset + Len(rows), !.buf = Window(c.buf \o rows)]
      BY DEF UpdateOutOfCore, Caches
    <2> HIDE DEF d
    <2> QED
      BY <1>4, <1>5, <1>6, <2>1, CacheFields DEF Caches, S
  <1>8. WellFormed("out_of_core", d)
    BY <1>1, <1>3 DEF WellFormed
  <1> HIDE DEF d
  <1> QED
    BY <1>1, <1>7, <1>8 DEF d

LEMMA UpdatedMlx ==
  ASSUME NEW c \in Caches, WellFormed("mlx", c), NEW rows \in Seq(Rows)
  PROVE  LET d == UpdateMlx(c, rows)
         IN /\ d \in Caches /\ WellFormed("mlx", d)
            /\ d.offset = c.offset + Len(rows) /\ d.buf = c.buf \o rows
  <1> DEFINE d == UpdateMlx(c, rows)
             S == Rows \cup {Unwritten}
             x == c.buf \o rows
             n == Len(c.buf) + Len(rows)
  <1>1. c.buf \in Seq(Rows) /\ Len(c.buf) = c.offset
    BY DEF WellFormed
  <1>2. x \in Seq(Rows) /\ Len(x) = n
    BY <1>1, ConcatProperties
  <1>3. x \in Seq(S)
    BY <1>2, SeqMonotonic
  <1>4. n \in Nat
    BY CacheFields, LenProperties
  <1> HIDE DEF x, n, S
  <1>5. d = [c EXCEPT !.buf = x, !.offset = n]
    BY DEF UpdateMlx, Caches, x, n
  <1> HIDE DEF d
  <1>6. d \in Caches
    BY <1>3, <1>4, <1>5, CacheFields DEF Caches, S
  <1>7. d.buf = x /\ d.offset = n
    BY <1>5 DEF Caches
  <1>8. WellFormed("mlx", d)
    BY <1>2, <1>7 DEF WellFormed
  <1>9. n = c.offset + Len(rows)
    BY <1>1 DEF n
  <1> QED
    BY <1>6, <1>7, <1>8, <1>9 DEF d, x

\* Every update appends the new rows to what attention is shown.
LEMMA Updated ==
  ASSUME NEW m \in Modes, NEW c \in Caches, WellFormed(m, c), NEW tokens \in Seq(Vocab)
  PROVE  /\ Update(m, c, tokens) \in Caches
         /\ WellFormed(m, Update(m, c, tokens))
         /\ Update(m, c, tokens).offset = c.offset + Len(tokens)
         /\ View(m, Update(m, c, tokens)) = Shown(m, View(m, c) \o NewRows(c, tokens))
  <1> DEFINE rows == NewRows(c, tokens)
             d == Update(m, c, tokens)
  <1>1. rows \in Seq(Rows) /\ Len(rows) = Len(tokens)
    BY NewRowsAre
  <1> HIDE DEF rows
  <1>2. CASE m = "in_ram"
    <2>1. d = UpdateInRam(c, rows)
      BY <1>2 DEF Update, rows
    <2>2. WellFormed("in_ram", c)
      BY <1>2
    <2>3. /\ UpdateInRam(c, rows) \in Caches
          /\ WellFormed("in_ram", UpdateInRam(c, rows))
          /\ UpdateInRam(c, rows).offset = c.offset + Len(rows)
          /\ View("in_ram", UpdateInRam(c, rows)) = View("in_ram", c) \o rows
      BY <1>1, <2>2, UpdatedInRam
    <2>4. Shown(m, View(m, c) \o rows) = View(m, c) \o rows
      BY <1>2 DEF Shown
    <2> HIDE DEF d
    <2> QED
      BY <1>1, <1>2, <2>1, <2>3, <2>4 DEF rows, d
  <1>3. CASE m = "out_of_core"
    <2>1. d = UpdateOutOfCore(c, rows)
      BY <1>3 DEF Update, rows
    <2>2. WellFormed("out_of_core", c)
      BY <1>3
    <2>3. LET e == UpdateOutOfCore(c, rows)
          IN /\ e \in Caches /\ WellFormed("out_of_core", e)
             /\ e.offset = c.offset + Len(rows) /\ e.buf = Window(c.buf \o rows)
      BY <1>1, <2>2, UpdatedOutOfCore
    <2>4. View(m, c) = c.buf /\ View(m, d) = d.buf
      BY <1>3 DEF View
    <2>5. Shown(m, View(m, c) \o rows) = Window(View(m, c) \o rows)
      BY <1>3 DEF Shown
    <2> HIDE DEF d
    <2> QED
      BY <1>1, <1>3, <2>1, <2>3, <2>4, <2>5 DEF rows, d
  <1>4. CASE m = "mlx"
    <2>1. d = UpdateMlx(c, rows)
      BY <1>4 DEF Update, rows
    <2>2. WellFormed("mlx", c)
      BY <1>4
    <2>3. LET e == UpdateMlx(c, rows)
          IN /\ e \in Caches /\ WellFormed("mlx", e)
             /\ e.offset = c.offset + Len(rows) /\ e.buf = c.buf \o rows
      BY <1>1, <2>2, UpdatedMlx
    <2>4. View(m, c) = c.buf /\ View(m, d) = d.buf
      BY <1>4 DEF View
    <2>5. Shown(m, View(m, c) \o rows) = View(m, c) \o rows
      BY <1>4 DEF Shown
    <2> HIDE DEF d
    <2> QED
      BY <1>1, <1>4, <2>1, <2>3, <2>4, <2>5 DEF rows, d
  <1> QED
    BY <1>2, <1>3, <1>4 DEF Modes

\* An update that raises in the middle leaves what attention is shown alone.
LEMMA FailedUpdated ==
  ASSUME NEW m \in Modes, NEW c \in Caches, WellFormed(m, c), NEW tokens \in Seq(Vocab),
         NEW d \in FailedUpdates(m, c, tokens)
  PROVE  d \in Caches /\ WellFormed(m, d) /\ d.offset = c.offset /\ View(m, d) = View(m, c)
  <1> DEFINE rows == NewRows(c, tokens)
  <1>1. rows \in Seq(Rows)
    BY NewRowsAre
  <1>2. CASE d = c
    BY <1>2, CacheFields
  <1>3. CASE d # c
    <2>1. d \in WriteFailures(c, rows)
      BY <1>3 DEF FailedUpdates
    <2> HIDE DEF rows
    <2>2. PICK k \in {c.fileK, c.fileK \o rows}, v \in {c.fileV, c.fileV \o rows} :
            d = [c EXCEPT !.fileK = k, !.fileV = v]
      BY <2>1 DEF WriteFailures
    <2>3. c.fileK \o rows \in Seq(Rows) /\ c.fileV \o rows \in Seq(Rows)
      BY <1>1, CacheFields, ConcatProperties
    <2>4. k \in Seq(Rows) /\ v \in Seq(Rows)
      BY <2>3, CacheFields
    <2>5. d \in Caches
      BY <2>2, <2>4 DEF Caches
    <2>6. d.buf = c.buf /\ d.offset = c.offset /\ d.capacity = c.capacity
      BY <2>2 DEF Caches
    <2>7. WellFormed(m, d) /\ View(m, d) = View(m, c)
      BY <2>6 DEF WellFormed, View
    <2> QED
      BY <2>5, <2>6, <2>7
  <1> QED
    BY <1>2, <1>3

\* Cutting a cache back keeps the first rows of what attention was shown.  A
\* cache over a window cannot be cut; no burst is fed to one.
LEMMA Truncated ==
  ASSUME NEW m \in Modes, m # "out_of_core", NEW c \in Caches, WellFormed(m, c),
         NEW len \in Nat, len <= c.offset
  PROVE  /\ Truncate(m, c, len) \in Caches
         /\ WellFormed(m, Truncate(m, c, len))
         /\ Truncate(m, c, len).offset = len
         /\ Len(View(m, Truncate(m, c, len))) = len
         /\ \A i \in 1 .. len : View(m, Truncate(m, c, len))[i] = View(m, c)[i]
  <1> DEFINE d == Truncate(m, c, len)
             S == Rows \cup {Unwritten}
  <1>1. d \in Caches /\ d.offset = len /\ WellFormed(m, d) /\ (\A i \in 1 .. len : d.buf[i] = c.buf[i])
    <2>1. CASE m = "in_ram"
      <3>1. d = [c EXCEPT !.offset = len]
        BY <2>1 DEF Truncate
      <3> HIDE DEF d
      <3>2. d \in Caches
        BY <3>1, CacheFields DEF Caches
      <3>3. d.offset = len /\ d.buf = c.buf /\ d.capacity = c.capacity
        BY <3>1 DEF Caches
      <3>4. c.offset \in Nat /\ c.capacity \in Nat
        BY CacheFields
      <3>5. WellFormed(m, d)
        BY <2>1, <3>3, <3>4 DEF WellFormed
      <3> QED
        BY <3>2, <3>3, <3>5
    <2>2. CASE m = "mlx"
      <3>1. c.buf \in Seq(Rows) /\ Len(c.buf) = c.offset
        BY <2>2 DEF WellFormed
      <3>2. c.offset \in Nat
        BY CacheFields
      <3> DEFINE x == SubSeq(c.buf, 1, len)
      <3>3. \A i \in 1 .. len : c.buf[i] \in Rows
        BY <3>1, <3>2, ElementOfSeq
      <3>4. x \in Seq(Rows)
        BY <3>3, SubSeqProperties
      <3>5. Len(x) = IF 1 <= len THEN len - 1 + 1 ELSE 0
        BY <3>3, SubSeqProperties
      <3>6. \A i \in 1 .. len - 1 + 1 : x[i] = c.buf[1 + i - 1]
        BY <3>3, SubSeqProperties
      <3>7. Len(x) = len /\ \A i \in 1 .. len : x[i] = c.buf[i]
        BY <3>5, <3>6
      <3>8. (IF len < Len(c.buf) THEN len ELSE Len(c.buf)) = len
        BY <3>1, <3>2
      <3>9. x \in Seq(S)
        BY <3>4, SeqMonotonic
      <3>10. d = [c EXCEPT !.offset = len, !.buf = x]
        BY <2>2, <3>8 DEF Truncate, Caches
      <3> HIDE DEF x, d, S
      <3>11. d \in Caches
        BY <3>9, <3>10, CacheFields DEF Caches, S
      <3>12. d.offset = len /\ d.buf = x
        BY <3>10 DEF Caches
      <3>13. WellFormed(m, d)
        BY <2>2, <3>4, <3>7, <3>12 DEF WellFormed
      <3> QED
        BY <3>7, <3>11, <3>12, <3>13
    <2> QED
      BY <2>1, <2>2 DEF Modes
  <1> HIDE DEF d
  <1>2. Len(View(m, d)) = len /\ \A i \in 1 .. Len(View(m, d)) : View(m, d)[i] = d.buf[i]
    BY <1>1, ViewIs
  <1>3. Len(View(m, c)) = c.offset /\ \A i \in 1 .. Len(View(m, c)) : View(m, c)[i] = c.buf[i]
    BY ViewIs
  <1>4. \A i \in 1 .. len : i \in 1 .. c.offset
    BY CacheFields
  <1>5. \A i \in 1 .. len : View(m, d)[i] = View(m, c)[i]
    BY <1>1, <1>2, <1>3, <1>4
  <1> QED
    BY <1>1, <1>2, <1>5 DEF d

\* RowsAtTheirPositions, of one cache.
Rotated(m, c) ==
  \A i \in 1 .. Len(View(m, c)) : View(m, c)[i].pos = c.offset - Len(View(m, c)) + i

LEMMA UpdatedRotated ==
  ASSUME NEW m \in Modes, NEW c \in Caches, WellFormed(m, c), Rotated(m, c),
         NEW tokens \in Seq(Vocab)
  PROVE  Rotated(m, Update(m, c, tokens))
  <1> DEFINE d == Update(m, c, tokens)
             rows == NewRows(c, tokens)
             u == View(m, c)
             v == View(m, d)
             x == u \o rows
             n == Len(u)
             k == Len(tokens)
             p == c.offset
  <1>1. /\ rows \in Seq(Rows) /\ Len(rows) = k
        /\ \A i \in 1 .. k : rows[i].pos = p + i
    BY NewRowsAre
  <1>2. u \in Seq(Rows)
    BY ViewIs
  <1>3. d.offset = p + k /\ v = Shown(m, x)
    BY Updated
  <1>4. n \in Nat /\ k \in Nat /\ p \in Nat
    BY <1>2, CacheFields, LenProperties
  <1>5. \A i \in 1 .. n : u[i].pos = p - n + i
    BY DEF Rotated
  <1> HIDE DEF d, rows, u, v, p
  <1>6. /\ x \in Seq(Rows) /\ Len(x) = n + k
        /\ \A i \in 1 .. n + k : x[i] = IF i <= n THEN u[i] ELSE rows[i - n]
    <2>1. /\ x \in Seq(Rows) /\ Len(x) = Len(u) + Len(rows)
          /\ \A i \in 1 .. Len(u) + Len(rows) :
               x[i] = IF i <= Len(u) THEN u[i] ELSE rows[i - Len(u)]
      BY <1>1, <1>2, ConcatProperties
    <2> QED
      BY <1>1, <2>1
  <1> HIDE DEF x, n, k
  <1>7. ASSUME NEW i \in 1 .. n + k PROVE x[i].pos = p - n + i
    <2>1. CASE i <= n
      BY <1>4, <1>5, <1>6, <2>1
    <2>2. CASE i > n
      <3>1. x[i] = rows[i - n]
        BY <1>4, <1>6, <2>2
      <3>2. i - n \in 1 .. k
        BY <1>4, <2>2
      <3>3. x[i].pos = p + (i - n)
        BY <1>1, <3>1, <3>2
      <3> QED
        BY <1>4, <3>3
    <2> QED
      BY <1>4, <2>1, <2>2
  <1>8. \A i \in 1 .. Len(v) : v[i].pos = (p + k) - Len(v) + i
    <2>1. CASE m = "out_of_core"
      <3>1. v = Window(x)
        BY <1>3, <2>1 DEF Shown
      <3>2. x \in Seq(Rows)
        BY <1>6
      <3>3. /\ Len(Window(x)) = IF Len(x) <= RamCapacity THEN Len(x) ELSE RamCapacity
            /\ \A i \in 1 .. Len(Window(x)) : Window(x)[i] = x[Len(x) - Len(Window(x)) + i]
        BY <3>2, WindowOf
      <3>4. Len(v) \in Nat /\ Len(v) <= n + k
        BY <1>4, <1>6, <3>1, <3>3, CacheAssumption
      <3> TAKE i \in 1 .. Len(v)
      <3>5. n + k - Len(v) + i \in 1 .. n + k
        BY <1>4, <3>4
      <3>6. v[i] = x[n + k - Len(v) + i]
        <4>1. Window(x)[i] = x[Len(x) - Len(Window(x)) + i]
          BY <3>1, <3>3
        <4>2. Len(x) = n + k
          BY <1>6
        <4>3. v[i] = x[Len(x) - Len(v) + i]
          BY <3>1, <4>1
        <4> QED
          BY <1>4, <3>4, <4>2, <4>3
      <3>7. v[i].pos = p - n + (n + k - Len(v) + i)
        BY <1>7, <3>5, <3>6
      <3> QED
        BY <1>4, <3>4, <3>7
    <2>2. CASE m # "out_of_core"
      <3>1. v = x
        BY <1>3, <2>2 DEF Shown
      <3> TAKE i \in 1 .. Len(v)
      <3>2. Len(v) = n + k /\ i \in 1 .. n + k
        BY <1>6, <3>1
      <3>3. v[i].pos = p - n + i
        BY <1>7, <3>1, <3>2
      <3>4. p - n + i = (p + k) - (n + k) + i
        BY <1>4
      <3> QED
        BY <3>2, <3>3, <3>4
    <2> QED
      BY <2>1, <2>2
  <1> QED
    BY <1>3, <1>8 DEF Rotated, d, v

LEMMA TruncatedRotated ==
  ASSUME NEW m \in Modes, m # "out_of_core", NEW c \in Caches, WellFormed(m, c),
         Rotated(m, c), NEW len \in Nat, len <= c.offset
  PROVE  Rotated(m, Truncate(m, c, len))
  <1> DEFINE d == Truncate(m, c, len)
             u == View(m, c)
             v == View(m, d)
  <1>1. d.offset = len /\ Len(v) = len /\ \A i \in 1 .. len : v[i] = u[i]
    BY Truncated
  <1>2. Len(u) = c.offset
    BY ViewIs
  <1>3. \A i \in 1 .. Len(u) : u[i].pos = c.offset - Len(u) + i
    BY DEF Rotated
  <1>4. c.offset \in Nat
    BY CacheFields
  <1> HIDE DEF d, u, v
  <1>5. \A i \in 1 .. len : v[i].pos = i
    <2> TAKE i \in 1 .. len
    <2>1. i \in 1 .. Len(u)
      BY <1>2, <1>4
    <2>2. v[i].pos = c.offset - Len(u) + i
      BY <1>1, <1>3, <2>1
    <2> QED
      BY <1>2, <1>4, <2>2
  <1>6. \A i \in 1 .. Len(v) : v[i].pos = d.offset - Len(v) + i
    BY <1>1, <1>5
  <1> QED
    BY <1>6 DEF Rotated, d, v

-----------------------------------------------------------------------------
(* The tokens of a cache.                                                  *)

Tokens(rows) == [i \in 1 .. Len(rows) |-> rows[i].tok]
Held(m, c) == IF m = "out_of_core" THEN c.fileK ELSE View(m, c)

LEMMA TokensOf ==
  ASSUME NEW x \in Seq(Rows)
  PROVE  Tokens(x) \in Seq(Vocab) /\ Len(Tokens(x)) = Len(x)
  <1>1. \A i \in 1 .. Len(x) : x[i].tok \in Vocab
    <2> TAKE i \in 1 .. Len(x)
    <2>1. x[i] \in Rows
      BY ElementOfSeq
    <2> QED
      BY <2>1 DEF Rows
  <1> QED
    BY <1>1, LenProperties DEF Tokens

LEMMA HeldIs ==
  ASSUME NEW m \in Modes, NEW c \in Caches, WellFormed(m, c)
  PROVE  Held(m, c) \in Seq(Rows)
  BY ViewIs, CacheFields DEF Held

LEMMA HeldUpdated ==
  ASSUME NEW m \in Modes, NEW c \in Caches, WellFormed(m, c), NEW tokens \in Seq(Vocab)
  PROVE  Tokens(Held(m, Update(m, c, tokens))) = Tokens(Held(m, c)) \o tokens
  <1> DEFINE h == Held(m, c)
             rows == NewRows(c, tokens)
             x == h \o rows
             e == Held(m, Update(m, c, tokens))
             n == Len(h)
             k == Len(tokens)
  <1>1. h \in Seq(Rows)
    BY HeldIs
  <1>2. /\ rows \in Seq(Rows) /\ Len(rows) = k
        /\ \A i \in 1 .. k : rows[i].tok = tokens[i]
    BY NewRowsAre
  <1>3. e = x
    <2>1. CASE m = "out_of_core"
      <3>1. Update(m, c, tokens) = UpdateOutOfCore(c, rows) /\ WellFormed("out_of_core", c)
        BY <2>1 DEF Update
      <3> HIDE DEF rows
      <3>2. UpdateOutOfCore(c, rows).fileK = c.fileK \o rows
        BY <1>2, <3>1, UpdatedOutOfCore
      <3> QED
        BY <2>1, <3>1, <3>2 DEF Held
    <2>2. CASE m # "out_of_core"
      BY <2>2, Updated DEF Held, Shown
    <2> QED
      BY <2>1, <2>2
  <1> HIDE DEF h, rows, e
  <1>4. /\ x \in Seq(Rows) /\ Len(x) = n + k
        /\ \A i \in 1 .. n + k : x[i] = IF i <= n THEN h[i] ELSE rows[i - n]
    <2>1. /\ x \in Seq(Rows) /\ Len(x) = Len(h) + Len(rows)
          /\ \A i \in 1 .. Len(h) + Len(rows) :
               x[i] = IF i <= Len(h) THEN h[i] ELSE rows[i - Len(h)]
      BY <1>1, <1>2, ConcatProperties
    <2> QED
      BY <1>2, <2>1
  <1>5. n \in Nat /\ k \in Nat
    BY <1>1, LenProperties
  <1>6. /\ Tokens(x) \in Seq(Vocab) /\ Len(Tokens(x)) = n + k
        /\ \A i \in 1 .. n + k : Tokens(x)[i] = x[i].tok
    <2>1. x \in Seq(Rows) /\ Len(x) = n + k
      BY <1>4
    <2> HIDE DEF x
    <2>2. Tokens(x) \in Seq(Vocab) /\ Len(Tokens(x)) = Len(x)
      BY <2>1, TokensOf
    <2> QED
      BY <2>1, <2>2 DEF Tokens
  <1>7. /\ Tokens(h) \in Seq(Vocab) /\ Len(Tokens(h)) = n
        /\ \A i \in 1 .. n : Tokens(h)[i] = h[i].tok
    BY <1>1, TokensOf DEF Tokens
  <1> HIDE DEF x, n, k
  <1> DEFINE t == Tokens(h)
             y == t \o tokens
  <1> HIDE DEF t
  <1>8. /\ y \in Seq(Vocab) /\ Len(y) = n + k
        /\ \A i \in 1 .. n + k : y[i] = IF i <= n THEN t[i] ELSE tokens[i - n]
    <2>1. t \in Seq(Vocab) /\ Len(t) = n
      BY <1>7 DEF t
    <2>2. /\ y \in Seq(Vocab) /\ Len(y) = Len(t) + Len(tokens)
          /\ \A i \in 1 .. Len(t) + Len(tokens) :
               y[i] = IF i <= Len(t) THEN t[i] ELSE tokens[i - Len(t)]
      BY <2>1, ConcatProperties
    <2> QED
      BY <2>1, <2>2 DEF k
  <1>9. \A i \in 1 .. n + k : Tokens(x)[i] = y[i]
    <2> TAKE i \in 1 .. n + k
    <2>1. CASE i <= n
      <3>1. i \in 1 .. n
        BY <1>5, <2>1
      <3>2. x[i] = h[i] /\ y[i] = t[i]
        BY <1>4, <1>8, <2>1
      <3>3. t[i] = h[i].tok
        BY <1>7, <3>1 DEF t
      <3> QED
        BY <1>6, <3>2, <3>3
    <2>2. CASE ~(i <= n)
      <3>1. i - n \in 1 .. k
        BY <1>5, <2>2
      <3>2. x[i] = rows[i - n] /\ y[i] = tokens[i - n]
        BY <1>4, <1>8, <2>2
      <3> QED
        BY <1>2, <1>6, <3>1, <3>2
    <2> QED
      BY <2>1, <2>2
  <1> HIDE DEF y
  <1>10. Tokens(x) = y
    BY <1>6, <1>8, <1>9, SameSequence
  <1> QED
    BY <1>3, <1>10 DEF y, t, h, e, x

\* A cut keeps the first tokens.
LEMMA HeldTruncated ==
  ASSUME NEW m \in Modes, m # "out_of_core", NEW c \in Caches, WellFormed(m, c),
         NEW len \in Nat, len <= c.offset
  PROVE  /\ len <= Len(Tokens(Held(m, c)))
         /\ Tokens(Held(m, Truncate(m, c, len))) = SubSeq(Tokens(Held(m, c)), 1, len)
  <1> DEFINE d == Truncate(m, c, len)
             u == View(m, c)
             v == View(m, d)
             t == Tokens(u)
             s == Tokens(v)
             x == SubSeq(t, 1, len)
  <1>1. d \in Caches /\ WellFormed(m, d) /\ Len(v) = len /\ \A i \in 1 .. len : v[i] = u[i]
    BY Truncated
  <1>2. u \in Seq(Rows) /\ Len(u) = c.offset
    BY ViewIs
  <1>3. v \in Seq(Rows)
    BY <1>1, ViewIs
  <1>4. Held(m, c) = u /\ Held(m, d) = v
    BY DEF Held
  <1>5. c.offset \in Nat
    BY CacheFields
  <1> HIDE DEF d, u, v
  <1>6. t \in Seq(Vocab) /\ Len(t) = c.offset /\ (\A i \in 1 .. len : t[i] = u[i].tok)
    BY <1>2, <1>5, TokensOf DEF Tokens
  <1>7. s \in Seq(Vocab) /\ Len(s) = len /\ (\A i \in 1 .. len : s[i] = v[i].tok)
    BY <1>1, <1>3, TokensOf DEF Tokens
  <1> HIDE DEF t, s
  <1>8. \A i \in 1 .. len : t[i] \in Vocab
    BY <1>5, <1>6, ElementOfSeq
  <1>9. x \in Seq(Vocab)
    BY <1>8, SubSeqProperties
  <1>10. Len(x) = IF 1 <= len THEN len - 1 + 1 ELSE 0
    BY <1>8, SubSeqProperties
  <1>11. \A i \in 1 .. len - 1 + 1 : x[i] = t[1 + i - 1]
    BY <1>8, SubSeqProperties
  <1>12. Len(x) = len /\ \A i \in 1 .. len : x[i] = t[i]
    BY <1>10, <1>11
  <1> HIDE DEF x
  <1>13. \A i \in 1 .. Len(s) : s[i] = x[i]
    BY <1>1, <1>6, <1>7, <1>12
  <1>14. s = x
    BY <1>7, <1>9, <1>12, <1>13, SameSequence
  <1> QED
    BY <1>4, <1>6, <1>14 DEF s, x, t, d

-----------------------------------------------------------------------------
(* The inductive invariant.                                                *)

\* The properties of the stack, cache by cache, before and after a step.
LEMMA PerLayer ==
  /\ RowsAtTheirPositions <=> (sound => \A l \in Layers : Rotated(mode, caches[l]))
  /\ RowsAtTheirPositions' <=> (sound' => \A l \in Layers : Rotated(mode', caches'[l]))
  /\ \A l : Text(l) = Tokens(Held(mode, caches[l]))
  /\ \A l : Text(l)' = Tokens(Held(mode', caches'[l]))
  <1>1. RowsAtTheirPositions <=> (sound => \A l \in Layers : Rotated(mode, caches[l]))
    BY DEF RowsAtTheirPositions, Rotated, ViewOf
  <1>2. RowsAtTheirPositions' <=> (sound' => \A l \in Layers : Rotated(mode', caches'[l]))
    BY DEF RowsAtTheirPositions, Rotated, ViewOf
  <1>3. \A l : Text(l) = Tokens(Held(mode, caches[l]))
    BY DEF Text, Tokens, Held, ViewOf
  <1>4. \A l : Text(l)' = Tokens(Held(mode', caches'[l]))
    BY DEF Text, Tokens, Held, ViewOf
  <1> QED
    BY <1>1, <1>2, <1>3, <1>4

LEMMA InLayer ==
  ASSUME StackInv, NEW l \in Layers
  PROVE  /\ mode \in Modes /\ caches[l] \in Caches /\ WellFormed(mode, caches[l])
         /\ seqLen \in Nat /\ caches[l].offset \in Nat
         /\ mode # "out_of_core" => seqLen <= caches[l].offset
         /\ RowsAtTheirPositions /\ StreamKeepsEverything /\ LayersAgree
  <1>1. caches[l] \in Caches
    BY DEF StackInv, TypeOK
  <1> QED
    BY <1>1, CacheFields DEF StackInv, TypeOK, Lagging

LEMMA EmptyCache ==
  ASSUME NEW m \in Modes
  PROVE  /\ Empty \in Caches /\ WellFormed(m, Empty) /\ Empty.offset = 0
         /\ View(m, Empty) = <<>> /\ Rotated(m, Empty)
         /\ Tokens(Held(m, Empty)) = <<>>
         /\ Empty.fileK = Empty.fileV /\ Len(Empty.fileK) = 0
         /\ Empty.streamed = 0 /\ Empty.buf = Window(Empty.fileK)
  <1>1. /\ Empty.buf = <<>> /\ Empty.capacity = 0 /\ Empty.offset = 0
        /\ Empty.streamed = 0 /\ Empty.fileK = <<>> /\ Empty.fileV = <<>>
    BY DEF Empty
  <1>2. Empty \in Caches
    BY DEF Empty, Caches
  <1>3. WellFormed(m, Empty)
    BY <1>1 DEF WellFormed
  <1>4. View(m, Empty) = <<>>
    <2>1. SubSeq(<<>>, 1, 0) = <<>>
      BY SubSeqEmpty
    <2> QED
      BY <1>1, <2>1 DEF View
  <1>5. Rotated(m, Empty)
    BY <1>4 DEF Rotated
  <1>6. Held(m, Empty) = <<>>
    BY <1>1, <1>4 DEF Held
  <1>7. Tokens(<<>>) = <<>>
    BY DEF Tokens
  <1>8. Window(<<>>) = <<>>
    <2>1. Len(<<>>) <= RamCapacity
      BY CacheAssumption
    <2> QED
      BY <2>1 DEF Window
  <1> HIDE DEF Empty
  <1> QED
    BY <1>1, <1>2, <1>3, <1>4, <1>5, <1>6, <1>7, <1>8

\* All caches empty: the state __init__ and reset() leave.
LEMMA EmptyStack ==
  ASSUME mode \in Modes, caches = [l \in Layers |-> Empty], seqLen = 0
  PROVE  RowsAtTheirPositions /\ StreamKeepsEverything /\ LayersAgree
  <1>1. \A l \in Layers : caches[l] = Empty
    OBVIOUS
  <1>2. RowsAtTheirPositions
    BY <1>1, EmptyCache, PerLayer
  <1>3. StreamKeepsEverything
    BY <1>1, EmptyCache DEF StreamKeepsEverything
  <1>4. LayersAgree
    BY <1>1, PerLayer DEF LayersAgree
  <1> QED
    BY <1>2, <1>3, <1>4

LEMMA EmptyStackNext ==
  ASSUME mode' \in Modes, caches' = [l \in Layers |-> Empty], seqLen' = 0
  PROVE  RowsAtTheirPositions' /\ StreamKeepsEverything' /\ LayersAgree'
  <1>1. \A l \in Layers : caches'[l] = Empty
    OBVIOUS
  <1>2. RowsAtTheirPositions'
    BY <1>1, EmptyCache, PerLayer
  <1>3. StreamKeepsEverything'
    BY <1>1, EmptyCache DEF StreamKeepsEverything
  <1>4. LayersAgree'
    BY <1>1, PerLayer DEF LayersAgree
  <1> QED
    BY <1>2, <1>3, <1>4

LEMMA InitStack == Init => StackInv
  <1> SUFFICES ASSUME Init PROVE StackInv
    OBVIOUS
  <1>1. mode \in Modes /\ caches = [l \in Layers |-> Empty] /\ seqLen = 0
    BY DEF Init
  <1>2. RowsAtTheirPositions /\ StreamKeepsEverything /\ LayersAgree
    BY <1>1, EmptyStack
  <1>3. TypeOK
    <2>1. Empty \in Caches
      BY <1>1, EmptyCache
    <2>2. caches \in [Layers -> Caches]
      BY <1>1, <2>1
    <2>3. <<>> \in Seq(Vocab)
      BY EmptySeq
    <2>4. seqLen \in Nat /\ failures \in Nat
      BY DEF Init
    <2>5. verifying \in BOOLEAN /\ closed \in BOOLEAN
      BY DEF Init
    <2>6. input \in Seq(Vocab)
      BY <2>3 DEF Init
    <2> QED
      BY <1>1, <2>2, <2>4, <2>5, <2>6 DEF TypeOK
  <1>4. Lagging
    BY <1>1, EmptyCache DEF Init, Lagging
  <1> QED
    BY <1>2, <1>3, <1>4 DEF StackInv

LEMMA BatchesAreTexts == Batches \subseteq Seq(Vocab)
  BY DEF Batches

\* A forward pass through all layers, counted or not.
LEMMA ForwardAppends ==
  ASSUME StackInv, NEW tokens \in Seq(Vocab), MayFeed(tokens), Forward(tokens),
         mode' = mode, closed' = closed, failures' = failures
  PROVE  /\ caches' \in [Layers -> Caches]
         /\ \A l \in Layers :
              /\ WellFormed(mode', caches'[l])
              /\ caches'[l].offset = caches[l].offset + Len(tokens)
              /\ Text(l)' = Text(l) \o tokens
         /\ RowsAtTheirPositions' /\ LayersAgree'
  <1>1. \A l \in Layers : caches'[l] = Update(mode, caches[l], tokens)
    BY DEF Forward
  <1>2. ASSUME NEW l \in Layers
        PROVE  /\ caches'[l] \in Caches /\ WellFormed(mode, caches'[l])
               /\ caches'[l].offset = caches[l].offset + Len(tokens)
               /\ Tokens(Held(mode, caches'[l])) = Tokens(Held(mode, caches[l])) \o tokens
    <2>1. mode \in Modes /\ caches[l] \in Caches /\ WellFormed(mode, caches[l])
      BY InLayer
    <2> DEFINE c == caches[l]
    <2>2. c \in Caches /\ WellFormed(mode, c)
      BY <2>1
    <2> HIDE DEF c
    <2>3. /\ Update(mode, c, tokens) \in Caches
          /\ WellFormed(mode, Update(mode, c, tokens))
          /\ Update(mode, c, tokens).offset = c.offset + Len(tokens)
      BY <2>1, <2>2, Updated
    <2>4. Tokens(Held(mode, Update(mode, c, tokens))) = Tokens(Held(mode, c)) \o tokens
      BY <2>1, <2>2, HeldUpdated
    <2>5. caches'[l] = Update(mode, c, tokens)
      BY <1>1 DEF c
    <2> QED
      BY <2>3, <2>4, <2>5 DEF c
  <1>3. caches' \in [Layers -> Caches]
    <2>1. caches' = [l \in Layers |-> Update(mode, caches[l], tokens)]
      BY DEF Forward
    <2> QED
      BY <1>1, <1>2, <2>1
  <1>4. \A l \in Layers : Text(l)' = Text(l) \o tokens
    BY <1>2, PerLayer
  <1>5. RowsAtTheirPositions'
    <2>1. ASSUME sound', NEW l \in Layers PROVE Rotated(mode', caches'[l])
      <3>1. sound
        BY <2>1 DEF sound
      <3>2. /\ mode \in Modes /\ caches[l] \in Caches /\ WellFormed(mode, caches[l])
            /\ RowsAtTheirPositions
        BY InLayer
      <3>3. Rotated(mode, caches[l])
        BY <3>1, <3>2, PerLayer
      <3> QED
        BY <1>1, <3>2, <3>3, UpdatedRotated
    <2> QED
      BY <2>1, PerLayer
  <1>6. LayersAgree'
    <2>1. ASSUME sound', ~closed', NEW l \in Layers, NEW k \in Layers PROVE Text(l)' = Text(k)'
      <3>1. sound /\ ~closed
        BY <2>1 DEF sound
      <3>2. Text(l) = Text(k)
        BY <3>1, InLayer DEF LayersAgree
      <3> QED
        BY <1>4, <3>2
    <2> QED
      BY <2>1 DEF LayersAgree
  <1> QED
    BY <1>2, <1>3, <1>4, <1>5, <1>6

LEMMA FeedStep ==
  ASSUME StackInv, NEW tokens \in Batches, Feed(tokens) PROVE StackInv'
  <1> DEFINE n == Len(tokens)
  <1>1. /\ MayFeed(tokens) /\ Forward(tokens) /\ seqLen' = seqLen + n /\ input' = tokens
        /\ mode' = mode /\ verifying' = verifying /\ closed' = closed /\ failures' = failures
    BY DEF Feed, Forward
  <1>2. tokens \in Seq(Vocab) /\ n \in Nat
    BY BatchesAreTexts, LenProperties
  <1>3. ~verifying /\ ~closed
    BY <1>1 DEF MayFeed
  <1>4. /\ caches' \in [Layers -> Caches]
        /\ \A l \in Layers : /\ WellFormed(mode', caches'[l])
                             /\ caches'[l].offset = caches[l].offset + n
        /\ RowsAtTheirPositions' /\ LayersAgree'
    BY <1>1, <1>2, ForwardAppends
  <1>5. /\ seqLen \in Nat
        /\ \A l \in Layers : /\ caches[l].offset \in Nat
                             /\ mode # "out_of_core" => seqLen <= caches[l].offset
    BY InLayer DEF StackInv, TypeOK
  <1> HIDE DEF n
  <1>6. TypeOK'
    <2>1. seqLen' \in Nat
      BY <1>1, <1>2, <1>5
    <2> QED
      BY <1>1, <1>2, <1>4, <2>1 DEF TypeOK, StackInv
  <1>7. Lagging'
    <2>1. \A l \in Layers : mode' # "out_of_core" => seqLen' <= caches'[l].offset
      BY <1>1, <1>2, <1>4, <1>5
    <2> QED
      BY <1>1, <1>3, <1>4, <2>1 DEF Lagging
  <1>8. StreamKeepsEverything'
    <2> SUFFICES ASSUME sound', mode' = "out_of_core", ~closed', NEW l \in Layers
                 PROVE  /\ caches'[l].fileK = caches'[l].fileV
                        /\ Len(caches'[l].fileK) = caches'[l].streamed
                        /\ caches'[l].streamed = seqLen'
                        /\ caches'[l].buf = Window(caches'[l].fileK)
      BY DEF StreamKeepsEverything
    <2> DEFINE c == caches[l]
               d == caches'[l]
               rows == NewRows(c, tokens)
    <2>1. sound /\ mode = "out_of_core"
      BY <1>1 DEF sound
    <2>2. c \in Caches /\ WellFormed("out_of_core", c)
      BY <2>1, InLayer
    <2>3. /\ c.fileK = c.fileV /\ Len(c.fileK) = c.streamed
          /\ c.streamed = seqLen /\ c.buf = Window(c.fileK)
      BY <1>3, <2>1 DEF StackInv, StreamKeepsEverything
    <2>4. d = UpdateOutOfCore(c, rows)
      BY <1>1, <2>1 DEF Forward, Update
    <2> HIDE DEF c, d
    <2>5. rows \in Seq(Rows) /\ Len(rows) = n
      BY <1>2, <2>2, NewRowsAre DEF n
    <2> HIDE DEF rows
    <2>6. LET e == UpdateOutOfCore(c, rows)
          IN /\ e.streamed = c.streamed + Len(rows)
             /\ e.fileK = c.fileK \o rows /\ e.fileV = c.fileV \o rows
             /\ e.buf = Window(c.buf \o rows)
      BY <2>2, <2>5, UpdatedOutOfCore
    <2>7. /\ d.streamed = c.streamed + n
          /\ d.fileK = c.fileK \o rows /\ d.fileV = c.fileV \o rows
          /\ d.buf = Window(c.buf \o rows)
      BY <2>4, <2>5, <2>6
    <2>8. c.fileK \in Seq(Rows)
      BY <2>2, CacheFields
    <2>9. Len(c.fileK \o rows) = Len(c.fileK) + Len(rows)
      BY <2>5, <2>8, ConcatProperties
    <2>10. Window(Window(c.fileK) \o rows) = Window(c.fileK \o rows)
      BY <2>5, <2>8, WindowOfWindow
    <2>11. d.buf = Window(d.fileK)
      BY <2>3, <2>7, <2>10
    <2>12. Len(d.fileK) = d.streamed /\ d.streamed = seqLen' /\ d.fileK = d.fileV
      BY <1>1, <2>3, <2>5, <2>7, <2>9
    <2> QED
      BY <2>11, <2>12 DEF d
  <1> QED
    BY <1>4, <1>6, <1>7, <1>8 DEF StackInv

LEMMA BurstStep ==
  ASSUME StackInv, NEW tokens \in Batches, Burst(tokens) PROVE StackInv'
  <1> DEFINE n == Len(tokens)
  <1>1. /\ MayFeed(tokens) /\ Forward(tokens) /\ seqLen' = seqLen /\ input' = tokens
        /\ mode' = mode /\ verifying' = TRUE /\ closed' = closed /\ failures' = failures
        /\ mode # "out_of_core"
    BY DEF Burst, Forward
  <1>2. tokens \in Seq(Vocab) /\ n \in Nat
    BY BatchesAreTexts, LenProperties
  <1>3. ~closed
    BY <1>1 DEF MayFeed
  <1>4. /\ caches' \in [Layers -> Caches]
        /\ \A l \in Layers : /\ WellFormed(mode', caches'[l])
                             /\ caches'[l].offset = caches[l].offset + n
        /\ RowsAtTheirPositions' /\ LayersAgree'
    BY <1>1, <1>2, ForwardAppends
  <1>5. /\ seqLen \in Nat
        /\ \A l \in Layers : /\ caches[l].offset \in Nat
                             /\ mode # "out_of_core" => seqLen <= caches[l].offset
    BY InLayer DEF StackInv, TypeOK
  <1>6. Len(input') = n
    BY <1>1
  <1> HIDE DEF n
  <1>7. TypeOK'
    BY <1>1, <1>2, <1>4 DEF TypeOK, StackInv
  <1>8. Lagging'
    <2>1. \A l \in Layers : seqLen' <= caches'[l].offset /\ seqLen' + n <= caches'[l].offset
      BY <1>1, <1>2, <1>4, <1>5
    <2> QED
      BY <1>1, <1>3, <1>4, <1>6, <2>1 DEF Lagging
  <1>9. StreamKeepsEverything'
    BY <1>1 DEF StreamKeepsEverything
  <1> QED
    BY <1>4, <1>7, <1>8, <1>9 DEF StackInv

\* A failed pass leaves the layers out of step, but each of them in order.
LEMMA FeedFailsStep ==
  ASSUME StackInv, NEW tokens \in Batches, NEW n \in 0 .. NumLayers, FeedFails(tokens, n)
  PROVE  StackInv'
  <1>1. /\ MayFeed(tokens) /\ ForwardFails(tokens, n) /\ seqLen' = seqLen
        /\ mode' = mode /\ verifying' = verifying /\ closed' = closed
    BY DEF FeedFails
  <1>2. tokens \in Seq(Vocab) /\ Len(tokens) \in Nat
    BY BatchesAreTexts, LenProperties
  <1>3. failures' = failures + 1 /\ input' = tokens
    BY <1>1 DEF ForwardFails
  <1>4. PICK c \in IF n < NumLayers THEN FailedUpdates(mode, caches[n + 1], tokens) ELSE {Empty} :
          caches' = [l \in Layers |-> IF l <= n THEN Update(mode, caches[l], tokens)
                                      ELSE IF l = n + 1 THEN c ELSE caches[l]]
    BY <1>1 DEF ForwardFails
  <1>5. failures \in Nat /\ ~sound' /\ failures' \in Nat
    <2>1. failures \in Nat
      BY DEF StackInv, TypeOK
    <2> QED
      BY <1>3, <2>1 DEF sound
  <1>6. ASSUME NEW l \in Layers
        PROVE  /\ caches'[l] \in Caches /\ WellFormed(mode, caches'[l])
               /\ mode # "out_of_core" => seqLen <= caches'[l].offset
    <2>1. /\ mode \in Modes /\ caches[l] \in Caches /\ WellFormed(mode, caches[l])
          /\ seqLen \in Nat /\ caches[l].offset \in Nat
          /\ mode # "out_of_core" => seqLen <= caches[l].offset
      BY InLayer
    <2> DEFINE b == caches[l]
    <2>2. b \in Caches /\ WellFormed(mode, b)
      BY <2>1
    <2>3. CASE l <= n
      <3>1. caches'[l] = Update(mode, b, tokens)
        BY <1>4, <2>3
      <3> HIDE DEF b
      <3>2. /\ Update(mode, b, tokens) \in Caches
            /\ WellFormed(mode, Update(mode, b, tokens))
            /\ Update(mode, b, tokens).offset = b.offset + Len(tokens)
        BY <1>2, <2>1, <2>2, Updated
      <3>3. mode # "out_of_core" => seqLen <= b.offset + Len(tokens)
        BY <1>2, <2>1 DEF b
      <3> QED
        BY <3>1, <3>2, <3>3
    <2>4. CASE l = n + 1
      <3>1. n < NumLayers /\ ~(l <= n)
        BY <2>4, StackAssumption DEF Layers
      <3>2. caches'[l] = c /\ c \in FailedUpdates(mode, b, tokens)
        BY <1>4, <2>4, <3>1
      <3> HIDE DEF b
      <3>3. c \in Caches /\ WellFormed(mode, c) /\ c.offset = b.offset
        BY <1>2, <2>1, <2>2, <3>2, FailedUpdated
      <3> QED
        BY <2>1, <3>2, <3>3 DEF b
    <2>5. CASE ~(l <= n) /\ l # n + 1
      <3>1. caches'[l] = caches[l]
        BY <1>4, <2>5
      <3> QED
        BY <2>1, <3>1
    <2> QED
      BY <2>3, <2>4, <2>5
  <1>7. caches' \in [Layers -> Caches]
    <2>1. caches' = [l \in Layers |-> caches'[l]]
      BY <1>4
    <2> QED
      BY <1>6, <2>1
  <1>8. TypeOK'
    BY <1>1, <1>2, <1>3, <1>5, <1>7 DEF TypeOK, StackInv
  <1>9. Lagging'
    <2>1. ~verifying'
      BY <1>1 DEF MayFeed
    <2> QED
      BY <1>1, <1>6, <2>1 DEF Lagging
  <1>10. RowsAtTheirPositions' /\ StreamKeepsEverything' /\ LayersAgree'
    BY <1>5 DEF RowsAtTheirPositions, StreamKeepsEverything, LayersAgree
  <1> QED
    BY <1>8, <1>9, <1>10 DEF StackInv

\* A cut is within the rows of every layer, whatever failed before.
LEMMA CutIsTruncation ==
  ASSUME StackInv, NEW keep \in 1 .. Len(input), CutBack(keep), NEW l \in Layers
  PROVE  /\ mode # "out_of_core" /\ ~closed
         /\ seqLen + keep \in Nat /\ seqLen + keep <= caches[l].offset
         /\ caches'[l] = Truncate(mode, caches[l], seqLen + keep)
         /\ caches'[l] \in Caches /\ WellFormed(mode, caches'[l])
         /\ caches'[l].offset = seqLen + keep
  <1> DEFINE len == seqLen + keep
             b == caches[l]
  <1>1. /\ mode \in Modes /\ b \in Caches /\ WellFormed(mode, b)
        /\ seqLen \in Nat /\ b.offset \in Nat
    BY InLayer
  <1>2. verifying /\ mode # "out_of_core" /\ ~closed /\ seqLen + Len(input) <= b.offset
    BY DEF CutBack, StackInv, Lagging
  <1>3. Len(input) \in Nat
    BY LenProperties DEF StackInv, TypeOK
  <1>4. len \in Nat /\ len <= b.offset
    BY <1>1, <1>2, <1>3
  <1>5. caches'[l] = Truncate(mode, b, len)
    BY DEF CutBack
  <1> HIDE DEF b, len
  <1>6. /\ Truncate(mode, b, len) \in Caches /\ WellFormed(mode, Truncate(mode, b, len))
        /\ Truncate(mode, b, len).offset = len
    BY <1>1, <1>2, <1>4, Truncated
  <1> QED
    BY <1>2, <1>4, <1>5, <1>6 DEF b, len

LEMMA CutBackStep ==
  ASSUME StackInv, NEW keep \in 1 .. Len(input), CutBack(keep) PROVE StackInv'
  <1> DEFINE len == seqLen + keep
  <1>1. /\ seqLen' = len /\ verifying' = FALSE /\ mode' = mode /\ input' = input
        /\ closed' = closed /\ failures' = failures
    BY DEF CutBack
  <1>2. \A l \in Layers :
          /\ mode # "out_of_core" /\ ~closed /\ len \in Nat /\ len <= caches[l].offset
          /\ caches'[l] = Truncate(mode, caches[l], len)
          /\ caches'[l] \in Caches /\ WellFormed(mode, caches'[l]) /\ caches'[l].offset = len
    BY CutIsTruncation
  <1>3. 1 \in Layers
    BY StackAssumption DEF Layers
  <1>4. mode # "out_of_core" /\ ~closed /\ len \in Nat
    BY <1>2, <1>3
  <1> HIDE DEF len
  <1>5. caches' \in [Layers -> Caches]
    <2>1. caches' = [l \in Layers |-> caches'[l]]
      BY DEF CutBack
    <2> QED
      BY <1>2, <2>1
  <1>6. TypeOK'
    BY <1>1, <1>4, <1>5 DEF TypeOK, StackInv
  <1>7. Lagging'
    BY <1>1, <1>2, <1>4 DEF Lagging
  <1>8. RowsAtTheirPositions'
    <2>1. ASSUME sound', NEW l \in Layers PROVE Rotated(mode', caches'[l])
      <3> DEFINE b == caches[l]
      <3>1. mode \in Modes /\ b \in Caches /\ WellFormed(mode, b) /\ RowsAtTheirPositions
        BY InLayer
      <3>2. sound
        BY <1>1, <2>1 DEF sound
      <3>3. Rotated(mode, b)
        BY <3>1, <3>2, PerLayer
      <3>4. len <= b.offset /\ caches'[l] = Truncate(mode, b, len)
        BY <1>2
      <3> HIDE DEF b
      <3>5. Rotated(mode, Truncate(mode, b, len))
        BY <1>4, <3>1, <3>3, <3>4, TruncatedRotated
      <3> QED
        BY <1>1, <3>4, <3>5
    <2> QED
      BY <2>1, PerLayer
  <1>9. StreamKeepsEverything'
    BY <1>1, <1>4 DEF StreamKeepsEverything
  <1>10. LayersAgree'
    <2>1. ASSUME NEW l \in Layers PROVE Text(l)' = SubSeq(Text(l), 1, len)
      <3> DEFINE b == caches[l]
      <3>1. mode \in Modes /\ b \in Caches /\ WellFormed(mode, b)
        BY InLayer
      <3>2. len <= b.offset /\ caches'[l] = Truncate(mode, b, len)
        BY <1>2
      <3>3. Text(l) = Tokens(Held(mode, b)) /\ Text(l)' = Tokens(Held(mode', caches'[l]))
        BY PerLayer
      <3> HIDE DEF b
      <3>4. Tokens(Held(mode, Truncate(mode, b, len))) = SubSeq(Tokens(Held(mode, b)), 1, len)
        BY <1>4, <3>1, <3>2, HeldTruncated
      <3> QED
        BY <1>1, <3>2, <3>3, <3>4
    <2>2. ASSUME sound', NEW l \in Layers, NEW k \in Layers PROVE Text(l)' = Text(k)'
      <3>1. sound
        BY <1>1, <2>2 DEF sound
      <3>2. Text(l) = Text(k)
        BY <1>4, <3>1 DEF StackInv, LayersAgree
      <3> QED
        BY <2>1, <3>2
    <2> QED
      BY <2>2 DEF LayersAgree
  <1> QED
    BY <1>6, <1>7, <1>8, <1>9, <1>10 DEF StackInv

LEMMA AcceptAllStep == ASSUME StackInv, AcceptAll PROVE StackInv'
  <1>1. /\ verifying' = FALSE /\ mode' = mode /\ caches' = caches /\ seqLen' = seqLen
        /\ input' = input /\ closed' = closed /\ failures' = failures
    BY DEF AcceptAll
  <1>2. TypeOK'
    BY <1>1 DEF TypeOK, StackInv
  <1>3. Lagging'
    BY <1>1 DEF Lagging, StackInv
  <1>4. RowsAtTheirPositions' /\ StreamKeepsEverything' /\ LayersAgree'
    BY <1>1 DEF StackInv, RowsAtTheirPositions, StreamKeepsEverything, LayersAgree,
                sound, ViewOf, Text
  <1> QED
    BY <1>2, <1>3, <1>4 DEF StackInv

LEMMA ResetStep == ASSUME StackInv, Reset PROVE StackInv'
  <1>1. /\ caches' = [l \in Layers |-> Empty] /\ seqLen' = 0 /\ failures' = 0
        /\ mode' = mode /\ input' = input /\ ~verifying
        /\ verifying' = verifying /\ closed' = closed
    BY DEF Reset
  <1>2. mode' \in Modes
    BY <1>1 DEF StackInv, TypeOK
  <1>3. /\ Empty \in Caches /\ WellFormed(mode', Empty) /\ Empty.offset = 0
    BY <1>2, EmptyCache
  <1>4. caches' \in [Layers -> Caches]
    BY <1>1, <1>3
  <1>5. TypeOK'
    BY <1>1, <1>2, <1>4 DEF TypeOK, StackInv
  <1>6. Lagging'
    BY <1>1, <1>3 DEF Lagging
  <1>7. RowsAtTheirPositions' /\ StreamKeepsEverything' /\ LayersAgree'
    BY <1>1, <1>2, EmptyStackNext
  <1> QED
    BY <1>5, <1>6, <1>7 DEF StackInv

\* A reset that fails empties some layers; none of those it leaves may be cut.
LEMMA ResetFailsStep ==
  ASSUME StackInv, NEW n \in 0 .. NumLayers - 1, ResetFails(n) PROVE StackInv'
  <1>1. /\ mode = "out_of_core" /\ mode' = mode /\ seqLen' = seqLen /\ input' = input
        /\ ~verifying /\ verifying' = verifying /\ closed' = closed
        /\ failures' = failures + 1
    BY DEF ResetFails
  <1>2. failures \in Nat /\ ~sound' /\ failures' \in Nat
    <2>1. failures \in Nat
      BY DEF StackInv, TypeOK
    <2> QED
      BY <1>1, <2>1 DEF sound
  <1>3. caches' = [l \in Layers |->
                    IF l <= n THEN Empty
                    ELSE IF l = n + 1
                      THEN [Empty EXCEPT !.fileK = caches[l].fileK, !.fileV = caches[l].fileV]
                      ELSE caches[l]]
    BY DEF ResetFails
  <1>4. Empty \in Caches /\ WellFormed(mode, Empty)
    BY <1>1, EmptyCache DEF Modes
  <1>5. ASSUME NEW l \in Layers PROVE caches'[l] \in Caches /\ WellFormed(mode, caches'[l])
    <2> DEFINE b == caches[l]
               e == [Empty EXCEPT !.fileK = b.fileK, !.fileV = b.fileV]
    <2>1. b \in Caches /\ WellFormed(mode, b)
      BY InLayer
    <2>2. caches'[l] = Empty \/ caches'[l] = e \/ caches'[l] = b
      BY <1>3
    <2> HIDE DEF b
    <2>3. b.fileK \in Seq(Rows) /\ b.fileV \in Seq(Rows)
      BY <2>1, CacheFields
    <2>4. e \in Caches /\ e.buf = Empty.buf
      BY <1>4, <2>3 DEF Caches
    <2> HIDE DEF e
    <2>5. WellFormed(mode, e)
      BY <1>1, <1>4, <2>4 DEF WellFormed
    <2> QED
      BY <1>4, <2>1, <2>2, <2>4, <2>5
  <1>6. caches' \in [Layers -> Caches]
    <2>1. caches' = [l \in Layers |-> caches'[l]]
      BY <1>3
    <2> QED
      BY <1>5, <2>1
  <1>7. TypeOK'
    BY <1>1, <1>2, <1>6 DEF TypeOK, StackInv
  <1>8. Lagging'
    BY <1>1, <1>5 DEF Lagging
  <1>9. RowsAtTheirPositions' /\ StreamKeepsEverything' /\ LayersAgree'
    BY <1>2 DEF RowsAtTheirPositions, StreamKeepsEverything, LayersAgree
  <1> QED
    BY <1>7, <1>8, <1>9 DEF StackInv

LEMMA CloseStep == ASSUME StackInv, Close PROVE StackInv'
  <1>1. /\ closed' = TRUE /\ mode' = mode /\ seqLen' = seqLen /\ input' = input
        /\ ~verifying /\ verifying' = verifying /\ failures' = failures
        /\ caches' = [l \in Layers |-> [caches[l] EXCEPT !.fileK = <<>>, !.fileV = <<>>]]
    BY DEF Close
  <1>2. ASSUME NEW l \in Layers
        PROVE  /\ caches'[l] \in Caches /\ WellFormed(mode, caches'[l])
               /\ caches'[l].offset = caches[l].offset
               /\ View(mode, caches'[l]) = View(mode, caches[l])
    <2> DEFINE b == caches[l]
               d == caches'[l]
    <2>1. b \in Caches /\ WellFormed(mode, b)
      BY InLayer
    <2>2. d = [b EXCEPT !.fileK = <<>>, !.fileV = <<>>]
      BY <1>1
    <2> HIDE DEF b, d
    <2>3. <<>> \in Seq(Rows)
      BY EmptySeq
    <2>4. d \in Caches
      BY <2>1, <2>2, <2>3 DEF Caches
    <2>5. d.buf = b.buf /\ d.offset = b.offset /\ d.capacity = b.capacity
      BY <2>1, <2>2 DEF Caches
    <2>6. WellFormed(mode, d) /\ View(mode, d) = View(mode, b)
      BY <2>1, <2>5 DEF WellFormed, View
    <2> QED
      BY <2>4, <2>5, <2>6 DEF b, d
  <1>3. caches' \in [Layers -> Caches]
    <2>1. caches' = [l \in Layers |-> caches'[l]]
      BY <1>1
    <2> QED
      BY <1>2, <2>1
  <1>4. TypeOK'
    BY <1>1, <1>3 DEF TypeOK, StackInv
  <1>5. Lagging'
    BY <1>1, <1>2 DEF Lagging, StackInv
  <1>6. RowsAtTheirPositions'
    <2>1. ASSUME sound', NEW l \in Layers PROVE Rotated(mode', caches'[l])
      <3>1. sound
        BY <1>1, <2>1 DEF sound
      <3>2. Rotated(mode, caches[l])
        BY <3>1, InLayer, PerLayer
      <3> QED
        BY <1>1, <1>2, <3>2 DEF Rotated
    <2> QED
      BY <2>1, PerLayer
  <1>7. StreamKeepsEverything' /\ LayersAgree'
    BY <1>1 DEF StreamKeepsEverything, LayersAgree
  <1> QED
    BY <1>4, <1>5, <1>6, <1>7 DEF StackInv

LEMMA StutterStep == ASSUME StackInv, UNCHANGED vars PROVE StackInv'
  <1>1. /\ mode' = mode /\ caches' = caches /\ seqLen' = seqLen /\ input' = input
        /\ verifying' = verifying /\ closed' = closed /\ failures' = failures
    BY DEF vars
  <1>2. TypeOK' /\ Lagging'
    BY <1>1 DEF TypeOK, Lagging, StackInv
  <1>3. RowsAtTheirPositions'
    BY <1>1 DEF StackInv, RowsAtTheirPositions, sound, ViewOf
  <1>4. StreamKeepsEverything'
    BY <1>1 DEF StackInv, StreamKeepsEverything, sound
  <1>5. LayersAgree'
    BY <1>1 DEF StackInv, LayersAgree, sound, ViewOf, Text
  <1> QED
    BY <1>2, <1>3, <1>4, <1>5 DEF StackInv

\* Type correctness and the state of every layer, for any number of layers, any
\* vocabulary and capacity, and any passes, failures, cuts and resets.
THEOREM StackInvariant == Spec => []StackInv
  <1>1. Init => StackInv
    BY InitStack
  <1>2. StackInv /\ [Next]_vars => StackInv'
    <2> SUFFICES ASSUME StackInv, [Next]_vars PROVE StackInv'
      OBVIOUS
    <2>1. ASSUME NEW tokens \in Batches, Feed(tokens) PROVE StackInv'
      BY <2>1, FeedStep
    <2>2. ASSUME NEW tokens \in Batches, Burst(tokens) PROVE StackInv'
      BY <2>2, BurstStep
    <2>3. ASSUME NEW tokens \in Batches, NEW n \in 0 .. NumLayers, FeedFails(tokens, n)
          PROVE  StackInv'
      BY <2>3, FeedFailsStep
    <2>4. ASSUME NEW keep \in 1 .. Len(input), CutBack(keep) PROVE StackInv'
      BY <2>4, CutBackStep
    <2>5. CASE AcceptAll
      BY <2>5, AcceptAllStep
    <2>6. CASE Reset
      BY <2>6, ResetStep
    <2>7. CASE Close
      BY <2>7, CloseStep
    <2>8. ASSUME NEW n \in 0 .. NumLayers - 1, ResetFails(n) PROVE StackInv'
      BY <2>8, ResetFailsStep
    <2>9. CASE UNCHANGED vars
      BY <2>9, StutterStep
    <2> QED
      BY <2>1, <2>2, <2>3, <2>4, <2>5, <2>6, <2>7, <2>8, <2>9 DEF Next
  <1> QED
    BY <1>1, <1>2, PTL DEF Spec

THEOREM StackTypeCorrect == Spec => []TypeOK
  <1>1. StackInv => TypeOK
    BY DEF StackInv
  <1> QED
    BY <1>1, StackInvariant, PTL

\* Attention never reads a row nobody wrote: the counter that truncation sets
\* every offset from is never ahead of a layer that may be cut, even after
\* failed passes.
THEOREM AttentionSeesWrittenRows == Spec => []NoUnwrittenRows
  <1>1. StackInv => NoUnwrittenRows
    <2> SUFFICES ASSUME StackInv, NEW l \in Layers
                 PROVE  /\ mode # "out_of_core" => seqLen <= caches[l].offset
                        /\ mode = "in_ram" => caches[l].offset <= Len(caches[l].buf)
                        /\ \A i \in 1 .. Len(ViewOf(l)) : ViewOf(l)[i] # Unwritten
      BY DEF NoUnwrittenRows
    <2>1. mode \in Modes /\ caches[l] \in Caches /\ WellFormed(mode, caches[l])
      BY InLayer
    <2>2. mode # "out_of_core" => seqLen <= caches[l].offset
      BY InLayer
    <2>3. mode = "in_ram" => caches[l].offset <= Len(caches[l].buf)
      BY <2>1 DEF WellFormed
    <2>4. ViewOf(l) \in Seq(Rows)
      BY <2>1, ViewIs DEF ViewOf
    <2>5. \A i \in 1 .. Len(ViewOf(l)) : ViewOf(l)[i] # Unwritten
      BY <2>4, ElementOfSeq, RowsAreWritten
    <2> QED
      BY <2>2, <2>3, <2>5
  <1> QED
    BY <1>1, StackInvariant, PTL

\* The keys attention reads were rotated by their positions in the text.
THEOREM KeysAtTheirPositions == Spec => []RowsAtTheirPositions
  <1>1. StackInv => RowsAtTheirPositions
    BY DEF StackInv
  <1> QED
    BY <1>1, StackInvariant, PTL

\* Between them, window and disk lose no token.
THEOREM NothingEvictedIsLost == Spec => []StreamKeepsEverything
  <1>1. StackInv => StreamKeepsEverything
    BY DEF StackInv
  <1> QED
    BY <1>1, StackInvariant, PTL

-----------------------------------------------------------------------------
(* The stack is a log of tokens.                                           *)

\* While the promise holds, the log is the text of any layer.
LEMMA LogIsText ==
  /\ StackInv /\ sound /\ ~closed => \A l \in Layers : Log = Text(l)
  /\ StackInv' /\ sound' /\ ~closed' => \A l \in Layers : Log' = Text(l)'
  <1>1. 1 \in Layers
    BY StackAssumption DEF Layers
  <1>2. ASSUME StackInv, sound, ~closed, NEW l \in Layers PROVE Log = Text(l)
    <2>1. \A k \in Layers : Text(k) = Text(1)
      BY <1>1, <1>2 DEF StackInv, LayersAgree
    <2> QED
      BY <2>1 DEF Log
  <1>3. ASSUME StackInv', sound', ~closed', NEW l \in Layers PROVE Log' = Text(l)'
    <2>1. \A k \in Layers : Text(k)' = Text(1)'
      BY <1>1, <1>3 DEF StackInv, LayersAgree
    <2> QED
      BY <2>1 DEF Log
  <1> QED
    BY <1>2, <1>3

LEMMA InitIsLog == Init => TheLog!LogInit
  <1> SUFFICES ASSUME Init PROVE TheLog!LogInit
    OBVIOUS
  <1>1. mode \in Modes /\ caches = [l \in Layers |-> Empty] /\ failures = 0 /\ closed = FALSE
    BY DEF Init
  <1>2. 1 \in Layers
    BY StackAssumption DEF Layers
  <1>3. Log = Text(1)
    BY <1>1, <1>2, InitStack, LogIsText DEF sound
  <1>4. Text(1) = <<>>
    BY <1>1, <1>2, EmptyCache, PerLayer
  <1> QED
    BY <1>1, <1>3, <1>4 DEF TheLog!LogInit, sound

\* Every step extends, cuts, clears or tears the log, or leaves it alone.
LEMMA LogStep ==
  ASSUME StackInv, StackInv', [Next]_vars
  PROVE  [TheLog!Extend \/ TheLog!Cut \/ TheLog!Tear \/ TheLog!Clear]_<<Log, sound /\ ~closed>>
  <1> DEFINE Step == [TheLog!Extend \/ TheLog!Cut \/ TheLog!Tear \/ TheLog!Clear]_<<Log, sound /\ ~closed>>
             ok == sound /\ ~closed
  <1>1. 1 \in Layers
    BY StackAssumption DEF Layers
  <1>2. ASSUME ~(sound' /\ ~closed') PROVE Step
    BY <1>2 DEF TheLog!Tear
  <1>3. ASSUME NEW tokens \in Batches, MayFeed(tokens), Forward(tokens),
               mode' = mode, closed' = closed, failures' = failures
        PROVE  Step
    <2>1. tokens \in Seq(Vocab) /\ input' = tokens
      BY <1>3, BatchesAreTexts DEF Forward
    <2>2. Text(1)' = Text(1) \o tokens
      BY <1>1, <1>3, <2>1, ForwardAppends
    <2>3. CASE sound' /\ ~closed'
      <3>1. sound /\ ~closed
        BY <1>3, <2>3 DEF sound
      <3>2. Log = Text(1) /\ Log' = Text(1)'
        BY <1>1, <2>3, <3>1, LogIsText
      <3>3. TheLog!Extend
        BY <2>1, <2>2, <2>3, <3>1, <3>2 DEF TheLog!Extend
      <3> QED
        BY <3>3
    <2> QED
      BY <1>2, <2>3
  <1>4. ASSUME NEW tokens \in Batches, Feed(tokens) \/ Burst(tokens) PROVE Step
    <2>1. /\ MayFeed(tokens) /\ Forward(tokens)
          /\ mode' = mode /\ closed' = closed /\ failures' = failures
      BY <1>4 DEF Feed, Burst
    <2> QED
      BY <1>3, <2>1
  <1>5. ASSUME NEW tokens \in Batches, NEW n \in 0 .. NumLayers, FeedFails(tokens, n) PROVE Step
    <2>1. failures \in Nat /\ failures' = failures + 1
      BY <1>5 DEF FeedFails, ForwardFails, StackInv, TypeOK
    <2>2. ~sound'
      BY <2>1 DEF sound
    <2> QED
      BY <1>2, <2>2
  <1>6. ASSUME NEW keep \in 1 .. Len(input), CutBack(keep) PROVE Step
    <2>1. CASE sound' /\ ~closed'
      <3> DEFINE b == caches[1]
                 len == seqLen + keep
      <3>1. sound /\ ~closed /\ mode' = mode /\ input' = input
        BY <1>6, <2>1 DEF sound, CutBack
      <3>2. /\ mode # "out_of_core" /\ len \in Nat /\ len <= b.offset
            /\ caches'[1] = Truncate(mode, b, len)
        BY <1>1, <1>6, CutIsTruncation
      <3>3. mode \in Modes /\ b \in Caches /\ WellFormed(mode, b)
        BY <1>1, InLayer
      <3>4. Log = Text(1) /\ Log' = Text(1)'
        BY <1>1, <2>1, <3>1, LogIsText
      <3>5. Text(1) = Tokens(Held(mode, b)) /\ Text(1)' = Tokens(Held(mode', caches'[1]))
        BY PerLayer
      <3> HIDE DEF b, len
      <3>6. /\ len <= Len(Tokens(Held(mode, b)))
            /\ Tokens(Held(mode, Truncate(mode, b, len))) = SubSeq(Tokens(Held(mode, b)), 1, len)
        BY <3>2, <3>3, HeldTruncated
      <3>7. Held(mode, b) \in Seq(Rows)
        BY <3>3, HeldIs
      <3>8. Len(Tokens(Held(mode, b))) \in Nat
        BY <3>7, TokensOf, LenProperties
      <3>9. len \in 0 .. Len(Log) /\ Log' = SubSeq(Log, 1, len)
        BY <3>1, <3>2, <3>4, <3>5, <3>6, <3>8
      <3>10. TheLog!Cut
        BY <2>1, <3>1, <3>9 DEF TheLog!Cut
      <3> QED
        BY <3>10
    <2> QED
      BY <1>2, <2>1
  <1>7. ASSUME UNCHANGED <<mode, caches, closed, failures>> PROVE Step
    <2>1. \A l \in Layers : Text(l)' = Text(l)
      BY <1>7 DEF Text, ViewOf
    <2>2. Log' = Log
      BY <1>1, <1>7, <2>1 DEF Log, Text, ViewOf
    <2> QED
      BY <1>7, <2>2 DEF sound
  <1>8. ASSUME Reset PROVE Step
    <2>1. /\ caches' = [l \in Layers |-> Empty] /\ failures' = 0 /\ mode' = mode
          /\ ~closed /\ closed' = closed
      BY <1>8 DEF Reset
    <2>2. sound' /\ ~closed' /\ mode' \in Modes
      BY <2>1 DEF sound, StackInv, TypeOK
    <2>3. Log' = Text(1)'
      BY <1>1, <2>2, LogIsText
    <2>4. Text(1)' = <<>>
      BY <1>1, <2>1, <2>2, EmptyCache, PerLayer
    <2>5. TheLog!Clear
      BY <2>2, <2>3, <2>4 DEF TheLog!Clear
    <2> QED
      BY <2>5
  <1>9. ASSUME Close PROVE Step
    BY <1>2, <1>9 DEF Close
  <1>10. ASSUME NEW n \in 0 .. NumLayers - 1, ResetFails(n) PROVE Step
    <2>1. failures \in Nat /\ failures' = failures + 1
      BY <1>10 DEF ResetFails, StackInv, TypeOK
    <2>2. ~sound'
      BY <2>1 DEF sound
    <2> QED
      BY <1>2, <2>2
  <1> QED
    BY <1>4, <1>5, <1>6, <1>7, <1>8, <1>9, <1>10 DEF Next, vars, AcceptAll

\* The caches of all layers are one log of tokens, for every number of layers.
THEOREM StackIsTokenLog == Spec => ImplementsTokenLog
  <1>1. Init => TheLog!LogInit
    BY InitIsLog
  <1>2. StackInv /\ StackInv' /\ [Next]_vars =>
          [TheLog!Extend \/ TheLog!Cut \/ TheLog!Tear \/ TheLog!Clear]_<<Log, sound /\ ~closed>>
    BY LogStep
  <1> QED
    BY <1>1, <1>2, StackInvariant, PTL DEF Spec, ImplementsTokenLog, TheLog!LogSpec
=============================================================================
