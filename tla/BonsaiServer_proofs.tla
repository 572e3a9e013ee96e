------------------------- MODULE BonsaiServer_proofs -------------------------
(***************************************************************************)
(* Theorems about BonsaiServer, for every set of requests and any number   *)
(* of lines: types, and what a client can be sent.                         *)
(***************************************************************************)
EXTENDS BonsaiServer, TLAPS

\* What a handler writes, one item at a time or a whole answer.
Writes == {<<>>} \cup {<<x>> : x \in Items} \cup {<<x, "body">> : x \in Statuses}

LEMMA ItemNames ==
  /\ {"200", "204", "400", "401", "404"} = Statuses /\ Statuses \subseteq Items
  /\ {"body", "backend_done", "local_done", "backend_line", "delta"} \subseteq Items
  BY DEF Items, Statuses, Ends

LEMMA WritesAreItems == Writes \subseteq Seq(Items)
  <1>1. ASSUME NEW x \in Items PROVE <<x>> \in Seq(Items)
    OBVIOUS
  <1>2. ASSUME NEW x \in Items, NEW y \in Items PROVE <<x, y>> \in Seq(Items)
    OBVIOUS
  <1>3. Statuses \subseteq Items /\ "body" \in Items
    BY ItemNames
  <1>4. <<>> \in Seq(Items)
    OBVIOUS
  <1> QED
    BY <1>1, <1>2, <1>3, <1>4 DEF Writes

LEMMA Appended ==
  ASSUME wire \in Seq(Items), NEW items \in Seq(Items)
  PROVE  wire \o items \in Seq(Items)
  OBVIOUS

\* What a write leaves unchanged, where it leads, and that it writes items.
LEMMA SendTypes ==
  ASSUME TypeOK, NEW items \in Writes, NEW next, NEW raised, Send(items, next, raised)
  PROVE  /\ UNCHANGED <<req, engine, client>> /\ pc' \in {next, raised}
         /\ wire' \in Seq(Items)
  <1>1. wire \in Seq(Items)
    BY DEF TypeOK
  <1>2. items \in Seq(Items)
    BY WritesAreItems
  <1>3. wire \o items \in Seq(Items)
    BY <1>1, <1>2, Appended
  <1>4. wire' = wire \o items \/ wire' = wire
    BY <1>1 DEF Send
  <1>5. UNCHANGED <<req, engine, client>> /\ pc' \in {next, raised}
    BY <1>1 DEF Send
  <1> QED
    BY <1>1, <1>3, <1>4, <1>5

LEMMA OneItem == ASSUME NEW x \in Items PROVE <<x>> \in Writes
  BY DEF Writes

LEMMA AnswerTypes ==
  ASSUME TypeOK, NEW status \in Statuses, Answer(status)
  PROVE  /\ UNCHANGED <<req, engine, client>> /\ pc' \in {"done", "dropped"}
         /\ wire' \in Seq(Items)
  <1>1. <<status, "body">> \in Writes
    BY DEF Writes
  <1> QED
    BY <1>1, SendTypes DEF Answer

-----------------------------------------------------------------------------
LEMMA TypeStep == TypeOK /\ [Next]_vars => TypeOK'
  <1> SUFFICES ASSUME TypeOK, [Next]_vars PROVE TypeOK'
    OBVIOUS
  <1> DEFINE Moves(places) == /\ UNCHANGED <<req, engine, client>> /\ pc' \in places
                              /\ wire' \in Seq(Items)
             Still == UNCHANGED backend /\ backend # "data"
  <1>0. wire \in Seq(Items)
    BY DEF TypeOK
  <1>w. \A x \in {"200", "204", "backend_line", "backend_done", "delta", "local_done"} :
          <<x>> \in Writes
    BY OneItem, ItemNames
  <1>n. <<>> \in Writes
    BY DEF Writes
  <1>b. <<"200", "body">> \in Writes
    BY ItemNames DEF Writes
  <1>1. CASE Options \/ Get \/ Refuse \/ Malformed
    <2>1. Options => Moves({"done", "dropped"})
      BY <1>w, SendTypes DEF Options
    <2>2. Get => Moves({"done", "dropped"})
      BY AnswerTypes, ItemNames DEF Get
    <2>3. Refuse => Moves({"done", "dropped"})
      BY AnswerTypes, ItemNames DEF Refuse
    <2>4. Malformed => Moves({"done", "dropped"})
      BY AnswerTypes, ItemNames DEF Malformed
    <2>5. Still
      BY <1>1 DEF Options, Get, Refuse, Malformed, Post, TypeOK
    <2> QED
      BY <1>1, <2>1, <2>2, <2>3, <2>4, <2>5 DEF TypeOK
  <1>2. CASE ReadLength \/ Accept \/ Connect \/ EngineFails
    <2>1. Still
      BY <1>2 DEF ReadLength, Accept, Connect, EngineFails, Post, TypeOK
    <2> QED
      BY <1>2, <1>0, <2>1 DEF ReadLength, Accept, Connect, EngineFails, Goto, TypeOK
  <1>2a. CASE BackendEnds \/ BackendBreaks \/ ReadMore
    BY <1>2a, <1>0 DEF BackendEnds, BackendBreaks, ReadMore, Leave, Goto, TypeOK
  <1>3. CASE RelayHead \/ RelayLine \/ RelayDone
    <2>1. Moves({"relay", "fallback", "done"}) /\ pc \in {"head", "relay"}
      <3>1. CASE RelayHead
        BY <3>1, <1>w, SendTypes DEF RelayHead
      <3>2. CASE RelayLine
        <4>1. (IF Len(wire) <= MaxLines THEN <<"backend_line">> ELSE <<>>) \in Writes
          BY <1>w, <1>n
        <4> QED
          BY <3>2, <4>1, SendTypes DEF RelayLine
      <3>3. CASE RelayDone
        BY <3>3, <1>w, SendTypes DEF RelayDone
      <3> QED
        BY <1>3, <3>1, <3>2, <3>3
    <2>2. /\ backend' \in {"quiet", "data", "ended", "left"}
          /\ backend' = "data" => pc' = "relay"
      BY <1>3 DEF RelayHead, RelayLine, RelayDone, Leave, TypeOK
    <2> QED
      BY <2>1, <2>2 DEF TypeOK
  <1>4. CASE RelayBody
    <2>1. Moves({"done", "fallback"})
      BY <1>4, <1>b, SendTypes DEF RelayBody
    <2> QED
      BY <2>1, <1>4 DEF RelayBody, Leave, TypeOK
  <1>5. CASE Fallback
    <2>0. Still
      BY <1>5 DEF Fallback, TypeOK
    <2>1. CASE req.stream
      <3>1. Moves({"local", "dropped"})
        BY <1>5, <2>1, <1>w, SendTypes DEF Fallback
      <3> QED
        BY <3>1, <2>0, <2>1 DEF TypeOK
    <2>2. CASE ~req.stream
      BY <1>5, <1>0, <2>0, <2>2 DEF Fallback, Goto, TypeOK
    <2> QED
      BY <2>1, <2>2
  <1>6. CASE Delta \/ StreamEnds \/ Finish
    <2>1. Moves({"local", "finish", "done"}) /\ pc \in {"local", "finish"}
      BY <1>6, <1>0, <1>w, SendTypes DEF Delta, StreamEnds, Finish, Goto
    <2>2. Still
      BY <1>6 DEF Delta, StreamEnds, Finish, TypeOK
    <2> QED
      BY <2>1, <2>2 DEF TypeOK
  <1>7. CASE Echo
    <2>1. Moves({"finish", "dropped"}) /\ pc = "local"
      BY <1>7, <1>0, <1>w, SendTypes DEF Echo, Goto
    <2>2. Still
      BY <1>7 DEF Echo, TypeOK
    <2> QED
      BY <2>1, <2>2 DEF TypeOK
  <1>8. CASE Reply
    <2>1. Moves({"done", "dropped"})
      BY <1>8, <1>0, AnswerTypes, ItemNames DEF Reply, Goto
    <2>2. Still
      BY <1>8 DEF Reply, TypeOK
    <2> QED
      BY <2>1, <2>2 DEF TypeOK
  <1>9. CASE Others \/ Closed \/ UNCHANGED vars
    BY <1>9 DEF Others, Stall, Resume, Hangup, Client, BackendSends, BackendCloses, Backend,
       Over, Closed, vars, TypeOK
  <1> QED
    BY <1>1, <1>2, <1>2a, <1>3, <1>4, <1>5, <1>6, <1>7, <1>8, <1>9 DEF Next, Handler

\* The types of requests, places and items, for every set of requests.
THEOREM TypeCorrect == Spec => []TypeOK
  <1>1. Init => TypeOK
    BY DEF Init, TypeOK
  <1> QED
    BY <1>1, TypeStep, PTL DEF Spec

-----------------------------------------------------------------------------
(* What a client that stays has been sent, at each place of the handler.   *)

\* The head and the lines of a backend, or nothing.
Relayed(w) ==
  w # <<>> => /\ req.stream /\ w[1] = "200"
              /\ \A j \in 2 .. Len(w) : w[j] = "backend_line"

\* A local stream has begun at h, behind what was relayed.
Answering(w, h) ==
  /\ h \in 1 .. Len(w) /\ w[h] = "200" /\ req.stream /\ w[1] = "200"
  /\ \A j \in 2 .. h - 1 : w[j] = "backend_line"
  /\ \A j \in h + 1 .. Len(w) : w[j] = "delta"

Sent ==
  /\ pc \in {"dispatch", "body", "connect", "head", "read", "reply"} => wire = <<>>
  /\ pc \in {"relay", "fallback"} => Relayed(wire)
  /\ pc = "relay" => wire # <<>>
  /\ pc \in {"local", "finish"} => \E h \in 1 .. Len(wire) : Answering(wire, h)
  /\ pc = "fallback" /\ ~req.stream => wire = <<>>

\* AnswersOnce, of any sequence of items.
Once(w) ==
  \A i \in 1 .. Len(w) :
    /\ w[i] \in Ends => i = Len(w)
    /\ w[i] \in Statuses /\ i > 1 =>
         /\ req.stream /\ w[1] = "200"
         /\ \A j \in 2 .. i - 1 : w[j] = "backend_line"
         /\ \A j \in i + 1 .. Len(w) : w[j] \in {"delta", "local_done"}

LEMMA SendOne ==
  ASSUME NEW w \in Seq(Items), NEW x \in Items
  PROVE  /\ w \o <<x>> \in Seq(Items) /\ Len(w) \in Nat
         /\ Len(w \o <<x>>) = Len(w) + 1
         /\ \A i \in 1 .. Len(w) : (w \o <<x>>)[i] = w[i]
         /\ (w \o <<x>>)[Len(w) + 1] = x
  OBVIOUS

\* One item, or an answer, after nothing.
LEMMA OnceFirst ==
  /\ \A x \in Items : Once(<<>> \o <<x>>)
  /\ \A x \in Statuses \ {"204"} : Once(<<>> \o <<x, "body">>)
  <1>1. ASSUME NEW x \in Items PROVE Once(<<>> \o <<x>>)
    <2> DEFINE v == <<>> \o <<x>>
    <2>1. Len(v) = 1
      OBVIOUS
    <2> HIDE DEF v
    <2> SUFFICES ASSUME NEW i \in 1 .. Len(v)
                 PROVE  i = Len(v) /\ ~(i > 1)
      BY DEF Once, v
    <2> QED
      BY <2>1
  <1>2. ASSUME NEW x \in Statuses \ {"204"} PROVE Once(<<>> \o <<x, "body">>)
    <2> DEFINE v == <<>> \o <<x, "body">>
    <2>1. Len(v) = 2 /\ v[1] = x /\ v[2] = "body"
      OBVIOUS
    <2> HIDE DEF v
    <2>2. v[1] \notin Ends /\ v[2] \notin Statuses
      BY <2>1 DEF Statuses, Ends
    <2>3. \A i \in 1 .. Len(v) : (v[i] \in Ends => i = Len(v)) /\ (v[i] \in Statuses => ~(i > 1))
      BY <2>1, <2>2
    <2> QED
      BY <2>3 DEF Once, v
  <1> QED
    BY <1>1, <1>2

\* What is neither the end of an answer nor its head.
LEMMA Inner ==
  /\ "200" \notin Ends
  /\ \A x \in {"backend_line", "delta"} : x \notin Ends /\ x \notin Statuses
  /\ \A x \in {"backend_done", "local_done"} : x \notin Statuses
  BY DEF Statuses, Ends

LEMMA OnceRelayed ==
  ASSUME NEW w \in Seq(Items), Relayed(w)
  PROVE  Once(w) /\ (w # <<>> => Once(w \o <<"backend_done">>))
  <1>1. CASE w = <<>>
    <2>1. Len(w) = 0
      BY <1>1
    <2> QED
      BY <1>1, <2>1 DEF Once
  <1>2. CASE w # <<>>
    <2>0. Len(w) \in Nat
      OBVIOUS
    <2>1. w[1] = "200" /\ \A j \in 2 .. Len(w) : w[j] = "backend_line"
      BY <1>2 DEF Relayed
    <2>2. \A i \in 1 .. Len(w) : w[i] \notin Ends /\ (w[i] \in Statuses => ~(i > 1))
      <3> TAKE i \in 1 .. Len(w)
      <3>1. CASE i = 1
        BY <3>1, <2>1, Inner
      <3>2. CASE i # 1
        <4>1. i \in 2 .. Len(w)
          BY <3>2, <2>0
        <4> QED
          BY <4>1, <2>1, Inner
      <3> QED
        BY <3>1, <3>2
    <2>3. Once(w)
      BY <2>2 DEF Once
    <2> DEFINE v == w \o <<"backend_done">>
    <2>4. /\ Len(v) = Len(w) + 1 /\ v[Len(w) + 1] = "backend_done"
          /\ \A i \in 1 .. Len(w) : v[i] = w[i]
      BY SendOne, ItemNames
    <2> HIDE DEF v
    <2>5. \A i \in 1 .. Len(v) : (v[i] \in Ends => i = Len(v)) /\ (v[i] \in Statuses => ~(i > 1))
      <3> TAKE i \in 1 .. Len(v)
      <3>1. CASE i = Len(v)
        BY <3>1, <2>0, <2>4, Inner
      <3>2. CASE i # Len(v)
        <4>1. i \in 1 .. Len(w) /\ v[i] = w[i]
          BY <3>2, <2>0, <2>4
        <4> QED
          BY <4>1, <2>2
      <3> QED
        BY <3>1, <3>2
    <2>6. Once(v)
      BY <2>5 DEF Once
    <2> QED
      BY <2>3, <2>6 DEF v
  <1> QED
    BY <1>1, <1>2

\* The shape of a local stream, with or without its end.
LEMMA OnceShape ==
  ASSUME NEW v, Len(v) \in Nat, NEW h \in 1 .. Len(v), NEW m \in {Len(v) - 1, Len(v)},
         h \in 1 .. m, v[h] = "200", req.stream, v[1] = "200",
         \A j \in 2 .. h - 1 : v[j] = "backend_line",
         \A j \in h + 1 .. m : v[j] = "delta",
         m = Len(v) \/ v[Len(v)] = "local_done"
  PROVE  Once(v)
  <1>1. \A j \in h + 1 .. Len(v) : v[j] \in {"delta", "local_done"}
    <2> TAKE j \in h + 1 .. Len(v)
    <2>1. CASE j \in h + 1 .. m
      BY <2>1
    <2>2. CASE j = Len(v) /\ m # Len(v)
      BY <2>2
    <2> QED
      BY <2>1, <2>2
  <1>2. ASSUME NEW i \in 1 .. Len(v), v[i] \in Ends PROVE i = Len(v)
    <2>1. CASE i = 1 \/ i = h
      BY <2>1, <1>2, Inner
    <2>2. CASE i \in 2 .. h - 1
      BY <2>2, <1>2, Inner
    <2>3. CASE i \in h + 1 .. m
      BY <2>3, <1>2, Inner
    <2> QED
      BY <2>1, <2>2, <2>3
  <1>3. ASSUME NEW i \in 1 .. Len(v), v[i] \in Statuses, i > 1 PROVE i = h
    <2>2. CASE i \in 2 .. h - 1
      BY <2>2, <1>3, Inner
    <2>3. CASE i \in h + 1 .. Len(v)
      BY <2>3, <1>1, <1>3, Inner
    <2> QED
      BY <2>2, <2>3, <1>3
  <1> QED
    BY <1>1, <1>2, <1>3 DEF Once

LEMMA OnceAnswering ==
  ASSUME NEW w \in Seq(Items), NEW h, Answering(w, h)
  PROVE  Once(w) /\ Once(w \o <<"local_done">>)
  <1>0. Len(w) \in Nat /\ h \in 1 .. Len(w)
    BY DEF Answering
  <1>1. Once(w)
    BY <1>0, OnceShape DEF Answering
  <1> DEFINE v == w \o <<"local_done">>
  <1>2. /\ Len(v) = Len(w) + 1 /\ v[Len(w) + 1] = "local_done"
        /\ \A i \in 1 .. Len(w) : v[i] = w[i]
    BY SendOne, ItemNames
  <1> HIDE DEF v
  <1>3. v[h] = "200" /\ v[1] = "200" /\ req.stream
    BY <1>0, <1>2 DEF Answering
  <1>4. \A j \in 2 .. h - 1 : v[j] = "backend_line"
    BY <1>0, <1>2 DEF Answering
  <1>5. \A j \in h + 1 .. Len(w) : v[j] = "delta"
    BY <1>0, <1>2 DEF Answering
  <1>6. Len(v) \in Nat /\ h \in 1 .. Len(v) /\ Len(w) = Len(v) - 1
    BY <1>0, <1>2
  <1>7. Once(v)
    BY <1>0, <1>2, <1>3, <1>4, <1>5, <1>6, OnceShape
  <1> QED
    BY <1>1, <1>7 DEF v
-----------------------------------------------------------------------------
(* How what was sent grows.                                                *)

LEMMA SendToClient ==
  ASSUME There, NEW items, NEW next, NEW raised, Send(items, next, raised)
  PROVE  wire' = wire \o items /\ pc' = next /\ UNCHANGED <<req, engine, client>>
  BY DEF Send

LEMMA RelayedGrows ==
  ASSUME NEW w \in Seq(Items), Relayed(w), req.stream
  PROVE  /\ w = <<>> => Relayed(w \o <<"200">>)
         /\ w # <<>> => Relayed(w \o <<"backend_line">>)
  <1>1. CASE w = <<>>
    <2> DEFINE v == w \o <<"200">>
    <2>1. Len(v) = 1 /\ v[1] = "200"
      BY <1>1
    <2> HIDE DEF v
    <2>2. Relayed(v)
      BY <2>1 DEF Relayed
    <2> QED
      BY <2>2, <1>1 DEF v
  <1>2. CASE w # <<>>
    <2> DEFINE v == w \o <<"backend_line">>
    <2>0. Len(w) \in Nat /\ Len(w) # 0
      BY <1>2
    <2>1. /\ Len(v) = Len(w) + 1 /\ v[Len(w) + 1] = "backend_line"
          /\ \A i \in 1 .. Len(w) : v[i] = w[i]
      BY SendOne, ItemNames
    <2>2. w[1] = "200" /\ \A j \in 2 .. Len(w) : w[j] = "backend_line"
      BY <1>2 DEF Relayed
    <2> HIDE DEF v
    <2>3. v[1] = "200" /\ \A j \in 2 .. Len(v) : v[j] = "backend_line"
      BY <2>0, <2>1, <2>2
    <2>4. Relayed(v)
      BY <2>3 DEF Relayed
    <2> QED
      BY <2>4, <1>2 DEF v
  <1> QED
    BY <1>1, <1>2

\* The head of a local answer, behind what was relayed.
LEMMA AnsweringBegins ==
  ASSUME NEW w \in Seq(Items), Relayed(w), req.stream
  PROVE  \E h \in 1 .. Len(w \o <<"200">>) : Answering(w \o <<"200">>, h)
  <1> DEFINE v == w \o <<"200">>
  <1>0. Len(w) \in Nat /\ (w = <<>> <=> Len(w) = 0)
    OBVIOUS
  <1>1. /\ Len(v) = Len(w) + 1 /\ v[Len(w) + 1] = "200"
        /\ \A i \in 1 .. Len(w) : v[i] = w[i]
    BY SendOne, ItemNames
  <1>2. Len(w) # 0 => w[1] = "200" /\ \A j \in 2 .. Len(w) : w[j] = "backend_line"
    BY <1>0 DEF Relayed
  <1> HIDE DEF v
  <1>3. v[1] = "200"
    BY <1>0, <1>1, <1>2
  <1>4. \A j \in 2 .. Len(w) : v[j] = "backend_line"
    BY <1>0, <1>1, <1>2
  <1>5. Answering(v, Len(v))
    BY <1>0, <1>1, <1>3, <1>4 DEF Answering
  <1>6. Len(v) \in 1 .. Len(v)
    BY <1>0, <1>1
  <1> QED
    BY <1>5, <1>6 DEF v

LEMMA AnsweringGrows ==
  ASSUME NEW w \in Seq(Items), NEW h \in 1 .. Len(w), Answering(w, h)
  PROVE  h \in 1 .. Len(w \o <<"delta">>) /\ Answering(w \o <<"delta">>, h)
  <1> DEFINE v == w \o <<"delta">>
  <1>0. Len(w) \in Nat
    OBVIOUS
  <1>1. /\ Len(v) = Len(w) + 1 /\ v[Len(w) + 1] = "delta"
        /\ \A i \in 1 .. Len(w) : v[i] = w[i]
    BY SendOne, ItemNames
  <1>2. /\ w[h] = "200" /\ req.stream /\ w[1] = "200"
        /\ \A j \in 2 .. h - 1 : w[j] = "backend_line"
        /\ \A j \in h + 1 .. Len(w) : w[j] = "delta"
    BY DEF Answering
  <1> HIDE DEF v
  <1>3. h \in 1 .. Len(v) /\ v[h] = "200" /\ v[1] = "200"
    BY <1>0, <1>1, <1>2
  <1>4. \A j \in 2 .. h - 1 : v[j] = "backend_line"
    BY <1>0, <1>1, <1>2
  <1>5. \A j \in h + 1 .. Len(v) : v[j] = "delta"
    BY <1>0, <1>1, <1>2
  <1>6. Answering(v, h)
    BY <1>2, <1>3, <1>4, <1>5 DEF Answering
  <1> QED
    BY <1>3, <1>6 DEF v

\* The request never changes, so what is said of the new wire holds of it then.
LEMMA SameRequest ==
  ASSUME req' = req
  PROVE  /\ Relayed(wire') => Relayed(wire)'
         /\ Once(wire') => AnswersOnce'
         /\ \A h : Answering(wire', h) => Answering(wire, h)'
  BY DEF Relayed, Once, AnswersOnce, Answering
-----------------------------------------------------------------------------
Inv == TypeOK /\ (There => Sent) /\ AnswersOnce

\* A step at whose end nothing is left to be sent to this client.
LEMMA Ended ==
  ASSUME req' = req, Once(wire'), pc' \in {"done", "dropped"}
  PROVE  Sent' /\ AnswersOnce'
  <1>1. Sent'
    BY DEF Sent
  <1> QED
    BY <1>1, SameRequest

LEMMA EmptyOnce == Once(<<>>) /\ Relayed(<<>>)
  BY DEF Once, Relayed

\* A step before anything is sent.
LEMMA StillEmpty ==
  ASSUME req' = req, wire' = <<>>, pc' \notin {"relay", "local", "finish"}
  PROVE  Sent' /\ AnswersOnce'
  <1>1. Once(wire') /\ Relayed(wire)'
    BY EmptyOnce, SameRequest
  <1>2. Sent'
    BY <1>1 DEF Sent
  <1> QED
    BY <1>1, <1>2, SameRequest

\* What the handler leaves alone; to a client that is gone, nothing is sent.
LEMMA HandlerKeeps ==
  ASSUME Handler
  PROVE  UNCHANGED <<req, engine, client>> /\ (~There => wire' = wire)
  BY DEF Handler, Options, Get, Refuse, ReadLength, Malformed, Accept, Connect, RelayHead,
     RelayLine, RelayDone, BackendEnds, BackendBreaks, ReadMore, RelayBody, Fallback, Delta,
     StreamEnds, Echo, Finish, Reply, EngineFails, Answer, Send, Goto, There

\* What the handler does while its client is there.
LEMMA SentStep ==
  ASSUME TypeOK, There, Sent, Handler
  PROVE  Sent' /\ AnswersOnce'
  <1>0. wire \in Seq(Items) /\ req' = req
    BY HandlerKeeps DEF TypeOK
  <1>1. CASE Options \/ Get \/ Refuse \/ Malformed \/ RelayBody
    <2>1. wire = <<>>
      BY <1>1 DEF Sent, Options, Get, Refuse, Malformed, Post, RelayBody
    <2>2. /\ pc' = "done"
          /\ \/ wire' = <<>> \o <<"204">>
             \/ \E x \in {"200", "400", "401", "404"} : wire' = <<>> \o <<x, "body">>
      BY <1>1, <2>1, SendToClient DEF Options, Get, Refuse, Malformed, RelayBody, Answer
    <2>3. /\ "204" \in Items
          /\ \A x \in {"200", "400", "401", "404"} : x \in Statuses \ {"204"}
      BY DEF Items, Statuses
    <2>4. Once(wire')
      BY <2>2, <2>3, OnceFirst
    <2> QED
      BY <1>0, <2>2, <2>4, Ended
  <1>2. CASE ReadLength \/ Accept \/ Connect \/ ReadMore
    <2>1. wire' = <<>> /\ pc' \in {"body", "connect", "dropped", "fallback", "head", "read"}
      BY <1>2 DEF Sent, ReadLength, Post, Accept, Connect, ReadMore, Goto
    <2> QED
      BY <1>0, <2>1, StillEmpty
  <1>3. CASE RelayHead \/ RelayLine
    <2>1. req.stream /\ pc' = "relay"
      BY <1>3, SendToClient DEF RelayHead, RelayLine, TypeOK
    <2>2. \/ wire = <<>> /\ wire' = wire \o <<"200">>
          \/ wire # <<>> /\ Relayed(wire) /\ wire' = wire \o <<"backend_line">>
          \/ wire # <<>> /\ Relayed(wire) /\ wire' = wire
      <3>1. CASE RelayHead
        BY <3>1, SendToClient DEF RelayHead, Sent
      <3>2. CASE RelayLine
        <4>1. wire' = wire \o (IF Len(wire) <= MaxLines THEN <<"backend_line">> ELSE <<>>)
          BY <3>2, SendToClient DEF RelayLine
        <4>2. wire \o <<>> = wire
          BY <1>0
        <4> QED
          BY <3>2, <4>1, <4>2 DEF RelayLine, Sent
      <3> QED
        BY <1>3, <3>1, <3>2
    <2>3. Relayed(wire')
      BY <1>0, <2>1, <2>2, RelayedGrows, EmptyOnce
    <2>4. wire' \in Seq(Items) /\ wire' # <<>>
      <3>0. CASE wire # <<>> /\ wire' = wire
        BY <3>0, <1>0
      <3>1. "200" \in Items /\ "backend_line" \in Items
        BY ItemNames
      <3>2. CASE \E x \in Items : wire' = wire \o <<x>>
        <4>1. Len(wire') # 0 /\ wire' \in Seq(Items)
          BY <1>0, <3>2, SendOne
        <4> QED
          BY <4>1
      <3> QED
        BY <2>2, <3>0, <3>1, <3>2
    <2>5. Once(wire')
      BY <2>3, <2>4, OnceRelayed
    <2>6. Sent'
      BY <1>0, <2>1, <2>3, <2>4, SameRequest DEF Sent
    <2> QED
      BY <1>0, <2>5, <2>6, SameRequest
  <1>4. CASE RelayDone
    <2>1. wire # <<>> /\ Relayed(wire) /\ wire' = wire \o <<"backend_done">> /\ pc' = "done"
      BY <1>4, SendToClient DEF RelayDone, Sent
    <2>2. Once(wire')
      BY <1>0, <2>1, OnceRelayed
    <2> QED
      BY <1>0, <2>1, <2>2, Ended
  <1>5. CASE BackendEnds \/ BackendBreaks
    <2>1. /\ Relayed(wire) /\ wire' = wire /\ pc' \in {"done", "fallback"}
          /\ req.stream \/ wire = <<>>
      BY <1>5, EmptyOnce DEF BackendEnds, BackendBreaks, Goto, Sent, TypeOK
    <2>2. Once(wire')
      BY <1>0, <2>1, OnceRelayed
    <2>3. Sent'
      BY <1>0, <2>1, SameRequest DEF Sent
    <2> QED
      BY <1>0, <2>2, <2>3, SameRequest
  <1>6. CASE Fallback
    <2>1. CASE req.stream
      <3>1. Relayed(wire) /\ wire' = wire \o <<"200">> /\ pc' = "local"
        BY <1>6, <2>1, SendToClient DEF Fallback, Sent
      <3>2. PICK h \in 1 .. Len(wire') : Answering(wire', h)
        BY <1>0, <2>1, <3>1, AnsweringBegins
      <3>3. wire' \in Seq(Items)
        BY <1>0, <3>1, SendOne, ItemNames
      <3>4. Once(wire')
        BY <3>2, <3>3, OnceAnswering
      <3>5. Sent'
        BY <1>0, <3>1, <3>2, SameRequest DEF Sent
      <3> QED
        BY <1>0, <3>4, <3>5, SameRequest
    <2>2. CASE ~req.stream
      <3>1. wire' = <<>> /\ pc' = "reply"
        BY <1>6, <2>2 DEF Fallback, Goto, Sent
      <3> QED
        BY <1>0, <3>1, StillEmpty
    <2> QED
      BY <2>1, <2>2
  <1>7. CASE Delta \/ StreamEnds \/ Echo
    <2>1. PICK h \in 1 .. Len(wire) : Answering(wire, h)
      BY <1>7 DEF Delta, StreamEnds, Echo, Sent
    <2>2. /\ pc' \in {"local", "finish", "dropped"}
          /\ wire' = wire \/ wire' = wire \o <<"delta">>
      BY <1>7, SendToClient DEF Delta, StreamEnds, Echo, Goto
    <2>3. h \in 1 .. Len(wire') /\ Answering(wire', h) /\ wire' \in Seq(Items)
      <3>1. CASE wire' = wire
        BY <3>1, <1>0, <2>1
      <3>2. CASE wire' = wire \o <<"delta">>
        <4>1. "delta" \in Items
          BY ItemNames
        <4>2. wire' \in Seq(Items)
          BY <3>2, <4>1, <1>0, SendOne
        <4> QED
          BY <3>2, <4>2, <1>0, <2>1, AnsweringGrows
      <3> QED
        BY <2>2, <3>1, <3>2
    <2>4. Once(wire')
      BY <2>3, OnceAnswering
    <2>5. Sent'
      BY <1>0, <2>2, <2>3, SameRequest DEF Sent
    <2> QED
      BY <1>0, <2>4, <2>5, SameRequest
  <1>8. CASE Finish
    <2>1. PICK h \in 1 .. Len(wire) : Answering(wire, h)
      BY <1>8 DEF Finish, Sent
    <2>2. wire' = wire \o <<"local_done">> /\ pc' = "done"
      BY <1>8, SendToClient DEF Finish
    <2>3. Once(wire')
      BY <1>0, <2>1, <2>2, OnceAnswering
    <2> QED
      BY <1>0, <2>2, <2>3, Ended
  <1>9. CASE Reply
    <2>1. \/ wire' = <<>> \o <<"200", "body">> /\ pc' = "done"
          \/ wire' = <<>> /\ pc' = "dropped"
      BY <1>9, SendToClient DEF Reply, Answer, Goto, Sent
    <2>2. "200" \in Statuses \ {"204"}
      BY DEF Statuses
    <2>3. Once(wire') /\ pc' \in {"done", "dropped"}
      BY <2>1, <2>2, OnceFirst, EmptyOnce
    <2> QED
      BY <1>0, <2>3, Ended
  <1>10. CASE EngineFails
    <2>1. Once(wire)
      <3>1. CASE wire = <<>>
        BY <3>1, EmptyOnce
      <3>2. CASE wire # <<>>
        <4>1. PICK h \in 1 .. Len(wire) : Answering(wire, h)
          BY <3>2, <1>10 DEF EngineFails, Sent
        <4> QED
          BY <4>1, <1>0, OnceAnswering
      <3> QED
        BY <3>1, <3>2
    <2>2. Once(wire') /\ pc' = "dropped"
      BY <2>1, <1>10 DEF EngineFails, Goto
    <2> QED
      BY <1>0, <2>2, Ended
  <1> QED
    BY <1>1, <1>2, <1>3, <1>4, <1>5, <1>6, <1>7, <1>8, <1>9, <1>10 DEF Handler

LEMMA InvStep == Inv /\ [Next]_vars => Inv'
  <1> SUFFICES ASSUME Inv, [Next]_vars PROVE Inv'
    OBVIOUS
  <1>1. TypeOK /\ TypeOK' /\ AnswersOnce /\ (There => Sent)
    BY TypeStep DEF Inv
  <1>2. CASE Handler /\ There
    BY <1>2, <1>1, SentStep DEF Inv
  <1>3. CASE Handler /\ ~There
    <2>1. wire' = wire /\ req' = req /\ client' = client
      BY <1>3, HandlerKeeps
    <2> QED
      BY <2>1, <1>1, <1>3 DEF Inv, AnswersOnce, There
  <1>4. CASE Others
    <2>1. wire' = wire /\ req' = req /\ pc' = pc /\ (There' => There)
      BY <1>4 DEF Others, Stall, Resume, Hangup, Client, BackendSends, BackendCloses,
         Backend, There
    <2> QED
      BY <2>1, <1>1 DEF Inv, AnswersOnce, Sent, Relayed, Answering
  <1>5. CASE Closed \/ UNCHANGED vars
    BY <1>5, <1>1 DEF Closed, vars, Inv, Sent, AnswersOnce, Relayed, Answering, There
  <1> QED
    BY <1>1, <1>2, <1>3, <1>4, <1>5 DEF Next

LEMMA InvInit == Init => Inv
  BY DEF Init, TypeOK, Inv, Sent, AnswersOnce

\* However backend, engine and client behave, and however long the answer is:
\* one status line and one end, except behind a relay that broke off.
THEOREM OneAnswer == Spec => []AnswersOnce
  <1>1. Inv => AnswersOnce
    BY DEF Inv
  <1> QED
    BY <1>1, InvInit, InvStep, PTL DEF Spec
-----------------------------------------------------------------------------
LEMMA LastSent ==
  ASSUME NEW w \in Seq(Items)
  PROVE  /\ \A x \in Items : /\ w \o <<x>> # <<>>
                             /\ (w \o <<x>>)[Len(w \o <<x>>)] = x
         /\ \A x \in Items : /\ w \o <<x, "body">> # <<>>
                             /\ (w \o <<x, "body">>)[Len(w \o <<x, "body">>)] = "body"
  OBVIOUS

\* The shape of a stream its backend has ended.
LEMMA EndedShort ==
  ASSUME TypeOK, Sent, BackendEnds
  PROVE  Truncated'
  <1>1. wire' = wire /\ req' = req /\ backend' = "ended" /\ pc = "relay"
    BY DEF BackendEnds, Goto
  <1>2. Relayed(wire) /\ wire # <<>>
    BY <1>1 DEF Sent
  <1> QED
    BY <1>1, <1>2 DEF Relayed, Truncated

LEMMA WholeStep == Inv /\ WholeAnswer /\ [Next]_vars => WholeAnswer'
  <1> SUFFICES ASSUME Inv, WholeAnswer, [Next]_vars, There', pc' = "done"
               PROVE  Truncated' \/ (wire # <<>> /\ wire[Len(wire)] \in Ends)'
    BY DEF WholeAnswer
  <1>0. TypeOK /\ wire \in Seq(Items) /\ (There => Sent)
    BY DEF Inv, TypeOK
  <1>1. CASE Handler
    <2>1. There
      BY <1>1, HandlerKeeps DEF There
    <2>2. \/ BackendEnds
          \/ \E x \in {"204", "backend_done", "local_done"} : wire' = wire \o <<x>>
          \/ \E x \in Statuses : wire' = wire \o <<x, "body">>
      <3>1. CASE Options \/ RelayDone \/ Finish
        BY <3>1, <2>1, SendToClient DEF Options, RelayDone, Finish
      <3>2. CASE Get \/ Refuse \/ Malformed \/ RelayBody \/ Reply
        <4>1. \A x \in {"200", "400", "401", "404"} : x \in Statuses
          BY DEF Statuses
        <4> QED
          BY <3>2, <2>1, <4>1 DEF Get, Refuse, Malformed, RelayBody, Reply, Answer, Goto, Send
      <3>3. CASE \/ ReadLength \/ Accept \/ Connect \/ BackendBreaks \/ EngineFails
                 \/ StreamEnds \/ ReadMore
        BY <3>3 DEF ReadLength, Accept, Connect, BackendBreaks, EngineFails, StreamEnds,
           ReadMore, Goto
      <3>4. CASE RelayHead \/ RelayLine \/ Fallback \/ Delta \/ Echo
        BY <3>4, <2>1, SendToClient DEF RelayHead, RelayLine, Fallback, Delta, Echo, Goto
      <3> QED
        BY <1>1, <3>1, <3>2, <3>3, <3>4 DEF Handler
    <2>3. {"204", "backend_done", "local_done", "body"} \subseteq Ends
      BY DEF Ends
    <2>4. {"204", "backend_done", "local_done"} \subseteq Items /\ Statuses \subseteq Items
      BY DEF Items, Ends
    <2>5. CASE \E x \in {"204", "backend_done", "local_done"} : wire' = wire \o <<x>>
      <3>1. PICK x \in {"204", "backend_done", "local_done"} : wire' = wire \o <<x>>
        BY <2>5
      <3>2. wire' # <<>> /\ wire'[Len(wire')] = x
        BY <1>0, <2>4, <3>1, LastSent
      <3> QED
        BY <2>3, <3>2
    <2>6. CASE \E x \in Statuses : wire' = wire \o <<x, "body">>
      <3>1. wire' # <<>> /\ wire'[Len(wire')] = "body"
        BY <1>0, <2>4, <2>6, LastSent
      <3> QED
        BY <2>3, <3>1
    <2>7. CASE BackendEnds
      BY <1>0, <2>1, <2>7, EndedShort
    <2> QED
      BY <2>2, <2>5, <2>6, <2>7
  <1>2. CASE Others
    <2>1. /\ There /\ pc = "done"
          /\ ~Over
      BY <1>2, <1>0 DEF Others, Stall, Resume, Hangup, Client, BackendSends, BackendCloses,
         Backend, There, Over
    <2> QED
      BY <2>1 DEF Over
  <1>3. CASE Closed \/ UNCHANGED vars
    BY <1>3 DEF Closed, vars, WholeAnswer, Truncated, There
  <1> QED
    BY <1>1, <1>2, <1>3 DEF Next

\* A handler that returns to a client that is still there has sent the end of an
\* answer, whichever way the answer came about; or else the backend closed its
\* stream before [DONE], and the client has its head and lines and no more.
THEOREM AnswersAreWhole == Spec => []WholeAnswer
  <1>1. Init => Inv /\ WholeAnswer
    BY InvInit DEF Init, WholeAnswer
  <1>2. Inv /\ WholeAnswer /\ [Next]_vars => Inv' /\ WholeAnswer'
    BY InvStep, WholeStep
  <1> QED
    BY <1>1, <1>2, PTL DEF Spec

LEMMA DroppedStep == Inv /\ DroppedForCause /\ [Next]_vars => DroppedForCause'
  <1> SUFFICES ASSUME Inv, DroppedForCause, [Next]_vars PROVE DroppedForCause'
    OBVIOUS
  <1>0. There => Sent
    BY DEF Inv
  <1>1. CASE Handler
    <2>1. req' = req /\ engine' = engine /\ client' = client
      BY <1>1, HandlerKeeps
    <2>2. ASSUME There, pc' = "dropped"
          PROVE  \/ (ReadLength \/ Accept) /\ wire' = <<>> /\ (~req.length \/ ~req.fields)
                 \/ (Echo \/ Reply) /\ ~req.messages
                 \/ EngineFails /\ engine
      <3>1. CASE ReadLength \/ Accept
        BY <3>1, <2>2, <1>0 DEF ReadLength, Post, Accept, Goto, Sent
      <3>2. CASE Echo \/ Reply
        BY <3>2, <2>2 DEF Echo, Reply, Answer, Goto, Send
      <3>3. CASE EngineFails
        BY <3>3 DEF EngineFails
      <3>4. CASE Options \/ Get \/ Refuse \/ Malformed \/ Fallback
        BY <3>4, <2>2 DEF Options, Get, Refuse, Malformed, Fallback, Answer, Goto, Send
      <3>5. CASE RelayHead \/ RelayLine \/ RelayDone \/ RelayBody \/ Delta \/ Finish
        BY <3>5, <2>2 DEF RelayHead, RelayLine, RelayDone, RelayBody, Delta, Finish, Send
      <3>6. CASE Connect \/ BackendEnds \/ BackendBreaks \/ StreamEnds \/ ReadMore
        BY <3>6, <2>2 DEF Connect, BackendEnds, BackendBreaks, StreamEnds, ReadMore, Goto
      <3> QED
        BY <1>1, <3>1, <3>2, <3>3, <3>4, <3>5, <3>6 DEF Handler
    <2> QED
      BY <2>1, <2>2 DEF DroppedForCause, There
  <1>2. CASE Others
    BY <1>2 DEF Others, Stall, Resume, Hangup, Client, BackendSends, BackendCloses,
       Backend, Over, DroppedForCause
  <1>3. CASE Closed \/ UNCHANGED vars
    BY <1>3 DEF Closed, vars, DroppedForCause, There
  <1> QED
    BY <1>1, <1>2, <1>3 DEF Next

\* The handler raises under a client that is there only for what the request
\* says or because the engine raises, and before it has sent anything in the
\* first case: a backend that refuses, falls silent or breaks off is no cause.
THEOREM OnlyDroppedForCause == Spec => []DroppedForCause
  <1>1. Init => Inv /\ DroppedForCause
    BY InvInit DEF Init, DroppedForCause
  <1>2. Inv /\ DroppedForCause /\ [Next]_vars => Inv' /\ DroppedForCause'
    BY InvStep, DroppedStep
  <1> QED
    BY <1>1, <1>2, PTL DEF Spec
=============================================================================
