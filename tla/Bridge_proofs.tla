---------------------------- MODULE Bridge_proofs ----------------------------
(***************************************************************************)
(* Theorems about Bridge when its clients keep their calls from            *)
(* overlapping: waiting for the last command recorded waits for them all,  *)
(* so no array is let go, or read, while the GPU may still use it.         *)
(***************************************************************************)
EXTENDS Bridge, TLAPS

\* Queues.
LEMMA Committed ==
  ASSUME NEW S, NEW q \in Seq(S), NEW x \in S
  PROVE  /\ Append(q, x) \in Seq(S) /\ Append(q, x) # <<>>
         /\ Append(q, x)[Len(Append(q, x))] = x
         /\ ToSet(Append(q, x)) = ToSet(q) \cup {x}
  <1>1. /\ Append(q, x) \in Seq(S) /\ Append(q, x) # <<>>
        /\ Append(q, x)[Len(Append(q, x))] = x
    OBVIOUS
  <1>2. /\ DOMAIN Append(q, x) = DOMAIN q \cup {Len(q) + 1}
        /\ \A i \in DOMAIN q : Append(q, x)[i] = q[i]
        /\ Append(q, x)[Len(q) + 1] = x
    OBVIOUS
  <1>3. ToSet(Append(q, x)) = ToSet(q) \cup {x}
    BY <1>2, Zenon DEF ToSet
  <1> QED
    BY <1>1, <1>3

LEMMA Completed ==
  ASSUME NEW S, NEW q \in Seq(S), q # <<>>
  PROVE  /\ Tail(q) \in Seq(S) /\ ToSet(Tail(q)) \subseteq ToSet(q)
         /\ Tail(q) # <<>> => Tail(q)[Len(Tail(q))] = q[Len(q)]
         /\ Head(q) \in S /\ ToSet(q) \subseteq ToSet(Tail(q)) \cup {Head(q)}
  <1>1. Tail(q) \in Seq(S) /\ (Tail(q) # <<>> => Tail(q)[Len(Tail(q))] = q[Len(q)])
    OBVIOUS
  <1>2. ToSet(Tail(q)) \subseteq ToSet(q)
    BY DEF ToSet
  <1>3. Head(q) \in S
    OBVIOUS
  <1>4. ASSUME NEW i \in DOMAIN q PROVE q[i] \in ToSet(Tail(q)) \cup {Head(q)}
    <2>1. CASE i = 1
      BY <2>1
    <2>2. CASE i # 1
      <3>1. i - 1 \in DOMAIN Tail(q) /\ Tail(q)[i - 1] = q[i]
        BY <1>4, <2>2
      <3> QED
        BY <3>1, Zenon DEF ToSet
    <2> QED
      BY <2>1, <2>2
  <1>5. ToSet(q) \subseteq ToSet(Tail(q)) \cup {Head(q)}
    <2>1. ToSet(q) = {q[i] : i \in DOMAIN q}
      BY DEF ToSet
    <2> QED
      BY <1>4, <2>1, Zenon
  <1> QED
    BY <1>1, <1>2, <1>3, <1>5

LEMMA InQueue ==
  ASSUME NEW S, NEW q \in Seq(S)
  PROVE  /\ ToSet(q) \subseteq S
         /\ q # <<>> => q[Len(q)] \in ToSet(q)
         /\ ToSet(<<>>) = {}
  BY DEF ToSet

-----------------------------------------------------------------------------
\* A thread in a dispatch has a command; copies are made for commands issued.
Numbered ==
  /\ \A t \in Threads : pc[t] \in {"encoded", "committed", "recorded"} => cmd[t] # None
  /\ \A n \in copied : n <= issued

TypeInv == TypeOK /\ Numbered

LEMMA TypeStep == TypeInv /\ [Next]_vars => TypeInv'
  <1> SUFFICES ASSUME TypeOK, Numbered, [Next]_vars PROVE TypeInv'
    BY DEF TypeInv
  <1> USE DEF TypeInv, TypeOK, Numbered, python, lists, gpu, Goto
  <1>1. CASE GpuCompletes
    BY <1>1, Completed DEF GpuCompletes
  <1>2. ASSUME NEW t \in Threads, Encode(t) PROVE TypeInv'
    <2>1. issued + 1 \in Commands /\ issued + 1 # None
      BY <1>2, BridgeAssumption DEF Encode, Commands, None
    <2>2. issued' \in 0 .. MaxCommands /\ cmd' \in [Threads -> Commands \cup {None}]
      BY <1>2, <2>1, BridgeAssumption DEF Encode, Commands
    <2>3. retainedContig' \subseteq copied' /\ copied' \subseteq Commands /\ lost' \subseteq Commands
      BY <1>2, <2>1 DEF Encode, Extract
    <2>4. \A n \in copied' : n <= issued'
      <3>1. issued' = issued + 1 /\ copied' \subseteq copied \cup {issued + 1}
        BY <1>2 DEF Encode, Extract
      <3>2. issued \in Int /\ \A n \in copied : n \in Int /\ n <= issued
        BY BridgeAssumption DEF Commands
      <3> QED
        BY <3>1, <3>2
    <2> QED
      BY <1>2, <2>1, <2>2, <2>3, <2>4 DEF Encode
  <1>3. ASSUME NEW t \in Threads, Commit(t) PROVE TypeInv'
    <2>1. cmd[t] \in Commands
      BY <1>3 DEF Commit
    <2> QED
      BY <1>3, <2>1, Committed DEF Commit
  <1>4. ASSUME NEW t \in Threads, EncodeFails(t) \/ Record(t) \/ Retain(t) PROVE TypeInv'
    BY <1>4 DEF EncodeFails, Record, Retain
  <1>5. ASSUME NEW t \in Threads, InitBridge(t) \/ TakeLast(t) \/ WaitUntilCompleted(t)
        PROVE  TypeInv'
    BY <1>5 DEF InitBridge, TakeLast, WaitUntilCompleted
  <1>6. ASSUME NEW t \in Threads, ReleaseTensors(t) \/ CheckFinite(t) PROVE TypeInv'
    BY <1>6 DEF ReleaseTensors, CheckFinite
  <1>7. ASSUME NEW t \in Threads, DropLists(t) \/ Shutdown(t) PROVE TypeInv'
    BY <1>7 DEF DropLists, Shutdown
  <1>8. CASE UNCHANGED vars
    BY <1>8 DEF vars
  <1> QED
    BY <1>1, <1>2, <1>3, <1>4, <1>5, <1>6, <1>7, <1>8 DEF Next, Begin, Continue

LEMMA TypeInit == Init => TypeInv
  <1> SUFFICES ASSUME Init PROVE TypeInv
    OBVIOUS
  <1>1. issued \in 0 .. MaxCommands
    BY BridgeAssumption DEF Init
  <1>2. /\ pc \in [Threads -> {"idle"}] /\ cmd \in [Threads -> {None}]
        /\ waitFor \in [Threads -> {None}]
    BY DEF Init
  <1>3. queue \in Seq(Commands) /\ last = None /\ initialized = FALSE
    BY DEF Init
  <1> QED
    BY <1>1, <1>2, <1>3 DEF Init, TypeInv, TypeOK, Numbered

\* Types, for any threads, serialized or not, and any number of commands.
THEOREM TypeCorrect == Spec => []TypeOK
  <1>1. TypeInv => TypeOK
    BY DEF TypeInv
  <1> QED
    BY <1>1, TypeInit, TypeStep, PTL DEF Spec

-----------------------------------------------------------------------------
(* Calls that do not overlap.                                              *)

OneCall == \A t, u \in Threads : pc[t] # "idle" /\ pc[u] # "idle" => t = u

\* Nothing was committed after command n.
Newest(n) == queue # <<>> => queue[Len(queue)] = n

\* Which command is the newest, at each place of the one call: the one
\* recorded, or the one about to be recorded, or the one waited for.
Order ==
  /\ \A t \in Threads : pc[t] = "committed" => Newest(cmd[t])
  /\ \A t \in Threads : pc[t] = "waiting" => Newest(waitFor[t])
  /\ \A t \in Threads : pc[t] \in {"synchronized", "checking"} => queue = <<>>
  /\ (\A t \in Threads : pc[t] \notin {"committed", "waiting"}) => Newest(last)

\* A dispatch that has begun keeps the bridge initialized.
Alive == \A t \in Threads : pc[t] \in {"encoded", "committed", "recorded"} => initialized

\* What was copied for the command of a dispatch is kept all the while.
KeepsCopies ==
  \A t \in Threads : pc[t] \in {"encoded", "committed", "recorded"} /\ cmd[t] \in copied
                        => cmd[t] \in retainedContig

\* Where the result of every command committed is: the GPU has it before it, has
\* written it, or will never write it where it is looked for.
Arrived(n) == n \in InFlight \cup written \cup lost
Accounted ==
  /\ \A n \in finiteChecks : Arrived(n)
  /\ \A t \in Threads : pc[t] \in {"committed", "recorded"} => Arrived(cmd[t])

SerialInv == /\ Accounted /\ TypeInv /\ OneCall /\ Order /\ Alive /\ KeepsCopies
             /\ RetainedUntilReleased /\ ShutdownLeavesNothing

LEMMA Alone ==
  ASSUME Serialized, TypeOK, OneCall, NEW t \in Threads, Begin(t) \/ Continue(t)
  PROVE  /\ \A u \in Threads \ {t} : pc[u] = "idle" /\ pc'[u] = "idle"
         /\ OneCall'
  <1>1. Begin(t) => \A u \in Threads : pc[u] = "idle"
    BY DEF Begin, InitBridge, Encode, TakeLast, DropLists, MayCall
  <1>2. Continue(t) => pc[t] # "idle"
    BY DEF Continue, Commit, EncodeFails, Record, Retain, WaitUntilCompleted, ReleaseTensors,
       CheckFinite, Shutdown
  <1>3. \A u \in Threads \ {t} : pc[u] = "idle"
    BY <1>1, <1>2 DEF OneCall
  <1>4. \A u \in Threads \ {t} : pc'[u] = pc[u]
    BY DEF TypeOK, Begin, InitBridge, Encode, TakeLast, DropLists, Continue, Commit, EncodeFails,
       Record, Retain, WaitUntilCompleted, ReleaseTensors, CheckFinite, Shutdown, Goto
  <1> QED
    BY <1>3, <1>4 DEF OneCall

\* What a call that is alone relies on: the newest command is the one its
\* place names, so a queue without that command is empty.
LEMMA NothingLeft ==
  ASSUME TypeOK, NEW n, Newest(n), n \notin InFlight
  PROVE  queue = <<>>
  BY InQueue DEF TypeOK, Newest, InFlight

LEMMA OrderStep ==
  ASSUME Serialized, TypeInv, OneCall, Order, Alive, [Next]_vars
  PROVE  Order' /\ Alive'
  <1> USE DEF Newest
  <1>1. CASE GpuCompletes
    <2>1. queue' # <<>> => queue # <<>> /\ queue'[Len(queue')] = queue[Len(queue)]
      BY <1>1, Completed DEF GpuCompletes, TypeInv, TypeOK
    <2>2. queue = <<>> => queue' = <<>>
      BY <1>1 DEF GpuCompletes
    <2>3. UNCHANGED <<pc, last, cmd, waitFor, initialized>>
      BY <1>1 DEF GpuCompletes
    <2> QED
      BY <2>1, <2>2, <2>3 DEF Order, Alive
  <1>2. ASSUME NEW t \in Threads, Begin(t) \/ Continue(t) PROVE Order' /\ Alive'
    <2>0. /\ TypeOK /\ pc \in [Threads -> {"idle", "encoded", "committed", "recorded",
                                      "waiting", "synchronized", "checking", "shutdown"}]
          /\ \A u \in Threads \ {t} : pc[u] = "idle" /\ pc'[u] = "idle"
      BY <1>2, Alone DEF TypeInv, TypeOK
    <2> DEFINE OrderOf(l, ini, q, c, w, n) ==
                 /\ l = "committed" => (q # <<>> => q[Len(q)] = c)
                 /\ l = "waiting" => (q # <<>> => q[Len(q)] = w)
                 /\ l \in {"synchronized", "checking"} => q = <<>>
                 /\ l \notin {"committed", "waiting"} => (q # <<>> => q[Len(q)] = n)
                 /\ l \in {"encoded", "committed", "recorded"} => ini
    <2>1. OrderOf(pc[t], initialized, queue, cmd[t], waitFor[t], last)
      BY <2>0 DEF Order, Alive
    <2>2. SUFFICES OrderOf(pc'[t], initialized', queue', cmd'[t], waitFor'[t], last')
      BY <2>0 DEF Order, Alive
    <2> USE DEF TypeOK, Goto
    <2>3. CASE InitBridge(t) \/ DropLists(t) \/ EncodeFails(t) \/ Retain(t)
      BY <2>0, <2>1, <2>3 DEF InitBridge, DropLists, EncodeFails, Retain, MayCall
    <2>4. CASE Encode(t) \/ Record(t) \/ TakeLast(t)
      BY <2>0, <2>1, <2>4 DEF Encode, Record, TakeLast, MayCall
    <2>5. CASE Commit(t)
      <3>1. cmd[t] \in Commands
        BY <2>0, <2>5 DEF Commit, TypeInv, Numbered
      <3>2. queue'[Len(queue')] = cmd[t]
        BY <2>0, <2>5, <3>1, Committed DEF Commit
      <3> QED
        BY <2>0, <2>1, <2>5, <3>2 DEF Commit
    <2>6. CASE WaitUntilCompleted(t)
      <3>1. queue = <<>>
        BY <2>0, <2>1, <2>6, NothingLeft DEF WaitUntilCompleted
      <3> QED
        BY <2>0, <2>1, <2>6, <3>1 DEF WaitUntilCompleted
    <2>7. CASE ReleaseTensors(t) \/ CheckFinite(t)
      BY <2>0, <2>1, <2>7 DEF ReleaseTensors, CheckFinite
    <2>8. CASE Shutdown(t)
      <3>1. queue = <<>>
        BY <2>0, <2>1, <2>8, NothingLeft DEF Shutdown
      <3> QED
        BY <2>0, <2>1, <2>8, <3>1 DEF Shutdown
    <2> QED
      BY <1>2, <2>3, <2>4, <2>5, <2>6, <2>7, <2>8 DEF Begin, Continue
  <1>3. CASE UNCHANGED vars
    BY <1>3 DEF vars, Order, Alive
  <1> QED
    BY <1>1, <1>2, <1>3 DEF Next

LEMMA ShutdownStep ==
  ASSUME Serialized, TypeInv, OneCall, Order, Alive, ShutdownLeavesNothing, [Next]_vars
  PROVE  ShutdownLeavesNothing'
  <1> USE DEF ShutdownLeavesNothing
  <1>1. CASE GpuCompletes
    BY <1>1 DEF GpuCompletes
  <1>2. ASSUME NEW t \in Threads, Begin(t) \/ Continue(t) PROVE ShutdownLeavesNothing'
    <2>1. CASE Commit(t)
      BY <2>1 DEF Commit, Alive
    <2>2. CASE Shutdown(t)
      <3>1. Newest(last)
        BY <1>2, <2>2, Alone DEF Shutdown, Order, TypeInv
      <3> QED
        BY <2>2, <3>1, NothingLeft DEF Shutdown, TypeInv
    <2>3. CASE Begin(t) \/ EncodeFails(t) \/ Record(t) \/ Retain(t)
      BY <2>3 DEF Begin, InitBridge, Encode, TakeLast, DropLists, EncodeFails, Record, Retain
    <2>4. CASE WaitUntilCompleted(t) \/ ReleaseTensors(t) \/ CheckFinite(t)
      BY <2>4 DEF WaitUntilCompleted, ReleaseTensors, CheckFinite
    <2> QED
      BY <1>2, <2>1, <2>2, <2>3, <2>4 DEF Continue
  <1>3. CASE UNCHANGED vars
    BY <1>3 DEF vars
  <1> QED
    BY <1>1, <1>2, <1>3 DEF Next

LEMMA CopiesStep ==
  ASSUME Serialized, TypeInv, OneCall, KeepsCopies, [Next]_vars
  PROVE  KeepsCopies'
  <1> USE DEF python, lists, gpu, Goto, KeepsCopies
  <1>1. ASSUME NEW t \in Threads, Begin(t) \/ Continue(t) PROVE KeepsCopies'
    <2>0. /\ TypeOK /\ pc \in [Threads -> {"idle", "encoded", "committed", "recorded",
                                      "waiting", "synchronized", "checking", "shutdown"}]
          /\ cmd \in [Threads -> Commands \cup {None}]
          /\ \A u \in Threads \ {t} : pc[u] = "idle" /\ pc'[u] = "idle"
      BY <1>1, Alone DEF TypeInv, TypeOK
    <2>1. SUFFICES ASSUME pc'[t] \in {"encoded", "committed", "recorded"}, cmd'[t] \in copied'
                   PROVE  cmd'[t] \in retainedContig'
      BY <2>0
    <2>2. CASE Encode(t)
      <3>1. cmd'[t] = issued + 1
        BY <2>0, <2>2 DEF Encode
      <3>2. issued + 1 \notin copied
        BY BridgeAssumption DEF TypeInv, TypeOK, Numbered, Commands
      <3> QED
        BY <3>1, <3>2, <2>1, <2>2 DEF Encode, Extract
    <2>3. CASE Commit(t) \/ Record(t)
      BY <2>0, <2>1, <2>3 DEF Commit, Record
    <2>4. ~Encode(t) /\ ~(Commit(t) \/ Record(t)) => FALSE
      BY <1>1, <2>0, <2>1 DEF Begin, InitBridge, TakeLast, DropLists, Continue, EncodeFails, Retain,
         WaitUntilCompleted, ReleaseTensors, CheckFinite, Shutdown, MayCall
    <2> QED
      BY <2>2, <2>3, <2>4
  <1>2. CASE GpuCompletes \/ UNCHANGED vars
    BY <1>2 DEF GpuCompletes, vars
  <1> QED
    BY <1>1, <1>2 DEF Next
LEMMA RetainStep ==
  ASSUME Serialized, TypeInv, OneCall, Order, KeepsCopies, RetainedUntilReleased, [Next]_vars
  PROVE  RetainedUntilReleased'
  <1> SUFFICES ASSUME (\A t \in Threads : pc[t] # "shutdown")', NEW n, n \in ToSet(queue')
               PROVE  Retained(n)'
    BY DEF RetainedUntilReleased, RetainedUntilDone, InFlight
  <1>0. ToSet(<<>>) = {}
    BY DEF ToSet
  <1> USE DEF python, lists, gpu, Goto, InFlight
  <1>1. CASE GpuCompletes
    <2>1. n \in InFlight
      BY <1>1, Completed DEF GpuCompletes, TypeInv, TypeOK
    <2>2. UNCHANGED <<python, pc, cmd>>
      BY <1>1 DEF GpuCompletes
    <2> QED
      BY <2>1, <2>2 DEF RetainedUntilReleased, RetainedUntilDone, Retained
  <1>2. ASSUME NEW t \in Threads, Begin(t) \/ Continue(t) PROVE Retained(n)'
    <2>0. /\ TypeOK /\ pc \in [Threads -> {"idle", "encoded", "committed", "recorded",
                                      "waiting", "synchronized", "checking", "shutdown"}]
          /\ cmd \in [Threads -> Commands \cup {None}]
          /\ \A u \in Threads \ {t} : pc[u] = "idle" /\ pc'[u] = "idle"
      BY <1>2, Alone DEF TypeInv, TypeOK
    <2>1. ASSUME pc[t] # "shutdown", NEW m \in ToSet(queue)
          PROVE  /\ m \in inFlightTensors \/ (cmd[t] = m /\ pc[t] \in {"committed", "recorded"})
                 /\ m \in copied => m \in retainedContig
      BY <2>0, <2>1 DEF RetainedUntilReleased, RetainedUntilDone, Retained
    <2>2. SUFFICES /\ n \in inFlightTensors' \/ (cmd'[t] = n /\ pc'[t] \in {"committed", "recorded"})
                   /\ n \in copied' => n \in retainedContig'
      BY DEF Retained
    <2>3. CASE InitBridge(t) \/ TakeLast(t) \/ EncodeFails(t) \/ WaitUntilCompleted(t)
      <3>1. /\ UNCHANGED <<queue, inFlightTensors, retainedContig, copied>>
            /\ pc[t] \in {"idle", "encoded", "waiting"}
        BY <2>3 DEF InitBridge, TakeLast, EncodeFails, WaitUntilCompleted, MayCall
      <3>2. n \in ToSet(queue) /\ pc[t] # "shutdown"
        BY <3>1
      <3>3. n \in inFlightTensors /\ (n \in copied => n \in retainedContig)
        BY <2>1, <3>1, <3>2
      <3> QED
        BY <3>1, <3>3
    <2>4. CASE Encode(t)
      <3>1. /\ UNCHANGED <<queue, inFlightTensors>> /\ pc[t] = "idle"
            /\ \/ UNCHANGED <<copied, retainedContig>>
               \/ \E x : copied' = copied \cup {x} /\ retainedContig' = retainedContig \cup {x}
        BY <2>4 DEF Encode, Extract, MayCall
      <3>2. n \in ToSet(queue) /\ pc[t] # "shutdown"
        BY <3>1
      <3>3. n \in inFlightTensors /\ (n \in copied => n \in retainedContig)
        BY <2>1, <3>1, <3>2
      <3> QED
        BY <3>1, <3>3
    <2>5. CASE Commit(t)
      <3>1. cmd[t] \in Commands /\ queue \in Seq(Commands)
        BY <2>0, <2>5 DEF Commit, TypeInv, TypeOK, Numbered
      <3>2. n \in InFlight \cup {cmd[t]}
        BY <2>5, <3>1, Committed DEF Commit
      <3>3. cmd[t] \in copied => cmd[t] \in retainedContig
        BY <2>5 DEF Commit, KeepsCopies
      <3>4. UNCHANGED <<inFlightTensors, retainedContig, copied, cmd>> /\ pc'[t] = "committed"
        BY <2>0, <2>5 DEF Commit
      <3>5. CASE n = cmd[t]
        BY <3>3, <3>4, <3>5
      <3>6. CASE n # cmd[t]
        <4>1. n \in ToSet(queue) /\ pc[t] = "encoded"
          BY <2>5, <3>2, <3>6 DEF Commit
        <4>2. n \in inFlightTensors /\ (n \in copied => n \in retainedContig)
          BY <2>1, <4>1
        <4> QED
          BY <3>4, <4>2
      <3> QED
        BY <3>5, <3>6
    <2>6. CASE Record(t) \/ Retain(t)
      <3>1. n \in ToSet(queue) /\ pc[t] \in {"committed", "recorded"}
        BY <2>6 DEF Record, Retain
      <3>2. /\ n \in inFlightTensors \/ cmd[t] = n
            /\ n \in copied => n \in retainedContig
        BY <2>1, <3>1
      <3> QED
        BY <2>0, <2>6, <3>2 DEF Record, Retain
    <2>7. CASE ReleaseTensors(t) \/ CheckFinite(t)
      <3>1. queue = <<>> /\ queue' = queue
        BY <2>7 DEF ReleaseTensors, CheckFinite, Order
      <3> QED
        BY <3>1, <1>0
    <2>8. CASE DropLists(t)
      BY <2>0, <2>8 DEF DropLists
    <2>9. CASE Shutdown(t)
      <3>1. Newest(last) /\ queue' = queue
        BY <2>0, <2>9 DEF Shutdown, Order
      <3>2. queue = <<>>
        BY <2>0, <2>9, <3>1, NothingLeft DEF Shutdown
      <3> QED
        BY <3>1, <3>2, <1>0
    <2> QED
      BY <1>2, <2>3, <2>4, <2>5, <2>6, <2>7, <2>8, <2>9 DEF Begin, Continue
  <1>3. CASE UNCHANGED vars
    BY <1>3 DEF vars, RetainedUntilReleased, RetainedUntilDone, Retained
  <1> QED
    BY <1>1, <1>2, <1>3 DEF Next

LEMMA AccountStep == TypeInv /\ Accounted /\ [Next]_vars => Accounted'
  <1> SUFFICES ASSUME TypeInv, Accounted, [Next]_vars PROVE Accounted'
    OBVIOUS
  <1> USE DEF Accounted
  <1>0. /\ TypeOK /\ queue \in Seq(Commands) /\ cmd \in [Threads -> Commands \cup {None}]
        /\ pc \in [Threads -> {"idle", "encoded", "committed", "recorded",
                              "waiting", "synchronized", "checking", "shutdown"}]
    BY DEF TypeInv, TypeOK
  <1>1. CASE GpuCompletes
    <2>1. /\ InFlight \subseteq ToSet(queue') \cup {Head(queue)}
          /\ written \cup lost \cup {Head(queue)} \subseteq written' \cup lost'
          /\ UNCHANGED <<finiteChecks, pc, cmd>>
      BY <1>0, <1>1, Completed DEF GpuCompletes, InFlight, python, lists
    <2>2. \A n : Arrived(n) => Arrived(n)'
      BY <2>1 DEF Arrived, InFlight
    <2> QED
      BY <2>1, <2>2
  <1>2. ASSUME NEW t \in Threads, Commit(t) PROVE Accounted'
    <2>1. cmd[t] \in Commands
      BY <1>0, <1>2 DEF Commit, TypeInv, Numbered
    <2>2. ToSet(queue') = ToSet(queue) \cup {cmd[t]}
      BY <1>0, <1>2, <2>1, Committed DEF Commit
    <2>3. /\ \A n : Arrived(n) => Arrived(n)'
          /\ Arrived(cmd[t])'
      BY <1>2, <2>2 DEF Arrived, InFlight, Commit, gpu
    <2> QED
      BY <1>0, <1>2, <2>3 DEF Commit, Goto, python, lists
  <1>3. ASSUME NEW t \in Threads, InitBridge(t) \/ Encode(t) \/ TakeLast(t) \/ DropLists(t)
        PROVE  Accounted'
    <2>1. UNCHANGED <<queue, written>> /\ lost \subseteq lost' /\ finiteChecks' \subseteq finiteChecks
      BY <1>3 DEF InitBridge, Encode, Extract, TakeLast, DropLists, gpu, python, lists
    <2>2. \A n : Arrived(n) => Arrived(n)'
      BY <2>1 DEF Arrived, InFlight
    <2>3. \A u \in Threads : pc'[u] \in {"committed", "recorded"} =>
                              pc[u] = pc'[u] /\ cmd'[u] = cmd[u]
      BY <1>0, <1>3 DEF InitBridge, Encode, TakeLast, DropLists, MayCall, Goto
    <2> QED
      BY <2>1, <2>2, <2>3
  <1>4. ASSUME NEW t \in Threads,
               \/ EncodeFails(t) \/ Record(t) \/ Retain(t) \/ WaitUntilCompleted(t)
               \/ ReleaseTensors(t) \/ CheckFinite(t) \/ Shutdown(t)
        PROVE  Accounted'
    <2>1. UNCHANGED <<queue, written, lost, cmd>>
      BY <1>4 DEF EncodeFails, Record, Retain, WaitUntilCompleted, ReleaseTensors, CheckFinite,
         Shutdown, gpu
    <2>2. \A n : Arrived(n)' <=> Arrived(n)
      BY <2>1 DEF Arrived, InFlight
    <2>3. \A u \in Threads : pc'[u] \in {"committed", "recorded"} =>
                              pc[u] \in {"committed", "recorded"}
      BY <1>0, <1>4 DEF EncodeFails, Record, Retain, WaitUntilCompleted, ReleaseTensors,
         CheckFinite, Shutdown, Goto
    <2>4. \A n \in finiteChecks' : n \in finiteChecks \/ (n = cmd[t] /\ pc[t] = "recorded")
      BY <1>4 DEF EncodeFails, Record, Retain, WaitUntilCompleted, ReleaseTensors, CheckFinite,
         Shutdown, python, lists
    <2> QED
      BY <2>1, <2>2, <2>3, <2>4
  <1>5. CASE UNCHANGED vars
    BY <1>5 DEF vars, python, lists, gpu, Arrived, InFlight
  <1> QED
    BY <1>1, <1>2, <1>3, <1>4, <1>5 DEF Next, Begin, Continue

LEMMA SerialStep == Serialized /\ SerialInv /\ [Next]_vars => SerialInv'
  <1> SUFFICES ASSUME Serialized, SerialInv, [Next]_vars PROVE SerialInv'
    OBVIOUS
  <1>1. OneCall'
    <2>1. ASSUME NEW t \in Threads, Begin(t) \/ Continue(t) PROVE OneCall'
      BY <2>1, Alone DEF SerialInv, TypeInv
    <2>2. CASE GpuCompletes \/ UNCHANGED vars
      BY <2>2 DEF GpuCompletes, vars, SerialInv, OneCall
    <2> QED
      BY <2>1, <2>2 DEF Next
  <1>2. TypeInv' /\ Order' /\ Alive' /\ KeepsCopies' /\ Accounted'
    BY TypeStep, OrderStep, CopiesStep, AccountStep DEF SerialInv
  <1>3. RetainedUntilReleased' /\ ShutdownLeavesNothing'
    BY RetainStep, ShutdownStep DEF SerialInv
  <1> QED
    BY <1>1, <1>2, <1>3 DEF SerialInv

\* The inductive invariant: where the newest command is recorded at each place
\* of the one call, and who holds the memory of those in flight.
THEOREM SerialInvariant == ASSUME Serialized PROVE Spec => []SerialInv
  <1>1. Init => SerialInv
    <2> SUFFICES ASSUME Init PROVE SerialInv
      OBVIOUS
    <2>1. TypeInv
      BY TypeInit
    <2>2. OneCall /\ Order /\ Alive /\ KeepsCopies /\ Accounted
      BY DEF Init, OneCall, Order, Alive, KeepsCopies, Newest, Accounted
    <2>3. ToSet(<<>>) = {}
      BY DEF ToSet
    <2>4. RetainedUntilReleased /\ ShutdownLeavesNothing
      BY <2>3 DEF Init, RetainedUntilReleased, RetainedUntilDone, InFlight, ShutdownLeavesNothing
    <2> QED
      BY <2>1, <2>2, <2>4 DEF SerialInv
  <1>2. SerialInv /\ [Next]_vars => SerialInv'
    BY SerialStep
  <1> QED
    BY <1>1, <1>2, PTL DEF Spec

\* Outside a shutdown every command in flight has its arrays and its copies
\* held, although synchronize releases all after waiting for one command.
THEOREM ArraysOutliveCommands == ASSUME Serialized PROVE Spec => []RetainedUntilReleased
  <1>1. SerialInv => RetainedUntilReleased
    BY DEF SerialInv
  <1> QED
    BY <1>1, SerialInvariant, PTL

\* When synchronize returns from its wait, the thread's commands are done.
THEOREM SynchronizeWaitsForAll == ASSUME Serialized PROVE Spec => []SynchronizeDrains
  <1>1. SerialInv => SynchronizeDrains
    <2>1. ToSet(<<>>) = {}
      BY DEF ToSet
    <2> QED
      BY <2>1 DEF SerialInv, Order, SynchronizeDrains, InFlight
  <1> QED
    BY <1>1, SerialInvariant, PTL

\* The GPU has written every output that a finiteness check is about to read,
\* but for those it never writes: of a command that ended in an error, and one
\* that is not contiguous, whose copy it writes instead.
THEOREM ChecksReadResults == ASSUME Serialized PROVE Spec => []ChecksSeeResults
  <1>1. SerialInv => ChecksSeeResults
    <2>1. ToSet(<<>>) = {}
      BY DEF ToSet
    <2> QED
      BY <2>1 DEF SerialInv, Order, Accounted, Arrived, ChecksSeeResults, InFlight
  <1> QED
    BY <1>1, SerialInvariant, PTL

\* A shutdown that has ended leaves no command running behind it.
THEOREM ShutdownWaitsForAll == ASSUME Serialized PROVE Spec => []ShutdownLeavesNothing
  <1>1. SerialInv => ShutdownLeavesNothing
    BY DEF SerialInv
  <1> QED
    BY <1>1, SerialInvariant, PTL
=============================================================================
