------------------------ MODULE StreamEngine_proofs ------------------------
(***************************************************************************)
(* Proofs about StreamEngine, for every slot size, every set of calls and  *)
(* any number of files and calls.                                          *)
(***************************************************************************)
EXTENDS StreamEngine, FiniteSetTheorems, TLAPS

\* The kernels keep state and output well-typed.
LEMMA KernelTypes ==
  ASSUME NEW p, NEW valid \in BOOLEAN,
         NEW a \in [Tokens -> [Tokens -> Nat]],
         NEW o \in [Tokens -> [Tokens -> Nat]]
  PROVE  /\ Kernel!StateAfter(p, a, valid) \in [Tokens -> [Tokens -> Nat]]
         /\ Kernel!OutputAfter(p, a, o, valid) \in [Tokens -> [Tokens -> Nat]]
<1>1. ASSUME NEW q \in Tokens
      PROVE  Kernel!Accumulated(p, q, a, valid) \in [Tokens -> Nat]
  BY <1>1 DEF Kernel!Accumulated, Kernel!Nothing
<1>2. QED
  BY <1>1 DEF Kernel!StateAfter, Kernel!OutputAfter

LEMMA ChunkCountIsNat ==
  /\ \A n \in Nat : NumChunks(n) \in Nat
  /\ \A cl \in Calls : SsdTokens(cl) \in Nat /\ Chunks(cl) \in Nat
<1>1. ASSUME NEW n \in Nat PROVE NumChunks(n) \in Nat
  BY RingAssumption DEF NumChunks
<1>2. ASSUME NEW cl \in Calls PROVE SsdTokens(cl) \in Nat
  BY StreamAssumption DEF SsdTokens
<1>3. QED BY <1>1, <1>2 DEF Chunks

LEMMA SlotOfChunk == \A n \in Nat : SlotOf(n) \in Slots
BY DEF SlotOf, Slots

\* The other slot is the next chunk's.
LEMMA SlotsAlternate == \A n \in Nat : SlotOf(n + 1) # SlotOf(n)
BY DEF SlotOf

LEMMA PrefetchTypes ==
  ASSUME RingTypeOK, NEW n \in Nat, PrefetchChunkAsync(SlotOf(n), n)
  PROVE  /\ isPrefetching' \in [Slots -> BOOLEAN]
         /\ ioQueue' \in Seq(Job)
<1>1. [slot |-> SlotOf(n), chunk |-> n, file |-> fd] \in Job
  BY SlotOfChunk DEF Job, RingTypeOK
<1>2. ioQueue' \in Seq(Job)
  BY <1>1 DEF RingTypeOK, PrefetchChunkAsync, Enqueue
<1>3. QED
  BY <1>2 DEF RingTypeOK, PrefetchChunkAsync

LEMMA HeadTypes ==
  ASSUME RingTypeOK, ioQueue # <<>>
  PROVE  /\ Head(ioQueue) \in Job /\ Tail(ioQueue) \in Seq(Job)
         /\ Head(ioQueue).slot \in Slots
         /\ Head(ioQueue).chunk \in Nat /\ Head(ioQueue).file \in Nat
<1>1. Head(ioQueue) \in Job /\ Tail(ioQueue) \in Seq(Job)
  BY DEF RingTypeOK
<1>2. QED BY <1>1 DEF Job

\* pread puts a chunk of some file, or garbage, into a slot half.
LEMMA PreadTypes ==
  ASSUME RingTypeOK, NEW job \in Job, NEW old \in [file : Nat, chunk : Nat]
  PROVE  PreadOutcomes(job, old) \subseteq [file : Nat, chunk : Nat]
<1>1. job.chunk \in Nat
  BY DEF Job
<1>2. Chunk(fd, job.chunk) \in [file : Nat, chunk : Nat]
  BY <1>1 DEF Chunk, RingTypeOK
<1>3. Garbage \in [file : Nat, chunk : Nat]
  BY DEF Garbage, Chunk
<1>4. QED BY <1>2, <1>3 DEF PreadOutcomes

-----------------------------------------------------------------------------
\* Every step of the I/O queue keeps the ring's types.
LEMMA IoTypes == ASSUME RingTypeOK, IoStep PROVE RingTypeOK'
<1>1. CASE IoReadK
  <2>1. PICK data \in PreadOutcomes(Head(ioQueue), slotK[Head(ioQueue).slot]) :
          slotK' = [slotK EXCEPT ![Head(ioQueue).slot] = data]
    BY <1>1 DEF IoReadK
  <2>2. data \in [file : Nat, chunk : Nat]
    BY <1>1, <2>1, HeadTypes, PreadTypes DEF IoReadK, RingTypeOK
  <2>3. slotK' \in [Slots -> [file : Nat, chunk : Nat]]
    BY <2>1, <2>2 DEF RingTypeOK
  <2>4. QED BY <1>1, <2>3 DEF IoReadK, RingTypeOK, fileVars
<1>2. CASE IoReadV
  <2>1. PICK data \in PreadOutcomes(Head(ioQueue), slotV[Head(ioQueue).slot]) :
          slotV' = [slotV EXCEPT ![Head(ioQueue).slot] = data]
    BY <1>2 DEF IoReadV
  <2>2. data \in [file : Nat, chunk : Nat]
    BY <1>2, <2>1, HeadTypes, PreadTypes DEF IoReadV, RingTypeOK
  <2>3. slotV' \in [Slots -> [file : Nat, chunk : Nat]]
    BY <2>1, <2>2 DEF RingTypeOK
  <2>4. QED BY <1>2, <2>3 DEF IoReadV, RingTypeOK, fileVars
<1>3. CASE IoAccount
  BY <1>3 DEF IoAccount, RingTypeOK, fileVars
<1>4. CASE IoSignal
  <2>1. Head(ioQueue).slot \in Slots /\ ioQueue' \in Seq(Job)
    BY <1>4, HeadTypes DEF IoSignal
  <2>2. readySem' \in [Slots -> Nat]
    BY <1>4, <2>1 DEF IoSignal, RingTypeOK
  <2>3. QED BY <1>4, <2>1, <2>2 DEF IoSignal, RingTypeOK, fileVars
<1>5. QED
  BY <1>1, <1>2, <1>3, <1>4 DEF IoStep

-----------------------------------------------------------------------------
HostTypeOK ==
  /\ pc \in {"idle", "wait", "prefetch", "gpu", "ram", "return", "closed"}
  /\ call \in Calls /\ c \in Nat /\ served \in Nat /\ report \in Nat
  /\ acc \in [Tokens -> [Tokens -> Nat]]
  /\ out \in [Tokens -> [Tokens -> Nat]]

LEMMA InitTypes == Init => TypeOK
BY DEF Init, RingInit, TypeOK, RingTypeOK, Untouched, Kernel!Nothing, Slots,
       Garbage, Chunk, Job

LEMMA StepTypes == TypeOK /\ [Next]_vars => TypeOK'
<1> SUFFICES ASSUME RingTypeOK, HostTypeOK, [Next]_vars
             PROVE  RingTypeOK' /\ HostTypeOK'
  BY DEF TypeOK, HostTypeOK
<1>1. CASE Prepare
  <2>1. PICK n \in Prepares : PrepareFile(n)
    BY <1>1 DEF Prepare
  <2>2. n \in Nat /\ NumChunks(n) \in Nat
    BY StreamAssumption, ChunkCountIsNat
  <2>3. QED
    BY <1>1, <2>1, <2>2
    DEF Prepare, PrepareFile, hostVars, RingTypeOK, HostTypeOK
<1>2. CASE PrepareShort
  <2>1. PICK n \in Prepares : \E done \in 0 .. n : PrepareFileShort(n, done)
    BY <1>2 DEF PrepareShort
  <2>2. PICK done \in 0 .. n : PrepareFileShort(n, done)
    BY <2>1
  <2>3. n \in Nat /\ done \in Nat
    BY StreamAssumption
  <2>4. QED
    BY <1>2, <2>2, <2>3
    DEF PrepareShort, PrepareFileShort, hostVars, RingTypeOK, HostTypeOK
<1>3. CASE PrepareFails
  <2>1. PICK n \in Prepares : PrepareFileFails(n)
    BY <1>3 DEF PrepareFails
  <2>2. n \in Nat
    BY StreamAssumption
  <2>3. QED
    BY <1>3, <2>1, <2>2
    DEF PrepareFails, PrepareFileFails, hostVars, RingTypeOK, HostTypeOK
<1>4. ASSUME NEW cl \in Calls, Execute(cl) PROVE RingTypeOK' /\ HostTypeOK'
  <2>1. isPrefetching' \in [Slots -> BOOLEAN] /\ ioQueue' \in Seq(Job)
    BY <1>4, PrefetchTypes DEF Execute, RingTypeOK
  <2>2. Untouched \in [Tokens -> [Tokens -> Nat]]
    BY DEF Untouched, Kernel!Nothing
  <2>3. QED
    BY <1>4, <2>1, <2>2 DEF Execute, AfterLoop, fileVars, RingTypeOK, HostTypeOK
<1>5. CASE Destroy
  BY <1>5 DEF Destroy, CloseFile, RingTypeOK, HostTypeOK
<1>6. CASE Wait
  <2>1. SlotOf(c) \in Slots
    BY SlotOfChunk DEF HostTypeOK
  <2>2. readySem' \in [Slots -> Nat]
    BY <1>6, <2>1 DEF Wait, WaitForSlot, RingTypeOK
  <2>3. isPrefetching' \in [Slots -> BOOLEAN]
    BY <1>6, <2>1 DEF Wait, WaitForSlot, RingTypeOK
  <2>4. QED
    BY <1>6, <2>2, <2>3 DEF Wait, fileVars, RingTypeOK, HostTypeOK
<1>7. CASE PrefetchNext
  <2>1. isPrefetching' \in [Slots -> BOOLEAN] /\ ioQueue' \in Seq(Job)
    BY <1>7, PrefetchTypes DEF PrefetchNext, RingTypeOK, HostTypeOK
  <2>2. QED
    BY <1>7, <2>1 DEF PrefetchNext, fileVars, RingTypeOK, HostTypeOK
<1>8. CASE GpuPass
  <2>1. HoldsChunk(SlotOf(c), c) \in BOOLEAN
    BY DEF HoldsChunk
  <2>2. /\ acc' \in [Tokens -> [Tokens -> Nat]]
        /\ out' \in [Tokens -> [Tokens -> Nat]]
    BY <1>8, <2>1, KernelTypes DEF GpuPass, HostTypeOK
  <2>3. pc' \in {"wait", "ram", "return"} /\ c' \in Nat
    BY <1>8 DEF GpuPass, AfterLoop, HostTypeOK
  <2>4. QED
    BY <1>8, <2>2, <2>3 DEF GpuPass, ringVars, RingTypeOK, HostTypeOK
<1>9. CASE GpuRamPass
  BY <1>9, KernelTypes DEF GpuRamPass, ringVars, RingTypeOK, HostTypeOK
<1>10. CASE Return
  BY <1>10 DEF Return, ringVars, RingTypeOK, HostTypeOK
<1>11. CASE Io
  BY <1>11, IoTypes DEF Io, hostVars, HostTypeOK
<1>12. CASE UNCHANGED vars
  BY <1>12 DEF vars, ringVars, hostVars, RingTypeOK, HostTypeOK
<1>13. QED
  BY <1>1, <1>2, <1>3, <1>4, <1>5, <1>6, <1>7, <1>8, <1>9, <1>10, <1>11, <1>12
  DEF Next, Client, Host, Finished

\* Every variable keeps its type.
THEOREM TypeCorrect == Spec => []TypeOK
BY InitTypes, StepTypes, PTL DEF Spec

-----------------------------------------------------------------------------
(* The protocol between host and I/O queue.                                *)

\* A prefetch issued when nothing is pending becomes the one pending job.
LEMMA PrefetchMakesPending ==
  ASSUME NEW n \in Nat, Quiet, PrefetchChunkAsync(SlotOf(n), n),
         UNCHANGED <<fd, readySem, stage>>
  PROVE  Pending(n)' /\ InQueue(n)' /\ stage' = "K"
<1>1. ioQueue' = <<JobOf(n)>> /\ JobOf(n)' = JobOf(n)
  BY DEF Quiet, PrefetchChunkAsync, Enqueue, JobOf
<1>2. InQueue(n)' /\ stage' = "K"
  BY <1>1 DEF InQueue, Quiet, NoCounts
<1>3. isPrefetching' = [s \in Slots |-> s = SlotOf(n)]
  BY SlotOfChunk DEF Quiet, PrefetchChunkAsync
<1>4. QED BY <1>2, <1>3 DEF Pending

\* The wait returns only once the pending read has signalled, and then
\* nothing is pending any more.
LEMMA WaitMakesQuiet ==
  ASSUME NEW n \in Nat, Pending(n), WaitForSlot(SlotOf(n)),
         UNCHANGED <<ioQueue, stage>>
  PROVE  Signalled(n) /\ Quiet'
<1>1. SlotOf(n) \in Slots
  BY SlotOfChunk
<1>2. isPrefetching[SlotOf(n)]
  BY <1>1 DEF Pending
<1>3. readySem[SlotOf(n)] > 0
  BY <1>2 DEF WaitForSlot
<1>4. Signalled(n)
  BY <1>1, <1>3 DEF Pending, InQueue, NoCounts
<1>5. readySem' = NoCounts
  BY <1>1, <1>2, <1>4 DEF Signalled, WaitForSlot, NoCounts
<1>6. isPrefetching' = [s \in Slots |-> FALSE]
  BY <1>1 DEF Pending, WaitForSlot
<1>7. QED BY <1>4, <1>5, <1>6 DEF Signalled, Quiet

\* A step of the I/O queue keeps the pending prefetch pending; it counts the
\* chunk exactly once.
LEMMA IoKeepsPending ==
  ASSUME NEW n \in Nat, RingTypeOK, Pending(n), IoStep
  PROVE  /\ Pending(n)' /\ InQueue(n)
         /\ \A k \in Nat : readChunks = k + Counted => readChunks' = k + Counted'
<1>1. InQueue(n)
  BY DEF Pending, Signalled, IoStep, IoReadK, IoReadV, IoAccount, IoSignal
<1>2. ioQueue = <<JobOf(n)>> /\ Head(ioQueue) = JobOf(n) /\ Tail(ioQueue) = <<>>
  BY <1>1 DEF InQueue
<1>3. UNCHANGED <<fd, isPrefetching>> /\ JobOf(n)' = JobOf(n)
  BY DEF IoStep, IoReadK, IoReadV, IoAccount, IoSignal, fileVars, JobOf
<1>4. ioQueue # <<>>
  BY <1>2
<1>5. readChunks \in Nat
  BY DEF RingTypeOK
<1>6. CASE IoSignal
  <2>1. ioQueue' = <<>> /\ stage' = "K" /\ stage = "signal" /\ readChunks' = readChunks
    BY <1>2, <1>6 DEF IoSignal
  <2>2. JobOf(n).slot = SlotOf(n) /\ SlotOf(n) \in Slots
    BY SlotOfChunk DEF JobOf
  <2>3. readySem' = [s \in Slots |-> IF s = SlotOf(n) THEN 1 ELSE 0]
    BY <1>1, <1>2, <1>6, <2>2 DEF IoSignal, InQueue, NoCounts
  <2>4. Signalled(n)'
    BY <2>1, <2>3 DEF Signalled
  <2>5. QED BY <1>1, <1>3, <1>5, <2>1, <2>4 DEF Pending, Counted
<1>7. CASE IoReadK \/ IoReadV \/ IoAccount
  <2>1. ioQueue' = ioQueue /\ readySem' = readySem
    BY <1>7 DEF IoReadK, IoReadV, IoAccount
  <2>2. InQueue(n)'
    BY <1>1, <1>3, <2>1 DEF InQueue, NoCounts
  <2>3. \A k \in Nat : readChunks = k + Counted => readChunks' = k + Counted'
    BY <1>4, <1>5, <1>7, <2>1 DEF Counted, IoReadK, IoReadV, IoAccount
  <2>4. QED BY <1>1, <1>3, <2>2, <2>3 DEF Pending
<1>8. QED BY <1>6, <1>7 DEF IoStep

-----------------------------------------------------------------------------
LEMMA RingInvInit == Init => RingInv
<1> SUFFICES ASSUME Init PROVE RingInv
  OBVIOUS
<1>1. TypeOK
  BY InitTypes
<1>2. Quiet /\ pc = "idle"
  BY DEF Init, RingInit, Quiet, NoCounts
<1>3. QED BY <1>1, <1>2 DEF RingInv, Protocol, Accounting, InLoop

LEMMA RingInvNext == RingInv /\ [Next]_vars => RingInv'
<1> SUFFICES ASSUME RingInv, [Next]_vars PROVE Protocol' /\ Accounting'
  BY StepTypes DEF RingInv
<1> USE DEF RingInv
<1>1. c \in Nat /\ call \in Calls /\ Chunks(call) \in Nat /\ RingTypeOK /\ readChunks \in Nat
  BY ChunkCountIsNat DEF TypeOK, RingTypeOK
<1>2. ASSUME Quiet, UNCHANGED <<ioQueue, stage, readySem, isPrefetching>> PROVE Quiet'
  BY <1>2 DEF Quiet, NoCounts
<1>3. CASE Prepare \/ PrepareShort \/ PrepareFails \/ Destroy
  <2>1. Quiet /\ pc' \in {"idle", "closed"}
    BY <1>3 DEF Prepare, PrepareShort, PrepareFails, Destroy, hostVars, Protocol
  <2>2. UNCHANGED <<ioQueue, stage, readySem, isPrefetching>>
    BY <1>3 DEF Prepare, PrepareShort, PrepareFails, Destroy
  <2>3. QED BY <2>1, <2>2, <1>2 DEF Protocol, Accounting, InLoop
<1>4. ASSUME NEW cl \in Calls, Execute(cl) PROVE Protocol' /\ Accounting'
  <2>1. Quiet /\ call' = cl /\ c' = 0 /\ readChunks' = 0 /\ Chunks(call)' = Chunks(cl)
    BY <1>4 DEF Execute, Protocol, Chunks, SsdTokens
  <2>2. Chunks(cl) \in Nat
    BY ChunkCountIsNat
  <2>3. CASE Chunks(cl) > 0
    <3>1. PrefetchChunkAsync(SlotOf(0), 0) /\ pc' = "wait" /\ UNCHANGED <<fd, readySem, stage>>
      BY <1>4, <2>3 DEF Execute, fileVars
    <3>2. Pending(0)' /\ InQueue(0)' /\ stage' = "K"
      BY <2>1, <3>1, PrefetchMakesPending
    <3>3. Pending(c)'
      BY <2>1, <3>2 DEF Pending, InQueue, Signalled, JobOf
    <3>4. Counted' = 0
      BY <3>2 DEF Counted, InQueue
    <3>5. QED BY <2>1, <2>3, <3>1, <3>3, <3>4 DEF Protocol, Accounting, InLoop
  <2>4. CASE ~(Chunks(cl) > 0)
    <3>1. /\ UNCHANGED <<ioQueue, stage, readySem, isPrefetching>>
          /\ pc' \in {"ram", "return"}
      BY <1>4, <2>4 DEF Execute, AfterLoop
    <3>2. QED BY <2>1, <2>2, <2>4, <3>1, <1>2 DEF Protocol, Accounting, InLoop
  <2>5. QED BY <2>3, <2>4
<1>5. CASE Wait
  <2>1. Signalled(c) /\ Quiet'
    BY <1>1, <1>5, WaitMakesQuiet DEF Wait, Protocol
  <2>2. Counted = 1 /\ Chunks(call)' = Chunks(call)
    BY <1>5, <2>1 DEF Counted, Signalled, Wait, Chunks, SsdTokens
  <2>3. QED BY <1>1, <1>5, <2>1, <2>2 DEF Wait, Protocol, Accounting, InLoop
<1>6. CASE PrefetchNext
  <2>1. Quiet /\ c < Chunks(call) /\ readChunks = c + 1
    BY <1>6 DEF PrefetchNext, Protocol, Accounting, InLoop
  <2>2. /\ MoreChunks' = MoreChunks /\ pc' = "gpu" /\ c' = c /\ call' = call
        /\ readChunks' = readChunks /\ Chunks(call)' = Chunks(call)
    BY <1>6 DEF PrefetchNext, MoreChunks, Chunks, SsdTokens
  <2>3. CASE MoreChunks
    <3>1. Pending(c + 1)' /\ InQueue(c + 1)' /\ stage' = "K"
      <4>1. PrefetchChunkAsync(SlotOf(c + 1), c + 1) /\ UNCHANGED <<fd, readySem, stage>>
        BY <1>6, <2>3 DEF PrefetchNext, MoreChunks, fileVars
      <4>2. \A n \in Nat : n = c + 1 => Pending(n)' /\ InQueue(n)' /\ stage' = "K"
        BY <2>1, <4>1, PrefetchMakesPending
      <4>3. QED BY <1>1, <2>2, <4>2 DEF Pending, InQueue, Signalled, JobOf
    <3>2. Counted' = 0
      BY <3>1 DEF Counted, InQueue
    <3>3. QED BY <1>1, <2>1, <2>2, <2>3, <3>1, <3>2 DEF Protocol, Accounting, InLoop
  <2>4. CASE ~MoreChunks
    <3>1. Quiet'
      BY <1>2, <1>6, <2>1, <2>4 DEF PrefetchNext, MoreChunks
    <3>2. QED BY <1>1, <2>1, <2>2, <2>4, <3>1 DEF Protocol, Accounting, InLoop
  <2>5. QED BY <2>3, <2>4
<1>7. CASE GpuPass
  <2>1. /\ c < Chunks(call) /\ c' = c + 1 /\ call' = call /\ UNCHANGED ringVars
        /\ Chunks(call)' = Chunks(call) /\ pc = "gpu"
    BY <1>7 DEF GpuPass, Protocol, InLoop, Chunks, SsdTokens
  <2>2. UNCHANGED <<fd, ioQueue, stage, readySem, isPrefetching, readChunks>>
    BY <2>1 DEF ringVars
  <2>3. CASE MoreChunks
    <3>1. Pending(c + 1) /\ pc' = "wait"
      BY <1>7, <2>3 DEF GpuPass, Protocol, MoreChunks
    <3>2. Pending(c)'
      BY <2>1, <2>2, <3>1 DEF Pending, InQueue, Signalled, JobOf, NoCounts
    <3>3. Counted' = Counted
      BY <2>2 DEF Counted
    <3>4. QED
      BY <1>1, <2>1, <2>2, <2>3, <3>1, <3>2, <3>3
      DEF Protocol, Accounting, InLoop, MoreChunks
  <2>4. CASE ~MoreChunks
    <3>1. Quiet' /\ pc' \in {"ram", "return"}
      BY <1>2, <1>7, <2>2, <2>4 DEF GpuPass, AfterLoop, Protocol, MoreChunks
    <3>2. c + 1 = Chunks(call) /\ readChunks = c + 1
      BY <1>1, <2>1, <2>4 DEF MoreChunks, Accounting
    <3>3. QED BY <2>1, <2>2, <3>1, <3>2 DEF Protocol, Accounting, InLoop
  <2>5. QED BY <2>3, <2>4
<1>8. CASE GpuRamPass \/ Return
  <2>1. /\ Quiet /\ UNCHANGED <<ioQueue, stage, readySem, isPrefetching, readChunks, call>>
        /\ pc' \in {"return", "idle"} /\ Chunks(call)' = Chunks(call)
        /\ readChunks = Chunks(call)
    BY <1>8 DEF GpuRamPass, Return, ringVars, Protocol, Accounting, Chunks, SsdTokens
  <2>2. QED BY <1>2, <2>1 DEF Protocol, Accounting, InLoop
<1>9. CASE Io
  <2>1. IoStep /\ UNCHANGED <<pc, call, c>> /\ MoreChunks' = MoreChunks
        /\ Chunks(call)' = Chunks(call)
    BY <1>9 DEF Io, hostVars, MoreChunks, Chunks, SsdTokens
  <2>2. ~Quiet
    BY <2>1 DEF Quiet, IoStep, IoReadK, IoReadV, IoAccount, IoSignal
  <2>3. /\ Counted \in Int /\ Counted' \in Int
        /\ readChunks \in Int /\ readChunks' \in Int
    BY <1>1, <2>1, IoTypes DEF Counted, RingTypeOK
  <2>4. CASE pc = "wait"
    <3>1. /\ Pending(c)'
          /\ \A k \in Nat : readChunks = k + Counted => readChunks' = k + Counted'
      BY <1>1, <2>1, <2>4, IoKeepsPending DEF Protocol
    <3>2. readChunks = c + Counted /\ c < Chunks(call)
      <4>1. readChunks = c + Counted
        BY <2>4 DEF Accounting
      <4>2. c < Chunks(call)
        BY <2>4 DEF Protocol, InLoop
      <4>3. QED BY <4>1, <4>2
    <3>3. readChunks' = c' + Counted'
      BY <1>1, <2>1, <3>1, <3>2
    <3>4. Protocol'
      BY <2>1, <2>4, <3>1, <3>2 DEF Protocol, InLoop
    <3>5. Accounting'
      BY <2>1, <2>4, <3>3 DEF Accounting
    <3>6. QED BY <3>4, <3>5
  <2>5. CASE pc = "gpu"
    <3>1. MoreChunks /\ Pending(c + 1)
      BY <2>2, <2>5 DEF Protocol
    <3>2. \A n \in Nat : n = c + 1 =>
            /\ Pending(n)'
            /\ \A k \in Nat : readChunks = k + Counted => readChunks' = k + Counted'
      BY <1>1, <2>1, <3>1, IoKeepsPending
    <3>3. /\ Pending(c + 1)'
          /\ \A k \in Nat : readChunks = k + Counted => readChunks' = k + Counted'
      BY <1>1, <2>1, <3>2 DEF Pending, InQueue, Signalled, JobOf
    <3>4. readChunks = c + 1 + Counted /\ c < Chunks(call)
      <4>1. readChunks = c + 1 + Counted
        BY <2>5, <3>1 DEF Accounting
      <4>2. c < Chunks(call)
        BY <2>5 DEF Protocol, InLoop
      <4>3. QED BY <4>1, <4>2
    <3>5. readChunks' = c' + 1 + Counted'
      BY <1>1, <2>1, <3>3, <3>4
    <3>6. Protocol'
      BY <2>1, <2>5, <3>1, <3>3, <3>4 DEF Protocol, InLoop
    <3>7. Accounting'
      BY <2>1, <2>5, <3>1, <3>5 DEF Accounting
    <3>8. QED BY <3>6, <3>7
  <2>6. QED BY <2>1, <2>2, <2>4, <2>5 DEF Protocol, TypeOK
<1>10. CASE UNCHANGED vars
  BY <1>10 DEF vars, ringVars, hostVars, Protocol, Accounting, Counted, InLoop, MoreChunks,
     Quiet, Pending, InQueue, Signalled, JobOf, NoCounts, Chunks, SsdTokens
<1>11. QED
  BY <1>3, <1>4, <1>5, <1>6, <1>7, <1>8, <1>9, <1>10 DEF Next, Client, Host, Finished

\* Throughout: at most one prefetch is pending, it is the one the host's place
\* in the loop says, and the metrics have counted what was read by then.
THEOREM RingInvariant == Spec => []RingInv
BY RingInvInit, RingInvNext, PTL DEF Spec

-----------------------------------------------------------------------------
\* While the GPU reads a slot, no queued or running read writes it: the only
\* job that can be queued then is for the other slot.
THEOREM GpuNeverRacesIo == Spec => []NoSlotRace
<1>1. ASSUME RingInv PROVE NoSlotRace
  <2> SUFFICES ASSUME pc = "gpu" PROVE ~BeingWritten(SlotOf(c))
    BY DEF NoSlotRace
  <2>1. c \in Nat
    BY <1>1 DEF RingInv, TypeOK
  <2>2. \/ ioQueue = <<>>
        \/ ioQueue = <<JobOf(c + 1)>>
    BY <1>1 DEF RingInv, Protocol, Quiet, Pending, InQueue, Signalled
  <2>3. CASE ioQueue = <<>>
    BY <2>3 DEF BeingWritten
  <2>4. CASE ioQueue = <<JobOf(c + 1)>>
    <3>1. \A i \in 1 .. Len(ioQueue) : ioQueue[i].slot = SlotOf(c + 1)
      BY <2>4 DEF JobOf
    <3>2. QED BY <2>1, <3>1, SlotsAlternate DEF BeingWritten
  <2>5. QED BY <2>2, <2>3, <2>4
<1>2. QED BY <1>1, RingInvariant, PTL

\* Every prefetch is answered by exactly one signal and consumed by exactly
\* one wait: no semaphore count outlives its prefetch.
THEOREM SemaphoresBalance == Spec => []SemaphoreBalance
<1>1. ASSUME RingInv PROVE SemaphoreBalance
  <2>1. c \in Nat /\ pc \in {"idle", "wait", "prefetch", "gpu", "ram", "return", "closed"}
    BY <1>1 DEF RingInv, TypeOK
  <2>2. Quiet \/ \E n \in Nat : Pending(n)
    BY <1>1, <2>1 DEF RingInv, Protocol
  <2>3. CASE ioQueue = <<>>
    <3>1. \A s \in Slots : QueuedJobs(s) = 0
      BY <2>3, FS_EmptySet DEF QueuedJobs
    <3>2. ASSUME NEW s \in Slots, Quiet
          PROVE  readySem[s] = 0 /\ ~isPrefetching[s]
      BY <3>2 DEF Quiet, NoCounts
    <3>3. ASSUME NEW n \in Nat, Pending(n), NEW s \in Slots
          PROVE  readySem[s] = IF isPrefetching[s] THEN 1 ELSE 0
      <4>1. Signalled(n)
        BY <2>3, <3>3 DEF Pending, InQueue
      <4>2. readySem[s] = (IF s = SlotOf(n) THEN 1 ELSE 0) /\ isPrefetching[s] = (s = SlotOf(n))
        BY <3>3, <4>1 DEF Pending, Signalled
      <4>3. QED BY <4>2
    <3>4. ASSUME NEW s \in Slots
          PROVE  readySem[s] = IF isPrefetching[s] THEN 1 ELSE 0
      BY <2>2, <3>2, <3>3
    <3>5. QED BY <3>1, <3>4 DEF SemaphoreBalance
  <2>4. ASSUME NEW n \in Nat, Pending(n), InQueue(n) PROVE SemaphoreBalance
    <3>1. ioQueue = <<JobOf(n)>> /\ JobOf(n).slot = SlotOf(n)
      BY <2>4 DEF InQueue, JobOf
    <3>2. ASSUME NEW s \in Slots
          PROVE  QueuedJobs(s) = IF s = SlotOf(n) THEN 1 ELSE 0
      <4>1. {i \in 1 .. Len(ioQueue) : ioQueue[i].slot = s}
              = IF s = SlotOf(n) THEN {1} ELSE {}
        BY <3>1
      <4>2. QED BY <4>1, FS_EmptySet, FS_Singleton DEF QueuedJobs
    <3>3. ASSUME NEW s \in Slots
          PROVE  readySem[s] + QueuedJobs(s) = IF isPrefetching[s] THEN 1 ELSE 0
      <4>1. readySem[s] = 0 /\ (isPrefetching[s] <=> s = SlotOf(n))
        BY <2>4, <3>3 DEF Pending, InQueue, NoCounts
      <4>2. CASE s = SlotOf(n)
        BY <3>2, <3>3, <4>1, <4>2
      <4>3. CASE s # SlotOf(n)
        BY <3>2, <3>3, <4>1, <4>3
      <4>4. QED BY <4>2, <4>3
    <3>4. QED BY <3>3 DEF SemaphoreBalance
  <2>5. QED BY <2>2, <2>3, <2>4 DEF Quiet, Pending, Signalled
<1>2. QED BY <1>1, RingInvariant, PTL

\* The file is closed or replaced only when no read of it is queued.
THEOREM FileIsNeverPulledAway == Spec => FileOutlivesReads
<1>1. RingInv /\ [Next]_vars => [fd' # fd => ioQueue = <<>>]_vars
  <2> SUFFICES ASSUME RingInv, Next, fd' # fd PROVE ioQueue = <<>>
    BY DEF vars
  <2>1. pc = "idle"
    BY DEF Next, Client, Prepare, PrepareShort, PrepareFails, Execute, Destroy, Host,
       Wait, PrefetchNext, GpuPass, GpuRamPass, Return, Io, IoStep, IoReadK, IoReadV,
       IoAccount, IoSignal, Finished, fileVars, ringVars, vars
  <2>2. QED BY <2>1 DEF RingInv, Protocol, Quiet
<1>2. QED BY <1>1, RingInvariant, PTL DEF Spec, FileOutlivesReads

\* The reported metrics count exactly the chunks of the call.
THEOREM MetricsAreComplete == Spec => ReportsAllReads
<1>1. RingInv /\ [Next]_vars
        => [pc = "return" /\ pc' = "idle" => report' = Chunks(call)]_vars
  <2> SUFFICES ASSUME RingInv, Next, pc = "return", pc' = "idle"
               PROVE  report' = Chunks(call)
    BY DEF vars
  <2>1. Return
    BY DEF Next, Client, Prepare, PrepareShort, PrepareFails, Execute, Destroy, Host,
       Wait, PrefetchNext, GpuPass, GpuRamPass, Io, hostVars, Finished
  <2>2. QED BY <2>1 DEF Return, RingInv, Accounting
<1>2. QED BY <1>1, RingInvariant, PTL DEF Spec, ReportsAllReads

-----------------------------------------------------------------------------
(* An engine whose I/O succeeds: what the slots hold (every pass over chunk*)
(* c reads chunk c of the current file), what the answer of a call is      *)
(* (however the tokens fall into chunks and tiles, every query has attended*)
(* to every key up to it exactly once), and that the engine therefore      *)
(* implements CausalAttention.                                             *)

-----------------------------------------------------------------------------
(* What the slots hold.                                                    *)

LEMMA DivMonotone ==
  ASSUME NEW d \in Nat \ {0}, NEW a \in Nat, NEW b \in Nat, a <= b
  PROVE  a \div d <= b \div d
<1> DEFINE x == a \div d
           y == b \div d
<1>1. x \in Int /\ y \in Int /\ d * x <= a /\ b < d * (y + 1)
  <2>1. /\ a = d * x + (a % d) /\ x \in Int /\ a % d \in 0 .. d - 1
        /\ b = d * y + (b % d) /\ y \in Int /\ b % d \in 0 .. d - 1
    OBVIOUS
  <2>2. d * (y + 1) = d * y + d
    BY <2>1
  <2>3. QED BY <2>1, <2>2
<1> HIDE DEF x, y
<1>2. ASSUME x > y PROVE FALSE
  <2>1. d * (y + 1) <= d * x
    BY <1>1, <1>2
  <2>2. QED BY <1>1, <2>1
<1>3. x <= y
  BY <1>1, <1>2
<1>4. QED BY <1>3 DEF x, y

\* More tokens need no fewer chunks, and none need none.
LEMMA NumChunksMonotone ==
  /\ \A n, m \in Nat : n <= m => NumChunks(n) <= NumChunks(m)
  /\ NumChunks(0) = 0
<1>1. ASSUME NEW n \in Nat, NEW m \in Nat, n <= m
      PROVE  NumChunks(n) <= NumChunks(m)
  <2> DEFINE a == n + SlotTokens - 1
             b == m + SlotTokens - 1
  <2>1. a \in Nat /\ b \in Nat /\ a <= b /\ SlotTokens \in Nat \ {0}
    BY <1>1, RingAssumption
  <2> HIDE DEF a, b
  <2>2. a \div SlotTokens <= b \div SlotTokens
    BY <2>1, DivMonotone
  <2>3. QED BY <2>2 DEF NumChunks, a, b
<1>2. NumChunks(0) = 0
  BY RingAssumption DEF NumChunks
<1>3. QED BY <1>1, <1>2

-----------------------------------------------------------------------------
\* A prefetch just issued has loaded nothing yet.
LEMMA FreshPrefetchLoadedNothing ==
  ASSUME NEW n \in Nat, Quiet, PrefetchChunkAsync(SlotOf(n), n),
         UNCHANGED <<fd, stage>>
  PROVE  LoadedSoFar(n)'
<1>1. ioQueue' = <<JobOf(n)>> /\ stage' = "K"
  BY DEF Quiet, PrefetchChunkAsync, Enqueue, JobOf
<1>2. ioQueue' # <<>>
  BY <1>1
<1>3. QED BY <1>1, <1>2 DEF LoadedSoFar, InQueue, Signalled

\* Without errors, a read of a chunk that was written puts it into the slot.
LEMMA PreadReadsChunk ==
  ASSUME ~IoMayFail, NEW n \in Nat, NEW old, fd # 0, n < written
  PROVE  PreadOutcomes(JobOf(n), old) = {Chunk(fd, n)}
<1>1. Readable(JobOf(n)) /\ JobOf(n).chunk = n
  BY DEF Readable, JobOf
<1>2. QED BY <1>1 DEF PreadOutcomes

\* A step of the I/O queue for the pending chunk n loads chunk n, half by
\* half, and leaves the other slot alone.
LEMMA IoLoads ==
  ASSUME ~IoMayFail, RingTypeOK, NEW n \in Nat, Pending(n), LoadedSoFar(n),
         fd # 0, n < written, IoStep
  PROVE  /\ LoadedSoFar(n)' /\ UNCHANGED fileVars
         /\ \A s \in Slots : s # SlotOf(n) =>
              slotK'[s] = slotK[s] /\ slotV'[s] = slotV[s]
<1>1. InQueue(n)
  BY DEF Pending, Signalled, IoStep, IoReadK, IoReadV, IoAccount, IoSignal
<1>2. /\ Head(ioQueue) = JobOf(n) /\ Tail(ioQueue) = <<>> /\ ioQueue # <<>>
      /\ JobOf(n).slot = SlotOf(n) /\ SlotOf(n) \in Slots
  BY <1>1, SlotOfChunk DEF InQueue, JobOf
<1>3. /\ slotK \in [Slots -> [file : Nat, chunk : Nat]]
      /\ slotV \in [Slots -> [file : Nat, chunk : Nat]]
  BY DEF RingTypeOK
<1>4. CASE IoReadK
  <2>1. \E data \in PreadOutcomes(JobOf(n), slotK[SlotOf(n)]) :
          slotK' = [slotK EXCEPT ![SlotOf(n)] = data]
    BY <1>2, <1>4 DEF IoReadK
  <2>2. slotK' = [slotK EXCEPT ![SlotOf(n)] = Chunk(fd, n)]
    BY <2>1, PreadReadsChunk
  <2>3. /\ stage' = "V" /\ ioQueue' = ioQueue /\ slotV' = slotV
        /\ UNCHANGED fileVars /\ fd' = fd
    BY <1>4 DEF IoReadK, fileVars
  <2>4. slotK'[SlotOf(n)] = Chunk(fd, n)
    BY <1>2, <1>3, <2>2
  <2>5. LoadedSoFar(n)'
    BY <1>2, <2>3, <2>4 DEF LoadedSoFar, Signalled, Chunk
  <2>6. QED BY <1>3, <2>2, <2>3, <2>5
<1>5. CASE IoReadV
  <2>1. \E data \in PreadOutcomes(JobOf(n), slotV[SlotOf(n)]) :
          slotV' = [slotV EXCEPT ![SlotOf(n)] = data]
    BY <1>2, <1>5 DEF IoReadV
  <2>2. slotV' = [slotV EXCEPT ![SlotOf(n)] = Chunk(fd, n)]
    BY <2>1, PreadReadsChunk
  <2>3. /\ stage = "V" /\ stage' = "account" /\ ioQueue' = ioQueue
        /\ slotK' = slotK /\ UNCHANGED fileVars /\ fd' = fd
    BY <1>5 DEF IoReadV, fileVars
  <2>4. /\ slotV'[SlotOf(n)] = Chunk(fd, n)
        /\ slotK'[SlotOf(n)] = Chunk(fd, n)
    BY <1>1, <1>2, <1>3, <2>2, <2>3 DEF LoadedSoFar
  <2>5. LoadedSoFar(n)'
    BY <1>2, <2>3, <2>4 DEF LoadedSoFar, Signalled, Chunk
  <2>6. QED BY <1>3, <2>2, <2>3, <2>5
<1>6. CASE IoAccount
  <2>1. /\ stage = "account" /\ stage' = "signal" /\ ioQueue' = ioQueue
        /\ UNCHANGED <<slotK, slotV>> /\ UNCHANGED fileVars /\ fd' = fd
    BY <1>6 DEF IoAccount, fileVars
  <2>2. LoadedSoFar(n)'
    BY <1>1, <1>2, <2>1 DEF LoadedSoFar, Signalled, Chunk
  <2>3. QED BY <2>1, <2>2
<1>7. CASE IoSignal
  <2>1. /\ stage = "signal" /\ ioQueue' = <<>>
        /\ UNCHANGED <<slotK, slotV>> /\ UNCHANGED fileVars /\ fd' = fd
    BY <1>2, <1>7 DEF IoSignal, fileVars
  <2>2. HoldsChunk(SlotOf(n), n)'
    BY <1>1, <2>1 DEF LoadedSoFar, HoldsChunk, Chunk
  <2>3. LoadedSoFar(n)'
    BY <2>1, <2>2 DEF LoadedSoFar, InQueue
  <2>4. QED BY <2>1, <2>3
<1>8. QED BY <1>4, <1>5, <1>6, <1>7 DEF IoStep

-----------------------------------------------------------------------------
LEMMA DataInit == Init => DataReady
BY DEF Init, RingInit, DataReady, FileComplete, Contents, InLoop

\* A step that leaves file, slots and queue alone keeps what is loaded.
LEMMA LoadedStays ==
  ASSUME NEW n, LoadedSoFar(n),
         UNCHANGED <<fd, slotK, slotV, ioQueue, stage, readySem>>
  PROVE  LoadedSoFar(n)'
BY DEF LoadedSoFar, InQueue, Signalled, HoldsChunk, Chunk, JobOf, NoCounts

LEMMA DataNext ==
  ASSUME ~IoMayFail, RingInv, DataReady, [Next]_vars
  PROVE  DataReady'
<1>1. /\ c \in Nat /\ call \in Calls /\ Chunks(call) \in Nat /\ RingTypeOK
      /\ stored \in Nat /\ files \in Nat /\ fd \in Nat /\ written \in Nat
  BY ChunkCountIsNat DEF RingInv, TypeOK, RingTypeOK
<1>2. CASE Prepare
  <2>1. PICK n \in Prepares : PrepareFile(n)
    BY <1>2 DEF Prepare
  <2>2. fd' # 0 /\ written' = NumChunks(stored)' /\ pc' = "idle"
    BY <1>1, <1>2, <2>1 DEF Prepare, PrepareFile, hostVars, NumChunks
  <2>3. QED BY <2>2 DEF DataReady, FileComplete, Contents, InLoop
<1>3. CASE PrepareShort \/ PrepareFails
  BY <1>3 DEF PrepareShort, PrepareFails, PrepareFileShort, PrepareFileFails
<1>4. ASSUME NEW cl \in Calls, Execute(cl) PROVE DataReady'
  <2>1. Quiet /\ pc = "idle" /\ SsdTokens(cl) <= stored /\ SsdTokens(cl) \in Nat
    BY <1>4, ChunkCountIsNat DEF Execute, RingInv, Protocol
  <2>2. /\ call' = cl /\ c' = 0 /\ Chunks(call)' = Chunks(cl)
        /\ UNCHANGED <<fd, stored, written>> /\ UNCHANGED <<slotK, slotV, readySem, stage>>
    BY <1>4 DEF Execute, fileVars, Chunks, SsdTokens
  <2>3. CASE Chunks(cl) > 0
    <3>1. Chunks(cl) <= NumChunks(stored)
      BY <1>1, <2>1, NumChunksMonotone DEF Chunks
    <3>2. stored # 0
      BY <1>1, <2>3, <3>1, NumChunksMonotone, ChunkCountIsNat
    <3>3. fd # 0 /\ Chunks(cl) <= written
      BY <2>1, <3>1, <3>2 DEF DataReady, FileComplete
    <3>4. PrefetchChunkAsync(SlotOf(0), 0) /\ pc' = "wait"
      BY <1>4, <2>3 DEF Execute
    <3>5. LoadedSoFar(0)'
      BY <2>1, <2>2, <3>4, FreshPrefetchLoadedNothing
    <3>6. LoadedSoFar(c)'
      BY <2>2, <3>5 DEF LoadedSoFar, InQueue, Signalled, HoldsChunk, JobOf, SlotOf
    <3>7. FileComplete'
      BY <2>1, <2>2, <3>2, <3>3 DEF DataReady, FileComplete, InLoop, NumChunks
    <3>8. QED BY <3>4, <3>6, <3>7 DEF DataReady, Contents
  <2>4. CASE ~(Chunks(cl) > 0)
    <3>1. pc' \in {"ram", "return"}
      BY <1>4, <2>4 DEF Execute, AfterLoop
    <3>2. QED
      BY <2>1, <2>2, <3>1 DEF DataReady, FileComplete, Contents, InLoop, NumChunks
  <2>5. QED BY <2>3, <2>4
<1>5. CASE Destroy
  BY <1>5 DEF Destroy, CloseFile, DataReady, FileComplete, Contents, InLoop
<1>6. CASE Wait
  <2>1. Pending(c) /\ LoadedSoFar(c) /\ pc = "wait"
    BY <1>6 DEF Wait, RingInv, Protocol, DataReady, Contents
  <2>2. Signalled(c)
    BY <1>1, <1>6, <2>1, WaitMakesQuiet DEF Wait
  <2>3. HoldsChunk(SlotOf(c), c)
    BY <2>1, <2>2 DEF LoadedSoFar
  <2>4. /\ UNCHANGED <<fd, stored, written, slotK, slotV, call, c>>
        /\ pc' = "prefetch" /\ Chunks(call)' = Chunks(call)
    BY <1>6 DEF Wait, fileVars, Chunks, SsdTokens
  <2>5. HoldsChunk(SlotOf(c), c)'
    BY <2>3, <2>4 DEF HoldsChunk, Chunk, SlotOf
  <2>6. QED
    BY <2>1, <2>4, <2>5 DEF DataReady, FileComplete, Contents, InLoop, NumChunks
<1>7. CASE PrefetchNext
  <2>1. /\ HoldsChunk(SlotOf(c), c) /\ Quiet /\ pc = "prefetch"
    BY <1>7 DEF PrefetchNext, RingInv, Protocol, DataReady, Contents
  <2>2. /\ UNCHANGED <<fd, stored, written, slotK, slotV, stage, call, c>>
        /\ pc' = "gpu" /\ Chunks(call)' = Chunks(call) /\ MoreChunks' = MoreChunks
    BY <1>7 DEF PrefetchNext, fileVars, Chunks, SsdTokens, MoreChunks
  <2>3. HoldsChunk(SlotOf(c), c)'
    BY <2>1, <2>2 DEF HoldsChunk, Chunk, SlotOf
  <2>4. CASE MoreChunks
    <3>1. PrefetchChunkAsync(SlotOf(c + 1), c + 1)
      BY <1>7, <2>4 DEF PrefetchNext, MoreChunks
    <3>2. \A n \in Nat : n = c + 1 => LoadedSoFar(n)'
      BY <2>1, <2>2, <3>1, FreshPrefetchLoadedNothing
    <3>3. LoadedSoFar(c + 1)'
      BY <1>1, <2>2, <3>2
      DEF LoadedSoFar, InQueue, Signalled, HoldsChunk, JobOf, SlotOf
    <3>4. QED
      BY <2>1, <2>2, <2>3, <3>3
      DEF DataReady, FileComplete, Contents, InLoop, NumChunks
  <2>5. CASE ~MoreChunks
    BY <2>1, <2>2, <2>3, <2>5 DEF DataReady, FileComplete, Contents, InLoop, NumChunks
  <2>6. QED BY <2>4, <2>5
<1>8. CASE GpuPass
  <2>1. /\ UNCHANGED <<fd, stored, written, slotK, slotV, ioQueue, stage, readySem, call>>
        /\ pc = "gpu" /\ c' = c + 1 /\ Chunks(call)' = Chunks(call)
        /\ pc' = IF MoreChunks THEN "wait" ELSE AfterLoop(call)
    BY <1>8 DEF GpuPass, ringVars, Chunks, SsdTokens, MoreChunks
  <2>2. pc' \in {"wait", "ram", "return"} /\ (pc' = "wait" => MoreChunks)
    BY <2>1 DEF AfterLoop
  <2>3. FileComplete'
    BY <2>1, <2>2 DEF DataReady, FileComplete, InLoop, NumChunks
  <2>4. ASSUME pc' = "wait" PROVE LoadedSoFar(c)'
    <3>1. LoadedSoFar(c + 1)
      BY <2>1, <2>2, <2>4 DEF DataReady, Contents
    <3>2. \A n \in Nat : LoadedSoFar(n) => LoadedSoFar(n)'
      BY <2>1, LoadedStays
    <3>3. QED
      BY <1>1, <2>1, <3>1
      DEF LoadedSoFar, InQueue, Signalled, HoldsChunk, Chunk, JobOf, NoCounts, SlotOf
  <2>5. QED BY <2>2, <2>3, <2>4 DEF DataReady, Contents
<1>9. CASE GpuRamPass \/ Return
  <2>1. UNCHANGED <<fd, stored, written>> /\ pc' \in {"return", "idle"}
        /\ pc \in {"ram", "return"}
    BY <1>9 DEF GpuRamPass, Return, ringVars
  <2>2. QED BY <2>1 DEF DataReady, FileComplete, Contents, InLoop, NumChunks
<1>10. CASE Io
  <2>1. IoStep /\ UNCHANGED <<pc, call, c>> /\ MoreChunks' = MoreChunks
        /\ Chunks(call)' = Chunks(call)
    BY <1>10 DEF Io, hostVars, MoreChunks, Chunks, SsdTokens
  <2>2. ~Quiet
    BY <2>1 DEF Quiet, IoStep, IoReadK, IoReadV, IoAccount, IoSignal
  <2>3. CASE pc = "wait"
    <3>1. Pending(c) /\ LoadedSoFar(c) /\ fd # 0 /\ c < written
      BY <1>1, <2>3 DEF RingInv, Protocol, DataReady, FileComplete, Contents, InLoop
    <3>2. LoadedSoFar(c)' /\ UNCHANGED fileVars
      BY <1>1, <2>1, <3>1, IoLoads
    <3>3. UNCHANGED <<fd, stored, written>>
      BY <3>2 DEF fileVars
    <3>4. QED
      BY <2>1, <2>3, <3>2, <3>3 DEF DataReady, FileComplete, Contents, InLoop, NumChunks
  <2>4. CASE pc = "gpu"
    <3>1. MoreChunks /\ Pending(c + 1)
      BY <2>2, <2>4 DEF RingInv, Protocol
    <3>2. LoadedSoFar(c + 1) /\ fd # 0 /\ c + 1 < written /\ HoldsChunk(SlotOf(c), c)
      BY <1>1, <2>4, <3>1 DEF DataReady, FileComplete, Contents, InLoop, MoreChunks
    <3>3. \A n \in Nat : n = c + 1 =>
            /\ LoadedSoFar(n)' /\ UNCHANGED fileVars
            /\ \A s \in Slots : s # SlotOf(n) => slotK'[s] = slotK[s] /\ slotV'[s] = slotV[s]
      BY <1>1, <2>1, <3>1, <3>2, IoLoads
    <3>4. UNCHANGED <<fd, stored, written>>
      BY <1>1, <3>3 DEF fileVars
    <3>5. SlotOf(c) \in Slots /\ SlotOf(c) # SlotOf(c + 1)
      BY <1>1, SlotOfChunk, SlotsAlternate
    <3>6. HoldsChunk(SlotOf(c), c)'
      BY <1>1, <2>1, <3>2, <3>3, <3>4, <3>5 DEF HoldsChunk, Chunk, SlotOf
    <3>7. LoadedSoFar(c + 1)'
      BY <1>1, <2>1, <3>3 DEF LoadedSoFar, InQueue, Signalled, HoldsChunk, JobOf, SlotOf
    <3>8. QED
      BY <2>1, <2>4, <3>4, <3>6, <3>7
      DEF DataReady, FileComplete, Contents, InLoop, NumChunks
  <2>5. QED BY <2>1, <2>2, <2>3, <2>4 DEF RingInv, Protocol, TypeOK
<1>11. CASE UNCHANGED vars
  BY <1>11 DEF vars, ringVars, hostVars, DataReady, FileComplete, Contents, InLoop,
     MoreChunks, Chunks, SsdTokens, NumChunks, LoadedSoFar, InQueue, Signalled,
     HoldsChunk, Chunk, JobOf, NoCounts, SlotOf
<1>12. QED
  BY <1>2, <1>3, <1>4, <1>5, <1>6, <1>7, <1>8, <1>9, <1>10, <1>11
  DEF Next, Client, Host, Finished

\* What every pending or finished read has put into its slot, throughout.
THEOREM DataInvariant == Spec => []DataInv
<1>1. CASE IoMayFail
  BY <1>1, PTL DEF DataInv
<1>2. CASE ~IoMayFail
  <2>1. Init => DataReady
    BY DataInit
  <2>2. RingInv /\ DataReady /\ [Next]_vars => DataReady'
    BY <1>2, DataNext
  <2>3. DataReady => DataInv
    BY DEF DataInv
  <2>4. QED BY <2>1, <2>2, <2>3, RingInvariant, PTL DEF Spec
<1>3. QED BY <1>1, <1>2

\* An engine whose I/O succeeds never attends over the bytes of another
\* chunk, call or file.
THEOREM PassReadsItsChunk == ASSUME ~IoMayFail PROVE Spec => []ConsumesItsChunk
<1>1. DataInv => ConsumesItsChunk
  BY DEF DataInv, DataReady, Contents, ConsumesItsChunk
<1>2. QED BY <1>1, DataInvariant, PTL

-----------------------------------------------------------------------------
(* The answer of a call.                                                   *)

Pass == [mode : {"A", "B"}, first : Nat, total : Nat, start : Nat, len : Nat,
         isFirst : BOOLEAN, isLast : BOOLEAN]

LEMMA TilePositive == Tile \in Nat \ {0}
BY StreamAssumption

\* The tile that holds the last of n items is the last of the tiles.
LEMMA TileOfLast ==
  ASSUME NEW n \in Nat \ {0}, NEW k \in 0 .. n - 1
  PROVE  k \div Tile < (n + Tile - 1) \div Tile
<1> DEFINE x == k \div Tile
           y == (n + Tile - 1) \div Tile
           u == n + Tile - 1
<1>1. k \in Nat /\ u \in Nat /\ k + Tile <= u
  BY TilePositive
<1>2. /\ x \in Int /\ Tile * x <= k
      /\ y \in Int /\ u < Tile * (y + 1)
  <2>1. /\ k = Tile * x + (k % Tile) /\ x \in Int /\ k % Tile \in 0 .. Tile - 1
        /\ u = Tile * y + (u % Tile) /\ y \in Int /\ u % Tile \in 0 .. Tile - 1
    BY <1>1, TilePositive
  <2> HIDE DEF x, y, u
  <2>2. Tile * (y + 1) = Tile * y + Tile
    BY <2>1, TilePositive
  <2>3. QED BY <1>1, <2>1, <2>2, TilePositive
<1> HIDE DEF x, y, u
<1>3. ASSUME x >= y PROVE FALSE
  <2>1. Tile * y <= Tile * x
    BY <1>2, <1>3, TilePositive
  <2>2. Tile * (y + 1) = Tile * y + Tile
    BY <1>2, TilePositive
  <2>3. QED BY <1>1, <1>2, <2>1, <2>2, TilePositive
<1>4. x < y
  BY <1>2, <1>3
<1>5. QED BY <1>4 DEF x, y, u

\* The end of a query's tile lies behind the query.
LEMMA QueryBeforeTileEnd ==
  ASSUME NEW q \in Nat PROVE q < (q \div Tile + 1) * Tile
<1> DEFINE x == q \div Tile
<1>1. q = Tile * x + (q % Tile) /\ x \in Int /\ q % Tile \in 0 .. Tile - 1
  BY TilePositive
<1> HIDE DEF x
<1>2. (x + 1) * Tile = Tile * x + Tile
  BY <1>1, TilePositive
<1>3. q < (x + 1) * Tile
  BY <1>1, <1>2, TilePositive
<1>4. QED BY <1>3 DEF x

\* No tile that a query needs is skipped: the keys scored for it are exactly
\* those of the chunk up to the query.
LEMMA NoTileIsSkipped ==
  ASSUME NEW p \in Pass, NEW q \in Nat, q \in Kernel!Queries(p), Kernel!Touched(p, q)
  PROVE  Kernel!Scored(p, q) = {t \in Kernel!Keys(p) : t <= q}
<1>1. /\ p.start \in Nat /\ p.len \in Nat /\ p.total \in Nat /\ p.first \in Nat
      /\ p.mode \in {"A", "B"}
  BY DEF Pass
<1>2. ASSUME NEW t \in Kernel!Keys(p), t <= q
      PROVE  (t - p.start) \div Tile < Kernel!LoadedTiles(p, q)
  <2>1. /\ t \in Int /\ t - p.start \in Nat /\ t - p.start \in 0 .. p.len - 1
        /\ p.len \in Nat \ {0}
    BY <1>1, <1>2 DEF Kernel!Keys
  <2>2. (t - p.start) \div Tile < Kernel!ChunkTiles(p)
    BY <2>1, TileOfLast DEF Kernel!ChunkTiles
  <2>3. CASE p.mode = "A"
    <3> DEFINE end == Kernel!TileEnd(p, q)
    <3>1. (q \div Tile + 1) * Tile \in Int /\ q < (q \div Tile + 1) * Tile /\ q < p.total
      BY <1>1, TilePositive, QueryBeforeTileEnd DEF Kernel!Queries
    <3>2. end \in Int /\ q < end
      BY <1>1, <3>1 DEF Kernel!TileEnd, Kernel!Smaller
    <3>3. p.start <= q
      BY <2>3 DEF Kernel!Touched
    <3> HIDE DEF end
    <3>4. end - 1 - p.start \in Nat /\ t - p.start <= end - 1 - p.start /\ end > p.start
      BY <1>1, <1>2, <2>1, <3>2, <3>3
    <3>5. (t - p.start) \div Tile <= (end - 1 - p.start) \div Tile
      BY <2>1, <3>4, TilePositive, DivMonotone
    <3>6. Kernel!LastCausalTile(p, q) = (end - 1 - p.start) \div Tile
      BY <3>4 DEF Kernel!LastCausalTile, end
    <3>7. /\ (t - p.start) \div Tile \in Int /\ (end - 1 - p.start) \div Tile \in Int
          /\ Kernel!ChunkTiles(p) \in Int
      BY <1>1, <2>1, <3>4, TilePositive DEF Kernel!ChunkTiles
    <3>8. QED
      BY <2>2, <2>3, <3>5, <3>6, <3>7 DEF Kernel!LoadedTiles, Kernel!Smaller
  <2>4. CASE p.mode = "B"
    BY <2>2, <2>4 DEF Kernel!LoadedTiles
  <2>5. QED BY <1>1, <2>3, <2>4
<1>3. QED BY <1>2 DEF Kernel!Scored

\* A pass adds the keys of its chunk to those its state holds.
LEMMA PassExtendsSeen ==
  ASSUME NEW p \in Pass, NEW q \in Tokens, q \in Kernel!Queries(p),
         Kernel!Touched(p, q), NEW a,
         p.isFirst <=> p.start = 0, p.start > 0 => a[q] = Seen(q, p.start)
  PROVE  Kernel!Accumulated(p, q, a, TRUE) = Seen(q, p.start + p.len)
<1>1. p.start \in Nat /\ p.len \in Nat /\ q \in Nat /\ Tokens \subseteq Nat
  BY StreamAssumption DEF Pass
<1> DEFINE prev == IF p.isFirst THEN Kernel!Nothing ELSE a[q]
<1>2. prev = Seen(q, p.start)
  <2>1. CASE p.start = 0
    BY <1>1, <2>1 DEF Kernel!Nothing, Seen
  <2>2. CASE p.start # 0
    <3>1. p.start > 0 /\ ~p.isFirst
      BY <1>1, <2>2
    <3>2. QED BY <3>1
  <2>3. QED BY <2>1, <2>2
<1>3. Kernel!Scored(p, q) = {t \in Kernel!Keys(p) : t <= q}
  BY <1>1, NoTileIsSkipped
<1>4. ASSUME NEW t \in Tokens
      PROVE  prev[t] + (IF TRUE /\ t \in Kernel!Scored(p, q) THEN 1 ELSE 0)
               = Seen(q, p.start + p.len)[t]
  <2>1. t \in Kernel!Scored(p, q) <=> p.start <= t /\ t < p.start + p.len /\ t <= q
    BY <1>1, <1>3 DEF Kernel!Keys
  <2>2. prev[t] = IF t < p.start /\ t <= q THEN 1 ELSE 0
    BY <1>2 DEF Seen
  <2> HIDE DEF prev
  <2>3. QED BY <1>1, <2>1, <2>2 DEF Seen
<1>5. QED BY <1>4 DEF Kernel!Accumulated, Seen

-----------------------------------------------------------------------------
\* The outputs that OutputExact asks for.
Exact(o) == \A q \in Asked : o[q] = [t \in Tokens |-> IF t <= q THEN 1 ELSE 0]

\* What a pass leaves behind when the keys before its chunk have been seen.
LEMMA PassKeepsPartial ==
  ASSUME call \in Calls, NEW p \in Pass, NEW a, NEW o, NEW a2, NEW o2,
         p.mode = call.mode, p.first = call.first, p.total = call.total,
         p.isFirst <=> p.start = 0, Partial(p.start, a, o),
         a2 = Kernel!StateAfter(p, a, TRUE), o2 = Kernel!OutputAfter(p, a, o, TRUE)
  PROVE  /\ ~p.isLast => Partial(p.start + p.len, a2, o2)
         /\ p.isLast /\ call.total <= p.start + p.len => Exact(o2)
<1> DEFINE d2 == p.start + p.len
<1>1. /\ p.start \in Nat /\ p.len \in Nat /\ p.mode \in {"A", "B"} /\ d2 \in Nat
      /\ p.isLast \in BOOLEAN /\ p.first \in Nat /\ p.total \in Nat
  BY DEF Pass
<1>2. ASSUME NEW q \in Asked
      PROVE  /\ ~p.isLast => IF call.mode = "A" /\ q < d2 THEN o2[q] = Seen(q, d2)
                                                     ELSE d2 > 0 => a2[q] = Seen(q, d2)
             /\ p.isLast => o2[q] = Seen(q, IF call.mode = "A" /\ q < p.start
                                              THEN p.start ELSE d2)
  <2>1. q \in Tokens /\ q \in Nat /\ q \in Kernel!Queries(p)
    BY <1>1, StreamAssumption DEF Asked, Kernel!Queries
  <2>2. /\ a2[q] = IF Kernel!Touched(p, q) /\ ~Kernel!Finished(p, q)
                     THEN Kernel!Accumulated(p, q, a, TRUE) ELSE a[q]
        /\ o2[q] = IF Kernel!Touched(p, q) /\ Kernel!Finished(p, q)
                     THEN Kernel!Accumulated(p, q, a, TRUE) ELSE o[q]
    BY <2>1 DEF Kernel!StateAfter, Kernel!OutputAfter
  <2>3. IF call.mode = "A" /\ q < p.start THEN o[q] = Seen(q, p.start)
                                          ELSE p.start > 0 => a[q] = Seen(q, p.start)
    BY DEF Partial
  <2>4. CASE call.mode = "A" /\ q < p.start
    <3>1. ~Kernel!Touched(p, q) /\ q < d2
      BY <1>1, <2>1, <2>4 DEF Kernel!Touched
    <3>2. o2[q] = Seen(q, p.start)
      BY <2>2, <2>3, <2>4, <3>1
    <3>3. Seen(q, p.start) = Seen(q, d2)
      BY <1>1, <2>1, <2>4, StreamAssumption DEF Seen
    <3>4. QED BY <2>4, <3>1, <3>2, <3>3
  <2>5. CASE ~(call.mode = "A" /\ q < p.start)
    <3>1. Kernel!Touched(p, q)
      <4>1. CASE call.mode = "A"
        BY <1>1, <2>1, <2>5, <4>1 DEF Kernel!Touched
      <4>2. CASE call.mode = "B"
        <5>1. call.total - call.first <= Tile /\ call.total \in Nat /\ call.first \in Nat
          BY <4>2, StreamAssumption
        <5>2. q - p.first < Tile
          BY <1>1, <2>1, <5>1, TilePositive DEF Asked
        <5>3. QED BY <2>1, <4>2, <5>2 DEF Kernel!Touched
      <4>3. QED BY <1>1, <4>1, <4>2
    <3>2. Kernel!Accumulated(p, q, a, TRUE) = Seen(q, d2)
      BY <2>1, <2>3, <2>5, <3>1, PassExtendsSeen
    <3>3. CASE p.isLast
      BY <2>2, <2>5, <3>1, <3>2, <3>3 DEF Kernel!Finished
    <3>4. CASE ~p.isLast /\ call.mode = "A" /\ q < d2
      BY <2>2, <3>1, <3>2, <3>4 DEF Kernel!Finished
    <3>5. CASE ~p.isLast /\ ~(call.mode = "A" /\ q < d2)
      BY <2>2, <3>1, <3>2, <3>5 DEF Kernel!Finished
    <3>6. QED BY <3>3, <3>4, <3>5
  <2>6. QED BY <2>4, <2>5
<1>3. ~p.isLast => Partial(d2, a2, o2)
  BY <1>2 DEF Partial
<1>4. ASSUME p.isLast, call.total <= d2, NEW q \in Asked
      PROVE  o2[q] = [t \in Tokens |-> IF t <= q THEN 1 ELSE 0]
  <2>1. q \in Nat /\ Tokens \subseteq Nat /\ q < d2
    BY <1>1, <1>4, StreamAssumption DEF Asked
  <2>2. PICK d \in Nat : q < d /\ o2[q] = Seen(q, d)
    <3>1. CASE call.mode = "A" /\ q < p.start
      BY <1>1, <1>2, <1>4, <3>1
    <3>2. CASE ~(call.mode = "A" /\ q < p.start)
      BY <1>1, <1>2, <1>4, <2>1, <3>2
    <3>3. QED BY <3>1, <3>2
  <2>3. \A t \in Tokens : (t < d /\ t <= q) <=> t <= q
    BY <2>1, <2>2
  <2>4. QED BY <2>2, <2>3 DEF Seen
<1>5. QED BY <1>3, <1>4 DEF Exact

\* A chunk of the file begins before the end of the SSD tokens, and the last
\* one reaches it.
LEMMA ChunkBounds ==
  ASSUME NEW s \in Nat, NEW k \in Nat
  PROVE  /\ k < NumChunks(s) => k * SlotTokens < s
         /\ NumChunks(s) <= k => s <= k * SlotTokens
<1> DEFINE y == (s + SlotTokens - 1) \div SlotTokens
           u == s + SlotTokens - 1
<1>1. SlotTokens \in Nat \ {0}
  BY RingAssumption
<1>2. y \in Int /\ SlotTokens * y <= u /\ u < SlotTokens * y + SlotTokens
  <2>1. u \in Nat
    BY <1>1
  <2>2. u = SlotTokens * y + (u % SlotTokens) /\ y \in Int /\ u % SlotTokens \in 0 .. SlotTokens - 1
    BY <1>1, <2>1
  <2> HIDE DEF y, u
  <2>3. QED BY <1>1, <2>1, <2>2
<1>3. NumChunks(s) = y
  BY DEF NumChunks
<1> HIDE DEF y
<1>4. ASSUME k < y PROVE k * SlotTokens < s
  <2>1. SlotTokens * (k + 1) <= SlotTokens * y /\ SlotTokens * (k + 1) = SlotTokens * k + SlotTokens
    BY <1>1, <1>2, <1>4
  <2>2. SlotTokens * k = k * SlotTokens
    BY <1>1
  <2>3. QED BY <1>1, <1>2, <2>1, <2>2
<1>5. ASSUME y <= k PROVE s <= k * SlotTokens
  <2>1. SlotTokens * y <= SlotTokens * k /\ SlotTokens * k = k * SlotTokens
    BY <1>1, <1>2, <1>5
  <2>2. QED BY <1>1, <1>2, <2>1
<1>6. QED BY <1>3, <1>4, <1>5

-----------------------------------------------------------------------------
LEMMA OutputInit == Init => OutputReady
BY DEF Init, OutputReady, OutputExact, InLoop

\* The operators of the invariant in the next state, when the call stays.
LEMMA SameCall ==
  ASSUME call' = call
  PROVE  /\ Asked' = Asked /\ SsdTokens(call)' = SsdTokens(call)
         /\ Chunks(call)' = Chunks(call)
         /\ \A d, a, o : Partial(d, a, o)' <=> Partial(d, a, o)
BY DEF Asked, SsdTokens, Chunks, NumChunks, Partial, Seen

\* Steps between two passes leave the invariant alone.
LEMMA OutputStays ==
  ASSUME OutputReady, UNCHANGED <<call, c, acc, out>>, InLoop' => InLoop,
         pc' = "ram" => pc = "ram", pc' = "return" => pc = "return"
  PROVE  OutputReady'
<1>1. InLoop' => Partial(c * SlotTokens, acc, out)'
  BY DEF OutputReady, Partial, Seen, Asked
<1>2. pc' = "ram" => Partial(SsdTokens(call), acc, out)'
  BY DEF OutputReady, Partial, Seen, Asked, SsdTokens
<1>3. OutputExact'
  BY DEF OutputReady, OutputExact, Asked
<1>4. QED BY <1>1, <1>2, <1>3 DEF OutputReady

LEMMA OutputNext ==
  ASSUME ~IoMayFail, RingInv, DataReady, OutputReady, [Next]_vars
  PROVE  OutputReady'
<1>1. /\ c \in Nat /\ call \in Calls /\ Chunks(call) \in Nat
      /\ SsdTokens(call) \in Nat /\ SlotTokens \in Nat \ {0}
      /\ call.total \in Nat /\ call.first \in Nat /\ call.ram \in Nat
      /\ call.mode \in {"A", "B"} /\ call.buffers \in BOOLEAN
  BY ChunkCountIsNat, RingAssumption, StreamAssumption DEF RingInv, TypeOK
<1>2. CASE Prepare \/ PrepareShort \/ PrepareFails
  BY <1>2, OutputStays DEF Prepare, PrepareShort, PrepareFails, hostVars, InLoop
<1>3. ASSUME NEW cl \in Calls, Execute(cl) PROVE OutputReady'
  <2>1. /\ call' = cl /\ c' = 0 /\ Chunks(call)' = Chunks(cl)
        /\ SsdTokens(call)' = SsdTokens(cl) /\ SsdTokens(cl) \in Nat
    BY <1>3, ChunkCountIsNat DEF Execute, Chunks, SsdTokens, NumChunks
  <2>2. \A a, o : Partial(0, a, o)'
    BY <2>1, StreamAssumption DEF Partial, Asked
  <2>3. CASE Chunks(cl) > 0
    <3>1. pc' = "wait" /\ c' * SlotTokens = 0
      BY <1>1, <1>3, <2>1, <2>3 DEF Execute
    <3>2. Partial(c * SlotTokens, acc, out)'
      BY <2>2, <3>1 DEF Partial, Asked, Seen
    <3>3. QED BY <3>1, <3>2 DEF OutputReady, OutputExact
  <2>4. CASE ~(Chunks(cl) > 0)
    <3>1. pc' = (IF HasActiveRam(cl) THEN "ram" ELSE "return")
      BY <1>3, <2>4 DEF Execute, AfterLoop
    <3>2. SsdTokens(cl) = 0
      <4>1. NumChunks(SsdTokens(cl)) <= 0
        BY <2>1, <2>4, ChunkCountIsNat DEF Chunks
      <4>2. SsdTokens(cl) <= 0 * SlotTokens
        BY <2>1, <4>1, ChunkBounds
      <4>3. QED BY <1>1, <2>1, <4>2
    <3>3. Partial(SsdTokens(call), acc, out)'
      BY <2>1, <2>2, <3>2 DEF Partial, Asked, Seen
    <3>4. ASSUME pc' = "return", cl.ram > 0 => cl.buffers PROVE Asked' = {}
      <4>1. cl.ram = 0 /\ cl.total \in Nat /\ cl.first \in Nat
        BY <3>1, <3>4, StreamAssumption DEF HasActiveRam
      <4>2. cl.total = 0
        BY <3>2, <4>1 DEF SsdTokens
      <4>3. QED BY <2>1, <4>1, <4>2 DEF Asked
    <3>5. OutputExact'
      BY <2>1, <3>4 DEF OutputExact
    <3>6. QED BY <3>1, <3>3, <3>5 DEF OutputReady, InLoop
  <2>5. QED BY <2>3, <2>4
<1>4. CASE Destroy
  BY <1>4, OutputStays DEF Destroy, InLoop
<1>5. CASE Wait \/ PrefetchNext
  BY <1>5, OutputStays DEF Wait, PrefetchNext, InLoop
<1>6. CASE GpuPass
  <2> DEFINE p == ChunkPass
             d == c * SlotTokens
  <2>1. /\ pc = "gpu" /\ c < Chunks(call) /\ Partial(d, acc, out)
    BY <1>6 DEF GpuPass, OutputReady, InLoop, RingInv, Protocol
  <2>2. HoldsChunk(SlotOf(c), c) = TRUE
    BY <2>1 DEF DataReady, Contents, HoldsChunk
  <2>3. /\ acc' = Kernel!StateAfter(p, acc, TRUE)
        /\ out' = Kernel!OutputAfter(p, acc, out, TRUE)
        /\ c' = c + 1 /\ call' = call
        /\ pc' = IF c + 1 < Chunks(call) THEN "wait" ELSE AfterLoop(call)
    BY <1>6, <2>2 DEF GpuPass
  <2>4. d \in Nat /\ d < SsdTokens(call) /\ (d = 0 <=> c = 0)
    BY <1>1, <2>1, ChunkBounds DEF Chunks
  <2>5. /\ p \in Pass /\ p.mode = call.mode /\ p.first = call.first
        /\ p.total = call.total /\ p.start = d /\ (p.isFirst <=> p.start = 0)
        /\ p.len = Kernel!Smaller(SlotTokens, SsdTokens(call) - d)
        /\ (p.isLast <=> c = TotalPasses(call) - 1)
    <3>1. Kernel!Smaller(SlotTokens, SsdTokens(call) - d) \in Nat
      BY <1>1, <2>4 DEF Kernel!Smaller
    <3>2. p = [mode |-> call.mode, first |-> call.first, total |-> call.total,
               start |-> d, len |-> Kernel!Smaller(SlotTokens, SsdTokens(call) - d),
               isFirst |-> c = 0, isLast |-> c = TotalPasses(call) - 1]
      BY DEF ChunkPass
    <3> HIDE DEF p, d
    <3>3. p \in Pass
      BY <1>1, <2>4, <3>1, <3>2 DEF Pass
    <3>4. QED BY <2>4, <3>2, <3>3
  <2> DEFINE d2 == p.start + p.len
  <2>6. /\ ~p.isLast => Partial(d2, acc', out')
        /\ p.isLast /\ call.total <= d2 => Exact(out')
    <3> HIDE DEF p, d
    <3>1. Partial(p.start, acc, out)
      BY <2>1, <2>5
    <3>2. /\ call \in Calls /\ p \in Pass /\ p.mode = call.mode /\ p.first = call.first
          /\ p.total = call.total /\ (p.isFirst <=> p.start = 0)
      BY <1>1, <2>5
    <3>3. /\ acc' = Kernel!StateAfter(p, acc, TRUE)
          /\ out' = Kernel!OutputAfter(p, acc, out, TRUE)
      BY <2>3
    <3>4. QED BY <3>1, <3>2, <3>3, PassKeepsPartial
  <2>7. (c + 1) * SlotTokens = d + SlotTokens
    BY <1>1
  <2>8. TotalPasses(call) = Chunks(call) + (IF HasActiveRam(call) THEN 1 ELSE 0)
    BY DEF TotalPasses
  <2> HIDE DEF p, d
  <2>9. d2 = Kernel!Smaller(d + SlotTokens, SsdTokens(call))
    BY <1>1, <2>4, <2>5 DEF Kernel!Smaller
  <2> HIDE DEF d2
  <2>10. CASE c + 1 < Chunks(call)
    <3>1. d + SlotTokens < SsdTokens(call)
      BY <1>1, <2>7, <2>10, ChunkBounds DEF Chunks
    <3>2. ~p.isLast /\ d2 = c' * SlotTokens
      BY <1>1, <2>3, <2>4, <2>5, <2>7, <2>8, <2>9, <2>10, <3>1 DEF Kernel!Smaller
    <3>3. Partial(c' * SlotTokens, acc', out')
      BY <2>6, <3>2
    <3>4. Partial(c * SlotTokens, acc, out)'
      BY <2>3, <3>3 DEF Partial, Asked, Seen
    <3>5. QED BY <2>3, <2>10, <3>4 DEF OutputReady, OutputExact
  <2>11. CASE ~(c + 1 < Chunks(call))
    <3>1. SsdTokens(call) <= d + SlotTokens /\ c = Chunks(call) - 1
      BY <1>1, <2>1, <2>7, <2>11, ChunkBounds DEF Chunks
    <3>2. d2 = SsdTokens(call)
      BY <1>1, <2>4, <2>9, <3>1 DEF Kernel!Smaller
    <3>3. CASE HasActiveRam(call)
      <4>1. pc' = "ram" /\ ~p.isLast
        BY <1>1, <2>3, <2>5, <2>8, <2>11, <3>1, <3>3 DEF AfterLoop
      <4>2. Partial(SsdTokens(call), acc', out')
        BY <2>6, <3>2, <4>1
      <4>3. Partial(SsdTokens(call), acc, out)'
        BY <2>3, <4>2 DEF Partial, Asked, Seen, SsdTokens
      <4>4. QED BY <4>1, <4>3 DEF OutputReady, OutputExact, InLoop
    <3>4. CASE ~HasActiveRam(call)
      <4>1. pc' = "return" /\ p.isLast
        BY <1>1, <2>3, <2>5, <2>8, <2>11, <3>1, <3>4 DEF AfterLoop
      <4>2. ASSUME call.ram > 0 => call.buffers PROVE call.total <= d2
        <5>1. call.ram = 0
          BY <1>1, <3>4, <4>2 DEF HasActiveRam
        <5>2. QED BY <1>1, <3>2, <5>1 DEF SsdTokens
      <4>3. OutputExact'
        BY <2>3, <2>6, <4>1, <4>2 DEF OutputExact, Exact, Asked
      <4>4. QED BY <4>1, <4>3 DEF OutputReady, InLoop
    <3>5. QED BY <3>3, <3>4
  <2>12. QED BY <2>10, <2>11
<1>7. CASE GpuRamPass
  <2> DEFINE p == RamPass
             d == SsdTokens(call)
  <2>1. /\ acc' = Kernel!StateAfter(p, acc, TRUE)
        /\ out' = Kernel!OutputAfter(p, acc, out, TRUE)
        /\ call' = call /\ pc' = "return" /\ Partial(d, acc, out)
    BY <1>7 DEF GpuRamPass, OutputReady
  <2>2. Chunks(call) = 0 <=> d = 0
    <3>1. (0 < NumChunks(d) => 0 * SlotTokens < d) /\ (NumChunks(d) <= 0 => d <= 0 * SlotTokens)
      BY <1>1, ChunkBounds
    <3>2. 0 * SlotTokens = 0 /\ NumChunks(d) = Chunks(call)
      BY <1>1 DEF Chunks
    <3>3. QED BY <1>1, <3>1, <3>2
  <2>3. /\ p \in Pass /\ p.mode = call.mode /\ p.first = call.first
        /\ p.total = call.total /\ p.start = d /\ (p.isFirst <=> p.start = 0)
        /\ p.len = call.ram /\ p.isLast
    BY <1>1, <2>2 DEF RamPass, Pass
  <2>4. call.total <= p.start + p.len
    BY <1>1, <2>3 DEF SsdTokens
  <2> HIDE DEF p, d
  <2>5. Exact(out')
    <3>1. /\ call \in Calls /\ p \in Pass /\ p.mode = call.mode /\ p.first = call.first
          /\ p.total = call.total /\ (p.isFirst <=> p.start = 0) /\ Partial(p.start, acc, out)
      BY <1>1, <2>1, <2>3
    <3>2. /\ acc' = Kernel!StateAfter(p, acc, TRUE)
          /\ out' = Kernel!OutputAfter(p, acc, out, TRUE)
      BY <2>1
    <3>3. p.isLast /\ call.total <= p.start + p.len
      BY <2>3, <2>4
    <3>4. QED BY <3>1, <3>2, <3>3, PassKeepsPartial
  <2>6. OutputExact'
    BY <2>1, <2>5 DEF OutputExact, Exact, Asked
  <2>7. QED BY <2>1, <2>6 DEF OutputReady, InLoop
<1>8. CASE Return
  BY <1>8 DEF Return, OutputReady, OutputExact, InLoop
<1>9. CASE Io
  BY <1>9, OutputStays DEF Io, hostVars, InLoop
<1>10. CASE UNCHANGED vars
  BY <1>10, OutputStays DEF vars, hostVars, InLoop
<1>11. QED
  BY <1>2, <1>3, <1>4, <1>5, <1>6, <1>7, <1>8, <1>9, <1>10
  DEF Next, Client, Host, Finished

\* Between any two passes, what the finished queries' outputs and the other
\* queries' states hold.
THEOREM OutputInvariant == Spec => []OutputInv
<1>1. CASE IoMayFail
  BY <1>1, PTL DEF OutputInv
<1>2. CASE ~IoMayFail
  <2>1. Init => OutputReady
    BY OutputInit
  <2>2. RingInv /\ DataInv /\ OutputReady /\ [Next]_vars => OutputReady'
    BY <1>2, OutputNext DEF DataInv
  <2>3. OutputReady => OutputInv
    BY DEF OutputInv
  <2>4. QED BY <2>1, <2>2, <2>3, RingInvariant, DataInvariant, PTL DEF Spec
<1>3. QED BY <1>1, <1>2

\* The answer of a call is exact causal attention, for every slot size, tile,
\* length, burst and RAM window (with buffers), if the I/O succeeds.
THEOREM AnswersAreExact == ASSUME ~IoMayFail PROVE Spec => []OutputExact
<1>1. OutputInv => OutputExact
  BY DEF OutputInv, OutputReady
<1>2. QED BY <1>1, OutputInvariant, PTL

-----------------------------------------------------------------------------
(* The engine implements CausalAttention: a call is a Call, its end is the *)
(* Return, the destructor the Close, and everything else stutters.         *)

\* Every RAM window of a call is backed by buffers.
WindowsBacked == \A cl \in Calls : cl.ram > 0 => cl.buffers

LEMMA NoAnswerMeansEmpty ==
  /\ Attention!NoAnswer = [q \in {} |-> Kernel!Nothing]
BY DEF Attention!NoAnswer

LEMMA InitIsAttention == Init => Attention!Init
<1> SUFFICES ASSUME Init PROVE Attention!Init
  OBVIOUS
<1>1. pc = "idle" /\ call \in Calls /\ served = 0
  BY DEF Init
<1>2. AbsStatus = "ready" /\ AbsAnswer = Attention!NoAnswer
  BY <1>1, NoAnswerMeansEmpty DEF AbsStatus, AbsAnswer
<1> QED
  BY <1>1, <1>2 DEF Attention!Init

\* A step that leaves the host's place and the call alone does not show.
LEMMA HiddenStep ==
  ASSUME pc \notin {"idle", "closed"}, pc' \notin {"idle", "closed"}, call' = call
  PROVE  UNCHANGED Attention!vars
<1>1. AbsStatus' = AbsStatus
  BY DEF AbsStatus
<1>2. AbsAnswer' = AbsAnswer
  BY DEF AbsAnswer
<1> QED
  BY <1>1, <1>2 DEF Attention!vars

LEMMA HostIdleStep ==
  ASSUME UNCHANGED hostVars PROVE UNCHANGED Attention!vars
BY DEF hostVars, Attention!vars, AbsStatus, AbsAnswer

LEMMA CallStep ==
  ASSUME NEW cl \in Calls, Execute(cl) PROVE Attention!Call(cl)
<1>1. pc = "idle" /\ call' = cl
  BY DEF Execute
<1>2. pc' \in {"wait", "ram", "return"}
  BY DEF Execute, AfterLoop
<1>3. AbsStatus = "ready" /\ AbsStatus' = "running"
  BY <1>1, <1>2 DEF AbsStatus
<1>4. AbsAnswer' = Attention!NoAnswer
  BY <1>2, NoAnswerMeansEmpty DEF AbsAnswer, Attention!NoAnswer
<1> QED
  BY <1>1, <1>3, <1>4 DEF Attention!Call

LEMMA ReturnStep ==
  ASSUME WindowsBacked, TypeOK, OutputExact, Return PROVE Attention!Return
<1>1. pc = "return" /\ pc' = "idle" /\ served' > 0 /\ call' = call /\ out' = out
  BY DEF Return, TypeOK
<1>2. call \in Calls /\ (call.ram > 0 => call.buffers)
  BY DEF TypeOK, WindowsBacked
<1>3. \A q \in Asked : out[q] = Attention!Attended(q)
  BY <1>1, <1>2 DEF OutputExact, Attention!Attended
<1>4. AbsStatus = "running" /\ AbsStatus' = "ready"
  BY <1>1 DEF AbsStatus
<1>5. AbsAnswer' = [q \in Asked |-> out[q]]
  BY <1>1 DEF AbsAnswer, Asked
<1>6. Attention!Answers(call) = [q \in Asked |-> Attention!Attended(q)]
  BY DEF Attention!Answers, Asked
<1>7. AbsAnswer' = Attention!Answers(call)
  BY <1>3, <1>5, <1>6
<1> QED
  BY <1>1, <1>4, <1>7 DEF Attention!Return

LEMMA CloseStep == ASSUME Destroy PROVE Attention!Close
<1>1. pc = "idle" /\ pc' = "closed" /\ UNCHANGED <<call, out, served>>
  BY DEF Destroy
<1>2. AbsStatus = "ready" /\ AbsStatus' = "closed"
  BY <1>1 DEF AbsStatus
<1>3. AbsAnswer' = AbsAnswer
  BY <1>1 DEF AbsAnswer
<1> QED
  BY <1>1, <1>2, <1>3 DEF Attention!Close

LEMMA AttentionStep ==
  ASSUME WindowsBacked, TypeOK, OutputExact, [Next]_vars
  PROVE  [Attention!Next]_(Attention!vars)
<1>1. CASE \E cl \in Calls : Execute(cl)
  BY <1>1, CallStep DEF Attention!Next
<1>2. CASE Return
  BY <1>2, ReturnStep DEF Attention!Next
<1>3. CASE Destroy
  BY <1>3, CloseStep DEF Attention!Next
<1>4. CASE Wait \/ PrefetchNext \/ GpuPass \/ GpuRamPass
  <2>1. pc \notin {"idle", "closed"} /\ pc' \notin {"idle", "closed"} /\ call' = call
    BY <1>4 DEF Wait, PrefetchNext, GpuPass, GpuRamPass, AfterLoop
  <2> QED
    BY <2>1, HiddenStep
<1>5. CASE Prepare \/ PrepareShort \/ PrepareFails \/ Io \/ Finished \/ UNCHANGED vars
  <2>1. UNCHANGED hostVars
    BY <1>5 DEF Prepare, PrepareShort, PrepareFails, Io, Finished, vars
  <2> QED
    BY <2>1, HostIdleStep
<1> QED
  BY <1>1, <1>2, <1>3, <1>4, <1>5 DEF Next, Client, Host

\* With I/O that succeeds and RAM windows that have buffers, a client cannot
\* tell the engine from one that computes full causal attention at once.
THEOREM EngineIsCausalAttention ==
  ASSUME ~IoMayFail, WindowsBacked PROVE Spec => AnswersAsCausalAttention
<1>1. Init => Attention!Init
  BY InitIsAttention
<1>2. TypeOK /\ OutputExact /\ [Next]_vars => [Attention!Next]_(Attention!vars)
  BY AttentionStep
<1> QED
  BY <1>1, <1>2, TypeCorrect, AnswersAreExact, PTL DEF Spec, AnswersAsCausalAttention
=============================================================================
