---------------------------- MODULE StreamEngine ----------------------------
(***************************************************************************)
(* Streaming1MEngine (streaming_1m_engine.mm): one host thread runs mode A *)
(* or mode B attention over a KV cache kept on the SSD.  The host loop     *)
(* waits for the slot of chunk c, enqueues the read of chunk c+1 into the  *)
(* other slot, dispatches the GPU pass over chunk c and waits for it; the  *)
(* serial I/O queue runs meanwhile.  A last pass covers the window that    *)
(* stayed in RAM.                                                          *)
(***************************************************************************)
EXTENDS KVRing, FiniteSets

CONSTANTS Tokens, Tile,
          Calls,      \* [mode, first, total, ram, buffers] a client makes
          Prepares,   \* token counts a client prepares a file for
          MaxCalls    \* bound: calls per engine

ASSUME StreamAssumption ==
  /\ Tile \in Nat \ {0} /\ SlotTokens % Tile = 0
  /\ Tokens \subseteq Nat
  /\ MaxCalls \in Nat
  /\ Prepares \subseteq Nat
  /\ Calls \subseteq [mode : {"A", "B"}, first : Nat, total : Nat, ram : Nat,
                      buffers : BOOLEAN]
  \* Every query of a call is a token.
  /\ \A cl \in Calls : cl.first .. cl.total - 1 \subseteq Tokens
  \* The mode B kernels take at most one tile of speculative queries.
  /\ \A cl \in Calls : cl.mode = "B" => cl.total - cl.first <= Tile

VARIABLES pc,       \* where the host is
          call,     \* the arguments of the call in progress
          c,        \* the loop's chunk index
          acc,      \* m_state, l_state, O_state
          out,      \* the caller's output buffer
          served,   \* calls that returned
          report    \* metricsOut->total_read_bytes, in chunks

hostVars == <<pc, call, c, acc, out, served, report>>
vars == <<ringVars, hostVars>>

Kernel == INSTANCE ChunkKernel

SsdTokens(cl) == IF cl.total > cl.ram THEN cl.total - cl.ram ELSE 0
Chunks(cl) == NumChunks(SsdTokens(cl))
HasActiveRam(cl) == cl.ram > 0 /\ cl.buffers
TotalPasses(cl) == Chunks(cl) + (IF HasActiveRam(cl) THEN 1 ELSE 0)

Untouched == [q \in Tokens |-> Kernel!Nothing]

Init ==
  /\ RingInit
  /\ pc = "idle" /\ call \in Calls /\ c = 0
  /\ acc = Untouched /\ out = Untouched
  /\ served = 0 /\ report = 0

-----------------------------------------------------------------------------
(* The client prepares the file and calls the engine; it asks for no more  *)
(* SSD tokens than it asked to be stored, as every caller in the           *)
(* repository does.                                                        *)

Prepare ==
  /\ pc = "idle"
  /\ \E n \in Prepares : PrepareFile(n)
  /\ UNCHANGED <<slotK, slotV, isPrefetching, readySem, ioQueue, stage,
                 readChunks, hostVars>>

PrepareShort ==
  /\ pc = "idle"
  /\ \E n \in Prepares : \E done \in 0 .. n : PrepareFileShort(n, done)
  /\ UNCHANGED <<slotK, slotV, isPrefetching, readySem, ioQueue, stage,
                 readChunks, hostVars>>

PrepareFails ==
  /\ pc = "idle"
  /\ \E n \in Prepares : PrepareFileFails(n)
  /\ UNCHANGED <<slotK, slotV, isPrefetching, readySem, ioQueue, stage,
                 readChunks, hostVars>>

\* After the loop: the RAM window if there is one, else return.
AfterLoop(cl) == IF HasActiveRam(cl) THEN "ram" ELSE "return"

\* resetMetrics, fresh state buffers, and the prefetch of chunk 0.
Execute(cl) ==
  /\ pc = "idle" /\ served < MaxCalls /\ SsdTokens(cl) <= stored
  /\ call' = cl /\ c' = 0
  /\ acc' = Untouched /\ out' = Untouched
  /\ readChunks' = 0
  /\ IF Chunks(cl) > 0
       THEN pc' = "wait" /\ PrefetchChunkAsync(SlotOf(0), 0)
       ELSE pc' = AfterLoop(cl) /\ UNCHANGED <<isPrefetching, ioQueue>>
  /\ UNCHANGED <<fileVars, slotK, slotV, readySem, stage, served, report>>

Wait ==
  /\ pc = "wait"
  /\ WaitForSlot(SlotOf(c))
  /\ pc' = "prefetch"
  /\ UNCHANGED <<fileVars, slotK, slotV, ioQueue, stage, readChunks,
                 call, c, acc, out, served, report>>

\* Fault: the next chunk is read into the slot just waited for.
PrefetchIntoSameSlot ==
  /\ pc = "prefetch"
  /\ IF c + 1 < Chunks(call)
       THEN PrefetchChunkAsync(SlotOf(c), c + 1)
       ELSE UNCHANGED <<isPrefetching, ioQueue>>
  /\ pc' = "gpu"
  /\ UNCHANGED <<fileVars, slotK, slotV, readySem, stage, readChunks,
                 call, c, acc, out, served, report>>

\* Fault: one chunk too many is prefetched.
PrefetchPastEnd ==
  /\ pc = "prefetch"
  /\ PrefetchChunkAsync(SlotOf(c + 1), c + 1)
  /\ pc' = "gpu"
  /\ UNCHANGED <<fileVars, slotK, slotV, readySem, stage, readChunks,
                 call, c, acc, out, served, report>>

PrefetchNext ==
  /\ pc = "prefetch"
  /\ IF c + 1 < Chunks(call)
       THEN PrefetchChunkAsync(SlotOf(c + 1), c + 1)
       ELSE UNCHANGED <<isPrefetching, ioQueue>>
  /\ pc' = "gpu"
  /\ UNCHANGED <<fileVars, slotK, slotV, readySem, stage, readChunks,
                 call, c, acc, out, served, report>>

ChunkPass ==
  LET start == c * SlotTokens IN
    [mode |-> call.mode, first |-> call.first, total |-> call.total,
     start |-> start, len |-> Kernel!Smaller(SlotTokens, SsdTokens(call) - start),
     isFirst |-> c = 0, isLast |-> c = TotalPasses(call) - 1]

\* Fault: the pass over the RAM window drops the state of the chunks.
RamPassRestarts ==
  [mode |-> call.mode, first |-> call.first, total |-> call.total,
   start |-> SsdTokens(call), len |-> call.ram, isFirst |-> TRUE, isLast |-> TRUE]

RamPass ==
  [mode |-> call.mode, first |-> call.first, total |-> call.total,
   start |-> SsdTokens(call), len |-> call.ram,
   isFirst |-> Chunks(call) = 0, isLast |-> TRUE]

\* The slot holds, in both halves, the chunk the pass is told it holds.
HoldsChunk(s, n) == slotK[s] = Chunk(fd, n) /\ slotV[s] = Chunk(fd, n) /\ fd # 0

\* From "gpu" until this step the GPU reads the slot; the host is in
\* waitUntilCompleted.
GpuPass ==
  /\ pc = "gpu"
  /\ LET valid == HoldsChunk(SlotOf(c), c) IN
       /\ acc' = Kernel!StateAfter(ChunkPass, acc, valid)
       /\ out' = Kernel!OutputAfter(ChunkPass, acc, out, valid)
  /\ c' = c + 1
  /\ pc' = IF c + 1 < Chunks(call) THEN "wait" ELSE AfterLoop(call)
  /\ UNCHANGED <<ringVars, call, served, report>>

GpuRamPass ==
  /\ pc = "ram"
  /\ acc' = Kernel!StateAfter(RamPass, acc, TRUE)
  /\ out' = Kernel!OutputAfter(RamPass, acc, out, TRUE)
  /\ pc' = "return"
  /\ UNCHANGED <<ringVars, call, c, served, report>>

Return ==
  /\ pc = "return"
  /\ report' = readChunks /\ served' = served + 1
  /\ pc' = "idle"
  /\ UNCHANGED <<ringVars, call, c, acc, out>>

Destroy ==
  /\ pc = "idle" /\ pc' = "closed"
  /\ CloseFile
  /\ UNCHANGED <<slotK, slotV, isPrefetching, readySem, ioQueue, stage,
                 readChunks, call, c, acc, out, served, report>>

Finished == pc = "closed" /\ UNCHANGED vars

Host == Wait \/ PrefetchNext \/ GpuPass \/ GpuRamPass \/ Return
Io == IoStep /\ UNCHANGED hostVars
Client == \/ Prepare \/ PrepareShort \/ PrepareFails
          \/ \E cl \in Calls : Execute(cl)
          \/ Destroy
Next == Client \/ Host \/ Io \/ Finished

\* The dispatch queue and the host thread keep running; the client may stop.
Spec == Init /\ [][Next]_vars /\ WF_vars(Host) /\ WF_vars(Io)

-----------------------------------------------------------------------------
TypeOK ==
  /\ RingTypeOK
  /\ pc \in {"idle", "wait", "prefetch", "gpu", "ram", "return", "closed"}
  /\ call \in Calls /\ c \in Nat /\ served \in Nat /\ report \in Nat
  /\ acc \in [Tokens -> [Tokens -> Nat]]
  /\ out \in [Tokens -> [Tokens -> Nat]]

\* While the GPU reads the slot of chunk c, no job that writes the slot is
\* queued or running (the ping-pong of the two slots).
NoSlotRace == pc = "gpu" => ~BeingWritten(SlotOf(c))

\* Absent I/O errors the pass over chunk c finds chunk c of the current file
\* in both halves of its slot, whatever earlier calls left there.
ConsumesItsChunk == pc = "gpu" => HoldsChunk(SlotOf(c), c)

\* A slot's semaphore and its queued jobs account exactly for its pending
\* prefetch: a count left over from one call would let a later wait through
\* before its own read.
QueuedJobs(s) == Cardinality({i \in 1 .. Len(ioQueue) : ioQueue[i].slot = s})
SemaphoreBalance ==
  \A s \in Slots :
    readySem[s] + QueuedJobs(s) = IF isPrefetching[s] THEN 1 ELSE 0

\* A prepare or the destructor never closes a file a queued read still uses.
FileOutlivesReads == [][fd' # fd => ioQueue = <<>>]_vars

\* The metrics handed to the caller cover every chunk of the call and nothing
\* of an earlier one.
ReportsAllReads == [][pc = "return" /\ pc' = "idle" => report' = Chunks(call)]_vars

\* An execute call returns: no wait on a semaphore is for ever.
EveryCallReturns == pc = "wait" ~> pc = "idle"

\* A call whose RAM window is backed by buffers returns the full causal
\* attention: every key up to the query once, none twice, none stale.
Asked == call.first .. call.total - 1
OutputExact ==
  pc = "return" /\ (call.ram > 0 => call.buffers) =>
    \A q \in Asked : out[q] = [t \in Tokens |-> IF t <= q THEN 1 ELSE 0]

-----------------------------------------------------------------------------
(* The inductive invariant behind the safety properties.  Because the read *)
(* of chunk c+1 is enqueued only after the wait for chunk c, there is never*)
(* more than one prefetch pending, and what it has done so far is known.   *)

NoCounts == [s \in Slots |-> 0]

Quiet == /\ ioQueue = <<>> /\ stage = "K"
         /\ readySem = NoCounts
         /\ isPrefetching = [s \in Slots |-> FALSE]

JobOf(n) == [slot |-> SlotOf(n), chunk |-> n, file |-> fd]

InQueue(n) == ioQueue = <<JobOf(n)>> /\ readySem = NoCounts
Signalled(n) == /\ ioQueue = <<>> /\ stage = "K"
                /\ readySem = [s \in Slots |-> IF s = SlotOf(n) THEN 1 ELSE 0]
Pending(n) == /\ isPrefetching = [s \in Slots |-> s = SlotOf(n)]
              /\ InQueue(n) \/ Signalled(n)

\* What a pending read of chunk n has put into its slot by now.
LoadedSoFar(n) ==
  /\ InQueue(n) /\ stage # "K" => slotK[SlotOf(n)] = Chunk(fd, n)
  /\ InQueue(n) /\ stage \in {"account", "signal"} => slotV[SlotOf(n)] = Chunk(fd, n)
  /\ Signalled(n) => HoldsChunk(SlotOf(n), n)

InLoop == pc \in {"wait", "prefetch", "gpu"}
MoreChunks == c + 1 < Chunks(call)

Protocol ==
  /\ pc \in {"idle", "closed", "prefetch", "ram", "return"} => Quiet
  /\ pc = "wait" => Pending(c)
  /\ pc = "gpu" => IF MoreChunks THEN Pending(c + 1) ELSE Quiet
  /\ InLoop => c < Chunks(call)

\* Without I/O errors the file holds every chunk the call reads.
FileComplete ==
  /\ fd = 0 => stored = 0 \/ pc = "closed"
  /\ fd # 0 => written = NumChunks(stored)
  /\ InLoop => fd # 0 /\ Chunks(call) <= written

Contents ==
  /\ pc = "wait" => LoadedSoFar(c)
  /\ pc \in {"prefetch", "gpu"} => HoldsChunk(SlotOf(c), c)
  /\ pc = "gpu" /\ MoreChunks => LoadedSoFar(c + 1)

\* How many chunks the metrics have counted.
Counted == IF ioQueue = <<>> \/ stage = "signal" THEN 1 ELSE 0
Accounting ==
  /\ pc = "wait" => readChunks = c + Counted
  /\ pc = "prefetch" => readChunks = c + 1
  /\ pc = "gpu" => readChunks = c + 1 + (IF MoreChunks THEN Counted ELSE 0)
  /\ pc \in {"ram", "return"} => readChunks = Chunks(call)

RingInv == TypeOK /\ Protocol /\ Accounting
DataReady == FileComplete /\ Contents
DataInv == ~IoMayFail => DataReady

(* Between two passes the keys below d have been passed over: queries that  *)
(* are finished have their output, the others' state holds those keys.     *)

Seen(q, d) == [t \in Tokens |-> IF t < d /\ t <= q THEN 1 ELSE 0]
Partial(d, a, o) ==
  \A q \in Asked : IF call.mode = "A" /\ q < d THEN o[q] = Seen(q, d)
                                              ELSE d > 0 => a[q] = Seen(q, d)

OutputReady ==
  /\ InLoop => Partial(c * SlotTokens, acc, out)
  /\ pc = "ram" => Partial(SsdTokens(call), acc, out)
  /\ OutputExact
OutputInv == ~IoMayFail => OutputReady

-----------------------------------------------------------------------------
(* The engine implements CausalAttention: intermediate outputs are hidden  *)
(* until the call returns.                                                 *)
AbsStatus ==
  IF pc = "idle" THEN "ready" ELSE IF pc = "closed" THEN "closed" ELSE "running"
AbsAnswer ==
  IF pc \in {"idle", "closed"} /\ served > 0
    THEN [q \in call.first .. call.total - 1 |-> out[q]]
    ELSE [q \in {} |-> Kernel!Nothing]

Attention == INSTANCE CausalAttention
  WITH status <- AbsStatus, asked <- call, answer <- AbsAnswer

ImplementsCausalAttention == Attention!Spec

\* Its safety part.
AnswersAsCausalAttention == Attention!Init /\ [][Attention!Next]_(Attention!vars)
=============================================================================
