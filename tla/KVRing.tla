------------------------------ MODULE KVRing -------------------------------
(***************************************************************************)
(* The double-buffered ring that streams the KV cache from its unlinked    *)
(* temporary file (AsyncKVRingBuffer.mm; Streaming1MEngine carries the     *)
(* same slots and the same serial I/O queue).  Two shared buffers, each    *)
(* with a semaphore and an isPrefetching flag; the host enqueues a read of *)
(* one chunk into one slot, a serial dispatch queue executes it, and the   *)
(* host waits on the slot's semaphore before the GPU may read the slot.    *)
(* This module holds the operations; StreamEngine composes them with the   *)
(* host loop and the GPU.                                                  *)
(***************************************************************************)
EXTENDS Integers, Sequences

CONSTANTS SlotTokens,  \* tokens of one slot, and of one chunk of the file
          MaxFiles,    \* bound: how often the file is prepared
          IoMayFail    \* may open, pwrite and pread fail?

ASSUME RingAssumption == /\ SlotTokens \in Nat \ {0}
                         /\ MaxFiles \in Nat
                         /\ IoMayFail \in BOOLEAN

VARIABLES fd,           \* the open file, by number; 0 stands for fd_ = -1
          files,        \* files opened so far
          stored,       \* tokens the last prepare call was asked to store
          written,      \* chunks of the open file that pwrite completed
          slotK, slotV, \* what the K and the V half of each slot hold
          isPrefetching,
          readySem,
          ioQueue,      \* jobs of the serial queue, the running one first
          stage,        \* the running job's next step
          readChunks    \* totalReadBytes_, in chunks

ringVars == <<fd, files, stored, written, slotK, slotV, isPrefetching,
              readySem, ioQueue, stage, readChunks>>
fileVars == <<fd, files, stored, written>>

Slots == {0, 1}
SlotOf(c) == c % 2
NumChunks(tokens) == (tokens + SlotTokens - 1) \div SlotTokens

\* A slot half holds chunk c of file f, or bytes that are no chunk at all:
\* the zero fill of a new buffer, or a read that stopped half way.
Chunk(f, c) == [file |-> f, chunk |-> c]
Garbage == Chunk(0, 0)
Job == [slot : Slots, chunk : Nat, file : Nat]

RingInit ==
  /\ fd = 0 /\ files = 0 /\ stored = 0 /\ written = 0
  /\ slotK = [s \in Slots |-> Garbage]
  /\ slotV = [s \in Slots |-> Garbage]
  /\ isPrefetching = [s \in Slots |-> FALSE]
  /\ readySem = [s \in Slots |-> 0]
  /\ ioQueue = <<>> /\ stage = "K" /\ readChunks = 0

-----------------------------------------------------------------------------
(* The file.  Both prepare functions close the previous file, open a new   *)
(* one, unlink it at once and write whole chunks until a pwrite is short.  *)

PrepareFile(tokens) ==
  /\ files < MaxFiles
  /\ files' = files + 1 /\ fd' = files + 1
  /\ stored' = tokens /\ written' = NumChunks(tokens)

\* A short pwrite returns false with the file open and its tail missing.
PrepareFileShort(tokens, done) ==
  /\ IoMayFail /\ files < MaxFiles
  /\ done < NumChunks(tokens)
  /\ files' = files + 1 /\ fd' = files + 1
  /\ stored' = tokens /\ written' = done

\* open() fails after the previous file is gone.
PrepareFileFails(tokens) ==
  /\ IoMayFail /\ files < MaxFiles
  /\ files' = files + 1 /\ fd' = 0
  /\ stored' = tokens /\ written' = 0

CloseFile == fd' = 0 /\ written' = 0 /\ UNCHANGED <<files, stored>>

-----------------------------------------------------------------------------
(* The host's side of a slot.                                              *)

\* The job captures fd_ by value when it is enqueued.
Enqueue(queue, s, c) == Append(queue, [slot |-> s, chunk |-> c, file |-> fd])

PrefetchChunkAsync(s, c) ==
  /\ isPrefetching' = [isPrefetching EXCEPT ![s] = TRUE]
  /\ ioQueue' = Enqueue(ioQueue, s, c)

\* Fault: the wait times out at once instead of blocking.
WaitDoesNotBlock(s) ==
  /\ readySem' = IF isPrefetching[s]
                   THEN [readySem EXCEPT ![s] = @ - 1] ELSE readySem
  /\ isPrefetching' = [isPrefetching EXCEPT ![s] = FALSE]

\* Fault: the wait leaves the slot marked as being prefetched.
WaitKeepsFlag(s) ==
  /\ isPrefetching[s] => readySem[s] > 0
  /\ readySem' = IF isPrefetching[s]
                   THEN [readySem EXCEPT ![s] = @ - 1] ELSE readySem
  /\ UNCHANGED isPrefetching

WaitForSlot(s) ==
  /\ isPrefetching[s] => readySem[s] > 0
  /\ readySem' = IF isPrefetching[s]
                   THEN [readySem EXCEPT ![s] = @ - 1] ELSE readySem
  /\ isPrefetching' = [isPrefetching EXCEPT ![s] = FALSE]

-----------------------------------------------------------------------------
(* The serial queue.  A pread that fails is only reported with perror; a   *)
(* short one is not noticed at all.  Either leaves the old bytes, or a mix.*)
(* A captured descriptor that was closed meanwhile reads nothing, or the   *)
(* file that got its number.                                               *)

Readable(job) == job.file = fd /\ fd # 0 /\ job.chunk < written

PreadOutcomes(job, old) ==
  IF Readable(job)
    THEN {Chunk(fd, job.chunk)} \cup (IF IoMayFail THEN {old, Garbage} ELSE {})
    ELSE {old} \cup (IF fd # 0 /\ job.chunk < written
                       THEN {Chunk(fd, job.chunk)} ELSE {})

IoReadK ==
  /\ ioQueue # <<>> /\ stage = "K"
  /\ LET job == Head(ioQueue) IN
       \E data \in PreadOutcomes(job, slotK[job.slot]) :
         slotK' = [slotK EXCEPT ![job.slot] = data]
  /\ stage' = "V"
  /\ UNCHANGED <<fileVars, slotV, isPrefetching, readySem, ioQueue, readChunks>>

IoReadV ==
  /\ ioQueue # <<>> /\ stage = "V"
  /\ LET job == Head(ioQueue) IN
       \E data \in PreadOutcomes(job, slotV[job.slot]) :
         slotV' = [slotV EXCEPT ![job.slot] = data]
  /\ stage' = "account"
  /\ UNCHANGED <<fileVars, slotK, isPrefetching, readySem, ioQueue, readChunks>>

\* Fault: the K and the V half are counted as a chunk each.
IoAccountHalves ==
  /\ ioQueue # <<>> /\ stage = "account"
  /\ readChunks' = readChunks + 2
  /\ stage' = "signal"
  /\ UNCHANGED <<fileVars, slotK, slotV, isPrefetching, readySem, ioQueue>>

\* Whole chunks are counted whatever pread returned.
IoAccount ==
  /\ ioQueue # <<>> /\ stage = "account"
  /\ readChunks' = readChunks + 1
  /\ stage' = "signal"
  /\ UNCHANGED <<fileVars, slotK, slotV, isPrefetching, readySem, ioQueue>>

\* Fault: the job ends without signalling its slot.
IoForgetsSignal ==
  /\ ioQueue # <<>> /\ stage = "signal"
  /\ ioQueue' = Tail(ioQueue)
  /\ stage' = "K"
  /\ UNCHANGED <<fileVars, slotK, slotV, isPrefetching, readySem, readChunks>>

IoSignal ==
  /\ ioQueue # <<>> /\ stage = "signal"
  /\ readySem' = [readySem EXCEPT ![Head(ioQueue).slot] = @ + 1]
  /\ ioQueue' = Tail(ioQueue)
  /\ stage' = "K"
  /\ UNCHANGED <<fileVars, slotK, slotV, isPrefetching, readChunks>>

IoStep == IoReadK \/ IoReadV \/ IoAccount \/ IoSignal

-----------------------------------------------------------------------------
RingTypeOK ==
  /\ fd \in Nat /\ files \in Nat /\ stored \in Nat /\ written \in Nat
  /\ slotK \in [Slots -> [file : Nat, chunk : Nat]]
  /\ slotV \in [Slots -> [file : Nat, chunk : Nat]]
  /\ isPrefetching \in [Slots -> BOOLEAN]
  /\ readySem \in [Slots -> Nat]
  /\ ioQueue \in Seq(Job)
  /\ stage \in {"K", "V", "account", "signal"}
  /\ readChunks \in Nat

\* The I/O queue may still write slot s.
BeingWritten(s) == \E i \in 1 .. Len(ioQueue) : ioQueue[i].slot = s
=============================================================================
