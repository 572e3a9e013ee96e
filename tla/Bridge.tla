------------------------------- MODULE Bridge -------------------------------
(***************************************************************************)
(* The zero-copy bridge from MLX arrays to Metal: the Python singleton     *)
(* MetalUMABridge (m4_bridge.py) over the C++ globals of m4_mlx_bridge.mm. *)
(* A dispatch commits a command buffer that reads and writes the memory of *)
(* MLX arrays it does not own; the Python lists keep those arrays alive    *)
(* until synchronize, which waits for the last command buffer recorded.    *)
(* The command queue completes its buffers in commit order.                *)
(***************************************************************************)
EXTENDS Integers, Sequences, FiniteSetsExt, SequencesExt

CONSTANTS Threads,
          MaxCommands,  \* bound: dispatches
          Serialized    \* do the clients keep their calls from overlapping?

ASSUME BridgeAssumption ==
  MaxCommands \in Nat /\ Serialized \in BOOLEAN

Commands == 1 .. MaxCommands
None == 0

VARIABLES initialized,     \* g_initialized, and g_device and the rest with it
          last,            \* g_last_cmd_buffer
          queue,           \* committed and not completed, in order
          issued,          \* commands numbered so far
          inFlightTensors, \* _in_flight_tensors, by command
          retainedContig,  \* _retained_contig, by command
          finiteChecks,    \* _pending_finite_checks, by command
          pc,              \* where each thread is
          cmd,             \* the last command it dispatched
          waitFor,         \* the command its synchronize waits for
          \* histories of commands:
          copied,          \* a copy of an operand was made for it
          written,         \* the GPU has written the array of its output
          lost             \* its result does not reach that array

lists == <<inFlightTensors, retainedContig, finiteChecks>>
python == <<lists, copied>>
gpu == <<written, lost>>
vars == <<initialized, last, queue, issued, python, pc, cmd, waitFor, gpu>>

Goto(t, l) == pc' = [pc EXCEPT ![t] = l]
InFlight == ToSet(queue)
MayCall(t) == /\ pc[t] = "idle"
              /\ Serialized => \A u \in Threads : pc[u] = "idle"

Init ==
  /\ initialized = FALSE /\ last = None /\ queue = <<>> /\ issued = 0
  /\ inFlightTensors = {} /\ retainedContig = {} /\ finiteChecks = {} /\ copied = {}
  /\ pc = [t \in Threads |-> "idle"] /\ cmd = [t \in Threads |-> None]
  /\ waitFor = [t \in Threads |-> None]
  /\ written = {} /\ lost = {}

\* m4_bridge_init; a second call finds the bridge initialized.
InitBridge(t) ==
  /\ MayCall(t) /\ initialized' = TRUE
  /\ UNCHANGED <<last, queue, issued, python, pc, cmd, waitFor, gpu>>

-----------------------------------------------------------------------------
(* dispatch_gemm and dispatch_gemv.  A dispatch that fails a check in C++  *)
(* returns an error code, which Python raises; copies made for it stay in  *)
(* _retained_contig until the next synchronize or shutdown.                *)

\* Fault: the copy of an operand is forgotten.
ExtractUnretained(n) ==
  \/ UNCHANGED <<copied, retainedContig, lost>>
  \/ copied' = copied \cup {n} /\ UNCHANGED <<retainedContig, lost>>

\* Fault: an operand is retained there whether or not it is a copy.
ExtractRetainsAll(n) ==
  /\ copied' \in {copied, copied \cup {n}} /\ UNCHANGED lost
  /\ retainedContig' = retainedContig \cup {n}

\* The addresses of the operands: of an array that is not contiguous a copy is
\* made, which only _retained_contig holds.  If the output is copied, the copy
\* is what the GPU will write.
Extract(n) ==
  \/ UNCHANGED <<copied, retainedContig, lost>>
  \/ /\ copied' = copied \cup {n} /\ retainedContig' = retainedContig \cup {n}
     /\ lost' \in {lost, lost \cup {n}}

\* g_initialized is read without the mutex, when the operands are extracted.
Encode(t) ==
  /\ MayCall(t) /\ issued < MaxCommands
  /\ issued' = issued + 1
  /\ cmd' = [cmd EXCEPT ![t] = issued + 1]
  /\ Extract(issued + 1)
  /\ Goto(t, IF initialized THEN "encoded" ELSE "idle")
  /\ UNCHANGED <<initialized, last, queue, inFlightTensors, finiteChecks, waitFor, written>>

Commit(t) ==
  /\ pc[t] = "encoded"
  /\ queue' = Append(queue, cmd[t])
  /\ Goto(t, "committed")
  /\ UNCHANGED <<initialized, last, issued, python, cmd, waitFor, gpu>>

\* An argument fails its check, or Metal has no buffer, command buffer or encoder
\* to give, for instance since another thread has shut the bridge down; one that
\* got them before commits.
EncodeFails(t) ==
  /\ pc[t] = "encoded"
  /\ Goto(t, "idle")
  /\ UNCHANGED <<initialized, last, queue, issued, python, cmd, waitFor, gpu>>

\* Fault: a command is recorded only when none is.
RecordFirst(t) ==
  /\ pc[t] = "committed"
  /\ last' = IF last = None THEN cmd[t] ELSE last
  /\ Goto(t, "recorded")
  /\ UNCHANGED <<initialized, queue, issued, python, cmd, waitFor, gpu>>

\* Under the mutex.
Record(t) ==
  /\ pc[t] = "committed"
  /\ last' = cmd[t]
  /\ Goto(t, "recorded")
  /\ UNCHANGED <<initialized, queue, issued, python, cmd, waitFor, gpu>>

\* Back in Python: the tensors are retained, and checked later if asked to.
Retain(t) ==
  /\ pc[t] = "recorded"
  /\ inFlightTensors' = inFlightTensors \cup {cmd[t]}
  /\ finiteChecks' \in {finiteChecks, finiteChecks \cup {cmd[t]}}
  /\ Goto(t, "idle")
  /\ UNCHANGED <<initialized, last, queue, issued, retainedContig, copied, cmd, waitFor, gpu>>

-----------------------------------------------------------------------------
(* synchronize.                                                            *)

\* Fault: the record is not waited for.
TakeNone(t) ==
  /\ MayCall(t)
  /\ waitFor' = [waitFor EXCEPT ![t] = None]
  /\ UNCHANGED last
  /\ Goto(t, "waiting")
  /\ UNCHANGED <<initialized, queue, issued, python, cmd, gpu>>

\* Under the mutex.
TakeLast(t) ==
  /\ MayCall(t)
  /\ waitFor' = [waitFor EXCEPT ![t] = last]
  /\ last' = None
  /\ Goto(t, "waiting")
  /\ UNCHANGED <<initialized, queue, issued, python, cmd, gpu>>

\* Fault: synchronize waits until another one has released the tensors.
WaitForRelease(t) ==
  /\ pc[t] = "waiting" /\ inFlightTensors = {}
  /\ Goto(t, "synchronized")
  /\ UNCHANGED <<initialized, last, queue, issued, python, cmd, waitFor, gpu>>

WaitUntilCompleted(t) ==
  /\ pc[t] = "waiting" /\ waitFor[t] \notin InFlight
  /\ Goto(t, "synchronized")
  /\ UNCHANGED <<initialized, last, queue, issued, python, cmd, waitFor, gpu>>

ReleaseTensors(t) ==
  /\ pc[t] = "synchronized"
  /\ inFlightTensors' = {} /\ retainedContig' = {}
  /\ Goto(t, "checking")
  /\ UNCHANGED <<initialized, last, queue, issued, finiteChecks, copied, cmd, waitFor, gpu>>

\* Reads the outputs queued for a check; it raises if one is not finite.
CheckFinite(t) ==
  /\ pc[t] = "checking"
  /\ finiteChecks' = {}
  /\ Goto(t, "idle")
  /\ UNCHANGED <<initialized, last, queue, issued, inFlightTensors, retainedContig, copied,
                 cmd, waitFor, gpu>>

-----------------------------------------------------------------------------
(* shutdown: Python drops its lists, then C++ waits for the last command   *)
(* and drops the Metal objects, under the mutex.                           *)

DropLists(t) ==
  /\ MayCall(t)
  /\ inFlightTensors' = {} /\ retainedContig' = {} /\ finiteChecks' = {}
  /\ Goto(t, "shutdown")
  /\ UNCHANGED <<initialized, last, queue, issued, copied, cmd, waitFor, gpu>>

\* Fault: the bridge goes down with its last command running.
ShutdownAtOnce(t) ==
  /\ pc[t] = "shutdown"
  /\ last' = None /\ initialized' = FALSE
  /\ Goto(t, "idle")
  /\ UNCHANGED <<queue, issued, python, cmd, waitFor, gpu>>

Shutdown(t) ==
  /\ pc[t] = "shutdown" /\ last \notin InFlight
  /\ last' = None /\ initialized' = FALSE
  /\ Goto(t, "idle")
  /\ UNCHANGED <<queue, issued, python, cmd, waitFor, gpu>>

\* The oldest command ends; one that ends in an error is only logged.
GpuCompletes ==
  /\ queue # <<>> /\ queue' = Tail(queue)
  /\ \/ written' = written \cup ({Head(queue)} \ lost) /\ UNCHANGED lost
     \/ lost' = lost \cup {Head(queue)} /\ UNCHANGED written
  /\ UNCHANGED <<initialized, last, issued, python, pc, cmd, waitFor>>

Continue(t) == \/ Commit(t) \/ EncodeFails(t) \/ Record(t) \/ Retain(t)
               \/ WaitUntilCompleted(t) \/ ReleaseTensors(t) \/ CheckFinite(t)
               \/ Shutdown(t)
Begin(t) == InitBridge(t) \/ Encode(t) \/ TakeLast(t) \/ DropLists(t)
Next == GpuCompletes \/ \E t \in Threads : Begin(t) \/ Continue(t)

\* A thread inside a call goes on, and the GPU completes what was committed.
Spec == /\ Init /\ [][Next]_vars
        /\ WF_vars(GpuCompletes)
        /\ \A t \in Threads : WF_vars(Continue(t))

-----------------------------------------------------------------------------
TypeOK ==
  /\ initialized \in BOOLEAN /\ issued \in 0 .. MaxCommands
  /\ last \in Commands \cup {None} /\ cmd \in [Threads -> Commands \cup {None}]
  /\ waitFor \in [Threads -> Commands \cup {None}]
  /\ queue \in Seq(Commands)
  /\ inFlightTensors \subseteq Commands /\ finiteChecks \subseteq Commands
  /\ retainedContig \subseteq copied /\ copied \subseteq Commands
  /\ written \subseteq Commands /\ lost \subseteq Commands
  /\ pc \in [Threads -> {"idle", "encoded", "committed", "recorded", "waiting",
                         "synchronized", "checking", "shutdown"}]

\* The arrays of a command: in the list, or in the frame of its dispatch.  The
\* copies made for it are in no frame.
Retained(n) ==
  /\ \/ n \in inFlightTensors
     \/ \E t \in Threads : cmd[t] = n /\ pc[t] \in {"committed", "recorded"}
  /\ n \in copied => n \in retainedContig

\* No command the GPU may still execute uses memory nobody holds.
RetainedUntilDone == \A n \in InFlight : Retained(n)

\* The same as long as no shutdown is under way.
RetainedUntilReleased ==
  (\A t \in Threads : pc[t] # "shutdown") => RetainedUntilDone

\* When synchronize returns from its wait, nothing its thread dispatched
\* before is in flight any more.
SynchronizeDrains ==
  \A t \in Threads : pc[t] = "synchronized" => cmd[t] \notin InFlight

\* A finiteness check reads an output only when the GPU has written it.  Two
\* kinds of output are checked without ever being written: that of a command
\* that ended in an error, and one that is not contiguous, as the GPU writes
\* its copy and the check reads the original.
ChecksSeeResults ==
  \A t \in Threads : pc[t] = "checking" => finiteChecks \ lost \subseteq written

\* A bridge that is not initialized has nothing running.
ShutdownLeavesNothing == ~initialized => queue = <<>>

\* Every synchronize and every shutdown ends.
EveryWaitEnds ==
  \A t \in Threads : pc[t] \in {"waiting", "shutdown"} ~> pc[t] = "idle"
=============================================================================
