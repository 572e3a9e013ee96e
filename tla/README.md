# TLA+ models of m4-prefill-engine

This directory holds the formal models of the m4-prefill-engine repository: TLA+ modules translated from its
source, TLC configurations that model-check them on small instances, and theorems that the TLA+ proof system
(TLAPS) proves for every value of the parameters. `PROJECT.json` links every definition to the lines it models.

Run one instance with `tlc -config MCStreamEngine.cfg MCStreamEngine`, check the proofs with
`tlapm StreamEngine_proofs.tla`, and likewise for every other module whose name ends in `_proofs`.

## 1. The system

The repository is an LLM prefill and decode engine for Apple silicon: Metal kernels, Objective-C++ host programs
that drive them, and a Python engine on top of MLX. Most of its lines are arithmetic (kernels) and benchmarks. Its
control, the part where order, lifetime and bookkeeping decide whether the result is right, sits in these components.

| Component | State | Operations | Interacts with | What makes it correct |
|---|---|---|---|---|
| Ring of KV chunks on SSD (`AsyncKVRingBuffer`) | unlinked file (`fd_`), two slots with buffer, semaphore, `isPrefetching`, byte metrics | prepare FP16/Q8_0, prefetch, wait, reset metrics, destructor | serial dispatch queue; the engine | a slot is never written while it is read; every wait is matched by its own read |
| Streaming engine (`Streaming1MEngine`) | its own copy of the ring, host loop, softmax state buffers | prepare, execute mode A / mode B | ring, GPU, caller | the answer is the causal attention over every key; metrics are those of the call |
| Streaming kernels (`streaming_1m_kernels.metal`) | m/l/O state per query, output | one dispatch per chunk | engine | each key counted once for the queries that may see it, whatever the cuts |
| Inference engine, n-gram drafter (`src/engine`) | KV caches of the layers, `_sequence_length`, statistics | generate, decode_step, speculative burst, truncate | model, caches | greedy output equals token-by-token decoding; context limit |
| MLX bridge (`core/bridge`) | Metal globals, last command buffer; Python lists of arrays in flight | init, dispatch, synchronize, shutdown | GPU queue, MLX arrays | memory outlives the GPU's use of it; synchronize drains |
| KV caches, linear layers (`src/engine/modules.py`) | buffer allocated ahead or RAM window and NVMe stream, offsets | update_and_fetch, read_all_tokens, cut, reset, close | model, bridge | all layers hold the same text; no token lost or duplicated between window and stream |
| Transformer model (`src/engine/model.py`) | one cache per layer | forward pass, reset | caches, bridge, inference engine | a pass reaches all caches, or the engine does not count it |
| Layer weight streamers (C++, two in Python) | LRU of resident layers, byte counts | open, acquire, evict, close | mmap | residency never above the budget, counts exact |
| GGUF loader | mapping, tables | open, parse, close | streamers | a failed open leaves nothing behind; offsets inside the file |
| Bonsai engine (`bonsai_engine.py`) | recurrent and convolution states of 48 layers, KV rows of 16, `kv_len` | reset, prefill, forward_step, generate_stream | weight streamer, drafter, server | every token is sampled from the whole text and nothing else |
| Bonsai HTTP server (`server.py`) | per request: connection, what was sent | GET, OPTIONS, POST; proxy to the Metal backend, local fallback | backend, engine, client | at most one answer per request; a whole one unless the backend closes early; a backend that fails is answered for |
| Aligned buffers, quantization registry, shader loader | pointer and sizes; two maps; set of visited files | allocate/resize/move; register/lookup; expand | all of the above | no dangling size; lookups agree; expansion ends |
| Unified prefill engine, kernels, tokenizer, metrology, benchmarks | – | – | – | numerical, or measurement only: not modelled |

What is hard in this code:

- three actors share two slots (host loop, serial I/O queue, GPU) and synchronise only through semaphores, a plain
  flag and `waitUntilCompleted`;
- the softmax state of a query is carried across passes whose borders need not be tile-aligned;
- I/O errors are printed and otherwise ignored;
- the speculative loop keeps two records of the same length (counter and caches) and updates them on different paths;
- the bridge hands the GPU memory it does not own and remembers only the last command buffer;
- an exception in one layer's cache leaves the layers before it one input ahead, and nothing is rolled back;
- one cut after a rejected burst serves caches that need their arrays sliced and caches that must not;
- a recurrent state cannot be rolled back, so drafts are fed one by one; a dropped stream leaves layers at different
  places until the next reset;
- the server's fallback handles the failures of backend and client alike, at any point of a relayed answer; its sockets
  to the client have no timeout, and the one to the backend has one for each operation, not for the answer.

`PROJECT.json` lists every hazard at its line with the properties aimed at it, or the reason why none is yet.

## 2. Modules

| Module | Models | State and actions |
|---|---|---|
| `CausalAttention` | what a caller of the streaming engine may rely on | `Call`, `Return`, `Close`; a returned call has answered query q with keys 0..q, once each |
| `KVRing` | `AsyncKVRingBuffer.mm`, and the same functions in the engine | `PrepareFile`, `PrepareFileShort`, `PrepareFileFails`, `CloseFile`; `PrefetchChunkAsync`, `WaitForSlot`; the queue's steps `IoReadK`, `IoReadV`, `IoAccount`, `IoSignal` |
| `ChunkKernel` | `streaming_1m_kernels.metal` | operators `StateAfter`, `OutputAfter` of a pass; a query's softmax state is the number of times each key was accumulated |
| `ChunkPasses` | the kernels by themselves, under the host's loop | `Pass`: a causal range of keys handed over in passes of any lengths |
| `ChunkPasses_proofs` | – | theorems about `ChunkPasses`: exact for every cut |
| `StreamEngine` | `streaming_1m_engine.mm` | composes `KVRing` and `ChunkKernel`: `Execute`, `Wait`, `PrefetchNext`, `GpuPass`, `GpuRamPass`, `Return`, `Destroy` with the queue's steps in between; refines `CausalAttention` |
| `StreamEngine_proofs` | – | theorems about `StreamEngine`: types, slot protocol, metrics, what the slots hold, the answer, the step to `CausalAttention` |
| `NGramDrafter` | `ngram_drafter.py` | operators `Matches`, `Propose`; used by both engines |
| `NGramDrafter_proofs` | – | what `Propose` returns; the least of a set of naturals, the maximum of a bounded one |
| `SpecDecode` | `inference_engine.py` | `Start` (checks, reset, prefill, first token), `DecodeStep`, `FeedBurst`, `VerifyBurst` |
| `SpecDecode_proofs` | – | theorems about `SpecDecode`: types, limits, statistics, exact caches |
| `TokenLog` | what the engine may rely on from its caches | one log of tokens: `Extend`, `Cut`, `Clear`; a failed pass tears it (`Tear`) until it is cleared |
| `KVCache` | one cache of `modules.py`: `in_ram`, `out_of_core`, `mlx` | operators `Update`, `FailedUpdates`, `Truncate`, `View`, `ReadAllTokens` on a record |
| `CacheStack` | the caches of all layers under `model.py` and `inference_engine.py` | `Feed`, `FeedFails`, `Burst`, `CutBack`, `AcceptAll`, `Reset`, `ResetFails`, `Close`; refines `TokenLog` |
| `CacheStack_proofs` | – | theorems about `KVCache` and `CacheStack`, and the refinement of `TokenLog` |
| `LayerStreamer` | `weight_streamer.py`, `bonsai_weight_streamer.py`, `gguf_layer_streamer.mm` | `AcquireLayer`: `Touch` or `Load` (evict, then insert) |
| `BonsaiEngine` | `bonsai_engine.py` over `LayerStreamer` and `NGramDrafter` | `Start`; `RunLayer` (one layer of prefill or forward_step), `PrefillOverflows`; `Sample`, `Abandon` |
| `BonsaiServer` | one request of `server.py` | `Options`, `Get`, `Refuse`, `ReadLength`, `Malformed`, `Accept`; `Connect`, `RelayHead`, `RelayLine`, `RelayDone`, `BackendEnds`, `BackendBreaks`, `ReadMore`, `RelayBody`; `Fallback`, `Delta`, `StreamEnds`, `Echo`, `Finish`, `Reply`, `EngineFails`; the client's `Stall`, `Resume`, `Hangup`, the backend's `BackendSends`, `BackendCloses` |
| `BonsaiEngine_proofs` | – | theorems about `LayerStreamer` and `BonsaiEngine`: residency, byte counts, budgets, what tokens are sampled from |
| `BonsaiServer_proofs` | – | theorems about `BonsaiServer`: types, what a client is sent |
| `Bridge` | `m4_bridge.py`, `m4_mlx_bridge.mm` | `InitBridge`; `Encode` (with `Extract`: copies of operands that are not contiguous), `EncodeFails`, `Commit`, `Record`, `Retain`; `TakeLast`, `WaitUntilCompleted`, `ReleaseTensors`, `CheckFinite`; `DropLists`, `Shutdown`; `GpuCompletes`, with success or an error. `written` and `lost` record which outputs the GPU has written and which it never will |
| `Bridge_proofs` | – | theorems about `Bridge`: types; for calls that do not overlap, who holds what the GPU uses |
| `MC…` | – | instances for TLC |

An action is what happens between two points where another actor can interfere: a queue block is four steps (two
preads, the metrics, the signal), a dispatch is commit / record / retain, a host call that nothing can interleave
with is one step. Definitions marked `Fault:` are not used by any specification; each is a plausible bug in the
definition it precedes, and `PROJECT.json` names the property that TLC finds violated when it is put in its place.

### Data that is abstracted

- A slot half holds `(file, chunk)` or `Garbage`; the FP16 and Q8_0 variants differ only in byte counts.
- A softmax state is a count per key. Rescaling by the running maximum, and rounding, are not modelled.
- The file number stands for the descriptor; `PreadOutcomes` lets a read through a closed descriptor hit the next file.
- `readChunks` counts the bytes of the metrics in chunks. Elapsed times and memory figures are left out.
- A language model is a function of the last token and the position modulo `Period`; sampling at a temperature may
  pick any token.
- A row of a KV cache is a token and the position its key was rotated by; tensor layouts, batch and heads are left
  out (`TransformerBlock` always passes heads first). Files hold rows; a failed write may or may not have added them.
- A recurrent state of the Bonsai engine is the sequence of tokens folded into it, which is all that decides its
  value. A layer's size is a number of bytes. Which token `sample` draws is open.
- The layer streamers' advice to the operating system (`madvise`) changes no state of the program and is left out;
  the Python versions look for `os.posix_madvise`, which CPython does not have, and give none.
- A response is the sequence of status lines, lines and bodies written. A request says which checks it will pass.
- A dispatch of the bridge is its number. Which argument check fails is left open (`EncodeFails`, which comes after the
  operands were copied: such copies stay in `_retained_contig` until the next synchronize). The output of a dispatch is
  one array or, when it is not contiguous, two: the array the checks read and the copy the GPU writes (`lost`).

## 3. Runs

| Run | Configuration | Shows |
|---|---|---|
| `stream` | `MCStreamEngine.cfg` | Without I/O errors every interleaving of host, I/O queue and GPU answers two successive calls exactly (`OutputExact`, `ConsumesItsChunk`, `NoSlotRace`), accounts for all reads, terminates, and implements `CausalAttention`. |
| `stream_io_errors` | `MCStreamEngine_io.cfg` | With failing opens, short writes, failing and short reads, and calls whose RAM window has no buffers, every call still returns. (Slot protocol and metrics under these errors are proved, section 4.) |
| `stream_silent_error` | `MCStreamEngine_silent.cfg` | Finding: the same errors give a wrong answer that is reported as a success (`OutputExact` violated). |
| `chunk_kernel` | `MCChunkKernel.cfg` | Any cut of up to 8 keys into consecutive passes, tile-aligned or not, gives the exact attention in both modes. |
| `spec_decode` | `MCSpecDecode.cfg` | Every step of the loop that finds counter and caches in step keeps the caches exact and greedy output lossless; limits and statistics hold; also for follow-up calls, except the context limit. |
| `spec_lossless` | `MCSpecDecode_lossless.cfg` | Finding: a fully accepted burst breaks that premise, and a later burst changes greedy output. |
| `bridge` | `MCBridge.cfg` | Two threads whose calls do not overlap: arrays are kept until the GPU is done (except during a shutdown), synchronize drains, waits end; the finiteness checks read what the GPU has written, except outputs it never writes (of a failed command, or not contiguous). |
| `bridge_shutdown` | `MCBridge_shutdown.cfg` | Finding: shutdown lets go of the arrays before it waits for the GPU. |
| `kv_caches` | `MCCacheStack.cfg` | For each kind of cache: the layers implement `TokenLog` through growth, eviction, bursts, cuts and resets; keys carry the position of their place; no layer ever attends to an unwritten row, even after failed passes and resets; the stream on disk is complete. |
| `kv_read_all` | `MCCacheStack_readall.cfg` | Finding: `read_all_tokens` returns the window, not the stream. |
| `bonsai` | `MCBonsaiEngine.cfg` | Every token is sampled from recurrent states and cache rows of exactly the text so far, drafted or not, after dropped streams and failed prefills; residency and its byte counts stay within the budget; streams keep to `max_tokens` and end. |
| `server` | `MCBonsaiServer.cfg` | A client gets one answer; what may follow is only a local answer behind the lines of a backend that broke off. A handler that returns has sent a client that stays a whole answer, except when the backend closed its stream before `[DONE]`; it raises only for the stated causes. A request ends once the client no longer stalls and the backend no longer trickles. |

### Bounds, and why they are enough

- **Streaming.** Slot and tile of 2 tokens, files of 2, 5 and 7 tokens: one, three (last one partial) and four chunks,
  so each slot is reused, and there is a full, a partial and a single chunk. RAM windows start on and off a tile
  border; one call has no SSD part at all. Two files and two calls (`MaxFiles`, `MaxCalls`) let a call find slots,
  semaphores and metrics that an earlier one left. In the kernel run the tile is 3, 0..8 tokens give up to three
  tiles, and passes of every length are tried.
- **SpecDecode.** Two words and an EOS, window length 1, bursts of at most 2 drafts, outputs of up to 8 tokens within a
  context of 10: several bursts per call, full, partial and no acceptance, EOS as fed draft and as extra token, the
  end of the budget inside a burst, and a follow-up call that keeps the caches. All 81 models of period 2 are initial
  states; the violation needs period 3.
- **Bridge.** Two threads and three commands: a command of either thread can be queued, running, recorded and already
  overwritten while another is dispatched; a bridge can be shut down and initialised again in between.
- **Caches.** Two layers (one that has run, one that has not), passes of one or two tokens, up to five rows. The
  preallocated buffer has three rows and grows by one beyond the need, the out-of-core window has two: growth with an
  offset behind written rows, eviction of one and of two rows, cuts to every length; two failures, of passes or of a reset, between completed resets.
- **BonsaiEngine.** Eight layers, two with a cache of four rows, so that both kinds of layer come before and after each
  other; 1, 2 and 8 resident layers (always evicting, evicting, never); prompts that leave room, fill the cache and are
  too long; drafts of up to three tokens within budgets of 0, 2 and 4; two calls, the first possibly dropped.
- **BonsaiServer.** Every combination of what a request can be. Lines relayed beyond the third are relayed but no longer
  recorded, so a relay may go on for ever; the client may stall and resume at every point, or hang up.

### Fairness

`StreamEngine`: the host thread and the serial dispatch queue each keep executing while they have a step to take
(threads of a running process); the client may stop at any time, so `Prepare`, `Execute` and `Destroy` are not fair.
`Bridge`: a thread inside a call goes on, and Metal completes committed buffers; starting a call is not fair.
`BonsaiEngine`: the thread of the consumer goes on through layers and samples; it may drop the stream at any yield.
`BonsaiServer`: only the handler's thread is fair. It is disabled while it reads from or writes to a client that is
stalled, since that socket has no timeout; its wait for the backend ends after 120 seconds without a byte. Nothing is
assumed of client and backend, so `EveryRequestEnds` has a premise instead: from some point on the client does not stall
and the backend sends nothing more. Without it the handler can be held for ever, by either of them. The engine's stream
has an end.
`CacheStack` has no liveness property: its operations return or raise. `SpecDecode` has no liveness property: `NeverSlowerThanSequential` bounds the loop instead, as each pass emits at
least one of at most `maxNew` tokens. Deadlock is checked in every passing run; a client that has nothing left to do
stutters explicitly (`Finished`, `Stop`).

## 4. Proofs

`StreamEngine_proofs` proves, for every slot size, tile, set of calls and number of files and calls, from
`RingAssumption`, `StreamAssumption` and `KernelAssumption` only, with or without I/O errors:

- `TypeCorrect`: `Spec => []TypeOK`;
- `RingInvariant`: `Spec => []RingInv`, the inductive invariant;
- `GpuNeverRacesIo`: `Spec => []NoSlotRace`;
- `SemaphoresBalance`: `Spec => []SemaphoreBalance`;
- `FileIsNeverPulledAway`: `Spec => FileOutlivesReads`;
- `MetricsAreComplete`: `Spec => ReportsAllReads`.

None of these is inductive by itself: `NoSlotRace`, for instance, speaks of the moment of a GPU pass only, and says
nothing of what is queued when the pass begins. The strengthening `RingInv` says, for each place of the host, what is
pending: nothing (`Quiet`), or exactly one prefetch of a known chunk that is either in the queue or signalled and not
waited for (`Pending`), and how many chunks the metrics have counted by then (`Accounting`). The argument: a prefetch
issued when all is quiet becomes the one pending job (`PrefetchMakesPending`); steps of the queue keep it pending and
count it once (`IoKeepsPending`); a wait for it returns only after its own signal and leaves all quiet
(`WaitMakesQuiet`). The properties follow, since consecutive chunks use different slots (`SlotsAlternate`).

For an engine whose I/O succeeds (`~IoMayFail`), three more layers of the same module lead to what a caller sees:

- `DataInvariant` (`Spec => []DataInv`) and `PassReadsItsChunk` (`Spec => []ConsumesItsChunk`).
  `DataInv` adds to `Pending` what each stage of the pending job has already written into its slot; the step needed
  most is that a `pread` of a chunk below the chunk count of a fully written file delivers that chunk
  (`PreadReadsChunk`).
- `OutputInvariant` (`Spec => []OutputInv`) and `AnswersAreExact` (`Spec => []OutputExact`).
  `OutputInv` says what `acc` and `out` hold between two passes: a query that mode A has finished holds its answer,
  any other holds each key below the border once. That a pass extends it rests on three lemmas about the kernel's
  index arithmetic: the tiles it loads contain every key that is not masked (`NoTileIsSkipped`), the state it starts
  from is used exactly when a pass came before (`PassExtendsSeen`), and a border that is not on a tile loses nothing
  (`PassKeepsPartial`). `ChunkBounds` relates the chunk count, a rounded-up division, to the end of the SSD tokens.
- `EngineIsCausalAttention` (`Spec => AnswersAsCausalAttention`, also from `WindowsBacked`: RAM windows have buffers):
  the safety part of the refinement of `CausalAttention`. A host step is `Call`, `Return` or `Close`, or hidden like
  those of queue and GPU. `ImplementsCausalAttention`, which adds the abstract fairness, stays with TLC.

`ChunkPasses_proofs` proves the kernels' part for cuts the engine does not make: `PassesInvariant`, from which follow
`KernelsAreExact` (`ExactAfterLastPass`) and `KernelStateCarriesOver` (`StateCarriesOver`), for every tile, text and cut
into passes, from `KernelAssumption` and `PassesAssumption` (a burst is at most one tile).

The assumptions are named in `KVRing`, `ChunkKernel` and `StreamEngine`: a positive tile that divides the slot, and
calls in mode B that ask for at most one tile of queries (what the callers in the repository do; the grid of mode B
has one tile of queries).

`Bridge_proofs` proves `TypeCorrect` for any clients and, from `Serialized` (calls of the Python clients do not
overlap, section 3), for any number of threads and commands:

- `SerialInvariant` (`Spec => []SerialInv`), from which follow `ArraysOutliveCommands` (`RetainedUntilReleased`),
  `SynchronizeWaitsForAll` (`SynchronizeDrains`), `ChecksReadResults` (`ChecksSeeResults`) and `ShutdownWaitsForAll`
  (`ShutdownLeavesNothing`).

The point of the argument is why waiting for one command is enough: `Order` says at each place of the one call which
command is the newest in the queue (the one recorded, the one about to be recorded, or the one waited for), and the
queue completes in order, so when that one is not in flight nothing is (`NothingLeft`). `Alive` and `KeepsCopies` carry
the bridge and the copies through a dispatch. `Accounted` says that a command whose output is to be checked is in
flight, written, or one whose output is never written; after the wait only the last two are left, which is
`ChecksSeeResults`. The third kind is what the code does not check: of a non-contiguous output the GPU writes the copy.

`BonsaiServer_proofs` proves, for any set of requests and any number of lines, whatever backend, engine and client do:
`TypeCorrect`, `OneAnswer` (`AnswersOnce`), `AnswersAreWhole` (`WholeAnswer`) and `OnlyDroppedForCause`
(`DroppedForCause`). `AnswersOnce` needs `Sent`: what a client that is still there has been sent at each place of the
handler; once it has hung up its wire does not change any more. `Relayed` and `Answering` are the two shapes of an
unfinished answer, and the lemmas `Once…` say that each of their continuations is one answer. `WholeAnswer` covers every
way in which the handler returns; in one of them, a relay whose backend closed early, the answer is not whole, and
`EndedShort` shows that it then consists of the head and the lines relayed (`Truncated`).

`BonsaiEngine_proofs` proves, for any number of layers, cache size, vocabulary and drafter:

- `StreamerBounded` (`StreamerSpec => []ResidencyBudget`) and `EngineBounded` (`Spec => []ResidencyBudget`), from the
  table's invariant `Table`: moving a layer to the end permutes the table, and what is evicted makes room for one;
- `SawInvariant` (`Spec => []SawInv`), from which follow `RecurrentStatesAreExact` (`RecurrentSawContext`) and
  `CachesAreExact` (`AttentionSawContext`). `Passing` says for each layer whether the running pass has been through it:
  the layers behind have seen the whole text, those ahead the text without what is fed. `RowsAdvance` is the step for
  the caches, with its three cases of a row below the end, the last row, and a full cache.

- `StreamerCountsBytes` (`StreamerSpec => []AccountingExact`) and `EngineCountsBytes` (`Spec => []AccountingExact`), for
  layers of any sizes. `Account` adds to `Table` that the counter is the sum over the resident layers. That sum is a
  fold of the community modules, defined by recursion over sets; see below for how it is reasoned about.
  `BytesOfParts` (the sum over two disjoint sets is the sum of their sums) and `BytesBounded` are what each load needs;
- `StreamsStayWithinBudget` (`StreamWithinBudget`) and `EngineTypeCorrect` (`TypeOK`), from `Streaming`: while a stream
  is open it has room left and has not met a stop token, so whatever `Candidates` clips a draft to still fits.

`NGramDrafter_proofs` proves `ProposeFollowsLatestMatch`, for every history, window and limit: a draft is what followed
the latest earlier occurrence of the last tokens, and there is one whenever there is such an occurrence. Both engines'
proofs use it through its bounds only.

`SpecDecode_proofs` proves, for every model, window, burst length, context and set of calls, from `DecodeAssumption`
and `DrafterAssumption`:

- `DecodeInvariant` (`Spec => []DecodeInv`), from which follow `SpecTypeOK`, `SpecStaysWithinContext`,
  `SpecStatsExplainOutput` and `SpecNeverSlower`. None is inductive alone, as all speak of the loop between bursts: a
  burst in flight has put `InFlight` tokens into the caches that neither counter nor output know of. `Budget` says what
  room is left in output and context, `Lengths` how far the caches may be ahead of the counter, `Tally` how the
  statistics add up with a burst in flight. `VerifyEmits` bounds what a verified burst emits, with an EOS or without;
- `SpecLoopKeepsCachesExact` (`Spec => LoopKeepsCachesExact`), an action property: the premise that counter and caches
  agree is the code's own, and finding 2 is that it may fail. The proof computes, for each way a burst can end,
  which tokens the cut leaves (`VerifyBurstExact`), and that each emitted one is what the model predicts from the
  caches as they were when it was scored (`LosslessExtends`).

`CacheStack_proofs` proves, for any number of layers, growth slack, window and vocabulary, from `CacheAssumption` and
`StackAssumption`, for each kind of cache and with any number of failed passes and resets:

- `StackInvariant` (`Spec => []StackInv`), from which follow `StackTypeCorrect`, `AttentionSeesWrittenRows`
  (`NoUnwrittenRows`), `KeysAtTheirPositions` (`RowsAtTheirPositions`) and `NothingEvictedIsLost`
  (`StreamKeepsEverything`). `Lagging` is why `NoUnwrittenRows` holds although the counter lags behind: no layer of a
  cache that may be cut is ever behind it, failed passes included, and rows below an offset are written, so an offset set from the counter never reaches behind
  the written rows. `WindowOfWindow` is the step for the stream: to evict the oldest rows of a window that grew is to
  take the window of the whole stream. `LayersAgree` says that without failures all layers hold the same text;
- `StackIsTokenLog` (`Spec => ImplementsTokenLog`): every operation on the layers is one of `TokenLog`, or none. The log
  is the text of layer 1; that it grows by exactly the input is `HeldUpdated`, that a cut takes a prefix
  `HeldTruncated`.

Induction over data is out of the prover's reach as a rule of inference: the library's induction theorems take a
predicate as a parameter. Two facts here need it, that a non-empty set of naturals has a least element
(`LeastNatural`) and that the sum over a finite set satisfies its recursion (`BytesRecursion`). They are proved without
it: the library states that `<` is well-founded on the naturals and that a well-founded relation has minimal elements
in every non-empty set, so a counterexample of least size exists, and the step refutes it.

Only model-checked: the liveness properties (`EveryCallReturns`, `EveryWaitEnds`, `EveryStreamEnds`,
`EveryRequestEnds`, and the fairness of `ImplementsCausalAttention`), which are outside what the prover can do. All
other properties of the passing runs are theorems. The properties of the violation runs are false, and the
counterexamples TLC finds are what those runs are for.

## 5. Findings

1. `streaming_1m_engine.mm:319`: a failed or short `pread` is not reported; the call returns true over stale keys,
   although the documentation guarantees mathematical equivalence (`stream_silent_error`).
2. `src/engine/inference_engine.py:430`: a fully accepted burst does not advance `_sequence_length`; the next
   rejected burst cuts emitted tokens from the caches, so "lossless for greedy" fails (`spec_lossless`). A follow-up
   call checks the same stale counter against the context limit and can overrun it.
3. `core/bridge/m4_bridge.py:239`: shutdown releases the arrays in flight before it waits (`bridge_shutdown`).
4. `src/engine/modules.py:622`: `read_all_tokens`, `read_stream` and `fetch_out_of_core` return the RAM window, not
   the tokens on disk as their docstrings say (`kv_read_all`).

Behaviour worth knowing that no document of the repository rules out, visible in the models:

- two threads whose bridge calls overlap: the one that synchronizes first takes the wait away from the other
  (`Bridge` with `Serialized = FALSE` violates `SynchronizeDrains`); no caller has two threads;
- after a backend breaks off a stream, the client gets a second status line inside the body (`AnswersOnce` names this
  one exception);
- a backend that closes its stream before `[DONE]` is taken to have finished: the handler returns and the client is left
  with a truncated answer (`Truncated`, the exception of `WholeAnswer`; server.py:472-478);
- a client that sends no body or reads no answer, and a backend that sends a byte at least every 120 seconds, hold a
  handler's thread for as long as they like (server.py:443 and 472; the premise of `EveryRequestEnds`);
- the finiteness check of an output that is not contiguous reads the array the GPU never writes
  (m4_bridge.py:122-127, 177; no caller in the repository passes one), and that of a failed command an unwritten one;
- a client that hangs up while lines are relayed is taken for a failing backend, and the local engine is started;
- a forward pass that fails in a layer leaves the layers at different lengths; the counter is then behind all of them
  (`NoUnwrittenRows`), and only a reset restores the log;
- a reset of out-of-core caches on a full disk can itself fail, on the bytes a failed write left buffered: some layers
  are then empty, the others and `_sequence_length` as before (`ResetFails`; modules.py:772).

## 6. Plan

Done: streaming engine with its proofs, speculative decoding, bridge, KV caches, layer streamers, Bonsai engine and
server. What could follow:

1. theorems that say when the false properties do hold: that a call without an accepted burst is lossless from start
   to end, that arrays outlive the GPU's use when every shutdown follows a synchronize;
2. the order in which a transformer block dispatches to the bridge, synchronizes and lets MLX read the outputs;
3. the GGUF loader's reopen after a failed parse, aligned buffers under failing allocation, and the agreement of the
   three formulas for the size of quantized weights.

## 7. Not modelled, and why

Of the modelled files: tensor layouts, the argument checks of the caches (they raise before any state changes), `use_cache=False` (touches no cache), `_spec_caches_restore` (never called), the linear layers' choice between
GEMM and GEMV, parsing of weight files and `close` of the streamers, the HTML page of the server.

The GGUF loader, the aligned buffers, the quantization registry and the shader loader are sequential code with one
owner, a few assignments per operation; their hazards lie in bytes and paths rather than in orders of events, and the
repository's tests exercise them directly.

Compute kernels, the unified prefill engine, the transformer layer, tokenizer and dequantisation are functions on
numbers or text whose correctness is numerical; the repository compares them with references in its parity tests.
Metrology reads operating-system counters. Benchmarks, scripts and tests drive the components above and were read for
how they are used (for instance, no caller asks the engine for more tokens than it prepared, or for more than one
tile of speculative queries). Creation of Metal devices, queues, libraries and pipelines is taken to succeed except
where a dispatch can fail for lack of them.
