---------------------------- MODULE LayerStreamer ----------------------------
(***************************************************************************)
(* The weight streamers: at most `count` layers of a memory-mapped model   *)
(* are resident, the least recently used one makes room for the next.  The *)
(* same table is kept by gguf_layer_streamer.mm, weight_streamer.py and    *)
(* bonsai_weight_streamer.py.  Advice to the operating system is left out: *)
(* it changes no state of the program, and CPython has no posix_madvise.   *)
(***************************************************************************)
EXTENDS Integers, Sequences, FiniteSetsExt

CONSTANTS NumLayers, LayerBytes, SharedBytes,
          Counts      \* the values of resident_layer_count

\* A count of 0 is refused by weight_streamer.py and raised to 1 by the C++.
ASSUME StreamerAssumption ==
  /\ NumLayers \in Nat \ {0} /\ Counts \subseteq Nat \ {0}
  /\ LayerBytes \in [1 .. NumLayers -> Nat] /\ SharedBytes \in Nat

Layers == 1 .. NumLayers

VARIABLES count,     \* resident_layer_count
          resident,  \* _resident, least recently used first
          current,   \* _current, in bytes
          peak

streamer == <<count, resident, current, peak>>

ResidentSet == {resident[i] : i \in DOMAIN resident}
Bytes(layers) == MapThenSumSet(LAMBDA l : LayerBytes[l], layers)

StreamerInit ==
  /\ count \in Counts /\ resident = <<>>
  /\ current = SharedBytes /\ peak = SharedBytes

\* move_to_end
ToEnd(l) ==
  LET at == CHOOSE i \in DOMAIN resident : resident[i] = l
  IN [i \in DOMAIN resident |-> IF i < at THEN resident[i]
                                ELSE IF i = Len(resident) THEN l ELSE resident[i + 1]]

\* Fault: eviction waits until there are too many.
NumEvictedLate == IF Len(resident) > count THEN Len(resident) - count ELSE 0

\* How many of the oldest layers go, so that there is room for one more.
NumEvicted == IF Len(resident) >= count THEN Len(resident) - count + 1 ELSE 0
Evicted == {resident[i] : i \in 1 .. NumEvicted}
Kept == SubSeq(resident, NumEvicted + 1, Len(resident))

Touch(l) ==
  /\ l \in ResidentSet /\ resident' = ToEnd(l)
  /\ UNCHANGED <<count, current, peak>>

\* Fault: what is evicted stays in the byte count.
LoadUncounted(l) ==
  /\ l \notin ResidentSet /\ resident' = Append(Kept, l)
  /\ current' = current + LayerBytes[l]
  /\ peak' = IF current' > peak THEN current' ELSE peak
  /\ UNCHANGED count

Load(l) ==
  /\ l \notin ResidentSet /\ resident' = Append(Kept, l)
  /\ current' = current - Bytes(Evicted) + LayerBytes[l]
  /\ peak' = IF current' > peak THEN current' ELSE peak
  /\ UNCHANGED count

AcquireLayer(l) == Touch(l) \/ Load(l)

\* A client that takes the layers in any order.
StreamerNext == \E l \in Layers : AcquireLayer(l)
StreamerSpec == StreamerInit /\ [][StreamerNext]_streamer

-----------------------------------------------------------------------------
StreamerTypeOK ==
  /\ count \in Counts /\ resident \in Seq(Layers)
  /\ current \in Int /\ peak \in Int

\* Never more layers than allowed, even while one is replaced, and none twice:
\* a duplicate would be evicted while it still counts as resident.
ResidencyBudget ==
  /\ Len(resident) <= count
  /\ \A i, j \in DOMAIN resident : resident[i] = resident[j] => i = j

\* The byte count that the telemetry prints is what is resident, through any
\* number of evictions; the peak never exceeds what `count` layers can take.
AccountingExact ==
  /\ current = SharedBytes + Bytes(ResidentSet)
  /\ current <= peak
  /\ peak <= SharedBytes + count * Max({LayerBytes[l] : l \in Layers})
=============================================================================
