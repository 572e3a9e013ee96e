------------------------------ MODULE TokenLog ------------------------------
(***************************************************************************)
(* What the KV caches of a model promise to the engine: one log of the     *)
(* tokens it was given.  A forward pass appends its input, a rejected      *)
(* burst cuts the log, a reset clears it.  A forward pass that fails in    *)
(* some layer breaks the promise, and only a reset restores it.            *)
(***************************************************************************)
EXTENDS Naturals, Sequences

VARIABLES log,
          input,   \* what the last forward pass was given
          sound

LogInit == log = <<>> /\ sound = TRUE

Extend == sound /\ sound' /\ log' = log \o input'
Cut == /\ sound /\ sound' /\ input' = input
       /\ \E len \in 0 .. Len(log) : log' = SubSeq(log, 1, len)
Tear == ~sound'
Clear == log' = <<>> /\ sound'

LogSpec == LogInit /\ [][Extend \/ Cut \/ Tear \/ Clear]_<<log, sound>>
=============================================================================
