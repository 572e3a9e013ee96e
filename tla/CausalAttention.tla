-------------------------- MODULE CausalAttention --------------------------
(***************************************************************************)
(* What a caller of the streaming engine may rely on, with no slots, no    *)
(* I/O queue and no GPU: a call over `total` tokens answers the queries    *)
(* first .. total-1, and the answer of query q is the attention over the   *)
(* keys 0 .. q, every one of them exactly once.  An answer is represented  *)
(* by how often each key contributed to it.                                *)
(***************************************************************************)
EXTENDS Integers

CONSTANTS Tokens,   \* the token positions of the model, 0 .. n
          Calls     \* the calls a client makes

VARIABLES status,   \* "ready", "running" or "closed"
          asked,    \* the call being served, or last served
          answer    \* the answers of the last call that returned

vars == <<status, asked, answer>>

Attended(q) == [t \in Tokens |-> IF t <= q THEN 1 ELSE 0]
Answers(call) == [q \in call.first .. call.total - 1 |-> Attended(q)]
NoAnswer == [q \in {} |-> Attended(0)]

Init == status = "ready" /\ asked \in Calls /\ answer = NoAnswer

Call(call) ==
  /\ status = "ready"
  /\ status' = "running" /\ asked' = call /\ answer' = NoAnswer

Return ==
  /\ status = "running"
  /\ status' = "ready" /\ answer' = Answers(asked) /\ UNCHANGED asked

Close == status = "ready" /\ status' = "closed" /\ UNCHANGED <<asked, answer>>

Next == (\E call \in Calls : Call(call)) \/ Return \/ Close

Spec == Init /\ [][Next]_vars /\ WF_vars(Return)
=============================================================================
