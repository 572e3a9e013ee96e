---------------------------- MODULE BonsaiServer ----------------------------
(***************************************************************************)
(* server.py: the life of one HTTP request.  A chat completion is relayed  *)
(* from the Metal backend; whatever goes wrong there is answered by the    *)
(* local engine, or by an echo when the server has none.  Each request has *)
(* a thread and a connection of its own (HTTP/1.0: one request for each),  *)
(* so one request is the whole system as long as no engine is shared.      *)
(* A request begins here with its headers read.                            *)
(***************************************************************************)
EXTENDS Naturals, Sequences

CONSTANTS Requests,   \* [method, known, auth, length, json, fields, messages, stream]
          MaxLines    \* bound: lines relayed, or deltas written, for a request

Known == {"known", "auth", "length", "json", "fields", "messages", "stream"}
ASSUME RequestAssumption ==
  /\ \A r \in Requests : /\ r.method \in {"GET", "POST", "OPTIONS"}
                         /\ \A f \in Known : r[f] \in BOOLEAN
  /\ MaxLines \in Nat

VARIABLES req,
          engine,   \* is the server given an engine? run_server gives none
          pc,
          client,   \* "stalled": neither sends nor reads; "gone"
          backend,  \* its body: nothing new, unread data, at its end; "left"
          wire      \* what the client was sent: status lines, lines, bodies

vars == <<req, engine, pc, client, backend, wire>>

Statuses == {"200", "204", "400", "401", "404"}
Ends == {"204", "body", "backend_done", "local_done"}
Items == Statuses \cup Ends \cup {"backend_line", "delta"}

There == client # "gone"
Over == pc \in {"done", "dropped"}

Init ==
  /\ req \in Requests /\ engine \in BOOLEAN
  /\ pc = "dispatch" /\ client = "ready" /\ backend = "quiet" /\ wire = <<>>

Goto(l) == pc' = l /\ UNCHANGED <<req, engine, client, wire>>

\* Writes, and goes on at `next`.  The socket has no timeout: a write waits for
\* a client that is stalled.  A write to a client that is gone is lost or
\* raises, which leads to `raised`.
Send(items, next, raised) ==
  /\ client # "stalled"
  /\ IF There THEN wire' = wire \o items /\ pc' = next
              ELSE wire' = wire /\ pc' \in {next, raised}
  /\ UNCHANGED <<req, engine, client>>

\* _send_json, send_error or the page: a status line and a body.
Answer(status) == Send(<<status, "body">>, "done", "dropped")

-----------------------------------------------------------------------------
(* The other sides: nothing obliges them to do anything.                   *)

Client(from, to) ==
  /\ ~Over /\ client \in from /\ client' = to
  /\ UNCHANGED <<req, engine, pc, backend, wire>>

Stall == Client({"ready"}, "stalled")
Resume == Client({"stalled"}, "ready")
Hangup == Client({"ready", "stalled"}, "gone")

Backend(to) ==
  /\ pc \in {"head", "relay", "read"} /\ backend = "quiet" /\ backend' = to
  /\ UNCHANGED <<req, engine, pc, client, wire>>

BackendSends == Backend("data")

\* It closes the connection, or has sent the length it announced.
BackendCloses == Backend("ended")

-----------------------------------------------------------------------------
(* do_OPTIONS, do_GET, and do_POST up to the proxy.                        *)

Options ==
  /\ pc = "dispatch" /\ req.method = "OPTIONS" /\ Send(<<"204">>, "done", "dropped")
  /\ UNCHANGED backend

Get ==
  /\ pc = "dispatch" /\ req.method = "GET"
  /\ Answer(IF req.known THEN "200" ELSE "404") /\ UNCHANGED backend

Post == pc = "dispatch" /\ req.method = "POST"

Refuse ==
  /\ Post /\ ~(req.known /\ req.auth)
  /\ Answer(IF req.known THEN "401" ELSE "404") /\ UNCHANGED backend

\* A length that is no number raises, before anything is read.
ReadLength ==
  /\ Post /\ req.known /\ req.auth
  /\ Goto(IF req.length THEN "body" ELSE "dropped") /\ UNCHANGED backend

\* A body that is no JSON, or is cut short by a client that goes away.
Malformed ==
  /\ pc = "body" /\ (req.json => ~There)
  /\ Answer("400") /\ UNCHANGED backend

\* The read has no timeout.  A field of the wrong type raises where nothing
\* catches it.
Accept ==
  /\ pc = "body" /\ client # "stalled" /\ req.json
  /\ Goto(IF req.fields THEN "connect" ELSE "dropped") /\ UNCHANGED backend

-----------------------------------------------------------------------------
(* The proxy.  Any exception, of the backend or of a write to the client,  *)
(* ends in the same handler and goes on with the local fallback; the       *)
(* connection to the backend is then closed.  The head of the backend's    *)
(* response is taken in one step.                                          *)

Connect ==
  /\ pc = "connect" /\ UNCHANGED backend
  /\ \/ Goto("fallback")
     \/ Goto(IF req.stream THEN "head" ELSE "read")

Leave == backend' = "left"

RelayHead ==
  /\ pc = "head" /\ Send(<<"200">>, "relay", "fallback")
  /\ IF pc' = "relay" THEN UNCHANGED backend ELSE Leave

\* Lines behind the first MaxLines are relayed too, and no longer recorded.
RelayLine ==
  /\ pc = "relay" /\ backend = "data"
  /\ Send(IF Len(wire) <= MaxLines THEN <<"backend_line">> ELSE <<>>, "relay", "fallback")
  /\ IF pc' = "relay" THEN backend' = "quiet" ELSE Leave

\* Fault: the relay goes on after [DONE].
RelayPastDone ==
  /\ pc = "relay" /\ backend = "data" /\ Len(wire) <= MaxLines
  /\ Send(<<"backend_done">>, "relay", "fallback") /\ backend' = "quiet"

RelayDone ==
  /\ pc = "relay" /\ backend = "data"
  /\ Send(<<"backend_done">>, "done", "fallback") /\ Leave

\* The stream ends without [DONE]: the loop is over and the handler returns.
BackendEnds == pc = "relay" /\ backend = "ended" /\ Goto("done") /\ UNCHANGED backend

\* Fault: the backend is tried again.
BackendBreaksRetried ==
  pc \in {"relay", "read"} /\ backend # "ended" /\ Goto("connect") /\ backend' = "quiet"

\* Fault: only a failure to connect is caught.
BackendBreaksUncaught ==
  pc \in {"relay", "read"} /\ backend # "ended" /\ Goto("dropped") /\ Leave

\* A reset, a body broken off (which a stream without length or chunks cannot
\* tell from its end), or 120 seconds without a byte.
BackendBreaks ==
  pc \in {"relay", "read"} /\ backend # "ended" /\ Goto("fallback") /\ Leave

ReadMore ==
  /\ pc = "read" /\ backend = "data" /\ backend' = "quiet"
  /\ UNCHANGED <<req, engine, pc, client, wire>>

RelayBody ==
  /\ pc = "read" /\ backend = "ended"
  /\ Send(<<"200", "body">>, "done", "fallback") /\ Leave

-----------------------------------------------------------------------------
(* The local fallback.                                                     *)

\* Fault: every request is answered by a stream.
FallbackStreams ==
  pc = "fallback" /\ Send(<<"200">>, "local", "dropped") /\ UNCHANGED backend

Fallback ==
  /\ pc = "fallback" /\ UNCHANGED backend
  /\ IF req.stream THEN Send(<<"200">>, "local", "dropped") ELSE Goto("reply")

\* The stream of the engine; a client that is gone stops it.
Delta ==
  /\ pc = "local" /\ engine /\ Len(wire) <= 2 * MaxLines
  /\ Send(<<"delta">>, "local", "finish") /\ UNCHANGED backend

\* Fault: the end of the engine's stream ends the answer.
StreamEndsBare == pc = "local" /\ engine /\ Goto("done") /\ UNCHANGED backend

StreamEnds == pc = "local" /\ engine /\ Goto("finish") /\ UNCHANGED backend

\* Without an engine, the last message of the user is echoed.
Echo ==
  /\ pc = "local" /\ ~engine /\ UNCHANGED backend
  /\ IF req.messages THEN Send(<<"delta">>, "finish", "dropped") ELSE Goto("dropped")

Finish == pc = "finish" /\ Send(<<"local_done">>, "done", "done") /\ UNCHANGED backend

Reply ==
  /\ pc = "reply" /\ UNCHANGED backend
  /\ IF engine \/ req.messages THEN Answer("200") ELSE Goto("dropped")

\* generate or generate_stream raises, and so does the handler.
EngineFails == pc \in {"local", "reply"} /\ engine /\ Goto("dropped") /\ UNCHANGED backend

Handler ==
  \/ Options \/ Get \/ Refuse \/ ReadLength \/ Malformed \/ Accept
  \/ Connect \/ RelayHead \/ RelayLine \/ RelayDone
  \/ BackendEnds \/ BackendBreaks \/ ReadMore \/ RelayBody
  \/ Fallback \/ Delta \/ StreamEnds \/ Echo \/ Finish \/ Reply \/ EngineFails

Others == Stall \/ Resume \/ Hangup \/ BackendSends \/ BackendCloses
Closed == Over /\ UNCHANGED vars
Next == Handler \/ Others \/ Closed

\* The handler's thread goes on wherever it does not wait for the client; its
\* wait for the backend ends after 120 seconds without a byte (BackendBreaks).
\* Nothing is assumed of client and backend.
Spec == Init /\ [][Next]_vars /\ WF_vars(Handler)

-----------------------------------------------------------------------------
\* The types, each place with the requests that can be there, and unread data
\* only where the handler will read it.
TypeOK ==
  /\ req \in Requests /\ engine \in BOOLEAN /\ wire \in Seq(Items)
  /\ client \in {"ready", "stalled", "gone"}
  /\ backend \in {"quiet", "data", "ended", "left"}
  /\ backend = "data" => pc \in {"head", "relay", "read"}
  /\ pc \in {"dispatch", "body", "done", "dropped", "connect", "fallback"}
            \cup (IF req.stream THEN {"head", "relay", "local", "finish"}
                                ELSE {"read", "reply"})

\* A client gets one response and nothing after its end.  The one exception:
\* when the backend breaks off a stream before its [DONE], the fallback writes
\* a second head, and a local answer, behind the lines already relayed.
AnswersOnce ==
  \A i \in 1 .. Len(wire) :
    /\ wire[i] \in Ends => i = Len(wire)
    /\ wire[i] \in Statuses /\ i > 1 =>
         /\ req.stream /\ wire[1] = "200"
         /\ \A j \in 2 .. i - 1 : wire[j] = "backend_line"
         /\ \A j \in i + 1 .. Len(wire) : wire[j] \in {"delta", "local_done"}

\* The relay of a stream that the backend itself ended before its [DONE].
Truncated ==
  /\ backend = "ended" /\ req.stream /\ wire # <<>> /\ wire[1] = "200"
  /\ \A i \in 2 .. Len(wire) : wire[i] = "backend_line"

\* A handler that returns has sent a client that is there the end of an answer,
\* whichever of backend, engine and echo it came from.  The one exception: a
\* backend that closes its stream early is taken to have finished, and the
\* client is left with the head and the lines relayed so far.
WholeAnswer ==
  pc = "done" /\ There => Truncated \/ (wire # <<>> /\ wire[Len(wire)] \in Ends)

\* The handler raises under a client that is there only for a length or fields
\* of the wrong type, before it has sent anything; or in the fallback, when the
\* engine raises or the messages are of the wrong type.  A backend that refuses,
\* is silent or breaks off is no such cause (one that closes early makes the
\* handler return: WholeAnswer).
DroppedForCause ==
  pc = "dropped" /\ There =>
    \/ wire = <<>> /\ (~req.length \/ ~req.fields)
    \/ engine \/ ~req.messages

\* Every request ends, whatever fails, once the client no longer holds up the
\* handler and the backend no longer sends: a client that is stalled blocks a
\* read or a write for ever, and a backend that sends a byte every 120 seconds
\* keeps the relay going for ever.
EveryRequestEnds == <>[](client # "stalled" /\ backend # "data") => <>Over
=============================================================================
