------------------------- MODULE ClassifiedRequest -------------------------
(***************************************************************************)
(* The handler side of handleClassified (V0.2/proxy.go): it races the      *)
(* cycle's goroutine (RequestCycle, extended here) against the keepalive   *)
(* grace period, may commit SSE headers and write heartbeat chunks before  *)
(* the outcome is known, and turns the classified result into one reply,   *)
(* one UIEvent and the request's retry-log lines (finishClassifiedRequest, *)
(* writeResponse, streamChatSSE).                                          *)
(***************************************************************************)
EXTENDS RequestCycle

VARIABLES
  hpc,          \* the handler: "grace", "ticking" or "returned"
  headersSent,
  wire,         \* what was written: "headers", "heartbeat", "reply" (repeats merged)
  reply,        \* the complete reply, once written
  logged        \* the retry-log lines of this request

hvars == <<hpc, headersSent, wire, reply, logged>>
allVars == <<vars, hvars>>

NoReply == [form |-> "none"]

\* Heartbeats are merged: the client cannot tell how many there were.
Beaten == IF wire[Len(wire)] = "heartbeat" THEN wire ELSE Append(wire, "heartbeat")

HInit ==
  /\ Init
  /\ hpc = "grace" /\ headersSent = FALSE /\ wire = <<>>
  /\ reply = NoReply /\ logged = {}

\* A wrong CycleRuns: resultCh without a buffer needs a handler that still listens.
CycleRunsUnbuffered ==
  /\ CycleStep /\ UNCHANGED hvars
  /\ result' # NoResult => hpc # "returned"

\* The cycle runs beside the handler, whatever the handler has done by now.
CycleRuns == CycleStep /\ UNCHANGED hvars

PanelToggles == AlertToggled /\ UNCHANGED hvars
ClientLeaves == ~ctxDone /\ hpc # "returned" /\ ctxDone' = TRUE
                /\ UNCHANGED <<pc, req, alertOn, doomed, locals, events, sent, result, hvars>>

\* A wrong AwaitsStream: headers for clients that did not ask for a stream.
AnyChat == req.kind = "chat"

\* Only a streaming chat client can be given headers and heartbeats.
AwaitsStream == req.kind = "chat" /\ req.stream

\* keepaliveGracePeriod is over; the select may take this branch although the
\* result is there.
GraceExpires ==
  /\ hpc = "grace"
  /\ hpc' = "ticking"
  /\ IF AwaitsStream
       THEN headersSent' = TRUE /\ wire' = Append(wire, "headers")
       ELSE UNCHANGED <<headersSent, wire>>
  /\ UNCHANGED <<vars, reply, logged>>

Heartbeat ==
  /\ hpc = "ticking" /\ headersSent
  /\ wire' = Beaten
  /\ UNCHANGED <<vars, hpc, headersSent, reply, logged>>

\* writeHeartbeatChunk fails: the client has gone.  The handler returns, net/http
\* cancels r.Context(), and the cycle is left to end by itself.
HeartbeatFails ==
  /\ hpc = "ticking" /\ headersSent
  /\ hpc' = "returned"
  /\ ctxDone' = TRUE
  /\ UNCHANGED <<pc, req, alertOn, doomed, locals, events, sent, result,
                 headersSent, wire, reply, logged>>

\* The handler receives a result of kind t and returns.
Receives(t) == hpc \in {"grace", "ticking"} /\ result.t = t /\ hpc' = "returned"

FinishGone ==
  /\ Receives("gone")
  /\ UNCHANGED <<vars, headersSent, wire, reply, logged>>

\* An error text as the one content of an event stream that ends with "stop".
ErrorStream == [form |-> "sse", status |-> "ok", body |-> "error_text",
                text |-> <<>>, finish |-> "stop", tools |-> <<>>]

FinishFatal ==
  /\ Receives("fatal")
  /\ reply' = IF headersSent THEN ErrorStream
              ELSE [form |-> "plain", status |-> "bad_gateway", body |-> "error_text",
                    text |-> <<>>, finish |-> "", tools |-> <<>>]
  /\ wire' = Append(wire, "reply")
  /\ UNCHANGED <<vars, headersSent, logged>>

\* The retry-log lines of an answer: its trajectory if anything was adjusted, its
\* throughput if it counts as clean.
LogLines(r) ==
  (IF r.adjustments = <<>> THEN {}
   ELSE {[line |-> "trajectory", resolved |-> r.streamable /\ r.issue = "none"]})
  \cup
  (IF req.kind = "chat" /\ r.streamable /\ r.retryCount = 0 /\ r.tokens > 0
   THEN {[line |-> "throughput"]} ELSE {})

\* A wrong Streamed: the tool calls are left out.
StreamedTextOnly(r, st) ==
  [form |-> "sse", status |-> st, body |-> "answer", text |-> r.text,
   finish |-> IF r.finish = "" THEN "stop" ELSE r.finish, tools |-> <<>>]

Streamed(r, st) ==
  [form |-> "sse", status |-> st, body |-> "answer", text |-> r.text,
   finish |-> IF r.finish = "" THEN "stop" ELSE r.finish, tools |-> r.tools]

\* A wrong ReplyTo: whatever came back goes into a stream if one was asked for.
ReplyToStreamAlways(r) ==
  IF req.stream
  THEN Streamed(r, IF headersSent THEN "ok" ELSE r.status)
  ELSE [form |-> "plain", status |-> r.status, body |-> r.bytes,
        text |-> r.text, finish |-> r.finish, tools |-> r.tools]

\* streamChatSSE, streamCompletionSSE or a plain body; only an error shows as
\* text once the headers are out.
ReplyTo(r) ==
  IF headersSent
  THEN IF r.streamable THEN Streamed(r, "ok") ELSE ErrorStream
  ELSE IF req.stream /\ r.streamable THEN Streamed(r, r.status)
  ELSE [form |-> "plain", status |-> r.status, body |-> r.bytes,
        text |-> r.text, finish |-> r.finish, tools |-> r.tools]

FinishAnswer ==
  /\ Receives("answer")
  /\ logged' = LogLines(result)
  /\ events' = events + 1
  /\ reply' = ReplyTo(result)
  /\ wire' = Append(wire, "reply")
  /\ UNCHANGED <<pc, req, alertOn, ctxDone, doomed, locals, sent, result, headersSent>>

HandlerReturned == hpc = "returned" /\ pc = "done" /\ UNCHANGED allVars

Finish == FinishGone \/ FinishFatal \/ FinishAnswer

HNext ==
  \/ CycleRuns \/ PanelToggles \/ ClientLeaves
  \/ GraceExpires \/ Heartbeat \/ HeartbeatFails
  \/ FinishGone \/ FinishFatal \/ FinishAnswer
  \/ HandlerReturned

HSpec ==
  /\ HInit /\ [][HNext]_allVars
  /\ WF_allVars(CycleRuns) /\ WF_allVars(Finish)
-----------------------------------------------------------------------------
\* The promise of ClientConnection, as the connection's state shows it.
Client == INSTANCE ClientConnection WITH
  phase  <- IF reply # NoReply THEN "replied"
            ELSE IF hpc = "returned" THEN "abandoned"
            ELSE IF headersSent THEN "streaming" ELSE "waiting",
  asked  <- req.stream,
  status <- IF reply # NoReply THEN reply.status
            ELSE IF headersSent THEN "ok" ELSE "none",
  format <- IF reply # NoReply THEN reply.form
            ELSE IF headersSent THEN "sse" ELSE "none",
  lost   <- ctxDone

\* Every request keeps the promise of ClientConnection, liveness included: a client
\* that stays gets exactly one reply, a stream only if it asked for one, and never
\* a second status or format once headers are out.
KeepsPromise == Client!Spec

\* A request whose only upstream call was rejected reports just that: the upstream's
\* own status and body if no headers are out, an error text on the stream if they are
\* (TestUpstreamErrorNeverWrappedInFakeStream, TestKeepaliveSlowPathSurfacesErrorAsSSEContent).
FirstRejectionReported ==
  (\E c \in sent : sent = {c} /\ c.t = "rejected") /\ reply # NoReply =>
    IF headersSent THEN reply = ErrorStream
    ELSE reply.form = "plain" /\ reply.status = "error" /\ reply.body = "upstream"

\* What the client reads is what the cycle delivered: the text, tool calls and finish
\* of a streamable result reach a streaming client unchanged, on either side of the
\* grace period, and a client that did not ask to stream gets the JSON body.
ReplyCarriesResult ==
  Answered /\ result.streamable /\ reply # NoReply =>
    IF req.stream
    THEN /\ reply.form = "sse" /\ reply.text = result.text /\ reply.tools = result.tools
         /\ result.finish # "" => reply.finish = result.finish
    ELSE reply.form = "plain" /\ reply.body = "chat_json" /\ reply.text = result.text

\* The cycle ends whatever becomes of the handler: no goroutine of an abandoned
\* request is left blocked on its result.
NoGoroutineLeak == hpc = "returned" ~> pc = "done"
=============================================================================
