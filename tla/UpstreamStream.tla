--------------------------- MODULE UpstreamStream ---------------------------
(***************************************************************************)
(* One streaming upstream call: postUpstreamChatStreaming (V0.2/stream.go) *)
(* with its ticker goroutine before the headers, its reader goroutine and  *)
(* select loop after them, the inactivity timeout, the reasoning guard and *)
(* the progress events of the dashboard.                                   *)
(*                                                                         *)
(* Time is counted in progressEmitIntervals (250 ms).  What a line carried *)
(* is named by the line's position in the stream.                          *)
(***************************************************************************)
EXTENDS Integers, Sequences, FiniteSets

CONSTANTS
  IdleLimit,     \* p.idleTimeout in progressEmitIntervals, 0: none
  GuardEnabled,  \* [reasoning_guard] enabled
  Budget,        \* the body's thinking_budget_tokens, 0: absent
  Multiplier,    \* budget_multiplier, as <<numerator, denominator>>
  FallbackCap,   \* fallback_max_reasoning_tokens
  Lines,         \* the SSE lines considered, a subset of Line
  MaxLines       \* bound: the lines of one response

\* An SSE line by what it carries.  "noise" is a blank line, a comment or a data
\* line that is no JSON; a "tool" line is a fragment of one tool call.
Line == [k : {"noise", "content", "reasoning", "finish", "usage", "done"}]
        \cup [k : {"tool"}, index : Nat]

ASSUME StreamAssumption ==
  /\ IdleLimit \in Nat /\ GuardEnabled \in BOOLEAN
  /\ Budget \in Nat /\ FallbackCap \in Nat /\ MaxLines \in Nat
  /\ Multiplier \in Nat \X (Nat \ {0})
  /\ Lines \subseteq Line

\* reasoningChunkCap: how many reasoning chunks are tolerated, 0 for any number.
ReasoningChunkCap ==
  IF Budget > 0 THEN (Budget * Multiplier[1]) \div Multiplier[2] ELSE FallbackCap
ReasoningCap == IF GuardEnabled THEN ReasoningChunkCap ELSE 0

\* reasoningBudgetExceededFinishReason: the position of no line.
Sentinel == -1
NoLine == [k |-> "none"]
-----------------------------------------------------------------------------
VARIABLES
  phase,       \* "connecting", "joining" (headers are there, the first ticker
               \*  still runs), "errbody", "reading", "returned"
  ctxDone,     \* the caller's context is cancelled: the client is gone
  idleDone,    \* cancelIdle was called
  timedOut,    \* checkIdle found the limit passed
  guardTripped,
  quiet,       \* intervals since lastProgressAt, up to IdleLimit
  tickDue,     \* the ticker's channel holds a tick
  failed,      \* the upstream's connection broke
  reader,      \* the reader goroutine: "none", "scanning", "holding", "ended"
  held,        \* the line it offers on the unbuffered channel
  scanErr,     \* what scanDone holds: "none", "eof", "error"
  done,        \* "[DONE]" was seen
  got,         \* what the loop has accumulated
  shown,       \* the last ProgressEvent: tokens shown and Done
  finals,      \* the number of Done events so far
  result,      \* what the function returned
  status,      \* the response's status: "none", "ok", "error"
  said,        \* history: the lines the reader has taken off the wire
  silence,     \* history: intervals since the upstream last delivered anything
  longest      \* history: the longest such silence

time == <<quiet, tickDue, silence, longest>>
stream == <<reader, held, scanErr, done, got, said>>
cancels == <<ctxDone, idleDone, timedOut, guardTripped, failed>>
progress == <<shown, finals>>
vars == <<phase, cancels, time, stream, progress, result, status>>

\* idleCtx is a child of the caller's context.
Cancelled == ctxDone \/ idleDone

\* A wrong Touch: progress does not move the clock.
TouchNothing == UNCHANGED quiet

\* touchProgress
Touch == quiet' = 0

Emit(tokens, last) ==
  /\ shown' = [tokens |-> tokens, final |-> last]
  /\ finals' = IF last THEN finals + 1 ELSE finals

Indices == {l.index : l \in {m \in Lines : m.k = "tool"}}

Init ==
  /\ phase = "connecting"
  /\ ctxDone = FALSE /\ idleDone = FALSE /\ timedOut = FALSE
  /\ guardTripped = FALSE /\ failed = FALSE
  /\ quiet = 0 /\ tickDue = FALSE /\ silence = 0 /\ longest = 0
  /\ reader = "none" /\ held = NoLine /\ scanErr = "none" /\ done = FALSE
  /\ got = [content |-> <<>>, reasoning |-> <<>>, tools |-> [i \in Indices |-> <<>>],
            finish |-> 0, usage |-> 0, chunks |-> 0, reasoningChunks |-> 0]
  /\ said = <<>>
  /\ shown = [tokens |-> 0, final |-> FALSE] /\ finals = 0
  /\ result = "none" /\ status = "none"
-----------------------------------------------------------------------------
\* An interval passes and the ticker of the current phase is due.  The loops are
\* prompt: no interval passes while one of them has something to take.
IntervalPasses ==
  /\ phase \in {"connecting", "reading"}
  /\ ~tickDue /\ reader # "holding"
  /\ tickDue' = TRUE
  /\ quiet' = IF quiet < IdleLimit THEN quiet + 1 ELSE quiet
  /\ silence' = IF silence < IdleLimit THEN silence + 1 ELSE silence
  /\ longest' = IF longest < silence' THEN silence' ELSE longest
  /\ UNCHANGED <<phase, cancels, stream, progress, result, status>>

\* A wrong Silent: only the wait for the headers is timed.
SilentBeforeHeaders == IdleLimit > 0 /\ quiet >= IdleLimit /\ phase # "reading"

\* checkIdle's condition
Silent == IdleLimit > 0 /\ quiet >= IdleLimit

\* checkIdle and a progress event, in the waiting goroutine or in the read loop.
\* The select may take the tick although waitDone is closed or a line is offered.
TickRuns ==
  /\ tickDue /\ phase \in {"connecting", "joining", "reading"}
  /\ tickDue' = FALSE
  /\ IF Silent
       THEN timedOut' = TRUE /\ idleDone' = TRUE
       ELSE UNCHANGED <<timedOut, idleDone>>
  /\ Emit(got.chunks, FALSE)
  /\ UNCHANGED <<phase, ctxDone, guardTripped, failed, quiet, silence, longest,
                 stream, result, status>>

\* The response headers arrive; the waiting goroutine must stop first.
HeadersArrive(st) ==
  /\ phase = "connecting" /\ ~Cancelled /\ ~failed
  /\ phase' = "joining" /\ status' = st
  /\ silence' = 0
  /\ UNCHANGED <<cancels, quiet, tickDue, longest, stream, progress, result>>

\* <-tickerStopped, touchProgress, and on to the body.  The read loop has a new
\* ticker, a tick of the old one is dropped.
WaiterJoined ==
  /\ phase = "joining"
  /\ Touch /\ tickDue' = FALSE
  /\ IF status = "ok"
       THEN phase' = "reading" /\ reader' = "scanning"
       ELSE phase' = "errbody" /\ UNCHANGED reader
  /\ UNCHANGED <<cancels, silence, longest, held, scanErr, done, got, said,
                 progress, result, status>>

\* The deferred part of every return: the last event unless it is already out.
Return(r) ==
  /\ phase' = "returned" /\ result' = r
  /\ idleDone' = TRUE
  /\ IF r = "ok" THEN Emit(IF got.usage = 0 THEN got.chunks ELSE got.usage, TRUE)
     ELSE Emit(0, TRUE)

DoError == IF timedOut THEN "idle_timeout" ELSE "error"

\* p.client.Do fails: the timeout, the client's cancellation or the connection.
DoFails ==
  /\ phase = "connecting" /\ (Cancelled \/ failed)
  /\ Return(DoError)
  /\ UNCHANGED <<ctxDone, timedOut, guardTripped, failed, time, stream, status>>

\* io.ReadAll of a rejection's body; there is no ticker in this phase.
ErrorBodyRead ==
  /\ phase = "errbody" /\ ~failed
  /\ Return("rejected")
  /\ UNCHANGED <<ctxDone, timedOut, guardTripped, failed, time, stream, status>>

ErrorBodyBreaks ==
  /\ phase = "errbody" /\ (failed \/ Cancelled)
  /\ Return("error")
  /\ UNCHANGED <<ctxDone, timedOut, guardTripped, failed, time, stream, status>>
-----------------------------------------------------------------------------
\* The reader goroutine takes a line off the wire (or out of its buffer, which
\* works on after a cancellation) and offers it.
ReaderScans(l) ==
  /\ reader = "scanning" /\ Len(said) < MaxLines
  /\ reader' = "holding" /\ held' = l
  /\ said' = Append(said, l)
  /\ silence' = 0
  /\ UNCHANGED <<phase, cancels, quiet, tickDue, longest, scanErr, done, got,
                 progress, result, status>>

\* scanner.Scan returns FALSE: the body has ended, or reading it failed.
ReaderEnds ==
  /\ reader = "scanning"
  /\ reader' = "ended"
  /\ scanErr' \in (IF failed THEN {} ELSE {"eof"})
                   \cup (IF failed \/ Cancelled THEN {"error"} ELSE {})
  /\ UNCHANGED <<phase, cancels, time, held, done, got, said, progress, result, status>>

\* What the loop makes of a line: pos is its position in the stream.
Accumulate(l, pos) ==
  CASE l.k = "content"   -> [got EXCEPT !.content = Append(@, pos), !.chunks = @ + 1]
    [] l.k = "reasoning" -> [got EXCEPT !.reasoning = Append(@, pos), !.chunks = @ + 1,
                                        !.reasoningChunks = @ + 1]
    [] l.k = "tool"      -> [got EXCEPT !.tools[l.index] = Append(@, pos),
                                        !.chunks = @ + 1]
    [] l.k = "finish"    -> [got EXCEPT !.finish = pos]
    [] l.k = "usage"     -> [got EXCEPT !.usage = pos]
    [] OTHER             -> got

\* A wrong Draining: lines after "[DONE]" count.
DrainingNothing == FALSE

\* After "[DONE]" lines are taken, but only to let the reader finish.
Draining == done

PastCap(n) == ReasoningCap > 0 /\ n > ReasoningCap

\* The loop receives a line: any line is progress, and none counts after "[DONE]".
LineReceived ==
  /\ phase = "reading" /\ reader = "holding"
  /\ reader' = "scanning" /\ held' = NoLine
  /\ Touch
  /\ got' = IF Draining THEN got ELSE Accumulate(held, Len(said))
  /\ done' = (done \/ held.k = "done")
  /\ IF ~guardTripped /\ PastCap(got'.reasoningChunks)
       THEN guardTripped' = TRUE /\ idleDone' = TRUE
       ELSE UNCHANGED <<guardTripped, idleDone>>
  /\ UNCHANGED <<phase, ctxDone, timedOut, failed, tickDue, silence, longest,
                 scanErr, said, progress, result, status>>

\* A wrong StreamOver: "[DONE]" ends the loop without draining the reader.
StreamOverAtDone == reader = "ended" \/ done

\* The lines channel is closed.
StreamOver == reader = "ended"

\* A wrong Outcome: the guard's own abort counts as an error.
OutcomeUnguarded ==
  IF scanErr = "eof" THEN "ok" ELSE IF timedOut THEN "idle_timeout"
  ELSE IF ctxDone THEN "gone" ELSE "error"

\* How the stream ended, once the reader is done.
Outcome ==
  IF scanErr = "eof" \/ guardTripped THEN "ok" ELSE IF timedOut THEN "idle_timeout"
  ELSE IF ctxDone THEN "gone" ELSE "error"

StreamEnds ==
  /\ phase = "reading" /\ StreamOver
  /\ Return(Outcome)
  /\ UNCHANGED <<ctxDone, timedOut, guardTripped, failed, time, stream, status>>

\* The finish_reason returned: the guard's sentinel, or the upstream's last one.
FinishReason == IF guardTripped THEN Sentinel ELSE got.finish
-----------------------------------------------------------------------------
\* The client's connection goes away.
ClientDisconnects ==
  /\ phase # "returned" /\ ~ctxDone
  /\ ctxDone' = TRUE
  /\ UNCHANGED <<phase, idleDone, timedOut, guardTripped, failed, time, stream,
                 progress, result, status>>

\* The upstream's connection breaks (refused, reset, or a line beyond 1 MB).
UpstreamBreaks ==
  /\ phase # "returned" /\ ~failed /\ reader # "ended"
  /\ failed' = TRUE
  /\ UNCHANGED <<phase, ctxDone, idleDone, timedOut, guardTripped, time, stream,
                 progress, result, status>>

Returned == phase = "returned" /\ UNCHANGED vars

\* What the Go scheduler and the context package get done by themselves ...
Runs ==
  \/ WaiterJoined \/ DoFails \/ ErrorBodyBreaks \/ LineReceived \/ StreamEnds
  \/ (Cancelled \/ failed) /\ ReaderEnds
Ticks == IntervalPasses \/ TickRuns

\* ... and what is left to the upstream and the client.
Others ==
  \/ \E st \in {"ok", "error"} : HeadersArrive(st)
  \/ ErrorBodyRead \/ ReaderEnds
  \/ \E l \in Lines : ReaderScans(l)
  \/ ClientDisconnects \/ UpstreamBreaks

Next == Runs \/ IntervalPasses \/ TickRuns \/ Others \/ Returned

Spec == Init /\ [][Next]_vars

\* The clock ticks and the goroutines run; the upstream may fall silent for ever.
FairSpec ==
  /\ Spec
  /\ WF_vars(Runs) /\ WF_vars(IntervalPasses) /\ WF_vars(TickRuns)
-----------------------------------------------------------------------------
TypeOK ==
  /\ phase \in {"connecting", "joining", "errbody", "reading", "returned"}
  /\ {ctxDone, idleDone, timedOut, guardTripped, failed, tickDue, done} \subseteq BOOLEAN
  /\ {quiet, silence, longest} \subseteq 0..IdleLimit
  /\ reader \in {"none", "scanning", "holding", "ended"}
  /\ held \in Lines \cup {NoLine}
  /\ scanErr \in {"none", "eof", "error"}
  /\ said \in Seq(Lines) /\ Len(said) <= MaxLines
  /\ got \in [content : Seq(Nat), reasoning : Seq(Nat), tools : [Indices -> Seq(Nat)],
              finish : Nat, usage : Nat, chunks : Nat, reasoningChunks : Nat]
  /\ shown \in [tokens : Nat, final : BOOLEAN] /\ finals \in Nat
  /\ result \in {"none", "ok", "rejected", "idle_timeout", "gone", "error"}
  /\ status \in {"none", "ok", "error"}

\* The positions of the lines of kind k that count: those before "[DONE]".
Counted(k) == {i \in DOMAIN said : said[i].k = k /\ \A j \in 1..(i-1) : said[j].k # "done"}

\* seq holds exactly the positions S, in the order of the stream.
InOrder(seq, S) ==
  /\ {seq[i] : i \in DOMAIN seq} = S
  /\ \A i, j \in DOMAIN seq : i < j => seq[i] < seq[j]

\* n is the last position of S, 0 if there is none.
LastIs(n, S) == n \in (IF S = {} THEN {0} ELSE S) /\ \A i \in S : i <= n

\* A call that succeeds returns the whole stream up to "[DONE]", whatever ticks,
\* timeouts and cancellations came between its lines: all text and reasoning in
\* order, each tool call's fragments under its own index, the last finish_reason
\* and the last usage, and nothing that came after "[DONE]".
AnswerIsWholeStream ==
  result = "ok" =>
    /\ InOrder(got.content, Counted("content"))
    /\ InOrder(got.reasoning, Counted("reasoning"))
    /\ \A n \in Indices :
         InOrder(got.tools[n], {i \in Counted("tool") : said[i].index = n})
    /\ LastIs(got.finish, Counted("finish")) /\ LastIs(got.usage, Counted("usage"))

\* An error is put on the right party: the client only if its context is cancelled,
\* the idle timeout only if it fired, anything else only if the upstream broke or
\* the call was cancelled.  A stream nobody broke or cancelled is never an error.
BlameIsRight ==
  /\ result = "gone" => ctxDone /\ ~timedOut
  /\ result = "idle_timeout" => timedOut
  /\ result = "error" => failed \/ ctxDone \/ (status = "error" /\ timedOut)

\* "It only fires if no progress at all arrives for that long": the timeout needs
\* IdleLimit intervals in a row without headers or a line, blank lines included; a
\* slow but steady stream is never cut, and without a limit nothing is.
CutOffOnlyAfterSilence == timedOut => IdleLimit > 0 /\ longest >= IdleLimit

\* The function never returns while its reader goroutine could still block on a line
\* that nobody receives.
NoReaderLeft == phase = "returned" => reader \in {"none", "ended"}

\* With an idle timeout every call comes to an end, even if the upstream falls silent
\* before the headers or anywhere in the stream; the body of a rejection is the
\* exception: io.ReadAll waits for it without a limit (stream.go:284).
SilentStreamEnds == IdleLimit > 0 => <>(phase \in {"returned", "errbody"})
=============================================================================
