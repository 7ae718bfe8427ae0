------------------------ MODULE UpstreamStreamProofs ------------------------
(***************************************************************************)
(* Theorems about UpstreamStream, for responses of any length, any idle    *)
(* limit and any reasoning cap.                                            *)
(***************************************************************************)
EXTENDS UpstreamStream, TLAPS

Booleans ==
  /\ ctxDone \in BOOLEAN /\ idleDone \in BOOLEAN /\ timedOut \in BOOLEAN
  /\ guardTripped \in BOOLEAN /\ failed \in BOOLEAN /\ tickDue \in BOOLEAN /\ done \in BOOLEAN

Answers == [content : Seq(Nat), reasoning : Seq(Nat), tools : [Indices -> Seq(Nat)],
            finish : Nat, usage : Nat, chunks : Nat, reasoningChunks : Nat]

\* What an event shows is made of what was counted.
LEMMA EventTyped ==
  ASSUME NEW n \in Nat, NEW b \in BOOLEAN, finals \in Nat, Emit(n, b)
  PROVE  shown' \in [tokens : Nat, final : BOOLEAN] /\ finals' \in Nat
BY DEF Emit

\* b is the answer a with the position pos of the line l in the place of l's kind.
AddedTo(b, a, l, pos) ==
  /\ b \in Answers
  /\ b.content = IF l.k = "content" THEN Append(a.content, pos) ELSE a.content
  /\ b.reasoning = IF l.k = "reasoning" THEN Append(a.reasoning, pos) ELSE a.reasoning
  /\ \A n \in Indices :
       b.tools[n] = IF l.k = "tool" /\ l.index = n THEN Append(a.tools[n], pos) ELSE a.tools[n]
  /\ b.finish = IF l.k = "finish" THEN pos ELSE a.finish
  /\ b.usage = IF l.k = "usage" THEN pos ELSE a.usage

\* A line adds its position to the part of the answer that is its kind's, and only there.
LEMMA AccumulateAdds ==
  ASSUME NEW l \in Lines, NEW pos \in Nat, got \in Answers
  PROVE  AddedTo(Accumulate(l, pos), got, l, pos)
<1>. DEFINE b == Accumulate(l, pos)
<1>0. /\ got.chunks + 1 \in Nat /\ got.reasoningChunks + 1 \in Nat
      /\ got.tools \in [Indices -> Seq(Nat)] /\ Append(got.content, pos) \in Seq(Nat)
      /\ Append(got.reasoning, pos) \in Seq(Nat)
  BY DEF Answers
<1>1. l.k \in {"noise", "content", "reasoning", "finish", "usage", "done", "tool"}
  BY StreamAssumption DEF Line
<1>2. l.k = "tool" => l.index \in Indices
  BY DEF Indices
<1>3. CASE l.k = "content"
  <2>. DEFINE t == Append(got.content, pos)
              m == got.chunks + 1
  <2>1. Accumulate(l, pos) = [got EXCEPT !.content = t, !.chunks = m]
    BY <1>3 DEF Accumulate
  <2>2. t \in Seq(Nat) /\ m \in Nat
    BY <1>0
  <2>3. b.content = t
    <3>. HIDE DEF t, m
    <3>. QED BY <2>1, <2>2 DEF Answers
  <2>4. /\ b \in Answers /\ b.reasoning = got.reasoning
        /\ b.tools = got.tools /\ b.finish = got.finish /\ b.usage = got.usage
    <3>. HIDE DEF t, m
    <3>. QED BY <2>1, <2>2 DEF Answers
  <2>. QED BY <1>3, <2>3, <2>4 DEF AddedTo
<1>4. CASE l.k = "reasoning"
  <2>. DEFINE t == Append(got.reasoning, pos)
              m == got.chunks + 1
              r == got.reasoningChunks + 1
  <2>1. Accumulate(l, pos) = [got EXCEPT !.reasoning = t, !.chunks = m, !.reasoningChunks = r]
    BY <1>4 DEF Accumulate
  <2>2. t \in Seq(Nat) /\ m \in Nat /\ r \in Nat
    BY <1>0
  <2>3. b.reasoning = t
    <3>. HIDE DEF t, m, r
    <3>. QED BY <2>1, <2>2 DEF Answers
  <2>4. /\ b \in Answers /\ b.content = got.content
        /\ b.tools = got.tools /\ b.finish = got.finish /\ b.usage = got.usage
    <3>. HIDE DEF t, m, r
    <3>. QED BY <2>1, <2>2 DEF Answers
  <2>. QED BY <1>4, <2>3, <2>4 DEF AddedTo
<1>5. CASE l.k = "tool"
  <2>. DEFINE f == [got.tools EXCEPT ![l.index] = Append(got.tools[l.index], pos)]
              m == got.chunks + 1
  <2>1. Accumulate(l, pos) = [got EXCEPT !.tools = f, !.chunks = m]
    BY <1>5 DEF Accumulate
  <2>2. f \in [Indices -> Seq(Nat)] /\ m \in Nat
    BY <1>0, <1>2, <1>5
  <2>3. \A n \in Indices :
          f[n] = IF l.index = n THEN Append(got.tools[n], pos) ELSE got.tools[n]
    BY <1>0, <1>2, <1>5
  <2>4. b.tools = f
    <3>. HIDE DEF f, m
    <3>. QED BY <2>1, <2>2 DEF Answers
  <2>5. /\ b \in Answers /\ b.content = got.content
        /\ b.reasoning = got.reasoning /\ b.finish = got.finish /\ b.usage = got.usage
    <3>. HIDE DEF f, m
    <3>. QED BY <2>1, <2>2 DEF Answers
  <2>. HIDE DEF f
  <2>. QED BY <1>5, <2>3, <2>4, <2>5 DEF AddedTo
<1>6. CASE l.k = "finish"
  <2>1. Accumulate(l, pos) = [got EXCEPT !.finish = pos]
    BY <1>6 DEF Accumulate
  <2>. QED BY <1>6, <2>1 DEF AddedTo, Answers
<1>7. CASE l.k = "usage"
  <2>1. Accumulate(l, pos) = [got EXCEPT !.usage = pos]
    BY <1>7 DEF Accumulate
  <2>. QED BY <1>7, <2>1 DEF AddedTo, Answers
<1>8. CASE l.k \in {"noise", "done"}
  <2>1. Accumulate(l, pos) = got
    BY <1>8 DEF Accumulate
  <2>. QED BY <1>8, <2>1 DEF AddedTo
<1>. QED BY <1>1, <1>3, <1>4, <1>5, <1>6, <1>7, <1>8

\* The answer is empty before the first line.
LEMMA NothingGot ==
  [content |-> <<>>, reasoning |-> <<>>, tools |-> [i \in Indices |-> <<>>],
   finish |-> 0, usage |-> 0, chunks |-> 0, reasoningChunks |-> 0] \in Answers
BY DEF Answers
-----------------------------------------------------------------------------
\* The reader goroutine lives in the read loop only, and has ended when that returns.
ReaderInv ==
  /\ phase \in {"connecting", "joining", "errbody"} => reader = "none"
  /\ phase = "reading" => reader # "none"
  /\ phase = "returned" => reader \in {"none", "ended"}

\* There is no reader at first.
LEMMA ReaderInit == Init => ReaderInv
BY DEF Init, ReaderInv

\* The reader is started with the body and ended before the call returns.
LEMMA ReaderStep == TypeOK /\ ReaderInv /\ [Next]_vars => ReaderInv'
<1>. SUFFICES ASSUME TypeOK, ReaderInv, [Next]_vars PROVE ReaderInv'
  OBVIOUS
<1>0. /\ phase \in {"connecting", "joining", "errbody", "reading", "returned"}
      /\ reader \in {"none", "scanning", "holding", "ended"}
  BY DEF TypeOK
<1>1. CASE phase' = phase /\ reader' = reader
  BY <1>1 DEF ReaderInv
<1>2. CASE WaiterJoined
  BY <1>2 DEF WaiterJoined, ReaderInv
<1>3. CASE DoFails \/ ErrorBodyRead \/ ErrorBodyBreaks
  BY <1>3 DEF DoFails, ErrorBodyRead, ErrorBodyBreaks, Return, stream, ReaderInv
<1>4. CASE StreamEnds
  BY <1>4 DEF StreamEnds, StreamOver, Return, stream, ReaderInv
<1>5. CASE LineReceived
  BY <1>5 DEF LineReceived, ReaderInv
<1>6. CASE ReaderEnds
  BY <1>0, <1>6 DEF ReaderEnds, ReaderInv
<1>7. ASSUME NEW l \in Lines, ReaderScans(l) PROVE ReaderInv'
  BY <1>0, <1>7 DEF ReaderScans, ReaderInv
<1>8. ASSUME NEW st, HeadersArrive(st) PROVE ReaderInv'
  BY <1>8 DEF HeadersArrive, stream, ReaderInv
<1>. QED BY <1>1, <1>2, <1>3, <1>4, <1>5, <1>6, <1>7, <1>8
      DEF Next, Runs, Others, IntervalPasses, TickRuns, ClientDisconnects, UpstreamBreaks,
          Returned, vars, stream
-----------------------------------------------------------------------------
\* The initial state is well typed.
LEMMA TypeInit == Init => TypeOK
<1>. SUFFICES ASSUME Init PROVE TypeOK
  OBVIOUS
<1>1. {ctxDone, idleDone, timedOut, guardTripped, failed, tickDue, done} \subseteq BOOLEAN
  BY DEF Init
<1>2. {quiet, silence, longest} \subseteq 0..IdleLimit
  BY StreamAssumption DEF Init
<1>3. got \in Answers
  BY NothingGot DEF Init
<1>4. said \in Seq(Lines) /\ Len(said) <= MaxLines
  BY StreamAssumption DEF Init
<1>5. shown \in [tokens : Nat, final : BOOLEAN] /\ finals \in Nat
  BY DEF Init
<1>. QED BY <1>1, <1>2, <1>3, <1>4, <1>5 DEF Init, TypeOK, Answers

\* The parts of the type invariant.
Places ==
  /\ phase \in {"connecting", "joining", "errbody", "reading", "returned"}
  /\ reader \in {"none", "scanning", "holding", "ended"}
  /\ scanErr \in {"none", "eof", "error"}
  /\ result \in {"none", "ok", "rejected", "idle_timeout", "gone", "error"}
  /\ status \in {"none", "ok", "error"}
Clock == quiet \in 0..IdleLimit /\ silence \in 0..IdleLimit /\ longest \in 0..IdleLimit
Wire == held \in Lines \cup {NoLine} /\ said \in Seq(Lines) /\ Len(said) <= MaxLines
Events == shown \in [tokens : Nat, final : BOOLEAN] /\ finals \in Nat

\* The type invariant, taken apart by what moves together.
LEMMA TypeParts == TypeOK <=> Booleans /\ Places /\ Clock /\ Wire /\ Events /\ got \in Answers
BY DEF TypeOK, Booleans, Places, Clock, Wire, Events, Answers

TypeInv == Booleans /\ Places /\ Clock /\ Wire /\ Events /\ got \in Answers

\* The line offered is the last one taken off the wire.
HeldInv == reader = "holding" => Len(said) > 0 /\ held = said[Len(said)]

\* The flags stay flags.
LEMMA FlagsStep == Booleans /\ [Next]_vars => Booleans'
<1>. SUFFICES ASSUME Booleans, [Next]_vars PROVE Booleans'
  OBVIOUS
<1>1. tickDue' \in {tickDue, TRUE, FALSE} /\ ctxDone' \in {ctxDone, TRUE} /\ failed' \in {failed, TRUE}
  BY DEF Next, Runs, Others, IntervalPasses, TickRuns, ClientDisconnects, UpstreamBreaks,
         Returned, vars, cancels, time, WaiterJoined, DoFails, ErrorBodyRead, ErrorBodyBreaks,
         LineReceived, StreamEnds, ReaderEnds, HeadersArrive, ReaderScans
<1>2. /\ idleDone' \in {idleDone, TRUE} /\ timedOut' \in {timedOut, TRUE}
      /\ guardTripped' \in {guardTripped, TRUE}
  BY DEF Next, Runs, Others, IntervalPasses, TickRuns, ClientDisconnects, UpstreamBreaks,
         Returned, vars, cancels, time, WaiterJoined, DoFails, ErrorBodyRead, ErrorBodyBreaks,
         LineReceived, StreamEnds, ReaderEnds, HeadersArrive, ReaderScans, Return
<1>3. done' = done \/ done' = (done \/ held.k = "done")
  BY DEF Next, Runs, Others, IntervalPasses, TickRuns, ClientDisconnects, UpstreamBreaks,
         Returned, vars, stream, WaiterJoined, DoFails, ErrorBodyRead, ErrorBodyBreaks,
         LineReceived, StreamEnds, ReaderEnds, HeadersArrive, ReaderScans
<1>. QED BY <1>1, <1>2, <1>3 DEF Booleans

\* Reader and call are in one of their places.
LEMMA PlacesStep == Places /\ [Next]_vars => Places'
<1>. SUFFICES ASSUME Places, [Next]_vars PROVE Places'
  OBVIOUS
<1>1. phase' \in {phase, "joining", "errbody", "reading", "returned"}
      /\ reader' \in {reader, "scanning", "holding", "ended"}
  BY DEF Next, Runs, Others, IntervalPasses, TickRuns, ClientDisconnects, UpstreamBreaks,
         Returned, vars, stream, WaiterJoined, DoFails, ErrorBodyRead, ErrorBodyBreaks,
         LineReceived, StreamEnds, ReaderEnds, HeadersArrive, ReaderScans, Return
<1>2. scanErr' \in {scanErr, "eof", "error"}
      /\ status' \in {status, "ok", "error"}
  BY DEF Next, Runs, Others, IntervalPasses, TickRuns, ClientDisconnects, UpstreamBreaks,
         Returned, vars, stream, WaiterJoined, DoFails, ErrorBodyRead, ErrorBodyBreaks,
         LineReceived, StreamEnds, ReaderEnds, HeadersArrive, ReaderScans, Return
<1>3. result' \in {result, "ok", "rejected", "idle_timeout", "gone", "error"}
  BY DEF Next, Runs, Others, IntervalPasses, TickRuns, ClientDisconnects, UpstreamBreaks,
         Returned, vars, stream, WaiterJoined, DoFails, ErrorBodyRead, ErrorBodyBreaks,
         LineReceived, StreamEnds, ReaderEnds, HeadersArrive, ReaderScans, Return, DoError, Outcome
<1>. QED BY <1>1, <1>2, <1>3 DEF Places

\* The clock's counters stay in their bounds.
LEMMA ClockStep == Clock /\ [Next]_vars => Clock'
<1>. SUFFICES ASSUME Clock, [Next]_vars PROVE Clock'
  OBVIOUS
<1>1. CASE IntervalPasses
  BY <1>1, StreamAssumption DEF IntervalPasses, Clock
<1>2. CASE ~IntervalPasses
  <2>1. quiet' \in {quiet, 0} /\ silence' \in {silence, 0} /\ longest' = longest
    BY <1>2 DEF Next, Runs, Others, TickRuns, ClientDisconnects, UpstreamBreaks, Touch,
         Returned, vars, time, WaiterJoined, DoFails, ErrorBodyRead, ErrorBodyBreaks,
         LineReceived, StreamEnds, ReaderEnds, HeadersArrive, ReaderScans
  <2>. QED BY <2>1, StreamAssumption DEF Clock
<1>. QED BY <1>1, <1>2

\* A line taken off the wire becomes the last of the lines.
LEMMA LineSaid ==
  ASSUME said \in Seq(Lines), NEW l \in Lines
  PROVE  /\ Append(said, l) \in Seq(Lines) /\ Len(Append(said, l)) = Len(said) + 1
         /\ Append(said, l)[Len(said) + 1] = l
         /\ \A i \in 1..Len(said) : Append(said, l)[i] = said[i]
OBVIOUS

\* Only the reader takes lines, and only the read loop takes them from it.
LEMMA OthersLeaveTheWire ==
  [Next]_vars => \/ \E l \in Lines : ReaderScans(l)
                 \/ LineReceived
                 \/ /\ UNCHANGED <<held, said, got, done>>
                    /\ \/ reader' = reader
                       \/ reader = "scanning" /\ reader' = "ended"
                       \/ phase = "joining" /\ reader' = "scanning"
BY DEF Next, Runs, Others, IntervalPasses, TickRuns, ClientDisconnects, UpstreamBreaks,
       Returned, vars, stream, WaiterJoined, DoFails, ErrorBodyRead, ErrorBodyBreaks,
       StreamEnds, ReaderEnds, HeadersArrive

\* The line the reader holds is the last one said.
LEMMA WireStep == Wire /\ HeldInv /\ [Next]_vars => Wire' /\ HeldInv'
<1>. SUFFICES ASSUME Wire, HeldInv, [Next]_vars PROVE Wire' /\ HeldInv'
  OBVIOUS
<1>1. ASSUME NEW l \in Lines, ReaderScans(l) PROVE Wire' /\ HeldInv'
  <2>1. /\ Len(said) < MaxLines /\ held' = l /\ said' = Append(said, l)
    BY <1>1 DEF ReaderScans
  <2>2. Len(said) \in Nat /\ MaxLines \in Nat
    BY StreamAssumption DEF Wire
  <2>. QED BY <2>1, <2>2, LineSaid DEF Wire, HeldInv
<1>2. CASE LineReceived
  BY <1>2 DEF LineReceived, Wire, HeldInv
<1>3. CASE UNCHANGED <<held, said>> /\ (reader' = reader \/ reader' # "holding")
  BY <1>3 DEF Wire, HeldInv
<1>. QED BY <1>1, <1>2, <1>3, OthersLeaveTheWire

\* The read loop adds the line it receives, unless "[DONE]" was before it.
LEMMA GotStep ==
  ASSUME TypeInv, HeldInv, LineReceived
  PROVE  /\ held \in Lines /\ Len(said) \in Nat \ {0} /\ held = said[Len(said)]
         /\ got' = IF done THEN got ELSE Accumulate(held, Len(said))
         /\ got' \in Answers
         /\ ~done => AddedTo(got', got, held, Len(said))
<1>1. Len(said) > 0 /\ held = said[Len(said)]
  BY DEF LineReceived, HeldInv
<1>2. held \in Lines /\ Len(said) \in Nat \ {0}
  BY <1>1 DEF TypeInv, Wire
<1>3. got' = IF done THEN got ELSE Accumulate(held, Len(said))
  BY DEF LineReceived, Draining
<1>4. got \in Answers
  BY DEF TypeInv
<1>5. AddedTo(Accumulate(held, Len(said)), got, held, Len(said))
  BY <1>2, <1>4, AccumulateAdds
<1>6. got' \in Answers
  BY <1>3, <1>4, <1>5 DEF AddedTo
<1>. QED BY <1>1, <1>2, <1>3, <1>5, <1>6

\* Progress events count the tokens received.
LEMMA EventsStep == Events /\ got \in Answers /\ [Next]_vars => Events'
<1>. SUFFICES ASSUME Events, got \in Answers, [Next]_vars PROVE Events'
  OBVIOUS
<1>1. got.chunks \in Nat /\ got.usage \in Nat
  BY DEF Answers
<1>2. \/ UNCHANGED <<shown, finals>>
      \/ \E n \in Nat : Emit(n, FALSE)
      \/ \E n \in Nat : Emit(n, TRUE)
  <2>1. CASE TickRuns
    BY <1>1, <2>1 DEF TickRuns
  <2>2. CASE DoFails \/ ErrorBodyRead \/ ErrorBodyBreaks \/ StreamEnds
    <3>1. \E r : Return(r)
      BY <2>2 DEF DoFails, ErrorBodyRead, ErrorBodyBreaks, StreamEnds
    <3>. QED BY <1>1, <3>1 DEF Return
  <2>3. CASE UNCHANGED <<shown, finals>>
    BY <2>3
  <2>. QED BY <2>1, <2>2, <2>3 DEF Next, Runs, Others, IntervalPasses, ClientDisconnects,
         UpstreamBreaks, Returned, vars, progress, WaiterJoined, LineReceived, ReaderEnds,
         HeadersArrive, ReaderScans
<1>. QED BY <1>2, EventTyped DEF Events

\* The parts, together.
LEMMA TypeStep == TypeInv /\ HeldInv /\ [Next]_vars => TypeInv' /\ HeldInv'
<1>. SUFFICES ASSUME TypeInv, HeldInv, [Next]_vars PROVE TypeInv' /\ HeldInv'
  OBVIOUS
<1>1. got' \in Answers
  <2>1. CASE LineReceived
    BY <2>1, GotStep
  <2>2. CASE ~LineReceived
    <3>1. got' = got
      BY <2>2, OthersLeaveTheWire DEF ReaderScans
    <3>. QED BY <3>1 DEF TypeInv
  <2>. QED BY <2>1, <2>2
<1>. QED BY <1>1, FlagsStep, PlacesStep, ClockStep, WireStep, EventsStep DEF TypeInv

\* Every variable has its type: no more than MaxLines lines, no clock beyond the limit, and
\* only fragments of known tool calls.
THEOREM TypeCorrect == Spec => []TypeOK
<1>1. Init => TypeInv /\ HeldInv
  BY TypeInit, TypeParts DEF Init, HeldInv, TypeInv
<1>. QED BY <1>1, TypeStep, TypeParts, PTL DEF Spec, TypeInv

\* They hold in every reachable state.
LEMMA TypeInvariant == Spec => [](TypeInv /\ HeldInv)
<1>1. Init => TypeInv /\ HeldInv
  BY TypeInit, TypeParts DEF Init, HeldInv, TypeInv
<1>. QED BY <1>1, TypeStep, PTL DEF Spec

\* The function never returns while its reader goroutine could still block on a line that
\* nobody receives: on each of the paths out of it the reader has not been started or has
\* seen the end of the body.
THEOREM ReaderIsNotLeaked == Spec => []NoReaderLeft
<1>1. ReaderInv => NoReaderLeft
  BY DEF ReaderInv, NoReaderLeft
<1>. QED BY <1>1, ReaderInit, ReaderStep, TypeCorrect, PTL DEF Spec
-----------------------------------------------------------------------------
\* The clock of checkIdle is never ahead of the upstream's silence, except between a line or
\* the headers and the touch that follows them, and no interval passes then.
ClockInv ==
  /\ quiet <= longest
  /\ phase \in {"connecting", "reading"} /\ reader # "holding" => quiet <= silence
  /\ timedOut => IdleLimit > 0 /\ longest >= IdleLimit

\* Nobody has waited yet.
LEMMA ClockInit == Init => ClockInv
BY DEF Init, ClockInv

\* The idle timeout fires only when the clock has counted a silence of its length.
LEMMA SilenceStep == TypeInv /\ ClockInv /\ [Next]_vars => ClockInv'
<1>. SUFFICES ASSUME TypeInv, ClockInv, [Next]_vars PROVE ClockInv'
  OBVIOUS
<1>0. quiet \in Nat /\ silence \in Nat /\ longest \in Nat /\ IdleLimit \in Nat
  BY StreamAssumption DEF TypeInv, Clock
<1>1. CASE IntervalPasses
  <2>1. /\ quiet' = IF quiet < IdleLimit THEN quiet + 1 ELSE quiet
        /\ silence' = IF silence < IdleLimit THEN silence + 1 ELSE silence
        /\ longest' = IF longest < silence' THEN silence' ELSE longest
        /\ quiet <= silence /\ timedOut' = timedOut
    BY <1>1 DEF IntervalPasses, ClockInv, cancels
  <2>2. silence <= IdleLimit /\ quiet <= IdleLimit
    BY StreamAssumption DEF TypeInv, Clock
  <2>3. quiet' <= silence' /\ silence' <= longest' /\ longest <= longest'
        /\ {quiet', silence', longest'} \subseteq Nat
    BY <1>0, <2>1, <2>2
  <2>. QED BY <1>0, <2>1, <2>3 DEF ClockInv
<1>2. CASE TickRuns
  <2>1. /\ timedOut' => timedOut \/ (IdleLimit > 0 /\ quiet >= IdleLimit)
        /\ UNCHANGED <<phase, reader, quiet, silence, longest>>
    BY <1>2 DEF TickRuns, Silent, stream
  <2>. QED BY <1>0, <2>1 DEF ClockInv
<1>3. CASE WaiterJoined \/ LineReceived
  <2>1. quiet' = 0 /\ UNCHANGED <<silence, longest, timedOut>>
    BY <1>3 DEF WaiterJoined, LineReceived, Touch, cancels
  <2>. QED BY <1>0, <2>1 DEF ClockInv
<1>4. ASSUME NEW l \in Lines, ReaderScans(l) PROVE ClockInv'
  BY <1>0, <1>4 DEF ReaderScans, ClockInv, cancels
<1>5. ASSUME NEW st, HeadersArrive(st) PROVE ClockInv'
  BY <1>0, <1>5 DEF HeadersArrive, ClockInv, cancels
<1>6. CASE ReaderEnds
  BY <1>0, <1>6 DEF ReaderEnds, ClockInv, cancels, time
<1>7. CASE DoFails \/ ErrorBodyRead \/ ErrorBodyBreaks \/ StreamEnds
  <2>1. phase' = "returned" /\ UNCHANGED <<quiet, longest, timedOut>>
    BY <1>7 DEF DoFails, ErrorBodyRead, ErrorBodyBreaks, StreamEnds, Return, time
  <2>. QED BY <1>0, <2>1 DEF ClockInv
<1>8. CASE UNCHANGED <<phase, reader, quiet, silence, longest, timedOut>>
  BY <1>8 DEF ClockInv
<1>. QED BY <1>1, <1>2, <1>3, <1>4, <1>5, <1>6, <1>7, <1>8
      DEF Next, Runs, Others, ClientDisconnects, UpstreamBreaks, Returned, vars, stream, time,
          cancels

\* A slow but steady stream is never cut: the timeout fires only after IdleLimit intervals in
\* a row without headers and without a line, whatever the ticks and the select loop do in
\* between, and never without a limit.
THEOREM OnlySilenceIsCutOff == Spec => []CutOffOnlyAfterSilence
<1>1. ClockInv => CutOffOnlyAfterSilence
  BY DEF ClockInv, CutOffOnlyAfterSilence
<1>. QED BY <1>1, ClockInit, SilenceStep, TypeInvariant, PTL DEF Spec
-----------------------------------------------------------------------------
\* Who can have cancelled the call, by where it is; and a scan error has a cause.
BlameInv ==
  /\ result = "none" <=> phase # "returned"
  /\ phase # "returned" /\ idleDone => timedOut \/ guardTripped
  /\ phase \in {"connecting", "joining", "errbody"} => ~guardTripped
  /\ phase = "joining" => status # "none"
  /\ phase = "errbody" => status = "error"
  /\ reader = "ended" => scanErr # "none"
  /\ scanErr = "error" => failed \/ Cancelled
  /\ BlameIsRight

\* Nobody is to blame at first.
LEMMA BlameInit == Init => BlameInv
BY DEF Init, BlameInv, BlameIsRight

\* What ends the call is what the call's result names.
LEMMA BlameStep == TypeInv /\ ReaderInv /\ BlameInv /\ [Next]_vars => BlameInv'
<1>. SUFFICES ASSUME TypeInv, ReaderInv, BlameInv, [Next]_vars PROVE BlameInv'
  OBVIOUS
<1>0. /\ scanErr \in {"none", "eof", "error"}
      /\ phase \in {"connecting", "joining", "errbody", "reading", "returned"}
  BY DEF TypeInv, Places
<1>1. CASE DoFails
  <2>1. /\ phase = "connecting" /\ (ctxDone \/ idleDone \/ failed)
        /\ phase' = "returned" /\ result' = (IF timedOut THEN "idle_timeout" ELSE "error")
        /\ idleDone'
        /\ UNCHANGED <<ctxDone, timedOut, guardTripped, failed, reader, scanErr, status>>
    BY <1>1 DEF DoFails, Return, DoError, Cancelled, stream
  <2>. QED BY <2>1 DEF BlameInv, BlameIsRight, Cancelled
<1>2. CASE ErrorBodyRead
  BY <1>2 DEF ErrorBodyRead, Return, stream, BlameInv, BlameIsRight, Cancelled
<1>3. CASE ErrorBodyBreaks
  <2>1. /\ phase = "errbody" /\ (ctxDone \/ idleDone \/ failed)
        /\ phase' = "returned" /\ result' = "error" /\ idleDone'
        /\ UNCHANGED <<ctxDone, timedOut, guardTripped, failed, reader, scanErr, status>>
    BY <1>3 DEF ErrorBodyBreaks, Return, Cancelled, stream
  <2>. QED BY <2>1 DEF BlameInv, BlameIsRight, Cancelled
<1>4. CASE StreamEnds
  <2>1. /\ phase = "reading" /\ reader = "ended" /\ result' = Outcome
        /\ phase' = "returned" /\ idleDone'
        /\ UNCHANGED <<ctxDone, timedOut, guardTripped, failed, reader, scanErr, status>>
    BY <1>4 DEF StreamEnds, StreamOver, Return, stream
  <2>2. scanErr = "eof" \/ scanErr = "error"
    BY <1>0, <2>1 DEF BlameInv
  <2>3. result' \in {"ok", "idle_timeout", "gone", "error"}
        /\ (result' = "gone" => ctxDone /\ ~timedOut)
        /\ (result' = "idle_timeout" => timedOut)
        /\ (result' = "error" => scanErr = "error" /\ ~guardTripped /\ ~timedOut /\ ~ctxDone)
    BY <2>1, <2>2 DEF Outcome
  <2>. QED BY <2>1, <2>2, <2>3 DEF BlameInv, BlameIsRight, Cancelled
<1>5. CASE WaiterJoined
  BY <1>0, <1>5 DEF WaiterJoined, BlameInv, BlameIsRight, Cancelled, cancels, ReaderInv, TypeInv, Places
<1>6. CASE TickRuns
  BY <1>6 DEF TickRuns, BlameInv, BlameIsRight, Cancelled, stream
<1>7. CASE LineReceived
  BY <1>7 DEF LineReceived, BlameInv, BlameIsRight, Cancelled
<1>8. CASE ReaderEnds
  <2>1. /\ reader' = "ended" /\ scanErr' \in {"eof", "error"}
        /\ (scanErr' = "error" => failed \/ ctxDone \/ idleDone)
        /\ UNCHANGED <<phase, ctxDone, idleDone, timedOut, guardTripped, failed, result, status>>
    BY <1>8 DEF ReaderEnds, Cancelled, cancels
  <2>. QED BY <2>1 DEF BlameInv, BlameIsRight, Cancelled
<1>9. ASSUME NEW l \in Lines, ReaderScans(l) PROVE BlameInv'
  BY <1>9 DEF ReaderScans, BlameInv, BlameIsRight, Cancelled, cancels
<1>10. ASSUME NEW st \in {"ok", "error"}, HeadersArrive(st) PROVE BlameInv'
  BY <1>10 DEF HeadersArrive, BlameInv, BlameIsRight, Cancelled, cancels, stream
<1>11. CASE ClientDisconnects \/ UpstreamBreaks
  BY <1>11 DEF ClientDisconnects, UpstreamBreaks, BlameInv, BlameIsRight, Cancelled, stream
<1>12. CASE IntervalPasses \/ Returned \/ UNCHANGED vars
  BY <1>12 DEF IntervalPasses, Returned, vars, cancels, stream, BlameInv, BlameIsRight, Cancelled
<1>. QED BY <1>1, <1>2, <1>3, <1>4, <1>5, <1>6, <1>7, <1>8, <1>9, <1>10, <1>11, <1>12
      DEF Next, Runs, Others

\* Every error is put on the right party: on the client only if it went away, on the idle
\* timeout only if it fired, and a stream that nobody broke, cancelled or timed out is never
\* an error, in whatever order the cancellations reach the reader and the loop.
THEOREM BlameIsCorrect == Spec => []BlameIsRight
<1>1. BlameInv => BlameIsRight
  BY DEF BlameInv
<1>. QED BY <1>1, BlameInit, BlameStep, TypeInvariant, ReaderInit, ReaderStep, TypeCorrect, PTL DEF Spec
-----------------------------------------------------------------------------
\* A position behind all others goes to the end.
LEMMA InOrderGrows ==
  ASSUME NEW seq \in Seq(Nat), NEW S, InOrder(seq, S),
         NEW n \in Nat, \A i \in S : i < n
  PROVE  InOrder(Append(seq, n), S \union {n})
<1>. DEFINE new == Append(seq, n)
<1>1. /\ Len(seq) \in Nat /\ DOMAIN seq = 1..Len(seq) /\ DOMAIN new = 1..(Len(seq) + 1)
      /\ new[Len(seq) + 1] = n /\ \A i \in 1..Len(seq) : new[i] = seq[i]
  OBVIOUS
<1>2. S = {seq[i] : i \in DOMAIN seq} /\ \A i, j \in DOMAIN seq : i < j => seq[i] < seq[j]
  BY DEF InOrder
<1>. HIDE DEF new
<1>3. {new[i] : i \in DOMAIN new} = S \union {n}
  <2>1. ASSUME NEW i \in DOMAIN new PROVE new[i] \in S \union {n}
    BY <1>1, <1>2
  <2>2. ASSUME NEW v \in S \union {n} PROVE \E i \in DOMAIN new : new[i] = v
    BY <1>1, <1>2
  <2>. QED BY <2>1, <2>2
<1>4. ASSUME NEW i \in DOMAIN new, NEW j \in DOMAIN new, i < j PROVE new[i] < new[j]
  <2>1. CASE j = Len(seq) + 1
    <3>1. i \in 1..Len(seq) /\ new[i] = seq[i] /\ seq[i] \in S
      BY <1>1, <1>2, <1>4, <2>1
    <3>. QED BY <1>1, <2>1, <3>1
  <2>2. CASE j # Len(seq) + 1
    <3>1. i \in 1..Len(seq) /\ j \in 1..Len(seq)
      BY <1>1, <1>4, <2>2
    <3>. QED BY <1>1, <1>2, <1>4, <3>1
  <2>. QED BY <2>1, <2>2
<1>. QED BY <1>3, <1>4 DEF InOrder, new

\* A position behind all others is the last.
LEMMA LastIsNewest ==
  ASSUME NEW S \in SUBSET Nat, NEW n \in Nat, \A i \in S : i < n
  PROVE  LastIs(n, S \union {n})
BY DEF LastIs

\* The lines the read loop has received: all but the one on offer.
Received == IF reader = "holding" THEN Len(said) - 1 ELSE Len(said)

\* Those of kind k that count, and the fragments of one tool call among them.
Seen(k) == Counted(k) \intersect 1..Received
Fragments(n) == {i \in Seen("tool") : said[i].index = n}

\* What the loop has accumulated is what it has received up to "[DONE]".
AnswerInv ==
  /\ done <=> \E i \in 1..Received : said[i].k = "done"
  /\ InOrder(got.content, Seen("content")) /\ InOrder(got.reasoning, Seen("reasoning"))
  /\ \A n \in Indices : InOrder(got.tools[n], Fragments(n))
  /\ LastIs(got.finish, Seen("finish")) /\ LastIs(got.usage, Seen("usage"))
  /\ result = "ok" => reader = "ended"

\* Nothing has been said and nothing received at first.
LEMMA NothingReceived == Init => AnswerInv
<1>. SUFFICES ASSUME Init PROVE AnswerInv
  OBVIOUS
<1>1. Received = 0 /\ 1..Received = {} /\ result = "none" /\ done = FALSE
  BY DEF Init, Received
<1>2. /\ got.content = <<>> /\ got.reasoning = <<>> /\ \A n \in Indices : got.tools[n] = <<>>
      /\ got.finish = 0 /\ got.usage = 0
  BY DEF Init
<1>3. \A k : Seen(k) = {}
  BY <1>1 DEF Seen
<1>4. \A n : Fragments(n) = {}
  BY <1>3 DEF Fragments
<1>5. InOrder(<<>>, {}) /\ LastIs(0, {})
  BY DEF InOrder, LastIs
<1>6. ~\E i \in 1..Received : said[i].k = "done"
  BY <1>1
<1>. QED BY <1>1, <1>2, <1>3, <1>4, <1>5, <1>6 DEF AnswerInv

\* A line that is only taken off the wire has not been received: nothing changes.
LEMMA SameSeen ==
  ASSUME said \in Seq(Lines), Received' = Received, Received \in Nat, Received <= Len(said),
         said' = said \/ (\E l \in Lines : said' = Append(said, l))
  PROVE  /\ \A k : Seen(k)' = Seen(k)
         /\ \A n : Fragments(n)' = Fragments(n)
         /\ \A i \in 1..Received : said'[i] = said[i]
<1>1. /\ \A i \in 1..Len(said) : said'[i] = said[i]
      /\ DOMAIN said = 1..Len(said) /\ DOMAIN said \subseteq DOMAIN said'
      /\ Len(said) \in Nat
  BY LineSaid
<1>2. \A i \in 1..Received : i \in 1..Len(said) /\ 1..(i-1) \subseteq 1..Len(said)
  BY <1>1
<1>3. ASSUME NEW k PROVE Seen(k)' = Seen(k)
  <2>1. ASSUME NEW i \in 1..Received PROVE i \in Counted(k)' <=> i \in Counted(k)
    BY <1>1, <1>2 DEF Counted
  <2>. QED BY <2>1 DEF Seen
<1>4. ASSUME NEW n PROVE Fragments(n)' = Fragments(n)
  BY <1>1, <1>2, <1>3 DEF Fragments, Seen
<1>. QED BY <1>1, <1>2, <1>3, <1>4

\* The line received joins those of its kind, unless "[DONE]" was before it.
LEMMA SeenGrows ==
  ASSUME TypeInv, HeldInv, AnswerInv, LineReceived
  PROVE  /\ \A k : Seen(k)' = IF held.k = k /\ ~done THEN Seen(k) \union {Len(said)} ELSE Seen(k)
         /\ \A n : Fragments(n)' = IF held.k = "tool" /\ held.index = n /\ ~done
                                    THEN Fragments(n) \union {Len(said)} ELSE Fragments(n)
         /\ \A k : \A i \in Seen(k) : i < Len(said)
         /\ done' <=> \E i \in 1..Received' : said'[i].k = "done"
<1>1. /\ Len(said) \in Nat \ {0} /\ held = said[Len(said)] /\ DOMAIN said = 1..Len(said)
  BY GotStep DEF TypeInv, Wire
<1>2. /\ said' = said /\ Received = Len(said) - 1 /\ Received' = Len(said)
      /\ done' = (done \/ held.k = "done")
  BY DEF LineReceived, Received
<1>3. 1..Received' = (1..Received) \union {Len(said)} /\ Len(said) \notin 1..Received
      /\ 1..(Len(said) - 1) = 1..Received
  BY <1>1, <1>2
<1>4. \A k : Counted(k)' = Counted(k)
  BY <1>2 DEF Counted
<1>5. \A k : Len(said) \in Counted(k) <=> held.k = k /\ ~done
  <2>1. (\A j \in 1..Received : said[j].k # "done") <=> ~done
    BY DEF AnswerInv
  <2>2. \A k : Len(said) \in Counted(k)
          <=> said[Len(said)].k = k /\ \A j \in 1..(Len(said) - 1) : said[j].k # "done"
    BY <1>1 DEF Counted
  <2>. QED BY <1>1, <1>3, <2>1, <2>2
<1>6. \A k : Seen(k)' = IF held.k = k /\ ~done THEN Seen(k) \union {Len(said)} ELSE Seen(k)
  BY <1>3, <1>4, <1>5 DEF Seen
<1>7. \A n : Fragments(n)' = IF held.k = "tool" /\ held.index = n /\ ~done
                             THEN Fragments(n) \union {Len(said)} ELSE Fragments(n)
  BY <1>1, <1>2, <1>6 DEF Fragments
<1>8. \A k : \A i \in Seen(k) : i < Len(said)
  BY <1>1, <1>2 DEF Seen
<1>9. done' <=> \E i \in 1..Received' : said'[i].k = "done"
  BY <1>1, <1>2, <1>3 DEF AnswerInv
<1>. QED BY <1>6, <1>7, <1>8, <1>9

\* What has been received is what the lines up to here carry.
LEMMA AnswerStep == TypeInv /\ HeldInv /\ ReaderInv /\ AnswerInv /\ [Next]_vars => AnswerInv'
<1>. SUFFICES ASSUME TypeInv, HeldInv, ReaderInv, AnswerInv, [Next]_vars PROVE AnswerInv'
  OBVIOUS
<1>0. said \in Seq(Lines) /\ Len(said) \in Nat /\ got \in Answers
  BY DEF TypeInv, Wire
<1>1. result' = "ok" => reader' = "ended"
  <2>1. CASE StreamEnds
    BY <2>1 DEF StreamEnds, StreamOver, stream
  <2>2. CASE DoFails \/ ErrorBodyRead \/ ErrorBodyBreaks
    BY <2>2 DEF DoFails, ErrorBodyRead, ErrorBodyBreaks, Return, DoError
  <2>3. CASE result' = result /\ (reader = "ended" => reader' = "ended")
    BY <2>3 DEF AnswerInv
  <2>. QED BY <2>1, <2>2, <2>3 DEF Next, Runs, Others, IntervalPasses, TickRuns,
         ClientDisconnects, UpstreamBreaks, Returned, vars, stream, WaiterJoined, LineReceived,
         ReaderEnds, HeadersArrive, ReaderScans, ReaderInv
<1>2. CASE ~LineReceived
  <2>1. /\ UNCHANGED <<got, done>>
        /\ said' = said \/ (\E l \in Lines : said' = Append(said, l))
        /\ Received' = Received
    <3>1. ASSUME NEW l \in Lines, ReaderScans(l)
          PROVE  UNCHANGED <<got, done>> /\ said' = Append(said, l) /\ Received' = Received
      BY <1>0, <3>1, LineSaid DEF ReaderScans, Received
    <3>2. CASE UNCHANGED <<held, said, got, done>>
               /\ (\/ reader' = reader
                   \/ reader = "scanning" /\ reader' = "ended"
                   \/ phase = "joining" /\ reader' = "scanning")
      BY <3>2 DEF Received, ReaderInv
    <3>. QED BY <1>2, <3>1, <3>2, OthersLeaveTheWire
  <2>2. Received \in Nat /\ Received <= Len(said)
    BY <1>0 DEF HeldInv, Received
  <2>3. /\ \A k : Seen(k)' = Seen(k)
        /\ \A n : Fragments(n)' = Fragments(n)
        /\ \A i \in 1..Received : said'[i] = said[i]
    BY <1>0, <2>1, <2>2, SameSeen
  <2>. QED BY <1>1, <2>1, <2>3 DEF AnswerInv
<1>3. CASE LineReceived
  <2>1. Len(said) \in Nat \ {0}
    BY <1>3, GotStep
  <2>2. CASE done
    <3>1. got' = got
      BY <1>3, <2>2, GotStep
    <3>2. (\A k : Seen(k)' = Seen(k)) /\ (\A n : Fragments(n)' = Fragments(n))
      BY <1>3, <2>2, SeenGrows
    <3>. QED BY <1>1, <1>3, <3>1, <3>2, SeenGrows DEF AnswerInv
  <2>3. CASE ~done
    <3>1. AddedTo(got', got, held, Len(said))
      BY <1>3, <2>3, GotStep
    <3>2. \A k : Seen(k)' = IF held.k = k THEN Seen(k) \union {Len(said)} ELSE Seen(k)
      BY <1>3, <2>3, SeenGrows
    <3>3. \A n : Fragments(n)' = IF held.k = "tool" /\ held.index = n
                                 THEN Fragments(n) \union {Len(said)} ELSE Fragments(n)
      BY <1>3, <2>3, SeenGrows
    <3>4. \A k : \A i \in Seen(k) : i < Len(said)
      BY <1>3, SeenGrows
    <3>5. /\ got.content \in Seq(Nat) /\ got.reasoning \in Seq(Nat)
          /\ \A n \in Indices : got.tools[n] \in Seq(Nat)
      BY <1>0 DEF Answers
    <3>6. InOrder(got.content, Seen("content"))'
      <4>1. InOrder(got.content, Seen("content"))
        BY DEF AnswerInv
      <4>2. InOrder(Append(got.content, Len(said)), Seen("content") \union {Len(said)})
        BY <2>1, <3>4, <3>5, <4>1, InOrderGrows
      <4>. QED BY <3>1, <3>2, <4>1, <4>2 DEF AddedTo
    <3>7. InOrder(got.reasoning, Seen("reasoning"))'
      <4>1. InOrder(got.reasoning, Seen("reasoning"))
        BY DEF AnswerInv
      <4>2. InOrder(Append(got.reasoning, Len(said)), Seen("reasoning") \union {Len(said)})
        BY <2>1, <3>4, <3>5, <4>1, InOrderGrows
      <4>. QED BY <3>1, <3>2, <4>1, <4>2 DEF AddedTo
    <3>8. \A n \in Indices : InOrder(got.tools[n], Fragments(n))'
      <4>1. \A n : \A i \in Fragments(n) : i < Len(said)
        BY <3>4 DEF Fragments
      <4>. SUFFICES ASSUME NEW n \in Indices PROVE InOrder(got'.tools[n], Fragments(n)')
        OBVIOUS
      <4>2. got.tools[n] \in Seq(Nat) /\ InOrder(got.tools[n], Fragments(n))
        BY <3>5 DEF AnswerInv
      <4>3. CASE held.k = "tool" /\ held.index = n
        <5>1. got'.tools[n] = Append(got.tools[n], Len(said))
          BY <3>1, <4>3 DEF AddedTo
        <5>2. Fragments(n)' = Fragments(n) \union {Len(said)}
          BY <3>3, <4>3
        <5>3. InOrder(Append(got.tools[n], Len(said)), Fragments(n) \union {Len(said)})
          BY <2>1, <4>1, <4>2, InOrderGrows
        <5>. QED BY <5>1, <5>2, <5>3
      <4>4. CASE ~(held.k = "tool" /\ held.index = n)
        <5>1. got'.tools[n] = got.tools[n] /\ Fragments(n)' = Fragments(n)
          BY <3>1, <3>3, <4>4 DEF AddedTo
        <5>. QED BY <4>2, <5>1
      <4>. QED BY <4>3, <4>4
    <3>9. LastIs(got.finish, Seen("finish"))' /\ LastIs(got.usage, Seen("usage"))'
      <4>1. \A k : Seen(k) \subseteq Nat
        BY DEF Seen
      <4>2. \A k : LastIs(Len(said), Seen(k) \union {Len(said)})
        BY <2>1, <3>4, <4>1, LastIsNewest
      <4>3. LastIs(got.finish, Seen("finish"))'
        BY <3>1, <3>2, <4>2 DEF AddedTo, AnswerInv
      <4>4. LastIs(got.usage, Seen("usage"))'
        BY <3>1, <3>2, <4>2 DEF AddedTo, AnswerInv
      <4>. QED BY <4>3, <4>4
    <3>10. done' <=> \E i \in 1..Received' : said'[i].k = "done"
      BY <1>3, SeenGrows
    <3>. QED BY <1>1, <3>6, <3>7, <3>8, <3>9, <3>10 DEF AnswerInv
  <2>. QED BY <2>2, <2>3
<1>. QED BY <1>2, <1>3

\* A call that succeeds returns the whole stream up to "[DONE]" and nothing after it, in order
\* and each tool call's fragments under its own index, with whatever ticks, timeouts and
\* cancellations came between the lines.
THEOREM AnswerIsTheStream == Spec => []AnswerIsWholeStream
<1>1. TypeInv /\ AnswerInv => AnswerIsWholeStream
  <2>. SUFFICES ASSUME TypeInv, AnswerInv, result = "ok" PROVE AnswerIsWholeStream
    BY DEF AnswerIsWholeStream
  <2>1. Received = Len(said) /\ DOMAIN said = 1..Len(said)
    BY DEF AnswerInv, Received, TypeInv, Wire
  <2>2. \A k : Seen(k) = Counted(k)
    BY <2>1 DEF Seen, Counted
  <2>3. \A n : Fragments(n) = {i \in Counted("tool") : said[i].index = n}
    BY <2>2 DEF Fragments
  <2>. QED BY <2>2, <2>3 DEF AnswerIsWholeStream, AnswerInv
<1>. QED BY <1>1, NothingReceived, AnswerStep, TypeInvariant, ReaderInit, ReaderStep,
           TypeCorrect, PTL DEF Spec
=============================================================================
