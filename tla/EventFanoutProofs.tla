-------------------------- MODULE EventFanoutProofs --------------------------
(***************************************************************************)
(* Theorems about EventFanout, for any number of requests and watchers and *)
(* channels of any size.                                                   *)
(***************************************************************************)
EXTENDS EventFanout, TLAPS

\* The events in a channel.
Contents(q) == {q[i] : i \in DOMAIN q}

\* Sending adds the event at the end.
LEMMA Sent ==
  ASSUME NEW q \in Seq(Event), NEW e \in Event
  PROVE  /\ Append(q, e) \in Seq(Event) /\ Len(Append(q, e)) = Len(q) + 1
         /\ Contents(Append(q, e)) = Contents(q) \union {e}
<1>1. /\ Append(q, e) \in Seq(Event) /\ Len(Append(q, e)) = Len(q) + 1 /\ Len(q) \in Nat
      /\ DOMAIN q = 1..Len(q) /\ DOMAIN Append(q, e) = 1..(Len(q) + 1)
      /\ \A i \in 1..Len(q) : Append(q, e)[i] = q[i]
      /\ Append(q, e)[Len(q) + 1] = e
  OBVIOUS
<1>2. ASSUME NEW x \in Contents(Append(q, e)) PROVE x \in Contents(q) \union {e}
  <2>1. PICK i \in 1..(Len(q) + 1) : x = Append(q, e)[i]
    BY <1>1 DEF Contents
  <2>2. CASE i = Len(q) + 1
    BY <1>1, <2>1, <2>2
  <2>3. CASE i \in 1..Len(q)
    BY <1>1, <2>1, <2>3 DEF Contents
  <2>. QED BY <1>1, <2>1, <2>2, <2>3
<1>3. Contents(q) \subseteq Contents(Append(q, e))
  BY <1>1 DEF Contents
<1>4. e \in Contents(Append(q, e))
  <2>1. Len(q) + 1 \in DOMAIN Append(q, e)
    BY <1>1
  <2>. QED BY <1>1, <2>1 DEF Contents
<1>. QED BY <1>1, <1>2, <1>3, <1>4

\* Receiving takes the event at the front.
LEMMA Received ==
  ASSUME NEW q \in Seq(Event), q # <<>>
  PROVE  /\ Head(q) \in Event /\ Tail(q) \in Seq(Event) /\ Len(Tail(q)) <= Len(q)
         /\ Contents(q) = Contents(Tail(q)) \union {Head(q)}
<1>1. /\ Head(q) \in Event /\ Tail(q) \in Seq(Event) /\ Len(Tail(q)) = Len(q) - 1
      /\ Len(q) \in Nat \ {0} /\ Head(q) = q[1]
      /\ DOMAIN q = 1..Len(q) /\ DOMAIN Tail(q) = 1..(Len(q) - 1)
      /\ \A i \in 1..(Len(q) - 1) : Tail(q)[i] = q[i + 1]
  OBVIOUS
<1>2. ASSUME NEW x \in Contents(q) PROVE x \in Contents(Tail(q)) \union {Head(q)}
  <2>1. PICK i \in 1..Len(q) : x = q[i]
    BY <1>1 DEF Contents
  <2>2. CASE i = 1
    BY <1>1, <2>1, <2>2
  <2>3. CASE i # 1
    <3>1. i - 1 \in 1..(Len(q) - 1) /\ q[i] = Tail(q)[i - 1]
      BY <1>1, <2>3
    <3>. QED BY <1>1, <2>1, <3>1 DEF Contents
  <2>. QED BY <2>2, <2>3
<1>3. ASSUME NEW x \in Contents(Tail(q)) PROVE x \in Contents(q)
  <2>1. PICK i \in 1..(Len(q) - 1) : x = q[i + 1]
    BY <1>1, <1>3 DEF Contents
  <2>2. i + 1 \in DOMAIN q
    BY <1>1
  <2>. QED BY <2>1, <2>2 DEF Contents
<1>4. Head(q) \in Contents(q)
  <2>1. 1 \in DOMAIN q
    BY <1>1
  <2>. QED BY <1>1, <2>1 DEF Contents
<1>. QED BY <1>1, <1>2, <1>3, <1>4

\* An empty channel holds nothing.
LEMMA EmptyChannel == <<>> \in Seq(Event) /\ Len(<<>>) = 0 /\ Contents(<<>>) = {}
BY DEF Contents
-----------------------------------------------------------------------------
Phases == {"new", "waiting", "joining", "reading", "final", "report", "over", "aborted"}

\* The steps of a request that emit nothing.
Moves(r) ==
  \/ Begins(r) \/ HeadersArrive(r) \/ PassthroughAborts(r) \/ TickerJoined(r) \/ ReadEnds(r)

\* A request that is calling the upstream has a call left to count.
CallsLeft ==
  \A r \in Requests : phase[r] \notin {"report", "over"} => attempts[r] < MaxAttempts

\* What the requests keep, and what the channels and watchers keep.
RequestsTyped ==
  /\ phase \in [Requests -> Phases]
  /\ attempts \in [Requests -> 0..MaxAttempts] /\ ticks \in 0..MaxTicks
  /\ CallsLeft

ChannelsTyped ==
  /\ emitted \in [Streams -> Nat] /\ latest \in Requests \union {"none"}
  /\ hand \in [Streams -> Event]
  /\ in \in [Streams -> Seq(Event)] /\ \A s \in Streams : Len(in[s]) <= InCap
  /\ mu \in Streams \union {"free"} /\ todo \subseteq Watchers
  /\ session \in [Watchers -> {"away", "subscribing", "watching", "leaving", "gone"}]
  /\ buf \in [Watchers -> [Streams -> Seq(Event)]]
  /\ \A w \in Watchers, s \in Streams : Len(buf[w][s]) <= SubCap
  /\ shown \in [Watchers -> Event] /\ owed \in [Watchers -> [Streams -> SUBSET Nat]]

TypeInv == RequestsTyped /\ ChannelsTyped

\* An event is a number and whether it is a final one.
LEMMA EventType ==
  /\ \A n \in Nat, b \in BOOLEAN : [n |-> n, done |-> b] \in Event
  /\ Nothing \in Event
BY DEF Event, Nothing

\* What Emit does to a stream: the event is put into the channel or dropped.
LEMMA EmitSends ==
  ASSUME ChannelsTyped, NEW s \in Streams, NEW r \in Requests, NEW b \in BOOLEAN, Emit(s, r, b)
  PROVE  /\ emitted' = [emitted EXCEPT ![s] = @ + 1]
         /\ latest' = IF s = "progress" THEN r ELSE latest
         /\ UNCHANGED <<hand, mu, todo, session, buf, shown>>
         /\ \/ UNCHANGED <<in, owed>>
            \/ \E e \in Event :
                 /\ e = [n |-> emitted[s] + 1, done |-> b] /\ Len(in[s]) < InCap
                 /\ in' = [in EXCEPT ![s] = Append(in[s], e)]
                 /\ owed' = [w \in Watchers |-> [owed[w] EXCEPT ![s] =
                      IF w \in Subscribed(s) THEN owed[w][s] \union {emitted[s] + 1} ELSE owed[w][s]]]
<1>1. /\ emitted' = [emitted EXCEPT ![s] = @ + 1] /\ latest' = IF s = "progress" THEN r ELSE latest
      /\ UNCHANGED <<hand, mu, todo, session, buf, shown>>
  BY DEF Emit, Emitted
<1>2. CASE Len(in[s]) < InCap
  <2>. DEFINE e == [n |-> emitted[s] + 1, done |-> b]
  <2>1. e \in Event /\ e.n = emitted[s] + 1
    BY EventType DEF ChannelsTyped
  <2>2. Enqueue(s, e)
    BY <1>2 DEF Emit
  <2>. QED BY <1>1, <1>2, <2>1, <2>2 DEF Enqueue
<1>3. CASE ~(Len(in[s]) < InCap)
  BY <1>1, <1>3 DEF Emit
<1>. QED BY <1>2, <1>3

\* Emitting keeps the channels in their types and within their room.
LEMMA EmitKeeps ==
  ASSUME ChannelsTyped, NEW s \in Streams, NEW r \in Requests, NEW b \in BOOLEAN, Emit(s, r, b)
  PROVE  ChannelsTyped'
<1>1. emitted' \in [Streams -> Nat] /\ latest' \in Requests \union {"none"}
  <2>1. emitted' = [emitted EXCEPT ![s] = @ + 1] /\ latest' = IF s = "progress" THEN r ELSE latest
    BY EmitSends
  <2>. QED BY <2>1 DEF ChannelsTyped
<1>2. in' \in [Streams -> Seq(Event)] /\ \A t \in Streams : Len(in'[t]) <= InCap
  <2>1. CASE UNCHANGED in
    BY <2>1 DEF ChannelsTyped
  <2>2. ASSUME NEW e \in Event, Len(in[s]) < InCap, in' = [in EXCEPT ![s] = Append(in[s], e)]
        PROVE  in' \in [Streams -> Seq(Event)] /\ \A t \in Streams : Len(in'[t]) <= InCap
    <3>1. in[s] \in Seq(Event) /\ InCap \in Nat
      BY FanoutAssumption DEF ChannelsTyped
    <3>2. Append(in[s], e) \in Seq(Event) /\ Len(Append(in[s], e)) <= InCap
      BY <2>2, <3>1, Sent
    <3>. QED BY <2>2, <3>2 DEF ChannelsTyped
  <2>. QED BY <2>1, <2>2, EmitSends
<1>3. owed' \in [Watchers -> [Streams -> SUBSET Nat]]
  <2>1. CASE UNCHANGED owed
    BY <2>1 DEF ChannelsTyped
  <2>2. CASE owed' = [w \in Watchers |-> [owed[w] EXCEPT ![s] =
               IF w \in Subscribed(s) THEN owed[w][s] \union {emitted[s] + 1} ELSE owed[w][s]]]
    <3>1. emitted[s] + 1 \in Nat
      BY DEF ChannelsTyped
    <3>2. ASSUME NEW w \in Watchers PROVE owed'[w] \in [Streams -> SUBSET Nat]
      BY <2>2, <3>1 DEF ChannelsTyped
    <3>. QED BY <2>2, <3>2
  <2>. QED BY <2>1, <2>2, EmitSends
<1>. QED BY <1>1, <1>2, <1>3, EmitSends DEF ChannelsTyped

\* A pump keeps the channels in their types and within their room.
LEMMA PumpKeeps ==
  ASSUME ChannelsTyped, NEW s \in Streams, PumpRuns(s)
  PROVE  ChannelsTyped' /\ UNCHANGED requests
<1>1. CASE PumpReceives(s)
  <2>1. in[s] \in Seq(Event) /\ in[s] # <<>> /\ Len(in[s]) <= InCap /\ InCap \in Nat
    BY <1>1, FanoutAssumption DEF PumpReceives, ChannelsTyped
  <2>2. Head(in[s]) \in Event /\ Tail(in[s]) \in Seq(Event) /\ Len(Tail(in[s])) <= InCap
    BY <2>1, Received
  <2>3. hand' \in [Streams -> Event]
    BY <1>1, <2>2 DEF PumpReceives, ChannelsTyped
  <2>4. in' \in [Streams -> Seq(Event)] /\ \A t \in Streams : Len(in'[t]) <= InCap
    BY <1>1, <2>2 DEF PumpReceives, ChannelsTyped
  <2>. QED BY <1>1, <2>3, <2>4 DEF PumpReceives, emissions, ChannelsTyped
<1>2. CASE PumpLocks(s)
  <2>1. todo' \subseteq Watchers /\ mu' = s
    BY <1>2 DEF PumpLocks, Subscribed
  <2>2. UNCHANGED <<requests, emissions, in, hand, session, buf, shown, owed>>
    BY <1>2 DEF PumpLocks
  <2>. QED BY <2>1, <2>2 DEF emissions, ChannelsTyped
<1>3. ASSUME NEW w \in Watchers, PumpSends(s, w) PROVE ChannelsTyped' /\ UNCHANGED requests
  <2>1. buf[w][s] \in Seq(Event) /\ Len(buf[w][s]) <= SubCap /\ SubCap \in Nat /\ hand[s] \in Event
    BY FanoutAssumption DEF ChannelsTyped
  <2>2. HasRoom(w, s) => /\ Append(buf[w][s], hand[s]) \in Seq(Event)
                         /\ Len(Append(buf[w][s], hand[s])) <= SubCap
    BY <2>1, Sent DEF HasRoom
  <2>3. /\ buf' \in [Watchers -> [Streams -> Seq(Event)]]
        /\ \A v \in Watchers, t \in Streams : Len(buf'[v][t]) <= SubCap
    <3>1. CASE HasRoom(w, s)
      BY <1>3, <2>2, <3>1 DEF PumpSends, Sends, ChannelsTyped
    <3>2. CASE ~HasRoom(w, s)
      BY <1>3, <3>2 DEF PumpSends, Sends, ChannelsTyped
    <3>. QED BY <3>1, <3>2
  <2>4. owed' \in [Watchers -> [Streams -> SUBSET Nat]]
    BY <1>3 DEF PumpSends, Sends, ChannelsTyped
  <2>5. UNCHANGED <<requests, emissions, in, hand, mu, session, shown>> /\ todo' \subseteq todo
    BY <1>3 DEF PumpSends, Sends
  <2>. QED BY <2>3, <2>4, <2>5 DEF emissions, ChannelsTyped
<1>4. CASE PumpUnlocks(s)
  BY <1>4, EventType DEF PumpUnlocks, emissions, ChannelsTyped
<1>. QED BY <1>1, <1>2, <1>3, <1>4 DEF PumpRuns

\* A watcher keeps the channels in their types and within their room.
LEMMA WatcherKeeps ==
  ASSUME ChannelsTyped, NEW w \in Watchers, WatcherActs(w)
  PROVE  ChannelsTyped' /\ UNCHANGED requests
<1>1. CASE SubscribesUI(w) \/ SubscribesProgress(w)
  BY <1>1 DEF SubscribesUI, SubscribesProgress, Session, emissions, pumps, ChannelsTyped
<1>2. ASSUME NEW s \in Streams, Cancels(w, s)
      PROVE  /\ buf' \in [Watchers -> [Streams -> Seq(Event)]]
             /\ \A v \in Watchers, t \in Streams : Len(buf'[v][t]) <= SubCap
             /\ shown' \in [Watchers -> Event] /\ owed' \in [Watchers -> [Streams -> SUBSET Nat]]
  <2>1. SubCap \in Nat
    BY FanoutAssumption
  <2>2. /\ buf' \in [Watchers -> [Streams -> Seq(Event)]]
        /\ \A v \in Watchers, t \in Streams : Len(buf'[v][t]) <= SubCap
    BY <1>2, <2>1, EmptyChannel DEF Cancels, ChannelsTyped
  <2>. QED BY <1>2, <2>2, EventType DEF Cancels, ChannelsTyped
<1>3. CASE CancelsProgress(w)
  <2>1. "progress" \in Streams
    BY DEF Streams
  <2>. QED BY <1>2, <1>3, <2>1 DEF CancelsProgress, Session, emissions, pumps, ChannelsTyped
<1>4. CASE CancelsUI(w)
  <2>1. "ui" \in Streams
    BY DEF Streams
  <2>. QED BY <1>2, <1>4, <2>1 DEF CancelsUI, Session, emissions, pumps, ChannelsTyped
<1>5. ASSUME NEW s \in Streams, Takes(w, s) PROVE ChannelsTyped' /\ UNCHANGED requests
  <2>1. buf[w][s] \in Seq(Event) /\ buf[w][s] # <<>> /\ Len(buf[w][s]) <= SubCap /\ SubCap \in Nat
    BY <1>5, FanoutAssumption DEF Takes, ChannelsTyped
  <2>2. /\ Head(buf[w][s]) \in Event /\ Tail(buf[w][s]) \in Seq(Event)
        /\ Len(Tail(buf[w][s])) <= SubCap
    BY <2>1, Received
  <2>3. /\ buf' \in [Watchers -> [Streams -> Seq(Event)]]
        /\ \A v \in Watchers, t \in Streams : Len(buf'[v][t]) <= SubCap
    BY <1>5, <2>2 DEF Takes, ChannelsTyped
  <2>4. shown' \in [Watchers -> Event]
    BY <1>5, <2>2 DEF Takes, ChannelsTyped
  <2>. QED BY <1>5, <2>3, <2>4 DEF Takes, emissions, pumps, ChannelsTyped
<1>. QED BY <1>1, <1>3, <1>4, <1>5 DEF WatcherActs

\* A request that moves on keeps its type and has a call left while it is calling.
LEMMA AdvanceKeeps ==
  ASSUME RequestsTyped, NEW r \in Requests, NEW from, NEW to, Advance(r, from, to),
         to \in Phases \ {"new"},
         phase[r] \notin {"report", "over"} \/ to \in {"report", "over"}
  PROVE  RequestsTyped'
<1>1. phase' = [phase EXCEPT ![r] = to] /\ UNCHANGED <<attempts, ticks>>
  BY DEF Advance
<1>2. phase' \in [Requests -> Phases]
  BY <1>1 DEF RequestsTyped, Phases
<1>3. CallsLeft'
  BY <1>1 DEF RequestsTyped, CallsLeft
<1>. QED BY <1>1, <1>2, <1>3 DEF RequestsTyped

\* Every step keeps the types, the room of the channels and the cap on calls.
LEMMA TypeStep == TypeInv /\ [Next]_vars => TypeInv'
<1>. SUFFICES ASSUME TypeInv, [Next]_vars PROVE TypeInv'
  OBVIOUS
<1>0. RequestsTyped /\ ChannelsTyped
  BY DEF TypeInv
<1>s. Silent => ChannelsTyped'
  BY <1>0 DEF Silent, emissions, pumps, ChannelsTyped
<1>p. "progress" \in Streams /\ "ui" \in Streams /\ TRUE \in BOOLEAN /\ FALSE \in BOOLEAN
  BY DEF Streams
<1>1. ASSUME NEW r \in Requests, Moves(r) PROVE TypeInv'
  <2>1. Silent /\ \E from, to : /\ Advance(r, from, to) /\ to \in Phases \ {"new", "over"}
                                /\ from \subseteq {"new", "waiting", "joining", "reading"}
    BY <1>1 DEF Moves, Begins, HeadersArrive, PassthroughAborts, TickerJoined, ReadEnds, Phases
  <2>2. RequestsTyped'
    BY <1>0, <2>1, AdvanceKeeps DEF Advance, Phases
  <2>. QED BY <1>s, <2>1, <2>2 DEF TypeInv
<1>2. ASSUME NEW r \in Requests, Ticks(r) PROVE TypeInv'
  <2>1. /\ Emit("progress", r, FALSE) /\ UNCHANGED <<phase, attempts>>
        /\ ticks < MaxTicks /\ ticks' = ticks + 1
    BY <1>2 DEF Ticks
  <2>t. ticks' \in 0..MaxTicks
    BY <1>0, <2>1, FanoutAssumption DEF RequestsTyped
  <2>2. RequestsTyped'
    BY <1>0, <2>1, <2>t DEF RequestsTyped, CallsLeft
  <2>3. ChannelsTyped'
    BY <1>0, <1>p, <2>1, EmitKeeps
  <2>. QED BY <2>2, <2>3 DEF TypeInv
<1>3. ASSUME NEW r \in Requests, FinalEvent(r) PROVE TypeInv'
  <2>1. /\ phase[r] = "final" /\ Emit("progress", r, TRUE)
        /\ attempts' = [attempts EXCEPT ![r] = @ + 1] /\ UNCHANGED ticks
        /\ \E to \in {"over", "report", "waiting"} :
             phase' = [phase EXCEPT ![r] = to] /\ (to = "waiting" => attempts'[r] < MaxAttempts)
    BY <1>3 DEF FinalEvent
  <2>2. attempts[r] < MaxAttempts /\ attempts[r] \in Nat /\ MaxAttempts \in Nat
    BY <1>0, <2>1, FanoutAssumption DEF RequestsTyped, CallsLeft
  <2>3. attempts' \in [Requests -> 0..MaxAttempts]
    BY <1>0, <2>1, <2>2 DEF RequestsTyped
  <2>4. phase' \in [Requests -> Phases]
    BY <1>0, <2>1 DEF RequestsTyped, Phases
  <2>5. CallsLeft'
    BY <1>0, <2>1 DEF RequestsTyped, CallsLeft
  <2>6. ChannelsTyped'
    BY <1>0, <1>p, <2>1, EmitKeeps
  <2>7. RequestsTyped'
    BY <1>0, <2>1, <2>3, <2>4, <2>5 DEF RequestsTyped
  <2>. QED BY <2>6, <2>7 DEF TypeInv
<1>4. ASSUME NEW r \in Requests, Reports(r) PROVE TypeInv'
  <2>1. Advance(r, {"report"}, "over") /\ Emit("ui", r, FALSE)
    BY <1>4 DEF Reports
  <2>2. RequestsTyped'
    BY <1>0, <2>1, AdvanceKeeps DEF Phases
  <2>3. ChannelsTyped'
    BY <1>0, <1>p, <2>1, EmitKeeps
  <2>. QED BY <2>2, <2>3 DEF TypeInv
<1>5. ASSUME NEW s \in Streams, PumpRuns(s) PROVE TypeInv'
  BY <1>0, <1>5, PumpKeeps DEF TypeInv, requests, RequestsTyped, CallsLeft
<1>6. ASSUME NEW w \in Watchers, WatcherActs(w) PROVE TypeInv'
  BY <1>0, <1>6, WatcherKeeps DEF TypeInv, requests, RequestsTyped, CallsLeft
<1>7. CASE UNCHANGED vars
  BY <1>7 DEF vars, requests, emissions, pumps, TypeInv, RequestsTyped, ChannelsTyped, CallsLeft
<1>. QED
  BY <1>1, <1>2, <1>3, <1>4, <1>5, <1>6, <1>7 DEF Next, Moves, RequestAdvances, Quiet

\* The initial channels are empty and no request has begun.
LEMMA TypeInit == Init => TypeInv
<1>. SUFFICES ASSUME Init PROVE TypeInv
  OBVIOUS
<1>1. RequestsTyped
  BY FanoutAssumption DEF Init, RequestsTyped, CallsLeft, Phases
<1>2. in \in [Streams -> Seq(Event)] /\ \A s \in Streams : Len(in[s]) <= InCap
  BY EmptyChannel, FanoutAssumption DEF Init
<1>3. /\ buf \in [Watchers -> [Streams -> Seq(Event)]]
      /\ \A w \in Watchers, s \in Streams : Len(buf[w][s]) <= SubCap
  BY EmptyChannel, FanoutAssumption DEF Init
<1>4. /\ emitted \in [Streams -> Nat] /\ latest \in Requests \union {"none"}
      /\ hand \in [Streams -> Event]
      /\ mu \in Streams \union {"free"} /\ todo \subseteq Watchers
      /\ shown \in [Watchers -> Event] /\ owed \in [Watchers -> [Streams -> SUBSET Nat]]
  BY EventType DEF Init
<1>5. session \in [Watchers -> {"away", "subscribing", "watching", "leaving", "gone"}]
  BY DEF Init
<1>6. ChannelsTyped
  BY <1>2, <1>3, <1>4, <1>5 DEF ChannelsTyped
<1>. QED BY <1>1, <1>6 DEF TypeInv

\* Every reachable state is well typed; no channel ever holds more than it has room for and
\* no request makes more calls than it may.
THEOREM TypeCorrect == Spec => []TypeOK
<1>1. TypeInv => TypeOK
  BY DEF TypeInv, RequestsTyped, ChannelsTyped, TypeOK, Phases
<1>. QED BY <1>1, TypeInit, TypeStep, PTL DEF Spec
-----------------------------------------------------------------------------
\* No pump sends on a channel that has been closed, whoever comes and goes meanwhile.
THEOREM NeverSendsOnClosed == Spec => []NoSendOnClosed
<1>1. Init => NoSendOnClosed
  BY DEF Init, NoSendOnClosed
<1>2. NoSendOnClosed /\ [Next]_vars => NoSendOnClosed'
  <2>. SUFFICES ASSUME NoSendOnClosed, [Next]_vars PROVE NoSendOnClosed'
    OBVIOUS
  <2>f. ASSUME UNCHANGED <<mu, todo, session>> PROVE NoSendOnClosed'
    BY <2>f DEF NoSendOnClosed, Subscribed
  <2>1. ASSUME NEW r \in Requests, Begins(r) \/ Ticks(r) \/ RequestAdvances(r)
        PROVE  NoSendOnClosed'
    BY <2>1, <2>f DEF Begins, Ticks, RequestAdvances, HeadersArrive, PassthroughAborts,
                      TickerJoined, ReadEnds, FinalEvent, Reports, Silent, pumps, Emit, Emitted
  <2>2. ASSUME NEW s \in Streams, PumpRuns(s) PROVE NoSendOnClosed'
    <3>1. CASE PumpReceives(s)
      BY <2>f, <3>1 DEF PumpReceives
    <3>2. CASE PumpLocks(s)
      BY <3>2 DEF PumpLocks, NoSendOnClosed, Subscribed
    <3>3. ASSUME NEW w \in Watchers, PumpSends(s, w) PROVE NoSendOnClosed'
      BY <3>3 DEF PumpSends, Sends, NoSendOnClosed, Subscribed
    <3>4. CASE PumpUnlocks(s)
      BY <3>4 DEF PumpUnlocks, NoSendOnClosed
    <3>. QED BY <2>2, <3>1, <3>2, <3>3, <3>4 DEF PumpRuns
  <2>3. ASSUME NEW w \in Watchers, WatcherActs(w) PROVE NoSendOnClosed'
    <3>1. ASSUME NEW s \in Streams, Takes(w, s) PROVE NoSendOnClosed'
      BY <2>f, <3>1 DEF Takes, pumps
    <3>2. CASE mu = "free" /\ mu' = mu
      BY <3>2 DEF NoSendOnClosed
    <3>. QED BY <2>3, <3>1, <3>2 DEF WatcherActs, SubscribesUI, SubscribesProgress,
                  CancelsProgress, CancelsUI, Session, Unlocked, pumps
  <2>4. CASE UNCHANGED vars
    BY <2>f, <2>4 DEF vars, pumps
  <2>. QED BY <2>1, <2>2, <2>3, <2>4 DEF Next, Quiet
<1>. QED BY <1>1, <1>2, PTL DEF Spec
-----------------------------------------------------------------------------
\* Event n is still on its way to watcher w.
Coming(w, s, n) ==
  \/ \E e \in Contents(in[s]) : e.n = n
  \/ hand[s].n = n /\ (mu = s => w \in todo)

\* What is owed is on its way; only who is subscribed is owed anything; a pump that has
\* locked has an event in hand, and events have positive numbers.
OwedInv ==
  /\ \A w \in Watchers, s \in Streams : \A n \in owed[w][s] :
       n > 0 /\ w \in Subscribed(s) /\ Coming(w, s, n)
  /\ \A s \in Streams : mu = s => hand[s] # Nothing

\* A step that leaves the broker and the subscriptions alone keeps it.
LEMMA OwedFrame ==
  ASSUME OwedInv, UNCHANGED <<in, hand, mu, todo, session, owed>>
  PROVE  OwedInv'
BY DEF OwedInv, Subscribed, Coming

\* An event that gets into the broker is owed to those subscribed; all others stay where they
\* are.
LEMMA OwedEmit ==
  ASSUME ChannelsTyped, OwedInv, NEW s \in Streams, NEW r \in Requests, NEW b \in BOOLEAN,
         Emit(s, r, b)
  PROVE  OwedInv'
<1>1. UNCHANGED <<hand, mu, todo, session>>
  BY EmitSends
<1>2. CASE UNCHANGED <<in, owed>>
  BY <1>1, <1>2, OwedFrame
<1>3. ASSUME NEW e \in Event, e.n = emitted[s] + 1, in' = [in EXCEPT ![s] = Append(in[s], e)],
             owed' = [w \in Watchers |-> [owed[w] EXCEPT ![s] =
               IF w \in Subscribed(s) THEN owed[w][s] \union {emitted[s] + 1} ELSE owed[w][s]]]
      PROVE  OwedInv'
  <2>1. in[s] \in Seq(Event) /\ emitted[s] \in Nat
    BY DEF ChannelsTyped
  <2>2. Contents(in'[s]) = Contents(in[s]) \union {e}
    BY <1>3, <2>1, Sent DEF ChannelsTyped
  <2>3. \A t \in Streams : t # s => in'[t] = in[t]
    BY <1>3 DEF ChannelsTyped
  <2>4. \A w \in Watchers, t \in Streams :
          owed'[w][t] \subseteq IF t = s /\ w \in Subscribed(s) THEN owed[w][t] \union {e.n}
                                ELSE owed[w][t]
    BY <1>3 DEF ChannelsTyped
  <2>5. ASSUME NEW w \in Watchers, NEW t \in Streams, NEW n \in owed'[w][t]
        PROVE  n > 0 /\ w \in Subscribed(t)' /\ Coming(w, t, n)'
    <3>1. Subscribed(t)' = Subscribed(t)
      BY <1>1 DEF Subscribed
    <3>2. CASE n \in owed[w][t]
      <4>1. n > 0 /\ w \in Subscribed(t) /\ Coming(w, t, n)
        BY <3>2 DEF OwedInv
      <4>2. Contents(in[t]) \subseteq Contents(in'[t])
        BY <2>2, <2>3
      <4>. QED BY <1>1, <3>1, <4>1, <4>2 DEF Coming
    <3>3. CASE t = s /\ w \in Subscribed(s) /\ n = e.n
      BY <1>3, <2>1, <2>2, <3>1, <3>3 DEF Coming
    <3>. QED BY <2>4, <3>2, <3>3
  <2>. QED BY <1>1, <2>5 DEF OwedInv
<1>. QED BY <1>2, <1>3, EmitSends

\* A pump takes events from the channel to the subscribers and forgets none on the way.
LEMMA OwedPump ==
  ASSUME ChannelsTyped, OwedInv, NEW s \in Streams, PumpRuns(s)
  PROVE  OwedInv'
<1>1. CASE PumpReceives(s)
  <2>1. /\ hand[s] = Nothing /\ in[s] # <<>> /\ in[s] \in Seq(Event)
        /\ hand'[s] = Head(in[s]) /\ in'[s] = Tail(in[s])
        /\ \A t \in Streams : t # s => hand'[t] = hand[t] /\ in'[t] = in[t]
        /\ UNCHANGED <<mu, todo, session, owed>>
    BY <1>1 DEF PumpReceives, ChannelsTyped
  <2>2. Contents(in[s]) = Contents(in'[s]) \union {hand'[s]}
    BY <2>1, Received
  <2>3. mu # s
    BY <2>1 DEF OwedInv
  <2>4. ASSUME NEW w \in Watchers, NEW t \in Streams, NEW n \in owed[w][t] PROVE Coming(w, t, n)'
    <3>1. n > 0 /\ Coming(w, t, n)
      BY DEF OwedInv
    <3>2. CASE t = s
      <4>1. hand[s].n # n
        BY <2>1, <3>1 DEF Nothing
      <4>. QED BY <2>1, <2>2, <2>3, <3>1, <3>2, <4>1 DEF Coming
    <3>3. CASE t # s
      BY <2>1, <3>1, <3>3 DEF Coming
    <3>. QED BY <3>2, <3>3
  <2>. QED BY <2>1, <2>3, <2>4 DEF OwedInv, Subscribed
<1>2. CASE PumpLocks(s)
  <2>1. /\ mu = "free" /\ mu' = s /\ todo' = Subscribed(s) /\ hand[s] # Nothing
        /\ UNCHANGED <<in, hand, session, owed>>
    BY <1>2 DEF PumpLocks
  <2>2. ASSUME NEW w \in Watchers, NEW t \in Streams, NEW n \in owed[w][t] PROVE Coming(w, t, n)'
    <3>1. w \in Subscribed(t) /\ Coming(w, t, n)
      BY DEF OwedInv
    <3>. QED BY <2>1, <3>1 DEF Coming
  <2>. QED BY <2>1, <2>2 DEF OwedInv, Subscribed
<1>3. ASSUME NEW w \in Watchers, PumpSends(s, w) PROVE OwedInv'
  <2>1. /\ mu = s /\ todo' = todo \ {w} /\ owed' = [owed EXCEPT ![w][s] = @ \ {hand[s].n}]
        /\ UNCHANGED <<in, hand, mu, session>>
    BY <1>3 DEF PumpSends, Sends
  <2>2. /\ owed'[w][s] = owed[w][s] \ {hand[s].n}
        /\ \A v \in Watchers, t \in Streams : v # w \/ t # s => owed'[v][t] = owed[v][t]
    BY <2>1 DEF ChannelsTyped
  <2>3. ASSUME NEW v \in Watchers, NEW t \in Streams, NEW n \in owed'[v][t]
        PROVE  n > 0 /\ v \in Subscribed(t)' /\ Coming(v, t, n)'
    <3>1. n \in owed[v][t] /\ (v = w /\ t = s => n # hand[s].n)
      BY <2>2
    <3>2. n > 0 /\ v \in Subscribed(t) /\ Coming(v, t, n)
      BY <3>1 DEF OwedInv
    <3>. QED BY <2>1, <3>1, <3>2 DEF Coming, Subscribed
  <2>. QED BY <2>1, <2>3 DEF OwedInv
<1>4. CASE PumpUnlocks(s)
  <2>1. /\ mu = s /\ todo = {} /\ mu' = "free" /\ hand'[s] = Nothing
        /\ \A t \in Streams : t # s => hand'[t] = hand[t]
        /\ UNCHANGED <<in, todo, session, owed>>
    BY <1>4 DEF PumpUnlocks, ChannelsTyped
  <2>2. ASSUME NEW w \in Watchers, NEW t \in Streams, NEW n \in owed[w][t] PROVE Coming(w, t, n)'
    <3>1. Coming(w, t, n)
      BY DEF OwedInv
    <3>. QED BY <2>1, <3>1 DEF Coming, Streams
  <2>3. \A t \in Streams : mu' # t
    BY <2>1 DEF Streams
  <2>. QED BY <2>1, <2>2, <2>3 DEF OwedInv, Subscribed
<1>. QED BY <1>1, <1>2, <1>3, <1>4 DEF PumpRuns

\* A watcher that leaves is owed nothing any more; the others keep what they are owed.
LEMMA OwedWatcher ==
  ASSUME ChannelsTyped, OwedInv, NEW w \in Watchers, WatcherActs(w)
  PROVE  OwedInv'
<1>1. ASSUME NEW s \in Streams, Takes(w, s) PROVE OwedInv'
  BY <1>1, OwedFrame DEF Takes, pumps
<1>2. CASE SubscribesUI(w) \/ SubscribesProgress(w)
  <2>1. UNCHANGED <<in, hand, mu, todo, owed>>
    BY <1>2 DEF SubscribesUI, SubscribesProgress, Session, pumps
  <2>2. \A t \in Streams : Subscribed(t) \subseteq Subscribed(t)'
    BY <1>2 DEF SubscribesUI, SubscribesProgress, Session, Subscribed, ChannelsTyped
  <2>. QED BY <2>1, <2>2 DEF OwedInv, Coming
<1>3. ASSUME NEW s \in Streams, Cancels(w, s), UNCHANGED pumps,
             \A t \in Streams \ {s} : owed[w][t] # {} => w \in Subscribed(t)',
             \A v \in Watchers \ {w} : session'[v] = session[v]
      PROVE  OwedInv'
  <2>1. /\ owed'[w][s] = {}
        /\ \A v \in Watchers, t \in Streams : v # w \/ t # s => owed'[v][t] = owed[v][t]
    BY <1>3 DEF Cancels, ChannelsTyped
  <2>2. UNCHANGED <<in, hand, mu, todo>>
    BY <1>3 DEF pumps
  <2>3. ASSUME NEW v \in Watchers, NEW t \in Streams, NEW n \in owed'[v][t]
        PROVE  n > 0 /\ v \in Subscribed(t)' /\ Coming(v, t, n)'
    <3>1. n \in owed[v][t] /\ (v # w \/ t # s)
      BY <2>1
    <3>2. n > 0 /\ v \in Subscribed(t) /\ Coming(v, t, n)
      BY <3>1 DEF OwedInv
    <3>3. v \in Subscribed(t)'
      <4>1. CASE v = w
        BY <1>3, <3>1, <4>1
      <4>2. CASE v # w
        BY <1>3, <3>2, <4>2 DEF Subscribed
      <4>. QED BY <4>1, <4>2
    <3>. QED BY <2>2, <3>2, <3>3 DEF Coming
  <2>. QED BY <2>2, <2>3 DEF OwedInv
<1>4. CASE CancelsProgress(w)
  <2>1. /\ Cancels(w, "progress") /\ UNCHANGED pumps /\ session[w] = "watching"
        /\ session' = [session EXCEPT ![w] = "leaving"]
    BY <1>4 DEF CancelsProgress, Session
  <2>2. session'[w] = "leaving" /\ \A v \in Watchers \ {w} : session'[v] = session[v]
    BY <2>1 DEF ChannelsTyped
  <2>. QED BY <1>3, <2>1, <2>2 DEF Streams, Subscribed
<1>5. CASE CancelsUI(w)
  <2>1. /\ Cancels(w, "ui") /\ UNCHANGED pumps /\ session[w] = "leaving"
        /\ session' = [session EXCEPT ![w] = "gone"]
    BY <1>5 DEF CancelsUI, Session
  <2>2. session'[w] = "gone" /\ \A v \in Watchers \ {w} : session'[v] = session[v]
    BY <2>1 DEF ChannelsTyped
  <2>3. owed[w]["progress"] = {}
    <3>1. w \notin Subscribed("progress")
      BY <2>1 DEF Subscribed
    <3>. QED BY <3>1 DEF OwedInv, Streams
  <2>. QED BY <1>3, <2>1, <2>2, <2>3 DEF Streams
<1>. QED BY <1>1, <1>2, <1>4, <1>5 DEF WatcherActs

\* An event that got into the broker reaches everybody who was subscribed and has room, for
\* any number of subscribers, however slow the others are.
THEOREM OnlyFullChannelsLose == Spec => []LostOnlyWhenFull
<1>1. Init => OwedInv
  BY DEF Init, OwedInv, Streams
<1>2. TypeInv /\ OwedInv /\ [Next]_vars => OwedInv'
  <2>. SUFFICES ASSUME TypeInv, OwedInv, [Next]_vars PROVE OwedInv'
    OBVIOUS
  <2>0. ChannelsTyped
    BY DEF TypeInv
  <2>1. ASSUME NEW r \in Requests, Moves(r) PROVE OwedInv'
    BY <2>1, OwedFrame DEF Moves, Begins, HeadersArrive, PassthroughAborts, TickerJoined, ReadEnds,
                                Silent, pumps
  <2>2. ASSUME NEW r \in Requests, Ticks(r) \/ FinalEvent(r) \/ Reports(r) PROVE OwedInv'
    <3>1. Emit("progress", r, FALSE) \/ Emit("progress", r, TRUE) \/ Emit("ui", r, FALSE)
      BY <2>2 DEF Ticks, FinalEvent, Reports
    <3>2. "progress" \in Streams /\ "ui" \in Streams /\ TRUE \in BOOLEAN /\ FALSE \in BOOLEAN
      BY DEF Streams
    <3>. QED BY <2>0, <3>1, <3>2, OwedEmit
  <2>3. ASSUME NEW s \in Streams, PumpRuns(s) PROVE OwedInv'
    BY <2>0, <2>3, OwedPump
  <2>4. ASSUME NEW w \in Watchers, WatcherActs(w) PROVE OwedInv'
    BY <2>0, <2>4, OwedWatcher
  <2>5. CASE UNCHANGED vars
    BY <2>5, OwedFrame DEF vars, pumps
  <2>. QED BY <2>1, <2>2, <2>3, <2>4, <2>5 DEF Next, Moves, RequestAdvances, Quiet
<1>3. OwedInv => LostOnlyWhenFull
  BY DEF OwedInv, Coming, Contents, LostOnlyWhenFull
<1>. QED BY <1>1, <1>2, <1>3, TypeInit, TypeStep, PTL DEF Spec
-----------------------------------------------------------------------------
\* The request that emitted the latest progress event is in a call, or was aborted.
Live == latest \in Requests /\ phase[latest] \in Calling \union {"aborted"}

\* A progress event, wherever it is, is one of those emitted; if it is the latest one and not
\* final, the request it speaks of is still in its call, or was aborted.
Current(e) ==
  e # Nothing => /\ e.n > 0 /\ e.n <= emitted["progress"]
                 /\ e.n = emitted["progress"] => e.done \/ Live

\* Where a progress event can be.
CurrentInv ==
  /\ \A e \in Contents(in["progress"]) : Current(e)
  /\ Current(hand["progress"])
  /\ \A w \in Watchers : /\ \A e \in Contents(buf[w]["progress"]) : Current(e)
                         /\ Current(shown[w])

\* A step that moves no progress event and ends no call without a final event keeps it.
LEMMA CurrentFrame ==
  ASSUME CurrentInv, in'["progress"] = in["progress"], hand'["progress"] = hand["progress"],
         \A w \in Watchers : buf'[w]["progress"] = buf[w]["progress"],
         UNCHANGED shown, emitted'["progress"] = emitted["progress"], Live => Live'
  PROVE  CurrentInv'
BY DEF CurrentInv, Current

\* After another progress event, a final one or one of a call, the older ones do not count.
LEMMA CurrentEmit ==
  ASSUME ChannelsTyped, CurrentInv, NEW r \in Requests, NEW b \in BOOLEAN,
         Emit("progress", r, b), b \/ Live'
  PROVE  CurrentInv'
<1>0. "progress" \in Streams
  BY DEF Streams
<1>1. /\ emitted["progress"] \in Nat /\ emitted'["progress"] = emitted["progress"] + 1
      /\ UNCHANGED <<hand, buf, shown>> /\ in["progress"] \in Seq(Event)
      /\ hand["progress"] \in Event
      /\ \A w \in Watchers : shown[w] \in Event /\ buf[w]["progress"] \in Seq(Event)
  BY <1>0, EmitSends DEF ChannelsTyped
<1>2. \A e \in Event : Current(e) => Current(e)'
  BY <1>1 DEF Current, Event
<1>3. \A q \in Seq(Event) : Contents(q) \subseteq Event
  BY DEF Contents
<1>4. \A e \in Contents(in'["progress"]) : Current(e)'
  <2>1. CASE UNCHANGED in
    BY <1>1, <1>2, <1>3, <2>1 DEF CurrentInv
  <2>2. ASSUME NEW e \in Event, e = [n |-> emitted["progress"] + 1, done |-> b],
               in' = [in EXCEPT !["progress"] = Append(in["progress"], e)]
        PROVE  \A f \in Contents(in'["progress"]) : Current(f)'
    <3>1. Contents(in'["progress"]) = Contents(in["progress"]) \union {e}
      BY <1>0, <1>1, <2>2, Sent DEF ChannelsTyped
    <3>2. e.n = emitted["progress"] + 1 /\ (e.done <=> b)
      BY <2>2
    <3>3. Current(e)'
      BY <1>1, <3>2 DEF Current
    <3>. QED BY <1>1, <1>2, <1>3, <3>1, <3>3 DEF CurrentInv
  <2>. QED BY <1>0, <2>1, <2>2, EmitSends
<1>5. Current(hand["progress"])'
  BY <1>1, <1>2 DEF CurrentInv
<1>6. ASSUME NEW w \in Watchers
      PROVE  (\A e \in Contents(buf[w]["progress"]) : Current(e))' /\ Current(shown[w])'
  BY <1>1, <1>2, <1>3 DEF CurrentInv
<1>. QED BY <1>4, <1>5, <1>6 DEF CurrentInv

\* A UI event touches no progress event.
LEMMA EmitElsewhere ==
  ASSUME ChannelsTyped, NEW r \in Requests, NEW b \in BOOLEAN, Emit("ui", r, b)
  PROVE  /\ UNCHANGED <<latest, hand, buf, shown>>
         /\ emitted'["progress"] = emitted["progress"] /\ in'["progress"] = in["progress"]
<1>1. "ui" \in Streams /\ "progress" \in Streams
  BY DEF Streams
<1>2. UNCHANGED <<latest, hand, buf, shown>> /\ emitted' = [emitted EXCEPT !["ui"] = @ + 1]
  BY <1>1, EmitSends
<1>3. UNCHANGED in \/ \E e \in Event : in' = [in EXCEPT !["ui"] = Append(in["ui"], e)]
  BY <1>1, EmitSends
<1>. QED BY <1>1, <1>2, <1>3 DEF ChannelsTyped

\* A pump only moves progress events on.
LEMMA CurrentPump ==
  ASSUME ChannelsTyped, CurrentInv, NEW s \in Streams, PumpRuns(s)
  PROVE  CurrentInv'
<1>0. "progress" \in Streams /\ UNCHANGED <<phase, emitted, latest, shown>>
  BY DEF Streams, PumpRuns, PumpReceives, PumpLocks, PumpSends, Sends, PumpUnlocks, requests,
         emissions
<1>b. Live' = Live /\ \A e : Current(e) => Current(e)'
  BY <1>0 DEF Live, Current
<1>1. CASE s # "progress"
  <2>1. in'["progress"] = in["progress"] /\ hand'["progress"] = hand["progress"]
    BY <1>0, <1>1 DEF PumpRuns, PumpReceives, PumpLocks, PumpSends, Sends, PumpUnlocks, ChannelsTyped
  <2>2. \A w \in Watchers : buf'[w]["progress"] = buf[w]["progress"]
    BY <1>0, <1>1 DEF PumpRuns, PumpReceives, PumpLocks, PumpSends, Sends, PumpUnlocks, ChannelsTyped
  <2>. QED BY <1>0, <1>b, <2>1, <2>2, CurrentFrame
<1>2. CASE PumpReceives("progress")
  <2>1. /\ in["progress"] # <<>> /\ in["progress"] \in Seq(Event)
        /\ hand'["progress"] = Head(in["progress"]) /\ in'["progress"] = Tail(in["progress"])
        /\ UNCHANGED buf
    BY <1>0, <1>2 DEF PumpReceives, ChannelsTyped
  <2>2. Contents(in["progress"]) = Contents(in'["progress"]) \union {hand'["progress"]}
    BY <2>1, Received
  <2>. QED BY <1>0, <1>b, <2>1, <2>2 DEF CurrentInv
<1>3. CASE PumpLocks("progress")
  BY <1>b, <1>3, CurrentFrame DEF PumpLocks, emissions
<1>4. ASSUME NEW w \in Watchers, PumpSends("progress", w) PROVE CurrentInv'
  <2>1. UNCHANGED <<in, hand>>
    BY <1>4 DEF PumpSends, Sends
  <2>2. ASSUME NEW v \in Watchers
        PROVE  Contents(buf'[v]["progress"])
                 \subseteq Contents(buf[v]["progress"]) \union {hand["progress"]}
    <3>1. CASE buf' = buf
      BY <3>1
    <3>2. CASE buf' = [buf EXCEPT ![w]["progress"] = Append(@, hand["progress"])]
      <4>1. buf[w]["progress"] \in Seq(Event) /\ hand["progress"] \in Event
        BY <1>0 DEF ChannelsTyped
      <4>2. buf'[v]["progress"] = IF v = w THEN Append(buf[w]["progress"], hand["progress"])
                                  ELSE buf[v]["progress"]
        BY <1>0, <3>2 DEF ChannelsTyped
      <4>. QED BY <4>1, <4>2, Sent
    <3>. QED BY <1>4, <3>1, <3>2 DEF PumpSends, Sends
  <2>. QED BY <1>0, <1>b, <2>1, <2>2 DEF CurrentInv
<1>5. CASE PumpUnlocks("progress")
  <2>1. hand'["progress"] = Nothing /\ UNCHANGED <<in, buf>>
    BY <1>0, <1>5 DEF PumpUnlocks, ChannelsTyped
  <2>2. Current(Nothing)'
    BY DEF Current
  <2>. QED BY <1>0, <1>b, <2>1, <2>2 DEF CurrentInv
<1>. QED BY <1>1, <1>2, <1>3, <1>4, <1>5 DEF PumpRuns

\* A watcher shows what comes out of its channel, or nothing.
LEMMA CurrentWatcher ==
  ASSUME ChannelsTyped, CurrentInv, NEW w \in Watchers, WatcherActs(w)
  PROVE  CurrentInv'
<1>0. "progress" \in Streams /\ UNCHANGED <<phase, emitted, latest, in, hand>>
  BY DEF Streams, WatcherActs, SubscribesUI, SubscribesProgress, CancelsProgress, CancelsUI,
         Session, Takes, requests, emissions, pumps
<1>b. Live' = Live /\ \A e : Current(e) => Current(e)'
  BY <1>0 DEF Live, Current
<1>n. Current(Nothing)'
  BY DEF Current
<1>1. CASE SubscribesUI(w) \/ SubscribesProgress(w)
  BY <1>0, <1>b, <1>1, CurrentFrame DEF SubscribesUI, SubscribesProgress
<1>2. ASSUME NEW s \in Streams, Cancels(w, s) PROVE CurrentInv'
  <2>1. ASSUME NEW v \in Watchers
        PROVE  /\ shown'[v] \in {shown[v], Nothing}
               /\ buf'[v]["progress"] \in {buf[v]["progress"], <<>>}
    BY <1>0, <1>2 DEF Cancels, ChannelsTyped
  <2>. QED BY <1>0, <1>b, <1>n, <2>1, EmptyChannel DEF CurrentInv
<1>3. CASE CancelsProgress(w) \/ CancelsUI(w)
  BY <1>2, <1>3 DEF CancelsProgress, CancelsUI, Streams
<1>4. CASE Takes(w, "ui")
  <2>1. UNCHANGED shown /\ \A v \in Watchers : buf'[v]["progress"] = buf[v]["progress"]
    BY <1>0, <1>4 DEF Takes, ChannelsTyped
  <2>. QED BY <1>0, <1>b, <2>1, CurrentFrame
<1>5. CASE Takes(w, "progress")
  <2>1. /\ buf[w]["progress"] # <<>> /\ buf[w]["progress"] \in Seq(Event)
        /\ shown'[w] = Head(buf[w]["progress"]) /\ buf'[w]["progress"] = Tail(buf[w]["progress"])
        /\ \A v \in Watchers : v # w => shown'[v] = shown[v]
                                        /\ buf'[v]["progress"] = buf[v]["progress"]
    BY <1>0, <1>5 DEF Takes, ChannelsTyped
  <2>2. Contents(buf[w]["progress"]) = Contents(buf'[w]["progress"]) \union {shown'[w]}
    BY <2>1, Received
  <2>. QED BY <1>0, <1>b, <2>1, <2>2 DEF CurrentInv
<1>. QED BY <1>1, <1>3, <1>4, <1>5 DEF WatcherActs, Streams

\* A watcher that is up to date shows "idle" or a request that is in its call to this moment,
\* for any number of requests running side by side and in every way their calls end but one:
\* a passthrough whose body could not be copied to its end is shown on.
THEOREM IdleIsShown == Spec => []LatestIsFinal
<1>1. Init => CurrentInv
  <2>. SUFFICES ASSUME Init PROVE CurrentInv
    OBVIOUS
  <2>1. "progress" \in Streams
    BY DEF Streams
  <2>2. /\ in["progress"] = <<>> /\ hand["progress"] = Nothing
        /\ \A w \in Watchers : shown[w] = Nothing /\ buf[w]["progress"] = <<>>
    BY <2>1 DEF Init
  <2>. QED BY <2>2, EmptyChannel DEF CurrentInv, Current
<1>2. TypeInv /\ CurrentInv /\ [Next]_vars => CurrentInv'
  <2>. SUFFICES ASSUME TypeInv, CurrentInv, [Next]_vars PROVE CurrentInv'
    OBVIOUS
  <2>0. ChannelsTyped /\ "progress" \in Streams /\ TRUE \in BOOLEAN /\ FALSE \in BOOLEAN
        /\ phase \in [Requests -> Phases]
    BY DEF TypeInv, RequestsTyped, Streams
  <2>1. ASSUME NEW r \in Requests, Moves(r) PROVE CurrentInv'
    <3>1. UNCHANGED <<emitted, latest, in, hand, buf, shown>>
      BY <2>1 DEF Moves, Begins, HeadersArrive, PassthroughAborts, TickerJoined, ReadEnds,
                  Silent, emissions, pumps
    <3>2. Live => Live'
      <4>1. \/ phase[r] = "new" /\ \E to : phase' = [phase EXCEPT ![r] = to]
            \/ \E to \in {"joining", "reading", "final", "aborted"} :
                 phase' = [phase EXCEPT ![r] = to]
        BY <2>1 DEF Moves, Begins, HeadersArrive, PassthroughAborts, TickerJoined, ReadEnds, Advance
      <4>. QED BY <2>0, <3>1, <4>1 DEF Live, Calling
    <3>. QED BY <3>1, <3>2, CurrentFrame
  <2>2. ASSUME NEW r \in Requests, Ticks(r) PROVE CurrentInv'
    <3>1. Emit("progress", r, FALSE)
      BY <2>2 DEF Ticks
    <3>2. phase' = phase /\ phase[r] \in Calling \union {"aborted"}
      BY <2>2 DEF Ticks, MayTick, Calling
    <3>3. latest' = r
      BY <2>0, <3>1, EmitSends
    <3>4. Live'
      BY <3>2, <3>3 DEF Live
    <3>. QED BY <2>0, <3>1, <3>4, CurrentEmit
  <2>3. ASSUME NEW r \in Requests, FinalEvent(r) PROVE CurrentInv'
    <3>1. Emit("progress", r, TRUE)
      BY <2>3 DEF FinalEvent
    <3>. QED BY <2>0, <3>1, CurrentEmit
  <2>4. ASSUME NEW r \in Requests, Reports(r) PROVE CurrentInv'
    <3>1. Advance(r, {"report"}, "over") /\ Emit("ui", r, FALSE)
      BY <2>4 DEF Reports
    <3>2. UNCHANGED <<latest, hand, buf, shown>> /\ in'["progress"] = in["progress"]
          /\ emitted'["progress"] = emitted["progress"]
      BY <2>0, <3>1, EmitElsewhere
    <3>3. Live => Live'
      BY <2>0, <3>1, <3>2 DEF Advance, Live, Calling
    <3>. QED BY <3>2, <3>3, CurrentFrame
  <2>5. ASSUME NEW s \in Streams, PumpRuns(s) PROVE CurrentInv'
    BY <2>0, <2>5, CurrentPump
  <2>6. ASSUME NEW w \in Watchers, WatcherActs(w) PROVE CurrentInv'
    BY <2>0, <2>6, CurrentWatcher
  <2>7. CASE UNCHANGED vars
    BY <2>7, CurrentFrame DEF vars, requests, emissions, pumps, Live
  <2>. QED BY <2>1, <2>2, <2>3, <2>4, <2>5, <2>6, <2>7 DEF Next, Moves, RequestAdvances, Quiet
<1>3. CurrentInv => LatestIsFinal
  BY DEF CurrentInv, Current, Live, LatestIsFinal
<1>. QED BY <1>1, <1>2, <1>3, TypeInit, TypeStep, PTL DEF Spec
=============================================================================
