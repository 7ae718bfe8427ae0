----------------------------- MODULE EventFanout -----------------------------
(***************************************************************************)
(* How what happens in the proxy reaches those who watch it: requests emit *)
(* progress events while they run and a UI event when they end (emit,      *)
(* emitProgress), the Broker (V0.2/broker.go) copies both streams to every *)
(* subscriber, and the subscribers, the terminal dashboard and the event   *)
(* stream of each browser (ui.go, web.go), show the latest progress event  *)
(* they got.                                                               *)
(*                                                                         *)
(* No send waits: the channels are bounded and an event without room is    *)
(* dropped.  Whoever watches may stop reading at any time.                 *)
(***************************************************************************)
EXTENDS Integers, Sequences

CONSTANTS
  Requests,     \* those the proxy serves
  Passthrough,  \* those it forwards without looking into them
  Dashboards,   \* the terminal's, if there is a terminal
  Browsers,     \* the connections of control panels
  MaxAttempts,  \* upstream calls of one request
  InCap,        \* room in EventsIn and ProgressIn (64)
  SubCap,       \* room in a subscriber's channel (64)
  MaxTicks      \* bound: progress events of all requests, final ones apart

ASSUME FanoutAssumption ==
  /\ Passthrough \subseteq Requests /\ Dashboards \intersect Browsers = {}
  /\ MaxAttempts \in Nat \ {0} /\ InCap \in Nat \ {0} /\ SubCap \in Nat \ {0}
  /\ MaxTicks \in Nat

VARIABLES
  phase,     \* a request: "new", "waiting", "joining", "reading", "final", "report", "over",
             \*  or "aborted": its handler has gone by a panic, its ticker has not
  attempts,  \* its upstream calls so far
  ticks,     \* the progress events so far, final ones apart
  emitted,   \* history: events emitted on each stream; they are numbered by it
  latest,    \* history: the request that has emitted the latest progress event, or "none"
  in,        \* EventsIn and ProgressIn
  hand,      \* the event a pump has received and not yet passed on
  mu,        \* the pump that holds b.mu, or "free"
  todo,      \* the subscribers the loop of that pump has left
  session,   \* a watcher: "away", "subscribing", "watching", "leaving", "gone"
  buf,       \* its two channels
  shown,     \* the progress event it shows
  owed       \* history: events that found room in `in' while it was subscribed and
             \*  neither are in its channel yet nor met a full one

requests == <<phase, attempts, ticks>>
emissions == <<emitted, latest>>
pumps == <<in, hand, mu, todo>>
vars == <<requests, emissions, pumps, session, buf, shown, owed>>

Watchers == Dashboards \union Browsers
Streams == {"ui", "progress"}
Nothing == [n |-> 0, done |-> FALSE]

\* The keys of b.uiSubs and b.progSubs: SubscribeUI comes first, its cancel last.
Subscribed(s) ==
  {w \in Watchers : \/ session[w] = "watching"
                    \/ s = "ui" /\ session[w] \in {"subscribing", "leaving"}}

Init ==
  /\ phase = [r \in Requests |-> "new"]
  /\ attempts = [r \in Requests |-> 0] /\ ticks = 0
  /\ emitted = [s \in Streams |-> 0] /\ latest = "none" /\ in = [s \in Streams |-> <<>>]
  /\ hand = [s \in Streams |-> Nothing] /\ mu = "free" /\ todo = {}
  /\ session = [w \in Watchers |-> "away"]
  /\ buf = [w \in Watchers |-> [s \in Streams |-> <<>>]]
  /\ shown = [w \in Watchers |-> Nothing]
  /\ owed = [w \in Watchers |-> [s \in Streams |-> {}]]
-----------------------------------------------------------------------------
(* Requests *)

Enqueue(s, event) ==
  /\ in' = [in EXCEPT ![s] = Append(@, event)]
  /\ owed' = [w \in Watchers |-> [owed[w] EXCEPT ![s] =
                 IF w \in Subscribed(s) THEN @ \union {event.n} ELSE @]]

Emitted(s, r) ==
  /\ emitted' = [emitted EXCEPT ![s] = @ + 1]
  /\ latest' = IF s = "progress" THEN r ELSE latest
  /\ UNCHANGED <<hand, mu, todo, session, buf, shown>>

\* A wrong Emit: it waits for room.
EmitWaiting(s, r, done) ==
  Len(in[s]) < InCap /\ Enqueue(s, [n |-> emitted[s] + 1, done |-> done]) /\ Emitted(s, r)

\* emit, emitProgress: a send that is dropped when the channel is full.
Emit(s, r, done) ==
  /\ IF Len(in[s]) < InCap THEN Enqueue(s, [n |-> emitted[s] + 1, done |-> done])
                           ELSE UNCHANGED <<in, owed>>
  /\ Emitted(s, r)

Advance(r, from, to) ==
  /\ phase[r] \in from /\ phase' = [phase EXCEPT ![r] = to]
  /\ UNCHANGED <<attempts, ticks>>

Silent == UNCHANGED <<emissions, pumps, session, buf, shown, owed>>

\* A native completion emits no progress events.
Begins(r) ==
  /\ \/ Advance(r, {"new"}, "waiting")
     \/ r \notin Passthrough /\ Advance(r, {"new"}, "report")
  /\ Silent

\* A tick of the goroutine that waits for the headers, or of the read loop.  After an abort
\* nothing stops the ticker any more.
MayTick == {"waiting", "joining", "reading", "aborted"}
Ticks(r) ==
  /\ phase[r] \in MayTick /\ ticks < MaxTicks /\ ticks' = ticks + 1
  /\ Emit("progress", r, FALSE)
  /\ UNCHANGED <<phase, attempts>>

\* The call returns and waitDone is closed; the ticker may be in its last tick.  The call of
\* a passthrough returns when its whole answer has been copied.
HeadersArrive(r) == Advance(r, {"waiting"}, "joining") /\ Silent

\* The reverse proxy panics (http.ErrAbortHandler) when it cannot copy the body to its end,
\* the client or the host having gone.  The handler has deferred nothing.
PassthroughAborts(r) == r \in Passthrough /\ Advance(r, {"waiting"}, "aborted") /\ Silent

\* A wrong TickerJoined: an error returns without a final event.
TickerJoinedReturning(r) ==
  /\ \/ r \notin Passthrough /\ Advance(r, {"joining"}, "reading")
     \/ Advance(r, {"joining"}, IF r \in Passthrough THEN "final" ELSE "report")
  /\ Silent

\* <-tickerStopped.  Without a usable response the call goes to its deferred event.
TickerJoined(r) ==
  /\ \/ r \notin Passthrough /\ Advance(r, {"joining"}, "reading")
     \/ Advance(r, {"joining"}, "final")
  /\ Silent

\* The stream ends, breaks, falls silent or trips the guard.
ReadEnds(r) == Advance(r, {"reading"}, "final") /\ Silent

\* The final event of a call, and what follows: the end of a passthrough, a retry or
\* probe, the report, or (the client has gone) nothing.
FinalEvent(r) ==
  /\ phase[r] = "final" /\ Emit("progress", r, TRUE)
  /\ attempts' = [attempts EXCEPT ![r] = @ + 1]
  /\ \/ phase' = [phase EXCEPT ![r] = "over"]
     \/ r \notin Passthrough /\ phase' = [phase EXCEPT ![r] = "report"]
     \/ /\ r \notin Passthrough /\ attempts'[r] < MaxAttempts
        /\ phase' = [phase EXCEPT ![r] = "waiting"]
  /\ UNCHANGED ticks

Reports(r) == Advance(r, {"report"}, "over") /\ Emit("ui", r, FALSE)

RequestAdvances(r) ==
  \/ HeadersArrive(r) \/ PassthroughAborts(r) \/ TickerJoined(r) \/ ReadEnds(r)
  \/ FinalEvent(r) \/ Reports(r)
-----------------------------------------------------------------------------
(* pumpUI and pumpProgress *)

PumpReceives(s) ==
  /\ hand[s] = Nothing /\ in[s] # <<>>
  /\ hand' = [hand EXCEPT ![s] = Head(in[s])] /\ in' = [in EXCEPT ![s] = Tail(@)]
  /\ UNCHANGED <<requests, emissions, mu, todo, session, buf, shown, owed>>

PumpLocks(s) ==
  /\ hand[s] # Nothing /\ mu = "free" /\ mu' = s /\ todo' = Subscribed(s)
  /\ UNCHANGED <<requests, emissions, in, hand, session, buf, shown, owed>>

HasRoom(w, s) == Len(buf[w][s]) < SubCap

\* The event goes to one subscriber, or is dropped for it.
Sends(s, w, rest) ==
  /\ mu = s /\ w \in todo /\ todo' = rest
  /\ buf' = IF HasRoom(w, s) THEN [buf EXCEPT ![w][s] = Append(@, hand[s])] ELSE buf
  /\ owed' = [owed EXCEPT ![w][s] = @ \ {hand[s].n}]
  /\ UNCHANGED <<requests, emissions, in, hand, mu, session, shown>>

\* A wrong PumpSends: a full subscriber ends the loop.
PumpSendsUntilFull(s, w) == Sends(s, w, IF HasRoom(w, s) THEN todo \ {w} ELSE {})

PumpSends(s, w) == Sends(s, w, todo \ {w})

PumpUnlocks(s) ==
  /\ mu = s /\ todo = {} /\ mu' = "free" /\ hand' = [hand EXCEPT ![s] = Nothing]
  /\ UNCHANGED <<requests, emissions, in, todo, session, buf, shown, owed>>

PumpRuns(s) ==
  \/ PumpReceives(s) \/ PumpLocks(s) \/ PumpUnlocks(s)
  \/ \E w \in Watchers : PumpSends(s, w)
-----------------------------------------------------------------------------
(* Watchers *)

Unlocked == mu = "free"

\* Subscribe and cancel: each holds b.mu.  A cancelled channel is closed and left as it is.
Session(w, from, to) ==
  /\ session[w] = from /\ Unlocked /\ session' = [session EXCEPT ![w] = to]
  /\ UNCHANGED <<requests, emissions, pumps>>

SubscribesUI(w) == Session(w, "away", "subscribing") /\ UNCHANGED <<buf, shown, owed>>
SubscribesProgress(w) ==
  Session(w, "subscribing", "watching") /\ UNCHANGED <<buf, shown, owed>>

\* The deferred calls, last first, when the browser and what it showed have gone.  (The
\* dashboard's run when the process exits.)
Cancels(w, s) ==
  /\ buf' = [buf EXCEPT ![w][s] = <<>>] /\ owed' = [owed EXCEPT ![w][s] = {}]
  /\ shown' = [shown EXCEPT ![w] = Nothing]

\* A wrong CancelsProgress: the channel is closed without the mutex.
CancelsUnlocked(w) ==
  /\ session[w] = "watching" /\ session' = [session EXCEPT ![w] = "leaving"]
  /\ Cancels(w, "progress") /\ UNCHANGED <<requests, emissions, pumps>>

CancelsProgress(w) == Session(w, "watching", "leaving") /\ Cancels(w, "progress")
CancelsUI(w) == Session(w, "leaving", "gone") /\ Cancels(w, "ui")

\* A watcher takes an event: the progress event replaces the one it showed.
Takes(w, s) ==
  /\ session[w] = "watching" /\ buf[w][s] # <<>>
  /\ buf' = [buf EXCEPT ![w][s] = Tail(@)]
  /\ shown' = IF s = "progress" THEN [shown EXCEPT ![w] = Head(buf[w][s])] ELSE shown
  /\ UNCHANGED <<requests, emissions, pumps, session, owed>>

WatcherActs(w) ==
  \/ SubscribesUI(w) \/ SubscribesProgress(w)
  \/ w \in Browsers /\ (CancelsProgress(w) \/ CancelsUI(w))
  \/ \E s \in Streams : Takes(w, s)

\* Not an action of the program: all requests are over, and every event has been passed on.
Quiet ==
  /\ \A r \in Requests : phase[r] \in {"over", "aborted"}
  /\ \A w \in Browsers : session[w] = "gone"
  /\ \A s \in Streams : in[s] = <<>> /\ hand[s] = Nothing
  /\ UNCHANGED vars

Next ==
  \/ \E r \in Requests : Begins(r) \/ Ticks(r) \/ RequestAdvances(r)
  \/ \E s \in Streams : PumpRuns(s)
  \/ \E w \in Watchers : WatcherActs(w)
  \/ Quiet

Spec == Init /\ [][Next]_vars

\* Upstream calls end and the goroutines of a request run.  Nothing is assumed of the
\* pumps and of the watchers.
FairSpec == Spec /\ \A r \in Requests : WF_vars(RequestAdvances(r))
-----------------------------------------------------------------------------
Event == [n : Nat, done : BOOLEAN]

\* The variables have their types, and the channels hold no more than they have room for
\* (broker.go:25-26, 64, 80).
TypeOK ==
  /\ phase \in [Requests -> {"new", "waiting", "joining", "reading", "final", "report", "over",
                            "aborted"}]
  /\ attempts \in [Requests -> 0..MaxAttempts] /\ ticks \in 0..MaxTicks
  /\ emitted \in [Streams -> Nat] /\ latest \in Requests \union {"none"} /\ hand \in [Streams -> Event]
  /\ in \in [Streams -> Seq(Event)] /\ \A s \in Streams : Len(in[s]) <= InCap
  /\ mu \in Streams \union {"free"} /\ todo \subseteq Watchers
  /\ session \in [Watchers -> {"away", "subscribing", "watching", "leaving", "gone"}]
  /\ buf \in [Watchers -> [Streams -> Seq(Event)]]
  /\ \A w \in Watchers, s \in Streams : Len(buf[w][s]) <= SubCap
  /\ shown \in [Watchers -> Event] /\ owed \in [Watchers -> [Streams -> SUBSET Nat]]

\* A pump never sends on a closed channel, which would panic and take the whole proxy
\* down: a subscriber of its loop stays subscribed until it has been served
\* (broker.go:37-45 against 68-75).
NoSendOnClosed == mu # "free" => todo \subseteq Subscribed(mu)

\* Only a full channel costs a subscriber an event, ProgressIn or its own: an event that
\* got into the broker while it was subscribed is still on its way to it until then,
\* whatever the other subscribers do (broker.go:35-59).
LostOnlyWhenFull ==
  \A w \in Watchers, s \in Streams : \A n \in owed[w][s] :
    \/ \E i \in DOMAIN in[s] : in[s][i].n = n
    \/ hand[s].n = n /\ (mu = s => w \in todo)

Calling == {"waiting", "joining", "reading", "final"}

\* A watcher that shows the latest progress event shows "idle", or a request that is in a call
\* to this moment: however calls end, and however many run side by side, the last that is heard
\* of one is its final event (stream.go:220-232, 273, 509; mitm.go:255-263; ui.go:300-307).
\* Excepted is a passthrough that was aborted, which ticks on and is shown as in flight for good.
LatestIsFinal ==
  \A w \in Watchers : shown[w] # Nothing /\ shown[w].n = emitted["progress"] =>
    shown[w].done \/ phase[latest] \in Calling \union {"aborted"}

\* The handler of a request ends although nobody reads what it emits (proxy.go:639-658).
RequestsEnd == \A r \in Requests : phase[r] # "new" ~> phase[r] \in {"over", "aborted"}
=============================================================================
