---------------------------- MODULE ForwardProxy ----------------------------
(***************************************************************************)
(* The listeners as a client's connection sees them: the forward proxy of  *)
(* V0.2/mitm.go, which tunnels a CONNECT to any host that is not listed,   *)
(* and terminates TLS for one that is and runs an http.Server on that one  *)
(* connection; its CORS style, with the target in the path; and the plain  *)
(* listeners.                                                              *)
(*                                                                         *)
(* A connection has up to four goroutines: the handler, the two copiers of *)
(* a tunnel, net/http's goroutine for the decrypted connection, and beside *)
(* a request that is passed through the ticker that shows it.              *)
(***************************************************************************)
EXTENDS Integers, FiniteSets, Routing

CONSTANTS
  Connections, \* the clients' connections
  Listed,      \* allowed_hosts
  Unlisted,    \* other hosts
  OpenHosts,   \* passthrough_hosts
  Listeners,   \* the plain listeners
  Requests,    \* what clients ask for: path, body (JSON or not), Authorization or ""
  MaxRequests, \* bound: requests of one connection
  MaxBytes     \* bound: what the far host sends through one tunnel

Hosts == Listed \union Unlisted
ForwardServer == Server("forward", "", "", FALSE)

\* A listener's base is a name for its backend, told apart from the hosts clients ask for.
ASSUME ForwardProxyAssumption ==
  /\ OpenHosts \subseteq Listed /\ Listed \intersect Unlisted = {}
  /\ "" \notin Listed \union Unlisted /\ MaxRequests \in Nat /\ MaxBytes \in Nat
  /\ \A q \in Requests : q.path \in Paths /\ q.preflight \in BOOLEAN
  /\ \A s \in Listeners : s.base \notin Hosts

VARIABLES
  stage,     \* the handler: "new", "dialing", "greeting", "tunnel", "handshake",
             \*  "serving", "over"; "plain", "answering": net/http serves the connection,
             \*  between requests and during one
  host,      \* the CONNECT target
  client,    \* the client's end: "open", "half" (it has sent its last byte), "closed"
  held,      \* the proxy has not closed clientConn
  upstream,  \* upstreamConn: "none", "open", "eof" (the host has closed), "closed"
  copier,    \* a copier: "none", "copying", "reporting", "gone"
  done,      \* what the channel of the tunnel holds
  pending,   \* what the far host has sent and the tunnel has not passed on
  bytes,     \* what it has sent so far
  broken,    \* history: a copier could not write
  cut,       \* history: the tunnel was closed with something pending
  accepted,  \* singleConnListener has given its connection away
  closed,    \* singleConnListener is closed
  inner,     \* the goroutine of the decrypted connection: "none", "reading", "handling", "gone"
  leaves,    \* CertAuthority.cache
  request,   \* the request being handled
  requests,  \* the requests of the connection so far
  ticker,    \* wrapPassthroughWithActivity's goroutine: "none", "running", or "left" by its
             \*  handler, which has gone without stopping it
  sent       \* history: what each connection's requests turned into

connection == <<stage, host, client, held>>
flow == <<pending, bytes, broken, cut>>
tunnel == <<upstream, copier, done, flow>>
served == <<accepted, closed, inner, leaves>>
traffic == <<request, requests, sent, ticker>>
vars == <<connection, tunnel, served, traffic>>

Directions == {"up", "down"}
NoRequest == [path |-> "", json |-> FALSE, auth |-> "", preflight |-> FALSE]

Init ==
  /\ stage = [c \in Connections |-> "new"] /\ host = [c \in Connections |-> ""]
  /\ client = [c \in Connections |-> "open"] /\ held = [c \in Connections |-> TRUE]
  /\ upstream = [c \in Connections |-> "none"]
  /\ copier = [c \in Connections |-> [d \in Directions |-> "none"]]
  /\ done = [c \in Connections |-> 0] /\ pending = done /\ bytes = done
  /\ broken = [c \in Connections |-> FALSE] /\ cut = broken
  /\ accepted = [c \in Connections |-> FALSE] /\ closed = [c \in Connections |-> FALSE]
  /\ inner = [c \in Connections |-> "none"] /\ leaves = {}
  /\ request = [c \in Connections |-> NoRequest] /\ requests = [c \in Connections |-> 0]
  /\ sent = [c \in Connections |-> {}] /\ ticker = [c \in Connections |-> "none"]
-----------------------------------------------------------------------------
(* The client, and the far host *)

ClientFinishes(c) ==
  /\ stage[c] # "new" /\ client[c] = "open" /\ client' = [client EXCEPT ![c] = "half"]
  /\ UNCHANGED <<stage, host, held, tunnel, served, traffic>>

ClientCloses(c) ==
  /\ stage[c] # "new" /\ client[c] # "closed" /\ client' = [client EXCEPT ![c] = "closed"]
  /\ UNCHANGED <<stage, host, held, tunnel, served, traffic>>

HostCloses(c) ==
  /\ upstream[c] = "open" /\ upstream' = [upstream EXCEPT ![c] = "eof"]
  /\ UNCHANGED <<connection, copier, done, flow, served, traffic>>

HostSends(c) ==
  /\ upstream[c] = "open" /\ bytes[c] < MaxBytes /\ bytes' = [bytes EXCEPT ![c] = @ + 1]
  /\ pending' = [pending EXCEPT ![c] = @ + 1]
  /\ UNCHANGED <<connection, upstream, copier, done, broken, cut, served, traffic>>
-----------------------------------------------------------------------------
(* ForwardProxyServer.ServeHTTP *)

To(c, s) == stage' = [stage EXCEPT ![c] = s]

\* The handler returns: its deferred calls close both connections.
Leaves(c) ==
  /\ To(c, "over") /\ held' = [held EXCEPT ![c] = FALSE]
  /\ upstream' = [upstream EXCEPT ![c] = IF @ = "none" THEN @ ELSE "closed"]
  /\ cut' = [cut EXCEPT ![c] = pending[c] > 0] /\ UNCHANGED <<pending, bytes, broken>>

\* CONNECT.  Hijack fails on a connection that has been hijacked: never here.
Connects(c, h) ==
  /\ stage[c] = "new" /\ host' = [host EXCEPT ![c] = h]
  /\ To(c, IF h \in Listed THEN "greeting" ELSE "dialing")
  /\ UNCHANGED <<client, held, tunnel, served, traffic>>

\* tunnelPassthrough.  The 200 can be lost on a client that has gone.
DialFails(c) ==
  /\ stage[c] = "dialing" /\ Leaves(c)
  /\ UNCHANGED <<host, client, copier, done, served, traffic>>

Dials(c) ==
  /\ stage[c] = "dialing" /\ To(c, "tunnel")
  /\ upstream' = [upstream EXCEPT ![c] = "open"]
  /\ copier' = [copier EXCEPT ![c] = [d \in Directions |-> "copying"]]
  /\ UNCHANGED <<host, client, held, done, flow, served, traffic>>

DialedInVain(c) ==
  /\ stage[c] = "dialing" /\ client[c] = "closed" /\ To(c, "over")
  /\ held' = [held EXCEPT ![c] = FALSE] /\ upstream' = [upstream EXCEPT ![c] = "closed"]
  /\ UNCHANGED <<host, client, copier, done, flow, served, traffic>>

Copies(c) ==
  /\ copier[c]["down"] = "copying" /\ pending[c] > 0 /\ client[c] # "closed"
  /\ pending' = [pending EXCEPT ![c] = @ - 1]
  /\ UNCHANGED <<connection, upstream, copier, done, bytes, broken, cut, served, traffic>>

\* A wrong Exhausted: the far host has closed, whatever it has sent before.
ExhaustedAtClose(c, d) ==
  IF d = "up" THEN client[c] # "open" \/ ~held[c] ELSE upstream[c] \in {"eof", "closed"}

\* io.Copy has read the last byte, or its source is closed by the proxy.
Exhausted(c, d) ==
  IF d = "up" THEN client[c] # "open" \/ ~held[c]
  ELSE upstream[c] = "closed" \/ (upstream[c] = "eof" /\ pending[c] = 0)

CopyEnds(c, d) ==
  /\ copier[c][d] = "copying" /\ Exhausted(c, d)
  /\ copier' = [copier EXCEPT ![c][d] = "reporting"]
  /\ UNCHANGED <<connection, upstream, done, flow, served, traffic>>

\* Something is to be written to a peer that has closed.
CopyBreaks(c, d) ==
  /\ copier[c][d] = "copying"
  /\ IF d = "up" THEN upstream[c] = "eof" ELSE client[c] = "closed" /\ pending[c] > 0
  /\ copier' = [copier EXCEPT ![c][d] = "reporting"]
  /\ broken' = [broken EXCEPT ![c] = TRUE]
  /\ UNCHANGED <<connection, upstream, done, pending, bytes, cut, served, traffic>>


\* done := make(chan struct{}, 2)
HasRoom(c) == done[c] < 2

CopierReports(c, d) ==
  /\ copier[c][d] = "reporting" /\ HasRoom(c)
  /\ copier' = [copier EXCEPT ![c][d] = "gone"] /\ done' = [done EXCEPT ![c] = @ + 1]
  /\ UNCHANGED <<connection, upstream, flow, served, traffic>>

TunnelOver(c) == done[c] > 0

TunnelEnds(c) ==
  /\ stage[c] = "tunnel" /\ TunnelOver(c) /\ done' = [done EXCEPT ![c] = @ - 1] /\ Leaves(c)
  /\ UNCHANGED <<host, client, copier, served, traffic>>
-----------------------------------------------------------------------------
(* A listed host: TLS is terminated, and one http.Server serves the connection *)

\* The 200 is written, or the client has gone.
Greets(c) ==
  /\ stage[c] = "greeting"
  /\ \/ To(c, "handshake") /\ UNCHANGED <<held, upstream, flow>>
     \/ client[c] = "closed" /\ Leaves(c)
  /\ UNCHANGED <<host, client, copier, done, served, traffic>>

\* The client names a host in its hello, or none; nothing compares it to the CONNECT target.
\* A client trusts a leaf for the host it asked for.
HandshakeSucceeds(c) ==
  /\ stage[c] = "handshake" /\ client[c] = "open" /\ To(c, "serving")
  /\ leaves' = leaves \union {host[c]}
  /\ UNCHANGED <<host, client, held, tunnel, accepted, closed, inner, traffic>>

HandshakeFails(c) ==
  /\ stage[c] = "handshake" /\ Leaves(c)
  /\ \E name \in Hosts \union {""} : leaves' = leaves \union {name} \/ UNCHANGED leaves
  /\ UNCHANGED <<host, client, copier, done, accepted, closed, inner, traffic>>

\* Serve accepts once, and its second Accept waits for the listener to be closed.
Accepts(c) ==
  /\ stage[c] = "serving" /\ ~accepted[c] /\ accepted' = [accepted EXCEPT ![c] = TRUE]
  /\ inner' = [inner EXCEPT ![c] = "reading"]
  /\ UNCHANGED <<connection, tunnel, closed, leaves, traffic>>

\* A wrong SecondAccept: it fails at once.
SecondAcceptFails(c) == accepted[c]

SecondAccept(c) == accepted[c] /\ closed[c]

ServeReturns(c) ==
  /\ stage[c] = "serving" /\ SecondAccept(c) /\ Leaves(c)
  /\ UNCHANGED <<host, client, copier, done, served, traffic>>

\* forwardProxyOverride: every request is tagged with its host and its own credential.
Intercepted(h, q) == Override(h, q.auth, h \in OpenHosts)

Starts(c, h, q) ==
  ticker' = [ticker EXCEPT ![c] = IF PassesThrough(q, Intercepted(h, q)) THEN "running" ELSE "none"]

Reads(c, q) ==
  /\ inner[c] = "reading" /\ client[c] = "open" /\ held[c] /\ requests[c] < MaxRequests
  /\ inner' = [inner EXCEPT ![c] = "handling"] /\ Starts(c, host[c], q)
  /\ request' = [request EXCEPT ![c] = q] /\ requests' = [requests EXCEPT ![c] = @ + 1]
  /\ UNCHANGED <<connection, tunnel, accepted, closed, leaves, sent>>

\* A wrong Tag: the credential of the connection's first request.
TagOnce(c) ==
  LET auth == IF sent[c] = {} THEN request[c].auth
              ELSE (CHOOSE s \in sent[c] : TRUE).request.auth
  IN  Override(host[c], auth, host[c] \in OpenHosts)

Tag(c) == Intercepted(host[c], request[c])

Records(c, target, q, outcome) ==
  sent' = [sent EXCEPT ![c] = @ \union {[target |-> target, request |-> q, outcome |-> outcome]}]

\* The pipeline is done with a request.
Handled(c) ==
  /\ inner[c] = "handling"
  /\ Records(c, host[c], request[c],
             WithCORS(request[c], Pipeline(ForwardServer, request[c], Tag(c))))
  /\ UNCHANGED <<connection, tunnel, accepted, leaves, request, requests>>

\* It has answered.  A ticker is stopped and waited for.
Handles(c) ==
  /\ Handled(c) /\ inner' = [inner EXCEPT ![c] = "reading"]
  /\ ticker' = [ticker EXCEPT ![c] = "none"] /\ UNCHANGED closed

\* The reverse proxy cannot copy a body to its end, the client or the host having gone, and
\* panics (http.ErrAbortHandler): net/http recovers and closes the connection.  What stops
\* the ticker is not deferred.
Aborts(c) ==
  /\ ticker[c] = "running" /\ ticker' = [ticker EXCEPT ![c] = "left"]
  /\ Handled(c) /\ inner' = [inner EXCEPT ![c] = "gone"]
  /\ closed' = [closed EXCEPT ![c] = TRUE]

\* Between requests the server sees that the client has finished, or ends the connection for
\* a reason of its own, and closes it: connCloseNotifier closes the listener.
InnerCloses(c) ==
  /\ inner[c] = "reading" /\ inner' = [inner EXCEPT ![c] = "gone"]
  /\ closed' = [closed EXCEPT ![c] = TRUE]
  /\ UNCHANGED <<connection, tunnel, accepted, leaves, traffic>>
-----------------------------------------------------------------------------
(* Requests that are no CONNECT *)

Asks(c, q, target, outcome) ==
  /\ stage[c] \in {"new", "plain"} /\ client[c] = "open" /\ requests[c] < MaxRequests
  /\ To(c, "answering") /\ requests' = [requests EXCEPT ![c] = @ + 1]
  /\ Records(c, target, q, outcome)
  /\ UNCHANGED <<host, client, held, tunnel, served, request>>

\* serveCORSProxy: the path embeds a URL of some host, or none.
AsksNoHost(c, q) == Asks(c, q, "", Answer(400)) /\ UNCHANGED ticker

AsksEmbedded(c, q, h) ==
  IF h \in Listed
  THEN Asks(c, q, h, WithCORS(q, Pipeline(ForwardServer, q, Intercepted(h, q)))) /\ Starts(c, h, q)
  ELSE Asks(c, q, h, Answer(403)) /\ UNCHANGED ticker

\* A plain listener.  Its own passthrough has no ticker.
AsksListener(c, q, s) == Asks(c, q, s.base, WithCORS(q, Mux(s, q))) /\ UNCHANGED ticker

PlainAnswers(c) ==
  /\ stage[c] = "answering" /\ To(c, "plain") /\ ticker' = [ticker EXCEPT ![c] = "none"]
  /\ UNCHANGED <<host, client, held, tunnel, served, request, requests, sent>>

\* As in Aborts.
PlainAborts(c) ==
  /\ stage[c] = "answering" /\ ticker[c] = "running" /\ Leaves(c)
  /\ ticker' = [ticker EXCEPT ![c] = "left"]
  /\ UNCHANGED <<host, client, copier, done, served, request, requests, sent>>

\* net/http closes a connection whose client has finished, or for a reason of its own (it has
\* been idle, the answer before has broken off).
PlainCloses(c) ==
  /\ stage[c] = "plain" /\ Leaves(c)
  /\ UNCHANGED <<host, client, copier, done, served, traffic>>
-----------------------------------------------------------------------------
Begins(c) ==
  \/ \E h \in Hosts : Connects(c, h)
  \/ \E q \in Requests : \/ AsksNoHost(c, q) \/ \E h \in Hosts : AsksEmbedded(c, q, h)
                         \/ \E s \in Listeners : AsksListener(c, q, s)

HandlerRuns(c) ==
  \/ Dials(c) \/ DialFails(c) \/ DialedInVain(c) \/ TunnelEnds(c) \/ Greets(c)
  \/ Accepts(c) \/ ServeReturns(c) \/ PlainAnswers(c)

CopierRuns(c, d) == CopyEnds(c, d) \/ CopierReports(c, d)

\* What happens for sure once the client has finished, or closed.
Unblocks(c) ==
  \/ client[c] # "open" /\ (HandshakeFails(c) \/ InnerCloses(c) \/ PlainCloses(c))
  \/ Copies(c)
  \/ client[c] = "closed" /\ CopyBreaks(c, "down")

\* Not an action of the program: nothing has to happen any more.
Quiet == (\A c \in Connections : stage[c] \in {"new", "over"}) /\ UNCHANGED vars

Next ==
  \/ \E c \in Connections :
       \/ Begins(c) \/ ClientFinishes(c) \/ ClientCloses(c) \/ HostCloses(c) \/ HostSends(c)
       \/ HandlerRuns(c) \/ Copies(c)
       \/ \E d \in Directions : CopierRuns(c, d) \/ CopyBreaks(c, d)
       \/ HandshakeSucceeds(c) \/ HandshakeFails(c)
       \/ \E q \in Requests : Reads(c, q)
       \/ Handles(c) \/ Aborts(c) \/ InnerCloses(c) \/ PlainAborts(c) \/ PlainCloses(c)
  \/ Quiet

Spec == Init /\ [][Next]_vars

\* Goroutines run, a dial has ten seconds, a request is answered to its end or broken off, and a
\* read of a connection whose peer has finished returns.  Nothing is expected of the client or
\* the far host.
FairSpec ==
  /\ Spec
  /\ \A c \in Connections :
       /\ WF_vars(HandlerRuns(c)) /\ WF_vars(Handles(c)) /\ WF_vars(Unblocks(c))
       /\ \A d \in Directions : WF_vars(CopierRuns(c, d))
-----------------------------------------------------------------------------
\* A request that is called upstream goes where its client meant it to go, and no further:
\* to the host of the CONNECT or of the embedded URL, which is listed, under its own path
\* and with its own credential; or to the listener's backend, whose configured key goes
\* nowhere else (mitm.go:116-124, 390-394, 459-468; proxy.go:727-749).
SentAsAsked ==
  \A c \in Connections : \A s \in sent[c] : IsCall(s.outcome) =>
    /\ s.outcome.to = s.target /\ ~s.request.preflight
    /\ s.target \in Hosts => /\ s.target \in Listed /\ s.outcome.path = s.request.path
                             /\ s.outcome.auth = s.request.auth

\* A request that is being handled still has its connection: the http.Server of a decrypted
\* connection serves it to the end before the handler closes it (mitm.go:489-513).
ServedToTheEnd == \A c \in Connections : inner[c] = "handling" => held[c]

Released(c) ==
  /\ stage[c] = "over" /\ ~held[c] /\ upstream[c] \in {"none", "closed"}
  /\ ticker[c] # "running"
  /\ \A d \in Directions : copier[c][d] \in {"none", "gone"} /\ inner[c] \in {"none", "gone"}


\* What the far host has sent through a tunnel before it closed reaches the client, unless
\* that has finished its own half, or had more to say to a host that was gone (mitm.go:152-158:
\* "an opaque byte-for-byte tunnel").
NothingCut == \A c \in Connections : cut[c] => client[c] # "open" \/ broken[c]
=============================================================================
