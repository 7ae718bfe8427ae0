------------------------- MODULE ForwardProxyProofs -------------------------
(***************************************************************************)
(* Theorems about ForwardProxy and Routing, for any number of connections, *)
(* requests and bytes, and every choice of hosts and listeners.            *)
(***************************************************************************)
EXTENDS ForwardProxy, TLAPS

-----------------------------------------------------------------------------
(* Tunnels *)

Stages ==
  {"new", "dialing", "greeting", "tunnel", "handshake", "serving", "over", "plain", "answering"}

TunnelType ==
  /\ stage \in [Connections -> Stages] /\ held \in [Connections -> BOOLEAN]
  /\ client \in [Connections -> {"open", "half", "closed"}]
  /\ upstream \in [Connections -> {"none", "open", "eof", "closed"}]
  /\ copier \in [Connections -> [Directions -> {"none", "copying", "reporting", "gone"}]]
  /\ done \in [Connections -> Int] /\ pending \in [Connections -> Int]
  /\ broken \in [Connections -> BOOLEAN] /\ cut \in [Connections -> BOOLEAN]

\* Nothing of a tunnel can be cut any more that NothingCut would miss.
Settled(c) == client[c] # "open" \/ broken[c] \/ (upstream[c] = "eof" /\ pending[c] = 0)

\* There is a tunnel in stage "tunnel" only; a copier stops when it is settled; and done has
\* something of a copier that has stopped.
TunnelSound(c) ==
  /\ stage[c] \notin {"tunnel", "over"} =>
       /\ upstream[c] = "none" /\ pending[c] = 0 /\ done[c] = 0
       /\ \A d \in Directions : copier[c][d] = "none"
  /\ stage[c] # "over" => held[c]
  /\ stage[c] = "tunnel" =>
       /\ upstream[c] \in {"open", "eof"}
       /\ \A d \in Directions : copier[c][d] \in {"reporting", "gone"} => Settled(c)
  /\ done[c] > 0 => \E d \in Directions : copier[c][d] = "gone"
  /\ cut[c] => client[c] # "open" \/ broken[c]

TunnelInv == TunnelType /\ \A c \in Connections : TunnelSound(c)

\* A step of connection c leaves the other connections alone.
TunnelsApart(c) ==
  \A b \in Connections \ {c} :
    /\ stage'[b] = stage[b] /\ client'[b] = client[b] /\ held'[b] = held[b]
    /\ upstream'[b] = upstream[b] /\ copier'[b] = copier[b] /\ done'[b] = done[b]
    /\ pending'[b] = pending[b] /\ broken'[b] = broken[b] /\ cut'[b] = cut[b]

\* There is no tunnel at first.
LEMMA InitTunnelInv == Init => TunnelInv
<1> SUFFICES ASSUME Init PROVE TunnelInv
  OBVIOUS
<1>1. copier \in [Connections -> [Directions -> {"none", "copying", "reporting", "gone"}]]
  BY DEF Init
<1>2. /\ done = [c \in Connections |-> 0] /\ pending = [c \in Connections |-> 0]
      /\ broken = [c \in Connections |-> FALSE] /\ cut = [c \in Connections |-> FALSE]
  BY DEF Init
<1>3. TunnelType
  <2>1. /\ done \in [Connections -> Int] /\ pending \in [Connections -> Int]
        /\ broken \in [Connections -> BOOLEAN] /\ cut \in [Connections -> BOOLEAN]
    BY <1>2
  <2>2. /\ stage \in [Connections -> Stages] /\ held \in [Connections -> BOOLEAN]
        /\ client \in [Connections -> {"open", "half", "closed"}]
        /\ upstream \in [Connections -> {"none", "open", "eof", "closed"}]
    BY DEF Init, Stages
  <2> QED
    BY <1>1, <2>1, <2>2 DEF TunnelType
<1>4. ASSUME NEW c \in Connections PROVE TunnelSound(c)
  <2>1. /\ stage[c] = "new" /\ upstream[c] = "none" /\ done[c] = 0 /\ pending[c] = 0 /\ ~cut[c]
        /\ held[c]
    BY <1>2 DEF Init
  <2>2. \A d \in Directions : copier[c][d] = "none"
    BY DEF Init
  <2> QED
    BY <2>1, <2>2 DEF TunnelSound
<1> QED
  BY <1>3, <1>4 DEF TunnelInv

\* So it is enough to look at that connection.
LEMMA OneTunnel ==
  ASSUME TunnelInv, TunnelType', NEW c \in Connections, TunnelsApart(c), TunnelSound(c)'
  PROVE  TunnelInv'
<1>1. ASSUME NEW b \in Connections, b # c PROVE TunnelSound(b)'
  BY <1>1 DEF TunnelInv, TunnelsApart, TunnelSound, Settled
<1> QED
  BY <1>1 DEF TunnelInv

\* Leaving cuts nothing off if the tunnel is settled, or there is none.
LEMMA LeavesTunnelInv ==
  ASSUME TunnelInv, NEW c \in Connections, Leaves(c), UNCHANGED <<client, copier>>,
         done' = done \/ (done[c] > 0 /\ done' = [done EXCEPT ![c] = @ - 1]),
         stage[c] = "tunnel" => done[c] > 0, stage[c] # "over"
  PROVE  TunnelInv'
<1>1. TunnelType'
  BY DEF TunnelInv, TunnelType, Stages, Leaves, To
<1>2. TunnelsApart(c)
  BY DEF TunnelInv, TunnelType, TunnelsApart, Leaves, To
<1>3. pending[c] > 0 => client[c] # "open" \/ broken[c]
  BY DEF TunnelInv, TunnelSound, Settled
<1>4. stage'[c] = "over" /\ cut'[c] = (pending[c] > 0) /\ broken'[c] = broken[c]
  BY DEF TunnelInv, TunnelType, Stages, Leaves, To
<1>5. done'[c] > 0 => done[c] > 0
  BY DEF TunnelInv, TunnelType
<1>6. TunnelSound(c)'
  BY <1>3, <1>4, <1>5 DEF TunnelInv, TunnelSound
<1> QED
  BY <1>1, <1>2, <1>6, OneTunnel

\* Every step of a client, a far host, a copier or the handler keeps a tunnel sound.
LEMMA NextTunnelInv ==
  ASSUME TunnelInv, [Next]_vars
  PROVE  TunnelInv'
<1>1. CASE UNCHANGED <<connection, tunnel>>
  BY <1>1 DEF TunnelInv, TunnelType, TunnelSound, Settled, connection, tunnel, flow
<1>2. ASSUME NEW c \in Connections, ClientFinishes(c) \/ ClientCloses(c) PROVE TunnelInv'
  <2>1. TunnelType'
    BY <1>2 DEF ClientFinishes, ClientCloses, TunnelInv, TunnelType, Stages, To, connection,
                tunnel, flow
  <2>2. TunnelsApart(c)
    BY <1>2 DEF ClientFinishes, ClientCloses, TunnelInv, TunnelType, TunnelsApart, To,
                connection, tunnel, flow
  <2>3. TunnelSound(c)'
    BY <1>2 DEF ClientFinishes, ClientCloses, TunnelInv, TunnelType, TunnelSound, Settled, To,
                connection, tunnel, flow
  <2> QED
    BY <2>1, <2>2, <2>3, OneTunnel
<1>3. ASSUME NEW c \in Connections, HostCloses(c) \/ HostSends(c) PROVE TunnelInv'
  <2>1. TunnelType'
    <3>1. CASE HostCloses(c)
      BY <3>1 DEF HostCloses, TunnelInv, TunnelType, Stages, To, connection, tunnel, flow
    <3>2. CASE HostSends(c)
      BY <3>2 DEF HostSends, TunnelInv, TunnelType, Stages, To, connection, tunnel, flow
    <3>. QED BY <1>3, <3>1, <3>2
  <2>2. TunnelsApart(c)
    BY <1>3 DEF HostCloses, HostSends, TunnelInv, TunnelType, TunnelsApart, To, connection,
                tunnel, flow
  <2>3. TunnelSound(c)'
    BY <1>3 DEF HostCloses, HostSends, TunnelInv, TunnelType, TunnelSound, Settled, To,
                connection, tunnel, flow
  <2> QED
    BY <2>1, <2>2, <2>3, OneTunnel
<1>4. ASSUME NEW c \in Connections, NEW h \in Hosts, Connects(c, h) PROVE TunnelInv'
  <2>1. TunnelType'
    BY <1>4 DEF Connects, TunnelInv, TunnelType, Stages, To, connection, tunnel, flow
  <2>2. TunnelsApart(c)
    BY <1>4 DEF Connects, TunnelInv, TunnelType, TunnelsApart, To, connection, tunnel, flow
  <2>3. TunnelSound(c)'
    BY <1>4 DEF Connects, TunnelInv, TunnelType, TunnelSound, Settled, To, connection, tunnel, flow
  <2> QED
    BY <2>1, <2>2, <2>3, OneTunnel
<1>5. ASSUME NEW c \in Connections, Dials(c) PROVE TunnelInv'
  <2>1. TunnelType'
    BY <1>5 DEF Dials, TunnelInv, TunnelType, Stages, To, connection, tunnel, flow
  <2>2. TunnelsApart(c)
    BY <1>5 DEF Dials, TunnelInv, TunnelType, TunnelsApart, To, connection, tunnel, flow
  <2>3. TunnelSound(c)'
    <3>1. /\ stage'[c] = "tunnel" /\ upstream'[c] = "open" /\ held'[c] = held[c] /\ done'[c] = done[c]
          /\ cut'[c] = cut[c] /\ client'[c] = client[c] /\ broken'[c] = broken[c]
      BY <1>5 DEF Dials, TunnelInv, TunnelType, To, flow
    <3>2. \A d \in Directions : copier'[c][d] = "copying"
      BY <1>5 DEF Dials, TunnelInv, TunnelType
    <3>3. held[c] /\ done[c] = 0
      BY <1>5 DEF Dials, TunnelInv, TunnelType, TunnelSound
    <3> QED
      BY <3>1, <3>2, <3>3 DEF TunnelInv, TunnelType, TunnelSound
  <2> QED
    BY <2>1, <2>2, <2>3, OneTunnel
<1>6. ASSUME NEW c \in Connections, DialedInVain(c) PROVE TunnelInv'
  <2>1. TunnelType'
    BY <1>6 DEF DialedInVain, TunnelInv, TunnelType, Stages, To, connection, tunnel, flow
  <2>2. TunnelsApart(c)
    BY <1>6 DEF DialedInVain, TunnelInv, TunnelType, TunnelsApart, To, connection, tunnel, flow
  <2>3. TunnelSound(c)'
    BY <1>6 DEF DialedInVain, TunnelInv, TunnelType, TunnelSound, Settled, To, connection,
                tunnel, flow
  <2> QED
    BY <2>1, <2>2, <2>3, OneTunnel
<1>7. ASSUME NEW c \in Connections, Copies(c) PROVE TunnelInv'
  <2>1. TunnelType'
    BY <1>7 DEF Copies, TunnelInv, TunnelType, Stages, To, connection, tunnel, flow
  <2>2. TunnelsApart(c)
    BY <1>7 DEF Copies, TunnelInv, TunnelType, TunnelsApart, To, connection, tunnel, flow
  <2>3. TunnelSound(c)'
    BY <1>7 DEF Copies, TunnelInv, TunnelType, TunnelSound, Settled, To, connection, tunnel, flow
  <2> QED
    BY <2>1, <2>2, <2>3, OneTunnel
<1>8. ASSUME NEW c \in Connections, NEW d \in Directions, CopyEnds(c, d) PROVE TunnelInv'
  <2>1. TunnelType'
    BY <1>8 DEF CopyEnds, Exhausted, TunnelInv, TunnelType, Stages, To, connection, tunnel, flow
  <2>2. TunnelsApart(c)
    BY <1>8 DEF CopyEnds, Exhausted, TunnelInv, TunnelType, TunnelsApart, To, connection, tunnel,
                flow
  <2>3. TunnelSound(c)'
    BY <1>8 DEF CopyEnds, Exhausted, TunnelInv, TunnelType, TunnelSound, Settled, To, connection,
                tunnel, flow
  <2> QED
    BY <2>1, <2>2, <2>3, OneTunnel
<1>9. ASSUME NEW c \in Connections, NEW d \in Directions, CopyBreaks(c, d) PROVE TunnelInv'
  <2>1. TunnelType'
    BY <1>9 DEF CopyBreaks, TunnelInv, TunnelType, Stages, To, connection, tunnel, flow
  <2>2. TunnelsApart(c)
    BY <1>9 DEF CopyBreaks, TunnelInv, TunnelType, TunnelsApart, To, connection, tunnel, flow
  <2>3. TunnelSound(c)'
    BY <1>9 DEF CopyBreaks, TunnelInv, TunnelType, TunnelSound, Settled, To, connection, tunnel,
                flow
  <2> QED
    BY <2>1, <2>2, <2>3, OneTunnel
<1>10. ASSUME NEW c \in Connections, NEW d \in Directions, CopierReports(c, d) PROVE TunnelInv'
  <2>1. TunnelType'
    BY <1>10 DEF CopierReports, TunnelInv, TunnelType, Stages, To, connection, tunnel, flow
  <2>2. TunnelsApart(c)
    BY <1>10 DEF CopierReports, TunnelInv, TunnelType, TunnelsApart, To, connection, tunnel, flow
  <2>3. TunnelSound(c)'
    BY <1>10 DEF CopierReports, TunnelInv, TunnelType, TunnelSound, Settled, To, connection,
                 tunnel, flow
  <2> QED
    BY <2>1, <2>2, <2>3, OneTunnel
<1>11. ASSUME NEW c \in Connections, HandshakeSucceeds(c) PROVE TunnelInv'
  <2>1. TunnelType'
    BY <1>11 DEF HandshakeSucceeds, TunnelInv, TunnelType, Stages, To, connection, tunnel, flow
  <2>2. TunnelsApart(c)
    BY <1>11 DEF HandshakeSucceeds, TunnelInv, TunnelType, TunnelsApart, To, connection, tunnel,
                 flow
  <2>3. TunnelSound(c)'
    BY <1>11 DEF HandshakeSucceeds, TunnelInv, TunnelType, TunnelSound, Settled, To, connection,
                 tunnel, flow
  <2> QED
    BY <2>1, <2>2, <2>3, OneTunnel
<1>12. ASSUME NEW c \in Connections, UNCHANGED <<client, held, copier, done, upstream, flow>>,
              \/ stage[c] = "greeting" /\ To(c, "handshake")
              \/ stage[c] = "answering" /\ To(c, "plain")
       PROVE  TunnelInv'
  <2>1. TunnelType'
    BY <1>12 DEF TunnelInv, TunnelType, Stages, To, connection, tunnel, flow
  <2>2. TunnelsApart(c)
    BY <1>12 DEF TunnelInv, TunnelType, TunnelsApart, To, connection, tunnel, flow
  <2>3. TunnelSound(c)'
    BY <1>12 DEF TunnelInv, TunnelType, TunnelSound, Settled, To, connection, tunnel, flow
  <2> QED
    BY <2>1, <2>2, <2>3, OneTunnel
<1>13. ASSUME NEW c \in Connections, NEW q, NEW target, NEW outcome, Asks(c, q, target,
              outcome) PROVE TunnelInv'
  <2>1. TunnelType'
    BY <1>13 DEF Asks, TunnelInv, TunnelType, Stages, To, connection, tunnel, flow
  <2>2. TunnelsApart(c)
    BY <1>13 DEF Asks, TunnelInv, TunnelType, TunnelsApart, To, connection, tunnel, flow
  <2>3. TunnelSound(c)'
    BY <1>13 DEF Asks, TunnelInv, TunnelType, TunnelSound, Settled, To, connection, tunnel, flow
  <2> QED
    BY <2>1, <2>2, <2>3, OneTunnel
<1>14. ASSUME NEW c \in Connections, Leaves(c), UNCHANGED <<client, copier, done>>,
              stage[c] \notin {"tunnel", "over"}
       PROVE  TunnelInv'
  BY <1>14, LeavesTunnelInv
<1>15. ASSUME NEW c \in Connections, TunnelEnds(c) PROVE TunnelInv'
  BY <1>15, LeavesTunnelInv DEF TunnelEnds, TunnelOver
<1>16. ASSUME NEW c \in Connections, Greets(c) PROVE TunnelInv'
  BY <1>16, <1>14, <1>12 DEF Greets
<1>17. ASSUME NEW c \in Connections,
              \/ DialFails(c) \/ HandshakeFails(c) \/ ServeReturns(c)
              \/ PlainAborts(c) \/ PlainCloses(c)
       PROVE  TunnelInv'
  BY <1>17, <1>14 DEF DialFails, HandshakeFails, ServeReturns, PlainAborts, PlainCloses
<1>18. ASSUME NEW c \in Connections,
              \/ Accepts(c) \/ Handles(c) \/ Aborts(c) \/ InnerCloses(c)
              \/ \E q \in Requests : Reads(c, q)
       PROVE  UNCHANGED <<connection, tunnel>>
  BY <1>18 DEF Accepts, Handled, Handles, Aborts, InnerCloses, Reads
<1>19. CASE UNCHANGED vars
  BY <1>19, <1>1 DEF vars
<1>20. CASE Next /\ ~Quiet
  <2>1. PICK c \in Connections :
          \/ Begins(c) \/ ClientFinishes(c) \/ ClientCloses(c) \/ HostCloses(c) \/ HostSends(c)
          \/ HandlerRuns(c) \/ Copies(c)
          \/ \E d \in Directions : CopierRuns(c, d) \/ CopyBreaks(c, d)
          \/ HandshakeSucceeds(c) \/ HandshakeFails(c)
          \/ \E q \in Requests : Reads(c, q)
          \/ Handles(c) \/ Aborts(c) \/ InnerCloses(c) \/ PlainAborts(c) \/ PlainCloses(c)
    BY <1>20 DEF Next
  <2>2. CASE Begins(c)
    <3>1. ASSUME NEW q \in Requests, NEW h, AsksNoHost(c, q) \/ AsksEmbedded(c, q, h)
          PROVE  TunnelInv'
      BY <3>1, <1>13 DEF AsksNoHost, AsksEmbedded
    <3>2. ASSUME NEW q \in Requests, NEW s, AsksListener(c, q, s) PROVE TunnelInv'
      BY <3>2, <1>13 DEF AsksListener
    <3>. QED BY <2>2, <1>4, <3>1, <3>2 DEF Begins
  <2>3. CASE HandlerRuns(c)
    BY <2>3, <1>1, <1>5, <1>6, <1>12, <1>15, <1>16, <1>17, <1>18 DEF HandlerRuns, PlainAnswers,
       tunnel
  <2>4. CASE \E d \in Directions : CopierRuns(c, d) \/ CopyBreaks(c, d)
    BY <2>4, <1>8, <1>9, <1>10 DEF CopierRuns
  <2> QED
    BY <2>1, <2>2, <2>3, <2>4, <1>1, <1>2, <1>3, <1>7, <1>11, <1>17, <1>18, <1>19
<1> QED
  BY <1>19, <1>20 DEF Quiet

\* What the far host has sent through a tunnel before it closed reaches a client that goes on
\* listening, in whatever order the two copiers and the handler run.
THEOREM TunnelsDeliver == Spec => []NothingCut
<1>1. TunnelInv => NothingCut
  BY DEF TunnelInv, TunnelSound, NothingCut
<1> QED
  BY InitTunnelInv, NextTunnelInv, <1>1, PTL DEF Spec
-----------------------------------------------------------------------------
(* The http.Server of a decrypted connection *)

ServedType ==
  /\ stage \in [Connections -> Stages] /\ held \in [Connections -> BOOLEAN]
  /\ accepted \in [Connections -> BOOLEAN] /\ closed \in [Connections -> BOOLEAN]
  /\ inner \in [Connections -> {"none", "reading", "handling", "gone"}]

\* The server's goroutine is at work between the first Accept and the close of its
\* connection, and the handler waits for it.
ServedSound(c) ==
  /\ stage[c] # "over" => held[c]
  /\ inner[c] \in {"reading", "handling"} => stage[c] = "serving"
  /\ closed[c] => inner[c] = "gone"
  /\ ~accepted[c] => inner[c] = "none"

ServedInv == ServedType /\ \A c \in Connections : ServedSound(c)

\* No connection is decrypted at first.
LEMMA InitServedInv == Init => ServedInv
<1> SUFFICES ASSUME Init PROVE ServedInv
  OBVIOUS
<1>1. ServedType
  BY DEF Init, ServedType, Stages
<1>2. ASSUME NEW c \in Connections PROVE ServedSound(c)
  BY DEF Init, ServedSound
<1> QED
  BY <1>1, <1>2 DEF ServedInv

\* The stages that have nothing to do with the server.
LEMMA ServedElsewhere ==
  ASSUME ServedInv, UNCHANGED <<accepted, closed, inner>>, NEW c \in Connections, NEW to \in Stages,
         stage' = [stage EXCEPT ![c] = to],
         to # "over" => held' = held,
         held' = held \/ held' = [held EXCEPT ![c] = FALSE],
         stage[c] # "over", stage[c] = "serving" => closed[c]
  PROVE  ServedInv'
<1>1. ServedType'
  BY DEF ServedInv, ServedType
<1>2. stage'[c] = to /\ (to # "over" => held'[c] = held[c])
  BY DEF ServedInv, ServedType
<1>3. ServedSound(c)'
  BY <1>2 DEF ServedInv, ServedSound
<1>4. ASSUME NEW b \in Connections, b # c PROVE ServedSound(b)'
  <2>1. stage'[b] = stage[b] /\ held'[b] = held[b]
    BY <1>4 DEF ServedInv, ServedType
  <2> QED
    BY <2>1 DEF ServedInv, ServedSound
<1> QED
  BY <1>1, <1>3, <1>4 DEF ServedInv

\* The handler waits for the goroutine of the decrypted connection.
LEMMA NextServedInv ==
  ASSUME ServedInv, [Next]_vars
  PROVE  ServedInv'
<1>1. CASE UNCHANGED <<stage, held, accepted, closed, inner>>
  BY <1>1 DEF ServedInv, ServedType, ServedSound
<1>2. ASSUME NEW c \in Connections, Leaves(c), UNCHANGED <<accepted, closed, inner>>,
             stage[c] # "over", stage[c] = "serving" => closed[c]
      PROVE  ServedInv'
  BY <1>2, ServedElsewhere DEF Leaves, To, Stages
<1>3. ASSUME NEW c \in Connections,
             \/ \E h \in Hosts : Connects(c, h)
             \/ \E q, target, outcome : Asks(c, q, target, outcome)
             \/ Dials(c) \/ HandshakeSucceeds(c) \/ PlainAnswers(c)
      PROVE  ServedInv'
  BY <1>3, ServedElsewhere DEF Connects, Asks, Dials, HandshakeSucceeds, PlainAnswers, To, Stages,
                               served
<1>4. ASSUME NEW c \in Connections,
             \/ DialFails(c) \/ TunnelEnds(c) \/ HandshakeFails(c) \/ ServeReturns(c)
             \/ PlainAborts(c) \/ PlainCloses(c)
      PROVE  ServedInv'
  BY <1>4, <1>2 DEF DialFails, TunnelEnds, HandshakeFails, ServeReturns, PlainAborts, PlainCloses,
                    SecondAccept, served
<1>5. ASSUME NEW c \in Connections, Greets(c) PROVE ServedInv'
  <2>1. CASE Leaves(c)
    BY <1>5, <2>1, <1>2 DEF Greets, served
  <2>2. CASE To(c, "handshake") /\ UNCHANGED held
    BY <1>5, <2>2, ServedElsewhere DEF Greets, To, Stages, served
  <2> QED
    BY <1>5, <2>1, <2>2 DEF Greets
<1>6. ASSUME NEW c \in Connections, DialedInVain(c) PROVE ServedInv'
  BY <1>6, ServedElsewhere DEF DialedInVain, To, Stages, served
<1>7. ASSUME NEW c \in Connections,
             \/ Accepts(c) \/ Handles(c) \/ Aborts(c) \/ InnerCloses(c)
             \/ \E q \in Requests : Reads(c, q)
      PROVE  ServedInv'
  <2>1. CASE Accepts(c)
    <3>1. ServedType'
      BY <2>1 DEF Accepts, connection, ServedInv, ServedType
    <3>2. \A b \in Connections : ServedSound(b)'
      BY <2>1 DEF Accepts, connection, ServedInv, ServedType, ServedSound
    <3> QED
      BY <3>1, <3>2 DEF ServedInv
  <2>2. CASE Handles(c)
    <3>1. ServedType'
      BY <2>2 DEF Handled, Handles, connection, ServedInv, ServedType
    <3>2. \A b \in Connections : ServedSound(b)'
      BY <2>2 DEF Handled, Handles, connection, ServedInv, ServedType, ServedSound
    <3> QED
      BY <3>1, <3>2 DEF ServedInv
  <2>3. CASE Aborts(c)
    <3>1. ServedType'
      BY <2>3 DEF Handled, Aborts, connection, ServedInv, ServedType
    <3>2. \A b \in Connections : ServedSound(b)'
      BY <2>3 DEF Handled, Aborts, connection, ServedInv, ServedType, ServedSound
    <3> QED
      BY <3>1, <3>2 DEF ServedInv
  <2>4. CASE InnerCloses(c)
    <3>1. ServedType'
      BY <2>4 DEF InnerCloses, connection, ServedInv, ServedType
    <3>2. \A b \in Connections : ServedSound(b)'
      BY <2>4 DEF InnerCloses, connection, ServedInv, ServedType, ServedSound
    <3> QED
      BY <3>1, <3>2 DEF ServedInv
  <2>5. CASE \E q \in Requests : Reads(c, q)
    <3>1. ServedType'
      BY <2>5 DEF Reads, connection, ServedInv, ServedType
    <3>2. \A b \in Connections : ServedSound(b)'
      BY <2>5 DEF Reads, connection, ServedInv, ServedType, ServedSound
    <3> QED
      BY <3>1, <3>2 DEF ServedInv
  <2> QED
    BY <1>7, <2>1, <2>2, <2>3, <2>4, <2>5
<1>8. ASSUME NEW c \in Connections,
             \/ ClientFinishes(c) \/ ClientCloses(c) \/ HostCloses(c) \/ HostSends(c) \/ Copies(c)
             \/ \E d \in Directions : CopyEnds(c, d) \/ CopyBreaks(c, d) \/ CopierReports(c, d)
      PROVE  UNCHANGED <<stage, held, accepted, closed, inner>>
  BY <1>8 DEF ClientFinishes, ClientCloses, HostCloses, HostSends, Copies, CopyEnds, CopyBreaks,
              CopierReports, connection, served
<1>9. CASE UNCHANGED vars
  BY <1>9, <1>1 DEF vars, connection, served
<1>10. CASE Next /\ ~Quiet
  <2>1. PICK c \in Connections :
          \/ Begins(c) \/ ClientFinishes(c) \/ ClientCloses(c) \/ HostCloses(c) \/ HostSends(c)
          \/ HandlerRuns(c) \/ Copies(c)
          \/ \E d \in Directions : CopierRuns(c, d) \/ CopyBreaks(c, d)
          \/ HandshakeSucceeds(c) \/ HandshakeFails(c)
          \/ \E q \in Requests : Reads(c, q)
          \/ Handles(c) \/ Aborts(c) \/ InnerCloses(c) \/ PlainAborts(c) \/ PlainCloses(c)
    BY <1>10 DEF Next
  <2>2. CASE Begins(c)
    <3>1. ASSUME NEW q \in Requests, NEW h, AsksNoHost(c, q) \/ AsksEmbedded(c, q, h)
          PROVE  ServedInv'
      BY <3>1, <1>3 DEF AsksNoHost, AsksEmbedded
    <3>2. ASSUME NEW q \in Requests, NEW s, AsksListener(c, q, s) PROVE ServedInv'
      BY <3>2, <1>3 DEF AsksListener
    <3> QED
      BY <2>2, <3>1, <3>2, <1>3 DEF Begins
  <2>3. CASE HandlerRuns(c)
    BY <2>3, <1>3, <1>4, <1>5, <1>6, <1>7 DEF HandlerRuns
  <2>4. CASE \E d \in Directions : CopierRuns(c, d) \/ CopyBreaks(c, d)
    BY <2>4, <1>1, <1>8 DEF CopierRuns
  <2> QED
    BY <2>1, <2>2, <2>3, <2>4, <1>1, <1>3, <1>4, <1>7, <1>8
<1> QED
  BY <1>9, <1>10 DEF Quiet

\* A request on a decrypted connection is answered before the connection is closed.
THEOREM RequestsAreServed == Spec => []ServedToTheEnd
<1>1. ServedInv => ServedToTheEnd
  BY DEF ServedInv, ServedSound, ServedToTheEnd
<1> QED
  BY InitServedInv, NextServedInv, <1>1, PTL DEF Spec
-----------------------------------------------------------------------------
(* Destinations *)

\* An answer of the proxy's own is no call, and no override has no host.
LEMMA AnswerIsNoCall ==
  /\ ~IsCall(Answer(200)) /\ ~IsCall(Answer(204)) /\ ~IsCall(Answer(501)) /\ ~IsCall(Answer(502))
  /\ ~IsCall(Answer(400)) /\ ~IsCall(Answer(403))
  /\ NoOverride.base = ""
BY DEF IsCall, Answer, NoOverride, Override

\* Whatever the pipeline of the forward proxy calls is the host of the override, under the
\* request's path and with its credential.
LEMMA PipelineGoes ==
  ASSUME NEW o, NEW q, o.base # "", o.auth = q.auth,
         IsCall(Pipeline(ForwardServer, q, o))
  PROVE  Pipeline(ForwardServer, q, o) = Call(o.base, q.path, q.auth)
<1>1. o # NoOverride
  BY AnswerIsNoCall
<1>2. ForwardServer.kind = "forward" /\ ForwardServer.base = "" /\ ForwardServer.key = ""
  BY DEF ForwardServer, Server
<1>3. Base(ForwardServer, o) = o.base
  BY <1>1 DEF Base
<1>4. Credential(ForwardServer, o) = q.auth
  BY <1>2 DEF Credential
<1>5. Reaching(o.base, q.path, q.auth) = Call(o.base, q.path, q.auth)
  BY DEF Reaching
<1>6. ~IsCall(Answer(501)) /\ ~IsCall(Answer(502))
  BY AnswerIsNoCall
<1>7. CASE q.path \in ChatPaths
  <2>1. Pipeline(ForwardServer, q, o) = Classified(ForwardServer, "chat", q, o)
    BY <1>7 DEF Pipeline, ChatPaths, ModelsPaths
  <2>2. PostUpstream(ForwardServer, q.path) = Answer(502)
    BY <1>2 DEF PostUpstream, Reaching
  <2>3. \/ Classified(ForwardServer, "chat", q, o) = Reaching(o.base, q.path, q.auth)
        \/ Classified(ForwardServer, "chat", q, o) = Answer(502)
    BY <2>2, <1>1, <1>3, <1>4 DEF Classified
  <2> QED
    BY <2>1, <2>3, <1>5, <1>6
<1>8. CASE q.path \in ModelsPaths
  <2>1. Pipeline(ForwardServer, q, o) = HandleModels(ForwardServer, q, o)
    BY <1>8 DEF Pipeline, ChatPaths, ModelsPaths
  <2>2. HandleModels(ForwardServer, q, o) = Reaching(o.base, q.path, q.auth)
    BY <1>1, <1>2, <1>3, <1>4 DEF HandleModels
  <2> QED
    BY <2>1, <2>2, <1>5
<1>9. CASE q.path \notin ChatPaths /\ q.path \notin ModelsPaths
  <2>1. \/ Pipeline(ForwardServer, q, o) = Passthrough(o.base, q)
        \/ Pipeline(ForwardServer, q, o) = Answer(501)
    BY <1>9 DEF Pipeline
  <2> QED
    BY <2>1, <1>5, <1>6 DEF Passthrough
<1> QED
  BY <1>7, <1>8, <1>9

\* Whatever a plain listener calls is its own backend.
LEMMA MuxGoes ==
  ASSUME NEW s, NEW q, IsCall(Mux(s, q))
  PROVE  Mux(s, q).to = s.base
<1>1. Base(s, NoOverride) = s.base
  BY DEF Base
<1>2. ASSUME NEW path, NEW auth, IsCall(Reaching(s.base, path, auth))
      PROVE  Reaching(s.base, path, auth).to = s.base
  BY <1>2 DEF Reaching, IsCall, Answer, Call
<1>3. ~IsCall(Answer(200)) /\ ~IsCall(Answer(501))
  BY AnswerIsNoCall
<1>4. ASSUME NEW kind, IsCall(Classified(s, kind, q, NoOverride))
      PROVE  Classified(s, kind, q, NoOverride).to = s.base
  BY <1>1, <1>2, <1>4 DEF Classified, PostUpstream
<1>5. ASSUME IsCall(HandleModels(s, q, NoOverride))
      PROVE  HandleModels(s, q, NoOverride).to = s.base
  BY <1>1, <1>2, <1>5 DEF HandleModels, Passthrough
<1>6. ASSUME IsCall(Passthrough(s.base, q)) PROVE Passthrough(s.base, q).to = s.base
  BY <1>2, <1>6 DEF Passthrough
<1>7. CASE q.path = "/v1/chat/completions"
  <2>1. Mux(s, q) = Classified(s, "chat", q, NoOverride)
    BY <1>7 DEF Mux
  <2> QED
    BY <2>1, <1>4
<1>8. CASE q.path = "/v1/models"
  <2>1. Mux(s, q) = HandleModels(s, q, NoOverride)
    BY <1>8 DEF Mux
  <2> QED
    BY <2>1, <1>5
<1>9. CASE q.path = "/completion" /\ s.kind = "local"
  <2>1. Mux(s, q) = Classified(s, "completion", q, NoOverride)
    BY <1>9 DEF Mux
  <2> QED
    BY <2>1, <1>4
<1>10. CASE q.path \notin {"/v1/chat/completions",
     "/v1/models"} /\ ~(q.path = "/completion" /\ s.kind = "local")
  <2>1. Mux(s, q) \in {Answer(200), Answer(501), Passthrough(s.base, q)}
    BY <1>10 DEF Mux
  <2> QED
    BY <2>1, <1>3, <1>6
<1> QED
  BY <1>7, <1>8, <1>9, <1>10

\* What SentAsAsked says of one request.
Meant(x) ==
  IsCall(x.outcome) =>
    /\ x.outcome.to = x.target /\ ~x.request.preflight
    /\ x.target \in Hosts => /\ x.target \in Listed /\ x.outcome.path = x.request.path
                             /\ x.outcome.auth = x.request.auth

Exchange(target, q, outcome) == [target |-> target, request |-> q, outcome |-> outcome]

\* It is known whether a request is a preflight.
Flagged(q) == q.preflight \in BOOLEAN

\* A preflight request is answered on the spot; the others pass the CORS layer unchanged.
LEMMA PreflightIsAnswered ==
  ASSUME NEW q, q.preflight \in BOOLEAN, NEW x, IsCall(WithCORS(q, x))
  PROVE  WithCORS(q, x) = x /\ ~q.preflight
<1>1. ~IsCall(Answer(204))
  BY AnswerIsNoCall
<1>2. CASE q.preflight
  BY <1>1, <1>2 DEF WithCORS
<1>3. CASE ~q.preflight
  BY <1>3 DEF WithCORS
<1> QED
  BY <1>2, <1>3

\* What the pipeline makes of a request for a listed host is meant.
LEMMA PipelineMeant ==
  ASSUME NEW h \in Listed, NEW q, Flagged(q), NEW o, o.base = h, o.auth = q.auth
  PROVE  Meant(Exchange(h, q, WithCORS(q, Pipeline(ForwardServer, q, o))))
<1> DEFINE x == Pipeline(ForwardServer, q, o)
<1>1. h # ""
  BY ForwardProxyAssumption
<1>2. IsCall(x) => x = Call(h, q.path, q.auth)
  BY <1>1, PipelineGoes
<1> HIDE DEF x
<1>3. IsCall(WithCORS(q, x)) => WithCORS(q, x) = Call(h, q.path, q.auth) /\ ~q.preflight
  BY <1>2, PreflightIsAnswered DEF Flagged
<1>4. Meant(Exchange(h, q, WithCORS(q, x)))
  BY <1>3 DEF Meant, Exchange, Call
<1> QED
  BY <1>4 DEF x

\* What a plain listener makes of a request is meant.
LEMMA ListenerMeant ==
  ASSUME NEW s \in Listeners, NEW q, Flagged(q)
  PROVE  Meant(Exchange(s.base, q, WithCORS(q, Mux(s, q))))
<1>1. s.base \notin Hosts
  BY ForwardProxyAssumption
<1> QED
  BY <1>1, PreflightIsAnswered, MuxGoes DEF Flagged, Meant, Exchange

\* A connection whose TLS is terminated is one to a listed host.
SentInv ==
  /\ stage \in [Connections -> Stages] /\ DOMAIN host = Connections /\ DOMAIN sent = Connections
  /\ \A c \in Connections : Flagged(request[c])
  /\ \A c \in Connections : stage[c] \in {"greeting", "handshake", "serving"} => host[c] \in Listed
  /\ \A c \in Connections : \A x \in sent[c] : Meant(x)

\* No request has been asked yet.
LEMMA InitSentInv == Init => SentInv
<1> SUFFICES ASSUME Init PROVE SentInv
  OBVIOUS
<1>1. stage = [c \in Connections |-> "new"]
  BY DEF Init
<1>2. host = [c \in Connections |-> ""] /\ sent = [c \in Connections |-> {}]
  BY DEF Init
<1>3. request = [c \in Connections |-> NoRequest]
  BY DEF Init
<1>4. NoRequest.preflight = FALSE
  BY DEF NoRequest
<1>5. stage \in [Connections -> Stages]
  BY <1>1 DEF Stages
<1>6. \A c \in Connections : Flagged(request[c])
  BY <1>3, <1>4 DEF Flagged
<1>7. \A c \in Connections : stage[c] = "new" /\ sent[c] = {}
  BY <1>1, <1>2
<1> QED
  BY <1>2, <1>5, <1>6, <1>7 DEF SentInv

\* A request that has been answered as meant, beside those before it.
LEMMA RecordsMeant ==
  ASSUME SentInv, NEW c \in Connections, NEW target, NEW q, NEW outcome,
         Records(c, target, q, outcome), Meant(Exchange(target, q, outcome))
  PROVE  DOMAIN sent' = Connections /\ \A b \in Connections : \A x \in sent'[b] : Meant(x)
<1>1. sent' = [sent EXCEPT ![c] = @ \union {Exchange(target, q, outcome)}]
  BY DEF Records, Exchange
<1>2. \A b \in Connections : sent'[b] \subseteq sent[b] \union {Exchange(target, q, outcome)}
  BY <1>1 DEF SentInv
<1> QED
  BY <1>1, <1>2 DEF SentInv

\* The stages through which a connection goes without a request.
LEMMA StageKeepsSentInv ==
  ASSUME SentInv, NEW c \in Connections, NEW to \in Stages, stage' = [stage EXCEPT ![c] = to],
         UNCHANGED <<host, request, sent>>,
         to \in {"greeting", "handshake", "serving"} => stage[c] \in {"greeting", "handshake",
              "serving"}
  PROVE  SentInv'
BY DEF SentInv

\* Every request that is recorded is meant.
LEMMA NextSentInv ==
  ASSUME SentInv, ServedInv, [Next]_vars
  PROVE  SentInv'
<1>1. CASE UNCHANGED <<stage, host, request, sent>>
  BY <1>1 DEF SentInv
<1>2. ASSUME NEW c \in Connections, NEW h \in Hosts, Connects(c, h) PROVE SentInv'
  <2>1. UNCHANGED <<request, sent>> /\ DOMAIN host' = Connections /\ host'[c] = h
    BY <1>2 DEF Connects, traffic, SentInv
  <2>2. stage' = [stage EXCEPT ![c] = IF h \in Listed THEN "greeting" ELSE "dialing"]
    BY <1>2 DEF Connects, To
  <2>3. stage' \in [Connections -> Stages]
    BY <2>2 DEF SentInv, Stages
  <2>4. \A b \in Connections : b # c => stage'[b] = stage[b] /\ host'[b] = host[b]
    BY <1>2 DEF Connects, To, SentInv
  <2>5. stage'[c] \in {"greeting", "handshake", "serving"} => h \in Listed
    BY <2>2 DEF SentInv
  <2> QED
    BY <2>1, <2>3, <2>4, <2>5 DEF SentInv
<1>3. ASSUME NEW c \in Connections,
             \/ Leaves(c) /\ UNCHANGED <<host, request, sent>>
             \/ Dials(c) \/ DialedInVain(c) \/ HandshakeSucceeds(c) \/ Greets(c) \/ PlainAnswers(c)
      PROVE  SentInv'
  <2>1. UNCHANGED <<host, request, sent>>
    BY <1>3 DEF Dials, DialedInVain, HandshakeSucceeds, Greets, PlainAnswers, traffic
  <2>2. \/ stage' = [stage EXCEPT ![c] = "over"] \/ stage' = [stage EXCEPT ![c] = "tunnel"]
        \/ stage' = [stage EXCEPT ![c] = "plain"]
        \/ stage[c] = "greeting" /\ stage' = [stage EXCEPT ![c] = "handshake"]
        \/ stage[c] = "handshake" /\ stage' = [stage EXCEPT ![c] = "serving"]
    BY <1>3 DEF Leaves, Dials, DialedInVain, HandshakeSucceeds, Greets, PlainAnswers, To
  <2> QED
    BY <2>1, <2>2, StageKeepsSentInv DEF Stages
<1>4. ASSUME NEW c \in Connections,
             \/ DialFails(c) \/ TunnelEnds(c) \/ HandshakeFails(c) \/ ServeReturns(c)
             \/ PlainAborts(c) \/ PlainCloses(c)
      PROVE  SentInv'
  BY <1>4, <1>3 DEF DialFails, TunnelEnds, HandshakeFails, ServeReturns, PlainAborts, PlainCloses,
                    traffic
<1>5. ASSUME NEW c \in Connections, NEW q \in Requests, NEW target, NEW outcome,
             Asks(c, q, target, outcome), Meant(Exchange(target, q, outcome))
      PROVE  SentInv'
  <2>1. stage' = [stage EXCEPT ![c] = "answering"] /\ UNCHANGED <<host, request>>
    BY <1>5 DEF Asks, To
  <2>2. stage' \in [Connections -> Stages]
    BY <2>1 DEF SentInv, Stages
  <2>3. DOMAIN sent' = Connections /\ \A b \in Connections : \A x \in sent'[b] : Meant(x)
    BY <1>5, RecordsMeant DEF Asks
  <2>4. \A b \in Connections : stage'[b] \in {"greeting", "handshake",
       "serving"} => host[b] \in Listed
    BY <2>1 DEF SentInv
  <2> QED
    BY <2>1, <2>2, <2>3, <2>4 DEF SentInv
<1>6. ASSUME NEW c \in Connections, NEW q \in Requests,
             AsksNoHost(c, q) \/ \E h \in Hosts : AsksEmbedded(c, q, h)
      PROVE  SentInv'
  <2>1. Flagged(q)
    BY ForwardProxyAssumption DEF Flagged
  <2>2. ASSUME NEW h, NEW x, ~IsCall(x), Asks(c, q, h, x) PROVE SentInv'
    <3>1. Meant(Exchange(h, q, x))
      BY <2>2 DEF Meant, Exchange
    <3> QED
      BY <2>2, <3>1, <1>5
  <2>3. CASE AsksNoHost(c, q)
    <3>1. Asks(c, q, "", Answer(400)) /\ ~IsCall(Answer(400))
      BY <2>3, AnswerIsNoCall DEF AsksNoHost
    <3> QED
      BY <2>2, <3>1
  <2>4. ASSUME NEW h \in Hosts, AsksEmbedded(c, q, h), h \notin Listed PROVE SentInv'
    <3>1. Asks(c, q, h, Answer(403)) /\ ~IsCall(Answer(403))
      BY <2>4, AnswerIsNoCall DEF AsksEmbedded
    <3> QED
      BY <2>2, <3>1
  <2>5. ASSUME NEW h \in Hosts, AsksEmbedded(c, q, h), h \in Listed PROVE SentInv'
    <3>1. PICK o : o = Intercepted(h, q)
      OBVIOUS
    <3>2. PICK x : x = WithCORS(q, Pipeline(ForwardServer, q, o))
      OBVIOUS
    <3> o.base = h /\ o.auth = q.auth
      BY <3>1 DEF Intercepted, Override
    <3>3. Asks(c, q, h, x)
      BY <2>5, <3>1, <3>2 DEF AsksEmbedded
    <3>4. Meant(Exchange(h, q, x))
      BY <2>1, <2>5, <3>2, PipelineMeant
    <3> QED
      BY <3>3, <3>4, <1>5
  <2> QED
    BY <1>6, <2>3, <2>4, <2>5
<1>7. ASSUME NEW c \in Connections, NEW q \in Requests, NEW s \in Listeners, AsksListener(c, q, s)
      PROVE  SentInv'
  <2>1. Flagged(q)
    BY ForwardProxyAssumption DEF Flagged
  <2> QED
    BY <2>1, <1>7, ListenerMeant, <1>5 DEF AsksListener
<1>8. ASSUME NEW c \in Connections, NEW q \in Requests, Reads(c, q) PROVE SentInv'
  <2>1. Flagged(q)
    BY ForwardProxyAssumption DEF Flagged
  <2>2. UNCHANGED <<stage, host, sent>> /\ request' = [request EXCEPT ![c] = q]
    BY <1>8 DEF Reads, connection
  <2> QED
    BY <2>1, <2>2 DEF SentInv
<1>9. ASSUME NEW c \in Connections, Handles(c) \/ Aborts(c) PROVE SentInv'
  <2>0. Handled(c)
    BY <1>9 DEF Handles, Aborts
  <2>1. UNCHANGED <<stage, host, request>>
    BY <2>0 DEF Handled, connection
  <2>2. host[c] \in Listed /\ Flagged(request[c])
    BY <2>0 DEF Handled, SentInv, ServedInv, ServedSound
  <2>3. PICK o : o = Tag(c)
    OBVIOUS
  <2>4. o.base = host[c] /\ o.auth = request[c].auth
    BY <2>3 DEF Tag, Intercepted, Override
  <2>5. Records(c, host[c], request[c], WithCORS(request[c], Pipeline(ForwardServer, request[c],
       o)))
    BY <2>0, <2>3 DEF Handled
  <2>6. DOMAIN sent' = Connections /\ \A b \in Connections : \A x \in sent'[b] : Meant(x)
    BY <2>2, <2>4, <2>5, PipelineMeant, RecordsMeant
  <2> QED
    BY <2>1, <2>6 DEF SentInv
<1>10. ASSUME NEW c \in Connections,
              \/ ClientFinishes(c) \/ ClientCloses(c) \/ HostCloses(c) \/ HostSends(c) \/ Copies(c)
              \/ \E d \in Directions : CopyEnds(c, d) \/ CopyBreaks(c, d) \/ CopierReports(c, d)
              \/ Accepts(c) \/ InnerCloses(c)
       PROVE  UNCHANGED <<stage, host, request, sent>>
  BY <1>10 DEF ClientFinishes, ClientCloses, HostCloses, HostSends, Copies, CopyEnds, CopyBreaks,
               CopierReports, Accepts, InnerCloses, connection, traffic
<1>11. CASE UNCHANGED vars
  BY <1>11, <1>1 DEF vars, connection, traffic
<1>12. CASE Next /\ ~Quiet
  <2>1. PICK c \in Connections :
          \/ Begins(c) \/ ClientFinishes(c) \/ ClientCloses(c) \/ HostCloses(c) \/ HostSends(c)
          \/ HandlerRuns(c) \/ Copies(c)
          \/ \E d \in Directions : CopierRuns(c, d) \/ CopyBreaks(c, d)
          \/ HandshakeSucceeds(c) \/ HandshakeFails(c)
          \/ \E q \in Requests : Reads(c, q)
          \/ Handles(c) \/ Aborts(c) \/ InnerCloses(c) \/ PlainAborts(c) \/ PlainCloses(c)
    BY <1>12 DEF Next
  <2>2. CASE Begins(c)
    BY <2>2, <1>2, <1>6, <1>7 DEF Begins
  <2>3. CASE HandlerRuns(c)
    BY <2>3, <1>1, <1>3, <1>4, <1>10 DEF HandlerRuns
  <2>4. CASE \E d \in Directions : CopierRuns(c, d) \/ CopyBreaks(c, d)
    BY <2>4, <1>1, <1>10 DEF CopierRuns
  <2> QED
    BY <2>1, <2>2, <2>3, <2>4, <1>1, <1>3, <1>4, <1>8, <1>9, <1>10
<1> QED
  BY <1>11, <1>12 DEF Quiet

\* A request that is called upstream goes where its client meant it to go, with the credential
\* of that client or of that backend: over a decrypted connection with any number of requests,
\* in the CORS style, and on the plain listeners.
THEOREM CallsAreMeant == Spec => []SentAsAsked
<1>1. SentInv => SentAsAsked
  BY DEF SentInv, SentAsAsked, Meant
<1>2. ServedInv /\ SentInv /\ [Next]_vars => ServedInv' /\ SentInv'
  BY NextServedInv, NextSentInv
<1> QED
  BY InitServedInv, InitSentInv, <1>1, <1>2, PTL DEF Spec
=============================================================================
