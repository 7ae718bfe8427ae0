-------------------------- MODULE SupervisorProofs --------------------------
(***************************************************************************)
(* Theorems about Supervisor, for every set of listeners and settings and  *)
(* any number of starts, faults and restarts.                              *)
(***************************************************************************)
EXTENDS Supervisor, TLAPS

\* IPv4 is one of the addresses a listener binds.
LEMMA HasIPv4 == "v4" \in Hosts
BY SupervisorAssumption

\* A saved entry is typed if the setting in it is.
LEMMA EntryType ==
  ASSUME NEW r \in BOOLEAN, NEW v \in Switches
  PROVE  /\ [running |-> r, switches |-> v] \in [running : BOOLEAN, switches : Switches]
         /\ [running |-> r, switches |-> v].switches = v
OBVIOUS

\* The file as persist leaves it: as it was, or with an entry for every registered listener.
LEMMA PersistWrites ==
  ASSUME Persist, registered \subseteq Names, faults \in 0..MaxFaults, diskFault \in BOOLEAN,
         running' \in [Names -> BOOLEAN], switches' \in [Names -> Switches]
  PROVE  /\ \/ /\ DOMAIN disk' = registered /\ diskFault' = diskFault
               /\ \A n \in registered : /\ disk'[n] \in [running : BOOLEAN, switches : Switches]
                                        /\ disk'[n].switches = switches'[n]
            \/ disk' = disk /\ diskFault' = TRUE
         /\ faults' \in 0..MaxFaults /\ diskFault' \in BOOLEAN
<1>1. CASE /\ disk' = [n \in registered |-> [running |-> running'[n], switches |-> switches'[n]]]
           /\ UNCHANGED <<diskFault, faults>>
  <2>1. ASSUME NEW n \in registered
        PROVE  /\ disk'[n] \in [running : BOOLEAN, switches : Switches]
               /\ disk'[n].switches = switches'[n]
    <3>1. running'[n] \in BOOLEAN /\ switches'[n] \in Switches
      OBVIOUS
    <3>2. disk'[n] = [running |-> running'[n], switches |-> switches'[n]]
      BY <1>1
    <3>. QED BY <3>1, <3>2, EntryType
  <2>. QED BY <1>1, <2>1
<1>2. CASE UNCHANGED disk /\ diskFault' = TRUE /\ Fault
  BY <1>2, SupervisorAssumption DEF Fault
<1>. QED BY <1>1, <1>2 DEF Persist

\* What a Go value of each group of variables looks like, as TypeOK says.
ListenersTyped ==
  /\ {running, lastErr} \subseteq [Names -> BOOLEAN]
  /\ server \in [Names -> 0..starts] /\ starts \in Nat
  /\ socks \subseteq [n : Names, h : Hosts, gen : 1..starts, serving : BOOLEAN]
  /\ dying \subseteq [n : Names, h : Hosts, gen : 1..starts, serving : BOOLEAN]
  /\ stopping \subseteq [n : Names, gen : 1..starts, shut : BOOLEAN, exit : BOOLEAN]
  /\ switches \in [Names -> Switches]

FileTyped ==
  /\ DOMAIN disk \subseteq Names
  /\ \A n \in DOMAIN disk : disk[n] \in [running : BOOLEAN, switches : Switches]
  /\ diskFault \in BOOLEAN /\ faults \in 0..MaxFaults

RestTyped ==
  /\ phase \in {"down", "restoring", "autostart", "up", "exiting"}
  /\ registered \subseteq Names /\ todo \subseteq registered
  /\ chosen \in [Names -> Switches]
  /\ left \subseteq Names /\ missed \subseteq Names /\ abandoned \subseteq 1..starts

\* A running listener has a server of its own: no other listener and no Stop that is still
\* at work has the same one.
OwnServer ==
  /\ \A n \in Names : running[n] => server[n] \in 1..starts
  /\ \A n, m \in Names : running[n] /\ running[m] /\ server[n] = server[m] => n = m
  /\ \A n \in Names : running[n] => \A c \in stopping : c.gen # server[n]

\* TypeOK is the three groups together.
LEMMA TypeParts == TypeOK <=> ListenersTyped /\ FileTyped /\ RestTyped
BY DEF TypeOK, ListenersTyped, FileTyped, RestTyped

\* The invariant of the listeners and their sockets.
SockInv == ListenersTyped /\ OwnServer /\ RunningMeansServing /\ StoppedPortsFree

\* A step that leaves the listeners alone keeps it.
LEMMA SockFrame ==
  ASSUME SockInv, UNCHANGED <<running, server, starts, socks, dying, stopping, abandoned>>,
         lastErr' \in [Names -> BOOLEAN], switches' \in [Names -> Switches]
  PROVE  SockInv'
<1>1. ListenersTyped'
  BY DEF SockInv, ListenersTyped
<1>2. OwnServer' /\ RunningMeansServing' /\ StoppedPortsFree'
  BY DEF SockInv, OwnServer, RunningMeansServing, StoppedPortsFree
<1>. QED BY <1>1, <1>2 DEF SockInv

\* A start binds at least IPv4, under a number no server or socket has had.
LEMMA StartedKeeps ==
  ASSUME SockInv, NEW n \in Names, Started(n), UNCHANGED abandoned,
         abandoned \subseteq 1..starts
  PROVE  SockInv'
<1>0. /\ running \in [Names -> BOOLEAN] /\ lastErr \in [Names -> BOOLEAN] /\ starts \in Nat
      /\ server \in [Names -> 0..starts]
  BY DEF SockInv, ListenersTyped
<1>1. /\ ~running[n] /\ starts' = starts + 1
      /\ server' = [server EXCEPT ![n] = starts + 1]
      /\ running' = [running EXCEPT ![n] = TRUE]
      /\ lastErr' = [lastErr EXCEPT ![n] = FALSE]
      /\ UNCHANGED <<dying, stopping, switches>>
  BY DEF Started
<1>2. \E hs \in SUBSET Hosts : /\ "v4" \in hs
                               /\ socks' = socks \cup {Sock(n, h) : h \in hs}
  <2>1. PICK hs \in {{"v4"}, Hosts \ (Bound(n) \cap {"v6"})} :
               socks' = socks \cup {Sock(n, h) : h \in hs}
    BY DEF Started
  <2>. QED BY <2>1, HasIPv4
<1>3. PICK hs \in SUBSET Hosts : /\ "v4" \in hs
                                 /\ socks' = socks \cup {Sock(n, h) : h \in hs}
  BY <1>2
<1>4. \A h \in hs : /\ Sock(n, h) \in [n : Names, h : Hosts, gen : 1..starts', serving : BOOLEAN]
                    /\ Sock(n, h).n = n /\ Sock(n, h).h = h /\ Sock(n, h).gen = starts + 1
  BY <1>0, <1>1 DEF Sock
<1>5. 1..starts \subseteq 1..starts' /\ starts' \in Nat
  BY <1>0, <1>1
<1>6. ListenersTyped'
  <2>1. server' \in [Names -> 0..starts']
    BY <1>0, <1>1
  <2>2. socks' \subseteq [n : Names, h : Hosts, gen : 1..starts', serving : BOOLEAN]
    <3>1. socks \subseteq [n : Names, h : Hosts, gen : 1..starts', serving : BOOLEAN]
      BY <1>5 DEF SockInv, ListenersTyped
    <3>. QED BY <1>3, <1>4, <3>1
  <2>3. dying' \subseteq [n : Names, h : Hosts, gen : 1..starts', serving : BOOLEAN]
    BY <1>1, <1>5 DEF SockInv, ListenersTyped
  <2>4. stopping' \subseteq [n : Names, gen : 1..starts', shut : BOOLEAN, exit : BOOLEAN]
    BY <1>1, <1>5 DEF SockInv, ListenersTyped
  <2>5. running' \in [Names -> BOOLEAN] /\ lastErr' \in [Names -> BOOLEAN]
    BY <1>0, <1>1
  <2>6. switches' \in [Names -> Switches]
    BY <1>1 DEF SockInv, ListenersTyped
  <2>. QED BY <1>5, <2>1, <2>2, <2>3, <2>4, <2>5, <2>6 DEF ListenersTyped
<1>7. /\ server'[n] = starts + 1 /\ running'[n]
      /\ \A m \in Names : m # n => server'[m] = server[m] /\ (running'[m] <=> running[m])
  BY <1>0, <1>1
<1>8. OwnServer'
  <2>1. \A m \in Names : m # n /\ running'[m] => server'[m] \in 1..starts
    BY <1>7 DEF SockInv, OwnServer
  <2>2. \A m \in Names : running'[m] => server'[m] \in 1..starts'
    BY <1>0, <1>1, <1>7, <2>1
  <2>3. \A m \in Names : running'[m] /\ server'[m] = starts + 1 => m = n
    BY <1>0, <2>1
  <2>4. \A c \in stopping : c.gen \in 1..starts
    BY DEF SockInv, ListenersTyped
  <2>5. \A m \in Names : running'[m] => \A c \in stopping : c.gen # server'[m]
    <3>. SUFFICES ASSUME NEW m \in Names, running'[m], NEW c \in stopping
                  PROVE  c.gen # server'[m]
      OBVIOUS
    <3>1. CASE m = n
      BY <1>0, <1>7, <2>4, <3>1
    <3>2. CASE m # n
      BY <1>7, <3>2 DEF SockInv, OwnServer
    <3>. QED BY <3>1, <3>2
  <2>6. \A m, k \in Names : running'[m] /\ running'[k] /\ server'[m] = server'[k] => m = k
    BY <1>7, <2>3 DEF SockInv, OwnServer
  <2>. QED BY <1>1, <2>2, <2>5, <2>6 DEF OwnServer
<1>9. RunningMeansServing'
  <2>. SUFFICES ASSUME NEW m \in Names, running'[m]
                PROVE  \E s \in socks' \cup dying' : s.n = m /\ s.h = "v4" /\ s.gen = server'[m]
    BY DEF RunningMeansServing
  <2>1. CASE m = n
    <3>1. Sock(n, "v4") \in socks'
      BY <1>3
    <3>. QED BY <1>3, <1>4, <1>7, <2>1, <3>1
  <2>2. CASE m # n
    <3>1. PICK s \in socks \cup dying : s.n = m /\ s.h = "v4" /\ s.gen = server[m]
      BY <1>7, <2>2 DEF SockInv, RunningMeansServing
    <3>. QED BY <1>1, <1>3, <1>7, <2>2, <3>1
  <2>. QED BY <2>1, <2>2
<1>10. StoppedPortsFree'
  <2>. SUFFICES ASSUME NEW s \in socks'
                PROVE  \/ running'[s.n] /\ server'[s.n] = s.gen
                       \/ \E c \in stopping : c.gen = s.gen
                       \/ s.gen \in abandoned
    BY <1>1 DEF StoppedPortsFree
  <2>1. CASE s \in socks
    <3>1. s.n \in Names
      BY <2>1 DEF SockInv, ListenersTyped
    <3>. QED BY <1>1, <1>7, <2>1, <3>1 DEF SockInv, StoppedPortsFree
  <2>2. CASE s \in {Sock(n, h) : h \in hs}
    BY <1>4, <1>7, <2>2
  <2>. QED BY <1>3, <2>1, <2>2
<1>. QED BY <1>6, <1>8, <1>9, <1>10 DEF SockInv

\* Stop takes the server away and leaves its sockets to the shutdown.
LEMMA StopBeginsKeeps ==
  ASSUME SockInv, NEW n \in Names, NEW e \in BOOLEAN, StopBegins(n, e), UNCHANGED abandoned
  PROVE  SockInv'
<1>0. /\ running \in [Names -> BOOLEAN] /\ starts \in Nat
      /\ server \in [Names -> 0..starts]
  BY DEF SockInv, ListenersTyped
<1>1. /\ running[n]
      /\ running' = [running EXCEPT ![n] = FALSE]
      /\ server' = [server EXCEPT ![n] = 0]
      /\ stopping' = stopping \cup {[n |-> n, gen |-> server[n], shut |-> FALSE, exit |-> e]}
      /\ UNCHANGED <<lastErr, starts, socks, dying, switches>>
  BY DEF StopBegins
<1>2. server[n] \in 1..starts
  BY <1>1 DEF SockInv, OwnServer
<1>3. PICK c : /\ c.gen = server[n] /\ stopping' = stopping \cup {c}
               /\ c \in [n : Names, gen : 1..starts, shut : BOOLEAN, exit : BOOLEAN]
  <2>. DEFINE c == [n |-> n, gen |-> server[n], shut |-> FALSE, exit |-> e]
  <2>1. c \in [n : Names, gen : 1..starts, shut : BOOLEAN, exit : BOOLEAN] /\ c.gen = server[n]
    BY <1>2
  <2>. QED BY <1>1, <2>1
<1>4. /\ ~running'[n]
      /\ \A m \in Names : m # n => server'[m] = server[m] /\ (running'[m] <=> running[m])
  BY <1>0, <1>1
<1>5. ListenersTyped'
  <2>1. server' \in [Names -> 0..starts]
    BY <1>0, <1>1
  <2>2. running' \in [Names -> BOOLEAN]
    BY <1>0, <1>1
  <2>. QED BY <1>1, <1>3, <2>1, <2>2 DEF SockInv, ListenersTyped
<1>6. OwnServer'
  <2>. SUFFICES /\ \A m \in Names : running'[m] => server'[m] \in 1..starts
                /\ \A m, k \in Names : running'[m] /\ running'[k] /\ server'[m] = server'[k] => m = k
                /\ \A m \in Names : running'[m] => \A d \in stopping' : d.gen # server'[m]
    BY <1>1 DEF OwnServer
  <2>. QED BY <1>1, <1>3, <1>4 DEF SockInv, OwnServer
<1>7. RunningMeansServing'
  BY <1>1, <1>4 DEF SockInv, RunningMeansServing
<1>8. StoppedPortsFree'
  <2>. SUFFICES ASSUME NEW s \in socks
                PROVE  \/ running'[s.n] /\ server'[s.n] = s.gen
                       \/ \E d \in stopping' : d.gen = s.gen
                       \/ s.gen \in abandoned
    BY <1>1 DEF StoppedPortsFree
  <2>1. s.n \in Names
    BY DEF SockInv, ListenersTyped
  <2>2. \E d \in stopping' : d.gen = server[n]
    BY <1>3
  <2>. QED BY <1>3, <1>4, <2>1, <2>2 DEF SockInv, StoppedPortsFree
<1>. QED BY <1>5, <1>6, <1>7, <1>8 DEF SockInv

\* Shutdown closes sockets of the server that is being stopped and no others.
LEMMA ShutsDownKeeps ==
  ASSUME SockInv, NEW c, ShutsDown(c), UNCHANGED abandoned
  PROVE  SockInv'
<1>1. PICK d : /\ c \in stopping /\ stopping' = (stopping \ {c}) \cup {d} /\ d.gen = c.gen
               /\ d \in [n : Names, gen : 1..starts, shut : BOOLEAN, exit : BOOLEAN]
  <2>1. c \in [n : Names, gen : 1..starts, shut : BOOLEAN, exit : BOOLEAN]
    BY DEF ShutsDown, SockInv, ListenersTyped
  <2>2. /\ [c EXCEPT !.shut = TRUE] \in [n : Names, gen : 1..starts, shut : BOOLEAN, exit : BOOLEAN]
        /\ [c EXCEPT !.shut = TRUE].gen = c.gen
    BY <2>1
  <2>. QED BY <2>2 DEF ShutsDown
<1>2. /\ socks' \subseteq socks /\ \A s \in socks : s.gen # c.gen => s \in socks'
      /\ UNCHANGED <<running, lastErr, server, starts, dying, switches>>
  BY DEF ShutsDown
<1>3. \A s \in socks : s.n \in Names
  BY DEF SockInv, ListenersTyped
<1>4. ListenersTyped'
  BY <1>1, <1>2 DEF SockInv, ListenersTyped
<1>5. OwnServer'
  BY <1>1, <1>2 DEF SockInv, OwnServer
<1>6. RunningMeansServing'
  BY <1>1, <1>2 DEF SockInv, OwnServer, RunningMeansServing
<1>7. StoppedPortsFree'
  BY <1>1, <1>2 DEF SockInv, StoppedPortsFree
<1>. QED BY <1>4, <1>5, <1>6, <1>7 DEF SockInv

\* When Stop returns, the last sockets of its server are closed, and those alone.
LEMMA StopReturnsKeeps ==
  ASSUME SockInv, NEW c, StopReturns(c), UNCHANGED abandoned
  PROVE  SockInv'
<1>1. /\ c \in stopping /\ stopping' = stopping \ {c} /\ socks' = {s \in socks : s.gen # c.gen}
      /\ UNCHANGED <<running, lastErr, server, starts, dying, switches>>
  BY DEF StopReturns
<1>2. ListenersTyped'
  BY <1>1 DEF SockInv, ListenersTyped
<1>3. OwnServer'
  BY <1>1 DEF SockInv, OwnServer
<1>4. RunningMeansServing'
  BY <1>1 DEF SockInv, OwnServer, RunningMeansServing
<1>5. StoppedPortsFree'
  BY <1>1 DEF SockInv, StoppedPortsFree
<1>. QED BY <1>2, <1>3, <1>4, <1>5 DEF SockInv

\* A Serve goroutine that gets to run closes its socket only if its server is shut down.
LEMMA ServeBeginsKeeps ==
  ASSUME SockInv, NEW s, ServeBegins(s), UNCHANGED abandoned
  PROVE  SockInv'
<1>1. /\ s \in socks
      /\ UNCHANGED <<running, lastErr, server, starts, dying, stopping, switches>>
      /\ \/ socks' = socks \ {s} /\ \E c \in stopping : c.gen = s.gen
         \/ \E t : /\ socks' = (socks \ {s}) \cup {t} /\ t.n = s.n /\ t.h = s.h /\ t.gen = s.gen
                   /\ t \in [n : Names, h : Hosts, gen : 1..starts, serving : BOOLEAN]
  <2>1. s \in [n : Names, h : Hosts, gen : 1..starts, serving : BOOLEAN]
    BY DEF ServeBegins, SockInv, ListenersTyped
  <2>. DEFINE t == [s EXCEPT !.serving = TRUE]
  <2>2. /\ t \in [n : Names, h : Hosts, gen : 1..starts, serving : BOOLEAN]
        /\ t.n = s.n /\ t.h = s.h /\ t.gen = s.gen
    BY <2>1
  <2>3. CASE \E c \in stopping : c.gen = s.gen /\ c.shut
    BY <2>3 DEF ServeBegins
  <2>4. CASE ~\E c \in stopping : c.gen = s.gen /\ c.shut
    BY <2>2, <2>4 DEF ServeBegins
  <2>. QED BY <2>3, <2>4
<1>2. ListenersTyped'
  BY <1>1 DEF SockInv, ListenersTyped
<1>3. OwnServer'
  BY <1>1 DEF SockInv, OwnServer
<1>4. RunningMeansServing'
  BY <1>1 DEF SockInv, OwnServer, RunningMeansServing
<1>5. StoppedPortsFree'
  BY <1>1 DEF SockInv, StoppedPortsFree
<1>. QED BY <1>2, <1>3, <1>4, <1>5 DEF SockInv

\* A Serve error takes the socket; the listener counts as running until it is recorded.
LEMMA ServeFailsKeeps ==
  ASSUME SockInv, NEW s, ServeFails(s), UNCHANGED abandoned
  PROVE  SockInv'
<1>1. /\ s \in socks /\ socks' = socks \ {s} /\ dying' = dying \cup {s}
      /\ UNCHANGED <<running, lastErr, server, starts, stopping, switches>>
  BY DEF ServeFails
<1>2. ListenersTyped'
  BY <1>1 DEF SockInv, ListenersTyped
<1>3. OwnServer'
  BY <1>1 DEF SockInv, OwnServer
<1>4. RunningMeansServing'
  BY <1>1 DEF SockInv, RunningMeansServing
<1>5. StoppedPortsFree'
  BY <1>1 DEF SockInv, StoppedPortsFree
<1>. QED BY <1>2, <1>3, <1>4, <1>5 DEF SockInv

\* Recording a Serve error gives up the server the listener has by then.
LEMMA ServeErrorKeeps ==
  ASSUME SockInv, NEW s, ServeErrorRecorded(s)
  PROVE  SockInv'
<1>0. /\ running \in [Names -> BOOLEAN] /\ lastErr \in [Names -> BOOLEAN]
  BY DEF SockInv, ListenersTyped
<1>1. /\ s \in dying /\ dying' = dying \ {s}
      /\ lastErr' = [lastErr EXCEPT ![s.n] = TRUE]
      /\ running' = [running EXCEPT ![s.n] = FALSE]
      /\ abandoned' = IF running[s.n] THEN abandoned \cup {server[s.n]} ELSE abandoned
      /\ UNCHANGED <<server, starts, socks, stopping, switches>>
  BY DEF ServeErrorRecorded
<1>2. s.n \in Names
  BY <1>1 DEF SockInv, ListenersTyped
<1>3. ~running'[s.n] /\ \A m \in Names : m # s.n => (running'[m] <=> running[m])
  BY <1>0, <1>1, <1>2
<1>4. ListenersTyped'
  <2>1. running' \in [Names -> BOOLEAN] /\ lastErr' \in [Names -> BOOLEAN]
    BY <1>0, <1>1, <1>2
  <2>. QED BY <1>1, <2>1 DEF SockInv, ListenersTyped
<1>5. OwnServer'
  BY <1>1, <1>3 DEF SockInv, OwnServer
<1>6. RunningMeansServing'
  <2>. SUFFICES ASSUME NEW m \in Names, running'[m]
                PROVE  \E t \in socks' \cup dying' : t.n = m /\ t.h = "v4" /\ t.gen = server'[m]
    BY DEF RunningMeansServing
  <2>1. m # s.n /\ running[m]
    BY <1>3
  <2>2. PICK t \in socks \cup dying : t.n = m /\ t.h = "v4" /\ t.gen = server[m]
    BY <2>1 DEF SockInv, RunningMeansServing
  <2>. QED BY <1>1, <2>1, <2>2
<1>7. StoppedPortsFree'
  <2>. SUFFICES ASSUME NEW t \in socks
                PROVE  \/ running'[t.n] /\ server[t.n] = t.gen
                       \/ \E c \in stopping : c.gen = t.gen
                       \/ t.gen \in abandoned'
    BY <1>1 DEF StoppedPortsFree
  <2>1. t.n \in Names
    BY DEF SockInv, ListenersTyped
  <2>. QED BY <1>1, <1>3, <2>1 DEF SockInv, StoppedPortsFree
<1>. QED BY <1>4, <1>5, <1>6, <1>7 DEF SockInv

\* A process that has just gone, or never been, has no listeners at all.
LEMMA NothingListens ==
  /\ Init => SockInv
  /\ Gone => SockInv'
<1>. DEFINE Zero == [n \in Names |-> 0]
<1>1. /\ None \in [Names -> BOOLEAN] /\ Defaults \in [Names -> Switches]
      /\ Zero \in [Names -> 0..0] /\ \A n \in Names : ~None[n]
  BY SupervisorAssumption DEF None, Defaults
<1>2. Init => SockInv
  <2>. SUFFICES ASSUME Init PROVE SockInv
    OBVIOUS
  <2>1. ListenersTyped
    BY <1>1 DEF Init, ListenersTyped
  <2>2. OwnServer /\ RunningMeansServing /\ StoppedPortsFree
    BY <1>1 DEF Init, OwnServer, RunningMeansServing, StoppedPortsFree
  <2>. QED BY <2>1, <2>2 DEF SockInv
<1>3. Gone => SockInv'
  <2>. SUFFICES ASSUME Gone PROVE SockInv'
    OBVIOUS
  <2>1. ListenersTyped'
    BY <1>1 DEF Gone, ListenersTyped
  <2>2. OwnServer' /\ RunningMeansServing' /\ StoppedPortsFree'
    BY <1>1 DEF Gone, OwnServer, RunningMeansServing, StoppedPortsFree
  <2>. QED BY <2>1, <2>2 DEF SockInv
<1>. QED BY <1>2, <1>3
-----------------------------------------------------------------------------
\* Between two processes nothing is registered, no socket is open and no goroutine is left.
DownIsEmpty ==
  phase = "down" => /\ registered = {} /\ todo = {} /\ running = None
                    /\ socks = {} /\ dying = {} /\ stopping = {}

\* Everything that is said of listeners, file and process while the system runs.
SystemInv == SockInv /\ FileTyped /\ RestTyped /\ DownIsEmpty

\* What Start does, whoever calls it.
LEMMA StartKeeps ==
  ASSUME SystemInv, NEW n \in Names, Start(n), UNCHANGED <<abandoned, registered>>
  PROVE  SockInv' /\ FileTyped'
<1>1. CASE Started(n)
  <2>1. SockInv'
    BY <1>1, StartedKeeps DEF SystemInv, RestTyped
  <2>2. running' \in [Names -> BOOLEAN] /\ switches' \in [Names -> Switches]
    BY <2>1 DEF SockInv, ListenersTyped
  <2>3. Persist
    BY <1>1 DEF Started
  <2>. QED BY <2>1, <2>2, <2>3, PersistWrites DEF SystemInv, FileTyped, RestTyped
<1>2. CASE BindFailed(n)
  <2>1. lastErr' \in [Names -> BOOLEAN]
    BY <1>2 DEF BindFailed, SystemInv, SockInv, ListenersTyped
  <2>2. UNCHANGED <<running, server, starts, socks, dying, stopping, switches, disk, diskFault>>
    BY <1>2 DEF BindFailed
  <2>3. faults' \in 0..MaxFaults
    BY <1>2, SupervisorAssumption DEF BindFailed, Fault, SystemInv, FileTyped
  <2>4. SockInv'
    BY <2>1, <2>2, SockFrame DEF SystemInv, SockInv, ListenersTyped
  <2>. QED BY <2>2, <2>3, <2>4 DEF SystemInv, FileTyped
<1>3. CASE UNCHANGED <<listeners, file>>
  <2>1. SockInv'
    BY <1>3, SockFrame DEF listeners, SystemInv, SockInv, ListenersTyped
  <2>. QED BY <1>3, <2>1 DEF file, SystemInv, FileTyped
<1>. QED BY <1>1, <1>2, <1>3 DEF Start

\* What Stop does up to the unlock, whoever calls it.
LEMMA StopKeeps ==
  ASSUME SystemInv, NEW n \in Names, NEW e \in BOOLEAN, StopBegins(n, e),
         UNCHANGED <<abandoned, registered>>
  PROVE  SockInv' /\ FileTyped'
<1>1. SockInv'
  BY StopBeginsKeeps DEF SystemInv
<1>2. running' \in [Names -> BOOLEAN] /\ switches' \in [Names -> Switches]
  BY <1>1 DEF SockInv, ListenersTyped
<1>3. Persist
  BY DEF StopBegins
<1>. QED BY <1>1, <1>2, <1>3, PersistWrites DEF SystemInv, FileTyped, RestTyped

\* A step that leaves file and process alone and the listeners in order.
LEMMA ServeStepKeeps ==
  ASSUME SystemInv, SockInv', UNCHANGED <<process, file, history, starts>>,
         phase # "down"
  PROVE  SystemInv'
BY DEF SystemInv, FileTyped, RestTyped, DownIsEmpty, process, file, history

\* Every step of the panel, of startup and of exit, of Serve and of Stop keeps the system in
\* order.
LEMMA SystemStep == SystemInv /\ [Next]_vars => SystemInv'
<1>. SUFFICES ASSUME SystemInv, [Next]_vars PROVE SystemInv'
  OBVIOUS
<1>0. SockInv /\ FileTyped /\ RestTyped /\ DownIsEmpty
  BY DEF SystemInv
<1>1. ASSUME NEW c \in stopping, ShutsDown(c) PROVE SystemInv'
  <2>1. phase # "down" /\ UNCHANGED <<process, file, history, starts>>
    BY <1>0, <1>1 DEF ShutsDown, DownIsEmpty
  <2>. QED BY <1>0, <1>1, <2>1, ShutsDownKeeps, ServeStepKeeps DEF history
<1>2. ASSUME NEW c \in stopping, StopReturns(c) PROVE SystemInv'
  <2>1. phase # "down" /\ UNCHANGED <<process, file, history, starts>>
    BY <1>0, <1>2 DEF StopReturns, DownIsEmpty
  <2>. QED BY <1>0, <1>2, <2>1, StopReturnsKeeps, ServeStepKeeps DEF history
<1>3. ASSUME NEW s \in socks, ServeBegins(s) PROVE SystemInv'
  <2>1. phase # "down" /\ UNCHANGED <<process, file, history, starts>>
    BY <1>0, <1>3 DEF ServeBegins, DownIsEmpty
  <2>. QED BY <1>0, <1>3, <2>1, ServeBeginsKeeps, ServeStepKeeps DEF history
<1>4. ASSUME NEW s \in socks, ServeFails(s) PROVE SystemInv'
  <2>1. UNCHANGED <<process, disk, diskFault, history, starts>> /\ faults' \in 0..MaxFaults
    BY <1>0, <1>4, SupervisorAssumption DEF ServeFails, Fault, FileTyped
  <2>2. SockInv'
    BY <1>0, <1>4, ServeFailsKeeps DEF ServeFails, history
  <2>3. phase # "down"
    BY <1>0, <1>4 DEF DownIsEmpty
  <2>. QED BY <1>0, <2>1, <2>2, <2>3
         DEF SystemInv, FileTyped, RestTyped, DownIsEmpty, process, history
<1>5. ASSUME NEW s \in dying, ServeErrorRecorded(s) PROVE SystemInv'
  <2>1. SockInv'
    BY <1>0, <1>5, ServeErrorKeeps
  <2>2. running' \in [Names -> BOOLEAN] /\ switches' \in [Names -> Switches]
    BY <2>1 DEF SockInv, ListenersTyped
  <2>3. FileTyped'
    BY <1>0, <1>5, <2>2, PersistWrites DEF ServeErrorRecorded, FileTyped, RestTyped
  <2>4. /\ UNCHANGED <<process, starts, chosen, left, missed>>
        /\ abandoned' = IF running[s.n] THEN abandoned \cup {server[s.n]} ELSE abandoned
    BY <1>5 DEF ServeErrorRecorded
  <2>5. s.n \in Names
    BY <1>0, <1>5 DEF SockInv, ListenersTyped
  <2>6. abandoned' \subseteq 1..starts
    BY <1>0, <2>4, <2>5 DEF RestTyped, SockInv, OwnServer
  <2>7. RestTyped'
    BY <1>0, <2>4, <2>6 DEF RestTyped, process
  <2>8. phase # "down"
    BY <1>0, <1>5 DEF DownIsEmpty
  <2>. QED BY <2>1, <2>3, <2>4, <2>7, <2>8 DEF SystemInv, DownIsEmpty, process
<1>6. ASSUME NEW reg \in SUBSET Names, Boot(reg) PROVE SystemInv'
  <2>1. /\ phase' = "restoring" /\ registered' = reg
        /\ todo' \subseteq reg /\ missed' \subseteq Names
        /\ UNCHANGED <<running, lastErr, server, starts, socks, dying, stopping, file,
                       chosen, left, abandoned>>
    BY <1>0, <1>6 DEF Boot, RestTyped
  <2>2. switches' \in [Names -> Switches]
    <3>1. \A n \in reg \cap DOMAIN disk : disk[n].switches \in Switches
      BY <1>0 DEF FileTyped
    <3>. QED BY <1>6, <3>1, SupervisorAssumption DEF Boot
  <2>3. SockInv'
    BY <1>0, <2>1, <2>2, SockFrame DEF SockInv, ListenersTyped
  <2>. QED BY <1>0, <2>1, <2>3 DEF SystemInv, FileTyped, RestTyped, DownIsEmpty, file
<1>7. ASSUME NEW reg \in SUBSET Names, BootUnread(reg) PROVE SystemInv'
  <2>1. /\ phase = "down" /\ phase' = "restoring" /\ registered' = reg /\ todo' = todo
        /\ missed' \subseteq Names /\ diskFault' = TRUE /\ faults' \in 0..MaxFaults
        /\ UNCHANGED <<listeners, disk, chosen, left, abandoned>>
    BY <1>0, <1>7, SupervisorAssumption DEF BootUnread, RestTyped, FileTyped, Fault
  <2>2. SockInv'
    BY <1>0, <2>1, SockFrame DEF SockInv, ListenersTyped, listeners
  <2>. QED BY <1>0, <2>1, <2>2 DEF SystemInv, FileTyped, RestTyped, DownIsEmpty, listeners
<1>8. ASSUME NEW n \in Names, BootStarts(n) PROVE SystemInv'
  <2>1. /\ phase \in {"restoring", "autostart"} /\ todo' = todo \ {n} /\ Start(n)
        /\ UNCHANGED <<phase, registered, history>>
    BY <1>8 DEF BootStarts
  <2>2. SockInv' /\ FileTyped'
    BY <2>1, StartKeeps DEF history
  <2>3. starts \in Nat /\ starts' \in Nat /\ starts' >= starts
    BY <1>0, <2>1 DEF Start, Started, BindFailed, listeners, SockInv, ListenersTyped
  <2>. QED BY <1>0, <2>1, <2>2, <2>3 DEF SystemInv, RestTyped, DownIsEmpty, history
<1>9. ASSUME NEW n \in Names, PanelStart(n) PROVE SystemInv'
  <2>1. PanelOpen /\ Start(n) /\ UNCHANGED <<process, history>>
    BY <1>9 DEF PanelStart, Start
  <2>2. SockInv' /\ FileTyped'
    BY <2>1, StartKeeps DEF history, process
  <2>3. starts \in Nat /\ starts' \in Nat /\ starts' >= starts
    BY <1>0, <2>1 DEF Start, Started, BindFailed, listeners, SockInv, ListenersTyped
  <2>. QED BY <1>0, <2>1, <2>2, <2>3
         DEF SystemInv, RestTyped, DownIsEmpty, history, process, PanelOpen
<1>10. ASSUME NEW n \in Names, PanelStop(n) PROVE SystemInv'
  <2>1. /\ PanelOpen /\ StopBegins(n, FALSE) /\ left' = left \ {n}
        /\ UNCHANGED <<process, chosen, missed, abandoned>>
    BY <1>10 DEF PanelStop
  <2>2. SockInv' /\ FileTyped' /\ starts' = starts
    BY <2>1, StopKeeps DEF process, StopBegins
  <2>. QED BY <1>0, <2>1, <2>2 DEF SystemInv, RestTyped, DownIsEmpty, process, PanelOpen
<1>11. ASSUME NEW n \in Names, ExitStops(n) PROVE SystemInv'
  <2>1. /\ phase = "exiting" /\ todo' = todo \ {n} /\ UNCHANGED <<phase, registered, history>>
        /\ StopBegins(n, TRUE) \/ UNCHANGED <<listeners, file>>
    BY <1>11 DEF ExitStops
  <2>2. SockInv' /\ FileTyped' /\ starts' = starts
    <3>1. CASE StopBegins(n, TRUE)
      BY <2>1, <3>1, StopKeeps DEF history, StopBegins
    <3>2. CASE UNCHANGED <<listeners, file>>
      <4>1. SockInv'
        BY <1>0, <2>1, <3>2, SockFrame DEF listeners, history, SockInv, ListenersTyped
      <4>. QED BY <1>0, <3>2, <4>1 DEF FileTyped, file, listeners
    <3>. QED BY <2>1, <3>1, <3>2
  <2>. QED BY <1>0, <2>1, <2>2 DEF SystemInv, RestTyped, DownIsEmpty, history
<1>12. ASSUME NEW n \in Names, NEW v \in Switches, PanelSets(n, v) PROVE SystemInv'
  <2>1. /\ switches' \in [Names -> Switches] /\ chosen' \in [Names -> Switches]
        /\ missed' \subseteq Names
    BY <1>0, <1>12 DEF PanelSets, SockInv, ListenersTyped, RestTyped
  <2>2. PanelOpen /\ Persist
        /\ UNCHANGED <<process, running, lastErr, server, starts, socks, dying, stopping,
                       left, abandoned>>
    BY <1>12 DEF PanelSets
  <2>3. SockInv'
    BY <1>0, <2>1, <2>2, SockFrame DEF SockInv, ListenersTyped
  <2>4. FileTyped'
    BY <1>0, <2>1, <2>2, <2>3, PersistWrites DEF SockInv, ListenersTyped, FileTyped, RestTyped
  <2>. QED BY <1>0, <2>1, <2>2, <2>3, <2>4
         DEF SystemInv, RestTyped, DownIsEmpty, process, PanelOpen
<1>13. CASE Restored \/ PanelServed \/ ExitBegins
  <2>1. /\ UNCHANGED <<registered, listeners, file, chosen, missed, abandoned>>
        /\ phase' \in {"autostart", "up", "exiting"}
        /\ todo' \subseteq registered /\ left' \subseteq Names
    BY <1>0, <1>13 DEF Restored, PanelServed, ExitBegins, history, RestTyped
  <2>2. SockInv'
    BY <1>0, <2>1, SockFrame DEF SockInv, ListenersTyped, listeners
  <2>. QED BY <1>0, <2>1, <2>2
         DEF SystemInv, FileTyped, RestTyped, DownIsEmpty, file, listeners
<1>14. CASE Exits \/ Crashes
  <2>1. Gone /\ left' \subseteq Names /\ faults' \in 0..MaxFaults
    BY <1>0, <1>14, SupervisorAssumption DEF Exits, Crashes, Fault, RestTyped, FileTyped
  <2>2. SockInv'
    BY <2>1, NothingListens
  <2>. QED BY <1>0, <2>1, <2>2
         DEF Gone, SystemInv, FileTyped, RestTyped, DownIsEmpty
<1>15. CASE UNCHANGED vars
  <2>1. SockInv'
    BY <1>0, <1>15, SockFrame DEF SockInv, ListenersTyped, vars, listeners, history
  <2>. QED BY <1>0, <1>15, <2>1
         DEF SystemInv, FileTyped, RestTyped, DownIsEmpty, vars, process, listeners, file, history
<1>. QED
  BY <1>1, <1>2, <1>3, <1>4, <1>5, <1>6, <1>7, <1>8, <1>9, <1>10, <1>11, <1>12, <1>13,
     <1>14, <1>15
     DEF Next

\* The listeners, the file and the process are in order in every reachable state.
LEMMA SystemInvariant == Spec => []SystemInv
<1>1. Init => SystemInv
  <2>. SUFFICES ASSUME Init PROVE SystemInv
    OBVIOUS
  <2>1. Defaults \in [Names -> Switches]
    BY SupervisorAssumption DEF Defaults
  <2>2. SockInv
    BY NothingListens
  <2>3. FileTyped
    <3>1. DOMAIN disk = {}
      BY Zenon DEF Init
    <3>2. diskFault \in BOOLEAN /\ faults = 0
      BY Zenon DEF Init
    <3>3. 0 \in 0..MaxFaults
      BY SupervisorAssumption
    <3>. QED BY <3>1, <3>2, <3>3 DEF FileTyped
  <2>4. RestTyped /\ DownIsEmpty
    BY <2>1 DEF Init, RestTyped, DownIsEmpty
  <2>. QED BY <2>2, <2>3, <2>4 DEF SystemInv
<1>. QED BY <1>1, SystemStep, PTL DEF Spec

\* Every reachable state is well typed.
THEOREM TypeCorrect == Spec => []TypeOK
BY SystemInvariant, TypeParts, PTL DEF SystemInv, SockInv

\* A listener that is reported as running is being served on its own IPv4 socket, for any
\* number of listeners and any interleaving of starts, stops and Serve errors.
THEOREM RunningIsServing == Spec => []RunningMeansServing
BY SystemInvariant, PTL DEF SystemInv, SockInv

\* A port is free once Stop has returned, unless a Serve error has written its server off.
THEOREM StoppedIsFree == Spec => []StoppedPortsFree
BY SystemInvariant, PTL DEF SystemInv, SockInv
-----------------------------------------------------------------------------
\* What the settings of a listener survive on: whoever is not registered is known to have
\* missed a startup, and the file has the last choice of everybody else.
SavedInv ==
  /\ phase # "down" => Names \ registered \subseteq missed
  /\ ~diskFault =>
       \A n \in Names \ missed :
         /\ phase # "down" => switches[n] = chosen[n]
         /\ IF n \in DOMAIN disk THEN disk[n].switches = chosen[n] ELSE chosen[n] = Default

\* Saving keeps it, whatever else the step does to the listeners.
LEMMA PersistSaves ==
  ASSUME SystemInv, SystemInv', SavedInv, Persist, phase # "down",
         UNCHANGED <<phase, registered, switches, chosen, missed>>
  PROVE  SavedInv'
<1>1. /\ registered \subseteq Names /\ faults \in 0..MaxFaults /\ diskFault \in BOOLEAN
      /\ running' \in [Names -> BOOLEAN] /\ switches' \in [Names -> Switches]
  BY DEF SystemInv, FileTyped, RestTyped, SockInv, ListenersTyped
<1>2. \/ /\ DOMAIN disk' = registered /\ diskFault' = diskFault
         /\ \A n \in registered : disk'[n].switches = switches'[n]
      \/ disk' = disk /\ diskFault' = TRUE
  BY <1>1, PersistWrites
<1>. QED BY <1>2 DEF SavedInv

\* A step that touches neither the file nor what is in it keeps it.
LEMMA SavedFrame ==
  ASSUME SavedInv, UNCHANGED <<registered, switches, chosen, missed, disk, diskFault>>,
         phase' = "down" <=> phase = "down"
  PROVE  SavedInv'
BY DEF SavedInv

\* Every step keeps the file and the choices together.
LEMMA SavedStep == SystemInv /\ SystemInv' /\ SavedInv /\ [Next]_vars => SavedInv'
<1>. SUFFICES ASSUME SystemInv, SystemInv', SavedInv, [Next]_vars PROVE SavedInv'
  OBVIOUS
<1>0. DownIsEmpty /\ phase \in {"down", "restoring", "autostart", "up", "exiting"}
  BY DEF SystemInv, RestTyped
<1>1. ASSUME NEW c \in stopping, ShutsDown(c) \/ StopReturns(c) PROVE SavedInv'
  BY <1>1, SavedFrame DEF ShutsDown, StopReturns, process, file, history
<1>2. ASSUME NEW s \in socks, ServeBegins(s) \/ ServeFails(s) PROVE SavedInv'
  BY <1>2, SavedFrame DEF ServeBegins, ServeFails, process, file, history
<1>3. ASSUME NEW s \in dying, ServeErrorRecorded(s) PROVE SavedInv'
  BY <1>0, <1>3, PersistSaves DEF ServeErrorRecorded, process, DownIsEmpty
<1>4. ASSUME NEW reg \in SUBSET Names, Boot(reg) PROVE SavedInv'
  <2>1. /\ phase = "down" /\ phase' = "restoring" /\ registered' = reg
        /\ missed' = missed \cup (Names \ reg) /\ UNCHANGED <<disk, diskFault, chosen>>
        /\ \A n \in Names : switches'[n] = IF n \in reg \cap DOMAIN disk
                                           THEN disk[n].switches ELSE Default
    BY <1>4 DEF Boot, file
  <2>. QED BY <2>1 DEF SavedInv
<1>5. ASSUME NEW reg \in SUBSET Names, BootUnread(reg) PROVE SavedInv'
  BY <1>5 DEF BootUnread, SavedInv
<1>6. ASSUME NEW n \in Names, Start(n), phase # "down", UNCHANGED <<phase, registered, history>>
      PROVE  SavedInv'
  <2>1. CASE Started(n)
    BY <1>6, <2>1, PersistSaves DEF Started, history
  <2>2. CASE BindFailed(n)
    BY <1>6, <2>2, SavedFrame DEF BindFailed, history
  <2>3. CASE UNCHANGED <<listeners, file>>
    BY <1>6, <2>3, SavedFrame DEF listeners, file, history
  <2>. QED BY <1>6, <2>1, <2>2, <2>3 DEF Start
<1>7. ASSUME NEW n \in Names, BootStarts(n) \/ PanelStart(n) PROVE SavedInv'
  <2>1. Start(n) /\ phase # "down" /\ UNCHANGED <<phase, registered, history>>
    BY <1>7 DEF BootStarts, PanelStart, PanelOpen, Start, process
  <2>. QED BY <1>6, <2>1
<1>8. ASSUME NEW n \in Names, PanelStop(n) \/ ExitStops(n) PROVE SavedInv'
  <2>1. phase # "down" /\ UNCHANGED <<phase, registered, chosen, missed>>
    BY <1>8 DEF PanelStop, ExitStops, PanelOpen, process, history
  <2>2. (Persist /\ UNCHANGED switches) \/ UNCHANGED <<listeners, file>>
    BY <1>8 DEF PanelStop, ExitStops, StopBegins
  <2>. QED BY <2>1, <2>2, PersistSaves, SavedFrame DEF listeners, file
<1>9. ASSUME NEW n \in Names, NEW v \in Switches, PanelSets(n, v) PROVE SavedInv'
  <2>1. /\ Persist /\ phase # "down" /\ n \in registered
        /\ switches' = [switches EXCEPT ![n] = v] /\ chosen' = [chosen EXCEPT ![n] = v]
        /\ missed' = missed \ {n} /\ UNCHANGED <<phase, registered>>
    BY <1>9 DEF PanelSets, PanelOpen, process
  <2>2. /\ registered \subseteq Names /\ faults \in 0..MaxFaults /\ diskFault \in BOOLEAN
        /\ running' \in [Names -> BOOLEAN] /\ switches' \in [Names -> Switches]
        /\ switches \in [Names -> Switches] /\ chosen \in [Names -> Switches]
    BY DEF SystemInv, FileTyped, RestTyped, SockInv, ListenersTyped
  <2>3. \/ /\ DOMAIN disk' = registered /\ diskFault' = diskFault
           /\ \A m \in registered : disk'[m].switches = switches'[m]
        \/ diskFault' = TRUE
    BY <2>1, <2>2, PersistWrites
  <2>4. /\ switches'[n] = chosen'[n]
        /\ \A m \in Names : m # n => switches'[m] = switches[m] /\ chosen'[m] = chosen[m]
    BY <2>1, <2>2
  <2>5. Names \ registered \subseteq missed'
    BY <2>1 DEF SavedInv
  <2>6. ~diskFault' => \A m \in Names \ missed' : switches'[m] = chosen'[m]
    BY <2>1, <2>3, <2>4 DEF SavedInv
  <2>. QED BY <2>1, <2>3, <2>5, <2>6 DEF SavedInv
<1>10. CASE Restored \/ PanelServed \/ ExitBegins
  BY <1>10, SavedFrame DEF Restored, PanelServed, ExitBegins, listeners, file, history
<1>11. CASE Exits \/ Crashes
  BY <1>11 DEF Exits, Crashes, Gone, SavedInv
<1>12. CASE UNCHANGED vars
  BY <1>12, SavedFrame DEF vars, process, listeners, file, history
<1>. QED
  BY <1>1, <1>2, <1>3, <1>4, <1>5, <1>7, <1>8, <1>9, <1>10, <1>11, <1>12 DEF Next

\* The settings last chosen for a listener are in force after any number of exits, crashes
\* and restarts, as long as the file could be read and written.
THEOREM SettingsSurvive == Spec => []SwitchesSurvive
<1>1. Init => SavedInv
  <2>. SUFFICES ASSUME Init PROVE SavedInv
    OBVIOUS
  <2>1. \A n \in Names : chosen[n] = Default /\ n \notin DOMAIN disk
    BY DEF Init, Defaults
  <2>. QED BY <2>1 DEF Init, SavedInv
<1>2. SystemInv /\ SavedInv => SwitchesSurvive
  BY DEF SystemInv, RestTyped, SavedInv, SwitchesSurvive
<1>. QED BY <1>1, <1>2, SavedStep, SystemInvariant, PTL DEF Spec
=============================================================================
