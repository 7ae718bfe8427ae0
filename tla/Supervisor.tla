----------------------------- MODULE Supervisor -----------------------------
(***************************************************************************)
(* The multi-listener mode (V0.2/supervisor.go, listener_state.go and the  *)
(* life of the process in web_mode.go): listeners started and stopped from *)
(* the control panel, the Serve goroutines behind them, the switches of    *)
(* each listener, and the state file that carries both over a restart.     *)
(*                                                                         *)
(* Every operation holds the Supervisor's mutex for its whole step, except *)
(* for Stop, which shuts the server down after unlocking.  A start gets a  *)
(* number, gen: it stands for the *http.Server of that start.              *)
(***************************************************************************)
EXTENDS Integers, FiniteSets

CONSTANTS
  Hosts,      \* the loopback addresses there are: "v4", and perhaps "v6"
  Names,      \* the backends config.ini configures
  AutoStart,  \* those runWebMode starts in any case: local, perhaps forward-proxy
  Optional,   \* those whose registration may fail at some startup
  Switches,   \* the settings of one listener: bypass, alert, model, ...
  Default,    \* the setting config.ini and the flags give
  MaxStarts,  \* bound: the starts of one process with which the panel adds no more
  MaxFaults   \* bound: crashes, failing binds, Serve errors and file errors in all

ASSUME SupervisorAssumption ==
  /\ Hosts \in {{"v4"}, {"v4", "v6"}}
  /\ AutoStart \subseteq Names /\ Optional \subseteq Names
  /\ Default \in Switches /\ MaxStarts \in Nat /\ MaxFaults \in Nat

VARIABLES
  phase,       \* "down", "restoring", "autostart", "up", "exiting"
  registered,  \* s.items
  running,     \* ml.running
  lastErr,     \* ml.lastErr is set
  server,      \* the gen of ml.srv, 0: nil
  starts,      \* the starts of this process so far
  socks,       \* open listening sockets: [n, h, gen, serving]
  dying,       \* Serve goroutines that returned an error and wait for the mutex
  stopping,    \* Stop calls between unlock and return: [n, gen, shut, exit]
  switches,    \* the ProxyServer's settings
  todo,        \* the names the current start or exit loop has left
  disk,        \* listener_state.json: name -> [running, switches]
  diskFault,   \* history: reading or writing it failed
  chosen,      \* history: the settings last chosen for a listener
  left,        \* history: the names running when the last process was told to exit
               \*  or died and not stopped in the panel since, until the next panel is up
  missed,      \* history: not registered at some startup since it was chosen
  abandoned,   \* history: the starts a Serve error has marked as stopped
  faults       \* history: the faults so far

process == <<phase, registered, todo>>
listeners == <<running, lastErr, server, starts, socks, dying, stopping, switches>>
file == <<disk, diskFault, faults>>
history == <<chosen, left, missed, abandoned>>
vars == <<process, listeners, file, history>>

\* Something outside the program goes wrong once more.
Fault == faults < MaxFaults /\ faults' = faults + 1

None == [n \in Names |-> FALSE]
Defaults == [n \in Names |-> Default]

Init ==
  /\ phase = "down" /\ registered = {} /\ todo = {}
  /\ running = None /\ lastErr = None /\ server = [n \in Names |-> 0]
  /\ starts = 0 /\ socks = {} /\ dying = {} /\ stopping = {}
  /\ switches = Defaults
  /\ disk = [n \in {} |-> Default] /\ diskFault = FALSE
  /\ chosen = Defaults /\ left = {} /\ missed = {} /\ abandoned = {} /\ faults = 0
-----------------------------------------------------------------------------
\* persist: the state of every registered listener, written to a temporary file and
\* renamed; an error is logged and forgotten.
Persist ==
  \/ /\ disk' = [n \in registered |-> [running |-> running'[n], switches |-> switches'[n]]]
     /\ UNCHANGED <<diskFault, faults>>
  \/ UNCHANGED disk /\ diskFault' = TRUE /\ Fault

Sock(n, h) == [n |-> n, h |-> h, gen |-> starts + 1, serving |-> FALSE]
Bound(n) == {s.h : s \in {t \in socks : t.n = n}}

\* Start binds IPv4, which must work, and IPv6 if it can.
Started(n) ==
  /\ ~running[n]
  /\ "v4" \notin Bound(n)
  /\ \E hs \in {{"v4"}, Hosts \ (Bound(n) \cap {"v6"})} :
       socks' = socks \cup {Sock(n, h) : h \in hs}
  /\ starts' = starts + 1
  /\ server' = [server EXCEPT ![n] = starts + 1]
  /\ running' = [running EXCEPT ![n] = TRUE]
  /\ lastErr' = [lastErr EXCEPT ![n] = FALSE]
  /\ UNCHANGED <<dying, stopping, switches>>
  /\ Persist

\* The IPv4 port is taken, by a socket of this process or by anybody else's.
BindFailed(n) ==
  /\ ~running[n]
  /\ lastErr' = [lastErr EXCEPT ![n] = TRUE]
  /\ UNCHANGED <<running, server, starts, socks, dying, stopping, switches, disk, diskFault>>
  /\ ("v4" \in Bound(n) /\ UNCHANGED faults) \/ Fault

Start(n) == Started(n) \/ BindFailed(n) \/ (running[n] /\ UNCHANGED <<listeners, file>>)

\* Stop, up to the unlock.
StopBegins(n, exit) ==
  /\ running[n]
  /\ running' = [running EXCEPT ![n] = FALSE]
  /\ server' = [server EXCEPT ![n] = 0]
  /\ stopping' = stopping \cup {[n |-> n, gen |-> server[n], shut |-> FALSE, exit |-> exit]}
  /\ UNCHANGED <<lastErr, starts, socks, dying, switches>>
  /\ Persist

\* srv.Shutdown closes the listeners that Serve has registered with the server ...
ShutsDown(c) ==
  /\ c \in stopping /\ ~c.shut
  /\ stopping' = (stopping \ {c}) \cup {[c EXCEPT !.shut = TRUE]}
  /\ socks' = {s \in socks : ~(s.gen = c.gen /\ s.serving)}
  /\ UNCHANGED <<process, running, lastErr, server, starts, dying, switches, file, history>>

\* Wrong forms of StopReturns: it relies on Shutdown alone ...
StopReturnsShutdownOnly(c) ==
  /\ c \in stopping /\ c.shut
  /\ stopping' = stopping \ {c}
  /\ UNCHANGED <<process, running, lastErr, server, starts, socks, dying, switches, file,
                 history>>

\* ... or it closes what is in ml.lns when it gets there.
StopReturnsByName(c) ==
  /\ c \in stopping /\ c.shut
  /\ stopping' = stopping \ {c}
  /\ socks' = {s \in socks : s.n # c.n}
  /\ UNCHANGED <<process, running, lastErr, server, starts, dying, switches, file, history>>

\* ... and Stop closes those it took from ml.lns, whatever Serve has done.
StopReturns(c) ==
  /\ c \in stopping /\ c.shut
  /\ stopping' = stopping \ {c}
  /\ socks' = {s \in socks : s.gen # c.gen}
  /\ UNCHANGED <<process, running, lastErr, server, starts, dying, switches, file, history>>

\* A Serve goroutine gets to run: on a server already shut down it returns at once.
ServeBegins(s) ==
  /\ s \in socks /\ ~s.serving
  /\ socks' = (socks \ {s}) \cup
       (IF \E c \in stopping : c.gen = s.gen /\ c.shut THEN {} ELSE {[s EXCEPT !.serving = TRUE]})
  /\ UNCHANGED <<process, running, lastErr, server, starts, dying, stopping, switches,
                 file, history>>

\* Accept fails for good: Serve closes its socket and returns the error ...
ServeFails(s) ==
  /\ s \in socks /\ s.serving
  /\ socks' = socks \ {s} /\ dying' = dying \cup {s}
  /\ UNCHANGED <<process, running, lastErr, server, starts, stopping, switches, disk,
                 diskFault, history>>
  /\ Fault

\* ... and its goroutine, once it has the mutex, marks the listener as stopped.
ServeErrorRecorded(s) ==
  /\ s \in dying
  /\ dying' = dying \ {s}
  /\ lastErr' = [lastErr EXCEPT ![s.n] = TRUE]
  /\ running' = [running EXCEPT ![s.n] = FALSE]
  /\ abandoned' = IF running[s.n] THEN abandoned \cup {server[s.n]} ELSE abandoned
  /\ UNCHANGED <<process, server, starts, socks, stopping, switches, chosen, left, missed>>
  /\ Persist
-----------------------------------------------------------------------------
\* The process starts: every backend that can be set up is registered, and
\* EnablePersistence applies the saved settings.
Boot(reg) ==
  /\ phase = "down"
  /\ phase' = "restoring" /\ registered' = reg
  /\ switches' = [n \in Names |-> IF n \in reg \cap DOMAIN disk THEN disk[n].switches
                                  ELSE Default]
  /\ todo' = {n \in reg \cap DOMAIN disk : disk[n].running}
  /\ missed' = missed \cup (Names \ reg)
  /\ UNCHANGED <<running, lastErr, server, starts, socks, dying, stopping, file,
                 chosen, left, abandoned>>

\* The state file cannot be read: nothing is applied, the path stays armed.
BootUnread(reg) ==
  /\ phase = "down"
  /\ phase' = "restoring" /\ registered' = reg /\ diskFault' = TRUE
  /\ missed' = missed \cup (Names \ reg)
  /\ UNCHANGED <<todo, listeners, disk, chosen, left, abandoned>>
  /\ Fault

\* A wrong BootStarts: startup waits until the listener is up.
BootStartsRetrying(n) ==
  /\ phase \in {"restoring", "autostart"} /\ n \in todo
  /\ Start(n)
  /\ todo' = IF running'[n] THEN todo \ {n} ELSE todo
  /\ UNCHANGED <<phase, registered, history>>

\* EnablePersistence starts what was running, runWebMode its initial set.
BootStarts(n) ==
  /\ phase \in {"restoring", "autostart"} /\ n \in todo
  /\ Start(n)
  /\ todo' = todo \ {n}
  /\ UNCHANGED <<phase, registered, history>>

Restored ==
  /\ phase = "restoring" /\ todo = {}
  /\ phase' = "autostart" /\ todo' = AutoStart \cap registered
  /\ UNCHANGED <<registered, listeners, file, history>>

PanelServed ==
  /\ phase = "autostart" /\ todo = {}
  /\ phase' = "up" /\ left' = {}
  /\ UNCHANGED <<registered, todo, listeners, file, chosen, missed, abandoned>>

\* The panel is stopped last: its requests come in until the process exits.
PanelOpen == phase \in {"up", "exiting"}

PanelStart(n) ==
  /\ PanelOpen /\ n \in registered /\ starts < MaxStarts
  /\ Started(n) \/ BindFailed(n)
  /\ UNCHANGED <<process, history>>

PanelStop(n) ==
  /\ PanelOpen /\ n \in registered
  /\ StopBegins(n, FALSE)
  /\ left' = left \ {n}
  /\ UNCHANGED <<process, chosen, missed, abandoned>>

\* A wrong PanelSets: the setting is not saved.
PanelSetsUnsaved(n, v) ==
  /\ PanelOpen /\ n \in registered /\ v # switches[n]
  /\ switches' = [switches EXCEPT ![n] = v]
  /\ chosen' = [chosen EXCEPT ![n] = v]
  /\ missed' = missed \ {n}
  /\ UNCHANGED <<process, running, lastErr, server, starts, socks, dying, stopping,
                 left, abandoned, file>>

\* SetBypass, SetAlert, SetModelOverride, SetForcedBucket, SetVisionDescribe and
\* SetSystemPrompt: each changes one setting of one listener and saves.
PanelSets(n, v) ==
  /\ PanelOpen /\ n \in registered /\ v # switches[n]
  /\ switches' = [switches EXCEPT ![n] = v]
  /\ chosen' = [chosen EXCEPT ![n] = v]
  /\ missed' = missed \ {n}
  /\ UNCHANGED <<process, running, lastErr, server, starts, socks, dying, stopping,
                 left, abandoned>>
  /\ Persist

\* The dashboard is quit or a signal comes: StopAll, one listener after the other.
ExitBegins ==
  /\ phase = "up"
  /\ phase' = "exiting" /\ todo' = {n \in registered : running[n]}
  /\ left' = todo'
  /\ UNCHANGED <<registered, listeners, file, chosen, missed, abandoned>>

ExitStops(n) ==
  /\ phase = "exiting" /\ n \in todo
  /\ \A c \in stopping : ~c.exit
  /\ StopBegins(n, TRUE) \/ (~running[n] /\ UNCHANGED <<listeners, file>>)
  /\ todo' = todo \ {n}
  /\ UNCHANGED <<phase, registered, history>>

\* The process is gone, and with it all but the file.
Gone ==
  /\ phase' = "down" /\ registered' = {} /\ todo' = {}
  /\ running' = None /\ lastErr' = None /\ server' = [n \in Names |-> 0]
  /\ starts' = 0 /\ socks' = {} /\ dying' = {} /\ stopping' = {}
  /\ switches' = Defaults /\ abandoned' = {}
  /\ UNCHANGED <<disk, diskFault, chosen, missed>>

Exits ==
  /\ phase = "exiting" /\ todo = {} /\ \A c \in stopping : ~c.exit
  /\ Gone /\ UNCHANGED <<left, faults>>

\* A kill, a power failure, or log.Fatalf because the panel's port is taken.
Crashes ==
  /\ phase # "down" /\ Gone /\ Fault
  /\ left' = IF phase = "up" THEN {n \in Names : running[n]} ELSE left

StopSteps == \E c \in stopping : ShutsDown(c) \/ StopReturns(c)
BootSteps == (\E n \in Names : BootStarts(n)) \/ Restored \/ PanelServed
ExitSteps == (\E n \in Names : ExitStops(n)) \/ Exits

Next ==
  \/ \E c \in stopping : ShutsDown(c) \/ StopReturns(c)
  \/ \E s \in socks : ServeBegins(s) \/ ServeFails(s)
  \/ \E s \in dying : ServeErrorRecorded(s)
  \/ \E reg \in SUBSET Names : Names \ Optional \subseteq reg /\ (Boot(reg) \/ BootUnread(reg))
  \/ \E n \in Names : BootStarts(n) \/ PanelStart(n) \/ PanelStop(n) \/ ExitStops(n)
  \/ \E n \in Names, v \in Switches : PanelSets(n, v)
  \/ Restored \/ PanelServed \/ ExitBegins \/ Exits \/ Crashes

Spec == Init /\ [][Next]_vars

\* Goroutines run and Shutdown is over after 5 seconds at the latest.
FairSpec == Spec /\ WF_vars(StopSteps) /\ WF_vars(BootSteps) /\ WF_vars(ExitSteps)
-----------------------------------------------------------------------------
TypeOK ==
  /\ phase \in {"down", "restoring", "autostart", "up", "exiting"}
  /\ registered \subseteq Names /\ todo \subseteq registered
  /\ {running, lastErr} \subseteq [Names -> BOOLEAN]
  /\ server \in [Names -> 0..starts] /\ starts \in Nat
  /\ socks \cup dying \subseteq
       [n : Names, h : Hosts, gen : 1..starts, serving : BOOLEAN]
  /\ stopping \subseteq [n : Names, gen : 1..starts, shut : BOOLEAN, exit : BOOLEAN]
  /\ switches \in [Names -> Switches] /\ chosen \in [Names -> Switches]
  /\ DOMAIN disk \subseteq Names
  /\ \A n \in DOMAIN disk : disk[n] \in [running : BOOLEAN, switches : Switches]
  /\ diskFault \in BOOLEAN
  /\ left \subseteq Names /\ faults \in 0..MaxFaults
  /\ missed \subseteq Names /\ abandoned \subseteq 1..starts

\* A listener reported as running has the IPv4 socket of its own server open, or the
\* goroutine that served it is about to report its end: a Stop that is still closing
\* an earlier server never takes the new one's socket with it.
RunningMeansServing ==
  \A n \in Names : running[n] =>
    \E s \in socks \cup dying : s.n = n /\ s.h = "v4" /\ s.gen = server[n]

\* A Stop that has returned leaves no socket of its server open, even if it raced
\* ahead of the Serve goroutines: every open socket belongs to a running server, to
\* a Stop still at work, or to a server that a Serve error has written off.
StoppedPortsFree ==
  \A s \in socks :
    \/ running[s.n] /\ server[s.n] = s.gen
    \/ \E c \in stopping : c.gen = s.gen
    \/ s.gen \in abandoned

\* A setting chosen in the panel is in force again after every restart, be it an exit
\* or a crash, as long as the state file could be read and written and the listener
\* was registered each time.
SwitchesSurvive ==
  phase # "down" /\ ~diskFault =>
    \A n \in registered \ missed : switches[n] = chosen[n]

\* Starting up and shutting down come to an end: the panel opens and StopAll returns,
\* whatever the listeners, the panel's requests and the Serve goroutines do.
StartupAndExitEnd ==
  /\ phase = "restoring" ~> phase \in {"up", "down"}
  /\ phase = "exiting" ~> phase = "down"
-----------------------------------------------------------------------------
\* README.md:310-313, of the state file: "restarting the process resumes exactly where
\* the panel was left".
RunningSurvives ==
  [][PanelServed /\ ~diskFault =>
       \A n \in left \cap registered : running[n] \/ lastErr[n]]_vars
=============================================================================
