---------------------------- MODULE ControlPanel ----------------------------
(***************************************************************************)
(* The control panel: a page in a browser (V0.2/web_page.go), the          *)
(* endpoints it calls (web.go), and the catalog of models behind its model *)
(* picker (models_catalog.go).                                             *)
(*                                                                         *)
(* The page polls, after every action and on a timer, and draws what comes *)
(* back, in whatever order it comes back.  It shows the controls of one    *)
(* listener: a checkbox ("box": running, bypass, alert, vision), a         *)
(* dropdown ("menu": forced bucket, system prompt) and the model picker    *)
(* ("model"), whose options come from a request of its own.                *)
(***************************************************************************)
EXTENDS Integers, FiniteSets

CONSTANTS
  Choices,    \* what the dropdown offers, "" (auto-detect, none) apart
  Models,     \* the models that clinepass may list
  Catalogs,   \* the lists it may answer with
  Polls,      \* bound: GET /api/status that may be on their way at once
  Posts,      \* bound: POSTs that may be on their way at once
  Loads,      \* bound: GET /api/models that may be on their way at once
  MaxChanges  \* bound: choices of the user and of others, and failing GETs, in all

ASSUME PanelAssumption ==
  /\ Catalogs \subseteq (SUBSET Models) \ {{}} /\ MaxChanges \in Nat
  /\ "" \notin Choices \union Models

VARIABLES
  live,     \* the settings of the listener
  kept,     \* WebPanel.catalog, {}: none; it may be older than a minute at any time
  table,    \* what the page shows
  focus,    \* the control of the table that has the focus, or "elsewhere"
  catalog,  \* _catalog, {}: null
  polls,    \* the status requests on their way, each with its answer
  posts,    \* the POSTs on their way
  loads,    \* the catalog requests on their way
  changes   \* the changes and failures so far

server == <<live, kept>>
page == <<table, focus, catalog>>
vars == <<server, page, polls, posts, loads, changes>>

Menus == {"menu", "model"}
Controls == Menus \union {"box"}
Loading == "loading"
Unavailable == "catalog unavailable"

\* What the endpoints accept.
Settings ==
  [box |-> {"on", "off"}, menu |-> Choices \union {""}, model |-> Models \union {""}]

NoPoll == [stage |-> "none"]
Status == [stage |-> "answered", settings |-> live]
NoPost == [stage |-> "none"]
Post(c, v) == [stage |-> "sent", control |-> c, value |-> v]
NoLoad == [stage |-> "none", shown |-> FALSE, current |-> "", models |-> {}]
Load(current) == [stage |-> "asked", shown |-> TRUE, current |-> current, models |-> {}]

Happens == changes < MaxChanges /\ changes' = changes + 1

Init ==
  /\ live \in [box : Settings.box, menu : {""}, model : {""}]
  /\ kept = {}
  /\ table = [c \in Controls |-> Loading] /\ focus = "elsewhere" /\ catalog = {}
  /\ polls = [i \in Polls |-> NoPoll] /\ posts = [i \in Posts |-> NoPost]
  /\ loads = [i \in Loads |-> NoLoad]
  /\ changes = 0
-----------------------------------------------------------------------------
(* The endpoints *)

\* A start may be refused by the port; the others never are.
Handles(i) ==
  /\ posts[i].stage = "sent" /\ posts' = [posts EXCEPT ![i] = [stage |-> "answered"]]
  /\ \/ live' = [live EXCEPT ![posts[i].control] = posts[i].value]
     \/ posts[i].control = "box" /\ posts[i].value = "on" /\ UNCHANGED live
  /\ UNCHANGED <<kept, page, polls, loads, changes>>

\* The settings change by other hands: another page, the dashboard's keys, a Serve error.
ChangesElsewhere ==
  /\ Happens
  /\ \E c \in Controls : \E v \in Settings[c] \ {live[c]} : live' = [live EXCEPT ![c] = v]
  /\ UNCHANGED <<kept, page, polls, posts, loads>>

\* handleModels looks at the cache, and answers from it or asks clinepass, unlocked.
LooksUp(i) ==
  /\ loads[i].stage = "asked"
  /\ \/ kept # {} /\ loads' = [loads EXCEPT ![i].stage = "answered", ![i].models = kept]
     \/ loads' = [loads EXCEPT ![i].stage = "fetching", ![i].models = kept]
  /\ UNCHANGED <<server, page, polls, posts, changes>>

Fetches(i) ==
  /\ loads[i].stage = "fetching"
  /\ \E models \in Catalogs :
       /\ kept' = models
       /\ loads' = [loads EXCEPT ![i].stage = "answered", ![i].models = models]
  /\ UNCHANGED <<live, page, polls, posts, changes>>

\* A wrong AfterError: the error is reported in any case.
AfterErrorAlways(cached) == {}

\* The answer when clinepass cannot be reached, refuses, or lists nothing; {} is the error.
AfterError(cached) == cached

FetchFails(i) ==
  /\ loads[i].stage = "fetching"
  /\ loads' = [loads EXCEPT ![i].stage = "answered", ![i].models = AfterError(@)]
  /\ UNCHANGED <<server, page, polls, posts, changes>>

\* Another page has the catalog fetched.
FetchedElsewhere ==
  /\ Happens /\ kept' \in Catalogs
  /\ UNCHANGED <<live, page, polls, posts, loads>>
-----------------------------------------------------------------------------
(* The page *)

MenuOpen == focus \in Menus

\* The option for a model, which is the first, "(config default)", if it is not listed.
Listed(model, models) == IF model \in models THEN model ELSE ""

\* refresh, at load, every five seconds and with every event.
\* handleStatus takes its snapshot under the supervisor's mutex (Status); until then the
\* request is as good as not yet sent.
Refreshes(i) ==
  /\ polls[i] = NoPoll /\ polls' = [polls EXCEPT ![i] = Status]
  /\ UNCHANGED <<server, page, posts, loads, changes>>

\* renderListeners and populateClinepassModels: the old rows are gone, and with them the
\* dropdown that an older request for the catalog would have filled.
Draws(status) ==
  /\ table' = [status EXCEPT !.model = IF catalog # {} THEN Listed(@, catalog) ELSE Loading]
  /\ focus' = "elsewhere"
  /\ LET old == [i \in Loads |-> [loads[i] EXCEPT !.shown = FALSE]]
     IN  IF catalog # {} THEN loads' = old
         ELSE \E i \in Loads : loads[i] = NoLoad /\ loads' = [old EXCEPT ![i] = Load(status.model)]

\* A wrong Untouchable: any control of the table that has the focus holds it up.
UntouchableAll == focus # "elsewhere"
\* Another: none does.
UntouchableNever == FALSE

Untouchable == MenuOpen

\* The answer is drawn, whether or not a later one has been drawn before.
StatusArrives(i) ==
  /\ polls[i].stage = "answered" /\ polls' = [polls EXCEPT ![i] = NoPoll]
  /\ IF Untouchable THEN UNCHANGED <<table, focus, loads>> ELSE Draws(polls[i].settings)
  /\ UNCHANGED <<server, catalog, posts, changes>>

StatusLost(i) ==
  /\ polls[i] # NoPoll /\ Happens /\ polls' = [polls EXCEPT ![i] = NoPoll]
  /\ UNCHANGED <<server, page, posts, loads>>

\* The catalog is kept for the life of the page; the dropdown it was asked for is filled, if
\* it is still there.
CatalogArrives(i) ==
  /\ loads[i].stage = "answered" /\ loads' = [loads EXCEPT ![i] = NoLoad]
  /\ LET models == loads[i].models
         shows == IF models = {} THEN Unavailable ELSE Listed(loads[i].current, models)
     IN  /\ catalog' = IF models = {} THEN catalog ELSE models
         /\ table' = IF loads[i].shown THEN [table EXCEPT !["model"] = shows] ELSE table
  /\ UNCHANGED <<server, focus, polls, posts, changes>>

CatalogLost(i) ==
  /\ loads[i].stage # "none" /\ Happens /\ loads' = [loads EXCEPT ![i] = NoLoad]
  /\ table' = IF loads[i].shown THEN [table EXCEPT !["model"] = Unavailable] ELSE table
  /\ UNCHANGED <<server, focus, catalog, polls, posts>>

\* post: whatever came of it, the page polls.
PostReturns(i) ==
  /\ posts[i].stage = "answered" /\ posts' = [posts EXCEPT ![i] = NoPost]
  /\ \E p \in Polls : polls[p] = NoPoll /\ polls' = [polls EXCEPT ![p] = Status]
  /\ UNCHANGED <<server, page, loads, changes>>

PostLost(i) ==
  /\ posts[i].stage = "sent" /\ posts' = [posts EXCEPT ![i] = [stage |-> "answered"]]
  /\ UNCHANGED <<server, page, polls, loads, changes>>
-----------------------------------------------------------------------------
(* The user *)

Usable(c) == table[c] \notin {Loading, Unavailable}

Opens(c) ==
  /\ table["box"] # Loading /\ focus # c /\ focus' = c
  /\ UNCHANGED <<server, table, catalog, polls, posts, loads, changes>>

Leaves ==
  /\ focus # "elsewhere" /\ focus' = "elsewhere"
  /\ UNCHANGED <<server, table, catalog, polls, posts, loads, changes>>

Options(c) == IF c = "model" THEN catalog \union {""} ELSE Settings[c]

\* onchange: the control shows the choice, and it is posted.
Chooses(c, v) ==
  /\ Usable(c) /\ focus = c /\ v \in Options(c) \ {table[c]} /\ Happens
  /\ table' = [table EXCEPT ![c] = v]
  /\ \E i \in Posts : posts[i] = NoPost /\ posts' = [posts EXCEPT ![i] = Post(c, v)]
  /\ UNCHANGED <<server, focus, catalog, polls, loads>>

UserActs == Leaves \/ \E c \in Controls : Opens(c) \/ \E v \in Settings[c] : Chooses(c, v)

PostSteps(i) == Handles(i) \/ PostReturns(i)
LoadSteps(i) == LooksUp(i) \/ FetchFails(i) \/ CatalogArrives(i)

Next ==
  \/ \E i \in Polls : Refreshes(i) \/ StatusArrives(i) \/ StatusLost(i)
  \/ \E i \in Posts : PostSteps(i) \/ PostLost(i)
  \/ \E i \in Loads : LoadSteps(i) \/ Fetches(i) \/ CatalogLost(i)
  \/ UserActs \/ ChangesElsewhere \/ FetchedElsewhere

Spec == Init /\ [][Next]_vars

\* The page's timer runs and its requests are answered; clinepass need not answer, but is
\* not waited for longer than 15 seconds (web.go:60).
FairSpec ==
  /\ Spec
  /\ \A i \in Polls : WF_vars(Refreshes(i)) /\ WF_vars(StatusArrives(i))
  /\ \A i \in Posts : WF_vars(PostSteps(i))
  /\ \A i \in Loads : WF_vars(LoadSteps(i))
-----------------------------------------------------------------------------
\* The controls show the settings.
Truthful == table["box"] = live.box /\ table["menu"] = live.menu

\* When nobody changes a setting any more and no dropdown is left open, the page comes to
\* show the settings and goes on showing them, whatever changed them and in whatever order
\* the answers came (web_page.go:324-340, 457).
PageSettles == <>[]~MenuOpen => <>[]Truthful

\* An open dropdown is the user's alone: no answer on its way closes it, or changes what it
\* shows under the cursor (web_page.go:329-332).
MenuIsLeftAlone ==
  [][MenuOpen /\ ~UserActs =>
       focus' = focus /\ (Usable(focus) => table'[focus] = table[focus])]_vars

\* Once somebody has fetched the catalog the picker is filled in the end, and with the model
\* in force, although clinepass never answers again (web.go:64).
PickerFills ==
  <>[]~MenuOpen /\ <>(kept # {}) =>
    <>[](table["model"] = Listed(live.model, catalog) /\ catalog # {})
=============================================================================
