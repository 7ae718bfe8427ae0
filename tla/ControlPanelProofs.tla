------------------------- MODULE ControlPanelProofs -------------------------
(***************************************************************************)
(* Theorems about ControlPanel, for any number of polls, POSTs, catalog    *)
(* requests and changes, and every choice of models and catalogs.          *)
(***************************************************************************)
EXTENDS ControlPanel, TLAPS

LoadFields == {"stage", "shown", "current", "models"}

\* What is drawn has a value for each control, and what is on its way to be drawn too.
ControlsInv ==
  /\ DOMAIN table = Controls /\ DOMAIN live = Controls
  /\ DOMAIN polls = Polls /\ DOMAIN loads = Loads
  /\ \A i \in Polls : polls[i].stage = "answered" => DOMAIN polls[i].settings = Controls
  /\ \A i \in Loads : DOMAIN loads[i] = LoadFields

\* The model picker waits for one request for the catalog at most, and offers nothing until
\* that has come back.
PickerInv ==
  /\ \A i \in Loads : loads[i].shown => table["model"] = Loading
  /\ \A i, j \in Loads : loads[i].shown /\ loads[j].shown => i = j

MenuInv == ControlsInv /\ PickerInv

\* The controls by name.
LEMMA ControlsAre == Controls = {"box", "menu", "model"} /\ Menus = {"menu", "model"}
BY DEF Controls, Menus

\* The page starts with no rows and no request on its way.
LEMMA InitMenuInv == Init => MenuInv
<1> SUFFICES ASSUME Init PROVE MenuInv
  OBVIOUS
<1>1. DOMAIN live = Controls
  BY ControlsAre DEF Init
<1>2. DOMAIN table = Controls /\ DOMAIN polls = Polls /\ DOMAIN loads = Loads
  BY DEF Init
<1>3. \A i \in Polls : polls[i].stage = "none"
  BY DEF Init, NoPoll
<1>4. \A i \in Loads : ~loads[i].shown /\ DOMAIN loads[i] = LoadFields
  BY DEF Init, NoLoad, LoadFields
<1> QED
  BY <1>1, <1>2, <1>3, <1>4 DEF MenuInv, ControlsInv, PickerInv

\* The status of the server has all controls.
LEMMA StatusIsWhole ==
  ASSUME MenuInv, NEW i \in Polls, polls' = [polls EXCEPT ![i] = Status]
  PROVE  /\ DOMAIN polls' = Polls
         /\ \A p \in Polls : polls'[p].stage = "answered" => DOMAIN polls'[p].settings = Controls
BY DEF MenuInv, ControlsInv, Status

\* A poll that is over has nothing to be drawn.
LEMMA PollOver ==
  ASSUME MenuInv, NEW i \in Polls, polls' = [polls EXCEPT ![i] = NoPoll]
  PROVE  /\ DOMAIN polls' = Polls
         /\ \A p \in Polls : polls'[p].stage = "answered" => DOMAIN polls'[p].settings = Controls
BY DEF MenuInv, ControlsInv, NoPoll

\* What the endpoints do: nothing is drawn, and every request for the catalog belongs to the
\* dropdown it belonged to.
LEMMA EndpointsDrawNothing ==
  ASSUME MenuInv,
         \/ \E i \in Posts : Handles(i)
         \/ \E i \in Loads : LooksUp(i) \/ Fetches(i) \/ FetchFails(i)
         \/ ChangesElsewhere \/ FetchedElsewhere
  PROVE  MenuInv' /\ UNCHANGED <<table, focus>>
<1>1. ASSUME NEW i \in Posts, Handles(i) PROVE MenuInv' /\ UNCHANGED <<table, focus>>
  <2>1. UNCHANGED <<table, focus, polls, loads>>
    BY <1>1 DEF Handles, page
  <2>2. DOMAIN live' = Controls
    BY <1>1 DEF Handles, MenuInv, ControlsInv
  <2> QED
    BY <2>1, <2>2 DEF MenuInv, ControlsInv, PickerInv
<1>2. ASSUME NEW i \in Loads, LooksUp(i) \/ Fetches(i) \/ FetchFails(i)
      PROVE  MenuInv' /\ UNCHANGED <<table, focus>>
  <2>1. UNCHANGED <<live, table, focus, polls>>
    BY <1>2 DEF LooksUp, Fetches, FetchFails, server, page
  <2>2. /\ DOMAIN loads' = Loads
        /\ \A j \in Loads : DOMAIN loads'[j] = LoadFields /\ loads'[j].shown = loads[j].shown
    <3>1. \E stage, models : loads' = [loads EXCEPT ![i].stage = stage, ![i].models = models]
      <4>1. CASE LooksUp(i)
        BY <4>1 DEF LooksUp
      <4>2. CASE Fetches(i)
        BY <4>2 DEF Fetches
      <4>3. CASE FetchFails(i)
        BY <4>3 DEF FetchFails, AfterError
      <4> QED
        BY <1>2, <4>1, <4>2, <4>3
    <3> QED
      BY <3>1 DEF MenuInv, ControlsInv, LoadFields
  <2> QED
    BY <2>1, <2>2 DEF MenuInv, ControlsInv, PickerInv
<1>3. ASSUME ChangesElsewhere \/ FetchedElsewhere PROVE MenuInv' /\ UNCHANGED <<table, focus>>
  <2>1. UNCHANGED <<table, focus, polls, loads>>
    BY <1>3 DEF ChangesElsewhere, FetchedElsewhere, page
  <2>2. DOMAIN live' = Controls
    BY <1>3 DEF ChangesElsewhere, FetchedElsewhere, MenuInv, ControlsInv
  <2> QED
    BY <2>1, <2>2 DEF MenuInv, ControlsInv, PickerInv
<1> QED
  BY <1>1, <1>2, <1>3

\* Neither does what the page sends, or what it hears of its POSTs.
LEMMA SendingDrawsNothing ==
  ASSUME MenuInv,
         \/ \E i \in Polls : Refreshes(i) \/ StatusLost(i)
         \/ \E i \in Posts : PostReturns(i) \/ PostLost(i)
  PROVE  MenuInv' /\ UNCHANGED <<table, focus>>
<1>1. UNCHANGED <<live, table, focus, loads>>
  BY DEF Refreshes, StatusLost, PostReturns, PostLost, server, page
<1>2. /\ DOMAIN polls' = Polls
      /\ \A p \in Polls : polls'[p].stage = "answered" => DOMAIN polls'[p].settings = Controls
  <2>1. CASE \E i \in Polls : polls' = [polls EXCEPT ![i] = Status]
    BY <2>1, StatusIsWhole
  <2>2. CASE \E i \in Polls : polls' = [polls EXCEPT ![i] = NoPoll]
    BY <2>2, PollOver
  <2>3. CASE polls' = polls
    BY <2>3 DEF MenuInv, ControlsInv
  <2> QED
    BY <2>1, <2>2, <2>3 DEF Refreshes, StatusLost, PostReturns, PostLost
<1> QED
  BY <1>1, <1>2 DEF MenuInv, ControlsInv, PickerInv

\* A redraw leaves at most one request for the catalog to a dropdown, and that dropdown
\* without options.
LEMMA DrawsPicker ==
  ASSUME MenuInv, NEW status, DOMAIN status = Controls, Draws(status)
  PROVE  /\ DOMAIN table' = Controls /\ DOMAIN loads' = Loads
         /\ \A i \in Loads : DOMAIN loads'[i] = LoadFields
         /\ PickerInv'
<1> DEFINE old == [i \in Loads |-> [loads[i] EXCEPT !.shown = FALSE]]
<1>1. DOMAIN table' = Controls
  BY DEF Draws
<1>2. \A i \in Loads : DOMAIN old[i] = LoadFields /\ ~old[i].shown
  BY DEF MenuInv, ControlsInv, LoadFields
<1>3. CASE catalog # {}
  <2>1. loads' = old
    BY <1>3 DEF Draws
  <2> HIDE DEF old
  <2>2. DOMAIN loads' = Loads
    BY <2>1 DEF old
  <2> QED
    BY <1>1, <1>2, <2>1, <2>2 DEF PickerInv
<1>4. CASE catalog = {}
  <2>1. table'["model"] = Loading
    BY <1>4, ControlsAre DEF Draws
  <2>2. PICK i \in Loads : loads' = [old EXCEPT ![i] = Load(status.model)]
    BY <1>4 DEF Draws
  <2>3. DOMAIN loads' = Loads
    BY <2>2
  <2>4. \A j \in Loads : loads'[j] = IF j = i THEN Load(status.model) ELSE old[j]
    BY <2>2
  <2>5. DOMAIN Load(status.model) = LoadFields
    BY DEF Load, LoadFields
  <2> HIDE DEF old
  <2> QED
    BY <1>1, <1>2, <2>1, <2>3, <2>4, <2>5 DEF PickerInv
<1> QED
  BY <1>3, <1>4

\* The answer to a poll redraws the table, unless a dropdown has the focus.
LEMMA StatusSparesMenu ==
  ASSUME MenuInv, NEW i \in Polls, StatusArrives(i)
  PROVE  MenuInv' /\ (MenuOpen => UNCHANGED <<table, focus>>)
<1>1. UNCHANGED live /\ polls' = [polls EXCEPT ![i] = NoPoll]
  BY DEF StatusArrives, server
<1>2. CASE MenuOpen
  <2>1. UNCHANGED <<table, focus, loads>>
    BY <1>2 DEF StatusArrives, Untouchable
  <2> QED
    BY <1>1, <2>1, PollOver DEF MenuInv, ControlsInv, PickerInv
<1>3. CASE ~MenuOpen
  <2>1. Draws(polls[i].settings) /\ DOMAIN polls[i].settings = Controls
    BY <1>3 DEF StatusArrives, Untouchable, MenuInv, ControlsInv
  <2>2. /\ DOMAIN table' = Controls /\ DOMAIN loads' = Loads
        /\ \A j \in Loads : DOMAIN loads'[j] = LoadFields
        /\ PickerInv'
    BY <2>1, DrawsPicker
  <2>3. DOMAIN live' = Controls
    BY <1>1 DEF MenuInv, ControlsInv
  <2> QED
    BY <1>1, <1>3, <2>2, <2>3, PollOver DEF MenuInv, ControlsInv
<1> QED
  BY <1>2, <1>3

\* The catalog fills a picker that has had no options so far.
LEMMA CatalogSparesMenu ==
  ASSUME MenuInv, NEW i \in Loads, CatalogArrives(i) \/ CatalogLost(i)
  PROVE  /\ MenuInv' /\ UNCHANGED focus
         /\ \A c \in Controls : Usable(c) => table'[c] = table[c]
<1>1. UNCHANGED <<live, focus, polls>> /\ loads' = [loads EXCEPT ![i] = NoLoad]
  BY DEF CatalogArrives, CatalogLost, server
<1>2. /\ DOMAIN loads' = Loads
      /\ \A j \in Loads : DOMAIN loads'[j] = LoadFields
      /\ \A j \in Loads : loads'[j].shown => j # i /\ loads[j].shown
  BY <1>1 DEF MenuInv, ControlsInv, NoLoad, LoadFields
<1>3. CASE ~loads[i].shown
  <2>1. UNCHANGED table
    BY <1>3 DEF CatalogArrives, CatalogLost
  <2> QED
    BY <1>1, <1>2, <2>1 DEF MenuInv, ControlsInv, PickerInv
<1>4. CASE loads[i].shown
  <2>1. PICK shows : table' = [table EXCEPT !["model"] = shows]
    BY <1>4 DEF CatalogArrives, CatalogLost
  <2>2. DOMAIN table' = Controls /\ (\A c \in Controls : c # "model" => table'[c] = table[c])
    BY <2>1 DEF MenuInv, ControlsInv
  <2>3. ~Usable("model")
    BY <1>4 DEF MenuInv, PickerInv, Usable
  <2>4. \A j \in Loads : ~loads'[j].shown
    BY <1>2, <1>4 DEF MenuInv, PickerInv
  <2> QED
    BY <1>1, <1>2, <2>2, <2>3, <2>4 DEF MenuInv, ControlsInv, PickerInv
<1> QED
  BY <1>3, <1>4

\* The user chooses from a control that shows something, so from no picker that waits.
LEMMA UserKeepsMenuInv ==
  ASSUME MenuInv, UserActs
  PROVE  MenuInv'
<1>1. UNCHANGED <<live, polls, loads>>
  BY DEF UserActs, Leaves, Opens, Chooses, server
<1>2. CASE UNCHANGED table
  BY <1>1, <1>2 DEF MenuInv, ControlsInv, PickerInv
<1>3. CASE \E c \in Controls : \E v \in Settings[c] : Chooses(c, v)
  <2>1. PICK c \in Controls : \E v \in Settings[c] : Usable(c) /\ table' = [table EXCEPT ![c] = v]
    BY <1>3 DEF Chooses
  <2>2. DOMAIN table' = Controls
    BY <2>1 DEF MenuInv, ControlsInv
  <2>3. \A i \in Loads : loads[i].shown => table'["model"] = Loading
    <3> SUFFICES ASSUME NEW i \in Loads, loads[i].shown PROVE table'["model"] = Loading
      OBVIOUS
    <3>1. table["model"] = Loading
      BY DEF MenuInv, PickerInv
    <3>2. c # "model"
      BY <2>1, <3>1 DEF Usable
    <3> QED
      BY <2>1, <3>1, <3>2, ControlsAre DEF MenuInv, ControlsInv
  <2> QED
    BY <1>1, <2>2, <2>3 DEF MenuInv, ControlsInv, PickerInv
<1> QED
  BY <1>2, <1>3 DEF UserActs, Leaves, Opens

\* An open dropdown keeps the focus and, if it can be used, what it shows.
MenuSpared == focus' = focus /\ (Usable(focus) => table'[focus] = table[focus])

\* What every step keeps, and what only the user's may do.
LEMMA StepSparesMenu ==
  ASSUME MenuInv, [Next]_vars
  PROVE  MenuInv' /\ (MenuOpen /\ ~UserActs => MenuSpared)
<1>1. CASE UNCHANGED <<live, table, focus, polls, loads>>
  BY <1>1 DEF MenuInv, ControlsInv, PickerInv, MenuSpared
<1>2. CASE \/ \E i \in Posts : Handles(i)
           \/ \E i \in Loads : LooksUp(i) \/ Fetches(i) \/ FetchFails(i)
           \/ ChangesElsewhere \/ FetchedElsewhere
  BY <1>2, EndpointsDrawNothing DEF MenuSpared
<1>3. CASE \/ \E i \in Polls : Refreshes(i) \/ StatusLost(i)
           \/ \E i \in Posts : PostReturns(i) \/ PostLost(i)
  BY <1>3, SendingDrawsNothing DEF MenuSpared
<1>4. CASE \E i \in Polls : StatusArrives(i)
  BY <1>4, StatusSparesMenu DEF MenuSpared
<1>5. CASE \E i \in Loads : CatalogArrives(i) \/ CatalogLost(i)
  BY <1>5, CatalogSparesMenu DEF MenuSpared, MenuOpen, Controls
<1>6. CASE UserActs
  BY <1>6, UserKeepsMenuInv
<1>7. CASE UNCHANGED vars
  BY <1>7, <1>1 DEF vars, server, page
<1> QED
  BY <1>2, <1>3, <1>4, <1>5, <1>6, <1>7 DEF Next, PostSteps, LoadSteps

\* An open dropdown is the user's alone: whatever answers are on its way, in whatever order,
\* none closes it or changes what it shows.
THEOREM OpenMenuIsSpared == Spec => MenuIsLeftAlone
<1>1. Init => MenuInv
  BY InitMenuInv
<1>2. MenuInv /\ [Next]_vars => MenuInv'
  BY StepSparesMenu
<1>3. MenuInv /\ [Next]_vars => [MenuOpen /\ ~UserActs => MenuSpared]_vars
  BY StepSparesMenu
<1>4. MenuIsLeftAlone <=> [][MenuOpen /\ ~UserActs => MenuSpared]_vars
  BY DEF MenuIsLeftAlone, MenuSpared
<1> QED
  BY <1>1, <1>2, <1>3, <1>4, PTL DEF Spec
=============================================================================
