---------------------------- MODULE MCEventFanout ----------------------------
(***************************************************************************)
(* Two requests, one of them a passthrough, and two watchers, each with    *)
(* room for one event; the classified request may call the upstream twice. *)
(***************************************************************************)
EXTENDS EventFanout

MCRequests == {"chat", "other"}
MCPassthrough == {"other"}
MCDashboards == {"tui"}
MCBrowsers == {"browser"}
=============================================================================
