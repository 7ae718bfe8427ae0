---------------------------- MODULE MCSupervisor ----------------------------
(***************************************************************************)
(* The local backend, which is always started, and a provider that may be  *)
(* missing at some startup; each binds both addresses.  Two starts let the *)
(* Stop of an older server overlap a newer one, of its own listener or of  *)
(* the process that comes after.  RunningSurvives has one socket each and  *)
(* no faults.                                                              *)
(***************************************************************************)
EXTENDS Supervisor

BothHosts == {"v4", "v6"}
OneHost == {"v4"}
MCSwitches == {"default", "set"}
MCDefault == "default"
LocalOnly == {"local"}
TwoNames == {"local", "claude"}
Provider == {"claude"}
=============================================================================
