--------------------------- MODULE MCRequestRecords ---------------------------
(***************************************************************************)
(* Three requests: a sample, a retried one, and one that is both (retried  *)
(* in its first round, and probed).                                        *)
(***************************************************************************)
EXTENDS RequestRecords

MCRequests == {"clean", "retried", "probed"}
MCRetried == {"retried", "probed"}
MCSampled == {"clean", "probed"}
=============================================================================
