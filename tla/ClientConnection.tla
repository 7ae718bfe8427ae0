-------------------------- MODULE ClientConnection --------------------------
(***************************************************************************)
(* What the proxy promises the client of one classified request,           *)
(* whatever happens upstream: at most one status line, then keepalive      *)
(* chunks only on an event stream the client asked for, then exactly one   *)
(* complete reply under the status already sent, and silence after it.     *)
(* Only a client that has gone is left without a reply.                    *)
(***************************************************************************)
VARIABLES
  phase,    \* "waiting", "streaming" (headers sent), "replied", "abandoned"
  asked,    \* the client asked for an event stream
  status,   \* the HTTP status the client has received
  format,   \* what the response is: "none", "sse", "plain"
  lost      \* the client has gone

cvars == <<phase, asked, status, format, lost>>

Statuses == {"ok", "error", "bad_gateway"}

Init ==
  /\ phase = "waiting" /\ asked \in BOOLEAN
  /\ status = "none" /\ format = "none" /\ lost = FALSE

\* The proxy commits to an event stream before it knows the outcome.
Commit ==
  /\ phase = "waiting" /\ asked
  /\ phase' = "streaming" /\ status' = "ok" /\ format' = "sse"
  /\ UNCHANGED <<asked, lost>>

\* A reply without earlier headers: its status is free, a stream only if asked for.
ReplyFresh ==
  /\ phase = "waiting"
  /\ phase' = "replied"
  /\ status' \in Statuses
  /\ format' \in IF asked THEN {"sse", "plain"} ELSE {"plain"}
  /\ UNCHANGED <<asked, lost>>

\* A reply on the open stream: the 200 and the content type stand.
ReplyOnStream ==
  /\ phase = "streaming"
  /\ phase' = "replied"
  /\ UNCHANGED <<asked, status, format, lost>>

Lose == ~lost /\ lost' = TRUE /\ UNCHANGED <<phase, asked, status, format>>

\* Giving up is for clients that are gone, even if that is noticed only now.
Abandon ==
  /\ phase \in {"waiting", "streaming"}
  /\ phase' = "abandoned" /\ lost' = TRUE
  /\ UNCHANGED <<asked, status, format>>

Next == Commit \/ ReplyFresh \/ ReplyOnStream \/ Lose \/ Abandon

Settle == ReplyFresh \/ ReplyOnStream \/ Abandon

Spec == Init /\ [][Next]_cvars /\ WF_cvars(Settle)
=============================================================================
