--------------------------- MODULE MCForwardProxy ---------------------------
(***************************************************************************)
(* One connection after the other choice: a CONNECT or plain requests, up  *)
(* to two of them, with one credential or without.  A listed host that     *)
(* passes other paths through, one that does not, and one that is not      *)
(* listed; a local listener and two providers.                             *)
(***************************************************************************)
EXTENDS ForwardProxy

MCConnections == {"c"}
MCListed == {"api.cline.bot", "openrouter.ai"}
MCUnlisted == {"example.org"}
MCOpenHosts == {"api.cline.bot"}
MCListeners ==
  {Server("local", "llama", "", FALSE), Server("provider", "claude", "key", FALSE),
   Server("provider", "clinepass", "key", TRUE)}
MCRequest(path, json, auth) == [path |-> path, json |-> json, auth |-> auth, preflight |-> FALSE]
MCRequests ==
  {MCRequest("/v1/chat/completions", TRUE, "alice"), MCRequest("/v1/chat/completions", FALSE, ""),
   MCRequest("/api/v1/chat/completions", TRUE, "bob"), MCRequest("/v1/models", FALSE, "alice"),
   MCRequest("/api/v1/models", FALSE, ""), MCRequest("/v1", FALSE, ""),
   MCRequest("/completion", TRUE, "bob"), MCRequest("/other", FALSE, "alice"),
   [MCRequest("/v1/chat/completions", FALSE, "") EXCEPT !.preflight = TRUE]}
=============================================================================
