------------------------------ MODULE Routing ------------------------------
(***************************************************************************)
(* Which call a client's request turns into: the routes of a listener      *)
(* (Handler, V0.2/proxy.go:466-637), of the forward proxy's pipeline       *)
(* (mitm.go:195-301), and the destination, path and credential of the call *)
(* upstream (proxy.go:1344-1403, stream.go:142-185).                       *)
(***************************************************************************)

\* A listener: local llama-server, a provider of config.ini, or the forward proxy, whose
\* ProviderConfig is empty.
Server(kind, base, key, allowPassthrough) ==
  [kind |-> kind, base |-> base, key |-> key, allowPassthrough |-> allowPassthrough]

\* forwardProxyOverride; a listener's own requests have none.
Override(base, auth, allowPassthrough) ==
  [base |-> base, auth |-> auth, allowPassthrough |-> allowPassthrough]
NoOverride == Override("", "", FALSE)

\* Clients ask for paths such as these.  A vendor may mount the API under a prefix.
ChatPaths == {"/v1/chat/completions", "/api/v1/chat/completions"}
ModelsPaths == {"/v1/models", "/api/v1/models"}
OtherPaths == {"/v1", "/completion", "/other"}
Paths == ChatPaths \union ModelsPaths \union OtherPaths

\* A call upstream, or an answer of the proxy's own.
Call(to, path, auth) == [to |-> to, path |-> path, auth |-> auth, status |-> 0]
Answer(status) == [to |-> "", path |-> "", auth |-> "", status |-> status]
IsCall(x) == x.status = 0

\* A URL without a host cannot be called.
Reaching(to, path, auth) == IF to = "" THEN Answer(502) ELSE Call(to, path, auth)

Base(server, o) == IF o # NoOverride THEN o.base ELSE server.base
Credential(server, o) == IF o.auth # "" THEN o.auth ELSE server.key

ChatPath(server, kind) ==
  IF server.kind # "local" THEN "/chat/completions"
  ELSE IF kind = "chat" THEN "/v1/chat/completions" ELSE "/completion"

\* postUpstream does not look for an override.
PostUpstream(server, path) == Reaching(server.base, path, server.key)

\* A reverse proxy forwards the client's own headers.
Passthrough(to, request) == Reaching(to, request.path, request.auth)

\* What is not JSON, and the native completion, go through postUpstream.
Classified(server, kind, request, o) ==
  LET path == IF o # NoOverride THEN request.path ELSE ChatPath(server, kind)
  IN  IF request.json /\ kind = "chat"
      THEN Reaching(Base(server, o), path, Credential(server, o))
      ELSE PostUpstream(server, path)

HandleModels(server, request, o) ==
  IF server.kind = "local" THEN Passthrough(server.base, request)
  ELSE Reaching(Base(server, o), IF o # NoOverride THEN request.path ELSE "/models",
                Credential(server, o))

\* Handler: exact paths.
Mux(server, request) ==
  CASE request.path = "/v1/chat/completions" -> Classified(server, "chat", request, NoOverride)
    [] request.path = "/v1/models" -> HandleModels(server, request, NoOverride)
    [] server.kind = "local" /\ request.path = "/completion" ->
         Classified(server, "completion", request, NoOverride)
    [] server.kind # "local" /\ request.path = "/v1" -> Answer(200)
    [] server.kind # "local" /\ request.path = "/completion" -> Answer(501)
    [] OTHER -> IF server.kind = "local" \/ server.allowPassthrough
                THEN Passthrough(server.base, request) ELSE Answer(501)

\* newForwardProxyPipelineHandler: suffixes.
Pipeline(server, request, o) ==
  CASE request.path \in ChatPaths -> Classified(server, "chat", request, o)
    [] request.path \in ModelsPaths -> HandleModels(server, request, o)
    [] OTHER -> IF o.allowPassthrough THEN Passthrough(o.base, request) ELSE Answer(501)

\* What wrapPassthroughWithActivity gets: a ticker runs beside it.
PassesThrough(request, o) ==
  ~request.preflight /\ o.allowPassthrough /\ request.path \notin ChatPaths \union ModelsPaths

\* withCORS answers a preflight itself.
WithCORS(request, outcome) == IF request.preflight THEN Answer(204) ELSE outcome
=============================================================================
