---------------------------- MODULE RequestCycle ----------------------------
(***************************************************************************)
(* The classify/inject/detect/retry cycle of one client request: the       *)
(* goroutine started by handleClassified (V0.2/proxy.go), with its inner   *)
(* attempt loop, its outer alert-continuation loop, and the classified     *)
(* result it leaves on resultCh.                                           *)
(*                                                                         *)
(* One upstream call is one step whose outcome the environment picks:      *)
(* module UpstreamStream opens the streaming call up.  A text is named by  *)
(* the call that produced it, [round, attempt]; a Go string holding text   *)
(* is a sequence of such names, and the empty string is <<>>.              *)
(***************************************************************************)
EXTENDS Integers, Sequences, FiniteSetsExt

CONSTANTS
  MaxRetries,        \* [server] max_retries
  AlertMaxRounds,    \* [server] alert_max_rounds
  RequireLength,     \* [detection] repetition_requires_length_finish
  PreferDry,         \* [retry] prefer_dry_over_repeat_penalty
  Requests,          \* the client requests considered, a subset of Request
  Generations        \* what the upstream may generate, a subset of Generation

Kinds == {"chat", "completion"}

\* What of a request the cycle depends on and never changes: the endpoint,
\* whether the client asked to stream, the bypass toggle (read once), whether
\* the body's model is in alert_models and whether it has a messages array.
Request == [kind : Kinds, stream : BOOLEAN, bypass : BOOLEAN,
            matched : BOOLEAN, messages : BOOLEAN]

\* stream.go's reasoningBudgetExceededFinishReason, the sentinel with which the
\* stream reader reports that it cut the reasoning short.  A stream that just ends
\* has the finish_reason "".
Sentinel == "reasoning_budget"
FinishReasons == {"", "stop", "length", "tool_calls", Sentinel}

\* A parsed 2xx upstream response, reduced to what the cycle tests of it:
\* blank visible text, tool calls present, a repeated n-gram, unbalanced
\* brackets, a broken json block, a short reply holding a confirmation keyword.
Generation == [blank : BOOLEAN, tools : BOOLEAN, repeats : BOOLEAN,
               unbalanced : BOOLEAN, badJSON : BOOLEAN, affirms : BOOLEAN,
               finish : FinishReasons, tokens : Nat]

ASSUME CycleAssumption ==
  /\ MaxRetries \in Nat
  /\ AlertMaxRounds \in Nat
  /\ RequireLength \in BOOLEAN
  /\ PreferDry \in BOOLEAN
  /\ Requests \subseteq Request
  /\ Generations \subseteq Generation

Issues == {"none", "empty", "repetition", "truncated", "bad_syntax",
           "reasoning_loop"}

\* The sampling parameters a retry may write into the body.
Params == {"dry_multiplier", "repeat_penalty", "max_tokens", "n_predict", "temperature"}

Ids == [round : Nat, attempt : Nat]

\* A Go string, as the sequence of the calls whose text it holds.
Text == Seq(Ids)

Outcomes == {"rejected", "transport", "unparseable", "shapeless", "generated"}

NoResult == [t |-> "none"]
-----------------------------------------------------------------------------
VARIABLES
  pc,            \* "call", "round_end", "deliver" or "done"
  req,           \* the request being served
  alertOn,       \* p.AlertEnabled(), a control-panel toggle
  ctxDone,       \* r.Context() was cancelled: the client is gone
  doomed,        \* it already was when the current upstream call was started
  round,         \* alertRound
  attempt,       \* the attempt loop's counter
  retryCount,
  adjustments,   \* the RetryAdjustments made so far
  body,          \* [turns: assistant texts appended to messages,
                 \*  tuned: parameters written by adjustForIssue]
  cur,           \* the per-attempt locals (respStatus, content, ...)
  acc,           \* [text, tokens]: accumulatedContent, totalCompletionTokens
  lastGood,      \* the lastGoodXxx snapshot
  events,        \* UIEvents emitted for this request
  sent,          \* history: every upstream call with its outcome
  result         \* what resultCh holds

locals == <<round, attempt, retryCount, adjustments, body, cur, acc, lastGood>>
vars == <<pc, req, alertOn, ctxDone, doomed, locals, events, sent, result>>

\* The locals assigned from an upstream response; an outcome that ends an
\* attempt early leaves the fields it does not assign at their older value.
Locals == [status : {"none", "ok", "error"}, bytes : {"nil", "upstream", "chat_json"},
           content : Text, finish : FinishReasons, tools : Text,
           prompt : Text, tokens : Nat, streamable : BOOLEAN,
           affirms : BOOLEAN, issue : Issues, err : BOOLEAN]

LastGood == [finish : FinishReasons, tools : Text,
             status : {"none", "ok", "error"}, prompt : Text]

Adjustment == [attempt : Nat, issue : Issues, param : Params]

\* maxRetries, the cap in force for this request.
RetryCap == IF req.bypass THEN 0 ELSE MaxRetries

Here == [round |-> round, attempt |-> attempt]

\* The history record of the upstream call that just returned; late: after the
\* client had gone.
Called(t) == sent' = sent \cup {[id |-> Here, t |-> t, late |-> ctxDone]}
CalledWith(g) ==
  sent' = sent \cup {[id |-> Here, t |-> "generated", late |-> ctxDone, g |-> g]}

\* postUpstreamChatStreaming and postUpstream run under r.Context(): a call started
\* after it was cancelled can only fail.
StartCall == pc' = "call" /\ doomed' = ctxDone
Answers == pc = "call" /\ ~doomed
-----------------------------------------------------------------------------
\* A wrong DetectIssue: a verdict that adjustForIssue does not know.
DetectIssueUnnamed(g) ==
  IF ~g.tools /\ g.blank THEN "blank"
  ELSE IF g.repeats /\ (RequireLength => g.finish = "length") THEN "repetition"
  ELSE IF g.finish = "length" /\ g.unbalanced THEN "truncated"
  ELSE IF g.badJSON THEN "bad_syntax"
  ELSE "none"

\* DetectIssue (detect.go): the first issue found, in the code's order.
DetectIssue(g) ==
  IF ~g.tools /\ g.blank THEN "empty"
  ELSE IF g.repeats /\ (RequireLength => g.finish = "length") THEN "repetition"
  ELSE IF g.finish = "length" /\ g.unbalanced THEN "truncated"
  ELSE IF g.badJSON THEN "bad_syntax"
  ELSE "none"

IssueOf(g) == IF g.finish = Sentinel THEN "reasoning_loop" ELSE DetectIssue(g)

\* looksLikeConfirmation (alert.go): nothing left to say, or a short "yes, done".
LooksLikeConfirmation(g) == g.blank \/ g.affirms

\* The parameter adjustForIssue changes for an issue.
TunedParam(issue) ==
  CASE issue \in {"repetition", "reasoning_loop"} ->
         IF PreferDry THEN "dry_multiplier" ELSE "repeat_penalty"
    [] issue = "truncated" -> IF req.kind = "chat" THEN "max_tokens" ELSE "n_predict"
    [] OTHER -> "temperature"

\* The native endpoint knows neither tool calls nor the sentinel.
Possible(g) ==
  req.kind = "completion" => ~g.tools /\ g.finish \in {"stop", "length"}

SanitizedFinish(g) == IF g.finish = Sentinel THEN "length" ELSE g.finish

\* The locals after a usable 2xx response.
Received(g) ==
  LET chat == req.kind = "chat" IN
  [cur EXCEPT
     !.status     = "ok",
     !.bytes      = IF chat THEN "chat_json" ELSE "upstream",
     !.content    = IF g.blank THEN <<>> ELSE <<Here>>,
     !.finish     = SanitizedFinish(g),
     !.tools      = IF g.tools THEN <<Here>> ELSE <<>>,
     !.prompt     = IF chat THEN <<Here>> ELSE @,
     !.tokens     = g.tokens,
     !.affirms    = LooksLikeConfirmation(g),
     !.streamable = TRUE,
     !.issue      = IssueOf(g)]
-----------------------------------------------------------------------------
Init ==
  /\ pc = "call"
  /\ req \in Requests
  /\ alertOn \in BOOLEAN
  /\ ctxDone = FALSE /\ doomed = FALSE
  /\ round = 0 /\ attempt = 0 /\ retryCount = 0
  /\ adjustments = <<>>
  /\ body = [turns |-> <<>>, tuned |-> {}]
  /\ cur = [status |-> "none", bytes |-> "nil", content |-> <<>>, finish |-> "",
            tools |-> <<>>, prompt |-> <<>>, tokens |-> 0, streamable |-> FALSE,
            affirms |-> TRUE, issue |-> "none", err |-> FALSE]
  /\ acc = [text |-> <<>>, tokens |-> 0]
  /\ lastGood = [finish |-> "", tools |-> <<>>, status |-> "none", prompt |-> <<>>]
  /\ events = 0
  /\ sent = {}
  /\ result = NoResult

env == <<req, alertOn, ctxDone>>
settled == <<env, doomed>>   \* what every step but a new call leaves alone

\* The call fails in transport (refused, reset, idle timeout, cancelled).  On the
\* chat path a cancelled client context means there is nobody left to answer;
\* anything else, and every failure of the native path, is a 502.
CallFails ==
  /\ pc = "call"
  /\ IF req.kind = "chat" /\ ctxDone
       THEN result' = [t |-> "gone"] /\ UNCHANGED events
       ELSE result' = [t |-> "fatal"] /\ events' = events + 1
  /\ Called("transport")
  /\ pc' = "done"
  /\ UNCHANGED <<settled, locals>>

\* A status of 300 or more ends the round: nothing to inspect or to retry.
CallRejected ==
  /\ Answers
  /\ cur' = [cur EXCEPT !.status = "error", !.bytes = "upstream", !.tokens = 0,
                        !.issue = "none", !.err = TRUE]
  /\ Called("rejected")
  /\ pc' = "round_end"
  /\ UNCHANGED <<settled, round, attempt, retryCount, adjustments, body, acc,
                 lastGood, events, result>>

\* The native path only: a 2xx body that is no JSON object ...
CallUnparseable ==
  /\ Answers /\ req.kind = "completion"
  /\ cur' = [cur EXCEPT !.status = "ok", !.bytes = "upstream", !.tokens = 0,
                        !.issue = "none", !.err = TRUE]
  /\ Called("unparseable")
  /\ pc' = "round_end"
  /\ UNCHANGED <<settled, round, attempt, retryCount, adjustments, body, acc,
                 lastGood, events, result>>

\* ... or one without the expected content field.
CallShapeless ==
  /\ Answers /\ req.kind = "completion"
  /\ cur' = [cur EXCEPT !.status = "ok", !.bytes = "upstream", !.tokens = 0,
                        !.content = <<>>, !.finish = "", !.affirms = TRUE,
                        !.issue = "none", !.err = TRUE]
  /\ Called("shapeless")
  /\ pc' = "round_end"
  /\ UNCHANGED <<settled, round, attempt, retryCount, adjustments, body, acc,
                 lastGood, events, result>>

\* A wrong RetriesLeft: one retry too many.
RetriesLeftLong == attempt <= RetryCap

\* attempt < maxRetries
RetriesLeft == attempt < RetryCap

\* A usable response that is clean, or the last one the retry cap allows.
GenerationAccepted(g) ==
  /\ Answers /\ Possible(g)
  /\ IssueOf(g) = "none" \/ ~RetriesLeft
  /\ cur' = Received(g)
  /\ CalledWith(g)
  /\ pc' = "round_end"
  /\ UNCHANGED <<settled, round, attempt, retryCount, adjustments, body, acc,
                 lastGood, events, result>>

\* A flawed response with retries left: adjust the body for the issue, try again.
GenerationRetried(g) ==
  LET param == TunedParam(IssueOf(g)) IN
  /\ Answers /\ Possible(g)
  /\ IssueOf(g) # "none" /\ RetriesLeft
  /\ cur' = Received(g)
  /\ CalledWith(g)
  /\ body' = [body EXCEPT !.tuned = @ \cup {param}]
  /\ adjustments' = Append(adjustments,
        [attempt |-> attempt, issue |-> IssueOf(g), param |-> param])
  /\ retryCount' = attempt + 1
  /\ attempt' = attempt + 1
  /\ StartCall
  /\ UNCHANGED <<env, round, acc, lastGood, events, result>>

RoundFailed == ~cur.streamable \/ cur.status = "error"

\* A wrong RoundFails: a failed follow-up is handed over as it is.
RoundFailsPlainly ==
  /\ pc = "round_end" /\ RoundFailed
  /\ pc' = "deliver"
  /\ UNCHANGED <<settled, locals, events, sent, result>>

\* The round brought no usable response: round 0 forwards what it has, a later
\* round falls back to the snapshot of the last successful one.
RoundFails ==
  /\ pc = "round_end" /\ RoundFailed
  /\ cur' = IF round > 0
             THEN [cur EXCEPT !.finish = lastGood.finish, !.tools = lastGood.tools,
                              !.status = lastGood.status, !.prompt = lastGood.prompt,
                              !.streamable = TRUE]
             ELSE cur
  /\ pc' = "deliver"
  /\ UNCHANGED <<settled, round, attempt, retryCount, adjustments, body, acc,
                 lastGood, events, sent, result>>

\* A wrong ConfirmationOnly: the first answer can be one, too.
ConfirmationInAnyRound == cur.affirms

ConfirmationOnly == round > 0 /\ cur.affirms

CanAlertAgain ==
  /\ req.kind = "chat" /\ alertOn /\ req.matched
  /\ cur.finish = "stop" /\ ~ConfirmationOnly
  /\ round < AlertMaxRounds

\* A wrong Accumulated: tokens are counted for a confirmation, too.
AccumulatedTokens ==
  [text |-> IF ConfirmationOnly THEN acc.text ELSE acc.text \o cur.content,
   tokens |-> acc.tokens + cur.tokens]

\* The round's text and tokens count unless it only confirms.
Accumulated ==
  IF ConfirmationOnly THEN acc
  ELSE [text |-> acc.text \o cur.content, tokens |-> acc.tokens + cur.tokens]

\* A wrong Snapshot: it is taken once and never renewed.
SnapshotOnce ==
  IF round > 0 THEN lastGood
  ELSE [finish |-> cur.finish, tools |-> cur.tools, status |-> cur.status,
        prompt |-> cur.prompt]

\* lastGoodXxx
Snapshot ==
  [finish |-> cur.finish, tools |-> cur.tools, status |-> cur.status, prompt |-> cur.prompt]

RoundKept ==
  /\ pc = "round_end" /\ ~RoundFailed
  /\ acc' = Accumulated
  /\ lastGood' = Snapshot
  /\ UNCHANGED <<env, adjustments, cur, events, sent, result>>

\* A wrong RoundStops: no way out if there is no messages array to extend.
RoundStopsUnlessAsked ==
  /\ RoundKept
  /\ ~CanAlertAgain
  /\ pc' = "deliver"
  /\ UNCHANGED <<doomed, round, attempt, retryCount, body>>

RoundStops ==
  /\ RoundKept
  /\ ~(CanAlertAgain /\ req.messages)
  /\ pc' = "deliver"
  /\ UNCHANGED <<doomed, round, attempt, retryCount, body>>

\* Extend the conversation by this reply and the probe, and start a new round.
RoundProbes ==
  /\ RoundKept
  /\ CanAlertAgain /\ req.messages
  /\ body' = [body EXCEPT !.turns = @ \o cur.content]
  /\ round' = round + 1 /\ attempt' = 0 /\ retryCount' = 0
  /\ StartCall

\* Rebuild the response from the accumulated text and hand it over.
Deliver ==
  /\ pc = "deliver"
  /\ result' = [t |-> "answer", status |-> cur.status,
                bytes |-> IF cur.streamable THEN "chat_json" ELSE cur.bytes,
                text |-> acc.text, finish |-> cur.finish, tools |-> cur.tools,
                prompt |-> cur.prompt, tokens |-> acc.tokens, issue |-> cur.issue,
                streamable |-> cur.streamable, err |-> cur.err,
                retryCount |-> retryCount, adjustments |-> adjustments,
                alertRounds |-> round]
  /\ pc' = "done"
  /\ UNCHANGED <<settled, locals, events, sent>>

\* The control panel flips the alert toggle of the listener.
AlertToggled ==
  /\ pc # "done"
  /\ alertOn' = ~alertOn
  /\ UNCHANGED <<pc, req, ctxDone, doomed, locals, events, sent, result>>

\* The downstream connection goes away; net/http cancels r.Context().
ClientDisconnects ==
  /\ pc # "done" /\ ~ctxDone
  /\ ctxDone' = TRUE
  /\ UNCHANGED <<pc, req, alertOn, doomed, locals, events, sent, result>>

Terminated == pc = "done" /\ UNCHANGED vars

UpstreamReturns ==
  \/ CallFails \/ CallRejected \/ CallUnparseable \/ CallShapeless
  \/ \E g \in Generations : GenerationAccepted(g) \/ GenerationRetried(g)

CycleStep == UpstreamReturns \/ RoundFails \/ RoundStops \/ RoundProbes \/ Deliver

Next == CycleStep \/ AlertToggled \/ ClientDisconnects \/ Terminated

Spec == Init /\ [][Next]_vars

\* Every upstream call returns and the goroutine is scheduled.
FairSpec == Spec /\ WF_vars(CycleStep)
-----------------------------------------------------------------------------
\* Every variable has its type.
TypeOK ==
  /\ pc \in {"call", "round_end", "deliver", "done"}
  /\ req \in Request /\ alertOn \in BOOLEAN /\ ctxDone \in BOOLEAN
  /\ doomed \in BOOLEAN
  /\ round \in Nat /\ attempt \in Nat /\ retryCount \in Nat
  /\ adjustments \in Seq(Adjustment)
  /\ body \in [turns : Text, tuned : SUBSET Params]
  /\ cur \in Locals
  /\ acc \in [text : Text, tokens : Nat]
  /\ lastGood \in LastGood
  /\ events \in Nat
  /\ \A c \in sent : c.id \in Ids /\ c.t \in Outcomes /\ c.late \in BOOLEAN
                     /\ (c.t = "generated" => c.g \in Generations)
  /\ result.t \in {"none", "gone", "fatal", "answer"}

Answered == result.t = "answer"

\* c is the last upstream call of its round.
LastOfRound(c) ==
  \A d \in sent : d.id.round = c.id.round => d.id.attempt <= c.id.attempt

\* c is the call whose reply its round hands to the client: the last attempt,
\* usable, and in a follow-up round more than a bare confirmation.
Kept(c) ==
  /\ c.t = "generated" /\ LastOfRound(c)
  /\ c.id.round = 0 \/ ~LooksLikeConfirmation(c.g)

\* The calls a text is made of, and those whose text the client must get.
TextIds(text) == {text[i] : i \in DOMAIN text}
KeptIds == {c.id : c \in {d \in sent : Kept(d) /\ ~d.g.blank}}

\* The rounds a text comes from are in order, each at most once.
InRoundOrder(text) ==
  \A i, j \in DOMAIN text : i < j => text[i].round < text[j].round

\* t begins with s.
Begins(t, s) == Len(s) <= Len(t) /\ \A i \in DOMAIN s : t[i] = s[i]

\* A chat client gets the text of every kept round, in order, once, and nothing
\* else: no text of an attempt that was retried away, no confirmation, and none
\* lost when a later round fails (accumulatedContent, proxy.go alertLoop).
AnswerIsKeptRounds ==
  Answered /\ req.kind = "chat" =>
    TextIds(result.text) = KeptIds /\ InRoundOrder(result.text)

\* The completion_tokens that the upstream charged for a set of calls.
TokensOf(c) == c.g.tokens
Tokens(calls) == MapThenSumSet(TokensOf, calls)

\* The completion_tokens a chat client is told are those of the rounds whose text
\* it gets: a retried attempt's and a confirmation's are left out, and none is
\* counted twice (totalCompletionTokens in the alert loop).
UsageIsKeptRounds ==
  Answered /\ req.kind = "chat" => result.tokens = Tokens({c \in sent : Kept(c)})

\* What the model is asked to continue from is what the client will be given:
\* whenever a call goes out, the assistant turns in its messages are the text
\* accumulated so far (the probe extends body["messages"] at the same step).
ConversationIsTheAnswer == pc = "call" => body.turns = acc.text

\* "a failed follow-up must never turn that into an error" (proxy.go, the
\* fallback to lastGoodXxx): once a round has succeeded, an answer handed over
\* later is a 2xx, streamable, and begins with everything already won.
RejectedFollowUpKeepsAnswer ==
  Answered /\ result.alertRounds > 0 =>
    /\ result.status = "ok" /\ result.streamable /\ result.bytes = "chat_json"
    /\ Begins(result.text, body.turns)

\* c is the call a round ended with, and a usable one.
Usable(c) == c.t = "generated" /\ LastOfRound(c)

\* The finish_reason, tool calls and prompt_tokens of a streamable chat answer all
\* come from one generation: that of the last round that succeeded (the lastGoodXxx
\* snapshot), never from an attempt of a later round that came to nothing.  The
\* stream reader's sentinel never reaches the client as a finish_reason.
ResultIsOneRound ==
  Answered /\ result.streamable /\ req.kind = "chat" =>
    \E c \in sent :
      /\ Usable(c) \/ (c.t = "generated" /\ result.alertRounds = 0)
      /\ \A d \in sent : Usable(d) => d.id.round <= c.id.round
      /\ result.prompt = <<c.id>>
      /\ result.tools = IF c.g.tools THEN <<c.id>> ELSE <<>>
      /\ result.finish = IF c.g.finish = Sentinel THEN "length" ELSE c.g.finish

\* One request costs the upstream at most RetryCap + 1 calls in each of at most
\* AlertMaxRounds + 1 rounds, and a single round without alert-continuation.
CallsBounded ==
  /\ \A c \in sent : /\ c.id.attempt <= RetryCap
                     /\ c.id.round <= AlertMaxRounds
                     /\ (req.kind = "completion" \/ ~req.matched) => c.id.round = 0
  /\ \A c, d \in sent : c.id = d.id => c = d

\* The goroutine always comes to an end: every request gets a result.
CycleEnds == <>(pc = "done")
-----------------------------------------------------------------------------
\* proxy.go:866-869, of streamable: "If the upstream response was an error or an
\* unexpected shape, we must forward it as-is rather than synthesizing a fake SSE
\* stream around it."
ErrorForwardedAsIs ==
  Answered /\ result.status = "error" =>
    ~result.streamable /\ result.bytes = "upstream"
=============================================================================
