------------------------- MODULE RequestCycleProofs -------------------------
(***************************************************************************)
(* Theorems about RequestCycle, and in the last part about                 *)
(* ClassifiedRequest, which puts the handler beside the cycle: for every   *)
(* retry cap, every number of alert rounds and every set of requests and   *)
(* generations.                                                            *)
(***************************************************************************)
EXTENDS ClassifiedRequest, FiniteSetTheorems, WellFoundedInduction, TLAPS

\* The verdict on a generation is an issue, and each issue tunes a known parameter.
LEMMA VerdictType ==
  /\ \A g : IssueOf(g) \in Issues
  /\ \A i : TunedParam(i) \in Params
BY DEF IssueOf, DetectIssue, Issues, TunedParam, Params

\* Texts are closed under concatenation.
LEMMA TextClosed == <<>> \in Text /\ (\A s, t \in Text : s \o t \in Text)
BY DEF Text

\* The call being made has an id, and reading a generation keeps the locals typed.
LEMMA ReceivedType ==
  ASSUME TypeOK, NEW g \in Generation
  PROVE  Here \in Ids /\ Received(g) \in Locals
<1>1. Here \in Ids
  BY DEF TypeOK, Here, Ids
<1>2. <<Here>> \in Text /\ <<>> \in Text
  BY <1>1 DEF Text
<1>3. SanitizedFinish(g) \in FinishReasons
  BY DEF SanitizedFinish, Generation, FinishReasons, Sentinel
<1>4. IssueOf(g) \in Issues
  BY VerdictType
<1>5. LooksLikeConfirmation(g) \in BOOLEAN
  BY DEF LooksLikeConfirmation, Generation
<1>6. g.tokens \in Nat /\ cur \in Locals
  BY DEF Generation, TypeOK
<1>7. Received(g) \in Locals
  BY <1>2, <1>3, <1>4, <1>5, <1>6 DEF Received, Locals
<1>. QED BY <1>1, <1>7

\* The initial states are well typed.
LEMMA TypeInit == Init => TypeOK
<1>. SUFFICES ASSUME Init PROVE TypeOK
  OBVIOUS
<1>0. <<>> \in Text /\ <<>> \in Seq(Adjustment)
  BY DEF Text
<1>1. cur \in Locals
  BY <1>0 DEF Init, Locals, Issues, FinishReasons
<1>2. lastGood \in LastGood
  BY <1>0 DEF Init, LastGood, FinishReasons
<1>3. body \in [turns : Text, tuned : SUBSET Params]
  BY <1>0 DEF Init
<1>4. acc \in [text : Text, tokens : Nat]
  BY <1>0 DEF Init
<1>5. req \in Request
  BY CycleAssumption DEF Init
<1>6. result.t = "none"
  BY DEF Init, NoResult
<1>. QED
  BY <1>0, <1>1, <1>2, <1>3, <1>4, <1>5, <1>6 DEF Init, TypeOK

\* Every step of the cycle keeps the types.
LEMMA TypeStep == TypeOK /\ [Next]_vars => TypeOK'
<1>. SUFFICES ASSUME TypeOK, [Next]_vars PROVE TypeOK'
  OBVIOUS
<1>0. RetryCap \in Nat
  BY CycleAssumption DEF RetryCap
<1>h. Here \in Ids
  BY DEF TypeOK, Here, Ids
<1>1. CASE CallFails
  BY <1>1, <1>h DEF TypeOK, CallFails, Called, Outcomes, settled, env, locals
<1>2. CASE CallRejected
  <2>1. cur' \in Locals
    BY <1>2 DEF TypeOK, CallRejected, Locals, Issues
  <2>. QED BY <1>2, <1>h, <2>1 DEF TypeOK, CallRejected, Called, Outcomes, settled, env
<1>3. CASE CallUnparseable
  <2>1. cur' \in Locals
    BY <1>3 DEF TypeOK, CallUnparseable, Locals, Issues
  <2>. QED BY <1>3, <1>h, <2>1 DEF TypeOK, CallUnparseable, Called, Outcomes, settled, env
<1>4. CASE CallShapeless
  <2>1. cur' \in Locals
    BY <1>4, TextClosed DEF TypeOK, CallShapeless, Locals, Issues, FinishReasons
  <2>. QED BY <1>4, <1>h, <2>1 DEF TypeOK, CallShapeless, Called, Outcomes, settled, env
<1>5. ASSUME NEW g \in Generations, GenerationAccepted(g) PROVE TypeOK'
  <2>1. cur' \in Locals
    BY <1>5, ReceivedType, CycleAssumption DEF GenerationAccepted
  <2>. QED BY <1>5, <1>h, <2>1 DEF TypeOK, GenerationAccepted, CalledWith, Outcomes, settled, env
<1>6. ASSUME NEW g \in Generations, GenerationRetried(g) PROVE TypeOK'
  <2>1. cur' \in Locals
    BY <1>6, ReceivedType, CycleAssumption DEF GenerationRetried
  <2>2. body' \in [turns : Text, tuned : SUBSET Params]
    BY <1>6, VerdictType DEF GenerationRetried, TypeOK
  <2>3. adjustments' \in Seq(Adjustment)
    BY <1>6, VerdictType DEF GenerationRetried, TypeOK, Adjustment
  <2>. QED BY <1>6, <1>h, <2>1, <2>2, <2>3
         DEF TypeOK, GenerationRetried, CalledWith, Outcomes, StartCall, Answers, env
<1>7. CASE RoundFails
  <2>1. cur' \in Locals
    BY <1>7 DEF TypeOK, RoundFails, Locals, LastGood
  <2>. QED BY <1>7, <2>1 DEF TypeOK, RoundFails, settled, env
<1>8. ASSUME RoundKept PROVE acc' \in [text : Text, tokens : Nat] /\ lastGood' \in LastGood
  <2>1. cur.content \in Text /\ cur.tokens \in Nat
    BY DEF TypeOK, Locals
  <2>2. acc' \in [text : Text, tokens : Nat]
    BY <1>8, <2>1, TextClosed DEF TypeOK, RoundKept, Accumulated, Snapshot
  <2>3. lastGood' \in LastGood
    BY <1>8 DEF TypeOK, RoundKept, Locals, LastGood, Accumulated, Snapshot
  <2>. QED BY <2>2, <2>3
<1>9. CASE RoundStops
  BY <1>8, <1>9 DEF TypeOK, RoundStops, RoundKept, env
<1>10. CASE RoundProbes
  <2>1. body' \in [turns : Text, tuned : SUBSET Params]
    <3>1. cur.content \in Text
      BY DEF TypeOK, Locals
    <3>. QED BY <1>10, <3>1, TextClosed DEF RoundProbes, TypeOK
  <2>2. round' \in Nat /\ attempt' \in Nat /\ retryCount' \in Nat
    BY <1>10 DEF TypeOK, RoundProbes
  <2>3. pc' = "call" /\ doomed' \in BOOLEAN
    BY <1>10 DEF TypeOK, RoundProbes, StartCall
  <2>4. acc' \in [text : Text, tokens : Nat] /\ lastGood' \in LastGood
    BY <1>8, <1>10 DEF RoundProbes
  <2>5. UNCHANGED <<env, adjustments, cur, events, sent, result>>
    BY <1>10 DEF RoundProbes, RoundKept
  <2>. QED BY <2>1, <2>2, <2>3, <2>4, <2>5 DEF TypeOK, env
<1>11. CASE Deliver
  BY <1>11 DEF TypeOK, Deliver, settled, env, locals
<1>12. CASE AlertToggled
  BY <1>12 DEF TypeOK, AlertToggled, locals
<1>13. CASE ClientDisconnects
  BY <1>13 DEF TypeOK, ClientDisconnects, locals
<1>14. CASE UNCHANGED vars
  BY <1>14 DEF TypeOK, vars, locals
<1>. QED
  BY <1>1, <1>2, <1>3, <1>4, <1>5, <1>6, <1>7, <1>9, <1>10, <1>11, <1>12, <1>13, <1>14
     DEF Next, CycleStep, UpstreamReturns, Terminated

\* Every reachable state is well typed: in particular the body is only ever tuned by
\* parameters adjustForIssue knows, and no text holds anything but upstream calls.
THEOREM TypeCorrect == Spec => []TypeOK
<1>. QED BY TypeInit, TypeStep, PTL DEF Spec
-----------------------------------------------------------------------------
\* How far the loops have come, and where the calls made so far lie.
CallInv ==
  /\ attempt <= RetryCap
  /\ round <= AlertMaxRounds
  /\ (req.kind = "completion" \/ ~req.matched) => round = 0
  /\ \A c \in sent : c.id.round <= round /\ c.id.attempt <= RetryCap
  /\ pc = "call" => \A c \in sent : c.id.round = round => c.id.attempt < attempt
  /\ \A c, d \in sent : c.id = d.id => c = d

\* A step that leaves the calls and the counters alone and starts no call keeps it.
LEMMA CallInvFrame ==
  ASSUME CallInv, UNCHANGED <<req, attempt, round, sent>>, pc' = "call" => pc = "call"
  PROVE  CallInv'
BY DEF CallInv, RetryCap

\* The upstream call that returns is recorded under an id no earlier call has.
LEMMA CallRecorded ==
  ASSUME TypeOK, CallInv, pc = "call", pc' # "call",
         UNCHANGED <<req, attempt, round>>,
         NEW c, c.id = Here, sent' = sent \cup {c}
  PROVE  CallInv'
<1>1. Here.round = round /\ Here.attempt = attempt
  BY DEF Here
<1>2. \A d \in sent : d.id # Here
  BY <1>1 DEF CallInv, TypeOK
<1>3. RetryCap' = RetryCap
  BY DEF RetryCap
<1>. QED
  BY <1>1, <1>2, <1>3 DEF CallInv, TypeOK

\* No call has been made and no loop counter moved.
LEMMA CallInit == Init => CallInv
<1>. SUFFICES ASSUME Init PROVE CallInv
  OBVIOUS
<1>1. RetryCap \in Nat
  BY CycleAssumption DEF RetryCap
<1>2. attempt = 0 /\ round = 0 /\ sent = {}
  BY DEF Init
<1>3. attempt <= RetryCap /\ round <= AlertMaxRounds
  BY <1>1, <1>2, CycleAssumption
<1>. QED BY <1>2, <1>3 DEF CallInv

\* Every step keeps the loop counters within their caps and gives its call a new id.
LEMMA CallStep == TypeOK /\ CallInv /\ [Next]_vars => CallInv'
<1>. SUFFICES ASSUME TypeOK, CallInv, [Next]_vars PROVE CallInv'
  OBVIOUS
<1>1. CASE CallFails
  BY <1>1, CallRecorded DEF CallFails, Called, settled, env, locals
<1>2. CASE CallRejected
  BY <1>2, CallRecorded DEF CallRejected, Answers, Called, settled, env
<1>3. CASE CallUnparseable
  BY <1>3, CallRecorded DEF CallUnparseable, Answers, Called, settled, env
<1>4. CASE CallShapeless
  BY <1>4, CallRecorded DEF CallShapeless, Answers, Called, settled, env
<1>5. ASSUME NEW g \in Generations, GenerationAccepted(g) PROVE CallInv'
  BY <1>5, CallRecorded DEF GenerationAccepted, Answers, CalledWith, settled, env
<1>6. ASSUME NEW g \in Generations, GenerationRetried(g) PROVE CallInv'
  <2>1. PICK c : c.id = Here /\ sent' = sent \cup {c}
    BY <1>6 DEF GenerationRetried, CalledWith, RetriesLeft
  <2>2. pc = "call" /\ attempt < RetryCap /\ attempt' = attempt + 1
    BY <1>6 DEF GenerationRetried, Answers, RetriesLeft
  <2>3. req' = req /\ round' = round /\ RetryCap' = RetryCap
    BY <1>6 DEF GenerationRetried, env, RetryCap, RetriesLeft
  <2>4. Here.round = round /\ Here.attempt = attempt
    BY DEF Here
  <2>5. \A d \in sent : d.id # Here
    BY <2>2, <2>4 DEF CallInv, TypeOK
  <2>6. RetryCap \in Nat /\ attempt \in Nat
    BY CycleAssumption DEF RetryCap, TypeOK
  <2>7. \A d \in sent : d.id.attempt \in Nat /\ d.id.round \in Nat
    BY DEF TypeOK, Ids
  <2>8. \A d \in sent' : d \in sent \/ d = c
    BY <2>1
  <2>9. /\ attempt' <= RetryCap'
        /\ \A d \in sent' : d.id.round <= round' /\ d.id.attempt <= RetryCap'
        /\ \A d \in sent' : d.id.round = round' => d.id.attempt < attempt'
    BY <2>1, <2>2, <2>3, <2>4, <2>6, <2>7, <2>8 DEF CallInv, TypeOK
  <2>10. \A d, e \in sent' : d.id = e.id => d = e
    BY <2>1, <2>5, <2>8 DEF CallInv
  <2>. QED
    BY <2>3, <2>9, <2>10 DEF CallInv
<1>7. CASE RoundFails
  BY <1>7, CallInvFrame DEF RoundFails, settled, env
<1>8. CASE RoundStops
  BY <1>8, CallInvFrame DEF RoundStops, RoundKept, env
<1>9. CASE RoundProbes
  <2>1. round' = round + 1 /\ attempt' = 0 /\ UNCHANGED <<req, sent>>
    BY <1>9 DEF RoundProbes, RoundKept, env
  <2>2. round < AlertMaxRounds /\ req.kind = "chat" /\ req.matched
    BY <1>9 DEF RoundProbes, CanAlertAgain
  <2>3. RetryCap' = RetryCap /\ RetryCap \in Nat
    BY <2>1, CycleAssumption DEF RetryCap
  <2>4. \A d \in sent : d.id.attempt \in Nat /\ d.id.round \in Nat
    BY DEF TypeOK, Ids
  <2>5. round \in Nat /\ AlertMaxRounds \in Nat
    BY CycleAssumption DEF TypeOK
  <2>. QED BY <2>1, <2>2, <2>3, <2>4, <2>5 DEF CallInv
<1>10. CASE Deliver
  BY <1>10, CallInvFrame DEF Deliver, settled, env, locals
<1>11. CASE AlertToggled
  BY <1>11, CallInvFrame DEF AlertToggled, locals
<1>12. CASE ClientDisconnects
  BY <1>12, CallInvFrame DEF ClientDisconnects, locals
<1>13. CASE UNCHANGED vars
  BY <1>13, CallInvFrame DEF vars, locals
<1>. QED
  BY <1>1, <1>2, <1>3, <1>4, <1>5, <1>6, <1>7, <1>8, <1>9, <1>10, <1>11, <1>12, <1>13
     DEF Next, CycleStep, UpstreamReturns, Terminated

\* The loop counters stay within their caps and every call gets an id of its own.
LEMMA CallInvariant == Spec => []CallInv
<1>. QED BY CallInit, CallStep, TypeCorrect, PTL DEF Spec

\* Calls with ids of their own, within the counters, are bounded in number.
LEMMA CallInvBounds == TypeOK /\ CallInv => CallsBounded
<1>. SUFFICES ASSUME TypeOK, CallInv PROVE CallsBounded
  OBVIOUS
<1>1. round \in Nat /\ AlertMaxRounds \in Nat /\ \A d \in sent : d.id.round \in Nat
  BY CycleAssumption DEF TypeOK, Ids
<1>. QED BY <1>1 DEF CallInv, CallsBounded

\* No request costs the upstream more than (max_retries + 1) calls in each of at most
\* (alert_max_rounds + 1) rounds, whatever the upstream and the client do.
THEOREM CallsAreBounded == Spec => []CallsBounded
<1>. QED BY CallInvBounds, CallInvariant, TypeCorrect, PTL
-----------------------------------------------------------------------------
\* What the fallback rests on: the conversation and the accumulated text stay in
\* step, and the snapshot a later round falls back to is of a 2xx.
FallbackInv ==
  /\ result.t # "none" => pc = "done"
  /\ pc = "round_end" => cur.status # "none"
  /\ round > 0 => lastGood.status = "ok"
  /\ pc \in {"call", "round_end"} => body.turns = acc.text
  /\ pc = "deliver" => Begins(acc.text, body.turns)
  /\ pc = "deliver" /\ round > 0 => cur.status = "ok" /\ cur.streamable
  /\ Answered => RejectedFollowUpKeepsAnswer

\* A text begins with itself and with what it was appended to.
LEMMA BeginsAppend ==
  ASSUME NEW s \in Text, NEW t \in Text
  PROVE  Begins(s, s) /\ Begins(s \o t, s)
BY DEF Begins, Text

\* Steps during an upstream call touch none of what the fallback rests on.
LEMMA FallbackFrame ==
  ASSUME TypeOK, FallbackInv, pc = "call", result.t = "none" \/ pc = "done",
         UNCHANGED <<round, acc, lastGood>>, body'.turns = body.turns,
         \/ pc' = "call" /\ result' = result
         \/ pc' = "round_end" /\ cur'.status # "none" /\ result' = result
         \/ pc' = "done" /\ result'.t \in {"gone", "fatal"}
  PROVE  FallbackInv'
BY DEF FallbackInv, Answered

\* Nothing has been won or lost yet.
LEMMA FallbackInit == Init => FallbackInv
<1>. SUFFICES ASSUME Init PROVE FallbackInv
  OBVIOUS
<1>1. result.t = "none" /\ round = 0 /\ pc = "call" /\ body.turns = <<>> /\ acc.text = <<>>
  BY DEF Init, NoResult
<1>. QED BY <1>1 DEF FallbackInv, Answered

\* Every step keeps what the fallback rests on.
LEMMA FallbackStep == TypeOK /\ FallbackInv /\ [Next]_vars => FallbackInv'
<1>. SUFFICES ASSUME TypeOK, FallbackInv, [Next]_vars PROVE FallbackInv'
  OBVIOUS
<1>0. pc # "done" => result.t = "none"
  BY DEF FallbackInv, TypeOK
<1>c. cur \in Locals /\ round \in Nat
  BY DEF TypeOK
<1>1. CASE CallFails
  <2>1. pc = "call" /\ pc' = "done" /\ result'.t \in {"gone", "fatal"}
    BY <1>1 DEF CallFails
  <2>2. UNCHANGED <<round, acc, lastGood, body>>
    BY <1>1 DEF CallFails, locals
  <2>. QED BY <2>1, <2>2, <1>0, FallbackFrame
<1>2. CASE CallRejected
  <2>1. cur'.status = "error"
    BY <1>2, <1>c DEF CallRejected, Locals
  <2>. QED BY <1>2, <1>0, <2>1, FallbackFrame DEF CallRejected, Answers
<1>3. CASE CallUnparseable
  <2>1. cur'.status = "ok"
    BY <1>3, <1>c DEF CallUnparseable, Locals
  <2>. QED BY <1>3, <1>0, <2>1, FallbackFrame DEF CallUnparseable, Answers
<1>4. CASE CallShapeless
  <2>1. cur'.status = "ok"
    BY <1>4, <1>c DEF CallShapeless, Locals
  <2>. QED BY <1>4, <1>0, <2>1, FallbackFrame DEF CallShapeless, Answers
<1>5. ASSUME NEW g \in Generations, GenerationAccepted(g) PROVE FallbackInv'
  <2>1. cur'.status = "ok"
    BY <1>5, <1>c DEF GenerationAccepted, Received, Locals
  <2>. QED BY <1>5, <1>0, <2>1, FallbackFrame DEF GenerationAccepted, Answers
<1>6. ASSUME NEW g \in Generations, GenerationRetried(g) PROVE FallbackInv'
  <2>1. body'.turns = body.turns
    BY <1>6 DEF GenerationRetried, TypeOK
  <2>. QED BY <1>6, <1>0, <2>1, FallbackFrame DEF GenerationRetried, Answers, StartCall
<1>7. CASE RoundFails
  <2>1. pc = "round_end" /\ pc' = "deliver" /\ UNCHANGED <<round, body, acc, lastGood, result>>
    BY <1>7 DEF RoundFails
  <2>2. round > 0 => cur'.status = "ok" /\ cur'.streamable
    BY <1>7, <1>c DEF RoundFails, FallbackInv, Locals
  <2>3. Begins(acc.text, body.turns)
    BY <2>1, BeginsAppend DEF FallbackInv, TypeOK
  <2>. QED BY <2>1, <2>2, <2>3, <1>0 DEF FallbackInv, Answered
<1>8. ASSUME RoundKept
      PROVE  /\ cur.status = "ok" /\ cur.streamable
             /\ lastGood'.status = "ok"
             /\ body.turns = acc.text /\ body.turns \in Text
             /\ acc'.text \in {acc.text, acc.text \o cur.content}
             /\ ~ConfirmationOnly => acc'.text = acc.text \o cur.content
             /\ cur.content \in Text
  <2>1. pc = "round_end" /\ ~RoundFailed
    BY <1>8 DEF RoundKept, Accumulated, Snapshot
  <2>2. cur.status = "ok" /\ cur.streamable
    BY <2>1, <1>c DEF RoundFailed, FallbackInv, Locals
  <2>3. lastGood'.status = "ok"
    BY <2>2, <1>8 DEF RoundKept, Accumulated, Snapshot
  <2>4. body.turns = acc.text /\ body.turns \in Text /\ cur.content \in Text
    BY <2>1 DEF FallbackInv, TypeOK, Locals
  <2>. QED BY <2>2, <2>3, <2>4, <1>8 DEF RoundKept, Accumulated, Snapshot
<1>9. CASE RoundStops
  <2>1. RoundKept /\ pc' = "deliver" /\ UNCHANGED <<round, body, cur, result>>
    BY <1>9 DEF RoundStops, RoundKept
  <2>2. pc = "round_end"
    BY <2>1 DEF RoundKept
  <2>3. Begins(acc'.text, body.turns)
    BY <1>8, <2>1, BeginsAppend
  <2>. QED BY <1>8, <1>0, <2>1, <2>2, <2>3 DEF FallbackInv, Answered
<1>10. CASE RoundProbes
  <2>1. RoundKept /\ pc' = "call" /\ result' = result /\ ~ConfirmationOnly
    BY <1>10 DEF RoundProbes, RoundKept, StartCall, CanAlertAgain
  <2>2. pc = "round_end"
    BY <2>1 DEF RoundKept
  <2>3. body'.turns = body.turns \o cur.content
    BY <1>10 DEF RoundProbes, TypeOK
  <2>. QED BY <1>8, <1>0, <2>1, <2>2, <2>3 DEF FallbackInv, Answered
<1>11. CASE Deliver
  <2>1. pc = "deliver" /\ pc' = "done" /\ UNCHANGED <<round, body, acc, cur, lastGood>>
    BY <1>11 DEF Deliver, locals
  <2>2. /\ result'.text = acc.text /\ result'.alertRounds = round
        /\ result'.status = cur.status /\ result'.streamable = cur.streamable
        /\ cur.streamable => result'.bytes = "chat_json"
    BY <1>11 DEF Deliver
  <2>. QED BY <2>1, <2>2 DEF FallbackInv, RejectedFollowUpKeepsAnswer
<1>12. CASE AlertToggled
  BY <1>12 DEF AlertToggled, locals, FallbackInv, Answered, RejectedFollowUpKeepsAnswer
<1>13. CASE ClientDisconnects
  BY <1>13 DEF ClientDisconnects, locals, FallbackInv, Answered, RejectedFollowUpKeepsAnswer
<1>14. CASE UNCHANGED vars
  BY <1>14 DEF vars, locals, FallbackInv, Answered, RejectedFollowUpKeepsAnswer
<1>. QED
  BY <1>1, <1>2, <1>3, <1>4, <1>5, <1>6, <1>7, <1>9, <1>10, <1>11, <1>12, <1>13, <1>14
     DEF Next, CycleStep, UpstreamReturns, Terminated

\* A rejected follow-up round never takes away what earlier rounds have won, and the
\* model always continues from exactly the text the client will get.
THEOREM FallbackKeepsAnswer ==
  Spec => [](ConversationIsTheAnswer /\ RejectedFollowUpKeepsAnswer)
<1>3. FallbackInv => ConversationIsTheAnswer /\ RejectedFollowUpKeepsAnswer
  BY DEF FallbackInv, ConversationIsTheAnswer, RejectedFollowUpKeepsAnswer
<1>. QED BY FallbackInit, FallbackStep, <1>3, TypeCorrect, PTL DEF Spec
-----------------------------------------------------------------------------
\* The kept calls of the rounds before r.
KeptBefore(r) ==
  {c.id : c \in {d \in sent : Kept(d) /\ ~d.g.blank /\ d.id.round < r}}

\* The call at Here has just ended its round and is what the locals were read from.
JustRead ==
  /\ \A d \in sent : d.id.round = round => d.id.attempt <= attempt
  /\ \E c \in sent :
       /\ c.id = Here
       /\ RoundFailed => c.t # "generated"
       /\ ~RoundFailed => /\ c.t = "generated"
                          /\ cur.content = IF c.g.blank THEN <<>> ELSE <<Here>>
                          /\ cur.affirms = LooksLikeConfirmation(c.g)
                          /\ cur.tokens = c.g.tokens

\* The accumulated text against the calls made: during a round it is the kept text
\* of the rounds before, and once the last round is over it is all of it.
AnswerInv ==
  /\ Answered => pc = "done"
  /\ req.kind = "chat" =>
       /\ InRoundOrder(acc.text)
       /\ pc \in {"call", "round_end"} =>
            /\ TextIds(acc.text) = KeptBefore(round)
            /\ \A i \in DOMAIN acc.text : acc.text[i].round < round
       /\ pc = "round_end" => JustRead
       /\ pc = "deliver" => TextIds(acc.text) = KeptIds
       /\ Answered => result.text = acc.text /\ TextIds(acc.text) = KeptIds

\* Appending one id to a text of earlier rounds adds it and keeps the order.
LEMMA TextGrows ==
  ASSUME NEW s \in Text, NEW x \in Ids
  PROVE  /\ TextIds(s \o <<x>>) = TextIds(s) \cup {x}
         /\ s \o <<>> = s
         /\ InRoundOrder(s) /\ (\A i \in DOMAIN s : s[i].round < x.round)
              => InRoundOrder(s \o <<x>>)
<1>1. /\ DOMAIN (s \o <<x>>) = 1..(Len(s) + 1) /\ DOMAIN s = 1..Len(s) /\ Len(s) \in Nat
      /\ \A i \in 1..Len(s) : (s \o <<x>>)[i] = s[i]
      /\ (s \o <<x>>)[Len(s) + 1] = x
  BY DEF Text
<1>2. TextIds(s \o <<x>>) = TextIds(s) \cup {x}
  <2>1. ASSUME NEW y \in TextIds(s \o <<x>>) PROVE y \in TextIds(s) \cup {x}
    <3>1. PICK i \in 1..(Len(s) + 1) : y = (s \o <<x>>)[i]
      BY <1>1, <2>1 DEF TextIds
    <3>2. CASE i = Len(s) + 1
      BY <1>1, <3>1, <3>2
    <3>3. CASE i \in 1..Len(s)
      BY <1>1, <3>1, <3>3 DEF TextIds
    <3>. QED BY <1>1, <3>1, <3>2, <3>3
  <2>2. ASSUME NEW y \in TextIds(s) \cup {x} PROVE y \in TextIds(s \o <<x>>)
    <3>1. CASE y = x
      <4>1. Len(s) + 1 \in DOMAIN (s \o <<x>>)
        BY <1>1
      <4>. QED BY <1>1, <3>1, <4>1 DEF TextIds
    <3>2. CASE y \in TextIds(s)
      <4>1. PICK i \in 1..Len(s) : y = s[i]
        BY <1>1, <3>2 DEF TextIds
      <4>2. i \in DOMAIN (s \o <<x>>)
        BY <1>1, <4>1
      <4>. QED BY <1>1, <4>1, <4>2 DEF TextIds
    <3>. QED BY <2>2, <3>1, <3>2
  <2>. QED BY <2>1, <2>2
<1>3. s \o <<>> = s
  BY DEF Text
<1>4. ASSUME InRoundOrder(s), \A i \in DOMAIN s : s[i].round < x.round
      PROVE  InRoundOrder(s \o <<x>>)
  <2>. SUFFICES ASSUME NEW i \in 1..(Len(s) + 1), NEW j \in 1..(Len(s) + 1), i < j
                PROVE  (s \o <<x>>)[i].round < (s \o <<x>>)[j].round
    BY <1>1 DEF InRoundOrder
  <2>1. i \in 1..Len(s)
    BY <1>1
  <2>2. CASE j = Len(s) + 1
    BY <1>1, <1>4, <2>1, <2>2
  <2>3. CASE j \in 1..Len(s)
    BY <1>1, <1>4, <2>1, <2>3 DEF InRoundOrder
  <2>. QED BY <1>1, <2>2, <2>3
<1>. QED BY <1>2, <1>3, <1>4

\* A new call of the running round changes nothing for the rounds before it.
LEMMA KeptStable ==
  ASSUME TypeOK, NEW c, c.id = Here, sent' = sent \cup {c}, round' = round
  PROVE  KeptBefore(round)' = KeptBefore(round)
<1>1. c.id.round = round
  BY DEF Here
<1>2. ASSUME NEW d \in sent, d.id.round < round PROVE LastOfRound(d)' <=> LastOfRound(d)
  <2>1. c.id.round # d.id.round
    BY <1>1, <1>2 DEF TypeOK, Ids
  <2>. QED BY <2>1 DEF LastOfRound
<1>3. \A d \in sent : d.id.round < round => (Kept(d)' <=> Kept(d))
  BY <1>2 DEF Kept
<1>4. ~(c.id.round < round)
  BY <1>1 DEF TypeOK
<1>. QED BY <1>3, <1>4 DEF KeptBefore

\* When a round has just ended, the only kept call it can have is its last one.
LEMMA LastIsKept ==
  ASSUME TypeOK, CallInv, NEW c \in sent, c.id = Here,
         \A d \in sent : d.id.round = round => d.id.attempt <= attempt
  PROVE  /\ Kept(c) <=> c.t = "generated" /\ (round = 0 \/ ~LooksLikeConfirmation(c.g))
         /\ \A d \in sent : Kept(d) => d.id.round < round \/ d = c
         /\ ~(c.id.round < round)
         /\ \A d \in sent : d.id.round < round + 1
<1>1. c.id.round = round /\ c.id.attempt = attempt
  BY DEF Here
<1>2. \A d \in sent : d.id.round \in Nat /\ d.id.attempt \in Nat /\ d.id.round <= round
  BY DEF TypeOK, Ids, CallInv
<1>3. round \in Nat /\ attempt \in Nat
  BY DEF TypeOK
<1>4. LastOfRound(c)
  BY <1>1 DEF LastOfRound
<1>5. ASSUME NEW d \in sent, LastOfRound(d), ~(d.id.round < round) PROVE d = c
  <2>1. d.id.round = round
    BY <1>2, <1>3, <1>5
  <2>2. d.id.attempt = attempt
    BY <1>1, <1>2, <1>3, <1>5, <2>1 DEF LastOfRound
  <2>3. d.id \in Ids /\ Here \in Ids
    BY <1>3 DEF TypeOK, Here, Ids
  <2>4. d.id = Here
    BY <2>1, <2>2, <2>3 DEF Here, Ids
  <2>. QED BY <2>4 DEF CallInv
<1>6. Kept(c) <=> c.t = "generated" /\ (round = 0 \/ ~LooksLikeConfirmation(c.g))
  BY <1>1, <1>4 DEF Kept
<1>7. \A d \in sent : Kept(d) => d.id.round < round \/ d = c
  BY <1>5 DEF Kept
<1>8. ~(c.id.round < round) /\ \A d \in sent : d.id.round < round + 1
  BY <1>1, <1>2, <1>3
<1>. QED BY <1>6, <1>7, <1>8

\* When a round has just ended, it adds its last call to the kept ones, or nothing.
LEMMA KeptSplit ==
  ASSUME TypeOK, CallInv, NEW c \in sent, c.id = Here,
         \A d \in sent : d.id.round = round => d.id.attempt <= attempt
  PROVE  /\ KeptIds = KeptBefore(round) \cup
              (IF /\ c.t = "generated" /\ ~c.g.blank
                  /\ round = 0 \/ ~LooksLikeConfirmation(c.g)
               THEN {Here} ELSE {})
         /\ KeptIds = KeptBefore(round + 1)
<1>1. KeptIds = KeptBefore(round) \cup (IF Kept(c) /\ ~c.g.blank THEN {Here} ELSE {})
  BY LastIsKept DEF KeptIds, KeptBefore
<1>2. KeptIds = KeptBefore(round + 1)
  BY LastIsKept DEF KeptIds, KeptBefore
<1>. QED BY <1>1, <1>2, LastIsKept

\* A call that returns without ending the cycle keeps the kept rounds before it.
LEMMA AnswerDuringCall ==
  ASSUME TypeOK, AnswerInv, pc = "call", result' = result,
         UNCHANGED <<req, round, acc>>,
         NEW c, c.id = Here, sent' = sent \cup {c},
         \/ pc' = "call"
         \/ pc' = "round_end" /\ (req.kind = "chat" => JustRead')
  PROVE  AnswerInv'
<1>1. KeptBefore(round)' = KeptBefore(round)
  BY KeptStable
<1>2. ~Answered /\ ~Answered'
  BY DEF AnswerInv, Answered
<1>3. req.kind = "chat" => InRoundOrder(acc.text)'
  BY DEF AnswerInv
<1>4. pc' \in {"call", "round_end"}
  OBVIOUS
<1>5. req.kind = "chat" => /\ TextIds(acc.text)' = KeptBefore(round)'
                          /\ \A i \in DOMAIN acc'.text : acc'.text[i].round < round'
  BY <1>1 DEF AnswerInv
<1>. QED BY <1>2, <1>3, <1>4, <1>5 DEF AnswerInv

\* A step that leaves calls, texts and locals alone keeps the answer as it is.
LEMMA AnswerFrame ==
  ASSUME AnswerInv, UNCHANGED <<pc, req, round, attempt, cur, acc, sent, result>>
  PROVE  AnswerInv'
BY DEF AnswerInv, Answered, JustRead, Here, RoundFailed, KeptBefore, KeptIds, Kept,
       LastOfRound

\* The round's last call, recorded just now, is the one with the highest attempt.
LEMMA LastCall ==
  ASSUME TypeOK, CallInv, pc = "call", UNCHANGED <<round, attempt>>,
         NEW c, c.id = Here, sent' = sent \cup {c}
  PROVE  /\ \A d \in sent' : d.id.round = round' => d.id.attempt <= attempt'
         /\ c \in sent' /\ c.id = Here'
<1>1. c.id.attempt = attempt /\ attempt \in Nat
  BY DEF Here, TypeOK
<1>2. \A d \in sent : d.id.attempt \in Nat
  BY DEF TypeOK, Ids
<1>. QED BY <1>1, <1>2 DEF CallInv, Here

\* What keeping the round that has just ended does to the accumulated text.
LEMMA RoundKeptText ==
  ASSUME TypeOK, CallInv, AnswerInv, RoundKept, req.kind = "chat"
  PROVE  /\ TextIds(acc'.text) = KeptIds
         /\ InRoundOrder(acc'.text)
         /\ \A i \in DOMAIN acc'.text : acc'.text[i].round < round + 1
         /\ KeptIds = KeptBefore(round + 1)
<1>1. pc = "round_end" /\ ~RoundFailed
  BY DEF RoundKept, Accumulated, Snapshot
<1>2. PICK c \in sent : /\ c.id = Here /\ c.t = "generated"
                        /\ cur.content = IF c.g.blank THEN <<>> ELSE <<Here>>
                        /\ cur.affirms = LooksLikeConfirmation(c.g)
  BY <1>1 DEF AnswerInv, JustRead
<1>3. \A d \in sent : d.id.round = round => d.id.attempt <= attempt
  BY <1>1 DEF AnswerInv, JustRead
<1>4. /\ KeptIds = KeptBefore(round) \cup
           (IF ~c.g.blank /\ (round = 0 \/ ~LooksLikeConfirmation(c.g)) THEN {Here} ELSE {})
      /\ KeptIds = KeptBefore(round + 1)
  BY <1>2, <1>3, KeptSplit
<1>5. /\ TextIds(acc.text) = KeptBefore(round) /\ InRoundOrder(acc.text)
      /\ \A i \in DOMAIN acc.text : acc.text[i].round < round
  BY <1>1 DEF AnswerInv
<1>6. /\ acc.text \in Text /\ Here \in Ids /\ Here.round = round /\ round \in Nat
      /\ \A i \in DOMAIN acc.text : acc.text[i].round \in Nat
  <2>1. acc.text \in Text
    BY DEF TypeOK
  <2>2. \A i \in DOMAIN acc.text : acc.text[i] \in Ids
    BY <2>1 DEF Text
  <2>3. \A i \in DOMAIN acc.text : acc.text[i].round \in Nat
    BY <2>2 DEF Ids
  <2>. QED BY <2>1, <2>3 DEF TypeOK, Here, Ids
<1>7. c.g \in Generation
  BY <1>2, CycleAssumption DEF TypeOK
<1>8. c.g.blank => LooksLikeConfirmation(c.g)
  BY DEF LooksLikeConfirmation
<1>9. ConfirmationOnly <=> round # 0 /\ LooksLikeConfirmation(c.g)
  BY <1>2, <1>6 DEF ConfirmationOnly
<1>10. CASE ~c.g.blank /\ ~ConfirmationOnly
  <2>1. acc'.text = acc.text \o <<Here>>
    BY <1>2, <1>10 DEF RoundKept, Accumulated, Snapshot
  <2>2. TextIds(acc'.text) = KeptBefore(round) \cup {Here} /\ InRoundOrder(acc'.text)
    BY <1>5, <1>6, <2>1, TextGrows
  <2>3. \A i \in DOMAIN acc'.text : acc'.text[i].round < round + 1
    <3>1. \A x \in TextIds(acc.text) \cup {Here} : x.round < round + 1
      BY <1>5, <1>6 DEF TextIds
    <3>. QED BY <1>5, <2>2, <3>1 DEF TextIds
  <2>. QED BY <1>4, <1>9, <1>10, <2>2, <2>3
<1>11. CASE c.g.blank \/ ConfirmationOnly
  <2>1. acc'.text = acc.text
    BY <1>2, <1>6, <1>11, TextGrows DEF RoundKept, Accumulated, Snapshot
  <2>2. \A i \in DOMAIN acc.text : acc.text[i].round < round + 1
    BY <1>5, <1>6
  <2>3. KeptIds = KeptBefore(round)
    BY <1>4, <1>9, <1>11
  <2>. QED BY <1>4, <1>5, <2>1, <2>2, <2>3
<1>. QED BY <1>10, <1>11, <1>7 DEF Generation

\* The empty text is the text of no round.
LEMMA AnswerInit == Init => AnswerInv
<1>. SUFFICES ASSUME Init PROVE AnswerInv
  OBVIOUS
<1>1. acc.text = <<>> /\ sent = {} /\ pc = "call" /\ result.t = "none"
  BY DEF Init, NoResult
<1>2. TextIds(acc.text) = {} /\ InRoundOrder(acc.text) /\ DOMAIN acc.text = {}
  BY <1>1 DEF TextIds, InRoundOrder
<1>3. KeptBefore(round) = {}
  BY <1>1 DEF KeptBefore
<1>. QED BY <1>1, <1>2, <1>3 DEF AnswerInv, Answered

\* Every step keeps the accumulated text and the kept calls together.
LEMMA AnswerStep == TypeOK /\ CallInv /\ AnswerInv /\ [Next]_vars => AnswerInv'
<1>. SUFFICES ASSUME TypeOK, CallInv, AnswerInv, [Next]_vars PROVE AnswerInv'
  OBVIOUS
<1>1. CASE CallFails
  <2>1. pc = "call" /\ pc' = "done" /\ ~Answered' /\ UNCHANGED <<req, acc>>
    BY <1>1 DEF CallFails, settled, env, locals, Answered
  <2>. QED BY <2>1 DEF AnswerInv
<1>2. CASE CallRejected
  <2>1. PICK c : c.id = Here /\ c.t = "rejected" /\ sent' = sent \cup {c}
    BY <1>2 DEF CallRejected, Called
  <2>2. RoundFailed'
    BY <1>2 DEF CallRejected, RoundFailed, TypeOK, Locals
  <2>3. pc = "call" /\ pc' = "round_end" /\ result' = result
        /\ UNCHANGED <<req, round, attempt, acc>>
    BY <1>2 DEF CallRejected, Answers, settled, env
  <2>4. JustRead'
    BY <2>1, <2>2, <2>3, LastCall DEF JustRead
  <2>. QED BY <2>1, <2>3, <2>4, AnswerDuringCall
<1>3. CASE CallUnparseable
  <2>1. PICK c : c.id = Here /\ sent' = sent \cup {c}
    BY <1>3 DEF CallUnparseable, Called
  <2>2. pc = "call" /\ pc' = "round_end" /\ result' = result
        /\ UNCHANGED <<req, round, acc>> /\ req.kind # "chat"
    BY <1>3 DEF CallUnparseable, Answers, settled, env
  <2>. QED BY <2>1, <2>2, AnswerDuringCall
<1>4. CASE CallShapeless
  <2>1. PICK c : c.id = Here /\ sent' = sent \cup {c}
    BY <1>4 DEF CallShapeless, Called
  <2>2. pc = "call" /\ pc' = "round_end" /\ result' = result
        /\ UNCHANGED <<req, round, acc>> /\ req.kind # "chat"
    BY <1>4 DEF CallShapeless, Answers, settled, env
  <2>. QED BY <2>1, <2>2, AnswerDuringCall
<1>5. ASSUME NEW g \in Generations, GenerationAccepted(g) PROVE AnswerInv'
  <2>1. PICK c : c.id = Here /\ c.t = "generated" /\ c.g = g /\ sent' = sent \cup {c}
    BY <1>5 DEF GenerationAccepted, CalledWith
  <2>2. pc = "call" /\ pc' = "round_end" /\ result' = result
        /\ UNCHANGED <<req, round, attempt, acc>> /\ cur' = Received(g)
    BY <1>5 DEF GenerationAccepted, Answers, settled, env
  <2>3. /\ ~RoundFailed'
        /\ cur'.content = IF g.blank THEN <<>> ELSE <<Here>>
        /\ cur'.affirms = LooksLikeConfirmation(g)
        /\ cur'.tokens = g.tokens
    BY <2>2 DEF Received, RoundFailed, TypeOK, Locals
  <2>4. Here' = Here
    BY <2>2 DEF Here
  <2>5. JustRead'
    BY <2>1, <2>2, <2>3, <2>4, LastCall DEF JustRead, LooksLikeConfirmation
  <2>. QED BY <2>1, <2>2, <2>5, AnswerDuringCall
<1>6. ASSUME NEW g \in Generations, GenerationRetried(g) PROVE AnswerInv'
  <2>1. PICK c : c.id = Here /\ sent' = sent \cup {c}
    BY <1>6 DEF GenerationRetried, CalledWith
  <2>2. pc = "call" /\ pc' = "call" /\ result' = result /\ UNCHANGED <<req, round, acc>>
    BY <1>6 DEF GenerationRetried, Answers, StartCall, env
  <2>. QED BY <2>1, <2>2, AnswerDuringCall
<1>7. CASE RoundFails
  <2>1. pc = "round_end" /\ RoundFailed /\ pc' = "deliver"
        /\ UNCHANGED <<req, acc, sent, result>>
    BY <1>7 DEF RoundFails, settled, env
  <2>2. ~Answered'
    BY <2>1 DEF AnswerInv, Answered
  <2>3. req.kind = "chat" => TextIds(acc.text) = KeptIds
    <3>. SUFFICES ASSUME req.kind = "chat" PROVE TextIds(acc.text) = KeptIds
      OBVIOUS
    <3>1. PICK c \in sent : c.id = Here /\ c.t # "generated"
      BY <2>1 DEF AnswerInv, JustRead
    <3>2. KeptIds = KeptBefore(round)
      BY <2>1, <3>1, KeptSplit DEF AnswerInv, JustRead
    <3>. QED BY <2>1, <3>2 DEF AnswerInv
  <2>4. KeptIds' = KeptIds
    BY <2>1 DEF KeptIds, Kept, LastOfRound
  <2>. QED BY <2>1, <2>2, <2>3, <2>4 DEF AnswerInv
<1>8. CASE RoundStops
  <2>1. RoundKept /\ pc = "round_end" /\ pc' = "deliver" /\ UNCHANGED <<req, sent, result>>
    BY <1>8 DEF RoundStops, RoundKept, env
  <2>2. ~Answered'
    BY <2>1 DEF AnswerInv, Answered
  <2>3. KeptIds' = KeptIds
    BY <2>1 DEF KeptIds, Kept, LastOfRound
  <2>4. CASE req.kind = "chat"
    BY <2>1, <2>2, <2>3, <2>4, RoundKeptText DEF AnswerInv
  <2>5. CASE req.kind # "chat"
    BY <2>1, <2>2, <2>5 DEF AnswerInv
  <2>. QED BY <2>4, <2>5
<1>9. CASE RoundProbes
  <2>1. RoundKept /\ pc = "round_end" /\ pc' = "call" /\ round' = round + 1
        /\ UNCHANGED <<req, sent, result>> /\ req.kind = "chat"
    BY <1>9 DEF RoundProbes, RoundKept, StartCall, CanAlertAgain, env
  <2>2. ~Answered'
    BY <2>1 DEF AnswerInv, Answered
  <2>3. KeptBefore(round)' = KeptBefore(round + 1)
    BY <2>1 DEF KeptBefore, Kept, LastOfRound
  <2>. QED BY <2>1, <2>2, <2>3, RoundKeptText DEF AnswerInv
<1>10. CASE Deliver
  <2>1. pc = "deliver" /\ pc' = "done" /\ result'.text = acc.text
        /\ UNCHANGED <<req, acc, sent>>
    BY <1>10 DEF Deliver, settled, env, locals
  <2>2. KeptIds' = KeptIds
    BY <2>1 DEF KeptIds, Kept, LastOfRound
  <2>. QED BY <2>1, <2>2 DEF AnswerInv
<1>11. CASE AlertToggled
  BY <1>11, AnswerFrame DEF AlertToggled, locals
<1>12. CASE ClientDisconnects
  BY <1>12, AnswerFrame DEF ClientDisconnects, locals
<1>13. CASE UNCHANGED vars
  BY <1>13, AnswerFrame DEF vars, locals
<1>. QED
  BY <1>1, <1>2, <1>3, <1>4, <1>5, <1>6, <1>7, <1>8, <1>9, <1>10, <1>11, <1>12, <1>13
     DEF Next, CycleStep, UpstreamReturns, Terminated

\* What a chat client is given is the text of the kept rounds, for any number of
\* rounds and retries, whatever the upstream answers and whenever it fails.
THEOREM AnswerIsKept == Spec => []AnswerIsKeptRounds
<1>3. AnswerInv => AnswerIsKeptRounds
  BY DEF AnswerInv, AnswerIsKeptRounds
<1>4. Spec => []CallInv
  BY CallInvariant
<1>. QED BY AnswerInit, AnswerStep, <1>3, <1>4, TypeCorrect, PTL DEF Spec
-----------------------------------------------------------------------------
\* Every non-empty set of natural numbers has a smallest element.
LEMMA Smallest ==
  ASSUME NEW T \in SUBSET Nat, T # {}
  PROVE  \E x \in T : \A y \in T : x <= y
<1>. DEFINE R == OpToRel(<,Nat)
<1>1. \E x \in T : \A y \in T : ~ (<<y, x>> \in R)
  <2>1. IsWellFoundedOn(R, Nat)
    BY NatLessThanWellFounded
  <2>. HIDE DEF R
  <2>. QED BY <2>1, WFMin
<1>2. \A x, y \in Nat : y < x => <<y, x>> \in R
  BY DEF OpToRel
<1>. HIDE DEF R
<1>3. PICK x \in T : \A y \in T : ~ (<<y, x>> \in R)
  BY <1>1
<1>4. \A y \in T : ~ (y < x)
  BY <1>2, <1>3
<1>. QED BY <1>4

\* Induction: a set that holds 0 and every successor of a member holds all of Nat.
LEMMA Induction ==
  ASSUME NEW S, 0 \in S, \A n \in Nat : n \in S => n + 1 \in S
  PROVE  \A n \in Nat : n \in S
<1>. SUFFICES ASSUME Nat \ S # {} PROVE FALSE
  OBVIOUS
<1>1. PICK x \in Nat \ S : \A y \in Nat \ S : x <= y
  BY Smallest
<1>2. x - 1 \in Nat
  BY <1>1
<1>. QED BY <1>1, <1>2

\* The element of s that the sum takes first.
First(s) == CHOOSE x \in s : TRUE

\* f sums up the tokens of the sets in D.
Sums(f, D) ==
  f = [s \in D |-> IF s = {} THEN 0 ELSE TokensOf(First(s)) + f[s \ {First(s)}]]

\* The subsets of S of at most n elements.
UpTo(S, n) == {s \in SUBSET S : Cardinality(s) <= n}

\* The community modules' sum is what a function of this kind gives for the whole set.
LEMMA TokensAre == \A S : Tokens(S) = (CHOOSE f : Sums(f, SUBSET S))[S]
BY DEF Tokens, MapThenSumSet, MapThenFoldSet, Sums, First

\* A finite set without one of its elements has one element less.
LEMMA OneLess ==
  ASSUME NEW s, IsFiniteSet(s), NEW x \in s
  PROVE  /\ IsFiniteSet(s \ {x}) /\ Cardinality(s) \in Nat /\ Cardinality(s \ {x}) \in Nat
         /\ Cardinality(s \ {x}) + 1 = Cardinality(s)
<1>1. IsFiniteSet(s \ {x}) /\ Cardinality(s \ {x}) = Cardinality(s) - 1
  BY FS_RemoveElement
<1>2. Cardinality(s) \in Nat /\ Cardinality(s \ {x}) \in Nat
  BY <1>1, FS_CardinalityType
<1>. QED BY <1>1, <1>2

\* What the sum takes first is an element.
LEMMA FirstIn == \A s : s # {} => First(s) \in s
BY DEF First

\* Such a function exists for every finite set: by induction on the size of the subsets
\* it is defined on.
LEMMA SumsExist ==
  ASSUME NEW S, IsFiniteSet(S)
  PROVE  \E f : Sums(f, SUBSET S)
<1>. DEFINE P == {n \in Nat : \E f : Sums(f, UpTo(S, n))}
<1>0. \A s \in SUBSET S : IsFiniteSet(s) /\ Cardinality(s) \in Nat
                         /\ (s = {} <=> Cardinality(s) = 0)
  BY FS_Subset, FS_CardinalityType, FS_EmptySet
<1>1. 0 \in P
  <2>. DEFINE f == [s \in UpTo(S, 0) |-> 0]
  <2>1. \A s \in UpTo(S, 0) : s = {}
    BY <1>0 DEF UpTo
  <2>2. Sums(f, UpTo(S, 0))
    BY <2>1 DEF Sums
  <2>. QED BY <2>2
<1>2. ASSUME NEW n \in Nat, n \in P PROVE n + 1 \in P
  <2>1. PICK f : Sums(f, UpTo(S, n))
    BY <1>2
  <2>. DEFINE g == [s \in UpTo(S, n + 1) |->
                      IF s = {} THEN 0 ELSE TokensOf(First(s)) + f[s \ {First(s)}]]
  <2>2. \A s \in UpTo(S, n) : s \in UpTo(S, n + 1) /\ g[s] = f[s]
    <3>1. \A s \in UpTo(S, n) : s \in UpTo(S, n + 1)
      BY <1>0 DEF UpTo
    <3>. QED BY <2>1, <3>1 DEF Sums
  <2>3. ASSUME NEW s \in UpTo(S, n + 1), s # {} PROVE g[s \ {First(s)}] = f[s \ {First(s)}]
    <3>1. First(s) \in s /\ s \in SUBSET S /\ IsFiniteSet(s) /\ Cardinality(s) <= n + 1
      BY <1>0, <2>3, FirstIn DEF UpTo
    <3>2. Cardinality(s \ {First(s)}) <= n
      BY <3>1, OneLess
    <3>. QED BY <2>2, <3>1, <3>2 DEF UpTo
  <2>4. Sums(g, UpTo(S, n + 1))
    BY <2>3 DEF Sums
  <2>. QED BY <2>4
<1>3. Cardinality(S) \in P
  <2>1. Cardinality(S) \in Nat
    BY <1>0
  <2>. HIDE DEF P
  <2>. QED BY <1>1, <1>2, <2>1, Induction
<1>4. UpTo(S, Cardinality(S)) = SUBSET S
  <2>1. \A s \in SUBSET S : Cardinality(s) <= Cardinality(S)
    BY FS_Subset
  <2>. QED BY <2>1 DEF UpTo
<1>. QED BY <1>3, <1>4

\* Two of them, for different sets, agree on the sets they share: the sum of a set does
\* not depend on the set it is taken in.
LEMMA SumsAgree ==
  ASSUME NEW S, IsFiniteSet(S), \A x \in S : TokensOf(x) \in Nat,
         NEW T, IsFiniteSet(T),
         NEW f, Sums(f, SUBSET S), NEW h, Sums(h, SUBSET T)
  PROVE  \A s \in (SUBSET S) \cap (SUBSET T) : f[s] = h[s] /\ f[s] \in Nat
<1>. DEFINE P == {n \in Nat : \A s \in (SUBSET S) \cap (SUBSET T) :
                    Cardinality(s) = n => f[s] = h[s] /\ f[s] \in Nat}
<1>0. \A s \in SUBSET S : IsFiniteSet(s) /\ Cardinality(s) \in Nat
                         /\ (s = {} <=> Cardinality(s) = 0)
  BY FS_Subset, FS_CardinalityType, FS_EmptySet
<1>s. /\ \A s \in SUBSET S : f[s] = IF s = {} THEN 0 ELSE TokensOf(First(s)) + f[s \ {First(s)}]
      /\ \A s \in SUBSET T : h[s] = IF s = {} THEN 0 ELSE TokensOf(First(s)) + h[s \ {First(s)}]
  BY DEF Sums
<1>1. 0 \in P
  BY <1>0, <1>s
<1>2. ASSUME NEW n \in Nat, n \in P PROVE n + 1 \in P
  <2>. SUFFICES ASSUME NEW s \in (SUBSET S) \cap (SUBSET T), Cardinality(s) = n + 1
                PROVE  f[s] = h[s] /\ f[s] \in Nat
    OBVIOUS
  <2>0. \A r \in (SUBSET S) \cap (SUBSET T) :
          Cardinality(r) = n => f[r] = h[r] /\ f[r] \in Nat
    BY <1>2
  <2>. HIDE DEF P
  <2>1. s # {} /\ First(s) \in s /\ IsFiniteSet(s)
    BY <1>0, FirstIn
  <2>2. Cardinality(s \ {First(s)}) = n
    <3>1. /\ Cardinality(s \ {First(s)}) + 1 = Cardinality(s)
          /\ Cardinality(s \ {First(s)}) \in Nat
      BY <2>1, OneLess
    <3>. QED BY <3>1
  <2>3. s \ {First(s)} \in (SUBSET S) \cap (SUBSET T) /\ First(s) \in S
    BY <2>1
  <2>4. f[s \ {First(s)}] = h[s \ {First(s)}] /\ f[s \ {First(s)}] \in Nat
    BY <2>0, <2>2, <2>3
  <2>5. f[s] = TokensOf(First(s)) + f[s \ {First(s)}]
    BY <1>s, <2>1
  <2>6. h[s] = TokensOf(First(s)) + h[s \ {First(s)}]
    BY <1>s, <2>1
  <2>7. TokensOf(First(s)) \in Nat
    BY <2>3
  <2>. QED BY <2>4, <2>5, <2>6, <2>7
<1>3. \A n \in Nat : n \in P
  <2>. HIDE DEF P
  <2>. QED BY <1>1, <1>2, Induction
<1>. QED BY <1>0, <1>3

\* The sum does not depend on the order either: any element may be taken out first.
LEMMA SumsRemove ==
  ASSUME NEW S, IsFiniteSet(S), \A x \in S : TokensOf(x) \in Nat,
         NEW f, Sums(f, SUBSET S), NEW s \in SUBSET S, NEW y \in s
  PROVE  f[s] = TokensOf(y) + f[s \ {y}]
<1>. DEFINE P == {n \in Nat : \A r \in SUBSET S : Cardinality(r) = n =>
                    \A z \in r : f[r] = TokensOf(z) + f[r \ {z}]}
<1>0. \A r \in SUBSET S : IsFiniteSet(r) /\ Cardinality(r) \in Nat
                         /\ (r = {} <=> Cardinality(r) = 0)
  BY FS_Subset, FS_CardinalityType, FS_EmptySet
<1>n. \A r \in SUBSET S : f[r] \in Nat
  <2>1. \A r \in (SUBSET S) \cap (SUBSET S) : f[r] \in Nat
    BY SumsAgree
  <2>. QED BY <2>1
<1>s. \A r \in SUBSET S : r # {} => f[r] = TokensOf(First(r)) + f[r \ {First(r)}]
  BY DEF Sums
<1>1. 0 \in P
  BY <1>0
<1>2. ASSUME NEW n \in Nat, n \in P PROVE n + 1 \in P
  <2>. SUFFICES ASSUME NEW q \in SUBSET S, Cardinality(q) = n + 1, NEW u \in q
                PROVE  f[q] = TokensOf(u) + f[q \ {u}]
    OBVIOUS
  <2>0. \A r \in SUBSET S : Cardinality(r) = n =>
          \A z \in r : f[r] = TokensOf(z) + f[r \ {z}]
    BY <1>2
  <2>. DEFINE x == First(q)
  <2>. HIDE DEF P
  <2>1. x \in q /\ IsFiniteSet(q) /\ f[q] = TokensOf(x) + f[q \ {x}]
    BY <1>0, <1>s, FirstIn
  <2>. HIDE DEF x
  <2>2. CASE x = u
    BY <2>1, <2>2
  <2>3. CASE x # u
    <3>0. \A z \in q : /\ Cardinality(q \ {z}) + 1 = Cardinality(q)
                      /\ Cardinality(q \ {z}) \in Nat
      BY <2>1, OneLess
    <3>1. Cardinality(q \ {x}) = n /\ Cardinality(q \ {u}) = n
      BY <2>1, <3>0
    <3>2. u \in q \ {x} /\ x \in q \ {u} /\ (q \ {x}) \ {u} = (q \ {u}) \ {x}
      BY <2>1, <2>3
    <3>3. f[q \ {x}] = TokensOf(u) + f[(q \ {x}) \ {u}]
      BY <2>0, <3>1, <3>2
    <3>4. f[q \ {u}] = TokensOf(x) + f[(q \ {x}) \ {u}]
      BY <2>0, <3>1, <3>2
    <3>5. TokensOf(x) \in Nat /\ TokensOf(u) \in Nat /\ f[(q \ {x}) \ {u}] \in Nat
      BY <1>n, <2>1
    <3>6. TokensOf(x) + (TokensOf(u) + f[(q \ {x}) \ {u}])
            = TokensOf(u) + (TokensOf(x) + f[(q \ {x}) \ {u}])
      BY <3>5
    <3>. QED BY <2>1, <3>3, <3>4, <3>6
  <2>. QED BY <2>2, <2>3
<1>3. \A n \in Nat : n \in P
  <2>. HIDE DEF P
  <2>. QED BY <1>1, <1>2, Induction
<1>. QED BY <1>0, <1>3

\* No calls, no tokens.
LEMMA TokensEmpty == Tokens({}) = 0
<1>1. PICK f : Sums(f, SUBSET {}) /\ Tokens({}) = f[{}]
  BY SumsExist, TokensAre, FS_EmptySet
<1>. QED BY <1>1 DEF Sums

\* Taking a call out of a set takes its tokens out of the sum.
LEMMA TokensRemove ==
  ASSUME NEW U, IsFiniteSet(U), \A y \in U : TokensOf(y) \in Nat, NEW x \in U
  PROVE  Tokens(U) = Tokens(U \ {x}) + TokensOf(x)
<1>. DEFINE S == U \ {x}
<1>1. IsFiniteSet(S) /\ S \in SUBSET U /\ (\A y \in S : TokensOf(y) \in Nat)
  BY FS_RemoveElement
<1>. HIDE DEF S
<1>2. PICK f : Sums(f, SUBSET S) /\ Tokens(S) = f[S]
  BY <1>1, SumsExist, TokensAre
<1>3. PICK h : Sums(h, SUBSET U) /\ Tokens(U) = h[U]
  BY SumsExist, TokensAre
<1>4. \A s \in (SUBSET S) \cap (SUBSET U) : f[s] = h[s] /\ f[s] \in Nat
  BY <1>1, <1>2, <1>3, SumsAgree
<1>5. f[S] = h[S] /\ f[S] \in Nat
  BY <1>1, <1>4
<1>6. h[U] = TokensOf(x) + h[U \ {x}]
  BY <1>3, SumsRemove
<1>7. h[U] = TokensOf(x) + h[S]
  BY <1>6 DEF S
<1>. QED BY <1>2, <1>3, <1>5, <1>7 DEF S

\* Putting a call into a set puts its tokens into the sum.
LEMMA TokensAdd ==
  ASSUME NEW S, IsFiniteSet(S), NEW x, x \notin S,
         \A y \in S \cup {x} : TokensOf(y) \in Nat
  PROVE  Tokens(S \cup {x}) = Tokens(S) + TokensOf(x)
<1>. DEFINE U == S \cup {x}
<1>1. IsFiniteSet(U)
  BY FS_AddElement
<1>2. U \ {x} = S /\ x \in U /\ (\A y \in U : TokensOf(y) \in Nat)
  OBVIOUS
<1>. HIDE DEF U
<1>3. Tokens(U) = Tokens(U \ {x}) + TokensOf(x)
  BY <1>1, <1>2, TokensRemove
<1>. QED BY <1>2, <1>3 DEF U

\* The kept calls, and those of the rounds before r.
KeptCalls == {c \in sent : Kept(c)}
KeptCallsBefore(r) == {c \in sent : Kept(c) /\ c.id.round < r}

\* The accumulated tokens against the calls made: during a round they are those of the
\* kept calls of the rounds before, and once the last round is over those of all.
UsageInv ==
  /\ IsFiniteSet(sent)
  /\ Answered => pc = "done"
  /\ req.kind = "chat" =>
       /\ pc \in {"call", "round_end"} => acc.tokens = Tokens(KeptCallsBefore(round))
       /\ pc = "deliver" => acc.tokens = Tokens(KeptCalls)
       /\ Answered => result.tokens = Tokens(KeptCalls)

\* Some of finitely many calls are finitely many.
LEMMA KeptFinite ==
  ASSUME IsFiniteSet(sent)
  PROVE  IsFiniteSet(KeptCalls) /\ \A r : IsFiniteSet(KeptCallsBefore(r))
<1>1. KeptCalls \subseteq sent /\ \A r : KeptCallsBefore(r) \subseteq sent
  BY DEF KeptCalls, KeptCallsBefore
<1>. QED BY <1>1, FS_Subset

\* A new call of the running round is none of the kept ones of the rounds before.
LEMMA KeptCallsStable ==
  ASSUME TypeOK, NEW c, c.id = Here, sent' = sent \cup {c}, round' = round
  PROVE  KeptCallsBefore(round)' = KeptCallsBefore(round)
<1>1. c.id.round = round
  BY DEF Here
<1>2. ASSUME NEW d \in sent, d.id.round < round PROVE LastOfRound(d)' <=> LastOfRound(d)
  <2>1. c.id.round # d.id.round
    BY <1>1, <1>2 DEF TypeOK, Ids
  <2>. QED BY <2>1 DEF LastOfRound
<1>3. \A d \in sent : d.id.round < round => (Kept(d)' <=> Kept(d))
  BY <1>2 DEF Kept
<1>4. ~(c.id.round < round)
  BY <1>1 DEF TypeOK
<1>. QED BY <1>3, <1>4 DEF KeptCallsBefore

\* When a round has just ended, its last call's tokens come on top, or nothing does.
LEMMA TokensSplit ==
  ASSUME TypeOK, CallInv, IsFiniteSet(sent), NEW c \in sent, c.id = Here,
         \A d \in sent : d.id.round = round => d.id.attempt <= attempt
  PROVE  /\ Kept(c) => Tokens(KeptCalls) = Tokens(KeptCallsBefore(round)) + c.g.tokens
         /\ ~Kept(c) => Tokens(KeptCalls) = Tokens(KeptCallsBefore(round))
         /\ KeptCallsBefore(round + 1) = KeptCalls
<1>1. /\ \A d \in sent : Kept(d) => d.id.round < round \/ d = c
      /\ ~(c.id.round < round)
      /\ \A d \in sent : d.id.round < round + 1
  BY LastIsKept
<1>2. KeptCallsBefore(round + 1) = KeptCalls
  BY <1>1 DEF KeptCalls, KeptCallsBefore
<1>3. c \notin KeptCallsBefore(round)
  BY <1>1 DEF KeptCallsBefore
<1>4. CASE Kept(c)
  <2>1. KeptCalls = KeptCallsBefore(round) \cup {c}
    BY <1>1, <1>4 DEF KeptCalls, KeptCallsBefore
  <2>2. ASSUME NEW d \in KeptCalls PROVE TokensOf(d) \in Nat
    <3>1. d \in sent /\ d.t = "generated"
      BY <2>2 DEF KeptCalls, Kept
    <3>2. d.g \in Generation
      BY <3>1, CycleAssumption DEF TypeOK
    <3>. QED BY <3>2 DEF TokensOf, Generation
  <2>3. IsFiniteSet(KeptCallsBefore(round))
    BY KeptFinite
  <2>4. \A d \in KeptCallsBefore(round) \cup {c} : TokensOf(d) \in Nat
    BY <2>1, <2>2
  <2>5. Tokens(KeptCallsBefore(round) \cup {c}) = Tokens(KeptCallsBefore(round)) + TokensOf(c)
    BY <1>3, <2>3, <2>4, TokensAdd
  <2>. QED BY <1>2, <1>4, <2>1, <2>5 DEF TokensOf
<1>5. CASE ~Kept(c)
  <2>1. KeptCalls = KeptCallsBefore(round)
    BY <1>1, <1>5 DEF KeptCalls, KeptCallsBefore
  <2>. QED BY <1>2, <1>5, <2>1
<1>. QED BY <1>4, <1>5

\* What keeping the round that has just ended does to the accumulated tokens.
LEMMA RoundKeptTokens ==
  ASSUME TypeOK, CallInv, AnswerInv, UsageInv, RoundKept, req.kind = "chat"
  PROVE  acc'.tokens = Tokens(KeptCalls) /\ KeptCallsBefore(round + 1) = KeptCalls
<1>1. pc = "round_end" /\ ~RoundFailed
  BY DEF RoundKept
<1>2. PICK c \in sent : /\ c.id = Here /\ c.t = "generated"
                        /\ cur.affirms = LooksLikeConfirmation(c.g)
                        /\ cur.tokens = c.g.tokens
  BY <1>1 DEF AnswerInv, JustRead
<1>3. \A d \in sent : d.id.round = round => d.id.attempt <= attempt
  BY <1>1 DEF AnswerInv, JustRead
<1>4. Kept(c) <=> round = 0 \/ ~LooksLikeConfirmation(c.g)
  BY <1>2, <1>3, LastIsKept
<1>5. ConfirmationOnly <=> ~Kept(c)
  BY <1>2, <1>4 DEF ConfirmationOnly, TypeOK
<1>6. acc.tokens = Tokens(KeptCallsBefore(round))
  BY <1>1 DEF UsageInv
<1>7. acc'.tokens = IF ConfirmationOnly THEN acc.tokens ELSE acc.tokens + cur.tokens
  BY DEF RoundKept, Accumulated
<1>8. /\ Kept(c) => Tokens(KeptCalls) = Tokens(KeptCallsBefore(round)) + c.g.tokens
      /\ ~Kept(c) => Tokens(KeptCalls) = Tokens(KeptCallsBefore(round))
      /\ KeptCallsBefore(round + 1) = KeptCalls
  BY <1>2, <1>3, TokensSplit DEF UsageInv
<1>. QED BY <1>2, <1>5, <1>6, <1>7, <1>8

\* The call that returns ends the round or goes into the next attempt: the tokens wait.
LEMMA UsageDuringCall ==
  ASSUME TypeOK, UsageInv, pc = "call", UNCHANGED <<req, round, acc>>,
         NEW c, c.id = Here, sent' = sent \cup {c},
         \/ pc' \in {"call", "round_end"} /\ result' = result
         \/ pc' = "done" /\ result'.t \in {"gone", "fatal"}
  PROVE  UsageInv'
<1>1. KeptCallsBefore(round)' = KeptCallsBefore(round)
  BY KeptCallsStable
<1>2. IsFiniteSet(sent')
  BY FS_AddElement DEF UsageInv
<1>3. ~Answered'
  BY DEF UsageInv, Answered
<1>. QED BY <1>1, <1>2, <1>3 DEF UsageInv

\* A step that leaves calls, tokens and result alone keeps it.
LEMMA UsageFrame ==
  ASSUME UsageInv, UNCHANGED <<pc, req, round, acc, sent, result>>
  PROVE  UsageInv'
BY DEF UsageInv, Answered, KeptCalls, KeptCallsBefore, Kept, LastOfRound

\* Before the first call there are no tokens.
LEMMA UsageInit == Init => UsageInv
<1>. SUFFICES ASSUME Init PROVE UsageInv
  OBVIOUS
<1>1. acc.tokens = 0 /\ sent = {} /\ pc = "call" /\ result.t = "none"
  BY DEF Init, NoResult
<1>2. KeptCallsBefore(round) = {}
  BY <1>1 DEF KeptCallsBefore
<1>. QED BY <1>1, <1>2, TokensEmpty, FS_EmptySet DEF UsageInv, Answered

\* Every step keeps the accumulated tokens and the kept calls together.
LEMMA UsageStep == TypeOK /\ CallInv /\ AnswerInv /\ UsageInv /\ [Next]_vars => UsageInv'
<1>. SUFFICES ASSUME TypeOK, CallInv, AnswerInv, UsageInv, [Next]_vars PROVE UsageInv'
  OBVIOUS
<1>1. CASE CallFails
  <2>1. PICK c : c.id = Here /\ sent' = sent \cup {c}
    BY <1>1 DEF CallFails, Called
  <2>. QED BY <1>1, <2>1, UsageDuringCall DEF CallFails, settled, env, locals
<1>2. CASE CallRejected
  <2>1. PICK c : c.id = Here /\ sent' = sent \cup {c}
    BY <1>2 DEF CallRejected, Called
  <2>. QED BY <1>2, <2>1, UsageDuringCall DEF CallRejected, Answers, settled, env
<1>3. CASE CallUnparseable
  <2>1. PICK c : c.id = Here /\ sent' = sent \cup {c}
    BY <1>3 DEF CallUnparseable, Called
  <2>. QED BY <1>3, <2>1, UsageDuringCall DEF CallUnparseable, Answers, settled, env
<1>4. CASE CallShapeless
  <2>1. PICK c : c.id = Here /\ sent' = sent \cup {c}
    BY <1>4 DEF CallShapeless, Called
  <2>. QED BY <1>4, <2>1, UsageDuringCall DEF CallShapeless, Answers, settled, env
<1>5. ASSUME NEW g \in Generations, GenerationAccepted(g) PROVE UsageInv'
  <2>1. PICK c : c.id = Here /\ sent' = sent \cup {c}
    BY <1>5 DEF GenerationAccepted, CalledWith
  <2>. QED BY <1>5, <2>1, UsageDuringCall DEF GenerationAccepted, Answers, settled, env
<1>6. ASSUME NEW g \in Generations, GenerationRetried(g) PROVE UsageInv'
  <2>1. PICK c : c.id = Here /\ sent' = sent \cup {c}
    BY <1>6 DEF GenerationRetried, CalledWith
  <2>. QED BY <1>6, <2>1, UsageDuringCall DEF GenerationRetried, Answers, StartCall, env
<1>7. CASE RoundFails
  <2>1. pc = "round_end" /\ RoundFailed /\ pc' = "deliver"
        /\ UNCHANGED <<req, acc, sent, result>>
    BY <1>7 DEF RoundFails, settled, env
  <2>2. ~Answered'
    BY <2>1 DEF UsageInv, Answered
  <2>3. req.kind = "chat" => acc.tokens = Tokens(KeptCalls)
    <3>. SUFFICES ASSUME req.kind = "chat" PROVE acc.tokens = Tokens(KeptCalls)
      OBVIOUS
    <3>1. PICK c \in sent : c.id = Here /\ c.t # "generated"
      BY <2>1 DEF AnswerInv, JustRead
    <3>2. ~Kept(c)
      BY <3>1 DEF Kept
    <3>3. Tokens(KeptCalls) = Tokens(KeptCallsBefore(round))
      BY <2>1, <3>1, <3>2, TokensSplit DEF UsageInv, AnswerInv, JustRead
    <3>. QED BY <2>1, <3>3 DEF UsageInv
  <2>4. KeptCalls' = KeptCalls
    BY <2>1 DEF KeptCalls, Kept, LastOfRound
  <2>. QED BY <2>1, <2>2, <2>3, <2>4 DEF UsageInv
<1>8. CASE RoundStops
  <2>1. RoundKept /\ pc = "round_end" /\ pc' = "deliver" /\ UNCHANGED <<req, sent, result>>
    BY <1>8 DEF RoundStops, RoundKept, env
  <2>2. ~Answered'
    BY <2>1 DEF UsageInv, Answered
  <2>3. KeptCalls' = KeptCalls
    BY <2>1 DEF KeptCalls, Kept, LastOfRound
  <2>4. req.kind = "chat" => acc'.tokens = Tokens(KeptCalls)
    BY <2>1, RoundKeptTokens
  <2>. QED BY <2>1, <2>2, <2>3, <2>4 DEF UsageInv
<1>9. CASE RoundProbes
  <2>1. RoundKept /\ pc = "round_end" /\ pc' = "call" /\ round' = round + 1
        /\ UNCHANGED <<req, sent, result>> /\ req.kind = "chat"
    BY <1>9 DEF RoundProbes, RoundKept, StartCall, CanAlertAgain, env
  <2>2. ~Answered'
    BY <2>1 DEF UsageInv, Answered
  <2>3. KeptCallsBefore(round)' = KeptCallsBefore(round + 1)
    BY <2>1 DEF KeptCallsBefore, Kept, LastOfRound
  <2>4. acc'.tokens = Tokens(KeptCallsBefore(round + 1))
    BY <2>1, RoundKeptTokens
  <2>. QED BY <2>1, <2>2, <2>3, <2>4 DEF UsageInv
<1>10. CASE Deliver
  <2>1. pc = "deliver" /\ pc' = "done" /\ result'.tokens = acc.tokens
        /\ UNCHANGED <<req, acc, sent>>
    BY <1>10 DEF Deliver, settled, env, locals
  <2>2. KeptCalls' = KeptCalls
    BY <2>1 DEF KeptCalls, Kept, LastOfRound
  <2>. QED BY <2>1, <2>2 DEF UsageInv
<1>11. CASE AlertToggled
  BY <1>11, UsageFrame DEF AlertToggled, locals
<1>12. CASE ClientDisconnects
  BY <1>12, UsageFrame DEF ClientDisconnects, locals
<1>13. CASE UNCHANGED vars
  BY <1>13, UsageFrame DEF vars, locals
<1>. QED
  BY <1>1, <1>2, <1>3, <1>4, <1>5, <1>6, <1>7, <1>8, <1>9, <1>10, <1>11, <1>12, <1>13
     DEF Next, CycleStep, UpstreamReturns, Terminated

\* The completion_tokens a chat client is told are those of the rounds whose text it gets,
\* for any number of rounds and retries: none is lost, counted twice, or charged for an
\* attempt that was retried away or a bare confirmation.
THEOREM UsageIsOfKeptRounds == Spec => []UsageIsKeptRounds
<1>3. UsageInv => UsageIsKeptRounds
  BY DEF UsageInv, UsageIsKeptRounds, KeptCalls
<1>4. Spec => []CallInv
  BY CallInvariant
<1>5. Spec => []AnswerInv
  BY AnswerInit, AnswerStep, <1>4, TypeCorrect, PTL DEF Spec
<1>. QED BY UsageInit, UsageStep, <1>3, <1>4, <1>5, TypeCorrect, PTL DEF Spec
-----------------------------------------------------------------------------
\* The fields of x that are handed over with a text come from call c.
From(x, c) ==
  /\ x.prompt = <<c.id>> /\ x.tools = IF c.g.tools THEN <<c.id>> ELSE <<>>
  /\ x.finish = SanitizedFinish(c.g)

\* What ResultIsOneRound says of a result x after n more rounds.
OneRound(x, n) ==
  \E c \in sent :
    /\ Usable(c) \/ (c.t = "generated" /\ n = 0)
    /\ \A d \in sent : Usable(d) => d.id.round <= c.id.round
    /\ From(x, c)

\* Where the fields come from on the way there: in a later round the snapshot is of the
\* round before; in the first the locals may be of an attempt that was retried; and a round
\* that has failed has no usable call.
SourceInv ==
  /\ Answered => pc = "done"
  /\ req.kind = "chat" =>
       /\ pc \in {"call", "round_end"} =>
            /\ round > 0 => \E c \in sent : Usable(c) /\ c.id.round = round - 1 /\ From(lastGood, c)
            /\ round = 0 /\ cur.streamable => \E c \in sent : c.t = "generated" /\ From(cur, c)
       /\ pc = "round_end" =>
            /\ RoundFailed => \A d \in sent : Usable(d) => d.id.round < round
            /\ ~RoundFailed => \E c \in sent : Usable(c) /\ c.id.round = round /\ From(cur, c)
       /\ pc = "deliver" /\ cur.streamable => OneRound(cur, round)
       /\ Answered /\ result.streamable => OneRound(result, result.alertRounds)

\* A step that leaves calls, locals, snapshot and result alone keeps it.
LEMMA SourceFrame ==
  ASSUME SourceInv, UNCHANGED <<pc, req, round, cur, lastGood, sent, result>>
  PROVE  SourceInv'
BY DEF SourceInv, Answered, OneRound, From, Usable, LastOfRound, RoundFailed

\* A new call of the running round changes nothing for the usable calls of the rounds before,
\* and no earlier call of this round is usable any more.
LEMMA UsableStable ==
  ASSUME TypeOK, CallInv, pc = "call", NEW c, c.id = Here, sent' = sent \cup {c}
  PROVE  /\ \A d \in sent : d.id.round < round /\ Usable(d) => Usable(d)'
         /\ \A d \in sent : Usable(d)' => d.id.round < round
         /\ c.t = "generated" => Usable(c)'
<1>1. c.id.round = round /\ c.id.attempt = attempt /\ round \in Nat /\ attempt \in Nat
  BY DEF Here, TypeOK
<1>2. \A d \in sent : /\ d.id.round \in Nat /\ d.id.attempt \in Nat /\ d.id.round <= round
                      /\ d.id.round = round => d.id.attempt < attempt
  BY DEF TypeOK, Ids, CallInv
<1>3. ASSUME NEW d \in sent, d.id.round < round, Usable(d) PROVE Usable(d)'
  BY <1>1, <1>2, <1>3 DEF Usable, LastOfRound
<1>4. ASSUME NEW d \in sent, Usable(d)' PROVE d.id.round < round
  <2>1. d.id.round = round => c.id.attempt <= d.id.attempt
    BY <1>1, <1>4 DEF Usable, LastOfRound
  <2>. QED BY <1>1, <1>2, <2>1
<1>5. c.t = "generated" => Usable(c)'
  BY <1>1, <1>2 DEF Usable, LastOfRound
<1>. QED BY <1>3, <1>4, <1>5

\* During a round the snapshot keeps its source.
LEMMA SnapshotStable ==
  ASSUME TypeOK, CallInv, SourceInv, pc = "call", req.kind = "chat", UNCHANGED <<round, lastGood>>,
         NEW c, c.id = Here, sent' = sent \cup {c}
  PROVE  (round > 0 => \E d \in sent : Usable(d) /\ d.id.round = round - 1 /\ From(lastGood, d))'
<1>. SUFFICES ASSUME round > 0
              PROVE  \E d \in sent' : Usable(d)' /\ d.id.round = round - 1 /\ From(lastGood, d)
  BY DEF From
<1>1. PICK d \in sent : Usable(d) /\ d.id.round = round - 1 /\ From(lastGood, d)
  BY DEF SourceInv
<1>2. Usable(d)'
  BY <1>1, UsableStable DEF TypeOK
<1>. QED BY <1>1, <1>2

\* Nothing can have a source before the first call.
LEMMA SourceInit == Init => SourceInv
<1>. SUFFICES ASSUME Init PROVE SourceInv
  OBVIOUS
<1>1. pc = "call" /\ round = 0 /\ ~cur.streamable /\ result.t = "none"
  BY DEF Init, NoResult
<1>. QED BY <1>1 DEF SourceInv, Answered

\* Every step keeps the fields and the call they come from together.
LEMMA SourceStep == TypeOK /\ CallInv /\ SourceInv /\ [Next]_vars => SourceInv'
<1>. SUFFICES ASSUME TypeOK, CallInv, SourceInv, [Next]_vars PROVE SourceInv'
  OBVIOUS
<1>1. CASE CallFails
  BY <1>1 DEF CallFails, SourceInv, Answered, settled, env
<1>2. CASE CallRejected
  <2>1. PICK c : c.id = Here /\ c.t = "rejected" /\ sent' = sent \cup {c}
    BY <1>2 DEF CallRejected, Called
  <2>2. pc = "call" /\ pc' = "round_end" /\ UNCHANGED <<req, round, lastGood, result>>
    BY <1>2 DEF CallRejected, Answers, settled, env
  <2>3. RoundFailed' /\ cur'.streamable = cur.streamable /\ cur'.prompt = cur.prompt
        /\ cur'.tools = cur.tools /\ cur'.finish = cur.finish
    BY <1>2 DEF CallRejected, RoundFailed, TypeOK, Locals
  <2>4. \A d \in sent' : Usable(d)' => d.id.round < round
    <3>1. ~Usable(c)'
      BY <2>1 DEF Usable
    <3>. QED BY <2>1, <2>2, <3>1, UsableStable
  <2>5. req.kind = "chat" =>
          (round = 0 /\ cur.streamable => \E d \in sent : d.t = "generated" /\ From(cur, d))'
    BY <2>1, <2>2, <2>3 DEF SourceInv, From
  <2>6. ~Answered'
    BY <2>2 DEF SourceInv, Answered
  <2>. QED BY <2>1, <2>2, <2>3, <2>4, <2>5, <2>6, SnapshotStable DEF SourceInv
<1>3. CASE CallUnparseable \/ CallShapeless
  BY <1>3 DEF CallUnparseable, CallShapeless, Answers, SourceInv, Answered, settled, env
<1>4. ASSUME NEW g \in Generations, GenerationAccepted(g) PROVE SourceInv'
  <2>1. PICK c : c.id = Here /\ c.t = "generated" /\ c.g = g /\ sent' = sent \cup {c}
    BY <1>4 DEF GenerationAccepted, CalledWith
  <2>2. pc = "call" /\ pc' = "round_end" /\ cur' = Received(g)
        /\ UNCHANGED <<req, round, lastGood, result>>
    BY <1>4 DEF GenerationAccepted, Answers, settled, env
  <2>3. ~RoundFailed' /\ (req.kind = "chat" => From(cur', c))
    BY <2>1, <2>2 DEF Received, RoundFailed, TypeOK, Locals, From
  <2>4. c \in sent' /\ Usable(c)' /\ c.id.round = round
    BY <2>1, <2>2, UsableStable DEF Here
  <2>5. ~Answered'
    BY <2>2 DEF SourceInv, Answered
  <2>. QED BY <2>1, <2>2, <2>3, <2>4, <2>5, SnapshotStable DEF SourceInv
<1>5. ASSUME NEW g \in Generations, GenerationRetried(g) PROVE SourceInv'
  <2>1. PICK c : c.id = Here /\ c.t = "generated" /\ c.g = g /\ sent' = sent \cup {c}
    BY <1>5 DEF GenerationRetried, CalledWith
  <2>2. pc = "call" /\ pc' = "call" /\ cur' = Received(g)
        /\ UNCHANGED <<req, round, lastGood, result>>
    BY <1>5 DEF GenerationRetried, Answers, StartCall, env
  <2>3. req.kind = "chat" => From(cur', c)
    BY <2>1, <2>2 DEF Received, TypeOK, Locals, From
  <2>4. c \in sent'
    BY <2>1
  <2>5. ~Answered'
    BY <2>2 DEF SourceInv, Answered
  <2>. QED BY <2>1, <2>2, <2>3, <2>4, <2>5, SnapshotStable DEF SourceInv
<1>6. CASE RoundFails
  <2>1. pc = "round_end" /\ RoundFailed /\ pc' = "deliver" /\ UNCHANGED <<req, round, sent, result>>
    BY <1>6 DEF RoundFails, settled, env
  <2>2. ~Answered'
    BY <2>1 DEF SourceInv, Answered
  <2>3. round \in Nat /\ \A d \in sent : d.id.round \in Nat /\ (Usable(d)' <=> Usable(d))
    BY <2>1 DEF TypeOK, Ids, Usable, LastOfRound
  <2>4. ASSUME req.kind = "chat", cur'.streamable PROVE OneRound(cur, round)'
    <3>1. \A d \in sent : Usable(d) => d.id.round < round
      BY <2>1, <2>4 DEF SourceInv
    <3>2. CASE round > 0
      <4>1. PICK c \in sent : Usable(c) /\ c.id.round = round - 1 /\ From(lastGood, c)
        BY <2>1, <2>4, <3>2 DEF SourceInv
      <4>2. From(cur', c)
        BY <1>6, <3>2, <4>1 DEF RoundFails, From, TypeOK, Locals
      <4>3. Usable(c)' /\ c \in sent'
        BY <2>1, <2>3, <4>1
      <4>4. \A d \in sent' : Usable(d)' => d.id.round <= c.id.round
        BY <2>1, <2>3, <3>1, <4>1
      <4>. QED BY <4>2, <4>3, <4>4 DEF OneRound, From
    <3>3. CASE round = 0
      <4>1. cur' = cur
        BY <1>6, <3>3 DEF RoundFails
      <4>2. PICK c \in sent : c.t = "generated" /\ From(cur, c)
        BY <2>1, <2>4, <3>3, <4>1 DEF SourceInv
      <4>. QED BY <2>1, <2>3, <3>1, <3>3, <4>1, <4>2 DEF OneRound, From
    <3>. QED BY <2>3, <3>2, <3>3
  <2>. QED BY <2>1, <2>2, <2>4 DEF SourceInv
<1>7. ASSUME RoundKept, UNCHANGED req, req.kind = "chat"
      PROVE  \E c \in sent : /\ Usable(c) /\ Usable(c)' /\ c.id.round = round
                             /\ From(cur, c) /\ From(lastGood', c)
  <2>1. PICK c \in sent : Usable(c) /\ c.id.round = round /\ From(cur, c)
    BY <1>7 DEF RoundKept, SourceInv
  <2>2. Usable(c)' /\ From(lastGood', c)
    BY <1>7, <2>1 DEF RoundKept, Snapshot, From, Usable, LastOfRound
  <2>. QED BY <2>1, <2>2
<1>8. CASE RoundStops
  <2>1. RoundKept /\ pc = "round_end" /\ pc' = "deliver" /\ UNCHANGED <<req, round, cur, sent, result>>
    BY <1>8 DEF RoundStops, RoundKept, env
  <2>2. ~Answered'
    BY <2>1 DEF SourceInv, Answered
  <2>3. \A d \in sent : d.id.round <= round
    BY DEF CallInv
  <2>4. req.kind = "chat" => OneRound(cur, round)'
    BY <1>7, <2>1, <2>3 DEF OneRound, From
  <2>. QED BY <2>1, <2>2, <2>4 DEF SourceInv
<1>9. CASE RoundProbes
  <2>1. RoundKept /\ pc = "round_end" /\ pc' = "call" /\ UNCHANGED <<req, sent, result>>
        /\ round' = round + 1 /\ round \in Nat
    BY <1>9 DEF RoundProbes, RoundKept, StartCall, env, TypeOK
  <2>2. ~Answered'
    BY <2>1 DEF SourceInv, Answered
  <2>3. req.kind = "chat" =>
          \E c \in sent' : Usable(c)' /\ c.id.round = round' - 1 /\ From(lastGood', c)
    BY <1>7, <2>1
  <2>. QED BY <2>1, <2>2, <2>3 DEF SourceInv, From
<1>10. CASE Deliver
  <2>1. pc = "deliver" /\ pc' = "done" /\ UNCHANGED <<req, sent>>
    BY <1>10 DEF Deliver, settled, env
  <2>2. /\ result'.prompt = cur.prompt /\ result'.tools = cur.tools /\ result'.finish = cur.finish
        /\ result'.streamable = cur.streamable /\ result'.alertRounds = round
    BY <1>10 DEF Deliver
  <2>. QED BY <2>1, <2>2 DEF SourceInv, OneRound, From, Usable, LastOfRound
<1>11. CASE AlertToggled
  BY <1>11, SourceFrame DEF AlertToggled, locals
<1>12. CASE ClientDisconnects
  BY <1>12, SourceFrame DEF ClientDisconnects, locals
<1>13. CASE UNCHANGED vars
  BY <1>13, SourceFrame DEF vars, locals
<1>. QED
  BY <1>1, <1>2, <1>3, <1>4, <1>5, <1>6, <1>8, <1>9, <1>10, <1>11, <1>12, <1>13
     DEF Next, CycleStep, UpstreamReturns, Terminated

\* The finish_reason, the tool calls and the prompt_tokens of a chat answer come from one
\* generation, that of the last round that succeeded, for any number of rounds and retries.
THEOREM AnswerIsOfOneRound == Spec => []ResultIsOneRound
<1>3. SourceInv => ResultIsOneRound
  BY DEF SourceInv, ResultIsOneRound, OneRound, From, SanitizedFinish
<1>. QED BY SourceInit, SourceStep, <1>3, TypeCorrect, CallInvariant, PTL DEF Spec
-----------------------------------------------------------------------------
(* The cycle with the handler beside it *)

\* The steps of the handler and of the client leave the cycle alone, except that they may
\* cancel it and that the handler emits the last event.
BesideTheCycle ==
  /\ UNCHANGED <<pc, req, alertOn, doomed, locals, sent, result>>
  /\ ctxDone' \in {ctxDone, TRUE} /\ events' \in {events, events + 1}

\* A step of handler and cycle is one of the cycle alone, or one that leaves the cycle alone.
LEMMA TwoSides == [HNext]_allVars => (CycleStep \/ AlertToggled \/ UNCHANGED vars) \/ BesideTheCycle
BY DEF HNext, allVars, CycleRuns, PanelToggles, ClientLeaves, GraceExpires, Heartbeat,
       HeartbeatFails, FinishGone, FinishFatal, FinishAnswer, HandlerReturned, BesideTheCycle, vars

\* What RequestCycle's invariants say does not depend on the client or on the events.
LEMMA BesideKeeps ==
  ASSUME TypeOK, CallInv, FallbackInv, AnswerInv, UsageInv, SourceInv, BesideTheCycle
  PROVE  (TypeOK /\ CallInv /\ FallbackInv /\ AnswerInv /\ UsageInv /\ SourceInv)'
<1>1. TypeOK'
  <2>1. ctxDone' \in BOOLEAN
    BY DEF TypeOK, BesideTheCycle
  <2>2. events' \in Nat
    BY DEF TypeOK, BesideTheCycle
  <2>3. UNCHANGED <<pc, req, alertOn, doomed, locals, sent, result>>
    BY DEF BesideTheCycle
  <2>. QED BY <2>1, <2>2, <2>3 DEF TypeOK, locals
<1>2. CallInv'
  BY CallInvFrame DEF BesideTheCycle, locals
<1>3. FallbackInv'
  BY DEF FallbackInv, Answered, RejectedFollowUpKeepsAnswer, Begins, BesideTheCycle, locals
<1>4. AnswerInv'
  BY AnswerFrame DEF BesideTheCycle, locals
<1>5. SourceInv'
  BY SourceFrame DEF BesideTheCycle, locals
<1>6. UsageInv'
  BY UsageFrame DEF BesideTheCycle, locals
<1>. QED BY <1>1, <1>2, <1>3, <1>4, <1>5, <1>6
-----------------------------------------------------------------------------
\* The results there can be: a client is given up only if it has gone, an answer has a
\* status, and a streamable one is the rebuilt JSON.
OutcomeInv ==
  /\ result.t = "gone" => ctxDone
  /\ pc \in {"round_end", "deliver"} => cur.status \in {"ok", "error"}
  /\ Answered => /\ result.status \in {"ok", "error"}
                 /\ result.streamable => result.bytes = "chat_json"

\* There is no result at first.
LEMMA OutcomeInit == Init => OutcomeInv
<1>. SUFFICES ASSUME Init PROVE OutcomeInv
  OBVIOUS
<1>1. pc = "call" /\ result.t = "none"
  BY DEF Init, NoResult
<1>. QED BY <1>1 DEF OutcomeInv, Answered

\* The status a usable or a rejected response leaves.
LEMMA OutcomeStep == TypeOK /\ FallbackInv /\ OutcomeInv /\ [Next]_vars => OutcomeInv'
<1>. SUFFICES ASSUME TypeOK, FallbackInv, OutcomeInv, [Next]_vars PROVE OutcomeInv'
  OBVIOUS
<1>0. cur \in Locals /\ (pc # "done" => result.t = "none")
  BY DEF TypeOK, FallbackInv
<1>1. CASE CallFails
  BY <1>1 DEF CallFails, OutcomeInv, Answered, settled, env, locals
<1>2. CASE CallRejected \/ CallUnparseable \/ CallShapeless
  <2>1. cur'.status \in {"ok", "error"}
    BY <1>0, <1>2 DEF CallRejected, CallUnparseable, CallShapeless, Locals
  <2>. QED BY <1>0, <1>2, <2>1
         DEF CallRejected, CallUnparseable, CallShapeless, Answers, OutcomeInv, Answered
<1>3. ASSUME NEW g \in Generations, GenerationAccepted(g) PROVE OutcomeInv'
  <2>1. cur'.status = "ok"
    BY <1>0, <1>3 DEF GenerationAccepted, Received, Locals
  <2>. QED BY <1>0, <1>3, <2>1 DEF GenerationAccepted, Answers, OutcomeInv, Answered
<1>4. ASSUME NEW g \in Generations, GenerationRetried(g) PROVE OutcomeInv'
  BY <1>0, <1>4 DEF GenerationRetried, Answers, StartCall, OutcomeInv, Answered
<1>5. CASE RoundFails
  <2>1. cur'.status \in {"ok", "error"}
    BY <1>0, <1>5 DEF RoundFails, FallbackInv, OutcomeInv, Locals
  <2>. QED BY <1>0, <1>5, <2>1 DEF RoundFails, OutcomeInv, Answered
<1>6. CASE RoundStops
  BY <1>0, <1>6 DEF RoundStops, RoundKept, OutcomeInv, Answered
<1>7. CASE RoundProbes
  BY <1>0, <1>7 DEF RoundProbes, RoundKept, StartCall, OutcomeInv, Answered
<1>8. CASE Deliver
  <2>1. pc = "deliver" /\ pc' = "done" /\ result'.t = "answer" /\ result'.status = cur.status
        /\ (result'.streamable => result'.bytes = "chat_json")
    BY <1>8 DEF Deliver
  <2>. QED BY <2>1 DEF OutcomeInv, Answered
<1>9. CASE AlertToggled \/ ClientDisconnects \/ UNCHANGED vars
  <2>1. UNCHANGED <<pc, cur, result>> /\ ctxDone' \in {ctxDone, TRUE}
    BY <1>9 DEF AlertToggled, ClientDisconnects, vars, locals
  <2>. QED BY <2>1 DEF OutcomeInv, Answered
<1>. QED BY <1>1, <1>2, <1>3, <1>4, <1>5, <1>6, <1>7, <1>8, <1>9
      DEF Next, CycleStep, UpstreamReturns, Terminated
-----------------------------------------------------------------------------
\* There has been one upstream call, and the upstream rejected it.
OnlyRejection == \E c \in sent : sent = {c} /\ c.t = "rejected"

\* Until the first call returns nothing can be streamed; a request with nothing but a
\* rejection carries that through to its result.
RejectInv ==
  /\ sent = {} => pc = "call" /\ round = 0 /\ ~cur.streamable
  /\ OnlyRejection =>
       /\ pc # "call" /\ round = 0
       /\ cur.status = "error" /\ cur.bytes = "upstream" /\ ~cur.streamable
       /\ result.t \in {"none", "answer"}
       /\ Answered => result.status = "error" /\ result.bytes = "upstream" /\ ~result.streamable

\* No call has been rejected at first.
LEMMA RejectInit == Init => RejectInv
<1>. SUFFICES ASSUME Init PROVE RejectInv
  OBVIOUS
<1>1. sent = {} /\ pc = "call" /\ round = 0 /\ ~cur.streamable
  BY DEF Init
<1>. QED BY <1>1 DEF RejectInv, OnlyRejection

\* The call that returns is a new one: it is the only one if it is the first.
LEMMA AnotherCall ==
  ASSUME TypeOK, CallInv, pc = "call", NEW c, c.id = Here, sent' = sent \cup {c}
  PROVE  /\ sent' # {}
         /\ OnlyRejection' => sent = {} /\ c.t = "rejected"
<1>1. \A d \in sent : d.id # Here
  BY DEF Here, CallInv, TypeOK
<1>. QED BY <1>1 DEF OnlyRejection

\* A first rejection stays on its way to the client.
LEMMA RejectStep == TypeOK /\ CallInv /\ FallbackInv /\ RejectInv /\ [Next]_vars => RejectInv'
<1>. SUFFICES ASSUME TypeOK, CallInv, FallbackInv, RejectInv, [Next]_vars PROVE RejectInv'
  OBVIOUS
<1>0. cur \in Locals /\ (pc # "done" => result.t = "none")
  BY DEF TypeOK, FallbackInv
<1>1. CASE CallRejected
  <2>1. PICK c : c.id = Here /\ sent' = sent \cup {c}
    BY <1>1 DEF CallRejected, Called
  <2>2. pc = "call" /\ pc' = "round_end" /\ UNCHANGED <<round, result>>
    BY <1>1 DEF CallRejected, Answers
  <2>3. cur'.status = "error" /\ cur'.bytes = "upstream" /\ cur'.streamable = cur.streamable
    BY <1>0, <1>1 DEF CallRejected, Locals
  <2>. QED BY <1>0, <2>1, <2>2, <2>3, AnotherCall DEF RejectInv, Answered
<1>2. CASE CallFails \/ CallUnparseable \/ CallShapeless
           \/ \E g \in Generations : GenerationAccepted(g) \/ GenerationRetried(g)
  <2>1. pc = "call" /\ \E c : c.id = Here /\ c.t # "rejected" /\ sent' = sent \cup {c}
    BY <1>2 DEF CallFails, CallUnparseable, CallShapeless, GenerationAccepted,
                GenerationRetried, Answers, Called, CalledWith
  <2>. QED BY <2>1, AnotherCall DEF RejectInv
<1>3. CASE RoundFails
  <2>1. pc = "round_end" /\ pc' = "deliver" /\ UNCHANGED <<round, sent, result>>
        /\ (round = 0 => cur' = cur)
    BY <1>3 DEF RoundFails
  <2>. QED BY <1>0, <2>1 DEF RejectInv, OnlyRejection, Answered
<1>4. CASE RoundStops \/ RoundProbes
  <2>1. pc = "round_end" /\ ~RoundFailed /\ UNCHANGED sent
    BY <1>4 DEF RoundStops, RoundProbes, RoundKept
  <2>. QED BY <2>1 DEF RejectInv, OnlyRejection, RoundFailed
<1>5. CASE Deliver
  <2>1. pc = "deliver" /\ pc' = "done" /\ UNCHANGED <<round, sent, cur>> /\ result'.t = "answer"
        /\ result'.status = cur.status /\ result'.streamable = cur.streamable
        /\ (~cur.streamable => result'.bytes = cur.bytes)
    BY <1>5 DEF Deliver, locals
  <2>. QED BY <2>1 DEF RejectInv, OnlyRejection, Answered
<1>6. CASE UNCHANGED <<pc, round, cur, sent, result>>
  BY <1>6 DEF RejectInv, OnlyRejection, Answered
<1>. QED BY <1>1, <1>2, <1>3, <1>4, <1>5, <1>6
      DEF Next, CycleStep, UpstreamReturns, Terminated, AlertToggled, ClientDisconnects, vars, locals
-----------------------------------------------------------------------------
\* All that holds of the cycle, whatever the handler has done.
CycleInv == /\ TypeOK /\ CallInv /\ FallbackInv /\ AnswerInv /\ UsageInv /\ SourceInv
            /\ OutcomeInv /\ RejectInv

\* All of it holds at first.
LEMMA CycleInit == Init => CycleInv
BY TypeInit, CallInit, FallbackInit, AnswerInit, UsageInit, SourceInit, OutcomeInit, RejectInit
   DEF CycleInv

\* The cycle keeps it whatever the handler and the client do.
LEMMA CycleKeeps == CycleInv /\ [HNext]_allVars => CycleInv'
<1>. SUFFICES ASSUME CycleInv, [HNext]_allVars PROVE CycleInv'
  OBVIOUS
<1>1. CASE CycleStep \/ AlertToggled \/ UNCHANGED vars
  <2>1. [Next]_vars
    BY <1>1 DEF Next
  <2>. QED BY <2>1, TypeStep, CallStep, FallbackStep, AnswerStep, UsageStep, SourceStep,
              OutcomeStep, RejectStep DEF CycleInv
<1>2. CASE BesideTheCycle
  <2>1. OutcomeInv'
    <3>1. ctxDone => ctxDone'
      BY <1>2 DEF BesideTheCycle
    <3>2. UNCHANGED <<pc, locals, result>>
      BY <1>2 DEF BesideTheCycle
    <3>. QED BY <3>1, <3>2 DEF CycleInv, OutcomeInv, Answered, locals
  <2>2. RejectInv'
    BY <1>2 DEF CycleInv, BesideTheCycle, RejectInv, OnlyRejection, Answered, locals
  <2>. QED BY <1>2, <2>1, <2>2, BesideKeeps DEF CycleInv
<1>. QED BY <1>1, <1>2, TwoSides
-----------------------------------------------------------------------------
\* What a reply is: where it goes, what it says, and under which status.
LEMMA ReplyForms ==
  ASSUME NEW r, headersSent \in BOOLEAN
  PROVE  /\ ReplyTo(r).form \in {"sse", "plain"} /\ ReplyTo(r).status \in {"ok", r.status}
         /\ headersSent => ReplyTo(r).form = "sse" /\ ReplyTo(r).status = "ok"
         /\ ReplyTo(r).form = "sse" => headersSent \/ req.stream
BY DEF ReplyTo, Streamed, ErrorStream

\* What an answer looks like over headers that are out: an SSE stream, of either content.
LEMMA StreamedForm ==
  ASSUME NEW r, NEW st
  PROVE  /\ Streamed(r, st).form = "sse" /\ Streamed(r, st).text = r.text
         /\ Streamed(r, st).tools = r.tools
         /\ r.finish # "" => Streamed(r, st).finish = r.finish
<1>1. /\ Streamed(r, st).form = "sse" /\ Streamed(r, st).text = r.text
      /\ Streamed(r, st).tools = r.tools
  BY DEF Streamed
<1>2. Streamed(r, st).finish = IF r.finish = "" THEN "stop" ELSE r.finish
  BY DEF Streamed
<1>. QED BY <1>1, <1>2

\* The handler replies once, when it returns, with what the cycle left, and commits headers
\* only for a client that awaits a stream.
HandlerInv ==
  /\ hpc \in {"grace", "ticking", "returned"} /\ headersSent \in BOOLEAN
  /\ hpc # "returned" => reply = NoReply
  /\ hpc = "grace" => ~headersSent
  /\ headersSent => AwaitsStream
  /\ reply # NoReply => result.t = "answer" \/ result.t = "fatal"
  /\ reply # NoReply /\ Answered => reply = ReplyTo(result)

\* The handler starts without headers and without a reply.
LEMMA HandlerInit == HInit => HandlerInv
BY DEF HInit, HandlerInv

\* What replies, in one step.
Replies == FinishFatal \/ FinishAnswer

\* A reply is the first, ends the handler, and respects headers that are out.
LEMMA ReplyWritten ==
  ASSUME CycleInv, HandlerInv, Replies
  PROVE  /\ reply = NoReply /\ hpc # "returned" /\ hpc' = "returned"
         /\ reply'.form \in {"sse", "plain"} /\ reply' # NoReply
         /\ reply'.status \in {"ok", "error", "bad_gateway"}
         /\ headersSent => reply'.form = "sse" /\ reply'.status = "ok"
         /\ reply'.form = "sse" => headersSent \/ req.stream
         /\ UNCHANGED <<req, ctxDone, headersSent, result>>
<1>1. hpc # "returned" /\ hpc' = "returned" /\ reply = NoReply /\ headersSent \in BOOLEAN
  BY DEF Replies, FinishFatal, FinishAnswer, Receives, HandlerInv
<1>2. UNCHANGED <<req, ctxDone, headersSent, result>>
  BY DEF Replies, FinishFatal, FinishAnswer, vars
<1>3. /\ reply'.form \in {"sse", "plain"} /\ reply'.status \in {"ok", "error", "bad_gateway"}
      /\ headersSent => reply'.form = "sse" /\ reply'.status = "ok"
      /\ reply'.form = "sse" => headersSent \/ req.stream
  <2>1. CASE FinishFatal
    BY <1>1, <2>1 DEF FinishFatal, ErrorStream
  <2>2. CASE FinishAnswer
    <3>1. reply' = ReplyTo(result) /\ Answered
      BY <2>2 DEF FinishAnswer, Receives, Answered
    <3>2. result.status \in {"ok", "error"}
      BY <3>1 DEF CycleInv, OutcomeInv
    <3>. QED BY <1>1, <3>1, <3>2, ReplyForms
  <2>. QED BY <2>1, <2>2 DEF Replies
<1>4. reply' # NoReply
  BY <1>3 DEF NoReply
<1>. QED BY <1>1, <1>2, <1>3, <1>4

\* Every step keeps the reply what the result makes of it.
LEMMA HandlerStep == CycleInv /\ HandlerInv /\ [HNext]_allVars => HandlerInv'
<1>. SUFFICES ASSUME CycleInv, HandlerInv, [HNext]_allVars PROVE HandlerInv'
  OBVIOUS
<1>0. result.t # "none" => pc = "done"
  BY DEF CycleInv, FallbackInv
<1>1. CASE CycleRuns
  <2>1. UNCHANGED <<hpc, headersSent, reply>>
    BY <1>1 DEF CycleRuns, hvars
  <2>2. UNCHANGED req /\ pc # "done"
    BY <1>1 DEF CycleRuns, CycleStep, UpstreamReturns, CallFails, CallRejected, CallUnparseable,
         CallShapeless, GenerationAccepted, GenerationRetried, RoundFails, RoundStops,
         RoundProbes, RoundKept, Deliver, Answers, settled, env
  <2>3. result.t \in {"none", "gone", "fatal", "answer"}
    BY DEF CycleInv, TypeOK
  <2>4. reply = NoReply
    BY <1>0, <2>2, <2>3 DEF HandlerInv
  <2>. QED BY <2>1, <2>2, <2>4 DEF HandlerInv, AwaitsStream
<1>2. CASE Replies
  <2>1. /\ hpc' = "returned" /\ reply' # NoReply /\ UNCHANGED <<req, headersSent, result>>
    BY <1>2, ReplyWritten
  <2>2. result.t = "answer" \/ result.t = "fatal"
    BY <1>2 DEF Replies, FinishFatal, FinishAnswer, Receives
  <2>3. Answered => reply' = ReplyTo(result)
    BY <1>2 DEF Replies, FinishFatal, FinishAnswer, Receives, Answered
  <2>4. ReplyTo(result)' = ReplyTo(result)
    BY <2>1 DEF ReplyTo, Streamed, ErrorStream
  <2>. QED BY <2>1, <2>2, <2>3, <2>4 DEF HandlerInv, AwaitsStream, Answered
<1>3. CASE GraceExpires
  BY <1>3 DEF GraceExpires, HandlerInv, AwaitsStream, vars
<1>4. CASE HeartbeatFails \/ FinishGone
  <2>1. hpc' = "returned" /\ hpc # "returned" /\ UNCHANGED <<req, headersSent, reply>>
    BY <1>4 DEF HeartbeatFails, FinishGone, Receives, vars
  <2>. QED BY <2>1 DEF HandlerInv, AwaitsStream
<1>5. CASE UNCHANGED <<req, result, hpc, headersSent, reply>>
  BY <1>5 DEF HandlerInv, AwaitsStream, Answered, ReplyTo, Streamed, ErrorStream
<1>. QED BY <1>1, <1>2, <1>3, <1>4, <1>5
      DEF HNext, Replies, PanelToggles, AlertToggled, ClientLeaves, Heartbeat, HandlerReturned,
          allVars, hvars, vars

\* Both halves together are invariant.
LEMMA HandlerInvariant == HSpec => [](CycleInv /\ HandlerInv)
<1>1. HInit => CycleInv /\ HandlerInv
  BY CycleInit, HandlerInit DEF HInit
<1>. QED BY <1>1, CycleKeeps, HandlerStep, PTL DEF HSpec

\* RequestCycle's properties hold with the handler beside the cycle as well, though a handler
\* that gives up leaves the cycle running and a client may go at any point.
THEOREM CycleUnharmed ==
  HSpec => [](/\ AnswerIsKeptRounds /\ UsageIsKeptRounds /\ RejectedFollowUpKeepsAnswer
              /\ ResultIsOneRound /\ CallsBounded)
<1>1. CycleInv => AnswerIsKeptRounds
  BY DEF CycleInv, AnswerInv, AnswerIsKeptRounds
<1>2. CycleInv => RejectedFollowUpKeepsAnswer
  BY DEF CycleInv, FallbackInv, RejectedFollowUpKeepsAnswer
<1>3. CycleInv => CallsBounded
  BY CallInvBounds DEF CycleInv
<1>4. CycleInv => ResultIsOneRound
  BY DEF CycleInv, SourceInv, ResultIsOneRound, OneRound, From, SanitizedFinish
<1>5. CycleInv => UsageIsKeptRounds
  BY DEF CycleInv, UsageInv, UsageIsKeptRounds, KeptCalls
<1>. QED BY <1>1, <1>2, <1>3, <1>4, <1>5, HandlerInvariant, PTL

\* A streaming client reads the text, the tool calls and the finish of the cycle's result, on
\* either side of the grace period, and a client that did not ask to stream the JSON body.
THEOREM ReplyIsTheResult == HSpec => []ReplyCarriesResult
<1>1. CycleInv /\ HandlerInv => ReplyCarriesResult
  <2>. SUFFICES ASSUME CycleInv, HandlerInv, Answered, result.streamable, reply # NoReply
                PROVE  ReplyCarriesResult
    BY DEF ReplyCarriesResult
  <2>1. reply = ReplyTo(result) /\ (headersSent => req.stream) /\ result.bytes = "chat_json"
    BY DEF HandlerInv, AwaitsStream, CycleInv, OutcomeInv
  <2>2. CASE req.stream
    <3>1. PICK st : reply = Streamed(result, st)
      BY <2>1, <2>2 DEF ReplyTo
    <3>2. reply.form = "sse" /\ reply.text = result.text /\ reply.tools = result.tools
          /\ (result.finish # "" => reply.finish = result.finish)
      BY <3>1, StreamedForm
    <3>. QED BY <2>2, <3>2 DEF ReplyCarriesResult
  <2>3. CASE ~req.stream
    <3>1. reply.form = "plain" /\ reply.body = result.bytes /\ reply.text = result.text
      BY <2>1, <2>3 DEF ReplyTo
    <3>. QED BY <2>1, <2>3, <3>1 DEF ReplyCarriesResult
  <2>. QED BY <2>2, <2>3
<1>. QED BY <1>1, HandlerInvariant, PTL

\* A request whose only upstream call was rejected reports the upstream's own status and body
\* if no headers are out, and an error text on the stream if they are.
THEOREM RejectionIsReported == HSpec => []FirstRejectionReported
<1>1. CycleInv /\ HandlerInv => FirstRejectionReported
  <2>. SUFFICES ASSUME CycleInv, HandlerInv, OnlyRejection, reply # NoReply
                PROVE  IF headersSent THEN reply = ErrorStream
                       ELSE reply.form = "plain" /\ reply.status = "error" /\ reply.body = "upstream"
    BY DEF FirstRejectionReported, OnlyRejection
  <2>1. Answered /\ result.status = "error" /\ result.bytes = "upstream" /\ ~result.streamable
    BY DEF CycleInv, RejectInv, HandlerInv, Answered
  <2>2. reply = ReplyTo(result)
    BY <2>1 DEF HandlerInv
  <2>. QED BY <2>1, <2>2 DEF ReplyTo
<1>. QED BY <1>1, HandlerInvariant, PTL
-----------------------------------------------------------------------------
\* The connection of ClientConnection as the handler's state shows it.
LEMMA ClientStart == HInit => Client!Init
<1>. SUFFICES ASSUME HInit PROVE Client!Init
  OBVIOUS
<1>1. hpc = "grace" /\ ~headersSent /\ reply = NoReply /\ ctxDone = FALSE
  BY DEF HInit, Init
<1>2. req.stream \in BOOLEAN
  BY CycleInit DEF HInit, CycleInv, TypeOK, Request
<1>. QED BY <1>1, <1>2 DEF Client!Init

\* Every step of the cycle, of the handler and of the client is a step of the connection, or
\* one the client does not notice.
LEMMA ClientStep == CycleInv /\ HandlerInv /\ [HNext]_allVars => [Client!Next]_(Client!cvars)
<1>. SUFFICES ASSUME CycleInv, HandlerInv, [HNext]_allVars PROVE [Client!Next]_(Client!cvars)
  OBVIOUS
<1>1. CASE UNCHANGED <<req, ctxDone, headersSent, reply>> /\ (hpc' = "returned" <=> hpc = "returned")
  BY <1>1 DEF Client!cvars
<1>2. CASE CycleRuns \/ PanelToggles
  <2>1. UNCHANGED <<req, ctxDone, hpc, headersSent, reply>>
    BY <1>2 DEF CycleRuns, PanelToggles, AlertToggled, CycleStep, UpstreamReturns, CallFails,
         CallRejected, CallUnparseable, CallShapeless, GenerationAccepted, GenerationRetried,
         RoundFails, RoundStops, RoundProbes, RoundKept, Deliver, settled, env, hvars
  <2>. QED BY <1>1, <2>1
<1>3. CASE ClientLeaves
  <2>1. ~ctxDone /\ ctxDone' = TRUE /\ UNCHANGED <<req, hpc, headersSent, reply>>
    BY <1>3 DEF ClientLeaves, hvars
  <2>. QED BY <2>1 DEF Client!Next, Client!Lose
<1>4. CASE GraceExpires
  <2>1. /\ hpc = "grace" /\ hpc' = "ticking" /\ ~headersSent /\ reply = NoReply
        /\ UNCHANGED <<req, ctxDone, reply>>
    BY <1>4 DEF GraceExpires, HandlerInv, vars
  <2>2. CASE AwaitsStream
    <3>1. headersSent' /\ req.stream
      BY <1>4, <2>2 DEF GraceExpires, AwaitsStream
    <3>. QED BY <2>1, <3>1 DEF Client!Next, Client!Commit
  <2>3. CASE ~AwaitsStream
    <3>1. UNCHANGED headersSent
      BY <1>4, <2>3 DEF GraceExpires
    <3>. QED BY <1>1, <2>1, <3>1
  <2>. QED BY <2>2, <2>3
<1>5. CASE HeartbeatFails \/ FinishGone
  <2>1. /\ hpc # "returned" /\ hpc' = "returned" /\ reply = NoReply
        /\ UNCHANGED <<req, headersSent, reply>>
    BY <1>5 DEF HeartbeatFails, FinishGone, Receives, HandlerInv, vars
  <2>2. ctxDone' = TRUE
    <3>1. CASE HeartbeatFails
      BY <3>1 DEF HeartbeatFails
    <3>2. CASE FinishGone
      BY <3>2 DEF FinishGone, Receives, vars, CycleInv, OutcomeInv, TypeOK
    <3>. QED BY <1>5, <3>1, <3>2
  <2>. QED BY <2>1, <2>2 DEF Client!Next, Client!Abandon
<1>6. CASE Replies
  <2>1. /\ reply = NoReply /\ hpc # "returned" /\ hpc' = "returned"
        /\ reply'.form \in {"sse", "plain"} /\ reply' # NoReply
        /\ reply'.status \in {"ok", "error", "bad_gateway"}
        /\ headersSent => reply'.form = "sse" /\ reply'.status = "ok"
        /\ reply'.form = "sse" => headersSent \/ req.stream
        /\ UNCHANGED <<req, ctxDone, headersSent>>
    BY <1>6, ReplyWritten
  <2>2. CASE headersSent
    BY <2>1, <2>2 DEF Client!Next, Client!ReplyOnStream
  <2>3. CASE ~headersSent
    BY <2>1, <2>3 DEF Client!Next, Client!ReplyFresh, Client!Statuses
  <2>. QED BY <2>2, <2>3
<1>7. CASE Heartbeat \/ HandlerReturned \/ UNCHANGED allVars
  BY <1>1, <1>7 DEF Heartbeat, HandlerReturned, allVars, hvars, vars
<1>. QED BY <1>2, <1>3, <1>4, <1>5, <1>6, <1>7 DEF HNext, Replies

\* The handler implements ClientConnection, but for its liveness: at most one status line,
\* keepalives only on a stream the client asked for, one reply under the status that is
\* already out, nothing after it, and nobody given up who has not gone.
THEOREM PromiseIsKept == HSpec => Client!Init /\ [][Client!Next]_(Client!cvars)
<1>. QED BY ClientStart, ClientStep, HandlerInvariant, PTL DEF HSpec
=============================================================================
