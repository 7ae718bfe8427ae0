----------------------------- MODULE Inspection -----------------------------
(***************************************************************************)
(* What is found wrong with an answer, and what a retry does about it:     *)
(* DetectIssue (V0.2/detect.go) and adjustForIssue (proxy.go:2046-2143) in *)
(* the attempts and alert rounds of one request, whose body they share.    *)
(*                                                                         *)
(* A text is a sequence of items: brackets, quotes, escapes, code fences,  *)
(* whole blocks of bad JSON, blanks and words.  Sampling numbers are       *)
(* integers, in units that the increments of [retry] are multiples of.     *)
(***************************************************************************)
EXTENDS Integers, FiniteSets, SequencesExt

CONSTANTS
  Texts,           \* what the first attempt of a request may bring
  LaterTexts,      \* bound: what any other attempt may
  NgramSize, MinRepeats, WindowWords,                       \* [detection]
  MultiplierTenths, MaxTokensCeiling,
  DryStep, PenaltyStep, StepExponent,                       \* [retry]
  Floor, Decrement, Ceiling, Increment,
  MaxRetries, MaxRounds,
  Bodies,          \* the numbers of a request: temperature, its own or a preset's, and
                   \*  cap, its max_tokens, 0: unset, as no preset sets it
  Usages,          \* what the upstream may say it has generated, 0: nothing said
  UnknownCap       \* what is assumed if neither is known (512, proxy.go:2105)

ASSUME InspectionAssumption ==
  /\ NgramSize \in Nat /\ MinRepeats \in Nat /\ WindowWords \in Int
  /\ MaxRetries \in Nat /\ MaxRounds \in Nat /\ Usages \subseteq Nat /\ StepExponent \in Nat \ {0}

VARIABLES
  body,     \* the numbers of the request body
  attempt,  \* of this round
  round,    \* alert rounds so far
  config,   \* repetition_requires_length_finish and prefer_dry_over_repeat_penalty
  text,     \* the content of the last answer
  finish,   \* its finish_reason, "" while it is awaited
  calls,    \* whether it has tool calls
  used,     \* its completion_tokens, 0: not reported
  verdict   \* finalIssue

answer == <<text, finish, calls, used>>
vars == <<body, attempt, round, config, answer, verdict>>

None == ""
Guarded == "reasoning_budget_exceeded"

Blank == " "
Escape == "escape"
Fence == "fence"
BadJSON == "block of bad JSON"
Quotes == {"apostrophe", "quote"}
Closer == [o \in {"(", "["} |-> IF o = "(" THEN ")" ELSE "]"]
Openers == DOMAIN Closer
Closers == {Closer[o] : o \in Openers}
-----------------------------------------------------------------------------
(* DetectIssue *)

Words(t) == SelectSeq(t, LAMBDA item : item # Blank)

Gram(words, i) == SubSeq(words, i, i + NgramSize - 1)
Starts(words) == 1 .. (Len(words) - NgramSize + 1)

\* positions[gram] when the scan is at i, in order.
Occurrences(words, i) ==
  SetToSortSeq({k \in Starts(words) : k <= i /\ Gram(words, k) = Gram(words, i)}, <)

\* A wrong Clustered: the first occurrences must fit in the window.
ClusteredFirst(occ) == occ[MinRepeats] - occ[1] <= WindowWords

\* The most recent MinRepeats occurrences fit in the window.
Clustered(occ) == occ[Len(occ)] - occ[Len(occ) - MinRepeats + 1] <= WindowWords

FindRepeatedNgram(t) ==
  LET words == Words(t)
  IN  /\ NgramSize > 0 /\ MinRepeats > 1 /\ Len(words) >= NgramSize * MinRepeats
      /\ \E i \in Starts(words) :
           LET occ == Occurrences(words, i)
           IN  Len(occ) >= MinRepeats /\ (WindowWords <= 0 \/ Clustered(occ))

\* The scanner of isBalanced: quote is the string's that is open, or None.
Balancing == [ok |-> TRUE, stack |-> <<>>, quote |-> None, escaped |-> FALSE]

ScanString(s, item) ==
  IF s.escaped THEN [s EXCEPT !.escaped = FALSE]
  ELSE IF item = Escape THEN [s EXCEPT !.escaped = TRUE]
  ELSE IF item = s.quote THEN [s EXCEPT !.quote = None] ELSE s

ScanCode(s, item) ==
  CASE item \in Quotes -> [s EXCEPT !.quote = item]
    [] item \in Openers -> [s EXCEPT !.stack = Append(@, item)]
    [] item \in Closers ->
         IF s.stack # <<>> /\ Closer[Last(s.stack)] = item
         THEN [s EXCEPT !.stack = Front(@)] ELSE [s EXCEPT !.ok = FALSE]
    [] OTHER -> s

Scan(s, item) ==
  IF ~s.ok THEN s ELSE IF s.quote # None THEN ScanString(s, item) ELSE ScanCode(s, item)

IsBalanced(t) ==
  LET s == FoldLeft(Scan, Balancing, t)
  IN  /\ s.ok /\ s.quote = None /\ s.stack = <<>>
      /\ Len(SelectSeq(t, LAMBDA item : item = Fence)) % 2 = 0

HasBadSyntax(t) == Contains(t, BadJSON)

DetectIssue(t, f, hasToolCalls) ==
  IF ~hasToolCalls /\ Words(t) = <<>> THEN "empty"
  ELSE IF (~config.requiresLength \/ f = "length") /\ FindRepeatedNgram(t) THEN "repetition"
  ELSE IF f = "length" /\ ~IsBalanced(t) THEN "truncated"
  ELSE IF HasBadSyntax(t) THEN "bad_syntax" ELSE None
-----------------------------------------------------------------------------
(* adjustForIssue *)

Step == StepExponent ^ attempt

AtMost(x, top) == IF x > top THEN top ELSE x
AtLeast(x, bottom) == IF x < bottom THEN bottom ELSE x

\* A wrong NextDry, an earlier version's (proxy_test.go:568-572): from scratch each time.
NextDryFromScratch == DryStep * Step

NextDry == body.dry + DryStep * Step

\* What the retry takes for the cap that was hit.
CapHit == IF used > 0 THEN used ELSE IF body.cap > 0 THEN body.cap ELSE UnknownCap

AdjustForIssue ==
  CASE verdict \in {"repetition", "reasoning_loop"} ->
         IF config.preferDry THEN [body EXCEPT !.dry = NextDry]
         ELSE [body EXCEPT !.penalty = @ + PenaltyStep * Step]
    [] verdict = "truncated" ->
         [body EXCEPT !.cap = AtMost((CapHit * MultiplierTenths) \div 10, MaxTokensCeiling)]
    [] verdict = "bad_syntax" ->
         [body EXCEPT !.temperature = AtLeast(@ - Decrement * Step, Floor)]
    [] verdict = "empty" ->
         [body EXCEPT !.temperature = AtMost(@ + Increment * Step, Ceiling)]
-----------------------------------------------------------------------------
Awaited == /\ text' = <<>> /\ finish' = "" /\ calls' = FALSE /\ used' = 0 /\ verdict' = None

Init ==
  /\ \E b \in Bodies :
       body = [dry |-> 0, penalty |-> 20, temperature |-> b.temperature, cap |-> b.cap]
  /\ attempt = 0 /\ round = 0 /\ config \in [requiresLength : BOOLEAN, preferDry : BOOLEAN]
  /\ text = <<>> /\ finish = "" /\ calls = FALSE /\ used = 0 /\ verdict = None

\* The upstream answers.  Any content may come to a limit, reasoning being among the tokens,
\* and the limit need not be the cap of the body: the context window may be full, and a
\* provider may have a lower cap of its own, or heed none.
Answers ==
  /\ finish = ""
  /\ text' \in (IF attempt = 0 /\ round = 0 THEN Texts ELSE LaterTexts)
  /\ calls' \in BOOLEAN
  /\ \/ finish' = "stop" /\ used' = 0
     \/ finish' = "tool_calls" /\ calls' /\ used' = 0
     \/ finish' = "length" /\ used' \in Usages
  /\ verdict' = DetectIssue(text', finish', calls')
  /\ UNCHANGED <<body, attempt, round, config>>

\* The reasoning guard has cut it off; what there is of a content is not inspected.
GuardCuts ==
  /\ finish = "" /\ finish' = Guarded /\ verdict' = "reasoning_loop"
  /\ UNCHANGED <<body, attempt, round, config, text, calls, used>>

Retries ==
  /\ verdict # None /\ attempt < MaxRetries
  /\ body' = AdjustForIssue /\ attempt' = attempt + 1
  /\ Awaited /\ UNCHANGED <<round, config>>

\* An alert round counts its attempts anew, and goes on with the same body.
NextRound ==
  /\ finish = "stop" /\ (verdict = None \/ attempt = MaxRetries) /\ round < MaxRounds
  /\ round' = round + 1 /\ attempt' = 0
  /\ Awaited /\ UNCHANGED <<body, config>>

Next == Answers \/ GuardCuts \/ Retries \/ NextRound

Spec == Init /\ [][Next]_vars
-----------------------------------------------------------------------------
(* What the verdicts mean *)

\* MinRepeats places with the same words, no further apart than the window.
Loops(words) ==
  /\ NgramSize > 0 /\ MinRepeats > 1 /\ Len(words) >= NgramSize * MinRepeats
  /\ \E S \in SUBSET Starts(words) :
       /\ Cardinality(S) = MinRepeats
       /\ \A i, k \in S :
            Gram(words, i) = Gram(words, k) /\ (WindowWords <= 0 \/ i - k <= WindowWords)

Between(span, i) == span[1] < i /\ i < span[2]
Within(span, i) == span[1] <= i /\ i <= span[2]

\* Item k of the string that begins at a is escaped: an odd run of escapes precedes it.
Escaped(t, a, k) ==
  Cardinality({j \in a + 1 .. k - 1 : \A m \in j .. k - 1 : t[m] = Escape}) % 2 = 1

IsString(t, span) ==
  LET Ends(k) == t[k] = t[span[1]] /\ ~Escaped(t, span[1], k)
  IN  t[span[1]] \in Quotes /\ Ends(span[2]) /\ \A k \in 1 .. Len(t) : Between(span, k) => ~Ends(k)

Spans(t) == {span \in (1 .. Len(t)) \X (1 .. Len(t)) : span[1] < span[2]}

\* Every quote belongs to a string and every bracket outside of strings to a pair, and
\* pairs do not cross.
Complete(t) ==
  \E strings \in SUBSET {span \in Spans(t) : IsString(t, span)},
     pairs \in SUBSET {span \in Spans(t) :
                         t[span[1]] \in Openers /\ t[span[2]] = Closer[t[span[1]]]} :
    LET InString(i) == \E s \in strings : Within(s, i)
        Brackets == {i \in 1 .. Len(t) : t[i] \in Openers \union Closers /\ ~InString(i)}
    IN  /\ \A s, u \in strings : s # u => s[2] < u[1] \/ u[2] < s[1]
        /\ \A i \in 1 .. Len(t) : t[i] \in Quotes => InString(i)
        /\ \A i \in Brackets : Cardinality({p \in pairs : i \in {p[1], p[2]}}) = 1
        /\ \A p \in pairs : {p[1], p[2]} \subseteq Brackets
        /\ \A p, q \in pairs : Between(p, q[1]) <=> Between(p, q[2])

\* An answer is blamed for the first thing that is wrong with it, and for nothing else:
\* no text and no tool call; a loop it did not come out of; an end in the middle of a
\* string, of brackets or of a fence; JSON that does not parse (detect.go:43-55).
VerdictIsRight ==
  finish \notin {"", Guarded} =>
    LET empty == ~calls /\ \A i \in DOMAIN text : text[i] = Blank
        loops == (config.requiresLength => finish = "length") /\ Loops(Words(text))
        fences == {i \in DOMAIN text : text[i] = Fence}
        cut == finish = "length" /\ ~(Complete(text) /\ Cardinality(fences) % 2 = 0)
    IN  /\ verdict = "empty" <=> empty
        /\ verdict = "repetition" <=> ~empty /\ loops
        /\ verdict = "truncated" <=> ~empty /\ ~loops /\ cut
        /\ verdict = "bad_syntax" <=>
             ~empty /\ ~loops /\ ~cut /\ \E i \in DOMAIN text : text[i] = BadJSON

\* No retry asks for what has just failed.  DRY, penalty and temperature go on in the direction
\* that the verdict asks for, from where earlier retries and rounds have left them, until they
\* are at their limit (proxy.go:2081-2089).  The cap is put above what the cut-off answer used, or
\* if that is not known above the cap it ran with (proxy.go:2061-2069); it may be lower than
\* that cap was, when the answer was cut off before it.  One token times the multiplier is one
\* again.
RetriesEscalate ==
  [][Retries =>
       CASE verdict \in {"repetition", "reasoning_loop"} ->
              body'.dry > body.dry \/ body'.penalty > body.penalty
         [] verdict = "truncated" ->
              LET hit == IF used > 0 THEN used ELSE body.cap
              IN  body'.cap > hit \/ body'.cap = MaxTokensCeiling \/ hit = 1
         [] verdict = "bad_syntax" ->
              body'.temperature < body.temperature \/ body'.temperature = Floor
         [] verdict = "empty" ->
              body'.temperature > body.temperature \/ body'.temperature = Ceiling]_vars
=============================================================================
