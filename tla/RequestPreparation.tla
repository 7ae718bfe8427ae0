------------------------- MODULE RequestPreparation -------------------------
(***************************************************************************)
(* What the proxy makes of a request before it is sent upstream: the       *)
(* synchronous part of handleClassified (V0.2/proxy.go:727-819), with      *)
(* toolschema.go, classify.go and vision_describe.go.                      *)
(*                                                                         *)
(* The handlers of concurrent requests read the switches of the panel one  *)
(* by one while these change, and share the cache of image descriptions,   *)
(* whose lock is not held while a description is being made.               *)
(*                                                                         *)
(* A content is a sequence of items, with a shape: "text" (a string, whose *)
(* items are what it is made of), "parts" (an array), "none" (absent).     *)
(***************************************************************************)
EXTENDS Integers, FiniteSets, SequencesExt

CONSTANTS
  Requests,     \* the requests
  Inputs,       \* the bodies clients send
  Images,       \* the URLs of images, data: URIs mostly
  Strip,        \* the schema constraints [tool_schema_sanitizer] strips, {}: disabled
  Prompts,      \* the names of [system_prompt.*]
  Buckets,      \* the task buckets
  Priority,     \* [classification] priority_order
  DefaultBucket,
  Keywords(_),  \* the buckets of which an item contains a keyword: none for what is no text
  PresetFields, \* what the preset of a bucket sets, injectThinkingBudget applied
  ProviderModel,\* the provider's configured model or ""
  Models,       \* what the panel's model picker offers
  Restored,     \* the settings the process may start with: defaults, or the state file's
  MaxRetries,   \* [server] max_retries
  Chunks,       \* bound: the pieces of a whole description
  MaxSwitches   \* bound: changes of the panel's switches

Message(role, shape, content) == [role |-> role, shape |-> shape, content |-> content]

IsSequence(s) == s \in Seq(ToSet(s))

\* What a client's messages are made of: none of what the proxy puts into them.
ClientMessages(messages) ==
  /\ IsSequence(messages)
  /\ \A m \in DOMAIN messages :
       /\ messages[m] = Message(messages[m].role, messages[m].shape, messages[m].content)
       /\ IsSequence(messages[m].content)
       /\ messages[m].shape = "none" => messages[m].content = <<>>
       /\ \A k \in DOMAIN messages[m].content :
            messages[m].content[k].kind \in {"text", "image", "other"}

ASSUME PreparationAssumption ==
  /\ DefaultBucket \in Buckets /\ Priority \in Seq(Buckets)
  /\ MaxRetries \in Nat \ {0} /\ Chunks \in Nat \ {0} /\ MaxSwitches \in Nat
  /\ "" \notin Prompts \union Models \union Buckets \union Images
  /\ \A b \in Inputs : /\ {"form", "messages", "tools", "set", "preset", "model"} \subseteq DOMAIN b
                       /\ b.preset = ""  \* no preset has been applied
                       /\ ClientMessages(b.messages)

VARIABLES
  phase,     \* "new", "parsed", "prompted", "describing", "described", "labelled",
             \*  "sampled"; at last "cycle", "raw" or "failed"
  body,      \* the request body
  original,  \* history: the body as the client sent it
  seesImages,\* history: whether the request found vision-describe on
  bypass,    \* the handler's local
  bucket,    \* the handler's local
  retries,   \* maxRetries of the cycle that is started
  call,      \* the VLM call in flight: its number, and the pieces received
  cache,     \* imageDescCache
  calls,     \* the VLM calls so far
  ended,     \* history: the calls whose stream the VLM has ended itself
  live,      \* the settings of the ProxyServer the panel changes
  switched   \* how often it did

handlers == <<phase, body, original, seesImages, bypass, bucket, retries>>
describing == <<call, cache, calls, ended>>
panel == <<live, switched>>
vars == <<handlers, describing, panel>>

NoCall == [number |-> 0, got |-> 0]
NoURL == ""

Text(t) == [kind |-> "text", of |-> t]
Prompt(name) == [kind |-> "prompt", of |-> name]
Image(url) == [kind |-> "image", of |-> url]
Unavailable == [kind |-> "unavailable", of |-> NoURL]
Described(url, d) == [kind |-> "described", of |-> url, description |-> d]

\* The bodies: messages (chat), a prompt (native completion) or neither.
EmptyBody ==
  [form |-> "neither", messages |-> <<>>, tools |-> {}, set |-> {}, preset |-> "", model |-> "client"]

Init ==
  /\ phase = [r \in Requests |-> "new"]
  /\ body = [r \in Requests |-> EmptyBody] /\ original = body
  /\ seesImages = [r \in Requests |-> FALSE] /\ bypass = seesImages
  /\ bucket = [r \in Requests |-> DefaultBucket]
  /\ retries = [r \in Requests |-> 0]
  /\ call = [r \in Requests |-> NoCall]
  /\ cache = [i \in Images |-> NoCall] /\ calls = 0 /\ ended = {}
  /\ live \in Restored
  /\ switched = 0
-----------------------------------------------------------------------------
(* What is done to a body *)

\* The schema keywords a walk descends through.
Walked == {"properties", "items", "anyOf", "oneOf", "allOf", "$defs", "definitions",
           "additionalProperties"}

\* A constraint of a tool's parameters is a keyword and the keywords that lead to it.  The
\* name of a property is no keyword: it is never stripped.
SanitizeToolSchemas(tools) ==
  {c \in tools : ~(c.keyword \in Strip /\ c.under \subseteq Walked)}

IsSystem(m) == m.role = "system"

WithPrompt(m, prompt) ==
  [m EXCEPT !.content = IF m.shape = "none" THEN <<prompt>> ELSE Cons(prompt, @),
            !.shape = IF @ = "none" THEN "text" ELSE @]

\* A wrong InjectSystemPrompt, an earlier version's (proxy.go:1651-1656): it merges into a
\* string only.
InjectIntoStrings(messages, name) ==
  LET i == SelectInSeq(messages, LAMBDA m : IsSystem(m) /\ m.shape = "text")
  IN  IF name \notin Prompts THEN messages
      ELSE IF i = 0 THEN Cons(Message("system", "text", <<Prompt(name)>>), messages)
      ELSE Cons(WithPrompt(messages[i], Prompt(name)), RemoveAt(messages, i))

\* The first system message gets the prompt and becomes the first of all.
InjectSystemPrompt(messages, name) ==
  LET i == SelectInSeq(messages, IsSystem)
  IN  IF name \notin Prompts THEN messages
      ELSE IF i = 0 THEN Cons(Message("system", "text", <<Prompt(name)>>), messages)
      ELSE Cons(WithPrompt(messages[i], Prompt(name)), RemoveAt(messages, i))

\* The last user message, or the prompt.
ClassificationText(b) ==
  LET i == SelectLastInSeq(b.messages, LAMBDA m : m.role = "user")
  IN  IF i = 0 THEN {} ELSE ToSet(b.messages[i].content)

\* The first bucket by priority of which the text has a keyword.
Classify(text) ==
  LET i == SelectInSeq(Priority, LAMBDA b : \E item \in text : b \in Keywords(item))
  IN  IF i = 0 THEN DefaultBucket ELSE Priority[i]

ApplyPreset(b, to) == [b EXCEPT !.preset = IF PresetFields \subseteq b.set THEN "" ELSE to]
-----------------------------------------------------------------------------
(* The handler *)

\* The body cannot be read, is not JSON, or is one.
Arrives(r) ==
  /\ phase[r] = "new"
  /\ \/ phase' = [phase EXCEPT ![r] = "failed"] /\ UNCHANGED <<body, original>>
     \/ phase' = [phase EXCEPT ![r] = "raw"] /\ UNCHANGED <<body, original>>
     \/ \E b \in Inputs :
          /\ phase' = [phase EXCEPT ![r] = "parsed"]
          /\ original' = [original EXCEPT ![r] = b]
          /\ body' = [body EXCEPT ![r] = [b EXCEPT !.tools = SanitizeToolSchemas(@)]]
  /\ UNCHANGED <<seesImages, bypass, bucket, retries, describing, panel>>

ReadsSystemPrompt(r) ==
  /\ phase[r] = "parsed" /\ phase' = [phase EXCEPT ![r] = "prompted"]
  /\ body' = IF body[r].form = "messages"
             THEN [body EXCEPT ![r].messages = InjectSystemPrompt(@, live.prompt)] ELSE body
  /\ UNCHANGED <<original, seesImages, bypass, bucket, retries, describing, panel>>

ReadsVision(r) ==
  /\ phase[r] = "prompted"
  /\ seesImages' = [seesImages EXCEPT ![r] = live.vision /\ body[r].form = "messages"]
  /\ phase' = [phase EXCEPT ![r] = IF seesImages'[r] THEN "describing" ELSE "described"]
  /\ UNCHANGED <<body, original, bypass, bucket, retries, describing, panel>>

ReadsBypass(r) ==
  /\ phase[r] = "described" /\ phase' = [phase EXCEPT ![r] = "labelled"]
  /\ bypass' = [bypass EXCEPT ![r] = live.bypass]
  /\ UNCHANGED <<body, original, seesImages, bucket, retries, describing, panel>>

ClassifyOrForced(b) ==
  IF live.forced # "" THEN live.forced ELSE Classify(ClassificationText(b))

\* The label of the request, and the preset of that label.
ReadsForcedBucket(r) ==
  /\ phase[r] = "labelled" /\ phase' = [phase EXCEPT ![r] = "sampled"]
  /\ \E b \in {ClassifyOrForced(body[r])} :
       /\ bucket' = [bucket EXCEPT ![r] = b]
       /\ body' = IF bypass[r] THEN body ELSE [body EXCEPT ![r] = ApplyPreset(@, b)]
  /\ UNCHANGED <<original, seesImages, bypass, retries, describing, panel>>

\* A wrong RetriesOf: the switch is read again.
RetriesOfNow(r) == IF live.bypass THEN 0 ELSE MaxRetries

RetriesOf(r) == IF bypass[r] THEN 0 ELSE MaxRetries

\* The model override wins over the provider's model, and that over the client's.
ReadsModel(r) ==
  /\ phase[r] = "sampled" /\ phase' = [phase EXCEPT ![r] = "cycle"]
  /\ body' = [body EXCEPT ![r].model =
       IF live.model # "" THEN live.model
       ELSE IF ProviderModel # "" THEN ProviderModel ELSE @]
  /\ retries' = [retries EXCEPT ![r] = RetriesOf(r)]
  /\ UNCHANGED <<original, seesImages, bypass, bucket, describing, panel>>
-----------------------------------------------------------------------------
(* describeImagesInPlace *)

\* Where the items of some kinds are: in which message, and where in its content.
Places(messages, kinds) ==
  UNION {{<<m, k>> : k \in {k \in DOMAIN messages[m].content :
                              messages[m].content[k].kind \in kinds}} : m \in DOMAIN messages}

\* Where the images are that have not been replaced, and the first of them.
ImagesIn(messages) == Places(messages, {"image"})

NextImage(r) ==
  LET places == ImagesIn(body[r].messages)
  IN  CHOOSE p \in places : \A q \in places : p[1] < q[1] \/ (p[1] = q[1] /\ p[2] <= q[2])

URLAt(r, p) == body[r].messages[p[1]].content[p[2]].of

Describing(r) == phase[r] = "describing" /\ ImagesIn(body[r].messages) # {}

\* The part is replaced by a text.
Replaced(r, item) ==
  LET p == NextImage(r)
  IN  body' = [body EXCEPT ![r].messages[p[1]].content[p[2]] = item]

NoCallOn(r) == call[r] = NoCall

\* A part without a URL, or whose description is in the cache.
FindsDescription(r) ==
  /\ Describing(r) /\ NoCallOn(r)
  /\ LET url == URLAt(r, NextImage(r))
     IN  \/ url = NoURL /\ Replaced(r, Unavailable)
         \/ url # NoURL /\ cache[url] # NoCall /\ Replaced(r, Described(url, cache[url]))
  /\ UNCHANGED <<phase, original, seesImages, bypass, bucket, retries, describing, panel>>

MustDescribe(url) == url # NoURL /\ cache[url] = NoCall

\* callVisionModel, after the lock has been released.
CallsVision(r) ==
  /\ Describing(r) /\ NoCallOn(r) /\ MustDescribe(URLAt(r, NextImage(r)))
  /\ calls' = calls + 1 /\ call' = [call EXCEPT ![r] = [number |-> calls + 1, got |-> 0]]
  /\ UNCHANGED <<handlers, cache, ended, panel>>

VisionStreams(r) ==
  /\ ~NoCallOn(r) /\ call[r].got < Chunks /\ call' = [call EXCEPT ![r].got = @ + 1]
  /\ UNCHANGED <<handlers, cache, calls, ended, panel>>

Hangup(r) == call' = [call EXCEPT ![r] = NoCall]

\* [DONE] or a clean end of the stream, after which the two cannot be told apart; a blank
\* answer counts as a failure.
VisionEnds(r) ==
  /\ ~NoCallOn(r) /\ Hangup(r) /\ ended' = ended \union {call[r].number}
  /\ LET url == URLAt(r, NextImage(r))
     IN  IF call[r].got = 0 THEN Replaced(r, Unavailable) /\ UNCHANGED cache
         ELSE /\ cache' = [cache EXCEPT ![url] = call[r]]
              /\ Replaced(r, Described(url, call[r]))
  /\ UNCHANGED <<phase, original, seesImages, bypass, bucket, retries, calls, panel>>

\* A wrong VisionFails: the scanner's error is not looked at.
VisionFailsUnnoticed(r) ==
  /\ ~NoCallOn(r) /\ Hangup(r)
  /\ LET url == URLAt(r, NextImage(r))
     IN  IF call[r].got = 0 THEN Replaced(r, Unavailable) /\ UNCHANGED cache
         ELSE /\ cache' = [cache EXCEPT ![url] = call[r]]
              /\ Replaced(r, Described(url, call[r]))
  /\ UNCHANGED <<phase, original, seesImages, bypass, bucket, retries, calls, ended, panel>>

\* A wrong VisionFails: a limit on the time to the first byte only.
VisionFailsBeforeStream(r) ==
  /\ ~NoCallOn(r) /\ call[r].got = 0 /\ Hangup(r) /\ Replaced(r, Unavailable)
  /\ UNCHANGED <<phase, original, seesImages, bypass, bucket, retries, cache, calls, ended, panel>>

\* Unreachable, an error status, a broken stream, the two minutes, or the client has gone.
VisionFails(r) ==
  /\ ~NoCallOn(r) /\ Hangup(r) /\ Replaced(r, Unavailable)
  /\ UNCHANGED <<phase, original, seesImages, bypass, bucket, retries, cache, calls, ended, panel>>

\* What a sequence holds at some places, in its order.
Only(seq, places) ==
  LET taken[n \in 0..Len(seq)] ==
        IF n = 0 THEN <<>>
        ELSE IF n \in places THEN Append(taken[n - 1], seq[n]) ELSE taken[n - 1]
  IN  taken[Len(seq)]

\* A wrong Flattened: a message without images stays as it is.
FlattenedIfDescribed(m) ==
  IF \E k \in DOMAIN m.content : m.content[k].kind \in {"described", "unavailable"}
  THEN Message(m.role, "text", Only(m.content, {k \in DOMAIN m.content : m.content[k].kind # "other"}))
  ELSE m

\* Every array has become a string; parts that are neither text nor image are dropped.
Flattened(m) ==
  IF m.shape # "parts" THEN m
  ELSE Message(m.role, "text", Only(m.content, {k \in DOMAIN m.content : m.content[k].kind # "other"}))

AllDescribed(r) ==
  /\ phase[r] = "describing" /\ ~Describing(r) /\ phase' = [phase EXCEPT ![r] = "described"]
  /\ body' = [body EXCEPT ![r].messages = [m \in DOMAIN @ |-> Flattened(@[m])]]
  /\ UNCHANGED <<original, seesImages, bypass, bucket, retries, describing, panel>>
-----------------------------------------------------------------------------
(* The control panel *)

Settings ==
  [prompt |-> Prompts \union {""}, vision |-> BOOLEAN, bypass |-> BOOLEAN,
   forced |-> Buckets \union {""}, model |-> Models \union {""}]

PanelSets ==
  /\ switched < MaxSwitches /\ switched' = switched + 1
  /\ \E key \in DOMAIN live : \E value \in Settings[key] \ {live[key]} :
       live' = [live EXCEPT ![key] = value]
  /\ UNCHANGED <<handlers, describing>>

Prepares(r) ==
  \/ ReadsSystemPrompt(r) \/ ReadsVision(r) \/ FindsDescription(r) \/ CallsVision(r)
  \/ VisionFails(r) \/ AllDescribed(r) \/ ReadsBypass(r) \/ ReadsForcedBucket(r) \/ ReadsModel(r)

Prepared(r) == phase[r] \in {"cycle", "raw", "failed"}

\* Not an action of the program: all requests have been prepared.
Terminated == (\A r \in Requests : Prepared(r)) /\ UNCHANGED vars

Next ==
  \/ \E r \in Requests : Arrives(r) \/ Prepares(r) \/ VisionStreams(r) \/ VisionEnds(r)
  \/ PanelSets
  \/ Terminated

Spec == Init /\ [][Next]_vars

\* The handlers run, and the two minutes pass (vision_describe.go:37, 231).  Nothing is
\* expected of the VLM.
FairSpec == Spec /\ \A r \in Requests : WF_vars(Prepares(r))
-----------------------------------------------------------------------------
\* What is the client's own in each of a list of messages: its texts, without what the proxy
\* has added and without what it replaces.
Own(messages) ==
  [m \in DOMAIN messages |->
     [role |-> messages[m].role,
      texts |-> Only(messages[m].content,
                     {k \in DOMAIN messages[m].content : messages[m].content[k].kind = "text"})]]

\* What the client said, message by message, and what it said as the system, in messages that
\* say something.
Said(messages) ==
  <<Only(Own(messages), {m \in DOMAIN messages : ~IsSystem(messages[m])}),
    Only(Own(messages), {m \in DOMAIN messages : IsSystem(messages[m])
                                                 /\ Own(messages)[m].texts # <<>>})>>

\* The messages that hold the prompt, and the system messages.
Prompted(messages) ==
  {m \in DOMAIN messages :
     \E k \in DOMAIN messages[m].content : messages[m].content[k].kind = "prompt"}
Systems(messages) == {m \in DOMAIN messages : IsSystem(messages[m])}

\* The client's words reach the model in the client's order, whatever is injected, moved and
\* described, and a system prompt adds no second system message and stands first: a chat
\* template rejects anything else (proxy.go:1644-1667, vision_describe.go:67-79).
ClientIsHeard ==
  \A r \in Requests : phase[r] = "cycle" =>
    LET now == body[r].messages
        then == original[r].messages
    IN  /\ Said(now) = Said(then)
        /\ Prompted(now) # {} =>
             /\ Prompted(now) = {1} /\ IsSystem(now[1]) /\ now[1].content[1].kind = "prompt"
             /\ Cardinality(Systems(now)) = (IF Systems(then) = {} THEN 1 ELSE Cardinality(Systems(then)))

\* A request that found vision-describe on reaches the model as text only, one text for each
\* image, however its describe calls end (vision_describe.go:67-79).
OnlyTextReaches ==
  \A r \in Requests : seesImages[r] /\ phase[r] = "cycle" =>
    /\ \A m \in DOMAIN body[r].messages : body[r].messages[m].shape # "parts"
    /\ Cardinality(Places(body[r].messages, {"described", "unavailable"}))
         = Cardinality(Places(original[r].messages, {"image"}))

\* What is cached, and kept for good, is what the VLM said on a stream that it ended itself:
\* never what a timeout, a broken connection or a client that left has cut off, and never
\* nothing (vision_describe.go:153-164, 284-292).
CacheHoldsAnswers ==
  \A i \in Images : cache[i] # NoCall => cache[i].number \in ended /\ cache[i].got > 0

\* A request is either tuned and retried or passed through and called once, whatever the
\* switches do while it is prepared; the preset is that of the bucket that is reported
\* (proxy.go:783-792, 837-840).
PassThroughIsWhole ==
  \A r \in Requests : phase[r] = "cycle" =>
    LET tuned == ~(PresetFields \subseteq original[r].set)
    IN  body[r].preset = (IF retries[r] > 0 /\ tuned THEN bucket[r] ELSE "")

\* A request that has arrived is sent on, although the VLM may hang (vision_describe.go:33-37,
\* 75-79).
PreparationEnds == \A r \in Requests : phase[r] # "new" ~> Prepared(r)
=============================================================================
